------------------------------ MODULE KeysetList ------------------------------
(***************************************************************************)
(* The lists of jobs, candidates, applicants and activity, read a page at  *)
(* a time by keyset (services/pagination.ts, the sorts in applications.ts, *)
(* jobs.ts and candidates.ts), and the CSV export of candidates, read a    *)
(* batch at a time the same way, while rows come, go and change their key. *)
(* A cursor is the key and the id of a row as it was when it was shown.    *)
(***************************************************************************)
EXTENDS Naturals, Sequences, FiniteSets, SequencesExt

CONSTANTS
  Ids,         \* naturals, as ids are ordered
  Keys,        \* scores, titles or times, naturals
  PageSize,    \* PAGE_SIZE, CSV_EXPORT_BATCH
  MaxChanges,  \* bound: rows added, removed or changed
  Absent,      \* no such row
  None         \* SQL NULL, and no cursor

VARIABLES
  view,     \* the sort and how it is read, chosen once
  row,      \* the key of each row of the list
  page,     \* the rows shown or exported last, and the cursors to go on from them
  walk,     \* the rows met since the first page, in order
  steady,   \* the rows that were there, with one key, all that time
  changes

vars == <<view, row, page, walk, steady, changes>>

Cursor == [key: Keys \cup {None}, id: Ids]

\* What the constants must be; the module that instantiates this one assumes it.
KeysetAssumption ==
  /\ Ids \subseteq Nat /\ IsFiniteSet(Ids)
  /\ Keys \subseteq Nat
  /\ PageSize \in Nat \ {0}
  /\ MaxChanges \in Nat
  /\ {None, Absent} \cap Nat = {} /\ None # Absent
  /\ None \notin Cursor

Sorts == {"score", "title", "createdAt"}

TypeOK ==
  /\ view \in [sort: Sorts, direction: {"asc", "desc"}, by: {"pages", "export"}]
  /\ row \in [Ids -> Keys \cup {None, Absent}]
  /\ page \in [items: Seq(Ids), prev: Cursor \cup {None}, next: Cursor \cup {None}]
  /\ walk \in Seq(Ids)
  /\ steady \subseteq Ids
  /\ changes \in 0..MaxChanges

Rows == {i \in Ids : row[i] # Absent}

\* Only a score may be missing, and candidates, which are exported, have none.
Nullable == IF view.sort = "score" THEN {None} ELSE {}
-----------------------------------------------------------------------------
(* A sort: the order of the query and the condition on the rows past a      *)
(* cursor, each for the scan forwards and for the scan back.                *)

FlipDirection(direction) == IF direction = "asc" THEN "desc" ELSE "asc"

\* Past(scan, x, y): x is strictly past y; comparing with NULL is not true.
Past(scan, x, y) == x # None /\ y # None /\ IF scan = "desc" THEN x < y ELSE x > y

\* orderBy: NULLs last when descending, first when ascending.
OrderBy(scan, a, b) ==
  LET nullsLast == scan = "desc" IN
  \/ Past(scan, row[b], row[a])
  \/ row[a] = row[b] /\ Past(scan, b, a)
  \/ row[a] # row[b] /\ (IF nullsLast THEN row[b] = None ELSE row[a] = None)

\* mutant: the rows without a score are not past a score
SeekWhere_NullsLost(c, scan, i) ==
  \/ Past(scan, row[i], c.key)
  \/ row[i] = c.key /\ Past(scan, i, c.id)

\* seekWhere
SeekWhere(c, scan, i) ==
  LET nullsLast == scan = "desc" IN
  \/ Past(scan, row[i], c.key)
  \/ row[i] = c.key /\ Past(scan, i, c.id)
  \/ c.key = None /\ ~nullsLast /\ row[i] # None
  \/ c.key # None /\ nullsLast /\ row[i] = None

RowsPast(c, scan) == {i \in Rows : SeekWhere(c, scan, i)}

\* The rows a query finds, each at its place in the order; no more of them than it takes.
Fetch(where, scan, take) ==
  LET before(i) == {j \in where : OrderBy(scan, j, i)}
      found == Cardinality(where)
  IN [n \in 1..(IF found < take THEN found ELSE take) |->
        CHOOSE i \in where : Cardinality(before(i)) + 1 = n]

CursorOf(i) == [key |-> row[i], id |-> i]
-----------------------------------------------------------------------------
(* keysetPage *)

More(rows) == Len(rows) > PageSize
Items(rows) == SubSeq(rows, 1, IF More(rows) THEN PageSize ELSE Len(rows))

FirstPage ==
  LET rows == Fetch(Rows, view.direction, PageSize + 1)
  IN [items |-> Items(rows), prev |-> None, next |-> IF More(rows) THEN CursorOf(Last(Items(rows))) ELSE None]

\* With nothing past the cursor the list starts again.
AfterPage(c) ==
  LET rows == Fetch(RowsPast(c, view.direction), view.direction, PageSize + 1)
  IN IF rows = << >> THEN FirstPage
     ELSE [items |-> Items(rows), prev |-> CursorOf(Head(rows)),
           next |-> IF More(rows) THEN CursorOf(Last(Items(rows))) ELSE None]

\* The page before is the first page unless more than a page of rows precedes.
BeforePage(c) ==
  LET back == FlipDirection(view.direction)
      rows == Fetch(RowsPast(c, back), back, PageSize + 1)
      items == Reverse(Items(rows))
  IN IF ~More(rows) THEN FirstPage
     ELSE [items |-> items, prev |-> CursorOf(Head(items)), next |-> CursorOf(Last(items))]
-----------------------------------------------------------------------------
Init ==
  /\ view \in {v \in [sort: Sorts, direction: {"asc", "desc"}, by: {"pages", "export"}] :
       /\ v.sort = "score" => v.direction = "desc" /\ v.by = "pages"
       /\ v.sort = "title" => v.direction = "asc"}
  /\ row \in [Ids -> Keys \cup Nullable \cup {Absent}]
  /\ page = [items |-> << >>, prev |-> None, next |-> None]
  /\ walk = << >>
  /\ steady = {}
  /\ changes = 0

\* The list is opened, or its address without a cursor.
Open ==
  /\ view.by = "pages"
  /\ page' = FirstPage
  /\ walk' = page'.items
  /\ steady' = Rows
  /\ UNCHANGED <<view, row, changes>>

\* The pager's buttons; the first page shown again starts the walk again.
NextPage ==
  /\ view.by = "pages" /\ page.next # None
  /\ page' = AfterPage(page.next)
  /\ walk' = IF page'.prev = None THEN page'.items ELSE walk \o page'.items
  /\ steady' = IF page'.prev = None THEN Rows ELSE steady
  /\ UNCHANGED <<view, row, changes>>

\* Whoever goes back gives up the walk, until the first page.
PrevPage ==
  /\ view.by = "pages" /\ page.prev # None
  /\ page' = BeforePage(page.prev)
  /\ walk' = IF page'.prev = None THEN page'.items ELSE << >>
  /\ steady' = IF page'.prev = None THEN Rows ELSE {}
  /\ UNCHANGED <<view, row, changes>>

\* A batch of the export, which goes on while its batches are full.
Batch(c) ==
  LET rows == IF c = None THEN Fetch(Rows, view.direction, PageSize)
              ELSE Fetch(RowsPast(c, view.direction), view.direction, PageSize)
  IN [items |-> rows, prev |-> None, next |-> IF Len(rows) < PageSize THEN None ELSE CursorOf(Last(rows))]

ExportCandidatesCsv ==
  /\ view.by = "export"
  /\ page' = Batch(page.next)
  /\ walk' = IF page.next = None THEN page'.items ELSE walk \o page'.items
  /\ steady' = IF page.next = None THEN Rows ELSE steady
  /\ UNCHANGED <<view, row, changes>>

\* A row comes or goes, is scored or scored again, or renamed; its creation date stays.
ChangeRow(i) ==
  /\ changes < MaxChanges /\ changes' = changes + 1
  /\ \E k \in (Keys \cup Nullable \cup {Absent}) \ {row[i]} :
       /\ k = None \/ view.sort = "createdAt" => Absent \in {k, row[i]}
       /\ row' = [row EXCEPT ![i] = k]
  /\ steady' = steady \ {i}
  /\ UNCHANGED <<view, page, walk>>

Next ==
  \/ Open
  \/ NextPage
  \/ PrevPage
  \/ ExportCandidatesCsv
  \/ \E i \in Ids : ChangeRow(i)

Spec == Init /\ [][Next]_vars
-----------------------------------------------------------------------------
(* Properties. *)

\* Whatever comes, goes or moves while somebody goes from page to page or the export is
\* under way, a row that stays as it was is met once on the way to the end.
WalkComplete ==
  \A i \in steady :
    /\ page.next = None => i \in ToSet(walk)
    /\ Cardinality({n \in DOMAIN walk : walk[n] = i}) <= 1

\* The rows of the list in the order a reader expects.
Ranks(a, b) == IF row[a] = row[b] THEN (a < b <=> view.direction = "asc")
               ELSE IF None \in {row[a], row[b]} THEN row[b] = None
               ELSE (row[a] < row[b] <=> view.direction = "asc")

\* Going back leaves no row out: those that stand before the page one comes from
\* and after the page one comes to are none.
NoneLeftOut ==
  view.by = "pages" /\ page.prev # None /\ page' = BeforePage(page.prev) =>
    \A i \in Rows :
      LET here == page.prev.id IN
      (here \in Rows /\ row[here] = page.prev.key /\ i # here /\ Ranks(i, here) /\ i \notin ToSet(page'.items))
        => \A s \in ToSet(page'.items) : Ranks(i, s)

\* No step forwards, backwards or of the rows breaks a walk.
ListsWalked == [][WalkComplete' /\ NoneLeftOut]_vars
=============================================================================
