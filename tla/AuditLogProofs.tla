---------------------------- MODULE AuditLogProofs ----------------------------
(***************************************************************************)
(* The log of a company is an intact chain whose removals are seen and     *)
(* which is not accused while nothing is purged; a purge takes an expired  *)
(* prefix; and the stream skips nothing: for any number of writers,        *)
(* purges, verifications and drains, and any length of the log.            *)
(***************************************************************************)
EXTENDS AuditLog, FiniteSetTheorems, WellFoundedInduction, TLAPS

(* The inductive invariant behind the properties. *)

\* Entries are numbered without gaps or doubles, up to the last one written.
NumberedInv ==
  /\ IsFiniteSet(log)
  /\ \A e \in log : e.seq <= written
  /\ written # 0 => \E e \in log : e.seq = written
  /\ \A e, f \in log : e.seq = f.seq => e = f
  /\ \A e \in log : \A n \in e.seq..written : \E f \in log : f.seq = n
  /\ log # {} => \E e \in log : \A f \in log : e.seq <= f.seq

\* Each is linked to the one before; the first is the company's first or follows a cut
\* that some entry records, and no entry records a cut of what is left.
Anchored(e) ==
  IF e.seq = 1 THEN e.prevHash = None
  ELSE /\ e.prevHash # None
       /\ \E c \in log : c.cut = [seq |-> e.seq - 1, hash |-> e.prevHash]
LinkedInv ==
  /\ \A e, f \in log : f.seq = e.seq + 1 => f.prevHash = e.hash
  /\ \A e \in log : (\A f \in log : e.seq <= f.seq) => Anchored(e)
  /\ \A c, e \in log : c.cut # None => c.cut.seq < e.seq

\* What the trigger sealed is what follows the log until the commit.
Follows(e) ==
  /\ e \in Entry
  /\ e.seq = written + 1 /\ e.cut = None
  /\ IF written = 0 THEN e.prevHash = None ELSE \E f \in log : f.seq = written /\ e.prevHash = f.hash
SealedInv == \A w \in Writers : tx[w].pc = "sealed" => sealing = w /\ Follows(tx[w].entry)

\* Where a purge cuts there is an expired entry at or above, and the newest above.
PurgerInv == \A p \in Purgers :
  /\ purger[p].pc = "chosen" => \E days \in RetentionChoices : purger[p].cutoff <= clock - days
  /\ purger[p].pc = "bounded" =>
       /\ purger[p].cut \in Link /\ purger[p].cut.seq < written
       /\ \A e \in log : e.seq = purger[p].cut.seq => e.hash = purger[p].cut.hash
       /\ \A e \in log : e.seq <= purger[p].cut.seq =>
            \E f \in log, days \in RetentionChoices : purger[p].cut.seq <= f.seq /\ f.createdAt < clock - days

\* A verification goes on from where it was, which is still in the log unless a purge
\* committed meanwhile.
ReadingInv(q) == q.pc = "reading" =>
  /\ q.previous # None => q.previous.seq = q.after
  /\ ~q.raced =>
       \/ q.first = None /\ q.previous = None /\ q.after = 0
       \/ q.first # None /\ \E e \in log : q.previous = [seq |-> e.seq, hash |-> e.hash]
AnchoringInv(q) == q.pc = "anchoring" =>
  /\ q.first \in Seqs \ {1}
  /\ IsFiniteSet(q.batch) /\ \E e \in q.batch : e.seq = q.first
  /\ \A e \in q.batch : q.first <= e.seq
  /\ \A e, f \in q.batch : e.seq = f.seq => e = f
  /\ ~q.raced => q.batch \subseteq log /\ \A e \in q.batch, f \in log : f.seq <= e.seq => f \in q.batch
VerifierInv == \A v \in Verifiers :
  /\ verifier[v].fault # None => verifier[v].raced
  /\ ReadingInv(verifier[v]) /\ AnchoringInv(verifier[v])

\* A drain that still owns the row works from its cursor, on a batch with no gap; what
\* it delivered the SIEM has.  No place in the log is past the newest entry.
DrainInv == \A d \in Drains : LET q == drain[d] IN
  /\ q.pc \notin {"idle", "asked"} =>
       /\ q.id <= streams
       /\ OwnedBy(d) => q.cursor = stream.cursor
  /\ q.pc = "sending" \/ (q.pc = "settling" /\ q.outcome = "delivered") =>
       /\ q.batch # {}
       /\ \A s \in q.batch : s <= written
       /\ \A e \in log, s \in q.batch : q.cursor < e.seq /\ e.seq <= s => e.seq \in q.batch
  /\ q.pc = "settling" /\ q.outcome = "delivered" /\ stream # None /\ stream.id = q.id =>
       q.batch \subseteq received
StreamInv ==
  /\ stream # None => stream.id <= streams /\ stream.cursor <= written
  /\ \A w \in Writers : tx[w].latest <= written

IndInv == /\ TypeOK /\ NumberedInv /\ LinkedInv /\ SealedInv /\ PurgerInv /\ VerifierInv
          /\ DrainInv /\ StreamInv /\ NothingSkipped
-----------------------------------------------------------------------------
(* Numbers.                                                                 *)

USE BoundsAssumption

\* A finite set of numbers has a lowest and a highest one.
LEMMA FiniteLowest ==
  ASSUME NEW S \in SUBSET Int, IsFiniteSet(S), S # {}
  PROVE  \E n \in S : \A m \in S : n <= m
<1> DEFINE below(n) == {m \in S : m < n}
           T == {below(n) : n \in S}
<1>0. ASSUME NEW n \in S PROVE below(n) \in FiniteSubsetsOf(S)
  <2>1. below(n) \in SUBSET S
    OBVIOUS
  <2> QED
    BY <2>1, FS_Subset DEF FiniteSubsetsOf
<1>1. T \subseteq FiniteSubsetsOf(S) /\ T # {}
  <2> HIDE DEF below
  <2> QED
    BY <1>0
<1>2. PICK x \in T : \A y \in T : <<y, x>> \notin StrictSubsetOrdering(S)
  <2> HIDE DEF T
  <2> QED
    BY <1>1, WFMin, FS_StrictSubsetOrderingWellFounded
<1>3. PICK n \in S : x = below(n)
  OBVIOUS
<1>4. ASSUME NEW m \in S, m < n PROVE FALSE
  <2>0. m \in Int /\ n \in Int /\ \A k \in S : k \in Int
    OBVIOUS
  <2>1. below(m) \subseteq below(n)
    <3> SUFFICES ASSUME NEW k \in S, k < m PROVE k < n
      OBVIOUS
    <3> QED
      BY <1>4, <2>0
  <2>2. m \in below(n) /\ m \notin below(m)
    BY <1>4, <2>0
  <2>3. <<below(m), below(n)>> \in StrictSubsetOrdering(S)
    <3> HIDE DEF below
    <3> QED
      BY <2>1, <2>2, <1>0, <2>0 DEF StrictSubsetOrdering, FiniteSubsetsOf
  <2> QED
    BY <1>2, <1>3, <2>3
<1> QED
  BY <1>4

LEMMA FiniteHighest ==
  ASSUME NEW S \in SUBSET Int, IsFiniteSet(S), S # {}
  PROVE  \E n \in S : \A m \in S : m <= n
<1> DEFINE above(n) == {m \in S : m > n}
           T == {above(n) : n \in S}
<1>0. ASSUME NEW n \in S PROVE above(n) \in FiniteSubsetsOf(S)
  <2>1. above(n) \in SUBSET S
    OBVIOUS
  <2> QED
    BY <2>1, FS_Subset DEF FiniteSubsetsOf
<1>1. T \subseteq FiniteSubsetsOf(S) /\ T # {}
  <2> HIDE DEF above
  <2> QED
    BY <1>0
<1>2. PICK x \in T : \A y \in T : <<y, x>> \notin StrictSubsetOrdering(S)
  <2> HIDE DEF T
  <2> QED
    BY <1>1, WFMin, FS_StrictSubsetOrderingWellFounded
<1>3. PICK n \in S : x = above(n)
  OBVIOUS
<1>4. ASSUME NEW m \in S, m > n PROVE FALSE
  <2>0. m \in Int /\ n \in Int /\ \A k \in S : k \in Int
    OBVIOUS
  <2>1. above(m) \subseteq above(n)
    <3> SUFFICES ASSUME NEW k \in S, k > m PROVE k > n
      OBVIOUS
    <3> QED
      BY <1>4, <2>0
  <2>2. m \in above(n) /\ m \notin above(m)
    BY <1>4, <2>0
  <2>3. <<above(m), above(n)>> \in StrictSubsetOrdering(S)
    <3> HIDE DEF above
    <3> QED
      BY <2>1, <2>2, <1>0, <2>0 DEF StrictSubsetOrdering, FiniteSubsetsOf
  <2> QED
    BY <1>2, <1>3, <2>3
<1> QED
  BY <1>4

LEMMA HighestIs ==
  ASSUME NEW S \in SUBSET Int, NEW n \in S, \A m \in S : m <= n
  PROVE  Highest(S) = n
<1>1. \A x, y \in S : (\A m \in S : m <= x) /\ (\A m \in S : m <= y) => x = y
  OBVIOUS
<1> QED
  BY <1>1 DEF Highest

LEMMA LowestIs ==
  ASSUME NEW S \in SUBSET Int, NEW n \in S, \A m \in S : n <= m
  PROVE  Lowest(S) = n
<1>1. \A x, y \in S : (\A m \in S : x <= m) /\ (\A m \in S : y <= m) => x = y
  OBVIOUS
<1> QED
  BY <1>1 DEF Lowest

LEMMA HighestIn ==
  ASSUME NEW S \in SUBSET Int, IsFiniteSet(S), S # {}
  PROVE  Highest(S) \in S /\ \A m \in S : m <= Highest(S)
<1>1. PICK n \in S : \A m \in S : m <= n
  BY FiniteHighest
<1> QED
  BY <1>1, HighestIs

LEMMA LowestIn ==
  ASSUME NEW S \in SUBSET Int, IsFiniteSet(S), S # {}
  PROVE  Lowest(S) \in S /\ \A m \in S : Lowest(S) <= m
<1>1. PICK n \in S : \A m \in S : n <= m
  BY FiniteLowest
<1> QED
  BY <1>1, LowestIs

\* The numbers of finitely many entries are finitely many, and as many when no two agree.
LEMMA SeqsFinite ==
  ASSUME NEW rows \in SUBSET Entry, IsFiniteSet(rows)
  PROVE  IsFiniteSet({e.seq : e \in rows}) /\ {e.seq : e \in rows} \in SUBSET Int
<1>1. {e.seq : e \in rows} \in SUBSET (1..MaxEntries)
  BY DEF Entry, Seqs
<1>2. IsFiniteSet(1..MaxEntries)
  BY FS_Interval
<1>3. IsFiniteSet({e.seq : e \in rows})
  BY <1>1, <1>2, FS_Subset, Zenon
<1> QED
  BY <1>1, <1>3

\* The number of the newest entry is how many were ever written.
LEMMA NewestSeq ==
  ASSUME log \subseteq Entry, written \in Nat, NumberedInv
  PROVE  /\ LatestSeq = written
         /\ log = {} <=> written = 0
<1>1. LogSeqs \in SUBSET Int /\ \A s \in LogSeqs : s >= 1
  BY DEF LogSeqs, Entry, Seqs
<1>2. CASE log = {}
  <2>1. LogSeqs = {} /\ written = 0
    BY <1>2 DEF NumberedInv, LogSeqs
  <2> QED
    BY <1>2, <2>1 DEF LatestSeq, Highest
<1>3. CASE log # {}
  <2>1. written # 0
    BY <1>3 DEF NumberedInv, Entry, Seqs
  <2>2. written \in LogSeqs /\ \A s \in LogSeqs : s <= written
    BY <2>1 DEF NumberedInv, LogSeqs
  <2> QED
    BY <1>1, <1>3, <2>1, <2>2, HighestIs DEF LatestSeq
<1> QED
  BY <1>2, <1>3

\* What the trigger computes on rows that hold the newest entry, or on none at all.
LEMMA SealedFollows ==
  ASSUME TypeOK, NumberedInv, written < MaxEntries, NEW rows \in SUBSET log,
         \A e \in log : e.seq = written => e \in rows,
         NEW createdAt \in Nat, NEW cut \in Link \cup {None}
  PROVE  LET new == Sealed(written + 1, createdAt, cut, rows) IN
         /\ new \in Entry
         /\ new.seq = written + 1 /\ new.hash = written + 1 /\ new.cut = cut
         /\ IF written = 0 THEN new.prevHash = None
            ELSE \E f \in log : f.seq = written /\ new.prevHash = f.hash
<1> DEFINE seqs == {f.seq : f \in rows}
           head == {e \in rows : e.seq = Highest(seqs)}
           new == Sealed(written + 1, createdAt, cut, rows)
<1>1. written \in Nat /\ MaxEntries \in Nat /\ log \subseteq Entry
  BY DEF TypeOK
<1>2. CASE written = 0
  <2>1. rows = {}
    BY <1>1, <1>2, NewestSeq
  <2>2. Highest(seqs) = 0 /\ head = {}
    BY <2>1 DEF Highest
  <2>3. new = [seq |-> 1, hash |-> 1, prevHash |-> None, createdAt |-> createdAt, cut |-> cut]
    BY <1>2, <2>2 DEF Sealed
  <2> QED
    BY <1>1, <1>2, <2>3 DEF Entry, Seqs, Hashes
<1>3. CASE written # 0
  <2>1. PICK f \in rows : f.seq = written
    BY <1>3 DEF NumberedInv
  <2>2. Highest(seqs) = written
    <3>1. seqs \in SUBSET Int /\ written \in seqs /\ \A m \in seqs : m <= written
      BY <1>1, <2>1 DEF NumberedInv, Entry, Seqs
    <3> QED
      BY <3>1, HighestIs
  <2>3. head = {f}
    BY <2>1, <2>2 DEF NumberedInv
  <2>4. new = [seq |-> written + 1, hash |-> written + 1, prevHash |-> f.hash, createdAt |-> createdAt, cut |-> cut]
    <3>1. (CHOOSE e \in head : TRUE) = f /\ head # {}
      BY <2>3
    <3> QED
      BY <2>2, <3>1 DEF Sealed
  <2>5. f \in log /\ f.hash \in Hashes
    BY <1>1 DEF Entry
  <2> QED
    BY <1>1, <1>3, <2>1, <2>4, <2>5 DEF Entry, Seqs, Hashes
<1> QED
  BY <1>2, <1>3
-----------------------------------------------------------------------------
(* What findChainBreak reports of some entries, no two with the same number. *)

\* The place an entry has to follow, and the faults of an entry there.
Before(rows, e) == {f \in rows : f.seq < e.seq}
Last(previous, rows, e) ==
  IF Before(rows, e) = {} THEN previous
  ELSE LET f == CHOOSE f \in Before(rows, e) : f.seq = Highest({g.seq : g \in Before(rows, e)})
       IN [seq |-> f.seq, hash |-> f.hash]
FaultsOf(previous, rows, e) == FaultAt(Last(previous, rows, e), e)

Distinct(rows) == rows \subseteq Entry /\ \A e, f \in rows : e.seq = f.seq => e = f

LEMMA BreakIs ==
  ASSUME NEW previous, NEW rows
  PROVE  LET broken == {e \in rows : FaultsOf(previous, rows, e) # {}} IN
         FindChainBreak(previous, rows) =
           UNION {FaultsOf(previous, rows, e) : e \in {b \in broken : \A c \in broken : b.seq <= c.seq}}
BY DEF FindChainBreak, FaultsOf, Last, Before

LEMMA LastFirst ==
  ASSUME NEW previous, NEW rows, Distinct(rows), NEW e \in rows, \A f \in rows : e.seq <= f.seq
  PROVE  Last(previous, rows, e) = previous
<1>1. Before(rows, e) = {}
  BY DEF Before, Distinct, Entry, Seqs
<1> QED
  BY <1>1 DEF Last

LEMMA LastAfter ==
  ASSUME NEW previous, NEW rows, Distinct(rows), NEW e \in rows, NEW f \in rows, f.seq < e.seq,
         \A g \in rows : g.seq < e.seq => g.seq <= f.seq
  PROVE  Last(previous, rows, e) = [seq |-> f.seq, hash |-> f.hash]
<1> DEFINE before == Before(rows, e)
           seqs == {g.seq : g \in before}
<1>1. f \in before /\ before \subseteq rows
  BY DEF Before
<1>2. seqs \in SUBSET Int /\ f.seq \in seqs /\ \A m \in seqs : m <= f.seq
  BY <1>1 DEF Before, Distinct, Entry, Seqs
<1>3. Highest(seqs) = f.seq
  BY <1>2, HighestIs
<1>4. \A g \in before : g.seq = Highest(seqs) => g = f
  BY <1>1, <1>3 DEF Distinct
<1>5. (CHOOSE g \in before : g.seq = Highest(seqs)) = f
  BY <1>1, <1>3, <1>4
<1> QED
  BY <1>1, <1>5 DEF Last

LEMMA Unbroken ==
  ASSUME NEW previous, NEW rows, \A e \in rows : FaultsOf(previous, rows, e) = {}
  PROVE  FindChainBreak(previous, rows) = {}
<1> DEFINE broken == {e \in rows : FaultsOf(previous, rows, e) # {}}
<1>1. {b \in broken : \A c \in broken : b.seq <= c.seq} = {}
  OBVIOUS
<1>2. {FaultsOf(previous, rows, e) : e \in {b \in broken : \A c \in broken : b.seq <= c.seq}} = {}
  BY <1>1
<1> QED
  BY <1>2, BreakIs

LEMMA FirstBreak ==
  ASSUME NEW previous, NEW rows, Distinct(rows), NEW b \in rows, FaultsOf(previous, rows, b) # {},
         \A e \in rows : FaultsOf(previous, rows, e) # {} => b.seq <= e.seq
  PROVE  FindChainBreak(previous, rows) = FaultsOf(previous, rows, b)
<1> DEFINE broken == {e \in rows : FaultsOf(previous, rows, e) # {}}
           firsts == {e \in broken : \A c \in broken : e.seq <= c.seq}
<1>1. b \in firsts
  OBVIOUS
<1>2. ASSUME NEW e \in firsts PROVE e = b
  BY <1>1, <1>2 DEF Distinct, Entry, Seqs
<1>3. firsts = {b}
  BY <1>1, <1>2
<1> HIDE DEF firsts
<1>4. {FaultsOf(previous, rows, e) : e \in firsts} = {FaultsOf(previous, rows, b)}
  BY <1>3
<1>5. FindChainBreak(previous, rows) = UNION {FaultsOf(previous, rows, e) : e \in firsts}
  BY BreakIs DEF firsts
<1> QED
  BY <1>4, <1>5

\* Entries without a gap, each linked to the one before it.
Run(rows) ==
  /\ Distinct(rows)
  /\ \A e, f \in rows : e.seq < f.seq => \E g \in rows : g.seq = f.seq - 1 /\ f.prevHash = g.hash

\* In a run only the first entry can be at fault.
LEMMA RunUnbroken ==
  ASSUME NEW previous, NEW rows, Run(rows), NEW first \in rows, \A e \in rows : first.seq <= e.seq
  PROVE  /\ \A e \in rows \ {first} : FaultsOf(previous, rows, e) = {}
         /\ FindChainBreak(previous, rows) = FaultAt(previous, first)
<1>0. \A e \in rows : e.seq \in Int
  BY DEF Run, Distinct, Entry, Seqs
<1>1. ASSUME NEW e \in rows \ {first} PROVE FaultsOf(previous, rows, e) = {}
  <2>1. first.seq < e.seq
    BY <1>0 DEF Run, Distinct
  <2>2. PICK g \in rows : g.seq = e.seq - 1 /\ e.prevHash = g.hash
    BY <2>1 DEF Run
  <2>3. Last(previous, rows, e) = [seq |-> g.seq, hash |-> g.hash]
    <3>1. g.seq < e.seq /\ \A f \in rows : f.seq < e.seq => f.seq <= g.seq
      BY <1>0, <2>2
    <3> QED
      BY <3>1, LastAfter DEF Run
  <2>4. e.seq = g.seq + 1
    BY <1>0, <2>2
  <2>5. [seq |-> g.seq, hash |-> g.hash] # None
    <3>1. g.seq \in Seqs /\ g.hash \in Hashes
      BY DEF Run, Distinct, Entry
    <3> QED
      BY <3>1, NullAssumption DEF Link
  <2> QED
    BY <2>2, <2>3, <2>4, <2>5 DEF FaultsOf, FaultAt
<1>2. FaultsOf(previous, rows, first) = FaultAt(previous, first)
  BY LastFirst DEF FaultsOf, Run
<1>3. CASE FaultAt(previous, first) = {}
  BY <1>1, <1>2, <1>3, Unbroken
<1>4. CASE FaultAt(previous, first) # {}
  BY <1>1, <1>2, <1>4, FirstBreak DEF Run
<1> QED
  BY <1>1, <1>3, <1>4
-----------------------------------------------------------------------------
(* Types. *)

\* The first entries past some number: when there are any, one has the lowest number.
LEMMA NextEntriesType ==
  ASSUME TypeOK, NumberedInv, NEW after \in Nat, NEW n \in Nat
  PROVE  LET batch == NextEntries(after, n) IN
         /\ batch \subseteq log /\ IsFiniteSet(batch) /\ Distinct(batch)
         /\ \A e \in batch : after < e.seq
         /\ \A e \in batch, f \in log : after < f.seq /\ f.seq <= e.seq => f \in batch
         /\ batch # {} => \E e \in batch : e.seq = Lowest({f.seq : f \in batch}) /\ \A f \in batch : e.seq <= f.seq
<1> DEFINE batch == NextEntries(after, n)
           below(e) == {f \in log : after < f.seq /\ f.seq < e.seq}
<1>0. log \subseteq Entry /\ IsFiniteSet(log) /\ \A e \in log : e.seq \in Int
  BY DEF TypeOK, NumberedInv, Entry, Seqs
<1>1. batch \in SUBSET log /\ \A e \in batch : after < e.seq
  BY DEF NextEntries
<1>2. IsFiniteSet(batch)
  BY <1>0, <1>1, FS_Subset
<1>3. Distinct(batch)
  BY <1>0, <1>1 DEF Distinct, NumberedInv
<1>4. ASSUME NEW e \in batch, NEW f \in log, after < f.seq, f.seq <= e.seq PROVE f \in batch
  <2>1. below(f) \in SUBSET below(e) /\ below(e) \in SUBSET log
    BY <1>0, <1>1, <1>4
  <2>2. IsFiniteSet(below(e))
    BY <1>0, <2>1, FS_Subset
  <2>3. Cardinality(below(f)) \in Nat /\ Cardinality(below(e)) \in Nat
        /\ Cardinality(below(f)) <= Cardinality(below(e))
    BY <2>1, <2>2, FS_Subset, FS_CardinalityType
  <2>4. Cardinality(below(e)) < n
    BY DEF NextEntries
  <2> HIDE DEF below
  <2>5. Cardinality(below(f)) < n
    BY <2>3, <2>4
  <2> QED
    BY <1>4, <2>5 DEF NextEntries, below
<1>5. ASSUME batch # {}
      PROVE  \E e \in batch : e.seq = Lowest({f.seq : f \in batch}) /\ \A f \in batch : e.seq <= f.seq
  <2> DEFINE seqs == {f.seq : f \in batch}
  <2>1. IsFiniteSet(seqs) /\ seqs \in SUBSET Int
    BY <1>2, <1>3, SeqsFinite DEF Distinct
  <2>2. seqs # {} /\ \A f \in batch : f.seq \in seqs
    BY <1>5
  <2> HIDE DEF seqs
  <2>3. Lowest(seqs) \in seqs /\ \A m \in seqs : Lowest(seqs) <= m
    BY <2>1, <2>2, LowestIn
  <2>4. PICK e \in batch : e.seq = Lowest(seqs)
    BY <2>3 DEF seqs
  <2> QED
    BY <2>2, <2>3, <2>4 DEF seqs
<1> QED
  BY <1>1, <1>2, <1>3, <1>4, <1>5

\* A verification that has looked at some entries, which are past the one before them.
LEMMA CheckedType ==
  ASSUME TypeOK, NEW v \in Verifiers, NEW previous \in Link \cup {None}, NEW batch,
         Distinct(batch), IsFiniteSet(batch), batch # {},
         previous # None => \A e \in batch : previous.seq < e.seq
  PROVE  LET q == Checked(v, previous, batch) IN
         /\ q \in Verifier /\ q.raced = verifier[v].raced /\ q.first = verifier[v].first
         /\ q.pc \in {"reading", "done"}
         /\ q.fault # None => FindChainBreak(previous, batch) # {} \/ q.fault = verifier[v].fault
         /\ q.pc = "reading" => \E e \in batch : q.previous = [seq |-> e.seq, hash |-> e.hash] /\ q.after = e.seq
<1> DEFINE breaks == FindChainBreak(previous, batch)
           last == CHOOSE e \in batch : e.seq = Highest({f.seq : f \in batch})
<1>0. verifier[v] \in Verifier
  BY DEF TypeOK
<1>1. breaks \subseteq Fault
  <2>1. ASSUME NEW e \in batch PROVE FaultsOf(previous, batch, e) \subseteq Fault
    <3> DEFINE before == Before(batch, e)
    <3>1. e \in Entry
      BY DEF Distinct
    <3>2. \/ Last(previous, batch, e) = None
          \/ Last(previous, batch, e) \in Link /\ Last(previous, batch, e).seq < e.seq
      <4>1. CASE before = {}
        BY <4>1 DEF Last
      <4>2. CASE before # {}
        <5> DEFINE seqs == {g.seq : g \in before}
        <5>1. before \in SUBSET batch /\ before \in SUBSET Entry
          BY DEF Before, Distinct
        <5>2. IsFiniteSet(before)
          BY <5>1, FS_Subset
        <5>3. IsFiniteSet(seqs) /\ seqs \in SUBSET Int /\ seqs # {}
          BY <4>2, <5>1, <5>2, SeqsFinite
        <5>4. Highest(seqs) \in seqs
          BY <5>3, HighestIn
        <5>5. \E f \in before : f.seq = Highest(seqs)
          BY <5>4
        <5> HIDE DEF seqs
        <5> DEFINE f == CHOOSE f \in before : f.seq = Highest(seqs)
        <5>6. f \in before
          BY <5>5
        <5>7. Last(previous, batch, e) = [seq |-> f.seq, hash |-> f.hash]
          BY <4>2 DEF Last, seqs
        <5>8. f \in Entry /\ f.seq < e.seq
          BY <5>1, <5>6 DEF Before
        <5> HIDE DEF f
        <5> QED
          BY <5>7, <5>8 DEF Link, Entry
      <4> QED
        BY <4>1, <4>2
    <3> DEFINE last1 == Last(previous, batch, e)
    <3>3. CASE last1 = None
      BY <3>1, <3>3 DEF FaultsOf, FaultAt, Fault, Entry
    <3>4. CASE last1 # None
      <4>1. last1.seq + 1 \in Seqs
        BY <3>1, <3>2, <3>4 DEF Link, Entry, Seqs
      <4> QED
        BY <3>1, <3>4, <4>1 DEF FaultsOf, FaultAt, Fault, Entry
    <3> QED
      BY <3>3, <3>4
  <2> QED
    BY <2>1, BreakIs
<1>2. breaks # {} => (CHOOSE b \in breaks : TRUE) \in Fault
  BY <1>1
<1>3. last \in batch /\ last \in Entry
  <2> DEFINE seqs == {f.seq : f \in batch}
  <2>1. IsFiniteSet(seqs) /\ seqs \in SUBSET Int /\ seqs # {}
    BY SeqsFinite DEF Distinct
  <2>2. Highest(seqs) \in seqs
    BY <2>1, HighestIn
  <2>3. \E e \in batch : e.seq = Highest(seqs)
    BY <2>2
  <2> QED
    BY <2>3 DEF Distinct
<1>4. last.seq \in Nat /\ [seq |-> last.seq, hash |-> last.hash] \in Link
  BY <1>3 DEF Entry, Link, Seqs
<1> HIDE DEF breaks, last
<1>5. CASE breaks # {}
  <2>1. Checked(v, previous, batch) =
          [verifier[v] EXCEPT !.pc = "done", !.fault = CHOOSE b \in breaks : TRUE, !.batch = {},
                              !.previous = previous]
    BY <1>5 DEF Checked, breaks
  <2> QED
    BY <1>0, <1>2, <1>5, <2>1 DEF Verifier, breaks
<1>6. CASE breaks = {}
  <2> DEFINE pc == IF Cardinality(batch) < VerifyBatch THEN "done" ELSE "reading"
  <2>1. pc \in {"reading", "done"}
    OBVIOUS
  <2>2. Checked(v, previous, batch) =
          [verifier[v] EXCEPT !.pc = pc, !.previous = [seq |-> last.seq, hash |-> last.hash],
                              !.after = last.seq, !.batch = {}]
    BY <1>6 DEF Checked, breaks, last
  <2> HIDE DEF pc
  <2> QED
    BY <1>0, <1>3, <1>4, <2>1, <2>2 DEF Verifier
<1> QED
  BY <1>5, <1>6

LEMMA TypeStep ==
  ASSUME IndInv, [Next]_vars
  PROVE  TypeOK'
<1>0. /\ TypeOK /\ NumberedInv /\ written \in Nat
      /\ \A w \in Writers : tx[w] \in Tx
      /\ \A d \in Drains : drain[d] \in Drain
      /\ \A p \in Purgers : purger[p] \in Purger
      /\ \A v \in Verifiers : verifier[v] \in Verifier
  BY DEF IndInv, TypeOK
<1> USE DEF TypeOK, logVars, settings, streamVars
<1>1. ASSUME NEW w \in Writers, NEW op \in Operations, NEW days \in RetentionChoices \cup {None}, Begin(w, op, days)
      PROVE  TypeOK'
  <2> DEFINE latest == IF op = "save" THEN LatestSeq ELSE 0
  <2>1. latest \in Nat /\ op \in Ops
    BY <1>0, NewestSeq
  <2>2. tx' = [tx EXCEPT ![w] = [IdleTx EXCEPT !.pc = "open", !.op = op, !.createdAt = clock,
                                                !.latest = latest, !.days = days]]
    BY <1>1 DEF Begin
  <2> HIDE DEF latest
  <2>3. [IdleTx EXCEPT !.pc = "open", !.op = op, !.createdAt = clock, !.latest = latest, !.days = days] \in Tx
    BY <1>0, <2>1 DEF IdleTx, Tx
  <2>4. tx' \in [Writers -> Tx]
    BY <1>0, <2>2, <2>3
  <2> QED
    BY <1>0, <1>1, <2>4 DEF Begin
<1>2. ASSUME NEW w \in Writers, AuditSeal(w) PROVE TypeOK'
  <2> DEFINE new == Sealed(written + 1, tx[w].createdAt, None, log)
  <2>1. new \in Entry
    BY <1>0, <1>2, SealedFollows DEF AuditSeal, Tx
  <2> HIDE DEF new
  <2>2. [tx[w] EXCEPT !.pc = "sealed", !.entry = new] \in Tx
    BY <1>0, <2>1 DEF Tx
  <2>3. tx' = [tx EXCEPT ![w] = [tx[w] EXCEPT !.pc = "sealed", !.entry = new]]
    BY <1>0, <1>2 DEF AuditSeal, new
  <2> QED
    BY <1>0, <1>2, <2>2, <2>3, ZenonT(90) DEF AuditSeal
<1>3. ASSUME NEW w \in Writers, Commit(w) PROVE TypeOK'
  <2>1. tx[w].entry \in Entry /\ written + 1 \in 0..MaxEntries
    BY <1>0, <1>3 DEF Commit, IndInv, SealedInv, Follows, Entry, Seqs
  <2>2. tx' \in [Writers -> Tx]
    BY <1>0, <1>3 DEF Commit, IdleTx, Tx, Ops
  <2>3. stream' \in Stream \cup {None} /\ streams' \in Nat /\ received' \subseteq Seqs
    <3>1. tx[w].latest \in Nat /\ tx[w].createdAt \in Nat
      BY <1>0 DEF Tx
    <3>2. CASE SaveAuditStream(w)
      <4> DEFINE new == [id |-> streams + 1, enabled |-> TRUE, start |-> tx[w].latest,
                         cursor |-> tx[w].latest, nextAttemptAt |-> tx[w].createdAt, lock |-> None]
                 old == [stream EXCEPT !.enabled = TRUE, !.nextAttemptAt = tx[w].createdAt, !.lock = None]
      <4>1. new \in Stream /\ streams + 1 \in Nat
        BY <1>0, <3>1 DEF Stream
      <4>2. stream # None => old \in Stream
        BY <1>0, <3>1 DEF Stream
      <4>3. IF stream = None THEN streams' = streams + 1 /\ received' = {} /\ stream' = new
            ELSE UNCHANGED <<streams, received>> /\ stream' = old
        BY <3>2 DEF SaveAuditStream
      <4> HIDE DEF new, old
      <4> QED
        BY <1>0, <4>1, <4>2, <4>3
    <3>3. CASE stream # None /\ SetAuditStreamEnabled(w)
      <4>1. stream \in Stream
        BY <1>0, <3>3
      <4>2. [stream EXCEPT !.enabled = FALSE] \in Stream
        BY <4>1 DEF Stream
      <4>3. [stream EXCEPT !.enabled = TRUE, !.nextAttemptAt = tx[w].createdAt, !.lock = None] \in Stream
        BY <3>1, <4>1 DEF Stream
      <4> QED
        BY <1>0, <3>3, <4>2, <4>3 DEF SetAuditStreamEnabled
    <3>4. CASE RemoveAuditStream(w)
      BY <1>0, <3>4 DEF RemoveAuditStream
    <3> QED
      BY <1>0, <1>3, <3>2, <3>3, <3>4 DEF Commit, StreamChange
  <2>4. tx[w].days \in RetentionChoices \cup {None}
    BY <1>0 DEF Tx
  <2>5. retention' \in RetentionChoices \cup {None} /\ entitled' \in BOOLEAN
    BY <1>0, <1>3, <2>4 DEF Commit
  <2>6. log' \subseteq Entry /\ written' \in 0..MaxEntries /\ sealing' \in Writers \cup {None}
    BY <1>0, <1>3, <2>1 DEF Commit
  <2> QED
    BY <1>0, <1>3, <2>2, <2>3, <2>5, <2>6 DEF Commit
<1>4. ASSUME NEW w \in Writers, Rollback(w) PROVE TypeOK'
  BY <1>0, <1>4 DEF Rollback, IdleTx, Tx, Ops
<1>5. ASSUME NEW p \in Purgers, PurgeStart(p) PROVE TypeOK'
  <2>1. clock - retention \in Int
    <3>1. clock \in Nat /\ retention \in Nat
      BY <1>0, <1>5 DEF PurgeStart
    <3> QED
      BY <3>1
  <2>2. [IdlePurger EXCEPT !.pc = "chosen", !.cutoff = clock - retention] \in Purger
    BY <2>1 DEF IdlePurger, Purger
  <2> QED
    BY <1>0, <1>5, <2>2 DEF PurgeStart
<1>6. ASSUME NEW p \in Purgers, PurgeBoundary(p) PROVE TypeOK'
  <2>1. CASE purger' = [purger EXCEPT ![p] = IdlePurger]
    <3>1. IdlePurger \in Purger
      BY DEF IdlePurger, Purger
    <3> QED
      BY <1>0, <1>6, <2>1, <3>1 DEF PurgeBoundary
  <2>2. ASSUME NEW e \in Boundary(purger[p].cutoff),
               purger' = [purger EXCEPT ![p].pc = "bounded", ![p].createdAt = clock,
                                        ![p].cut = [seq |-> e.seq, hash |-> e.hash]]
        PROVE  TypeOK'
    <3>1. e \in Entry
      BY <1>0 DEF Boundary
    <3>2. [seq |-> e.seq, hash |-> e.hash] \in Link
      BY <3>1 DEF Entry, Link
    <3>3. [purger[p] EXCEPT !.pc = "bounded", !.createdAt = clock,
                            !.cut = [seq |-> e.seq, hash |-> e.hash]] \in Purger
      BY <1>0, <3>2 DEF Purger
    <3> QED
      BY <1>0, <1>6, <2>2, <3>3 DEF PurgeBoundary
  <2> QED
    BY <1>6, <2>1, <2>2 DEF PurgeBoundary
<1>7. ASSUME NEW p \in Purgers, PurgeCommit(p) PROVE TypeOK'
  <2> DEFINE doomed == {e \in log : e.seq <= purger[p].cut.seq}
  <2>1. purger' \in [Purgers -> Purger]
    BY <1>0, <1>7 DEF PurgeCommit, IdlePurger, Purger
  <2>2. CASE UNCHANGED <<written, log, verifier>>
    BY <1>0, <1>7, <2>1, <2>2 DEF PurgeCommit
  <2>3. CASE ~UNCHANGED <<written, log, verifier>>
    <3> DEFINE new == Sealed(written + 1, purger[p].createdAt, purger[p].cut, log \ doomed)
    <3>1. /\ written < MaxEntries /\ written' = written + 1 /\ log' = (log \ doomed) \cup {new}
          /\ verifier' = [v \in Verifiers |->
                            IF verifier[v].pc \in {"reading", "anchoring"}
                            THEN [verifier[v] EXCEPT !.raced = TRUE] ELSE verifier[v]]
      BY <1>7, <2>3 DEF PurgeCommit
    <3>2. /\ purger[p].cut \in Link /\ purger[p].cut.seq < written /\ purger[p].createdAt \in Nat
      BY <1>0, <1>7 DEF PurgeCommit, IndInv, PurgerInv, Purger
    <3>3. log \ doomed \in SUBSET log /\ \A e \in log : e.seq = written => e \in log \ doomed
      <4>1. purger[p].cut.seq \in Int
        BY <3>2 DEF Link, Seqs
      <4>2. \A e \in log : e.seq = written => ~(e.seq <= purger[p].cut.seq)
        BY <1>0, <3>2, <4>1
      <4> QED
        BY <4>2
    <3> HIDE DEF doomed
    <3>4. new \in Entry
      BY <1>0, <3>1, <3>2, <3>3, SealedFollows
    <3>5. \A v \in Verifiers : [verifier[v] EXCEPT !.raced = TRUE] \in Verifier
      BY <1>0 DEF Verifier
    <3> HIDE DEF new
    <3>6. verifier' \in [Verifiers -> Verifier]
      BY <1>0, <3>1, <3>5
    <3>7. log' \subseteq Entry /\ written' \in 0..MaxEntries
      BY <1>0, <3>1, <3>3, <3>4
    <3> QED
      BY <1>0, <1>7, <2>1, <3>6, <3>7 DEF PurgeCommit
  <2> QED
    BY <2>2, <2>3
<1>8. ASSUME NEW v \in Verifiers, VerifyStart(v) PROVE TypeOK'
  BY <1>0, <1>8 DEF VerifyStart, IdleVerifier, Verifier
<1>9. ASSUME NEW v \in Verifiers, VerifyRead(v) PROVE TypeOK'
  <2> DEFINE q == verifier[v]
             batch == NextEntries(q.after, VerifyBatch)
             first == IF q.first = None THEN Lowest({e.seq : e \in batch}) ELSE q.first
             checked == Checked(v, q.previous, batch)
  <2>1. /\ q \in Verifier /\ q.after \in Nat /\ q.previous \in Link \cup {None} /\ VerifyBatch \in Nat
        /\ q.previous # None => q.previous.seq = q.after
    BY <1>0, <1>9 DEF Verifier, VerifyRead, IndInv, VerifierInv, ReadingInv
  <2>2. /\ batch \subseteq log /\ IsFiniteSet(batch) /\ Distinct(batch)
        /\ \A e \in batch : q.after < e.seq
        /\ batch # {} /\ q.first = None => \E e \in batch : e.seq = first
    BY <1>0, <2>1, NextEntriesType
  <2>3. verifier' = [verifier EXCEPT ![v] =
          IF batch = {} THEN [q EXCEPT !.pc = "done"]
          ELSE IF q.first = None /\ first > 1
               THEN [q EXCEPT !.pc = "anchoring", !.first = first, !.batch = batch]
               ELSE [checked EXCEPT !.first = first]]
    BY <1>9 DEF VerifyRead
  <2>4. batch # {} => checked \in Verifier
    BY <1>0, <2>1, <2>2, CheckedType
  <2>5. batch # {} => first \in Nat
    BY <1>0, <2>1, <2>2 DEF Entry, Seqs, Verifier
  <2>6. batch \subseteq Entry
    BY <1>0, <2>2
  <2> HIDE DEF batch, first, checked
  <2>7. [q EXCEPT !.pc = "done"] \in Verifier
    BY <2>1 DEF Verifier
  <2>8. batch # {} => [q EXCEPT !.pc = "anchoring", !.first = first, !.batch = batch] \in Verifier
    BY <2>1, <2>5, <2>6 DEF Verifier
  <2>9. batch # {} => [checked EXCEPT !.first = first] \in Verifier
    BY <2>4, <2>5 DEF Verifier
  <2>10. verifier' \in [Verifiers -> Verifier]
    BY <1>0, <2>3, <2>7, <2>8, <2>9
  <2> QED
    BY <1>0, <1>9, <2>10 DEF VerifyRead
<1>10. ASSUME NEW v \in Verifiers, VerifyAnchor(v) PROVE TypeOK'
  <2> DEFINE q == verifier[v]
             e == CHOOSE e \in q.batch : e.seq = q.first
             anchor == PurgeAnchor(e, log)
  <2>1. /\ q \in Verifier /\ q.batch \subseteq Entry /\ IsFiniteSet(q.batch) /\ \E f \in q.batch : f.seq = q.first
        /\ \A f \in q.batch : q.first <= f.seq
        /\ \A f, g \in q.batch : f.seq = g.seq => f = g
    BY <1>0, <1>10 DEF Verifier, VerifyAnchor, IndInv, VerifierInv, AnchoringInv
  <2>2. e \in q.batch /\ e.seq = q.first /\ e.seq \in Seqs
    BY <2>1 DEF Entry
  <2>3. Distinct(q.batch) /\ q.batch # {}
    BY <2>1 DEF Distinct
  <2>4. anchor \in Link \cup {None} /\ (anchor # None => anchor.seq = e.seq - 1)
    <3> HIDE DEF e
    <3>1. e \in Entry /\ e.seq \in Seqs \ {1}
      BY <1>0, <1>10, <2>1, <2>2 DEF VerifyAnchor, IndInv, VerifierInv, AnchoringInv
    <3>2. e.prevHash # None => [seq |-> e.seq - 1, hash |-> e.prevHash] \in Link
      BY <3>1 DEF Entry, Link, Seqs
    <3> QED
      BY <3>2 DEF PurgeAnchor
  <2>5. anchor # None => \A f \in q.batch : anchor.seq < f.seq
    <3>1. \A f \in q.batch : f.seq \in Int
      BY <2>1 DEF Entry, Seqs
    <3> QED
      BY <2>1, <2>2, <2>4, <3>1 DEF Seqs
  <2>6. Checked(v, anchor, q.batch) \in Verifier
    BY <1>0, <2>1, <2>3, <2>4, <2>5, CheckedType
  <2>7. verifier' = [verifier EXCEPT ![v] = Checked(v, anchor, q.batch)]
    BY <1>10 DEF VerifyAnchor
  <2> HIDE DEF anchor
  <2>8. verifier' \in [Verifiers -> Verifier]
    BY <1>0, <2>6, <2>7
  <2> QED
    BY <1>0, <1>10, <2>8 DEF VerifyAnchor
<1>11. ASSUME NEW d \in Drains, DrainStart(d) PROVE TypeOK'
  BY <1>0, <1>11 DEF DrainStart, IdleDrain, Drain
<1>12. ASSUME NEW d \in Drains, ClaimNextStream(d) PROVE TypeOK'
  <2>1. CASE drain' = [drain EXCEPT ![d] = IdleDrain] /\ UNCHANGED stream
    BY <1>0, <1>12, <2>1 DEF ClaimNextStream, IdleDrain, Drain
  <2>2. CASE ~(drain' = [drain EXCEPT ![d] = IdleDrain] /\ UNCHANGED stream)
    <3>1. /\ stream \in Stream
          /\ stream' = [stream EXCEPT !.lock = [at |-> drain[d].token, by |-> d]]
          /\ drain' = [drain EXCEPT ![d] = [drain[d] EXCEPT !.pc = "claimed", !.id = stream.id, !.cursor = stream.cursor]]
      BY <1>0, <1>12, <2>2 DEF ClaimNextStream, Claimable
    <3>2. [at |-> drain[d].token, by |-> d] \in Lock
      BY <1>0 DEF Drain, Lock
    <3>3. [stream EXCEPT !.lock = [at |-> drain[d].token, by |-> d]] \in Stream
      BY <3>1, <3>2 DEF Stream
    <3>4. [drain[d] EXCEPT !.pc = "claimed", !.id = stream.id, !.cursor = stream.cursor] \in Drain
      BY <1>0, <3>1 DEF Stream, Drain
    <3> QED
      BY <1>0, <1>12, <3>1, <3>3, <3>4 DEF ClaimNextStream
  <2> QED
    BY <2>1, <2>2
<1>13. ASSUME NEW d \in Drains, NEW outcome \in {"held", "failed", "empty", "delivered"}, SettleAs(d, outcome)
       PROVE  drain' \in [Drains -> Drain]
  <2>1. [drain[d] EXCEPT !.pc = "settling", !.outcome = outcome] \in Drain
    BY <1>0 DEF Drain
  <2> QED
    BY <1>0, <1>13, <2>1 DEF SettleAs
<1>14. ASSUME NEW d \in Drains, CheckFeature(d) PROVE TypeOK'
  <2>1. drain' \in [Drains -> Drain]
    <3>1. [drain[d] EXCEPT !.pc = "reading"] \in Drain
      BY <1>0 DEF Drain
    <3> QED
      BY <1>0, <1>13, <1>14, <3>1 DEF CheckFeature
  <2>2. faults' \in 0..MaxFaults
    BY <1>0, <1>14 DEF CheckFeature, FaultHappens
  <2> QED
    BY <1>0, <1>14, <2>1, <2>2 DEF CheckFeature
<1>15. ASSUME NEW d \in Drains, ReadBatch(d) PROVE TypeOK'
  <2> DEFINE entries == NextEntries(drain[d].cursor, StreamBatch)
             batch == {e.seq : e \in entries}
  <2>1. batch \subseteq Seqs
    BY <1>0 DEF NextEntries, Entry
  <2> HIDE DEF batch
  <2>2. [drain[d] EXCEPT !.pc = "sending", !.batch = batch] \in Drain
    BY <1>0, <2>1 DEF Drain
  <2>3. SettleAs(d, "empty") \/ drain' = [drain EXCEPT ![d] = [drain[d] EXCEPT !.pc = "sending", !.batch = batch]]
    BY <1>15 DEF ReadBatch, batch
  <2>4. drain' \in [Drains -> Drain]
    BY <1>0, <1>13, <2>2, <2>3
  <2> QED
    BY <1>0, <1>15, <2>4 DEF ReadBatch
<1>16. ASSUME NEW d \in Drains, Send(d) PROVE TypeOK'
  <2>1. drain' \in [Drains -> Drain]
    BY <1>13, <1>16 DEF Send
  <2>2. received' \subseteq Seqs
    BY <1>0, <1>16 DEF Send, Drain
  <2>3. faults' \in 0..MaxFaults
    BY <1>0, <1>16 DEF Send, FaultHappens
  <2> QED
    BY <1>0, <1>16, <2>1, <2>2, <2>3 DEF Send
<1>17. ASSUME NEW d \in Drains, Settle(d) PROVE TypeOK'
  <2>1. drain' \in [Drains -> Drain]
    BY <1>0, <1>17 DEF Settle, IdleDrain, Drain
  <2>2. OwnedBy(d) => Settled(d) \in Stream
    <3> SUFFICES ASSUME OwnedBy(d) PROVE Settled(d) \in Stream
      OBVIOUS
    <3>1. stream \in Stream /\ drain[d].token \in Nat
      BY <1>0 DEF OwnedBy, Drain
    <3>2. CASE drain[d].outcome = "delivered"
      <4>1. drain[d].batch # {} /\ drain[d].batch \in SUBSET (1..MaxEntries)
        BY <1>0, <1>17, <3>2 DEF Settle, IndInv, DrainInv, Drain, Seqs
      <4>2. IsFiniteSet(drain[d].batch)
        <5>1. IsFiniteSet(1..MaxEntries)
          BY FS_Interval
        <5> QED
          BY <4>1, <5>1, FS_Subset, Zenon
      <4>3. Highest(drain[d].batch) \in drain[d].batch
        BY <4>1, <4>2, HighestIn
      <4>4. Highest(drain[d].batch) \in Nat
        BY <4>1, <4>3
      <4> QED
        BY <3>1, <3>2, <4>4 DEF Settled, Stream
    <3>3. CASE drain[d].outcome # "delivered"
      <4>1. drain[d].token + Backoff \in Nat
        BY <3>1
      <4> QED
        BY <3>1, <3>3, <4>1 DEF Settled, Stream
    <3> QED
      BY <3>2, <3>3
  <2> QED
    BY <1>0, <1>17, <2>1, <2>2 DEF Settle
<1>18. ASSUME NEW d \in Drains, Crash(d) PROVE TypeOK'
  BY <1>0, <1>18 DEF Crash, FaultHappens, IdleDrain, Drain
<1>19. ASSUME Tick PROVE TypeOK'
  BY <1>0, <1>19 DEF Tick, LeaseOverrun, FaultHappens
<1>20. ASSUME UNCHANGED vars PROVE TypeOK'
  BY <1>0, <1>20 DEF vars
<1> QED
  BY <1>1, <1>2, <1>3, <1>4, <1>5, <1>6, <1>7, <1>8, <1>9, <1>10, <1>11, <1>12, <1>14, <1>15, <1>16, <1>17,
     <1>18, <1>19, <1>20
  DEF Next, Write, Purge, Verify, Deliver
-----------------------------------------------------------------------------
(* The chain: what a commit adds follows it, and a purge records where it cut. *)

\* What is left of the log after a cut; all of it without one.
Rest(cut) == IF cut = None THEN log ELSE {e \in log : e.seq > cut.seq}

\* A cut falls below the newest entry, and the entry it cuts after is as it was.
Cuts(cut) == cut # None =>
  /\ cut.seq < written
  /\ \E e \in log : e.seq <= cut.seq
  /\ \A e \in log : e.seq = cut.seq => e.hash = cut.hash

\* A new entry extends what was left.
Extends(new, cut) ==
  /\ new \in Entry /\ new.seq = written + 1 /\ new.cut = cut
  /\ IF written = 0 THEN new.prevHash = None ELSE \E f \in log : f.seq = written /\ new.prevHash = f.hash
  /\ log' = Rest(cut) \cup {new} /\ written' = written + 1

LEMMA ChainStep ==
  ASSUME TypeOK, NumberedInv, LinkedInv, NEW cut \in Link \cup {None}, Cuts(cut), NEW new, Extends(new, cut)
  PROVE  NumberedInv' /\ LinkedInv'
<1> DEFINE rest == Rest(cut)
<1>0. /\ written \in Nat /\ log \subseteq Entry /\ IsFiniteSet(log)
      /\ \A e \in log : e.seq \in Nat /\ e.seq >= 1 /\ e.seq <= written
      /\ cut # None => cut.seq \in Nat /\ cut.seq >= 1 /\ cut.hash \in Hashes
  BY DEF TypeOK, NumberedInv, Entry, Seqs, Link
<1>1. rest \in SUBSET log /\ log' = rest \cup {new} /\ written' = written + 1 /\ new \in Entry
      /\ new.seq = written + 1 /\ new.cut = cut
  BY DEF Rest, Extends
<1>2. \A e \in log : e \in rest <=> (cut # None => e.seq > cut.seq)
  BY DEF Rest
<1> HIDE DEF rest
<1>3. NumberedInv'
  <2>1. IsFiniteSet(log') /\ log' \subseteq Entry
    <3>1. IsFiniteSet(rest)
      BY <1>0, <1>1, FS_Subset
    <3> QED
      BY <1>0, <1>1, <3>1, FS_AddElement
  <2>2. \A e \in log' : e.seq <= written'
    BY <1>0, <1>1
  <2>3. \E e \in log' : e.seq = written'
    BY <1>1
  <2>4. \A e, f \in log' : e.seq = f.seq => e = f
    BY <1>0, <1>1 DEF NumberedInv
  <2>5. ASSUME NEW e \in log', NEW n \in e.seq..written' PROVE \E f \in log' : f.seq = n
    <3>1. CASE n = written + 1
      BY <1>1, <3>1
    <3>2. CASE n # written + 1
      <4>1. e \in rest /\ n \in e.seq..written /\ e.seq \in Nat
        BY <1>0, <1>1, <3>2
      <4>2. PICK f \in log : f.seq = n
        BY <1>1, <4>1 DEF NumberedInv
      <4>3. f \in rest
        BY <1>0, <1>1, <1>2, <4>1, <4>2
      <4> QED
        BY <1>1, <4>2, <4>3
    <3> QED
      BY <3>1, <3>2
  <2>6. \E e \in log' : \A f \in log' : e.seq <= f.seq
    <3> DEFINE seqs == {e.seq : e \in log'}
    <3>1. IsFiniteSet(seqs) /\ seqs \in SUBSET Int
      BY <2>1, SeqsFinite
    <3>2. seqs # {} /\ \A e \in log' : e.seq \in seqs
      BY <1>1
    <3>3. \A n \in seqs : \E e \in log' : e.seq = n
      OBVIOUS
    <3> HIDE DEF seqs
    <3>4. PICK n \in seqs : \A m \in seqs : n <= m
      BY <3>1, <3>2, FiniteLowest
    <3> QED
      BY <3>2, <3>3, <3>4
  <2> QED
    BY <2>1, <2>2, <2>3, <2>4, <2>5, <2>6 DEF NumberedInv
<1>4. ASSUME NEW e \in log', NEW f \in log', f.seq = e.seq + 1 PROVE f.prevHash = e.hash
  <2>1. CASE f \in rest
    <3>1. e \in rest
      BY <1>0, <1>1, <1>4, <2>1
    <3> QED
      BY <1>1, <1>4, <2>1, <3>1 DEF LinkedInv
  <2>2. CASE f = new
    <3>1. e \in log /\ e.seq = written /\ written # 0
      BY <1>0, <1>1, <1>4, <2>2
    <3>2. PICK g \in log : g.seq = written /\ new.prevHash = g.hash
      BY <3>1 DEF Extends
    <3>3. g = e
      BY <3>1, <3>2 DEF NumberedInv
    <3> QED
      BY <2>2, <3>2, <3>3
  <2> QED
    BY <1>1, <2>1, <2>2
<1>5. ASSUME NEW e \in log', \A f \in log' : e.seq <= f.seq PROVE Anchored(e)'
  <2>1. CASE cut = None /\ log = {}
    <3>1. e = new /\ written = 0
      BY <1>0, <1>1, <2>1, NewestSeq
    <3> QED
      BY <1>1, <3>1 DEF Anchored, Extends
  <2>2. CASE cut = None /\ log # {}
    <3>0. rest = log
      BY <1>1, <1>2, <2>2
    <3>1. e \in log
      BY <1>0, <1>1, <1>5, <2>2, <3>0
    <3>2. Anchored(e)
      BY <1>1, <1>5, <3>0, <3>1 DEF LinkedInv
    <3> QED
      BY <1>1, <3>0, <3>2 DEF Anchored
  <2>3. CASE cut # None
    <3>1. PICK d \in log : d.seq <= cut.seq
      BY <2>3 DEF Cuts
    <3>2. cut.seq < written /\ cut \in Link
      BY <2>3 DEF Cuts
    <3>3. cut.seq \in d.seq..written /\ cut.seq + 1 \in d.seq..written
      BY <1>0, <2>3, <3>1, <3>2
    <3>4. PICK c \in log : c.seq = cut.seq
      BY <3>3 DEF NumberedInv
    <3>5. PICK f \in log : f.seq = cut.seq + 1
      BY <3>3 DEF NumberedInv
    <3>6. f.prevHash = cut.hash
      <4>1. c.hash = cut.hash
        BY <2>3, <3>4 DEF Cuts
      <4> QED
        BY <3>4, <3>5, <4>1 DEF LinkedInv
    <3>7. f \in rest /\ f \in log'
      BY <1>0, <1>1, <1>2, <2>3, <3>5
    <3>8. e = f
      <4>1. e.seq <= cut.seq + 1
        BY <1>5, <3>5, <3>7
      <4>2. e \in rest
        BY <1>0, <1>1, <2>3, <3>2, <4>1
      <4>3. e \in log /\ e.seq = f.seq
        BY <1>0, <1>1, <1>2, <2>3, <3>5, <4>1, <4>2
      <4> QED
        BY <4>3 DEF NumberedInv
    <3>9. cut = [seq |-> e.seq - 1, hash |-> e.prevHash]
      <4>1. e.seq - 1 = cut.seq /\ e.prevHash = cut.hash
        BY <1>0, <2>3, <3>5, <3>6, <3>8
      <4> QED
        BY <3>2, <4>1 DEF Link
    <3>10. e.seq # 1 /\ e.prevHash # None
      BY <1>0, <2>3, <3>5, <3>6, <3>8 DEF Hashes
    <3>11. new \in log' /\ new.cut = cut
      BY <1>1
    <3> QED
      BY <3>9, <3>10, <3>11 DEF Anchored
  <2> QED
    BY <2>1, <2>2, <2>3
<1>6. ASSUME NEW c \in log', NEW e \in log', c.cut # None PROVE c.cut.seq < e.seq
  <2>1. CASE c \in log /\ e \in log
    BY <1>6, <2>1 DEF LinkedInv
  <2>2. CASE c \in log /\ e = new
    <3>1. c.cut.seq < c.seq /\ c.cut \in Link
      BY <1>0, <1>6, <2>2 DEF LinkedInv, Entry
    <3> QED
      BY <1>0, <1>1, <2>2, <3>1 DEF Link, Seqs
  <2>3. CASE c = new /\ e \in rest
    BY <1>0, <1>1, <1>2, <1>6, <2>3
  <2>4. CASE c = new /\ e = new
    BY <1>0, <1>1, <1>6, <2>4 DEF Cuts
  <2> QED
    BY <1>1, <2>1, <2>2, <2>3, <2>4
<1> QED
  BY <1>3, <1>4, <1>5, <1>6 DEF LinkedInv
-----------------------------------------------------------------------------
(* The log changes only with a commit: of a writer, or of a purge. *)

Raced == verifier' = [v \in Verifiers |-> IF verifier[v].pc \in {"reading", "anchoring"}
                                          THEN [verifier[v] EXCEPT !.raced = TRUE] ELSE verifier[v]]
Committed(w) == Commit(w) /\ Extends(tx[w].entry, None)
Purged(p) == /\ PurgeCommit(p) /\ purger[p].pc = "bounded" /\ sealing = None
             /\ purger[p].cut \in Link /\ Cuts(purger[p].cut)
             /\ \E new \in Entry : Extends(new, purger[p].cut)
             /\ Raced

LEMMA PurgeStep ==
  ASSUME IndInv, NEW p \in Purgers, PurgeCommit(p)
  PROVE  UNCHANGED <<log, written, verifier>> \/ Purged(p)
<1> DEFINE doomed == {e \in log : e.seq <= purger[p].cut.seq}
           new == Sealed(written + 1, purger[p].createdAt, purger[p].cut, log \ doomed)
<1>0. /\ TypeOK /\ NumberedInv /\ written \in Nat /\ log \subseteq Entry /\ \A e \in log : e.seq \in Int
      /\ purger[p].pc = "bounded" /\ purger[p].createdAt \in Nat
      /\ purger[p].cut \in Link /\ purger[p].cut.seq < written /\ purger[p].cut.seq \in Int
      /\ \A e \in log : e.seq = purger[p].cut.seq => e.hash = purger[p].cut.hash
  BY DEF PurgeCommit, IndInv, TypeOK, PurgerInv, Purger, Entry, Link, Seqs
<1>1. CASE doomed = {}
  BY <1>1 DEF PurgeCommit
<1>2. CASE doomed # {}
  <2>1. /\ sealing = None /\ written < MaxEntries /\ written' = written + 1
        /\ log' = (log \ doomed) \cup {new} /\ Raced
    BY <1>2 DEF PurgeCommit, Raced
  <2>2. Cuts(purger[p].cut) /\ purger[p].cut # None
    BY <1>0, <1>2, NullAssumption DEF Cuts
  <2>3. log \ doomed = Rest(purger[p].cut)
    <3>1. \A e \in log : e.seq <= purger[p].cut.seq <=> ~(e.seq > purger[p].cut.seq)
      BY <1>0
    <3> QED
      BY <2>2, <3>1 DEF Rest
  <2>4. \A e \in log : e.seq = written => e \in log \ doomed
    BY <1>0
  <2>5. log \ doomed \in SUBSET log
    OBVIOUS
  <2> HIDE DEF doomed
  <2>6. /\ new \in Entry /\ new.seq = written + 1 /\ new.cut = purger[p].cut
        /\ IF written = 0 THEN new.prevHash = None
           ELSE \E f \in log : f.seq = written /\ new.prevHash = f.hash
    BY <1>0, <2>1, <2>4, <2>5, SealedFollows
  <2> HIDE DEF new
  <2>7. Extends(new, purger[p].cut)
    BY <2>1, <2>3, <2>6 DEF Extends
  <2> QED
    BY <1>0, <2>1, <2>2, <2>6, <2>7 DEF Purged
<1> QED
  BY <1>1, <1>2

LEMMA CommitStep ==
  ASSUME IndInv, NEW w \in Writers, Commit(w)
  PROVE  Committed(w)
<1>1. Follows(tx[w].entry)
  BY DEF IndInv, SealedInv, Commit
<1>2. Rest(None) = log
  BY DEF Rest
<1> QED
  BY <1>1, <1>2 DEF Committed, Extends, Follows, Commit

LEMMA LogStep ==
  ASSUME IndInv, [Next]_vars
  PROVE  \/ UNCHANGED <<log, written>>
         \/ \E w \in Writers : Committed(w)
         \/ \E p \in Purgers : Purged(p)
<1>1. ASSUME NEW w \in Writers, Write(w) PROVE UNCHANGED <<log, written>> \/ Committed(w)
  BY <1>1, CommitStep DEF Write, Begin, AuditSeal, Rollback
<1>2. ASSUME NEW p \in Purgers, Purge(p) PROVE UNCHANGED <<log, written>> \/ Purged(p)
  BY <1>2, PurgeStep DEF Purge, PurgeStart, PurgeBoundary, logVars
<1>3. ASSUME NEW v \in Verifiers, Verify(v) PROVE UNCHANGED <<log, written>>
  BY <1>3 DEF Verify, VerifyStart, VerifyRead, VerifyAnchor, logVars
<1>4. ASSUME NEW d \in Drains, Deliver(d) \/ Crash(d) PROVE UNCHANGED <<log, written>>
  BY <1>4 DEF Deliver, DrainStart, ClaimNextStream, CheckFeature, ReadBatch, Send, Settle, Crash, logVars
<1>5. Tick \/ UNCHANGED vars => UNCHANGED <<log, written>>
  BY DEF Tick, vars, logVars
<1> QED
  BY <1>1, <1>2, <1>3, <1>4, <1>5 DEF Next

\* One more entry, and those after some number: all of them, or all after the purge's cut.
LEMMA LogChange ==
  ASSUME IndInv, [Next]_vars
  PROVE  /\ NumberedInv' /\ LinkedInv' /\ written' >= written
         /\ \A e \in log' \ log : e.seq = written + 1
         /\ \A e \in log \cap log', f \in log : e.seq <= f.seq => f \in log'
         /\ log \subseteq log' \/ \E p \in Purgers : Purged(p)
<1>0. TypeOK /\ NumberedInv /\ LinkedInv /\ written \in Nat /\ \A e \in log : e.seq \in Int
  BY DEF IndInv, TypeOK, Entry, Seqs
<1>1. CASE UNCHANGED <<log, written>>
  BY <1>0, <1>1 DEF NumberedInv, LinkedInv, Anchored
<1>2. ASSUME NEW w \in Writers, Committed(w) PROVE NumberedInv' /\ LinkedInv' /\ log' = log \cup {tx[w].entry}
        /\ written' = written + 1 /\ tx[w].entry.seq = written + 1
  <2>1. Cuts(None) /\ Rest(None) = log
    BY DEF Cuts, Rest
  <2> QED
    BY <1>0, <1>2, <2>1, ChainStep DEF Committed, Extends
<1>3. ASSUME NEW p \in Purgers, Purged(p)
      PROVE  /\ NumberedInv' /\ LinkedInv' /\ written' = written + 1
             /\ \E new \in Entry : new.seq = written + 1 /\ log' = {e \in log : e.seq > purger[p].cut.seq} \cup {new}
  <2>1. PICK new \in Entry : Extends(new, purger[p].cut)
    BY <1>3 DEF Purged
  <2>2. purger[p].cut \in Link /\ Cuts(purger[p].cut)
    BY <1>3 DEF Purged
  <2>3. Rest(purger[p].cut) = {e \in log : e.seq > purger[p].cut.seq}
    BY <2>2, NullAssumption DEF Rest
  <2> QED
    BY <1>0, <2>1, <2>2, <2>3, ChainStep DEF Extends
<1>4. ASSUME NEW p \in Purgers, Purged(p), NEW e \in log \cap log', NEW f \in log, e.seq <= f.seq PROVE f \in log'
  <2>1. PICK new \in Entry : new.seq = written + 1 /\ log' = {g \in log : g.seq > purger[p].cut.seq} \cup {new}
    BY <1>3, <1>4
  <2>2. e # new /\ purger[p].cut.seq \in Int
    BY <1>0, <1>4, <2>1 DEF NumberedInv, Purged, Link, Seqs
  <2>3. e.seq > purger[p].cut.seq
    BY <2>1, <2>2
  <2> QED
    BY <1>0, <1>4, <2>1, <2>2, <2>3
<1>5. CASE \E w \in Writers : Committed(w)
  BY <1>0, <1>2, <1>5
<1>6. CASE \E p \in Purgers : Purged(p)
  BY <1>0, <1>3, <1>4, <1>6
<1> QED
  BY <1>1, <1>5, <1>6, <1>0, LogStep
-----------------------------------------------------------------------------
(* Each part of the invariant, step by step. *)

\* What a transaction sealed stays what follows the log, for it holds the lock.
LEMMA SealedStep ==
  ASSUME IndInv, [Next]_vars
  PROVE  SealedInv'
<1>0. /\ TypeOK /\ NumberedInv /\ SealedInv /\ written \in Nat
      /\ \A w \in Writers : tx[w] \in Tx /\ w # None
      /\ DOMAIN tx = Writers
  BY DEF IndInv, TypeOK
<1>1. ASSUME NEW w \in Writers,
             Rollback(w) \/ \E op \in Operations, days \in RetentionChoices \cup {None} : Begin(w, op, days)
      PROVE  SealedInv'
  <2>1. /\ UNCHANGED <<log, written>> /\ tx'[w].pc # "sealed"
        /\ \A x \in Writers \ {w} : tx'[x] = tx[x] /\ (sealing = x => sealing' = x)
    <3>1. CASE Rollback(w)
      BY <1>0, <3>1 DEF Rollback, IdleTx
    <3>2. ASSUME NEW op \in Operations, NEW days \in RetentionChoices \cup {None}, Begin(w, op, days)
          PROVE  /\ UNCHANGED <<log, written, sealing>> /\ tx'[w].pc # "sealed"
                 /\ \A x \in Writers \ {w} : tx'[x] = tx[x]
      BY <1>0, <3>2 DEF Begin, IdleTx
    <3> QED
      BY <1>1, <3>1, <3>2
  <2> QED
    BY <1>0, <2>1 DEF SealedInv, Follows
<1>2. ASSUME NEW w \in Writers, AuditSeal(w) PROVE SealedInv'
  <2> DEFINE new == Sealed(written + 1, tx[w].createdAt, None, log)
  <2>1. Follows(new)
    BY <1>0, <1>2, SealedFollows DEF AuditSeal, Follows, Tx
  <2> HIDE DEF new
  <2>2. /\ UNCHANGED <<log, written>> /\ tx'[w].entry = new /\ sealing' = w
        /\ \A x \in Writers \ {w} : tx'[x] = tx[x] /\ tx[x].pc # "sealed"
    <3>1. tx' = [tx EXCEPT ![w] = [tx[w] EXCEPT !.pc = "sealed", !.entry = new]]
      BY <1>0, <1>2 DEF AuditSeal, new
    <3>2. tx'[w].entry = new
      BY <1>0, <3>1 DEF Tx
    <3> QED
      BY <1>0, <1>2, <3>1, <3>2 DEF AuditSeal, SealedInv
  <2> QED
    BY <2>1, <2>2 DEF SealedInv, Follows
<1>3. ASSUME NEW w \in Writers, Commit(w) PROVE SealedInv'
  <2>1. \A x \in Writers : tx'[x].pc # "sealed"
    BY <1>0, <1>3 DEF Commit, SealedInv, IdleTx
  <2> QED
    BY <2>1 DEF SealedInv
<1>4. ASSUME NEW p \in Purgers, Purge(p) PROVE SealedInv'
  <2>1. CASE UNCHANGED <<log, written>>
    BY <1>0, <1>4, <2>1 DEF SealedInv, Follows, Purge, PurgeStart, PurgeBoundary, PurgeCommit, logVars
  <2>2. CASE ~UNCHANGED <<log, written>>
    <3>1. UNCHANGED tx /\ sealing = None
      BY <1>4, <2>2 DEF Purge, PurgeStart, PurgeBoundary, PurgeCommit, logVars
    <3> QED
      BY <1>0, <3>1 DEF SealedInv
  <2> QED
    BY <2>1, <2>2
<1>5. ASSUME UNCHANGED logVars PROVE SealedInv'
  BY <1>0, <1>5 DEF SealedInv, Follows, logVars
<1>6. ASSUME NEW v \in Verifiers, Verify(v) PROVE SealedInv'
  BY <1>5, <1>6 DEF Verify, VerifyStart, VerifyRead, VerifyAnchor
<1>7. ASSUME NEW d \in Drains, Deliver(d) \/ Crash(d) PROVE SealedInv'
  BY <1>5, <1>7 DEF Deliver, DrainStart, ClaimNextStream, CheckFeature, ReadBatch, Send, Settle, Crash
<1>8. ASSUME Tick \/ UNCHANGED vars PROVE SealedInv'
  BY <1>5, <1>8 DEF Tick, vars, logVars
<1> QED
  BY <1>1, <1>2, <1>3, <1>4, <1>6, <1>7, <1>8 DEF Next, Write

\* An entry chosen to cut after stays justified: what is at or below the cut stays, or goes
\* with everything below it.
PurgerOK(q) ==
  /\ q.pc = "chosen" => \E days \in RetentionChoices : q.cutoff <= clock - days
  /\ q.pc = "bounded" =>
       /\ q.cut \in Link /\ q.cut.seq < written
       /\ \A e \in log : e.seq = q.cut.seq => e.hash = q.cut.hash
       /\ \A e \in log : e.seq <= q.cut.seq =>
            \E f \in log, days \in RetentionChoices : q.cut.seq <= f.seq /\ f.createdAt < clock - days

LEMMA PurgerStep ==
  ASSUME IndInv, [Next]_vars, TypeOK'
  PROVE  PurgerInv'
<1>0. /\ TypeOK /\ NumberedInv /\ written \in Nat /\ clock \in Nat /\ clock' \in Nat /\ written' \in Nat
      /\ \A e \in log : e.seq \in Int /\ e.createdAt \in Int /\ e.seq <= written
      /\ \A p \in Purgers : purger[p] \in Purger /\ PurgerOK(purger[p])
      /\ DOMAIN purger = Purgers
      /\ RetentionChoices \subseteq Nat
  BY DEF IndInv, TypeOK, Entry, Seqs, PurgerInv, PurgerOK, NumberedInv
<1>1. ASSUME NEW q \in Purger, PurgerOK(q), clock' >= clock PROVE PurgerOK(q)'
  <2>1. CASE q.pc = "chosen"
    <3>1. PICK days \in RetentionChoices : q.cutoff <= clock - days
      BY <1>1, <2>1 DEF PurgerOK
    <3>2. q.cutoff <= clock' - days
      <4>1. q.cutoff \in Int /\ days \in Int
        BY <1>0 DEF Purger
      <4> QED
        BY <1>0, <1>1, <3>1, <4>1
    <3> QED
      BY <2>1, <3>2 DEF PurgerOK
  <2>2. CASE q.pc = "bounded"
    <3>0. q.cut \in Link /\ q.cut.seq < written /\ q.cut.seq \in Int /\ written' >= written
      BY <1>1, <2>2, LogChange DEF PurgerOK, Link, Seqs
    <3>1. q.cut.seq < written'
      BY <1>0, <3>0
    <3>2. \A e \in log' : e.seq <= q.cut.seq => e \in log
      BY <1>0, <3>0, LogChange
    <3>3. \A e \in log' : e.seq = q.cut.seq => e.hash = q.cut.hash
      BY <1>1, <2>2, <3>0, <3>2 DEF PurgerOK
    <3>4. ASSUME NEW e \in log', e.seq <= q.cut.seq
          PROVE  \E f \in log', days \in RetentionChoices : q.cut.seq <= f.seq /\ f.createdAt < clock' - days
      <4>1. e \in log
        BY <3>2, <3>4
      <4>2. PICK f \in log, days \in RetentionChoices : q.cut.seq <= f.seq /\ f.createdAt < clock - days
        BY <1>1, <2>2, <3>4, <4>1 DEF PurgerOK
      <4>3. f \in log'
        <5>1. e.seq <= f.seq
          BY <1>0, <3>0, <3>4, <4>1, <4>2
        <5> QED
          BY <4>1, <3>4, <5>1, LogChange
      <4>4. f.createdAt < clock' - days
        BY <1>0, <1>1, <4>2
      <4> QED
        BY <4>2, <4>3, <4>4
    <3> QED
      BY <2>2, <3>0, <3>1, <3>3, <3>4 DEF PurgerOK
  <2> QED
    BY <2>1, <2>2 DEF PurgerOK
<1>2. clock' >= clock
  <2>1. clock' = clock \/ clock' = clock + 1
    BY DEF Next, Write, Begin, AuditSeal, Commit, Rollback, Purge, PurgeStart, PurgeBoundary, PurgeCommit,
           Verify, VerifyStart, VerifyRead, VerifyAnchor, Deliver, DrainStart, ClaimNextStream, CheckFeature,
           ReadBatch, Send, Settle, Crash, Tick, vars
  <2> QED
    BY <1>0, <2>1
<1>3. ASSUME UNCHANGED purger PROVE PurgerInv'
  <2>1. ASSUME NEW p \in Purgers PROVE PurgerOK(purger[p])'
    <3>1. PICK u : u = purger[p]
      OBVIOUS
    <3>2. PurgerOK(u)'
      BY <1>0, <1>1, <1>2, <3>1
    <3> QED
      BY <1>3, <3>1, <3>2 DEF PurgerOK
  <2> QED
    BY <2>1 DEF PurgerInv, PurgerOK
<1>4. ASSUME NEW p \in Purgers, NEW q, purger' = [purger EXCEPT ![p] = q], PurgerOK(q)' PROVE PurgerInv'
  <2>1. ASSUME NEW x \in Purgers PROVE PurgerOK(purger[x])'
    <3>1. PICK u : u = purger'[x]
      OBVIOUS
    <3>2. u = q \/ u = purger[x]
      BY <1>0, <1>4, <3>1
    <3>3. PurgerOK(u)'
      BY <1>0, <1>1, <1>2, <1>4, <3>2
    <3> QED
      BY <3>1, <3>3 DEF PurgerOK
  <2> QED
    BY <2>1 DEF PurgerInv, PurgerOK
<1>5. PurgerOK(IdlePurger)'
  BY DEF PurgerOK, IdlePurger
<1>6. ASSUME NEW p \in Purgers, PurgeStart(p) PROVE PurgerInv'
  <2>0. PICK q : q = [IdlePurger EXCEPT !.pc = "chosen", !.cutoff = clock - retention]
    OBVIOUS
  <2>1. purger' = [purger EXCEPT ![p] = q] /\ UNCHANGED clock /\ retention \in RetentionChoices
    BY <1>0, <1>6, <2>0 DEF PurgeStart, TypeOK
  <2>2. q.pc = "chosen" /\ q.cutoff = clock - retention
    BY <2>0 DEF IdlePurger
  <2>3. q.cutoff <= clock' - retention
    BY <1>0, <2>1, <2>2
  <2>4. PurgerOK(q)'
    BY <2>1, <2>2, <2>3 DEF PurgerOK
  <2> QED
    BY <1>4, <2>1, <2>4
<1>7. ASSUME NEW p \in Purgers, PurgeBoundary(p) PROVE PurgerInv'
  <2>1. CASE purger' = [purger EXCEPT ![p] = IdlePurger]
    BY <1>4, <1>5, <2>1
  <2>2. ASSUME NEW e \in Boundary(purger[p].cutoff),
               purger' = [purger EXCEPT ![p].pc = "bounded", ![p].createdAt = clock,
                                        ![p].cut = [seq |-> e.seq, hash |-> e.hash]]
        PROVE  PurgerInv'
    <3> DEFINE expired == Expired(purger[p].cutoff)
    <3>0. UNCHANGED <<clock, log, written>> /\ purger[p].pc = "chosen" /\ purger[p].cutoff \in Int
      BY <1>0, <1>7 DEF PurgeBoundary, logVars, Purger
    <3>1. /\ e \in log /\ expired # {}
          /\ e.seq = Least(Highest(expired), Least(LatestSeq - 1, Lowest(LogSeqs) + MaxPurge - 1))
      BY DEF Boundary
    <3>2. LatestSeq = written
      BY <1>0, NewestSeq DEF TypeOK
    <3>3. IsFiniteSet(expired) /\ expired \in SUBSET Int
      <4>1. {f \in log : f.createdAt < purger[p].cutoff} \in SUBSET log
        OBVIOUS
      <4>2. IsFiniteSet({f \in log : f.createdAt < purger[p].cutoff})
        BY <1>0, <4>1, FS_Subset DEF NumberedInv
      <4>3. {f \in log : f.createdAt < purger[p].cutoff} \in SUBSET Entry
        BY <1>0, <4>1 DEF TypeOK
      <4> QED
        BY <4>2, <4>3, SeqsFinite DEF Expired
    <3>4. Highest(expired) \in expired /\ Highest(expired) \in Int
      BY <3>1, <3>3, HighestIn
    <3>5. Lowest(LogSeqs) + MaxPurge - 1 \in Int
      <4>1. LogSeqs \in SUBSET Int /\ IsFiniteSet(LogSeqs) /\ LogSeqs # {}
        BY <1>0, <3>1, SeqsFinite DEF NumberedInv, LogSeqs, TypeOK
      <4>2. Lowest(LogSeqs) \in Int
        BY <4>1, LowestIn
      <4> QED
        BY <4>2
    <3>6. e.seq <= Highest(expired) /\ e.seq < written
      BY <1>0, <3>1, <3>2, <3>4, <3>5 DEF Least
    <3>7. PICK f \in log : f.seq = Highest(expired) /\ f.createdAt < purger[p].cutoff
      BY <3>4 DEF Expired
    <3>8. PICK days \in RetentionChoices : purger[p].cutoff <= clock - days
      BY <1>0, <3>0 DEF PurgerOK
    <3>9. f.createdAt < clock' - days /\ e.seq <= f.seq
      BY <1>0, <3>0, <3>6, <3>7, <3>8
    <3> PICK q : q = [purger[p] EXCEPT !.pc = "bounded", !.createdAt = clock,
                                       !.cut = [seq |-> e.seq, hash |-> e.hash]]
      OBVIOUS
    <3>10. q.pc = "bounded" /\ q.cut = [seq |-> e.seq, hash |-> e.hash]
      BY <1>0 DEF Purger
    <3>11. purger' = [purger EXCEPT ![p] = q]
      BY <1>0, <2>2
    <3>12. [seq |-> e.seq, hash |-> e.hash] \in Link
      BY <1>0, <3>1 DEF TypeOK, Entry, Link
    <3>13. \A g \in log : g.seq = e.seq => g.hash = e.hash
      BY <1>0, <3>1 DEF NumberedInv
    <3>14. PurgerOK(q)'
      BY <3>0, <3>1, <3>6, <3>7, <3>9, <3>10, <3>12, <3>13 DEF PurgerOK
    <3> QED
      BY <1>4, <3>11, <3>14
  <2> QED
    BY <1>7, <2>1, <2>2 DEF PurgeBoundary
<1>8. ASSUME NEW p \in Purgers, PurgeCommit(p) PROVE PurgerInv'
  BY <1>4, <1>5, <1>8 DEF PurgeCommit
<1>9. ASSUME NEW w \in Writers, Write(w) PROVE PurgerInv'
  BY <1>3, <1>9 DEF Write, Begin, AuditSeal, Commit, Rollback
<1>10. ASSUME NEW v \in Verifiers, Verify(v) PROVE PurgerInv'
  BY <1>3, <1>10 DEF Verify, VerifyStart, VerifyRead, VerifyAnchor
<1>11. ASSUME NEW d \in Drains, Deliver(d) \/ Crash(d) PROVE PurgerInv'
  BY <1>3, <1>11 DEF Deliver, DrainStart, ClaimNextStream, CheckFeature, ReadBatch, Send, Settle, Crash
<1>12. ASSUME Tick \/ UNCHANGED vars PROVE PurgerInv'
  BY <1>3, <1>12 DEF Tick, vars
<1> QED
  BY <1>6, <1>7, <1>8, <1>9, <1>10, <1>11, <1>12 DEF Next, Purge

\* A stretch of the log without a gap is a run.
LEMMA StretchRuns ==
  ASSUME TypeOK, NumberedInv, LinkedInv, NEW after \in Nat, NEW rows \in SUBSET log, \A e \in rows : after < e.seq,
         \A e \in rows, f \in log : after < f.seq /\ f.seq <= e.seq => f \in rows
  PROVE  Run(rows)
<1>0. log \subseteq Entry /\ written \in Nat /\ \A e \in log : e.seq \in Int /\ e.seq <= written
  BY DEF TypeOK, NumberedInv, Entry, Seqs
<1>1. Distinct(rows)
  BY <1>0 DEF Distinct, NumberedInv
<1>2. ASSUME NEW e \in rows, NEW f \in rows, e.seq < f.seq
      PROVE  \E g \in rows : g.seq = f.seq - 1 /\ f.prevHash = g.hash
  <2>1. f.seq - 1 \in e.seq..written
    BY <1>0, <1>2
  <2>2. PICK g \in log : g.seq = f.seq - 1
    BY <2>1 DEF NumberedInv
  <2>3. f.seq = g.seq + 1 /\ after < g.seq /\ g.seq <= f.seq
    BY <1>0, <1>2, <2>2
  <2>4. g \in rows /\ f.prevHash = g.hash
    BY <2>3 DEF LinkedInv
  <2> QED
    BY <2>2, <2>4
<1> QED
  BY <1>1, <1>2 DEF Run

\* What is still to be read goes on where the verification stopped.
LEMMA FollowsOn ==
  ASSUME TypeOK, NumberedInv, LinkedInv, NEW last \in log, NEW n \in Nat,
         NEW batch, batch = NextEntries(last.seq, n), batch # {}
  PROVE  FindChainBreak([seq |-> last.seq, hash |-> last.hash], batch) = {}
<1> DEFINE previous == [seq |-> last.seq, hash |-> last.hash]
<1>0. log \subseteq Entry /\ written \in Nat /\ \A e \in log : e.seq \in Nat /\ e.seq <= written
  BY DEF TypeOK, NumberedInv, Entry, Seqs
<1>1. /\ batch \subseteq log /\ \A e \in batch : last.seq < e.seq
      /\ \A e \in batch, f \in log : last.seq < f.seq /\ f.seq <= e.seq => f \in batch
      /\ \E e \in batch : \A f \in batch : e.seq <= f.seq
  BY <1>0, NextEntriesType
<1>2. Run(batch)
  BY <1>0, <1>1, StretchRuns
<1>3. PICK first \in batch : \A f \in batch : first.seq <= f.seq
  BY <1>1
<1>4. first.seq = last.seq + 1
  <2>1. last.seq + 1 \in last.seq..written
    BY <1>0, <1>1
  <2>2. PICK f \in log : f.seq = last.seq + 1
    BY <2>1 DEF NumberedInv
  <2>3. f \in batch
    BY <1>0, <1>1, <1>3, <2>2
  <2> QED
    BY <1>0, <1>1, <1>3, <2>2, <2>3
<1>5. first.prevHash = last.hash
  BY <1>1, <1>4 DEF LinkedInv
<1>6. previous # None
  <2>1. previous \in Link
    BY <1>0 DEF Link, Entry
  <2> QED
    BY <2>1, NullAssumption
<1>7. FaultAt(previous, first) = {}
  BY <1>4, <1>5, <1>6 DEF FaultAt
<1> QED
  BY <1>2, <1>3, <1>7, RunUnbroken

\* The bottom of the log follows what it is anchored to.
LEMMA BottomHolds ==
  ASSUME TypeOK, NumberedInv, LinkedInv, NEW batch \in SUBSET log, NEW first \in batch, \A e \in batch : first.seq <= e.seq,
         \A e \in batch, f \in log : f.seq <= e.seq => f \in batch
  PROVE  /\ first.seq = 1 => FindChainBreak(None, batch) = {}
         /\ FindChainBreak(PurgeAnchor(first, log), batch) = {}
         /\ first.seq = 1 => PurgeAnchor(first, log) = None
<1>0. log \subseteq Entry /\ \A e \in log : e.seq \in Nat /\ e.seq >= 1
  BY DEF TypeOK, Entry, Seqs
<1>1. Run(batch)
  BY <1>0, StretchRuns
<1>2. Anchored(first)
  <2>1. \A f \in log : first.seq <= f.seq
    BY <1>0
  <2> QED
    BY <2>1 DEF LinkedInv
<1>3. CASE first.seq = 1
  <2>1. first.prevHash = None
    BY <1>2, <1>3 DEF Anchored
  <2>2. PurgeAnchor(first, log) = None
    BY <2>1 DEF PurgeAnchor
  <2>3. FaultAt(None, first) = {}
    BY <1>3, <2>1 DEF FaultAt
  <2> QED
    BY <1>1, <2>2, <2>3, RunUnbroken
<1>4. CASE first.seq # 1
  <2> DEFINE anchor == [seq |-> first.seq - 1, hash |-> first.prevHash]
  <2>1. PurgeAnchor(first, log) = anchor /\ first.prevHash # None
    BY <1>2, <1>4 DEF Anchored, PurgeAnchor
  <2>2. anchor # None
    <3>1. anchor \in Link
      BY <1>0, <1>4, <2>1 DEF Entry, Link, Seqs
    <3> QED
      BY <3>1, NullAssumption
  <2>3. first.seq = anchor.seq + 1
    BY <1>0
  <2>4. FaultAt(anchor, first) = {}
    BY <2>2, <2>3 DEF FaultAt
  <2> HIDE DEF anchor
  <2> QED
    BY <1>1, <1>4, <2>1, <2>4, RunUnbroken
<1> QED
  BY <1>3, <1>4

\* One turn of the loop leaves a verification in order when it found nothing it may not find.
VerifierOK(q) == (q.fault # None => q.raced) /\ ReadingInv(q) /\ AnchoringInv(q)

LEMMA TurnHolds ==
  ASSUME TypeOK, NEW v \in Verifiers, VerifierOK(verifier[v]), NEW previous \in Link \cup {None}, NEW batch,
         Distinct(batch), IsFiniteSet(batch), batch # {},
         previous # None => \A e \in batch : previous.seq < e.seq,
         ~verifier[v].raced => batch \subseteq log /\ FindChainBreak(previous, batch) = {},
         NEW first \in Nat, NEW q, q = [Checked(v, previous, batch) EXCEPT !.first = first]
  PROVE  VerifierOK(q)
<1> DEFINE checked == Checked(v, previous, batch)
<1>1. /\ checked \in Verifier /\ checked.raced = verifier[v].raced /\ checked.pc \in {"reading", "done"}
      /\ checked.fault # None => FindChainBreak(previous, batch) # {} \/ checked.fault = verifier[v].fault
      /\ checked.pc = "reading" =>
           \E e \in batch : checked.previous = [seq |-> e.seq, hash |-> e.hash] /\ checked.after = e.seq
  BY CheckedType
<1> HIDE DEF checked
<1>2. /\ q.pc = checked.pc /\ q.raced = checked.raced /\ q.fault = checked.fault /\ q.previous = checked.previous
      /\ q.after = checked.after /\ q.first = first
  BY <1>1 DEF Verifier, checked
<1>3. q.fault # None => q.raced
  BY <1>1, <1>2 DEF VerifierOK
<1>4. ReadingInv(q)
  <2> SUFFICES ASSUME q.pc = "reading" PROVE ReadingInv(q)
    BY DEF ReadingInv
  <2>1. PICK e \in batch : q.previous = [seq |-> e.seq, hash |-> e.hash] /\ q.after = e.seq
    BY <1>1, <1>2
  <2>2. q.previous.seq = q.after
    BY <2>1
  <2>3. ~q.raced => e \in log
    BY <1>1, <1>2
  <2>4. q.first # None
    BY <1>2
  <2> QED
    BY <2>1, <2>2, <2>3, <2>4 DEF ReadingInv
<1>5. AnchoringInv(q)
  BY <1>1, <1>2 DEF AnchoringInv
<1> QED
  BY <1>3, <1>4, <1>5 DEF VerifierOK

LEMMA VerifyTurn ==
  ASSUME IndInv, NEW v \in Verifiers, Verify(v)
  PROVE  \E q : verifier' = [verifier EXCEPT ![v] = q] /\ VerifierOK(q)
<1>0. /\ TypeOK /\ NumberedInv /\ LinkedInv /\ VerifierOK(verifier[v]) /\ verifier[v] \in Verifier
      /\ VerifyBatch \in Nat /\ log \subseteq Entry
      /\ \A e \in log : e.seq \in Nat /\ e.seq >= 1
  BY DEF IndInv, TypeOK, VerifierInv, VerifierOK, Entry, Seqs
<1>1. CASE VerifyStart(v)
  <2> DEFINE q == [IdleVerifier EXCEPT !.pc = "reading"]
  <2>1. VerifierOK(q)
    BY DEF VerifierOK, ReadingInv, AnchoringInv, IdleVerifier
  <2> QED
    BY <1>1, <2>1 DEF VerifyStart
<1>2. CASE VerifyRead(v)
  <2> DEFINE old == verifier[v]
             batch == NextEntries(old.after, VerifyBatch)
             first == IF old.first = None THEN Lowest({e.seq : e \in batch}) ELSE old.first
             done == [old EXCEPT !.pc = "done"]
             asks == [old EXCEPT !.pc = "anchoring", !.first = first, !.batch = batch]
             goes == [Checked(v, old.previous, batch) EXCEPT !.first = first]
  <2>1. /\ old \in Verifier /\ old.after \in Nat /\ old.previous \in Link \cup {None} /\ old.pc = "reading"
        /\ old.previous # None => old.previous.seq = old.after
        /\ ~old.raced => \/ old.first = None /\ old.previous = None /\ old.after = 0
                         \/ old.first # None /\ \E e \in log : old.previous = [seq |-> e.seq, hash |-> e.hash]
    BY <1>0, <1>2 DEF Verifier, VerifyRead, VerifierOK, ReadingInv
  <2>2. /\ batch \subseteq log /\ IsFiniteSet(batch) /\ Distinct(batch)
        /\ \A e \in batch : old.after < e.seq
        /\ \A e \in batch, f \in log : old.after < f.seq /\ f.seq <= e.seq => f \in batch
        /\ batch # {} /\ old.first = None => \E e \in batch : e.seq = first /\ \A f \in batch : first <= f.seq
    <3> DEFINE lowest == Lowest({e.seq : e \in batch})
    <3>1. /\ batch \subseteq log /\ IsFiniteSet(batch) /\ Distinct(batch)
          /\ \A e \in batch : old.after < e.seq
          /\ \A e \in batch, f \in log : old.after < f.seq /\ f.seq <= e.seq => f \in batch
          /\ batch # {} => \E e \in batch : e.seq = lowest /\ \A f \in batch : e.seq <= f.seq
      BY <1>0, <2>1, NextEntriesType
    <3>2. old.first = None => first = lowest
      OBVIOUS
    <3> HIDE DEF batch, lowest, first
    <3> QED
      BY <3>1, <3>2
  <2>3. verifier' = [verifier EXCEPT ![v] = IF batch = {} THEN done
                                            ELSE IF old.first = None /\ first > 1 THEN asks ELSE goes]
    BY <1>2 DEF VerifyRead
  <2>4. batch # {} => first \in Nat
    BY <1>0, <2>1, <2>2 DEF Verifier
  <2>5. VerifierOK(done)
    BY <1>0, <2>1 DEF VerifierOK, ReadingInv, AnchoringInv, Verifier
  <2>6. batch # {} /\ old.first = None /\ first > 1 => VerifierOK(asks)
    <3> SUFFICES ASSUME batch # {}, old.first = None, first > 1 PROVE VerifierOK(asks)
      OBVIOUS
    <3>1. PICK e \in batch : e.seq = first /\ \A f \in batch : first <= f.seq
      BY <2>2
    <3>2. first \in Seqs \ {1}
      BY <1>0, <2>2, <2>4, <3>1 DEF Entry
    <3>3. \A f, g \in batch : f.seq = g.seq => f = g
      BY <2>2 DEF Distinct
    <3>4. ~old.raced => \A f \in batch, g \in log : g.seq <= f.seq => g \in batch
      BY <1>0, <2>1, <2>2
    <3> HIDE DEF batch, first
    <3>5. /\ asks.pc = "anchoring" /\ asks.first = first /\ asks.batch = batch
          /\ asks.raced = old.raced /\ asks.fault = old.fault
      BY <2>1 DEF Verifier
    <3> HIDE DEF asks
    <3>6. AnchoringInv(asks)
      BY <2>2, <3>1, <3>2, <3>3, <3>4, <3>5 DEF AnchoringInv
    <3>7. ReadingInv(asks)
      BY <3>5 DEF ReadingInv
    <3> QED
      BY <1>0, <3>5, <3>6, <3>7 DEF VerifierOK
  <2>7. batch # {} /\ ~(old.first = None /\ first > 1) => VerifierOK(goes)
    <3> SUFFICES ASSUME batch # {}, ~(old.first = None /\ first > 1) PROVE VerifierOK(goes)
      OBVIOUS
    <3>1. ~old.raced => FindChainBreak(old.previous, batch) = {}
      <4>1. CASE old.first = None /\ old.previous = None /\ old.after = 0
        <5>1. PICK e \in batch : e.seq = first /\ \A f \in batch : first <= f.seq
          BY <2>2, <4>1
        <5>2. e.seq = 1
          BY <1>0, <2>2, <2>4, <4>1, <5>1
        <5>3. \A f \in batch, g \in log : g.seq <= f.seq => g \in batch
          BY <1>0, <2>2, <4>1
        <5> HIDE DEF batch
        <5> QED
          BY <1>0, <2>2, <4>1, <5>1, <5>2, <5>3, BottomHolds
      <4>2. ASSUME NEW e \in log, old.previous = [seq |-> e.seq, hash |-> e.hash]
            PROVE  FindChainBreak(old.previous, batch) = {}
        <5>1. old.previous # None
          <6>1. [seq |-> e.seq, hash |-> e.hash] \in Link
            BY <1>0 DEF Entry, Link
          <6> QED
            BY <4>2, <6>1, NullAssumption
        <5>2. old.after = e.seq
          BY <2>1, <4>2, <5>1
        <5> QED
          BY <1>0, <4>2, <5>2, FollowsOn
      <4> QED
        BY <2>1, <4>1, <4>2
    <3>2. old.previous # None => \A e \in batch : old.previous.seq < e.seq
      BY <2>1, <2>2
    <3> HIDE DEF batch, first
    <3> QED
      BY <1>0, <2>1, <2>2, <2>4, <3>1, <3>2, TurnHolds
  <2> HIDE DEF batch, first, done, asks, goes
  <2> QED
    BY <2>3, <2>5, <2>6, <2>7
<1>3. CASE VerifyAnchor(v)
  <2> DEFINE old == verifier[v]
             e == CHOOSE e \in old.batch : e.seq = old.first
             anchor == PurgeAnchor(e, log)
             goes == Checked(v, anchor, old.batch)
  <2>1. /\ old \in Verifier /\ old.batch \subseteq Entry /\ IsFiniteSet(old.batch)
        /\ \E f \in old.batch : f.seq = old.first
        /\ old.first \in Seqs \ {1}
        /\ \A f \in old.batch : old.first <= f.seq
        /\ \A f, g \in old.batch : f.seq = g.seq => f = g
        /\ ~old.raced => old.batch \subseteq log /\ \A f \in old.batch, g \in log : g.seq <= f.seq => g \in old.batch
    BY <1>0, <1>3 DEF Verifier, VerifyAnchor, VerifierOK, AnchoringInv
  <2>2. e \in old.batch /\ e.seq = old.first /\ e \in Entry
    BY <2>1
  <2>3. Distinct(old.batch) /\ old.batch # {} /\ \A f \in old.batch : f.seq \in Int
    BY <2>1 DEF Distinct, Entry, Seqs
  <2>4. verifier' = [verifier EXCEPT ![v] = goes]
    BY <1>3 DEF VerifyAnchor
  <2> HIDE DEF e
  <2>5. anchor \in Link \cup {None} /\ (anchor # None => anchor.seq = e.seq - 1)
    <3>1. e.prevHash # None => [seq |-> e.seq - 1, hash |-> e.prevHash] \in Link
      BY <2>1, <2>2 DEF Entry, Link, Seqs
    <3> QED
      BY <3>1 DEF PurgeAnchor
  <2>6. anchor # None => \A f \in old.batch : anchor.seq < f.seq
    BY <2>1, <2>2, <2>3, <2>5
  <2>7. ~old.raced => old.batch \subseteq log /\ FindChainBreak(anchor, old.batch) = {}
    BY <1>0, <2>1, <2>2, BottomHolds
  <2> HIDE DEF anchor
  <2>8. goes \in Verifier /\ goes.first = old.first
    BY <1>0, <2>1, <2>3, <2>5, <2>6, CheckedType
  <2>9. goes = [goes EXCEPT !.first = old.first]
    BY <2>8 DEF Verifier
  <2>10. old.first \in Nat
    BY <2>1 DEF Seqs
  <2>11. VerifierOK(goes)
    BY <1>0, <2>1, <2>3, <2>5, <2>6, <2>7, <2>9, <2>10, TurnHolds
  <2> QED
    BY <2>4, <2>11
<1> QED
  BY <1>1, <1>2, <1>3 DEF Verify

LEMMA VerifierStep ==
  ASSUME IndInv, [Next]_vars
  PROVE  VerifierInv'
<1>0. /\ TypeOK /\ NumberedInv /\ written \in Nat /\ \A e \in log : e.seq \in Nat /\ e.seq <= written
      /\ \A v \in Verifiers : verifier[v] \in Verifier /\ VerifierOK(verifier[v])
      /\ DOMAIN verifier = Verifiers
  BY DEF IndInv, TypeOK, Entry, Seqs, VerifierInv, VerifierOK, NumberedInv
<1>1. ASSUME NEW q \in Verifier, VerifierOK(q), log \subseteq log' \/ q.raced \/ q.pc \notin {"reading", "anchoring"}
      PROVE  VerifierOK(q)'
  <2>1. \A e \in log' \ log : e.seq = written + 1
    BY LogChange
  <2>2. ReadingInv(q)'
    BY <1>1 DEF VerifierOK, ReadingInv
  <2>3. AnchoringInv(q)'
    <3> SUFFICES ASSUME q.pc = "anchoring" PROVE AnchoringInv(q)'
      BY DEF AnchoringInv
    <3>1. ~q.raced => q.batch \subseteq log /\ \A e \in q.batch, f \in log : f.seq <= e.seq => f \in q.batch
      BY <1>1 DEF VerifierOK, AnchoringInv
    <3>2. ~q.raced => q.batch \subseteq log' /\ \A e \in q.batch, f \in log' : f.seq <= e.seq => f \in q.batch
      <4> SUFFICES ASSUME ~q.raced
                   PROVE  q.batch \subseteq log' /\ \A e \in q.batch, f \in log' : f.seq <= e.seq => f \in q.batch
        OBVIOUS
      <4>1. q.batch \subseteq log' /\ q.batch \subseteq log
        BY <1>1, <3>1
      <4>2. ASSUME NEW e \in q.batch, NEW f \in log', f.seq <= e.seq PROVE f \in q.batch
        <5>1. f \in log
          BY <1>0, <2>1, <4>1, <4>2
        <5> QED
          BY <3>1, <4>2, <5>1
      <4> QED
        BY <4>1, <4>2
    <3> QED
      BY <1>1, <3>2 DEF VerifierOK, AnchoringInv
  <2> QED
    BY <1>1, <2>2, <2>3 DEF VerifierOK
<1>2. ASSUME NEW v \in Verifiers, NEW q, verifier' = [verifier EXCEPT ![v] = q], VerifierOK(q), UNCHANGED log
      PROVE  VerifierInv'
  <2>1. ASSUME NEW x \in Verifiers PROVE VerifierOK(verifier[x])'
    <3>1. PICK u : u = verifier'[x]
      OBVIOUS
    <3>2. u = q \/ u = verifier[x]
      BY <1>0, <1>2, <3>1
    <3>3. VerifierOK(u)
      BY <1>0, <1>2, <3>2
    <3> QED
      BY <1>2, <3>1, <3>3 DEF VerifierOK, ReadingInv, AnchoringInv
  <2> QED
    BY <2>1 DEF VerifierInv, VerifierOK
<1>3. ASSUME log \subseteq log', UNCHANGED verifier PROVE VerifierInv'
  <2>1. ASSUME NEW x \in Verifiers PROVE VerifierOK(verifier[x])'
    <3>1. PICK u : u = verifier[x]
      OBVIOUS
    <3>2. VerifierOK(u)'
      BY <1>0, <1>1, <1>3, <3>1
    <3> QED
      BY <1>3, <3>1, <3>2 DEF VerifierOK, ReadingInv, AnchoringInv
  <2> QED
    BY <2>1 DEF VerifierInv, VerifierOK
<1>4. ASSUME Raced PROVE VerifierInv'
  <2>1. ASSUME NEW x \in Verifiers PROVE VerifierOK(verifier[x])'
    <3>1. PICK u : u = verifier'[x]
      OBVIOUS
    <3>2. \/ verifier[x].pc \in {"reading", "anchoring"} /\ u = [verifier[x] EXCEPT !.raced = TRUE]
          \/ verifier[x].pc \notin {"reading", "anchoring"} /\ u = verifier[x]
      BY <1>4, <3>1 DEF Raced
    <3>3. CASE u = verifier[x] /\ verifier[x].pc \notin {"reading", "anchoring"}
      <4>1. VerifierOK(u)'
        BY <1>0, <1>1, <3>3
      <4> QED
        BY <3>1, <4>1 DEF VerifierOK, ReadingInv, AnchoringInv
    <3>4. CASE u = [verifier[x] EXCEPT !.raced = TRUE]
      <4>1. u \in Verifier /\ u.raced
        BY <1>0, <3>4 DEF Verifier
      <4>2. VerifierOK(u)
        BY <1>0, <3>4 DEF VerifierOK, ReadingInv, AnchoringInv, Verifier
      <4>3. VerifierOK(u)'
        BY <1>1, <4>1, <4>2
      <4> QED
        BY <3>1, <4>3 DEF VerifierOK, ReadingInv, AnchoringInv
    <3> QED
      BY <3>2, <3>3, <3>4
  <2> QED
    BY <2>1 DEF VerifierInv, VerifierOK
<1>5. ASSUME NEW v \in Verifiers, Verify(v) PROVE VerifierInv'
  <2>1. UNCHANGED log
    BY <1>5 DEF Verify, VerifyStart, VerifyRead, VerifyAnchor, logVars
  <2> QED
    BY <1>2, <1>5, <2>1, VerifyTurn
<1>6. ASSUME NEW w \in Writers, Write(w) PROVE VerifierInv'
  <2>1. UNCHANGED verifier /\ log \subseteq log'
    BY <1>6 DEF Write, Begin, AuditSeal, Commit, Rollback
  <2> QED
    BY <1>3, <2>1
<1>7. ASSUME NEW p \in Purgers, Purge(p) PROVE VerifierInv'
  <2>1. UNCHANGED <<log, verifier>> \/ Raced
    BY <1>7, PurgeStep DEF Purge, PurgeStart, PurgeBoundary, Purged, logVars
  <2> QED
    BY <1>3, <1>4, <2>1
<1>8. ASSUME NEW d \in Drains, Deliver(d) \/ Crash(d) PROVE VerifierInv'
  <2>1. UNCHANGED <<log, verifier>>
    BY <1>8 DEF Deliver, DrainStart, ClaimNextStream, CheckFeature, ReadBatch, Send, Settle, Crash, logVars
  <2> QED
    BY <1>3, <2>1
<1>9. ASSUME Tick \/ UNCHANGED vars PROVE VerifierInv'
  BY <1>3, <1>9 DEF Tick, vars, logVars
<1> QED
  BY <1>5, <1>6, <1>7, <1>8, <1>9 DEF Next

\* The row as drain d knows it: only d's own steps move the cursor while d holds the
\* claim, and a row with a number already given out is the same row.
DrainOK(d, q) ==
  /\ q.pc \notin {"idle", "asked"} =>
       /\ q.id <= streams
       /\ stream # None /\ stream.id = q.id /\ stream.lock # None /\ stream.lock.by = d => q.cursor = stream.cursor
  /\ q.pc = "sending" \/ (q.pc = "settling" /\ q.outcome = "delivered") =>
       /\ q.batch # {}
       /\ \A s \in q.batch : s <= written
       /\ \A e \in log, s \in q.batch : q.cursor < e.seq /\ e.seq <= s => e.seq \in q.batch
  /\ q.pc = "settling" /\ q.outcome = "delivered" /\ stream # None /\ stream.id = q.id =>
       q.batch \subseteq received

SameRow ==
  /\ streams' >= streams
  /\ stream' # None /\ stream'.id <= streams => /\ stream # None /\ stream.id = stream'.id
                                                /\ received \subseteq received'
SameClaim(d) ==
  stream' # None /\ stream'.id <= streams /\ stream'.lock # None /\ stream'.lock.by = d =>
    stream # None /\ stream.lock = stream'.lock /\ stream.cursor = stream'.cursor

LEMMA DrainKept ==
  ASSUME IndInv, [Next]_vars, TypeOK', NEW d \in Drains, NEW q \in Drain, DrainOK(d, q), SameRow, SameClaim(d)
  PROVE  DrainOK(d, q)'
<1>0. /\ written \in Nat /\ written' \in Nat /\ written' >= written /\ streams \in Nat /\ streams' \in Nat /\ streams' >= streams
      /\ q.id \in Nat /\ q.batch \subseteq Seqs /\ \A s \in q.batch : s \in Nat
      /\ \A e \in log' \ log : e.seq = written + 1
      /\ \A e \in log : e.seq \in Nat
  BY LogChange DEF IndInv, TypeOK, Drain, Seqs, SameRow, Entry
<1>1. ASSUME q.pc \notin {"idle", "asked"}
      PROVE  /\ q.id <= streams'
             /\ stream' # None /\ stream'.id = q.id /\ stream'.lock # None /\ stream'.lock.by = d => q.cursor = stream'.cursor
  <2>1. q.id <= streams
    BY <1>1 DEF DrainOK
  <2>2. q.id <= streams'
    BY <1>0, <2>1
  <2> QED
    BY <1>1, <2>1, <2>2 DEF DrainOK, SameRow, SameClaim
<1>2. ASSUME q.pc = "sending" \/ (q.pc = "settling" /\ q.outcome = "delivered")
      PROVE  /\ q.batch # {}
             /\ \A s \in q.batch : s <= written'
             /\ \A e \in log', s \in q.batch : q.cursor < e.seq /\ e.seq <= s => e.seq \in q.batch
  <2>1. \A s \in q.batch : s <= written
    BY <1>2 DEF DrainOK
  <2>2. \A s \in q.batch : s <= written'
    BY <1>0, <2>1
  <2>3. \A e \in log', s \in q.batch : e.seq <= s => e \in log
    BY <1>0, <2>1
  <2> QED
    BY <1>2, <2>2, <2>3 DEF DrainOK
<1>3. ASSUME q.pc = "settling", q.outcome = "delivered", stream' # None, stream'.id = q.id
      PROVE  q.batch \subseteq received'
  <2>1. q.id <= streams
    BY <1>3 DEF DrainOK
  <2> QED
    BY <1>3, <2>1 DEF DrainOK, SameRow
<1> QED
  BY <1>1, <1>2, <1>3 DEF DrainOK

\* The row and the drains after a step: each drain is as it was, or in order by itself.
LEMMA DrainsKept ==
  ASSUME IndInv, [Next]_vars, TypeOK', SameRow, UNCHANGED drain, \A d \in Drains : SameClaim(d)
  PROVE  DrainInv'
<1>0. \A d \in Drains : drain[d] \in Drain /\ DrainOK(d, drain[d])
  BY DEF IndInv, TypeOK, DrainInv, DrainOK, OwnedBy
<1>1. ASSUME NEW d \in Drains PROVE DrainOK(d, drain[d])'
  <2>1. PICK q : q = drain[d]
    OBVIOUS
  <2>2. DrainOK(d, q)'
    BY <1>0, <2>1, DrainKept
  <2> QED
    BY <2>1, <2>2 DEF DrainOK
<1> QED
  BY <1>1 DEF DrainInv, DrainOK, OwnedBy

LEMMA DrainMoves ==
  ASSUME IndInv, [Next]_vars, TypeOK', SameRow, NEW d \in Drains, \A x \in Drains \ {d} : SameClaim(x),
         NEW q, drain' = [drain EXCEPT ![d] = q], DrainOK(d, q)'
  PROVE  DrainInv'
<1>0. /\ \A x \in Drains : drain[x] \in Drain /\ DrainOK(x, drain[x])
      /\ DOMAIN drain = Drains
  BY DEF IndInv, TypeOK, DrainInv, DrainOK, OwnedBy
<1>1. ASSUME NEW x \in Drains PROVE DrainOK(x, drain[x])'
  <2>1. PICK u : u = drain'[x]
    OBVIOUS
  <2>2. (x = d /\ u = q) \/ (x # d /\ u = drain[x])
    BY <1>0, <2>1
  <2>3. DrainOK(x, u)'
    BY <1>0, <2>2, DrainKept
  <2> QED
    BY <2>1, <2>3 DEF DrainOK
<1> QED
  BY <1>1 DEF DrainInv, DrainOK, OwnedBy

LEMMA DrainStep ==
  ASSUME IndInv, [Next]_vars, TypeOK'
  PROVE  DrainInv'
<1>0. /\ TypeOK /\ NumberedInv /\ written \in Nat /\ streams \in Nat /\ StreamBatch \in Nat
      /\ stream # None => stream \in Stream /\ stream.id \in Nat /\ stream.id <= streams
      /\ \A d \in Drains : drain[d] \in Drain /\ DrainOK(d, drain[d])
      /\ DOMAIN drain = Drains
      /\ log \subseteq Entry /\ \A e \in log : e.seq \in Nat /\ e.seq <= written
  BY DEF IndInv, TypeOK, DrainInv, DrainOK, OwnedBy, StreamInv, Stream, NumberedInv, Entry, Seqs
<1>1. ASSUME UNCHANGED <<stream, streams>>, received \subseteq received'
      PROVE  SameRow /\ \A d \in Drains : SameClaim(d)
  BY <1>0, <1>1 DEF SameRow, SameClaim
<1>2. ASSUME UNCHANGED <<streamVars, drain>> PROVE DrainInv'
  BY <1>1, <1>2, DrainsKept DEF streamVars
<1>3. ASSUME NEW w \in Writers, Commit(w) PROVE DrainInv'
  <2>1. CASE SaveAuditStream(w)
    <3>1. CASE stream = None
      <4>1. streams' = streams + 1 /\ stream'.id = streams + 1
        BY <2>1, <3>1 DEF SaveAuditStream
      <4> QED
        BY <1>0, <1>3, <4>1, DrainsKept DEF Commit, SameRow, SameClaim
    <3>2. CASE stream # None
      <4>1. stream' = [stream EXCEPT !.enabled = TRUE, !.nextAttemptAt = tx[w].createdAt, !.lock = None]
            /\ UNCHANGED <<streams, received>>
        BY <2>1, <3>2 DEF SaveAuditStream
      <4>2. stream'.id = stream.id /\ stream'.lock = None
        BY <1>0, <3>2, <4>1 DEF Stream
      <4> QED
        BY <1>0, <1>3, <3>2, <4>1, <4>2, DrainsKept DEF Commit, SameRow, SameClaim
    <3> QED
      BY <3>1, <3>2
  <2>2. CASE stream # None /\ SetAuditStreamEnabled(w)
    <3>1. stream'.id = stream.id /\ stream'.cursor = stream.cursor /\ (stream'.lock = None \/ stream'.lock = stream.lock)
      BY <1>0, <2>2 DEF SetAuditStreamEnabled, Stream
    <3>2. UNCHANGED <<streams, received>>
      BY <2>2 DEF SetAuditStreamEnabled
    <3> QED
      BY <1>0, <1>3, <2>2, <3>1, <3>2, DrainsKept DEF Commit, SameRow, SameClaim
  <2>3. CASE RemoveAuditStream(w)
    BY <1>0, <1>3, <2>3, DrainsKept DEF Commit, RemoveAuditStream, SameRow, SameClaim
  <2>4. CASE UNCHANGED streamVars
    BY <1>2, <1>3, <2>4 DEF Commit
  <2> QED
    BY <1>3, <2>1, <2>2, <2>3, <2>4 DEF Commit, StreamChange
<1>4. ASSUME NEW w \in Writers, Write(w) PROVE DrainInv'
  BY <1>2, <1>3, <1>4 DEF Write, Begin, AuditSeal, Rollback
<1>5. ASSUME NEW p \in Purgers, Purge(p) PROVE DrainInv'
  BY <1>2, <1>5 DEF Purge, PurgeStart, PurgeBoundary, PurgeCommit
<1>6. ASSUME NEW v \in Verifiers, Verify(v) PROVE DrainInv'
  BY <1>2, <1>6 DEF Verify, VerifyStart, VerifyRead, VerifyAnchor
<1>7. ASSUME Tick \/ UNCHANGED vars PROVE DrainInv'
  BY <1>2, <1>7 DEF Tick, vars, streamVars
<1>8. ASSUME NEW d \in Drains, NEW q, drain' = [drain EXCEPT ![d] = q], q.pc \in {"idle", "asked"},
             SameRow, \A x \in Drains : SameClaim(x)
      PROVE  DrainInv'
  <2>1. DrainOK(d, q)'
    BY <1>8 DEF DrainOK
  <2> QED
    BY <1>8, <2>1, DrainMoves
<1>9. ASSUME NEW d \in Drains, DrainStart(d) \/ Crash(d) PROVE DrainInv'
  <2>1. [IdleDrain EXCEPT !.pc = "asked", !.token = clock].pc = "asked" /\ IdleDrain.pc = "idle"
    BY DEF IdleDrain
  <2>2. SameRow /\ \A x \in Drains : SameClaim(x)
    BY <1>1, <1>9 DEF DrainStart, Crash, streamVars
  <2> QED
    BY <1>8, <1>9, <2>1, <2>2 DEF DrainStart, Crash
<1>10. ASSUME NEW d \in Drains, ClaimNextStream(d) PROVE DrainInv'
  <2>1. CASE drain' = [drain EXCEPT ![d] = IdleDrain] /\ UNCHANGED stream
    <3>1. SameRow /\ \A x \in Drains : SameClaim(x)
      BY <1>1, <1>10, <2>1 DEF ClaimNextStream
    <3> QED
      BY <1>8, <2>1, <3>1 DEF IdleDrain
  <2>2. CASE ~(drain' = [drain EXCEPT ![d] = IdleDrain] /\ UNCHANGED stream)
    <3>1. /\ stream \in Stream /\ stream # None
          /\ stream' = [stream EXCEPT !.lock = [at |-> drain[d].token, by |-> d]]
          /\ drain' = [drain EXCEPT ![d] = [drain[d] EXCEPT !.pc = "claimed", !.id = stream.id, !.cursor = stream.cursor]]
      BY <1>0, <1>10, <2>2 DEF ClaimNextStream, Claimable
    <3>2. PICK q : q = [drain[d] EXCEPT !.pc = "claimed", !.id = stream.id, !.cursor = stream.cursor]
      OBVIOUS
    <3>3. q.pc = "claimed" /\ q.id = stream.id /\ q.cursor = stream.cursor
      BY <1>0, <3>2 DEF Drain
    <3>4. /\ stream'.id = stream.id /\ stream'.cursor = stream.cursor /\ stream'.lock.by = d
          /\ UNCHANGED <<streams, received>>
      BY <1>10, <3>1 DEF Stream, ClaimNextStream
    <3>5. DrainOK(d, q)'
      BY <1>0, <3>1, <3>3, <3>4 DEF DrainOK
    <3>6. SameRow /\ \A x \in Drains \ {d} : SameClaim(x)
      BY <1>0, <3>1, <3>4 DEF SameRow, SameClaim
    <3> QED
      BY <3>1, <3>2, <3>5, <3>6, DrainMoves
  <2> QED
    BY <2>1, <2>2
<1>11. ASSUME NEW d \in Drains, CheckFeature(d) PROVE DrainInv'
  <2>1. SameRow /\ \A x \in Drains : SameClaim(x)
    BY <1>1, <1>11 DEF CheckFeature, streamVars
  <2>2. PICK q : /\ drain' = [drain EXCEPT ![d] = q]
                 /\ \/ q = [drain[d] EXCEPT !.pc = "reading"]
                    \/ \E o \in {"held", "failed"} : q = [drain[d] EXCEPT !.pc = "settling", !.outcome = o]
    <3>1. CASE SettleAs(d, "held") \/ SettleAs(d, "failed")
      BY <1>0, <3>1 DEF SettleAs
    <3>2. CASE drain' = [drain EXCEPT ![d].pc = "reading"]
      BY <1>0, <3>2
    <3> QED
      BY <1>11, <3>1, <3>2 DEF CheckFeature
  <2>3. /\ q.id = drain[d].id /\ q.cursor = drain[d].cursor
        /\ q.pc = "reading" \/ (q.pc = "settling" /\ q.outcome # "delivered")
    BY <1>0, <2>2 DEF Drain
  <2>4. drain[d].pc = "claimed" /\ UNCHANGED streamVars
    BY <1>11 DEF CheckFeature
  <2>5. DrainOK(d, q)'
    BY <1>0, <2>3, <2>4 DEF DrainOK, streamVars
  <2> QED
    BY <2>1, <2>2, <2>5, DrainMoves
<1>12. ASSUME NEW d \in Drains, ReadBatch(d) PROVE DrainInv'
  <2>1. SameRow /\ \A x \in Drains : SameClaim(x)
    BY <1>1, <1>12 DEF ReadBatch, streamVars
  <2>2. drain[d].pc = "reading" /\ UNCHANGED <<streamVars, log, written>> /\ drain[d].cursor \in Nat
    BY <1>0, <1>12 DEF ReadBatch, logVars, Drain
  <2> DEFINE entries == NextEntries(drain[d].cursor, StreamBatch)
  <2>3. /\ entries \subseteq log
        /\ \A e \in entries, f \in log : drain[d].cursor < f.seq /\ f.seq <= e.seq => f \in entries
    BY <1>0, <2>2, NextEntriesType
  <2>4. PICK batch : batch = {e.seq : e \in entries}
    OBVIOUS
  <2>5. CASE batch = {}
    <3>1. PICK q : q = [drain[d] EXCEPT !.pc = "settling", !.outcome = "empty"]
      OBVIOUS
    <3>2. drain' = [drain EXCEPT ![d] = q]
      BY <1>0, <1>12, <2>4, <2>5, <3>1 DEF ReadBatch, SettleAs
    <3>3. q.id = drain[d].id /\ q.cursor = drain[d].cursor /\ q.pc = "settling" /\ q.outcome = "empty"
      BY <1>0, <3>1 DEF Drain
    <3>4. DrainOK(d, q)'
      BY <1>0, <2>2, <3>3 DEF DrainOK, streamVars
    <3> QED
      BY <2>1, <3>2, <3>4, DrainMoves
  <2>6. CASE batch # {}
    <3>1. PICK q : q = [drain[d] EXCEPT !.pc = "sending", !.batch = batch]
      OBVIOUS
    <3>2. drain' = [drain EXCEPT ![d] = q]
      BY <1>0, <1>12, <2>4, <2>6, <3>1 DEF ReadBatch
    <3>3. q.id = drain[d].id /\ q.cursor = drain[d].cursor /\ q.pc = "sending" /\ q.batch = batch
      BY <1>0, <3>1 DEF Drain
    <3>4. \A s \in batch : s <= written
      BY <1>0, <2>3, <2>4
    <3>5. ASSUME NEW e \in log, NEW s \in batch, drain[d].cursor < e.seq, e.seq <= s PROVE e.seq \in batch
      <4>1. PICK f \in entries : f.seq = s
        BY <2>4
      <4>2. e \in entries
        BY <2>3, <3>5, <4>1
      <4> QED
        BY <2>4, <4>2
    <3> HIDE DEF entries
    <3>6. DrainOK(d, q)'
      BY <1>0, <2>2, <2>6, <3>3, <3>4, <3>5 DEF DrainOK, streamVars
    <3> QED
      BY <2>1, <3>2, <3>6, DrainMoves
  <2> QED
    BY <2>5, <2>6
<1>13. ASSUME NEW d \in Drains, Send(d) PROVE DrainInv'
  <2>1. /\ UNCHANGED <<stream, streams, log, written>> /\ received \subseteq received'
        /\ drain[d].pc = "sending"
    BY <1>13 DEF Send, logVars
  <2>2. SameRow /\ \A x \in Drains : SameClaim(x)
    BY <1>1, <2>1
  <2>3. PICK o \in {"delivered", "failed"} :
          /\ SettleAs(d, o)
          /\ o = "delivered" => received' = IF stream # None /\ stream.id = drain[d].id
                                           THEN received \cup drain[d].batch ELSE received
    BY <1>13 DEF Send
  <2>4. PICK q : q = [drain[d] EXCEPT !.pc = "settling", !.outcome = o]
    OBVIOUS
  <2>5. drain' = [drain EXCEPT ![d] = q]
    BY <1>0, <2>3, <2>4 DEF SettleAs
  <2>6. /\ q.id = drain[d].id /\ q.cursor = drain[d].cursor /\ q.pc = "settling" /\ q.outcome = o
        /\ q.batch = drain[d].batch
    BY <1>0, <2>4 DEF Drain
  <2>7. DrainOK(d, q)'
    <3>1. q.id <= streams' /\ (stream' # None /\ stream'.id = q.id /\ stream'.lock # None /\ stream'.lock.by = d => q.cursor = stream'.cursor)
      BY <1>0, <2>1, <2>6 DEF DrainOK
    <3>2. /\ q.batch # {}
          /\ \A s \in q.batch : s <= written'
          /\ \A e \in log', s \in q.batch : q.cursor < e.seq /\ e.seq <= s => e.seq \in q.batch
      BY <1>0, <2>1, <2>6 DEF DrainOK
    <3>3. o = "delivered" /\ stream' # None /\ stream'.id = q.id => q.batch \subseteq received'
      BY <2>1, <2>3, <2>6
    <3> QED
      BY <2>6, <3>1, <3>2, <3>3 DEF DrainOK
  <2> QED
    BY <2>2, <2>5, <2>7, DrainMoves
<1>14. ASSUME NEW d \in Drains, Settle(d) PROVE DrainInv'
  <2>1. UNCHANGED <<streams, received>> /\ drain' = [drain EXCEPT ![d] = IdleDrain] /\ IdleDrain.pc = "idle"
    BY <1>14 DEF Settle, IdleDrain
  <2>2. CASE OwnedBy(d)
    <3>1. stream \in Stream /\ stream # None /\ stream' = Settled(d)
      BY <1>0, <1>14, <2>2 DEF Settle, OwnedBy
    <3>2. stream'.id = stream.id /\ stream'.lock = None
      BY <3>1 DEF Settled, Stream
    <3>3. SameRow /\ \A x \in Drains : SameClaim(x)
      BY <1>0, <2>1, <3>1, <3>2 DEF SameRow, SameClaim
    <3> QED
      BY <1>8, <2>1, <3>3
  <2>3. CASE ~OwnedBy(d)
    <3>1. SameRow /\ \A x \in Drains : SameClaim(x)
      BY <1>1, <1>14, <2>1, <2>3 DEF Settle
    <3> QED
      BY <1>8, <2>1, <3>1
  <2> QED
    BY <2>2, <2>3
<1> QED
  BY <1>4, <1>5, <1>6, <1>7, <1>9, <1>10, <1>11, <1>12, <1>13, <1>14 DEF Next, Deliver

\* No place in the log passes the newest entry, and nothing up to the cursor is skipped.
LEMMA CursorStep ==
  ASSUME IndInv, [Next]_vars, TypeOK', StreamInv'
  PROVE  NothingSkipped'
<1>0. /\ written \in Nat /\ streams \in Nat
      /\ stream # None => stream \in Stream /\ stream.cursor \in Nat /\ stream.cursor <= written
      /\ NothingSkipped /\ DrainInv
      /\ \A d \in Drains : drain[d] \in Drain
      /\ \A e \in log : e.seq \in Nat
      /\ \A e \in log' : e \notin log => e.seq = written + 1
  BY LogChange DEF IndInv, TypeOK, StreamInv, Stream, Entry, Seqs
<1>1. ASSUME stream' # None => stream # None /\ stream'.start = stream.start /\ stream'.cursor = stream.cursor
                               /\ received \subseteq received'
      PROVE  NothingSkipped'
  <2> SUFFICES ASSUME stream' # None, NEW e \in log', stream'.start < e.seq, e.seq <= stream'.cursor
               PROVE  e.seq \in received'
    BY DEF NothingSkipped
  <2>1. e \in log
    BY <1>0, <1>1
  <2> QED
    BY <1>0, <1>1, <2>1 DEF NothingSkipped
<1>2. ASSUME NEW w \in Writers, Commit(w) PROVE NothingSkipped'
  <2>1. CASE SaveAuditStream(w)
    <3>1. CASE stream = None
      <4>1. stream'.start = tx[w].latest /\ stream'.cursor = tx[w].latest /\ tx[w].latest \in Nat
        BY <2>1, <3>1 DEF SaveAuditStream, IndInv, TypeOK, Tx
      <4>2. \A e \in log' : e.seq \in Nat
        BY <1>0
      <4> QED
        BY <4>1, <4>2 DEF NothingSkipped
    <3>2. CASE stream # None
      <4>1. stream' = [stream EXCEPT !.enabled = TRUE, !.nextAttemptAt = tx[w].createdAt, !.lock = None]
            /\ UNCHANGED <<streams, received>>
        BY <2>1, <3>2 DEF SaveAuditStream
      <4>2. stream'.start = stream.start /\ stream'.cursor = stream.cursor
        BY <1>0, <3>2, <4>1 DEF Stream
      <4> QED
        BY <1>1, <3>2, <4>1, <4>2
    <3> QED
      BY <3>1, <3>2
  <2>2. CASE stream # None /\ SetAuditStreamEnabled(w)
    <3>1. stream'.start = stream.start /\ stream'.cursor = stream.cursor /\ UNCHANGED received
      BY <1>0, <2>2 DEF SetAuditStreamEnabled, Stream
    <3> QED
      BY <1>1, <2>2, <3>1
  <2>3. CASE RemoveAuditStream(w)
    BY <1>1, <2>3 DEF RemoveAuditStream
  <2>4. CASE UNCHANGED streamVars
    BY <1>1, <2>4 DEF streamVars
  <2> QED
    BY <1>2, <2>1, <2>2, <2>3, <2>4 DEF Commit, StreamChange
<1>3. ASSUME NEW d \in Drains, ClaimNextStream(d) PROVE NothingSkipped'
  <2>1. UNCHANGED received /\ (UNCHANGED stream \/ (stream # None /\ stream' = [stream EXCEPT !.lock = [at |-> drain[d].token, by |-> d]]))
    BY <1>3 DEF ClaimNextStream, Claimable
  <2>2. stream # None /\ stream' = [stream EXCEPT !.lock = [at |-> drain[d].token, by |-> d]]
          => stream'.start = stream.start /\ stream'.cursor = stream.cursor
    BY <1>0 DEF Stream
  <2> QED
    BY <1>1, <2>1, <2>2
<1>4. ASSUME NEW d \in Drains, Settle(d) PROVE NothingSkipped'
  <2>1. CASE ~OwnedBy(d)
    BY <1>1, <1>4, <2>1 DEF Settle
  <2>2. CASE OwnedBy(d) /\ drain[d].outcome # "delivered"
    <3>1. stream \in Stream /\ stream' = Settled(d) /\ stream # None /\ UNCHANGED received
      BY <1>0, <1>4, <2>2 DEF Settle, OwnedBy
    <3>2. stream'.start = stream.start /\ stream'.cursor = stream.cursor
      BY <2>2, <3>1 DEF Settled, Stream
    <3> QED
      BY <1>1, <3>1, <3>2
  <2>3. CASE OwnedBy(d) /\ drain[d].outcome = "delivered"
    <3> DEFINE batch == drain[d].batch
    <3>1. /\ stream \in Stream /\ stream # None /\ UNCHANGED <<received, log>> /\ stream' = Settled(d)
          /\ drain[d].pc = "settling"
      BY <1>0, <1>4, <2>3 DEF Settle, OwnedBy, logVars
    <3>2. stream'.start = stream.start /\ stream'.cursor = Highest(batch)
      BY <2>3, <3>1 DEF Settled, Stream
    <3>3. /\ batch # {} /\ batch \subseteq received
          /\ \A e \in log, s \in batch : stream.cursor < e.seq /\ e.seq <= s => e.seq \in batch
      BY <1>0, <2>3, <3>1 DEF DrainInv, OwnedBy
    <3>4. Highest(batch) \in batch
      <4>1. batch \in SUBSET (1..MaxEntries)
        BY <1>0 DEF Drain, Seqs
      <4>2. IsFiniteSet(1..MaxEntries)
        BY FS_Interval
      <4>3. IsFiniteSet(batch) /\ batch \in SUBSET Int
        <5>1. IsFiniteSet(batch)
          BY <4>1, <4>2, FS_Subset, Zenon
        <5> QED
          BY <4>1, <5>1
      <4> QED
        BY <3>3, <4>3, HighestIn
    <3> SUFFICES ASSUME NEW e \in log, stream.start < e.seq, e.seq <= Highest(batch) PROVE e.seq \in received
      BY <3>1, <3>2 DEF NothingSkipped
    <3>5. CASE e.seq <= stream.cursor
      BY <1>0, <3>1, <3>5 DEF NothingSkipped
    <3>6. CASE stream.cursor < e.seq
      BY <3>3, <3>4, <3>6
    <3> QED
      BY <1>0, <3>1, <3>5, <3>6
  <2> QED
    BY <2>1, <2>2, <2>3
<1>5. ASSUME NEW d \in Drains, Send(d) PROVE NothingSkipped'
  <2>1. UNCHANGED stream /\ received \subseteq received'
    BY <1>5 DEF Send
  <2> QED
    BY <1>1, <2>1
<1>6. ASSUME UNCHANGED streamVars PROVE NothingSkipped'
  BY <1>1, <1>6 DEF streamVars
<1>7. ASSUME NEW d \in Drains, Deliver(d) \/ Crash(d) PROVE NothingSkipped'
  BY <1>3, <1>4, <1>5, <1>6, <1>7 DEF Deliver, DrainStart, CheckFeature, ReadBatch, Crash
<1>8. ASSUME NEW w \in Writers, Write(w) PROVE NothingSkipped'
  BY <1>2, <1>6, <1>8 DEF Write, Begin, AuditSeal, Rollback
<1>9. ASSUME NEW p \in Purgers, Purge(p) PROVE NothingSkipped'
  BY <1>6, <1>9 DEF Purge, PurgeStart, PurgeBoundary, PurgeCommit
<1>10. ASSUME NEW v \in Verifiers, Verify(v) PROVE NothingSkipped'
  BY <1>6, <1>10 DEF Verify, VerifyStart, VerifyRead, VerifyAnchor
<1>11. ASSUME Tick \/ UNCHANGED vars PROVE NothingSkipped'
  BY <1>6, <1>11 DEF Tick, vars, streamVars
<1> QED
  BY <1>7, <1>8, <1>9, <1>10, <1>11 DEF Next

LEMMA StreamStep ==
  ASSUME IndInv, [Next]_vars, TypeOK'
  PROVE  StreamInv'
<1>0. /\ TypeOK /\ NumberedInv /\ written \in Nat /\ written' \in Nat /\ written' >= written /\ streams \in Nat
      /\ stream # None => stream \in Stream /\ stream.id \in Nat /\ stream.id <= streams
                          /\ stream.cursor \in Nat /\ stream.cursor <= written
      /\ \A w \in Writers : tx[w] \in Tx /\ tx[w].latest \in Nat /\ tx[w].latest <= written
      /\ DOMAIN tx = Writers
      /\ \A d \in Drains : drain[d] \in Drain
  BY LogChange DEF IndInv, TypeOK, StreamInv, Stream, Tx
<1>1. \A w \in Writers : tx'[w].latest <= written'
  <2>1. ASSUME NEW w \in Writers, \A x \in Writers : tx'[x].latest = tx[x].latest \/ tx'[x].latest = 0
               \/ tx'[x].latest = LatestSeq
        PROVE  \A x \in Writers : tx'[x].latest <= written'
    <3>1. LatestSeq = written
      BY <1>0, NewestSeq DEF TypeOK
    <3> QED
      BY <1>0, <2>1, <3>1
  <2>2. ASSUME NEW w \in Writers, NEW op \in Operations, NEW days \in RetentionChoices \cup {None}, Begin(w, op, days)
        PROVE  \A x \in Writers : tx'[x].latest = tx[x].latest \/ tx'[x].latest = 0 \/ tx'[x].latest = LatestSeq
    BY <1>0, <2>2 DEF Begin, IdleTx
  <2>3. ASSUME NEW w \in Writers, AuditSeal(w) PROVE \A x \in Writers : tx'[x].latest = tx[x].latest
    <3> DEFINE new == Sealed(written + 1, tx[w].createdAt, None, log)
    <3>1. tx' = [tx EXCEPT ![w] = [tx[w] EXCEPT !.pc = "sealed", !.entry = new]]
      BY <1>0, <2>3 DEF AuditSeal
    <3> HIDE DEF new
    <3> QED
      BY <1>0, <3>1 DEF Tx
  <2>4. ASSUME NEW w \in Writers, Commit(w) \/ Rollback(w)
        PROVE  \A x \in Writers : tx'[x].latest = tx[x].latest \/ tx'[x].latest = 0
    BY <1>0, <2>4 DEF Commit, Rollback, IdleTx
  <2>5. ASSUME NEW w \in Writers, Write(w) PROVE \A x \in Writers : tx'[x].latest <= written'
    BY <2>1, <2>2, <2>3, <2>4, <2>5 DEF Write
  <2>6. ASSUME UNCHANGED tx PROVE \A x \in Writers : tx'[x].latest <= written'
    BY <1>0, <2>6
  <2>7. ASSUME NEW p \in Purgers, Purge(p) PROVE UNCHANGED tx
    BY <2>7 DEF Purge, PurgeStart, PurgeBoundary, PurgeCommit, logVars
  <2>8. ASSUME NEW v \in Verifiers, Verify(v) PROVE UNCHANGED tx
    BY <2>8 DEF Verify, VerifyStart, VerifyRead, VerifyAnchor, logVars
  <2>9. ASSUME NEW d \in Drains, Deliver(d) \/ Crash(d) PROVE UNCHANGED tx
    BY <2>9 DEF Deliver, DrainStart, ClaimNextStream, CheckFeature, ReadBatch, Send, Settle, Crash, logVars
  <2>10. Tick \/ UNCHANGED vars => UNCHANGED tx
    BY DEF Tick, vars, logVars
  <2> QED
    BY <2>5, <2>6, <2>7, <2>8, <2>9, <2>10 DEF Next
<1>2. stream' # None => stream'.id <= streams' /\ stream'.cursor <= written'
  <2>1. ASSUME stream' # None => stream # None /\ stream'.id = stream.id /\ stream'.cursor = stream.cursor,
               UNCHANGED streams
        PROVE  stream' # None => stream'.id <= streams' /\ stream'.cursor <= written'
    BY <1>0, <2>1
  <2>2. ASSUME NEW w \in Writers, Commit(w)
        PROVE  stream' # None => stream'.id <= streams' /\ stream'.cursor <= written'
    <3>1. CASE SaveAuditStream(w)
      <4>1. CASE stream = None
        <5>1. stream'.id = streams + 1 /\ stream'.cursor = tx[w].latest /\ streams' = streams + 1
          BY <3>1, <4>1 DEF SaveAuditStream
        <5> QED
          BY <1>0, <5>1
      <4>2. CASE stream # None
        <5>1. stream' = [stream EXCEPT !.enabled = TRUE, !.nextAttemptAt = tx[w].createdAt, !.lock = None]
              /\ UNCHANGED streams
          BY <3>1, <4>2 DEF SaveAuditStream
        <5>2. stream'.id = stream.id /\ stream'.cursor = stream.cursor
          BY <1>0, <4>2, <5>1 DEF Stream
        <5> QED
          BY <2>1, <4>2, <5>1, <5>2
      <4> QED
        BY <4>1, <4>2
    <3>2. CASE stream # None /\ SetAuditStreamEnabled(w)
      <4>1. stream'.id = stream.id /\ stream'.cursor = stream.cursor /\ UNCHANGED streams
        BY <1>0, <3>2 DEF SetAuditStreamEnabled, Stream
      <4> QED
        BY <2>1, <3>2, <4>1
    <3>3. CASE RemoveAuditStream(w)
      BY <3>3 DEF RemoveAuditStream
    <3>4. CASE UNCHANGED streamVars
      BY <2>1, <3>4 DEF streamVars
    <3> QED
      BY <2>2, <3>1, <3>2, <3>3, <3>4 DEF Commit, StreamChange
  <2>3. ASSUME NEW d \in Drains, ClaimNextStream(d)
        PROVE  stream' # None => stream'.id <= streams' /\ stream'.cursor <= written'
    <3>1. UNCHANGED streams /\ (UNCHANGED stream \/ (stream # None /\ stream' = [stream EXCEPT !.lock = [at |-> drain[d].token, by |-> d]]))
      BY <2>3 DEF ClaimNextStream, Claimable
    <3>2. stream # None /\ stream' = [stream EXCEPT !.lock = [at |-> drain[d].token, by |-> d]]
            => stream'.id = stream.id /\ stream'.cursor = stream.cursor
      BY <1>0 DEF Stream
    <3> QED
      BY <2>1, <3>1, <3>2
  <2>4. ASSUME NEW d \in Drains, Settle(d)
        PROVE  stream' # None => stream'.id <= streams' /\ stream'.cursor <= written'
    <3>1. CASE ~OwnedBy(d)
      BY <2>1, <2>4, <3>1 DEF Settle
    <3>2. CASE OwnedBy(d) /\ drain[d].outcome # "delivered"
      <4>1. stream \in Stream /\ stream' = Settled(d) /\ stream # None /\ UNCHANGED streams
        BY <1>0, <2>4, <3>2 DEF Settle, OwnedBy
      <4>2. stream'.id = stream.id /\ stream'.cursor = stream.cursor
        BY <3>2, <4>1 DEF Settled, Stream
      <4> QED
        BY <2>1, <4>1, <4>2
    <3>3. CASE OwnedBy(d) /\ drain[d].outcome = "delivered"
      <4> DEFINE batch == drain[d].batch
      <4>1. /\ stream \in Stream /\ stream # None /\ stream' = Settled(d) /\ UNCHANGED <<streams, written>>
            /\ drain[d].pc = "settling"
        BY <1>0, <2>4, <3>3 DEF Settle, OwnedBy, logVars
      <4>2. stream'.id = stream.id /\ stream'.cursor = Highest(batch)
        BY <3>3, <4>1 DEF Settled, Stream
      <4>3. batch # {} /\ \A s \in batch : s <= written
        BY <3>3, <4>1 DEF IndInv, DrainInv
      <4>4. Highest(batch) \in batch
        <5>1. batch \in SUBSET (1..MaxEntries)
          BY <1>0 DEF Drain, Seqs
        <5>2. IsFiniteSet(1..MaxEntries)
          BY FS_Interval
        <5>3. IsFiniteSet(batch) /\ batch \in SUBSET Int
          <6>1. IsFiniteSet(batch)
            BY <5>1, <5>2, FS_Subset, Zenon
          <6> QED
            BY <5>1, <6>1
        <5> QED
          BY <4>3, <5>3, HighestIn
      <4> QED
        BY <1>0, <4>1, <4>2, <4>3, <4>4
    <3> QED
      BY <3>1, <3>2, <3>3
  <2>5. ASSUME UNCHANGED <<stream, streams>> PROVE stream' # None => stream'.id <= streams' /\ stream'.cursor <= written'
    BY <2>1, <2>5
  <2>6. ASSUME NEW w \in Writers, Write(w)
        PROVE  stream' # None => stream'.id <= streams' /\ stream'.cursor <= written'
    BY <2>2, <2>5, <2>6 DEF Write, Begin, AuditSeal, Rollback, streamVars
  <2>7. ASSUME NEW p \in Purgers, Purge(p) PROVE UNCHANGED <<stream, streams>>
    BY <2>7 DEF Purge, PurgeStart, PurgeBoundary, PurgeCommit, streamVars
  <2>8. ASSUME NEW v \in Verifiers, Verify(v) PROVE UNCHANGED <<stream, streams>>
    BY <2>8 DEF Verify, VerifyStart, VerifyRead, VerifyAnchor, streamVars
  <2>9. ASSUME NEW d \in Drains, Deliver(d) \/ Crash(d)
        PROVE  stream' # None => stream'.id <= streams' /\ stream'.cursor <= written'
    BY <2>3, <2>4, <2>5, <2>9 DEF Deliver, DrainStart, CheckFeature, ReadBatch, Send, Crash, streamVars
  <2>10. Tick \/ UNCHANGED vars => UNCHANGED <<stream, streams>>
    BY DEF Tick, vars, streamVars
  <2> QED
    BY <2>5, <2>6, <2>7, <2>8, <2>9, <2>10 DEF Next
<1> QED
  BY <1>1, <1>2 DEF StreamInv
-----------------------------------------------------------------------------
(* The theorems. *)

LEMMA InitHolds == Init => IndInv
<1> SUFFICES ASSUME Init PROVE IndInv
  OBVIOUS
<1>1. TypeOK
  BY DEF Init, TypeOK, IdleTx, Tx, Ops, IdleDrain, Drain, IdlePurger, Purger, IdleVerifier, Verifier
<1>2. NumberedInv /\ LinkedInv
  BY FS_EmptySet DEF Init, NumberedInv, LinkedInv
<1>3. SealedInv /\ PurgerInv /\ VerifierInv /\ DrainInv
  BY DEF Init, SealedInv, IdleTx, PurgerInv, IdlePurger, VerifierInv, ReadingInv, AnchoringInv, IdleVerifier,
         DrainInv, IdleDrain
<1>4. StreamInv /\ NothingSkipped
  BY DEF Init, StreamInv, NothingSkipped, IdleTx
<1> QED
  BY <1>1, <1>2, <1>3, <1>4 DEF IndInv

\* The invariant behind the properties holds of every behaviour of a company's log.
THEOREM Invariance == Spec => []IndInv
<1>1. ASSUME IndInv, [Next]_vars PROVE IndInv'
  <2>1. TypeOK'
    BY <1>1, TypeStep
  <2>2. NumberedInv' /\ LinkedInv'
    BY <1>1, LogChange
  <2>3. SealedInv'
    BY <1>1, SealedStep
  <2>4. PurgerInv'
    BY <1>1, <2>1, PurgerStep
  <2>5. VerifierInv'
    BY <1>1, VerifierStep
  <2>6. DrainInv'
    BY <1>1, <2>1, DrainStep
  <2>7. StreamInv'
    BY <1>1, <2>1, StreamStep
  <2>8. NothingSkipped'
    BY <1>1, <2>1, <2>7, CursorStep
  <2> QED
    BY <2>1, <2>2, <2>3, <2>4, <2>5, <2>6, <2>7, <2>8 DEF IndInv
<1> QED
  BY <1>1, InitHolds, PTL DEF Spec

\* The state is of its type, whatever the numbers of writers, purges, verifications and drains.
THEOREM TypeCorrect == Spec => []TypeOK
<1>1. IndInv => TypeOK
  BY DEF IndInv
<1> QED
  BY <1>1, Invariance, PTL

\* The stream skips nothing the purge left: what its cursor has passed the SIEM has.
THEOREM StreamSkipsNothing == Spec => []NothingSkipped
<1>1. IndInv => NothingSkipped
  BY DEF IndInv
<1> QED
  BY <1>1, Invariance, PTL

\* The log is intact: no number twice, and no break from its anchor to its newest entry.
LEMMA IntactHolds ==
  ASSUME IndInv
  PROVE  ChainIntact
<1>0. TypeOK /\ NumberedInv /\ LinkedInv /\ IsFiniteSet(log)
  BY DEF IndInv, NumberedInv
<1>1. Cardinality(LogSeqs) = Cardinality(log)
  <2> DEFINE f == [e \in log |-> e.seq]
  <2>1. f \in Bijection(log, LogSeqs)
    <3>1. f \in [log -> LogSeqs]
      BY DEF LogSeqs
    <3>2. \A e, g \in log : f[e] = f[g] => e = g
      BY <1>0 DEF NumberedInv
    <3>3. \A s \in LogSeqs : \E e \in log : f[e] = s
      BY DEF LogSeqs
    <3> HIDE DEF f
    <3> QED
      BY <3>1, <3>2, <3>3 DEF Bijection, Injection, Surjection, IsInjective
  <2> HIDE DEF f
  <2> QED
    BY <1>0, <2>1, FS_Bijection DEF ExistsBijection
<1>2. ASSUME log # {} PROVE FindChainBreak(PurgeAnchor(First(log), log), log) = {}
  <2>1. First(log) \in log /\ \A f \in log : First(log).seq <= f.seq
    BY <1>0, <1>2 DEF NumberedInv, First
  <2> QED
    BY <1>0, <2>1, BottomHolds
<1> QED
  BY <1>1, <1>2 DEF ChainIntact

\* A gap in the log shows: as a missing entry, or as one nothing anchors.
LEMMA RemovalsShow ==
  ASSUME IndInv
  PROVE  RemovalsDetected
<1> SUFFICES ASSUME NEW e \in log, e.seq # LatestSeq
             PROVE  LET rest == log \ {e}
                        anchor == PurgeAnchor(First(rest), rest)
                    IN FindChainBreak(anchor, rest) =
                         IF First(rest).seq = 1 \/ anchor # None
                         THEN {[seq |-> e.seq, fault |-> "missing"]}
                         ELSE {[seq |-> First(rest).seq, fault |-> "unanchored"]}
  BY DEF RemovalsDetected
<1> DEFINE rest == log \ {e}
           first == First(rest)
           anchor == PurgeAnchor(first, rest)
<1>0. /\ TypeOK /\ NumberedInv /\ LinkedInv /\ IsFiniteSet(log) /\ log \subseteq Entry /\ written \in Nat
      /\ \A f \in log : f.seq \in Nat /\ f.seq >= 1 /\ f.seq <= written
  BY DEF IndInv, NumberedInv, TypeOK, Entry, Seqs
<1>1. e.seq < written
  BY <1>0, NewestSeq
<1>2. PICK next \in log : next.seq = e.seq + 1
  <2>1. e.seq + 1 \in e.seq..written
    BY <1>0, <1>1
  <2> QED
    BY <2>1 DEF NumberedInv, IndInv
<1>3. next \in rest /\ Distinct(rest)
  BY <1>0, <1>2 DEF Distinct, NumberedInv
<1>4. first \in rest /\ \A f \in rest : first.seq <= f.seq
  <2>1. \E f \in rest : \A g \in rest : f.seq <= g.seq
    <3> DEFINE seqs == {f.seq : f \in rest}
    <3>1. IsFiniteSet(rest)
      BY <1>0, FS_Subset
    <3>2. IsFiniteSet(seqs) /\ seqs \in SUBSET Int /\ seqs # {}
      BY <1>0, <1>3, <3>1, SeqsFinite DEF Distinct
    <3>3. \A f \in rest : f.seq \in seqs
      OBVIOUS
    <3>4. \A n \in seqs : \E f \in rest : f.seq = n
      OBVIOUS
    <3> HIDE DEF seqs, rest
    <3>5. PICK n \in seqs : \A m \in seqs : n <= m
      BY <3>2, FiniteLowest
    <3> QED
      BY <3>3, <3>4, <3>5
  <2> QED
    BY <2>1 DEF First
<1>5. FaultsOf(anchor, rest, first) = FaultAt(anchor, first)
  BY <1>3, <1>4, LastFirst DEF FaultsOf
<1>6. CASE anchor = None /\ first.seq # 1
  <2>1. FaultAt(anchor, first) = {[seq |-> first.seq, fault |-> "unanchored"]}
    BY <1>6 DEF FaultAt
  <2>2. FindChainBreak(anchor, rest) = FaultAt(anchor, first)
    BY <1>3, <1>4, <1>5, <2>1, FirstBreak, ZenonT(90)
  <2> QED
    BY <1>6, <2>1, <2>2
<1>7. CASE anchor # None \/ first.seq = 1
  <2> HIDE DEF first
  <2>1. first.seq < e.seq
    <3> SUFFICES ASSUME e.seq <= first.seq PROVE FALSE
      BY <1>0, <1>4
    <3>1. \A f \in log : e.seq <= f.seq
      BY <1>0, <1>4
    <3>2. first.seq = e.seq + 1
      <4>1. first.seq # e.seq
        BY <1>0, <1>4 DEF NumberedInv
      <4> QED
        BY <1>0, <1>2, <1>3, <1>4, <4>1
    <3>3. \A c \in log : c.cut # None => c.cut.seq < e.seq
      BY <1>0 DEF LinkedInv
    <3>4. PICK c \in rest : c.cut = [seq |-> first.seq - 1, hash |-> first.prevHash]
      BY <1>0, <1>7, <3>2 DEF PurgeAnchor
    <3>5. first.prevHash # None
      BY <1>0, <1>7, <3>2 DEF PurgeAnchor
    <3>6. c.cut # None
      <4>1. [seq |-> first.seq - 1, hash |-> first.prevHash] \in Link
        BY <1>0, <1>4, <3>2, <3>5 DEF Entry, Link, Seqs
      <4> QED
        BY <3>4, <4>1, NullAssumption
    <3>7. c.cut.seq = e.seq
      BY <1>0, <3>2, <3>4
    <3> QED
      BY <1>0, <3>3, <3>6, <3>7
  <2>2. FaultAt(anchor, first) = {}
    <3>1. \A f \in log : first.seq <= f.seq
      BY <1>0, <1>4, <2>1
    <3>2. Anchored(first)
      BY <1>0, <1>4, <3>1 DEF LinkedInv
    <3>3. CASE first.seq = 1
      <4>1. first.prevHash = None
        BY <3>2, <3>3 DEF Anchored
      <4> QED
        BY <3>3, <4>1 DEF PurgeAnchor, FaultAt
    <3>4. CASE first.seq # 1
      <4>1. anchor = [seq |-> first.seq - 1, hash |-> first.prevHash]
        BY <1>7, <3>4 DEF PurgeAnchor
      <4>2. anchor.seq + 1 = first.seq /\ anchor.hash = first.prevHash
        <5> HIDE DEF anchor
        <5>1. anchor.seq = first.seq - 1 /\ anchor.hash = first.prevHash
          BY <4>1
        <5> QED
          BY <1>0, <1>4, <5>1
      <4> QED
        BY <1>7, <3>4, <4>2 DEF FaultAt
    <3> QED
      BY <3>3, <3>4
  <2>3. ASSUME NEW f \in rest, first.seq < f.seq, NEW g \in rest, g.seq < f.seq, \A h \in rest : h.seq < f.seq => h.seq <= g.seq
        PROVE  FaultsOf(anchor, rest, f) = IF f.seq # g.seq + 1 THEN {[seq |-> g.seq + 1, fault |-> "missing"]} ELSE {}
    <3>1. Last(anchor, rest, f) = [seq |-> g.seq, hash |-> g.hash]
      BY <1>3, <2>3, LastAfter
    <3>2. [seq |-> g.seq, hash |-> g.hash] # None
      <4>1. [seq |-> g.seq, hash |-> g.hash] \in Link
        BY <1>0 DEF Entry, Link
      <4> QED
        BY <4>1, NullAssumption
    <3>3. f.seq = g.seq + 1 => f.prevHash = g.hash
      BY <1>0 DEF LinkedInv
    <3> HIDE DEF rest, anchor
    <3> QED
      BY <3>1, <3>2, <3>3 DEF FaultsOf, FaultAt
  <2>4. ASSUME NEW n \in Nat, first.seq <= n, n <= written, n # e.seq PROVE \E f \in rest : f.seq = n
    <3>1. n \in first.seq..written
      BY <1>0, <1>4, <2>4
    <3>2. PICK f \in log : f.seq = n
      BY <1>0, <1>4, <3>1 DEF NumberedInv
    <3> QED
      BY <2>4, <3>2
  <2>5. FaultsOf(anchor, rest, next) = {[seq |-> e.seq, fault |-> "missing"]}
    <3>1. e.seq - 1 \in Nat /\ first.seq <= e.seq - 1 /\ e.seq - 1 <= written /\ e.seq - 1 # e.seq
      BY <1>0, <1>4, <2>1
    <3>2. PICK g \in rest : g.seq = e.seq - 1
      BY <2>4, <3>1
    <3>3. \A h \in rest : h.seq < next.seq => h.seq <= g.seq
      <4>1. \A h \in rest : h.seq # e.seq
        BY <1>0 DEF NumberedInv
      <4> QED
        BY <1>0, <1>2, <3>2, <4>1
    <3>4. first.seq < next.seq /\ g.seq < next.seq /\ next.seq # g.seq + 1 /\ g.seq + 1 = e.seq
      BY <1>0, <1>2, <1>4, <2>1, <3>2
    <3> HIDE DEF rest, first, anchor
    <3> QED
      BY <1>3, <2>3, <3>2, <3>3, <3>4
  <2>6. ASSUME NEW f \in rest, f.seq < next.seq PROVE FaultsOf(anchor, rest, f) = {}
    <3>1. CASE f = first
      BY <1>5, <2>2, <3>1
    <3>2. CASE f # first
      <4>0. f.seq # e.seq /\ f.seq # first.seq
        BY <1>0, <1>4, <3>2 DEF NumberedInv
      <4>1. first.seq < f.seq /\ f.seq < e.seq
        BY <1>0, <1>2, <1>4, <2>6, <4>0
      <4>2. f.seq - 1 \in Nat /\ first.seq <= f.seq - 1 /\ f.seq - 1 <= written /\ f.seq - 1 # e.seq
        BY <1>0, <1>4, <4>1
      <4>3. PICK g \in rest : g.seq = f.seq - 1
        BY <2>4, <4>2
      <4>4. g.seq < f.seq /\ f.seq = g.seq + 1 /\ \A h \in rest : h.seq < f.seq => h.seq <= g.seq
        BY <1>0, <4>3
      <4> HIDE DEF rest, first, anchor
      <4> QED
        BY <2>3, <4>1, <4>3, <4>4
    <3> QED
      BY <3>1, <3>2
  <2>7. \A f \in rest : FaultsOf(anchor, rest, f) # {} => next.seq <= f.seq
    <3>1. \A f \in rest : f.seq \in Nat /\ next.seq \in Nat
      BY <1>0
    <3> HIDE DEF rest, anchor
    <3> QED
      BY <2>6, <3>1
  <2>8. FindChainBreak(anchor, rest) = FaultsOf(anchor, rest, next)
    <3> HIDE DEF rest, first, anchor
    <3> QED
      BY <1>3, <2>5, <2>7, FirstBreak
  <2> QED
    BY <1>7, <2>5, <2>8 DEF first
<1> QED
  BY <1>6, <1>7

\* The log is an intact chain, a removal behind the application's back shows, and a
\* verification accuses no log that nothing was purged from meanwhile (verifyAuditLog).
THEOREM ChainIsSound == Spec => []ChainSound
<1>1. IndInv => ChainSound
  <2> SUFFICES ASSUME IndInv PROVE ChainSound
    OBVIOUS
  <2>1. VerifySound
    BY DEF IndInv, VerifierInv, VerifySound
  <2> QED
    BY <2>1, IntactHolds, RemovalsShow DEF ChainSound
<1> QED
  BY <1>1, Invariance, PTL

\* A purge takes a prefix of the log, never the newest entry, and nothing newer than an
\* entry that has outlived a retention period (purgeExpiredAuditEntries).
THEOREM PurgesJustified == Spec => PurgeJustified
<1> DEFINE Justified(e) == /\ e.seq # LatestSeq
                           /\ \A f \in log : f.seq < e.seq => f \notin log'
                           /\ \E f \in log, days \in RetentionChoices : f.seq >= e.seq /\ f.createdAt < clock - days
<1>1. ASSUME IndInv, [Next]_vars, NEW e \in log \ log' PROVE Justified(e)
  <2>0. /\ TypeOK /\ NumberedInv /\ written \in Nat /\ LatestSeq = written
        /\ \A f \in log : f.seq \in Int
    BY <1>1, NewestSeq DEF IndInv, TypeOK, Entry, Seqs
  <2>1. PICK p \in Purgers : Purged(p)
    BY <1>1, LogChange
  <2>2. /\ purger[p].pc = "bounded" /\ purger[p].cut \in Link /\ purger[p].cut.seq \in Int
        /\ purger[p].cut.seq < written
    BY <1>1, <2>1 DEF Purged, IndInv, PurgerInv, Link, Seqs
  <2>3. e.seq <= purger[p].cut.seq
    <3>1. PICK new \in Entry : Extends(new, purger[p].cut)
      BY <2>1 DEF Purged
    <3>2. e \notin Rest(purger[p].cut) /\ purger[p].cut # None
      BY <1>1, <2>2, <3>1, NullAssumption DEF Extends
    <3> QED
      BY <1>1, <2>0, <2>2, <3>2 DEF Rest
  <2>4. e.seq # LatestSeq
    BY <2>0, <2>2, <2>3
  <2>5. \A f \in log : f.seq < e.seq => f \notin log'
    BY <1>1, <2>0, LogChange
  <2>6. PICK f \in log, days \in RetentionChoices : purger[p].cut.seq <= f.seq /\ f.createdAt < clock - days
    BY <1>1, <2>2, <2>3 DEF IndInv, PurgerInv
  <2>7. f.seq >= e.seq
    BY <1>1, <2>0, <2>2, <2>3, <2>6
  <2> QED
    BY <2>4, <2>5, <2>6, <2>7
<1>2. IndInv /\ [Next]_vars => [\A e \in log \ log' : Justified(e)]_vars
  BY <1>1
<1> QED
  BY <1>2, Invariance, PTL DEF Spec, PurgeJustified
=============================================================================
