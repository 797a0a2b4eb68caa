----------------------------- MODULE HiringProofs -----------------------------
(***************************************************************************)
(* Scores stay hidden from the roles that may not see them, the record     *)
(* ends at the stage an application is in, who left starts over, and the   *)
(* form saved last is the one stored: for any number of people and         *)
(* applications, any stages, scores and requirements.  Support sessions,   *)
(* in the second part, stay bounded: for any number of tabs and days.      *)
(* Lists, in the third, are walked without a gap: for any rows, keys and   *)
(* size of a page.                                                         *)
(***************************************************************************)
EXTENDS MCHiring, FiniteSetTheorems, TLAPS

(* The inductive invariant behind the properties. *)

\* Only members are on a hiring team or in a department.
StaffInv == \A p \in People : role[p] = None => p \notin team /\ p \notin department.members

\* Decisions are about applications that exist, also after they were removed.
EntriesInv == \A i \in DOMAIN record : row[record[i].app] # None

\* The request's permission, and the row it read, hold while it writes.
RequestsInv == \A p \in People :
  LET q == request[p] IN
  q.op \in {"stage", "rate", "remove", "restore"} /\ q.pc = "read" => row[q.app] # None

IndInv ==
  /\ TypeOK
  /\ StaffInv
  /\ EntriesInv
  /\ RequestsInv
  /\ RecordEndsAtStage
  /\ FormSaved
-----------------------------------------------------------------------------
(* Types. *)

LEMMA Constants ==
  /\ Idle.op = "none"
  /\ NewStage \in Stages
  /\ None \notin Roles /\ None \notin Nat /\ None \notin Stages
  /\ ForeignId \notin Nat
  /\ \A q \in Asked : /\ q.op \in {"stage", "create", "remove", "restore", "rate"}
                      /\ q.app \in Applications /\ q.role \in Roles /\ q.to \in Stages
                      /\ q.from \in Stages /\ q.ai \in Ai
  /\ \A q \in Filling : /\ q.op = "edit" /\ q.role \in Roles
                        /\ q.form \in Seq(Field(Nat)) /\ IsForm(q.form)
BY HiringAssumption DEF Idle, Asked, Filling

\* One person's request is replaced by another, or by none.
LEMMA RequestTypes ==
  ASSUME TypeOK, NEW p \in People, NEW q \in {Idle} \cup Asked \cup Filling,
         request' = [request EXCEPT ![p] = q]
  PROVE  request' \in [People -> {Idle} \cup Asked \cup Filling]
BY DEF TypeOK

LEMMA TypeStaffing ==
  ASSUME TypeOK, Staffing
  PROVE  TypeOK'
<1>1. ASSUME NEW p \in People, NEW r \in Roles \cup {None}, SetMembership(p, r) PROVE TypeOK'
  BY <1>1 DEF SetMembership, TypeOK
<1>2. ASSUME NEW p \in People,
             \/ AssignToJob(p) \/ UnassignFromJob(p) \/ AddDepartmentMember(p) \/ RemoveDepartmentMember(p)
      PROVE  TypeOK'
  BY <1>2 DEF AssignToJob, UnassignFromJob, AddDepartmentMember, RemoveDepartmentMember, TypeOK
<1>3. ASSUME (\E filed \in BOOLEAN : SetJobDepartment(filed)) \/ CreateDepartment \/ DeleteDepartment
      PROVE  TypeOK'
  <2>1. department \in [exists: BOOLEAN, members: SUBSET People, filed: BOOLEAN]
    BY DEF TypeOK
  <2>2. CASE \E filed \in BOOLEAN : SetJobDepartment(filed)
    BY <2>1, <2>2 DEF SetJobDepartment, TypeOK
  <2>3. CASE CreateDepartment
    BY <2>1, <2>3 DEF CreateDepartment, TypeOK
  <2>4. CASE DeleteDepartment
    BY <2>1, <2>4 DEF DeleteDepartment, TypeOK
  <2> QED
    BY <1>3, <2>2, <2>3, <2>4
<1>4. ASSUME SetJobStatus PROVE TypeOK'
  BY <1>4 DEF SetJobStatus, staff, TypeOK
<1> QED
  BY <1>1, <1>2, <1>3, <1>4 DEF Staffing

LEMMA AskTypes ==
  ASSUME TypeOK, NEW p \in People, NEW a \in Applications, NEW to \in Stages, NEW permission,
         NEW op \in {"stage", "create", "remove", "restore", "rate"}, Ask(p, op, permission, a, to)
  PROVE  TypeOK'
<1>1. role[p] \in Roles
  BY DEF Ask, Can, TypeOK
<1>2. Hidden \in Ai
  BY DEF Hidden, Ai
<1>3. [op |-> op, pc |-> "asked", role |-> role[p], app |-> a, to |-> to, from |-> to, ai |-> Hidden] \in Asked
  BY <1>1, <1>2 DEF Asked
<1>4. request' \in [People -> {Idle} \cup Asked \cup Filling]
  BY <1>3, RequestTypes DEF Ask
<1> QED
  BY <1>4 DEF Ask, staff, TypeOK

\* A score that lands is a run of the application.
LEMMA ScoreTypes ==
  ASSUME TypeOK, NEW a \in Applications, ScoreLands(a)
  PROVE  /\ row[a] \in Row
         /\ \E r \in Run : row' = [row EXCEPT ![a].run = r] /\ [row[a] EXCEPT !.run = r] \in Row
<1>1. PICK s \in Scores :
        LET n == IF row[a].run = None THEN 1 ELSE row[a].run.id + 1
        IN n <= MaxRuns /\ row' = [row EXCEPT ![a].run = [id |-> n, score |-> s]]
  BY DEF ScoreLands
<1>2. row[a] \in Row
  BY DEF ScoreLands, TypeOK
<1>3. PICK n \in 1..MaxRuns : row' = [row EXCEPT ![a].run = [id |-> n, score |-> s]]
  <2>1. MaxRuns \in Nat
    BY HiringAssumption
  <2>2. CASE row[a].run = None
    <3>1. 1 <= MaxRuns
      BY <1>1, <2>2
    <3>2. 1 \in 1..MaxRuns
      BY <2>1, <3>1
    <3>3. row' = [row EXCEPT ![a].run = [id |-> 1, score |-> s]]
      BY <1>1, <2>2
    <3> QED
      BY <3>2, <3>3
  <2>3. CASE row[a].run # None
    <3>1. row[a].run.id \in 1..MaxRuns
      BY <1>2, <2>3 DEF Row, Run
    <3>2. row[a].run.id + 1 <= MaxRuns
      BY <1>1, <2>3
    <3>3. row[a].run.id + 1 \in 1..MaxRuns
      BY <2>1, <3>1, <3>2
    <3> QED
      BY <1>1, <2>3, <3>3
  <2> QED
    BY <2>2, <2>3
<1>4. [id |-> n, score |-> s] \in Run /\ [row[a] EXCEPT !.run = [id |-> n, score |-> s]] \in Row
  BY <1>2 DEF Row, Run
<1> QED
  BY <1>2, <1>3, <1>4

LEMMA TypeDeciding ==
  ASSUME TypeOK, NEW p \in People, NEW a \in Applications, Deciding(p, a)
  PROVE  TypeOK'
<1>1. CASE RequestCreate(p, a)
  BY <1>1, AskTypes, Constants DEF RequestCreate
<1>2. CASE RequestRemove(p, a)
  BY <1>2, AskTypes, Constants DEF RequestRemove
<1>3. CASE RequestRate(p, a)
  BY <1>3, AskTypes, Constants DEF RequestRate
<1>4. CASE \E to \in Stages : RequestStage(p, a, to)
  BY <1>4, AskTypes DEF RequestStage
<1>5. CASE ScoreLands(a)
  <2>1. PICK r \in Run : row' = [row EXCEPT ![a].run = r] /\ [row[a] EXCEPT !.run = r] \in Row
    BY <1>5, ScoreTypes
  <2>2. row' \in [Applications -> Row \cup {None}]
    BY <2>1 DEF TypeOK
  <2> QED
    BY <1>5, <2>2 DEF ScoreLands, staff, TypeOK
<1> QED
  BY <1>1, <1>2, <1>3, <1>4, <1>5 DEF Deciding

\* What one person's request is while it is served.
LEMMA ServedTypes ==
  ASSUME TypeOK, NEW p \in People, request[p].op \notin {"none", "edit"}
  PROVE  request[p] \in Asked
BY Constants DEF TypeOK

LEMMA TypeServing ==
  ASSUME TypeOK, RequestsInv, NEW p \in People, Serving(p)
  PROVE  TypeOK'
<1> DEFINE q == request[p]
<1>0. Idle \in {Idle} \cup Asked \cup Filling
  OBVIOUS
<1>1. CASE ReadRow(p)
  <2>1. q \in Asked
    BY <1>1, ServedTypes DEF ReadRow
  <2>2. q.op = "stage" /\ Visible(p) => row[q.app] \in Row
    BY <2>1, Constants DEF Visible, TypeOK
  <2>3. \A run \in Run \cup {None} : DecisionContext(q.role, run) \in Ai
    BY DEF DecisionContext, Ai
  <2>4. \A from \in Stages : \A ai \in Ai :
          [q EXCEPT !.pc = "read", !.from = from, !.ai = ai] \in Asked
    BY <2>1 DEF Asked
  <2>5. q.from \in Stages /\ q.ai \in Ai
    BY <2>1, Constants
  <2>6. \/ End(p)
        \/ \E from \in Stages : \E ai \in Ai :
             request' = [request EXCEPT ![p] = [q EXCEPT !.pc = "read", !.from = from, !.ai = ai]]
    <3>1. CASE End(p)
      BY <3>1
    <3>2. CASE q.op = "stage" /\ ~End(p)
      <4>1. Visible(p)
        BY <1>1, <3>2 DEF ReadRow
      <4>2. row[q.app].stage \in Stages /\ row[q.app].run \in Run \cup {None}
        BY <2>2, <3>2, <4>1 DEF Row
      <4>3. request' = [request EXCEPT ![p].pc = "read", ![p].from = row[q.app].stage,
                                       ![p].ai = DecisionContext(q.role, row[q.app].run)]
        BY <1>1, <3>2 DEF ReadRow
      <4>4. request' = [request EXCEPT ![p] = [q EXCEPT !.pc = "read", !.from = row[q.app].stage,
                                                 !.ai = DecisionContext(q.role, row[q.app].run)]]
        BY <4>3 DEF TypeOK
      <4> QED
        BY <2>3, <4>2, <4>4
    <3>3. CASE q.op # "stage" /\ ~End(p)
      <4>1. request' = [request EXCEPT ![p].pc = "read", ![p].from = @, ![p].ai = @]
        BY <1>1, <3>3 DEF ReadRow
      <4>2. request' = [request EXCEPT ![p] = [q EXCEPT !.pc = "read", !.from = q.from, !.ai = q.ai]]
        BY <4>1 DEF TypeOK
      <4> QED
        BY <2>5, <4>2
    <3> QED
      BY <3>1, <3>2, <3>3
  <2>7. request' \in [People -> {Idle} \cup Asked \cup Filling]
    BY <1>0, <2>4, <2>6, RequestTypes DEF End
  <2> QED
    BY <1>1, <2>7 DEF ReadRow, staff, TypeOK
<1>2. ASSUME NEW op \in {"stage", "create", "remove", "restore", "rate"}, Doing(p, op)
      PROVE  /\ q \in Asked /\ q.op = op
             /\ request' \in [People -> {Idle} \cup Asked \cup Filling]
  BY <1>0, <1>2, ServedTypes, RequestTypes DEF Doing, End
<1>3. CASE UpdateStage(p)
  <2>1. q \in Asked /\ request' \in [People -> {Idle} \cup Asked \cup Filling]
    BY <1>2, <1>3 DEF UpdateStage
  <2>2. CASE StillThere(q.app)
    <3> DEFINE e == [app |-> q.app, by |-> p, was |-> row[q.app].stage, from |-> q.from,
                     to |-> q.to, ai |-> q.ai, told |-> q.from # q.to]
    <3>1. row[q.app] \in Row /\ q.app \in Applications
      BY <2>1, <2>2, Constants DEF StillThere, TypeOK
    <3>2. row[q.app].stage \in Stages /\ [row[q.app] EXCEPT !.stage = q.to] \in Row
      BY <2>1, <3>1, Constants DEF Row
    <3>3. e \in Entry
      BY <2>1, <3>2, Constants DEF Entry
    <3>4. row' \in [Applications -> Row \cup {None}]
      BY <1>3, <2>2, <3>1, <3>2 DEF UpdateStage, TypeOK
    <3>5. record' \in Seq(Entry)
      BY <1>3, <2>2, <3>3, SMTT(30) DEF UpdateStage, TypeOK
    <3> QED
      BY <1>3, <2>1, <3>4, <3>5 DEF UpdateStage, staff, TypeOK
  <2>3. CASE ~StillThere(q.app)
    BY <1>3, <2>1, <2>3 DEF UpdateStage, staff, TypeOK
  <2> QED
    BY <2>2, <2>3
<1>4. CASE CreateApplication(p)
  <2>1. q \in Asked /\ request' \in [People -> {Idle} \cup Asked \cup Filling]
    BY <1>2, <1>4 DEF CreateApplication
  <2>2. [stage |-> NewStage, removed |-> FALSE, run |-> None] \in Row
    BY Constants DEF Row
  <2>3. row' \in [Applications -> Row \cup {None}]
    BY <1>4, <2>1, <2>2, Constants DEF CreateApplication, TypeOK
  <2> QED
    BY <1>4, <2>1, <2>3 DEF CreateApplication, staff, TypeOK
<1>5. CASE SetApplicationRemoved(p)
  <2>1. q \in Asked /\ request' \in [People -> {Idle} \cup Asked \cup Filling]
    BY <1>2, <1>5 DEF SetApplicationRemoved
  <2>2. row[q.app] \in Row /\ q.app \in Applications
    BY <1>5, <2>1, Constants DEF SetApplicationRemoved, Doing, RequestsInv, TypeOK
  <2>3. \A b \in BOOLEAN : [row[q.app] EXCEPT !.removed = b] \in Row
    BY <2>2 DEF Row
  <2>4. row' \in [Applications -> Row \cup {None}]
    BY <1>5, <2>2, <2>3 DEF SetApplicationRemoved, TypeOK
  <2> QED
    BY <1>5, <2>1, <2>4 DEF SetApplicationRemoved, staff, TypeOK
<1>6. CASE UpsertScorecard(p)
  <2>1. q \in Asked /\ request' \in [People -> {Idle} \cup Asked \cup Filling]
    BY <1>2, <1>6 DEF UpsertScorecard
  <2>2. scorecards' \in [Applications -> SUBSET People]
    BY <1>6, <2>1, Constants DEF UpsertScorecard, TypeOK
  <2> QED
    BY <1>6, <2>1, <2>2 DEF UpsertScorecard, staff, TypeOK
<1> QED
  BY <1>1, <1>3, <1>4, <1>5, <1>6 DEF Serving

IdsOf(rows) == {q.id : q \in rows}

\* The rows a form leaves, one for each of its requirements: what an edit of the
\* rubric stores, whatever rows there were.
LEMMA FormApplied ==
  ASSUME NEW f \in Seq(Field(Nat)), IsForm(f), NEW rows \in SUBSET Requirement, NEW next \in Nat
  PROVE  /\ Applied(f, IdsOf(rows), rows, next) \subseteq Requirement
         /\ Cardinality(Applied(f, IdsOf(rows), rows, next)) = Len(f)
         /\ \A i \in DOMAIN f : \E q \in Applied(f, IdsOf(rows), rows, next) :
              q.order = i - 1 /\ q.label = f[i].label /\ (f[i].id \in IdsOf(rows) => q.id = f[i].id)
<1>0. PICK ids : ids = IdsOf(rows)
  OBVIOUS
<1>i. ids = {q.id : q \in rows}
  BY <1>0 DEF IdsOf
<1> DEFINE n == Len(f)
           new == {i \in DOMAIN f : f[i].id \notin ids}
           id(i) == IF f[i].id \in ids THEN f[i].id ELSE next + Cardinality({j \in new : j < i})
           item(i) == [id |-> id(i), label |-> f[i].label, order |-> i - 1]
           items == {item(i) : i \in 1..n}
           edited(q) == {i \in DOMAIN f : f[i].id = q.id /\ q.id \in ids}
<1>1. n \in Nat /\ DOMAIN f = 1..n /\ IsFiniteSet(1..n) /\ Cardinality(1..n) = n
  <2>1. n \in Nat /\ DOMAIN f = 1..n
    OBVIOUS
  <2>2. IsFiniteSet(1..n) /\ Cardinality(1..n) = IF 1 > n THEN 0 ELSE n - 1 + 1
    BY <2>1, FS_Interval
  <2> QED
    BY <2>1, <2>2
<1>2. \A i \in 1..n : f[i] \in Field(Nat)
  BY <1>1
<1>3. ids \subseteq Nat /\ None \notin ids
  BY <1>i, Constants DEF Requirement
<1>4. \A i \in 1..n : id(i) \in Nat
  <2> SUFFICES ASSUME NEW i \in 1..n PROVE id(i) \in Nat
    OBVIOUS
  <2>1. {j \in new : j < i} \in SUBSET (1..n)
    BY <1>1
  <2>2. Cardinality({j \in new : j < i}) \in Nat
    BY <1>1, <2>1, FS_Subset, FS_CardinalityType
  <2>3. next + Cardinality({j \in new : j < i}) \in Nat
    BY <2>2
  <2>4. f[i].id \in ids => f[i].id \in Nat
    BY <1>3
  <2> QED
    BY <2>3, <2>4
<1>5. \A i \in 1..n : item(i) \in Requirement
  <2> SUFFICES ASSUME NEW i \in 1..n PROVE item(i) \in Requirement
    OBVIOUS
  <2>1. f[i].label \in Labels /\ i - 1 \in Nat
    BY <1>2 DEF Field
  <2> QED
    BY <1>4, <2>1 DEF Requirement
<1>6. Applied(f, ids, rows, next) \subseteq items
  <2>1. ASSUME NEW q \in rows, q.id \notin ids \ {f[i].id : i \in DOMAIN f}
        PROVE  edited(q) # {} /\ \A i \in edited(q) : [id |-> q.id, label |-> f[i].label, order |-> i - 1] = item(i)
    <3>1. q.id \in ids /\ q \in Requirement
      BY <1>i
    <3>2. edited(q) # {}
      BY <2>1, <3>1
    <3>3. ASSUME NEW i \in edited(q)
          PROVE  [id |-> q.id, label |-> f[i].label, order |-> i - 1] = item(i)
      OBVIOUS
    <3> QED
      BY <3>2, <3>3
  <2>2. ASSUME NEW x \in Applied(f, ids, rows, next) PROVE x \in items
    <3>1. CASE \E i \in new : x = item(i)
      BY <1>1, <3>1
    <3>2. CASE \E q \in rows : /\ q.id \notin ids \ {f[i].id : i \in DOMAIN f}
                               /\ edited(q) # {}
                               /\ x = LET i == CHOOSE i \in edited(q) : TRUE
                                      IN [id |-> q.id, label |-> f[i].label, order |-> i - 1]
      BY <1>1, <2>1, <3>2
    <3>3. \/ \E i \in new : x = [id |-> next + Cardinality({j \in new : j < i}),
                                 label |-> f[i].label, order |-> i - 1]
          \/ \E q \in rows : /\ q.id \notin ids \ {f[i].id : i \in DOMAIN f}
                             /\ x = IF edited(q) = {} THEN q
                                    ELSE LET i == CHOOSE i \in edited(q) : TRUE
                                         IN [id |-> q.id, label |-> f[i].label, order |-> i - 1]
      BY <2>2 DEF Applied
    <3> QED
      BY <2>1, <3>1, <3>2, <3>3
  <2> QED
    BY <2>2
<1>7. items \subseteq Applied(f, ids, rows, next)
  <2> SUFFICES ASSUME NEW i \in 1..n PROVE item(i) \in Applied(f, ids, rows, next)
    OBVIOUS
  <2>1. CASE f[i].id \notin ids
    <3>1. item(i) = [id |-> next + Cardinality({j \in new : j < i}), label |-> f[i].label, order |-> i - 1]
      BY <2>1
    <3> QED
      BY <1>1, <2>1, <3>1 DEF Applied
  <2>2. CASE f[i].id \in ids
    <3>1. PICK q \in rows : q.id = f[i].id
      BY <1>i, <2>2
    <3>2. edited(q) = {i}
      BY <1>1, <1>3, <2>2, <3>1 DEF IsForm
    <3>3. (CHOOSE j \in edited(q) : TRUE) = i
      BY <3>2
    <3>4. item(i) = [id |-> q.id, label |-> f[i].label, order |-> i - 1]
      BY <2>2, <3>1
    <3>5. q.id \notin ids \ {f[j].id : j \in DOMAIN f}
      BY <1>1, <3>1
    <3> QED
      BY <3>2, <3>3, <3>4, <3>5 DEF Applied
  <2> QED
    BY <2>1, <2>2
<1>8. Cardinality(items) = n
  <2> DEFINE g == [i \in 1..n |-> item(i)]
  <2>1. \A i, j \in 1..n : item(i) = item(j) => i = j
    <3> SUFFICES ASSUME NEW i \in 1..n, NEW j \in 1..n, item(i) = item(j) PROVE i = j
      OBVIOUS
    <3>1. item(i).order = i - 1 /\ item(j).order = j - 1
      OBVIOUS
    <3> QED
      BY <3>1
  <2> HIDE DEF item
  <2>2. g \in Bijection(1..n, items)
    BY <2>1 DEF Bijection, Injection, Surjection, IsInjective
  <2>3. Cardinality(items) = Cardinality(1..n)
    BY <1>1, <2>2, FS_Bijection DEF ExistsBijection
  <2> QED
    BY <1>1, <2>3
<1>9. Applied(f, ids, rows, next) = items
  BY <1>6, <1>7
<1>10. ASSUME NEW i \in 1..n
       PROVE  \E q \in items : q.order = i - 1 /\ q.label = f[i].label /\ (f[i].id \in ids => q.id = f[i].id)
  <2>1. item(i) \in items
    OBVIOUS
  <2>2. item(i).order = i - 1 /\ item(i).label = f[i].label /\ (f[i].id \in ids => item(i).id = f[i].id)
    OBVIOUS
  <2> QED
    BY <2>1, <2>2
<1> HIDE DEF item
<1> QED
  BY <1>0, <1>1, <1>5, <1>8, <1>9, <1>10, ZenonT(90)

\* A form that was sent is one; what an edit stores is what the last part of
\* the invariant speaks of.
LEMMA TypeEditing ==
  ASSUME TypeOK, NEW p \in People, Editing(p)
  PROVE  TypeOK'
<1> DEFINE q == request[p]
<1>1. CASE OpenForm(p)
  <2>1. PICK f \in SeqOf(Field(RowIds), MaxForm) :
          /\ IsForm(f)
          /\ request' = [request EXCEPT ![p] = [op |-> "edit", role |-> role[p], known |-> RowIds, form |-> f]]
    BY <1>1 DEF OpenForm
  <2>2. RowIds \subseteq Nat /\ role[p] \in Roles
    BY <1>1 DEF OpenForm, Can, RowIds, TypeOK, Requirement
  <2>3. f \in Seq(Field(Nat))
    <3>1. PICK m \in 0..MaxForm : f \in [1..m -> Field(RowIds)]
      BY DEF SeqOf
    <3>2. Field(RowIds) \subseteq Field(Nat)
      BY <2>2 DEF Field
    <3>3. m \in Nat /\ f \in [1..m -> Field(Nat)]
      BY <3>1, <3>2, HiringAssumption
    <3> QED
      BY <3>3
  <2>4. [op |-> "edit", role |-> role[p], known |-> RowIds, form |-> f] \in Filling
    BY <2>1, <2>2, <2>3 DEF Filling
  <2>5. request' \in [People -> {Idle} \cup Asked \cup Filling]
    BY <2>1, <2>4, RequestTypes
  <2> QED
    BY <1>1, <2>5 DEF OpenForm, staff, TypeOK
<1>2. CASE UpdateJob(p)
  <2>1. q \in Filling
    BY <1>2, Constants DEF UpdateJob, TypeOK
  <2>2. request' \in [People -> {Idle} \cup Asked \cup Filling]
    BY <1>2, RequestTypes DEF UpdateJob, End
  <2>3. job' \in [archived: BOOLEAN, requirements: SUBSET Requirement, next: Nat]
    <3>1. CASE Reaches(p, q.role)
      <4> DEFINE new == {i \in DOMAIN q.form : q.form[i].id \notin Existing(p)}
                 rows == Applied(q.form, Existing(p), job.requirements, job.next)
      <4>1. job' = [job EXCEPT !.requirements = rows, !.next = @ + Cardinality(new)]
        BY <1>2, <3>1 DEF UpdateJob
      <4>2. job \in [archived: BOOLEAN, requirements: SUBSET Requirement, next: Nat]
        BY DEF TypeOK
      <4>3. rows \in SUBSET Requirement
        <5>1. Existing(p) = IdsOf(job.requirements)
          BY DEF Existing, RowIds, IdsOf
        <5>2. q.form \in Seq(Field(Nat)) /\ IsForm(q.form)
          BY <2>1, Constants
        <5> QED
          BY <4>2, <5>1, <5>2, FormApplied
      <4>4. Cardinality(new) \in Nat
        <5>1. q.form \in Seq(Field(Nat))
          BY <2>1, Constants
        <5>2. DOMAIN q.form = 1..Len(q.form) /\ Len(q.form) \in Nat
          BY <5>1
        <5>3. IsFiniteSet(1..Len(q.form))
          BY <5>2, FS_Interval
        <5>4. new \in SUBSET (1..Len(q.form))
          BY <5>2
        <5> QED
          BY <5>3, <5>4, FS_Subset, FS_CardinalityType
      <4> HIDE DEF new, rows
      <4>5. job.next + Cardinality(new) \in Nat
        BY <4>2, <4>4
      <4>6. job' = [job EXCEPT !.requirements = rows, !.next = job.next + Cardinality(new)]
        BY <4>1, <4>2
      <4> QED
        BY <4>2, <4>3, <4>5, <4>6
    <3>2. CASE ~Reaches(p, q.role)
      BY <1>2, <3>2 DEF UpdateJob, TypeOK
    <3> QED
      BY <3>1, <3>2
  <2> QED
    BY <1>2, <2>2, <2>3 DEF UpdateJob, staff, TypeOK
<1> QED
  BY <1>1, <1>2 DEF Editing

LEMMA TypeStep ==
  ASSUME TypeOK, RequestsInv, [Next]_vars
  PROVE  TypeOK'
<1>1. CASE UNCHANGED vars
  BY <1>1 DEF vars, TypeOK
<1> QED
  BY <1>1, TypeStaffing, TypeServing, TypeEditing, TypeDeciding DEF Next
-----------------------------------------------------------------------------
(* Who may reach a job. *)

LEMMA StaffSame ==
  ASSUME [Next]_vars, ~Staffing
  PROVE  UNCHANGED staff
<1>1. ASSUME NEW p \in People, Serving(p) PROVE UNCHANGED staff
  BY <1>1 DEF Serving, ReadRow, UpdateStage, CreateApplication, SetApplicationRemoved, UpsertScorecard
<1>2. ASSUME NEW p \in People, Editing(p) PROVE UNCHANGED staff
  BY <1>2 DEF Editing, OpenForm, UpdateJob
<1>3. ASSUME NEW p \in People, NEW a \in Applications, Deciding(p, a) PROVE UNCHANGED staff
  BY <1>3 DEF Deciding, RequestCreate, RequestRemove, RequestRate, RequestStage, Ask, ScoreLands
<1> QED
  BY <1>1, <1>2, <1>3 DEF Next, vars, staff

\* Whoever becomes a member was on no team; whoever leaves is on none.
LEMMA StaffStep ==
  ASSUME TypeOK, StaffInv, [Next]_vars
  PROVE  /\ StaffInv'
         /\ \A p \in People : role[p] = None /\ role'[p] # None =>
              p \notin team' /\ p \notin department'.members
<1>0. department \in [exists: BOOLEAN, members: SUBSET People, filed: BOOLEAN] /\ role \in [People -> Roles \cup {None}]
  BY DEF TypeOK
<1>1. CASE \E p \in People, r \in Roles \cup {None} : SetMembership(p, r)
  <2>1. PICK p \in People, r \in Roles \cup {None} : SetMembership(p, r)
    BY <1>1
  <2>2. role' = [role EXCEPT ![p] = r] /\ team' = IF r = None THEN team \ {p} ELSE team
    BY <2>1 DEF SetMembership
  <2>3. department'.members = IF r = None THEN department.members \ {p} ELSE department.members
    BY <1>0, <2>1 DEF SetMembership
  <2> QED
    BY <1>0, <2>2, <2>3 DEF StaffInv
<1>2. CASE \E p \in People : AssignToJob(p) \/ UnassignFromJob(p)
  BY <1>2 DEF AssignToJob, UnassignFromJob, StaffInv
<1>3. CASE \E p \in People : AddDepartmentMember(p) \/ RemoveDepartmentMember(p)
  <2>1. PICK p \in People : AddDepartmentMember(p) \/ RemoveDepartmentMember(p)
    BY <1>3
  <2>2. /\ role' = role /\ team' = team
        /\ \/ role[p] # None /\ department'.members = department.members \cup {p}
           \/ department'.members = department.members \ {p}
    BY <1>0, <2>1 DEF AddDepartmentMember, RemoveDepartmentMember
  <2> QED
    BY <2>2 DEF StaffInv
<1>4. CASE (\E filed \in BOOLEAN : SetJobDepartment(filed)) \/ CreateDepartment \/ DeleteDepartment
  <2>1. role' = role /\ team' = team /\ department'.members \subseteq department.members
    <3>1. CASE \E filed \in BOOLEAN : SetJobDepartment(filed)
      BY <1>0, <3>1 DEF SetJobDepartment
    <3>2. CASE CreateDepartment
      BY <1>0, <3>2 DEF CreateDepartment
    <3>3. CASE DeleteDepartment
      BY <3>3 DEF DeleteDepartment
    <3> QED
      BY <1>4, <3>1, <3>2, <3>3
  <2> QED
    BY <2>1 DEF StaffInv
<1>5. CASE SetJobStatus \/ ~Staffing
  BY <1>5, StaffSame DEF SetJobStatus, staff, StaffInv
<1> QED
  BY <1>1, <1>2, <1>3, <1>4, <1>5 DEF Staffing
-----------------------------------------------------------------------------
(* What one step does to the rows and the record. *)

\* A row appears in the first stage, keeps its stage, or moves with its entry.
RowStep ==
  \/ /\ record' = record
     /\ \A a \in Applications :
          \/ row'[a] = row[a]
          \/ row[a] = None /\ row'[a] # None /\ row'[a].stage = NewStage
          \/ row[a] # None /\ row'[a] # None /\ row'[a].stage = row[a].stage
  \/ \E e \in Entry :
       /\ record' = Append(record, e)
       /\ row[e.app] # None /\ ~row[e.app].removed
       /\ row'[e.app] # None /\ row'[e.app].stage = e.to
       /\ \A a \in Applications \ {e.app} : row'[a] = row[a]

LEMMA ServingSteps ==
  ASSUME TypeOK, RequestsInv, NEW p \in People, Serving(p)
  PROVE  RowStep
<1> DEFINE q == request[p]
<1>0. row \in [Applications -> Row \cup {None}] /\ None \notin Row
  BY NoneAssumption DEF TypeOK
<1>1. ASSUME NEW op \in {"stage", "create", "remove", "restore", "rate"}, Doing(p, op)
      PROVE  q \in Asked /\ q.app \in Applications
  BY <1>1, ServedTypes, Constants DEF Doing
<1>2. CASE ReadRow(p) \/ UpsertScorecard(p)
  BY <1>2 DEF ReadRow, UpsertScorecard, RowStep
<1>3. CASE UpdateStage(p)
  <2>1. q \in Asked /\ q.app \in Applications
    BY <1>1, <1>3 DEF UpdateStage
  <2>2. CASE StillThere(q.app)
    <3> DEFINE e == [app |-> q.app, by |-> p, was |-> row[q.app].stage, from |-> q.from,
                     to |-> q.to, ai |-> q.ai, told |-> q.from # q.to]
    <3>1. row[q.app] \in Row /\ row[q.app].stage \in Stages /\ ~row[q.app].removed
      BY <1>0, <2>1, <2>2 DEF StillThere, Row
    <3>2. e \in Entry
      BY <2>1, <3>1, Constants DEF Entry
    <3>3. row' = [row EXCEPT ![q.app].stage = q.to] /\ record' = Append(record, e)
      BY <1>3, <2>2 DEF UpdateStage
    <3>4. row'[q.app] \in Row /\ row'[q.app].stage = q.to
      <4>1. [row[q.app] EXCEPT !.stage = q.to] \in Row
        BY <2>1, <3>1, Constants DEF Row
      <4>2. row'[q.app] = [row[q.app] EXCEPT !.stage = q.to]
        BY <1>0, <2>1, <3>3
      <4> QED
        BY <3>1, <4>1, <4>2 DEF Row
    <3>5. e.app = q.app /\ e.to = q.to
      OBVIOUS
    <3>6. \A a \in Applications \ {q.app} : row'[a] = row[a]
      BY <1>0, <3>3
    <3> HIDE DEF e
    <3> QED
      BY <1>0, <3>1, <3>2, <3>3, <3>4, <3>5, <3>6 DEF RowStep
  <2>3. CASE ~StillThere(q.app)
    BY <1>3, <2>3 DEF UpdateStage, RowStep
  <2> QED
    BY <2>2, <2>3
<1>4. CASE CreateApplication(p)
  <2>1. q.app \in Applications
    BY <1>1, <1>4 DEF CreateApplication
  <2>2. \/ row'[q.app] = row[q.app]
        \/ row[q.app] = None /\ row'[q.app] = [stage |-> NewStage, removed |-> FALSE, run |-> None]
    <3>1. row' = IF row[q.app] = None
                 THEN [row EXCEPT ![q.app] = [stage |-> NewStage, removed |-> FALSE, run |-> None]] ELSE row
      BY <1>4 DEF CreateApplication
    <3>2. CASE row[q.app] = None
      BY <1>0, <2>1, <3>1, <3>2
    <3>3. CASE row[q.app] # None
      <4>1. row' = row
        BY <3>1, <3>3
      <4> QED
        BY <4>1
    <3> QED
      BY <3>2, <3>3
  <2>3. [stage |-> NewStage, removed |-> FALSE, run |-> None] \in Row
    BY Constants DEF Row
  <2>4. \A a \in Applications \ {q.app} : row'[a] = row[a]
    BY <1>0, <1>4 DEF CreateApplication
  <2> QED
    BY <1>0, <1>4, <2>1, <2>2, <2>3, <2>4 DEF CreateApplication, RowStep
<1>5. CASE SetApplicationRemoved(p)
  <2>1. q.app \in Applications /\ row[q.app] \in Row
    <3>1. q.app \in Applications
      BY <1>1, <1>5 DEF SetApplicationRemoved
    <3>2. row[q.app] # None
      BY <1>5 DEF SetApplicationRemoved, Doing, RequestsInv
    <3> QED
      BY <1>0, <3>1, <3>2
  <2>2. PICK b \in BOOLEAN : row' = [row EXCEPT ![q.app].removed = b]
    BY <1>5 DEF SetApplicationRemoved
  <2>3. [row[q.app] EXCEPT !.removed = b] \in Row /\ [row[q.app] EXCEPT !.removed = b].stage = row[q.app].stage
    BY <2>1 DEF Row
  <2>4. row'[q.app] = [row[q.app] EXCEPT !.removed = b] /\ \A a \in Applications \ {q.app} : row'[a] = row[a]
    BY <1>0, <2>1, <2>2
  <2> QED
    BY <1>0, <1>5, <2>1, <2>3, <2>4 DEF SetApplicationRemoved, RowStep
<1> QED
  BY <1>2, <1>3, <1>4, <1>5 DEF Serving

LEMMA RowSteps ==
  ASSUME TypeOK, RequestsInv, [Next]_vars
  PROVE  RowStep
<1>1. CASE UNCHANGED <<row, record>>
  BY <1>1 DEF RowStep
<1>2. CASE \E p \in People : Serving(p)
  BY <1>2, ServingSteps
<1>3. ASSUME NEW p \in People, NEW a \in Applications, ScoreLands(a) PROVE RowStep
  <2>1. PICK r \in Run : row' = [row EXCEPT ![a].run = r] /\ [row[a] EXCEPT !.run = r] \in Row
    BY <1>3, ScoreTypes
  <2>2. row[a] \in Row /\ row \in [Applications -> Row \cup {None}]
    BY <1>3, ScoreTypes DEF TypeOK
  <2>3. row'[a] = [row[a] EXCEPT !.run = r] /\ [row[a] EXCEPT !.run = r].stage = row[a].stage
        /\ \A b \in Applications \ {a} : row'[b] = row[b]
    BY <2>1, <2>2 DEF Row
  <2> QED
    BY <1>3, <2>1, <2>2, <2>3, NoneAssumption DEF ScoreLands, RowStep
<1>4. ASSUME Staffing PROVE UNCHANGED <<row, record>>
  BY <1>4 DEF Staffing, SetMembership, AssignToJob, UnassignFromJob, AddDepartmentMember,
              RemoveDepartmentMember, SetJobDepartment, CreateDepartment, DeleteDepartment, SetJobStatus
<1>5. ASSUME NEW p \in People, Editing(p) PROVE UNCHANGED <<row, record>>
  BY <1>5 DEF Editing, OpenForm, UpdateJob
<1>6. ASSUME NEW p \in People, NEW a \in Applications, Deciding(p, a), ~ScoreLands(a)
      PROVE  UNCHANGED <<row, record>>
  BY <1>6 DEF Deciding, RequestCreate, RequestRemove, RequestRate, RequestStage, Ask
<1>7. CASE UNCHANGED vars
  BY <1>1, <1>7 DEF vars
<1> QED
  BY <1>1, <1>2, <1>3, <1>4, <1>5, <1>6, <1>7 DEF Next

LEMMA RequestsKept ==
  ASSUME TypeOK, RequestsInv, RowStep, [Next]_vars
  PROVE  RequestsInv'
<1> DEFINE Rowed(q) == q.op \in {"stage", "rate", "remove", "restore"} /\ q.pc = "read" => row[q.app] # None
<1>1. \A a \in Applications : row[a] # None => row'[a] # None
  BY DEF RowStep, Entry
<1>2. request \in [People -> {Idle} \cup Asked \cup Filling]
  BY DEF TypeOK
<1>3. \A q \in {Idle} \cup Asked \cup Filling :
        q.op \in {"stage", "rate", "remove", "restore"} => q.app \in Applications
  BY Constants
<1>4. \/ request' = request
      \/ \E p \in People : \E q \in {Idle} \cup Asked \cup Filling :
           Rowed(q) /\ request' = [request EXCEPT ![p] = q]
  <2>1. ASSUME NEW p \in People, End(p)
        PROVE  \E q \in {Idle} \cup Asked \cup Filling : Rowed(q) /\ request' = [request EXCEPT ![p] = q]
    BY <2>1, Constants DEF End
  <2>2. ASSUME NEW p \in People, ReadRow(p), ~End(p)
        PROVE  \E q \in {Idle} \cup Asked \cup Filling : Rowed(q) /\ request' = [request EXCEPT ![p] = q]
    <3> DEFINE q == request'[p]
    <3>1. TypeOK'
      BY <2>2, TypeServing DEF Serving
    <3>2. PICK from, ai : request' = [request EXCEPT ![p].pc = "read", ![p].from = from, ![p].ai = ai]
      BY <2>2, ZenonT(90) DEF ReadRow
    <3>3. request' = [request EXCEPT ![p] = q]
      BY <1>2, <3>2
    <3>4. request[p] \in Asked
      BY <2>2, ServedTypes DEF ReadRow
    <3>5. q.op = request[p].op /\ q.app = request[p].app
      BY <1>2, <3>2, <3>4 DEF Asked
    <3>6. request[p].op # "create" => Visible(p)
      BY <2>2, <3>4, Constants DEF ReadRow
    <3>7. Rowed(q)
      BY <3>5, <3>6 DEF Visible
    <3>8. q \in {Idle} \cup Asked \cup Filling
      BY <3>1 DEF TypeOK
    <3> HIDE DEF q, Rowed
    <3> QED
      BY <3>3, <3>7, <3>8
  <2>3. ASSUME NEW p \in People, Serving(p)
        PROVE  \E q \in {Idle} \cup Asked \cup Filling : Rowed(q) /\ request' = [request EXCEPT ![p] = q]
    BY <2>1, <2>2, <2>3 DEF Serving, UpdateStage, CreateApplication, SetApplicationRemoved, UpsertScorecard, Doing
  <2>4. ASSUME NEW p \in People, NEW q, request' = [request EXCEPT ![p] = q], q.pc = "asked" \/ q.op = "edit",
               TypeOK'
        PROVE  \E r \in {Idle} \cup Asked \cup Filling : Rowed(r) /\ request' = [request EXCEPT ![p] = r]
    <3>1. q \in {Idle} \cup Asked \cup Filling
      BY <1>2, <2>4 DEF TypeOK
    <3>2. Rowed(q)
      BY <2>4
    <3> QED
      BY <2>4, <3>1, <3>2
  <2>5. ASSUME NEW p \in People, NEW a \in Applications, NEW op, NEW permission, NEW to, Ask(p, op, permission, a, to), TypeOK'
        PROVE  \E r \in {Idle} \cup Asked \cup Filling : Rowed(r) /\ request' = [request EXCEPT ![p] = r]
    BY <2>4, <2>5 DEF Ask
  <2>6. ASSUME NEW p \in People, NEW a \in Applications, Deciding(p, a)
        PROVE  \/ request' = request
               \/ \E r \in {Idle} \cup Asked \cup Filling : Rowed(r) /\ request' = [request EXCEPT ![p] = r]
    BY <2>5, <2>6, TypeDeciding DEF Deciding, RequestCreate, RequestRemove, RequestRate, RequestStage, ScoreLands
  <2>7. ASSUME NEW p \in People, Editing(p)
        PROVE  \E r \in {Idle} \cup Asked \cup Filling : Rowed(r) /\ request' = [request EXCEPT ![p] = r]
    <3>1. CASE OpenForm(p)
      BY <2>4, <2>7, <3>1, TypeEditing DEF OpenForm
    <3>2. CASE UpdateJob(p)
      BY <2>1, <3>2 DEF UpdateJob
    <3> QED
      BY <2>7, <3>1, <3>2 DEF Editing
  <2>8. CASE Staffing \/ UNCHANGED vars
    BY <2>8 DEF Staffing, SetMembership, AssignToJob, UnassignFromJob, AddDepartmentMember,
                RemoveDepartmentMember, SetJobDepartment, CreateDepartment, DeleteDepartment, SetJobStatus, vars
  <2> QED
    BY <2>3, <2>6, <2>7, <2>8 DEF Next
<1>5. CASE request' = request
  BY <1>1, <1>2, <1>3, <1>5 DEF RequestsInv
<1>6. ASSUME NEW p \in People, NEW q \in {Idle} \cup Asked \cup Filling, Rowed(q),
             request' = [request EXCEPT ![p] = q]
      PROVE  RequestsInv'
  BY <1>1, <1>2, <1>3, <1>6 DEF RequestsInv
<1> QED
  BY <1>4, <1>5, <1>6
-----------------------------------------------------------------------------
(* The record. *)

LEMMA RecordStep ==
  ASSUME TypeOK, EntriesInv, RecordEndsAtStage, RowStep
  PROVE  /\ EntriesInv'
         /\ RecordEndsAtStage'
         /\ \A a \in Applications : row[a] # None /\ row[a].removed =>
              /\ row'[a].stage = row[a].stage
              /\ Len(record') > Len(record) => record'[Len(record')].app # a
<1>0. record \in Seq(Entry) /\ Len(record) \in Nat /\ DOMAIN record = 1..Len(record)
      /\ \A i \in 1..Len(record) : record[i] \in Entry
  BY DEF TypeOK
<1>1. CASE record' = record /\ \A a \in Applications :
             \/ row'[a] = row[a]
             \/ row[a] = None /\ row'[a] # None /\ row'[a].stage = NewStage
             \/ row[a] # None /\ row'[a] # None /\ row'[a].stage = row[a].stage
  <2>1. EntriesInv'
    BY <1>0, <1>1 DEF EntriesInv, Entry
  <2>2. \A a \in Applications : row[a] = None => EntriesOf(a, record) = {}
    BY DEF EntriesInv, EntriesOf
  <2>3. RecordEndsAtStage'
    BY <1>1, <2>2 DEF RecordEndsAtStage
  <2> QED
    BY <1>0, <1>1, <2>1, <2>3
<1>2. ASSUME NEW e \in Entry, record' = Append(record, e), row[e.app] # None, ~row[e.app].removed,
             row'[e.app] # None, row'[e.app].stage = e.to,
             \A a \in Applications \ {e.app} : row'[a] = row[a]
      PROVE  /\ EntriesInv'
             /\ RecordEndsAtStage'
             /\ \A a \in Applications : row[a] # None /\ row[a].removed =>
                  /\ row'[a].stage = row[a].stage
                  /\ Len(record') > Len(record) => record'[Len(record')].app # a
  <2> DEFINE n == Len(record) + 1
  <2>1. /\ Len(record') = n /\ n \in Nat /\ DOMAIN record' = 1..n /\ record'[n] = e
        /\ \A i \in 1..Len(record) : record'[i] = record[i]
        /\ \A i \in 1..n : i \in 1..Len(record) \/ i = n
    BY <1>0, <1>2
  <2>2. EntriesInv'
    BY <1>0, <1>2, <2>1 DEF EntriesInv, Entry
  <2>3. \A a \in Applications \ {e.app} : EntriesOf(a, record') = EntriesOf(a, record)
                                          /\ \A i \in EntriesOf(a, record) : record'[i] = record[i]
    BY <1>0, <2>1 DEF EntriesOf
  <2>4. n \in EntriesOf(e.app, record') /\ \A j \in EntriesOf(e.app, record') : j <= n
    BY <2>1 DEF EntriesOf
  <2>5. RecordEndsAtStage'
    <3> SUFFICES ASSUME NEW a \in Applications, row'[a] # None
                 PROVE  \/ EntriesOf(a, record') = {} /\ row'[a].stage = NewStage
                        \/ \E i \in EntriesOf(a, record') :
                             record'[i].to = row'[a].stage /\ \A j \in EntriesOf(a, record') : j <= i
      BY DEF RecordEndsAtStage
    <3>1. CASE a = e.app
      BY <1>2, <2>1, <2>4, <3>1
    <3>2. CASE a # e.app
      BY <1>2, <2>3, <3>2 DEF RecordEndsAtStage
    <3> QED
      BY <3>1, <3>2
  <2> QED
    BY <1>2, <2>1, <2>2, <2>5
<1> QED
  BY <1>1, <1>2 DEF RowStep
-----------------------------------------------------------------------------
(* The rubric. *)

LEMMA FormStep ==
  ASSUME TypeOK, FormSaved, [Next]_vars
  PROVE  FormSaved'
<1>1. CASE job'.requirements = job.requirements /\ saved' = saved
  BY <1>1 DEF FormSaved
<1>2. ASSUME NEW p \in People, UpdateJob(p), Reaches(p, request[p].role)
      PROVE  FormSaved'
  <2> DEFINE f == request[p].form
             rows == Applied(f, RowIds, job.requirements, job.next)
             kept == [i \in DOMAIN f |-> IF f[i].id \in RowIds THEN f[i] ELSE [f[i] EXCEPT !.id = None]]
  <2>1. f \in Seq(Field(Nat)) /\ IsForm(f)
    BY <1>2, Constants DEF UpdateJob, TypeOK
  <2>2. job \in [archived: BOOLEAN, requirements: SUBSET Requirement, next: Nat]
    BY DEF TypeOK
  <2>3. job'.requirements = rows /\ saved' = kept
    BY <1>2, <2>2 DEF UpdateJob, Existing
  <2>4. /\ Cardinality(rows) = Len(f)
        /\ \A i \in DOMAIN f : \E q \in rows :
             q.order = i - 1 /\ q.label = f[i].label /\ (f[i].id \in RowIds => q.id = f[i].id)
    <3>1. RowIds = IdsOf(job.requirements)
      BY DEF RowIds, IdsOf
    <3>2. job.requirements \in SUBSET Requirement /\ job.next \in Nat
      BY <2>2
    <3> HIDE DEF f
    <3> QED
      BY <2>1, <3>1, <3>2, FormApplied
  <2>5. DOMAIN f = 1..Len(f) /\ Len(f) \in Nat /\ \A i \in DOMAIN f : f[i] \in Field(Nat)
    BY <2>1
  <2> HIDE DEF f
  <2>6. Len(kept) = Len(f) /\ DOMAIN kept = DOMAIN f
    BY <2>5
  <2>7. \A i \in DOMAIN f : /\ kept[i].label = f[i].label
                            /\ kept[i].id # None => f[i].id \in RowIds /\ kept[i].id = f[i].id
    BY <2>5 DEF Field
  <2> HIDE DEF kept, rows
  <2> QED
    BY <2>3, <2>4, <2>6, <2>7 DEF FormSaved
<1>3. ASSUME NEW p \in People, Editing(p), ~(UpdateJob(p) /\ Reaches(p, request[p].role))
      PROVE  job'.requirements = job.requirements /\ saved' = saved
  BY <1>3 DEF Editing, OpenForm, UpdateJob
<1>4. ASSUME Staffing PROVE job'.requirements = job.requirements /\ saved' = saved
  <2>1. CASE SetJobStatus
    BY <2>1 DEF SetJobStatus, TypeOK
  <2>2. CASE ~SetJobStatus
    BY <1>4, <2>2 DEF Staffing, SetMembership, AssignToJob, UnassignFromJob, AddDepartmentMember,
                      RemoveDepartmentMember, SetJobDepartment, CreateDepartment, DeleteDepartment
  <2> QED
    BY <2>1, <2>2
<1>5. ASSUME NEW p \in People, Serving(p) PROVE UNCHANGED <<job, saved>>
  BY <1>5 DEF Serving, ReadRow, UpdateStage, CreateApplication, SetApplicationRemoved, UpsertScorecard
<1>6. ASSUME NEW p \in People, NEW a \in Applications, Deciding(p, a) PROVE UNCHANGED <<job, saved>>
  BY <1>6 DEF Deciding, RequestCreate, RequestRemove, RequestRate, RequestStage, Ask, ScoreLands
<1>7. CASE UNCHANGED vars
  BY <1>1, <1>7 DEF vars
<1> QED
  BY <1>1, <1>2, <1>3, <1>4, <1>5, <1>6, <1>7 DEF Next, Editing
-----------------------------------------------------------------------------
LEMMA InitHolds ==
  ASSUME Init
  PROVE  IndInv
<1> DEFINE l == CHOOSE l \in Labels : TRUE
<1>0. l \in Labels
  BY HiringAssumption
<1>1. TypeOK
  <2>1. job \in [archived: BOOLEAN, requirements: SUBSET Requirement, next: Nat]
    BY <1>0 DEF Init, Requirement
  <2>2. department \in [exists: BOOLEAN, members: SUBSET People, filed: BOOLEAN]
    BY DEF Init
  <2> QED
    BY <2>1, <2>2 DEF Init, TypeOK
<1>2. StaffInv
  BY DEF Init, StaffInv
<1>3. EntriesInv /\ RecordEndsAtStage
  BY DEF Init, EntriesInv, RecordEndsAtStage
<1>4. RequestsInv
  BY Constants DEF Init, RequestsInv
<1>5. FormSaved
  <2> DEFINE q == [id |-> 1, label |-> l, order |-> 0]
  <2>1. job.requirements = {q} /\ saved = << [id |-> None, label |-> l] >>
    BY DEF Init
  <2>2. Cardinality({q}) = 1
    BY FS_Singleton
  <2>3. Len(saved) = 1 /\ DOMAIN saved = {1} /\ saved[1].id = None /\ saved[1].label = l
    BY <2>1
  <2> QED
    BY <2>1, <2>2, <2>3 DEF FormSaved
<1> QED
  BY <1>1, <1>2, <1>3, <1>4, <1>5 DEF IndInv

LEMMA NextHolds ==
  ASSUME IndInv, [Next]_vars
  PROVE  IndInv' /\ RowStep
<1>1. TypeOK /\ StaffInv /\ EntriesInv /\ RequestsInv /\ RecordEndsAtStage /\ FormSaved
  BY DEF IndInv
<1>2. RowStep
  BY <1>1, RowSteps
<1> QED
  BY <1>1, <1>2, TypeStep, StaffStep, RequestsKept, RecordStep, FormStep DEF IndInv

\* The inductive invariant holds in every reachable state.
THEOREM Invariance == Spec => []IndInv
<1>1. IndInv /\ [Next]_vars => IndInv'
  BY NextHolds
<1> QED
  BY InitHolds, <1>1, PTL DEF Spec

\* Every variable keeps its type.
THEOREM TypeCorrect == Spec => []TypeOK
BY Invariance, PTL DEF IndInv

\* However many edits of the rubric overlap, its rows are those of the form saved
\* last, in its order, each edited row still the same row.
THEOREM FormIsSaved == Spec => []FormSaved
BY Invariance, PTL DEF IndInv

\* The record ends at the stage an application is in, and nothing moves a removed
\* application: for any number of people deciding at once.
THEOREM RecordIsKept == Spec => RecordKept
<1>1. IndInv => RecordEndsAtStage
  BY DEF IndInv
<1>2. IndInv /\ [Next]_vars =>
        [\A a \in Applications : row[a] # None /\ row[a].removed =>
           /\ row'[a].stage = row[a].stage
           /\ Len(record') > Len(record) => record'[Len(record')].app # a]_vars
  BY NextHolds, RecordStep DEF IndInv
<1> QED
  BY <1>1, <1>2, Invariance, PTL DEF Spec, RecordKept, RemovedStays

\* Whoever comes back to a workspace is on no hiring team and in no department.
THEOREM LeaversReachNothing == Spec => LeaversStartOver
<1>1. IndInv /\ [Next]_vars =>
        [\A p \in People : role[p] = None /\ role'[p] # None => p \notin team' /\ p \notin department'.members]_vars
  BY StaffStep DEF IndInv
<1> QED
  BY <1>1, Invariance, PTL DEF Spec, LeaversStartOver
-----------------------------------------------------------------------------
(* What is shown to those who may not see scores. *)

\* Rows and entries that differ in the scores only.
SameRows(rows) == \A a \in Applications :
  /\ rows[a] = None <=> row[a] = None
  /\ row[a] # None => rows[a].stage = row[a].stage /\ rows[a].removed = row[a].removed

SameLog(log) ==
  /\ DOMAIN log = DOMAIN record
  /\ \A i \in DOMAIN record :
       /\ log[i].app = record[i].app
       /\ log[i].by = record[i].by
       /\ log[i].from = record[i].from
       /\ log[i].to = record[i].to
       /\ log[i].ai = record[i].ai \/ (log[i].ai.kind = "shown" /\ record[i].ai.kind = "shown")

LEMMA ShownTheSame ==
  ASSUME NEW rows, NEW log, SameRows(rows), SameLog(log), NEW r \in Roles, ~SeesScores(r)
  PROVE  /\ \A p \in People, a \in Applications : row[a] # None =>
              GetApplication(p, r, a, row, record) = GetApplication(p, r, a, rows, log)
         /\ \A sort : ListApplications(r, sort, row) = ListApplications(r, sort, rows)
         /\ AverageScore(r, row) = AverageScore(r, rows)
<1>1. \A a : EntriesOf(a, log) = EntriesOf(a, record)
  BY DEF SameLog, EntriesOf
<1>2. ASSUME NEW a \in Applications
      PROVE  ListStageDecisions(r, a, record) = ListStageDecisions(r, a, log)
  <2>1. ASSUME NEW i \in EntriesOf(a, record)
        PROVE  [by |-> log[i].by, from |-> log[i].from, to |-> log[i].to,
                ai |-> IF log[i].ai.kind # "shown" THEN log[i].ai ELSE [kind |-> "hidden"]]
             = [by |-> record[i].by, from |-> record[i].from, to |-> record[i].to,
                ai |-> IF record[i].ai.kind # "shown" THEN record[i].ai ELSE [kind |-> "hidden"]]
    BY DEF SameLog, EntriesOf
  <2> QED
    BY <1>1, <2>1 DEF ListStageDecisions
<1>3. ASSUME NEW p \in People, NEW a \in Applications, row[a] # None
      PROVE  GetApplication(p, r, a, row, record) = GetApplication(p, r, a, rows, log)
  BY <1>2, <1>3 DEF GetApplication, SameRows
<1>4. Live(rows) = Live(row)
  BY DEF SameRows, Live
<1>5. ASSUME NEW sort PROVE ListApplications(r, sort, row) = ListApplications(r, sort, rows)
  <2>1. \A a, b : ListedBefore(r, sort, rows, b, a) <=> ListedBefore(r, sort, row, b, a)
    BY DEF ListedBefore
  <2>2. \A a \in Live(row) : rows[a].stage = row[a].stage
    BY DEF SameRows, Live
  <2> QED
    BY <1>4, <2>1, <2>2 DEF ListApplications
<1>6. AverageScore(r, row) = AverageScore(r, rows)
  BY DEF AverageScore
<1> QED
  BY <1>3, <1>5, <1>6

\* A role that may not see scores is told the same whatever the scores are: for any
\* scores, applications and decisions.
THEOREM ScoresStayHidden == Spec => []BlindToScores
<1>1. TypeOK => BlindToScores
  <2> SUFFICES ASSUME TypeOK PROVE BlindToScores
    OBVIOUS
  <2> SUFFICES ASSUME NEW f \in [Scores -> Scores]
               PROVE
      LET run(x) == [x EXCEPT !.score = f[@]]
          rows == [a \in Applications |->
                    IF row[a] = None \/ row[a].run = None THEN row[a] ELSE [row[a] EXCEPT !.run = run(@)]]
          log == [i \in DOMAIN record |->
                    IF record[i].ai.kind = "shown" THEN [record[i] EXCEPT !.ai.run = run(@)] ELSE record[i]]
      IN \A r \in Roles : ~SeesScores(r) =>
           /\ \A p \in People, a \in Applications : row[a] # None =>
                GetApplication(p, r, a, row, record) = GetApplication(p, r, a, rows, log)
           /\ \A sort \in {"score", "newest", "oldest"} : ListApplications(r, sort, row) = ListApplications(r, sort, rows)
           /\ AverageScore(r, row) = AverageScore(r, rows)
    BY DEF BlindToScores
  <2> DEFINE run(x) == [x EXCEPT !.score = f[@]]
             rows == [a \in Applications |->
                       IF row[a] = None \/ row[a].run = None THEN row[a] ELSE [row[a] EXCEPT !.run = run(@)]]
             log == [i \in DOMAIN record |->
                       IF record[i].ai.kind = "shown" THEN [record[i] EXCEPT !.ai.run = run(@)] ELSE record[i]]
  <2>1. SameRows(rows)
    <3> SUFFICES ASSUME NEW a \in Applications
                 PROVE  /\ rows[a] = None <=> row[a] = None
                        /\ row[a] # None => rows[a].stage = row[a].stage /\ rows[a].removed = row[a].removed
      BY DEF SameRows
    <3>1. CASE row[a] = None \/ row[a].run = None
      BY <3>1
    <3>2. CASE row[a] # None /\ row[a].run # None
      <4>1. row[a] \in Row /\ row[a].run \in Run
        BY <3>2 DEF TypeOK, Row
      <4>2. PICK x : x = run(row[a].run)
        OBVIOUS
      <4>3. x \in Run
        BY <4>1, <4>2 DEF Run
      <4> HIDE DEF run
      <4>4. rows[a] = [row[a] EXCEPT !.run = x]
        BY <3>2, <4>2
      <4>5. [row[a] EXCEPT !.run = x] \in Row
        BY <4>1, <4>3 DEF Row
      <4>6. [row[a] EXCEPT !.run = x].stage = row[a].stage /\ [row[a] EXCEPT !.run = x].removed = row[a].removed
        BY <4>1 DEF Row
      <4> QED
        BY <3>2, <4>4, <4>5, <4>6, NoneAssumption
    <3> QED
      BY <3>1, <3>2
  <2>2. SameLog(log)
    <3>1. \A i \in DOMAIN record : record[i] \in Entry
      BY DEF TypeOK
    <3> SUFFICES ASSUME NEW i \in DOMAIN record
                 PROVE  /\ log[i].app = record[i].app
                        /\ log[i].by = record[i].by
                        /\ log[i].from = record[i].from
                        /\ log[i].to = record[i].to
                        /\ log[i].ai = record[i].ai \/ (log[i].ai.kind = "shown" /\ record[i].ai.kind = "shown")
      BY DEF SameLog
    <3>2. CASE record[i].ai.kind # "shown"
      BY <3>2
    <3>3. CASE record[i].ai.kind = "shown"
      <4>1. record[i] \in Entry /\ record[i].ai \in [kind: {"shown"}, run: Run]
        BY <3>1, <3>3 DEF Entry, Ai
      <4>2. PICK x : x = [record[i].ai EXCEPT !.run = run(record[i].ai.run)]
        OBVIOUS
      <4>3. x.kind = "shown"
        BY <4>1, <4>2
      <4> HIDE DEF run
      <4>4. log[i] = [record[i] EXCEPT !.ai = x]
        BY <3>3, <4>2
      <4>5. /\ [record[i] EXCEPT !.ai = x].app = record[i].app
            /\ [record[i] EXCEPT !.ai = x].by = record[i].by
            /\ [record[i] EXCEPT !.ai = x].from = record[i].from
            /\ [record[i] EXCEPT !.ai = x].to = record[i].to
            /\ [record[i] EXCEPT !.ai = x].ai = x
        BY <4>1 DEF Entry
      <4> QED
        BY <3>3, <4>3, <4>4, <4>5
    <3> QED
      BY <3>2, <3>3
  <2> HIDE DEF rows, log
  <2>3. \A r \in Roles : ~SeesScores(r) =>
          /\ \A p \in People, a \in Applications : row[a] # None =>
               GetApplication(p, r, a, row, record) = GetApplication(p, r, a, rows, log)
          /\ \A sort \in {"score", "newest", "oldest"} : ListApplications(r, sort, row) = ListApplications(r, sort, rows)
          /\ AverageScore(r, row) = AverageScore(r, rows)
    BY <2>1, <2>2, ShownTheSame
  <2> QED
    BY <2>3, Zenon DEF rows, log
<1> QED
  BY <1>1, TypeCorrect, PTL
-----------------------------------------------------------------------------
(* Support sessions: the invariant. *)

\* A request that starts a session; what it ends is open until it commits.
Starting == [op: {"start"}, pc: {"allowed", "granted", "ended"}, now: Nat, minutes: Minutes,
             expires: Nat, ending: SUBSET Nat]
Acting == [op: {"act"}, kind: Support!Kinds]
Holding(t) == tab[t].op = "start" /\ tab[t].pc = "ended"

TabsInv ==
  /\ tab \in [Tabs -> {Support!Idle} \cup Starting \cup Acting]
  /\ \A t \in Tabs : tab[t].op = "start" =>
       IF tab[t].pc = "ended" THEN tab[t].ending \subseteq Support!Open ELSE tab[t].ending = {}
  /\ \A t, u \in Tabs : t # u /\ Holding(t) /\ Holding(u) => tab[t].ending \cap tab[u].ending = {}

\* What was entered as ended has ended, and what was withdrawn stays so.
SessionsInv ==
  /\ clock \in Nat /\ until \in Nat \cup {None}
  /\ session \in Seq(Support!Session) /\ entries \in Seq(Nat) /\ Len(entries) = Len(session)
  /\ \A i \in DOMAIN session : entries[i] <= 1 /\ (entries[i] = 1 => session[i].ended # None)
  /\ withdrawn \subseteq DOMAIN session /\ Support!WithdrawalEnds

SupportInv == TabsInv /\ SessionsInv /\ ~written
-----------------------------------------------------------------------------
(* Support sessions: the steps. *)

LEMMA SupportConstants ==
  /\ Minutes \subseteq Nat /\ Days \subseteq Nat
  /\ None \notin Nat
BY InstanceAssumption DEF Support!SupportAssumption

\* Some open sessions end, and their ends are entered or not.
LEMMA EndKeeps ==
  ASSUME SessionsInv, NEW ending \in SUBSET Support!Open, NEW now \in Nat,
         session' = Support!End(ending, now), entries' \in {entries, Support!Logged(ending)},
         clock' = clock, until' \in Nat \cup {None}, withdrawn' = withdrawn
  PROVE  /\ SessionsInv' /\ DOMAIN session' = DOMAIN session
         /\ Support!Open' = Support!Open \ ending
<1>1. /\ DOMAIN session = 1..Len(session) /\ DOMAIN entries = DOMAIN session /\ Len(session) \in Nat
      /\ \A i \in DOMAIN session : session[i] \in Support!Session /\ entries[i] \in Nat
  BY DEF SessionsInv
<1>2. ending \subseteq DOMAIN session /\ \A i \in ending : session[i].ended = None
  BY DEF Support!Open
<1>3. \A i \in ending : [session[i] EXCEPT !.ended = now] \in Support!Session
  BY <1>1, <1>2 DEF Support!Session
<1>4. /\ session' = [i \in DOMAIN session |-> IF i \in ending THEN [session[i] EXCEPT !.ended = now] ELSE session[i]]
      /\ session' \in [1..Len(session) -> Support!Session]
  BY <1>1, <1>3 DEF Support!End
<1>5. session' \in Seq(Support!Session) /\ Len(session') = Len(session) /\ DOMAIN session' = DOMAIN session
  BY <1>1, <1>4
<1>6. \A i \in DOMAIN session : /\ i \in ending => session'[i].ended = now
                                /\ i \notin ending => session'[i] = session[i]
                                /\ session'[i].expires = session[i].expires
  BY <1>1, <1>4 DEF Support!Session
<1>7. \A i \in ending : entries[i] = 0
  BY <1>1, <1>2 DEF SessionsInv
<1>8. /\ entries' \in [1..Len(session) -> Nat]
      /\ \A i \in DOMAIN session : entries'[i] = entries[i] \/ (i \in ending /\ entries'[i] = 1)
  <2>1. CASE entries' = entries
    BY <1>1, <2>1 DEF SessionsInv
  <2>2. CASE entries' = Support!Logged(ending)
    BY <1>1, <1>2, <1>7, <2>2 DEF Support!Logged
  <2> QED
    BY <2>1, <2>2
<1>9. entries' \in Seq(Nat) /\ Len(entries') = Len(session)
  BY <1>1, <1>8
<1>10. \A i \in DOMAIN session : entries'[i] <= 1 /\ (entries'[i] = 1 => session'[i].ended # None)
  BY <1>1, <1>6, <1>8, SupportConstants DEF SessionsInv
<1>11. Support!WithdrawalEnds'
  BY <1>5, <1>6, SupportConstants DEF SessionsInv, Support!WithdrawalEnds, Support!Live
<1>12. Support!Open' = Support!Open \ ending
  BY <1>5, <1>6, SupportConstants DEF Support!Open
<1> QED
  BY <1>5, <1>9, <1>10, <1>11, <1>12 DEF SessionsInv

\* One tab goes on; the sessions stay or more of them are there.
LEMMA TabGoesOn ==
  ASSUME TabsInv, NEW t \in Tabs, NEW q \in {Support!Idle} \cup Starting \cup Acting,
         tab' = [tab EXCEPT ![t] = q],
         \A u \in Tabs \ {t} : Holding(u) => tab[u].ending \subseteq Support!Open',
         q.op = "start" => IF q.pc = "ended"
                           THEN /\ q.ending \subseteq Support!Open'
                                /\ \A u \in Tabs \ {t} : Holding(u) => tab[u].ending \cap q.ending = {}
                           ELSE q.ending = {}
  PROVE  TabsInv'
<1>1. tab'[t] = q /\ \A u \in Tabs \ {t} : tab'[u] = tab[u]
  BY DEF TabsInv
<1>2. tab' \in [Tabs -> {Support!Idle} \cup Starting \cup Acting]
  BY DEF TabsInv
<1>3. ASSUME NEW u \in Tabs, tab'[u].op = "start"
      PROVE  IF tab'[u].pc = "ended" THEN tab'[u].ending \subseteq Support!Open' ELSE tab'[u].ending = {}
  BY <1>1, <1>3 DEF TabsInv, Holding
<1>4. ASSUME NEW u \in Tabs, NEW v \in Tabs, u # v, Holding(u)', Holding(v)'
      PROVE  tab'[u].ending \cap tab'[v].ending = {}
  <2>1. CASE u = t
    BY <1>1, <1>4, <2>1 DEF Holding
  <2>2. CASE v = t
    BY <1>1, <1>4, <2>2 DEF Holding
  <2>3. CASE u # t /\ v # t
    BY <1>1, <1>4, <2>3 DEF TabsInv, Holding
  <2> QED
    BY <2>1, <2>2, <2>3
<1> QED
  BY <1>2, <1>3, <1>4 DEF TabsInv

\* What other tabs hold is locked.
LEMMA HeldLocked ==
  ASSUME NEW u \in Tabs, Holding(u)
  PROVE  tab[u].ending \subseteq Support!Locked
BY DEF Holding, Support!Locked

\* What is open and what is known of the sessions, when no session changes.
LEMMA SessionsKept ==
  ASSUME SessionsInv, UNCHANGED <<session, entries, withdrawn>>, clock' \in {clock, clock + 1},
         until' \in Nat \cup {None}
  PROVE  SessionsInv' /\ Support!Open' = Support!Open
<1>1. \A i \in DOMAIN session : session[i].expires \in Nat
  <2>1. \A i \in DOMAIN session : session[i] \in Support!Session
    BY DEF SessionsInv
  <2> QED
    BY <2>1 DEF Support!Session
<1>2. Support!WithdrawalEnds'
  BY <1>1, SupportConstants DEF SessionsInv, Support!WithdrawalEnds, Support!Live
<1> QED
  BY <1>2 DEF SessionsInv, Support!Open

LEMMA StartSupportSessionStep ==
  ASSUME SupportInv, NEW t \in Tabs, NEW minutes \in Minutes, Support!StartSupportSession(t, minutes)
  PROVE  SupportInv'
<1>0. TabsInv /\ SessionsInv /\ ~written
  BY DEF SupportInv
<1>1. PICK q \in Starting : /\ tab' = [tab EXCEPT ![t] = q] /\ q.pc = "allowed" /\ q.ending = {}
  <2> DEFINE q == [op |-> "start", pc |-> "allowed", now |-> clock, minutes |-> minutes, expires |-> 0, ending |-> {}]
  <2>1. q \in Starting
    BY <1>0 DEF Starting, SessionsInv
  <2>2. tab' = [tab EXCEPT ![t] = q]
    BY DEF Support!StartSupportSession
  <2> QED
    BY <2>1, <2>2
<1>2. UNCHANGED <<clock, until, onStaff, isMember, session, grants, entries, withdrawn, written>>
  BY DEF Support!StartSupportSession
<1>3. SessionsInv' /\ Support!Open' = Support!Open
  BY <1>0, <1>2, SessionsKept DEF SessionsInv
<1>4. TabsInv'
  BY <1>0, <1>1, <1>3, TabGoesOn DEF TabsInv, Holding
<1> QED
  BY <1>0, <1>2, <1>3, <1>4 DEF SupportInv

LEMMA ReadGrantStep ==
  ASSUME SupportInv, NEW t \in Tabs, Support!ReadGrant(t)
  PROVE  SupportInv'
<1>0. TabsInv /\ SessionsInv /\ ~written
  BY DEF SupportInv
<1>1. /\ tab[t].op = "start" /\ tab[t].pc = "allowed"
      /\ UNCHANGED <<clock, until, onStaff, isMember, session, grants, entries, withdrawn, written>>
  BY DEF Support!ReadGrant
<1>2. tab[t] \in Starting /\ tab[t].ending = {}
  BY <1>0, <1>1 DEF TabsInv, Support!Idle, Acting
<1>3. SessionsInv' /\ Support!Open' = Support!Open
  BY <1>0, <1>1, SessionsKept DEF SessionsInv
<1>4. CASE until = None \/ until <= tab[t].now
  <2>1. tab' = [tab EXCEPT ![t] = Support!Idle]
    BY <1>0, <1>4 DEF Support!ReadGrant, TabsInv
  <2>2. Support!Idle.op # "start"
    BY DEF Support!Idle
  <2>3. TabsInv'
    BY <1>0, <1>3, <2>1, <2>2, TabGoesOn DEF TabsInv, Holding
  <2> QED
    BY <1>0, <1>1, <1>3, <2>3 DEF SupportInv
<1>5. CASE ~(until = None \/ until <= tab[t].now)
  <2> DEFINE q == [tab[t] EXCEPT !.pc = "granted",
                                 !.expires = Support!Earlier(tab[t].now + tab[t].minutes, until)]
  <2>1. tab' = [tab EXCEPT ![t] = q]
    BY <1>0, <1>5 DEF Support!ReadGrant, TabsInv
  <2>2. Support!Earlier(tab[t].now + tab[t].minutes, until) \in Nat
    <3>1. tab[t].now \in Nat /\ tab[t].minutes \in Nat /\ until \in Nat
      BY <1>0, <1>2, <1>5, SupportConstants DEF Starting, SessionsInv
    <3> QED
      BY <3>1 DEF Support!Earlier
  <2>3. q \in Starting /\ q.pc = "granted" /\ q.ending = {}
    BY <1>2, <2>2 DEF Starting
  <2> HIDE DEF q
  <2>4. TabsInv'
    BY <1>0, <1>3, <2>1, <2>3, TabGoesOn DEF TabsInv, Holding
  <2> QED
    BY <1>0, <1>1, <1>3, <2>4 DEF SupportInv
<1> QED
  BY <1>4, <1>5

LEMMA EndOthersStep ==
  ASSUME SupportInv, NEW t \in Tabs, Support!EndOthers(t)
  PROVE  SupportInv'
<1>0. TabsInv /\ SessionsInv /\ ~written
  BY DEF SupportInv
<1>1. /\ tab[t].op = "start" /\ tab[t].pc = "granted" /\ Support!Open \cap Support!Locked = {}
      /\ UNCHANGED <<clock, until, onStaff, isMember, session, grants, entries, withdrawn, written>>
  BY DEF Support!EndOthers, Support!Ending
<1>2. tab[t] \in Starting
  BY <1>0, <1>1 DEF TabsInv, Support!Idle, Acting
<1>3. SessionsInv' /\ Support!Open' = Support!Open
  BY <1>0, <1>1, SessionsKept DEF SessionsInv
<1> DEFINE q == [tab[t] EXCEPT !.pc = "ended", !.ending = Support!Open]
<1>4. tab' = [tab EXCEPT ![t] = q]
  BY <1>0 DEF Support!EndOthers, Support!Ending, TabsInv
<1>5. Support!Open \in SUBSET Nat
  BY <1>0 DEF Support!Open, SessionsInv
<1>6. q \in Starting /\ q.pc = "ended" /\ q.ending = Support!Open
  BY <1>2, <1>5 DEF Starting
<1>7. \A u \in Tabs \ {t} : Holding(u) => tab[u].ending \cap q.ending = {} /\ tab[u].ending \subseteq Support!Open
  BY <1>0, <1>1, <1>6, HeldLocked DEF TabsInv, Holding
<1> HIDE DEF q
<1>8. TabsInv'
  BY <1>0, <1>3, <1>4, <1>6, <1>7, TabGoesOn
<1> QED
  BY <1>0, <1>1, <1>3, <1>8 DEF SupportInv

LEMMA CommitStartStep ==
  ASSUME SupportInv, NEW t \in Tabs, Support!CommitStart(t)
  PROVE  SupportInv'
<1> DEFINE ending == tab[t].ending
           ended == Support!End(ending, tab[t].now)
           new == [expires |-> tab[t].expires, ended |-> None]
<1>0. TabsInv /\ SessionsInv /\ ~written
  BY DEF SupportInv
<1>1. /\ tab[t].op = "start" /\ tab[t].pc = "ended"
      /\ session' = Append(ended, new)
      /\ entries' = Append(Support!Logged(ending), 0)
      /\ tab' = [tab EXCEPT ![t] = Support!Idle]
      /\ UNCHANGED <<clock, until, onStaff, isMember, grants, withdrawn, written>>
  BY DEF Support!CommitStart
<1>2. tab[t] \in Starting /\ ending \subseteq Support!Open /\ new \in Support!Session
  BY <1>0, <1>1 DEF TabsInv, Support!Idle, Acting, Starting, Support!Session
<1>3. /\ DOMAIN session = 1..Len(session) /\ DOMAIN entries = DOMAIN session /\ Len(session) \in Nat
      /\ \A i \in DOMAIN session : session[i] \in Support!Session /\ entries[i] \in Nat
  BY <1>0 DEF SessionsInv
<1>4. ending \subseteq DOMAIN session /\ \A i \in ending : session[i].ended = None /\ entries[i] = 0
  BY <1>0, <1>2, <1>3 DEF Support!Open, SessionsInv
<1>5. /\ ended \in [1..Len(session) -> Support!Session]
      /\ \A i \in DOMAIN session : /\ i \in ending => ended[i].ended = tab[t].now
                                   /\ i \notin ending => ended[i] = session[i]
                                   /\ ended[i].expires = session[i].expires
  <2>1. tab[t].now \in Nat
    BY <1>2 DEF Starting
  <2>2. \A i \in DOMAIN session : /\ [session[i] EXCEPT !.ended = tab[t].now] \in Support!Session
                                  /\ [session[i] EXCEPT !.ended = tab[t].now].ended = tab[t].now
                                  /\ [session[i] EXCEPT !.ended = tab[t].now].expires = session[i].expires
    BY <1>3, <2>1 DEF Support!Session
  <2> QED
    BY <1>3, <2>2 DEF Support!End
<1>6. /\ Support!Logged(ending) \in [1..Len(session) -> Nat]
      /\ \A i \in DOMAIN session : Support!Logged(ending)[i] = IF i \in ending THEN 1 ELSE entries[i]
  BY <1>3, <1>4 DEF Support!Logged
<1>7. tab[t].now # None
  BY <1>2, SupportConstants DEF Starting
<1> HIDE DEF ended, new
<1>8. /\ ended \in Seq(Support!Session) /\ Len(ended) = Len(session)
      /\ Support!Logged(ending) \in Seq(Nat) /\ Len(Support!Logged(ending)) = Len(session)
  BY <1>3, <1>5, <1>6
<1>9. /\ session' \in Seq(Support!Session) /\ entries' \in Seq(Nat)
      /\ Len(session') = Len(session) + 1 /\ Len(entries') = Len(session) + 1
      /\ DOMAIN session' = 1..(Len(session) + 1)
      /\ \A i \in DOMAIN session : i \in DOMAIN session' /\ session'[i] = ended[i] /\ entries'[i] = Support!Logged(ending)[i]
      /\ session'[Len(session) + 1] = new /\ entries'[Len(session) + 1] = 0
  BY <1>1, <1>2, <1>3, <1>8
<1>10. \A i \in DOMAIN session' : i \in DOMAIN session \/ i = Len(session) + 1
  BY <1>3, <1>9
<1>11. SessionsInv'
  <2>1. ASSUME NEW i \in DOMAIN session' PROVE entries'[i] <= 1 /\ (entries'[i] = 1 => session'[i].ended # None)
    <3>1. CASE i \in DOMAIN session /\ i \in ending
      BY <1>5, <1>6, <1>7, <1>9, <3>1
    <3>2. CASE i \in DOMAIN session /\ i \notin ending
      BY <1>0, <1>5, <1>6, <1>9, <3>2 DEF SessionsInv
    <3>3. CASE i = Len(session) + 1
      BY <1>9, <3>3
    <3> QED
      BY <1>10, <3>1, <3>2, <3>3
  <2>2. ASSUME NEW i \in withdrawn PROVE i \in DOMAIN session' /\ ~(session'[i].ended = None /\ session'[i].expires > clock)
    <3>1. i \in DOMAIN session /\ ~(session[i].ended = None /\ session[i].expires > clock)
      BY <1>0 DEF SessionsInv, Support!WithdrawalEnds, Support!Live
    <3> QED
      BY <1>5, <1>7, <1>9, <3>1
  <2>3. Support!WithdrawalEnds'
    BY <1>1, <2>2 DEF Support!WithdrawalEnds, Support!Live
  <2> QED
    BY <1>0, <1>1, <1>9, <2>1, <2>2, <2>3 DEF SessionsInv
<1>12. \A u \in Tabs \ {t} : Holding(u) => tab[u].ending \subseteq Support!Open'
  <2> SUFFICES ASSUME NEW u \in Tabs \ {t}, Holding(u), NEW i \in tab[u].ending PROVE i \in Support!Open'
    OBVIOUS
  <2>1. i \in Support!Open /\ i \notin ending
    BY <1>0, <1>1 DEF TabsInv, Holding
  <2> QED
    BY <1>5, <1>9, <2>1 DEF Support!Open
<1>13. Support!Idle.op # "start"
  BY DEF Support!Idle
<1>14. TabsInv'
  BY <1>0, <1>1, <1>12, <1>13, TabGoesOn
<1> QED
  BY <1>0, <1>1, <1>11, <1>14 DEF SupportInv

LEMMA EndSupportSessionStep ==
  ASSUME SupportInv, NEW t \in Tabs, Support!EndSupportSession(t)
  PROVE  SupportInv'
<1>0. TabsInv /\ SessionsInv /\ ~written
  BY DEF SupportInv
<1>1. /\ Support!Open \cap Support!Locked = {}
      /\ session' = Support!End(Support!Open, clock) /\ entries' = Support!Logged(Support!Open)
      /\ UNCHANGED <<clock, until, onStaff, isMember, tab, grants, withdrawn, written>>
  BY DEF Support!EndSupportSession, Support!Ending
<1>2. SessionsInv' /\ Support!Open' = Support!Open \ Support!Open
  BY <1>0, <1>1, EndKeeps DEF SessionsInv
<1>3. \A u \in Tabs : Holding(u) => tab[u].ending = {}
  BY <1>0, <1>1, HeldLocked DEF TabsInv, Holding
<1>4. TabsInv'
  BY <1>0, <1>1, <1>3 DEF TabsInv, Holding
<1> QED
  BY <1>0, <1>1, <1>2, <1>4 DEF SupportInv

LEMMA WithdrawStep ==
  ASSUME SupportInv, Support!WithdrawSupportAccess
  PROVE  SupportInv'
<1> DEFINE ending == Support!Withdrawn
<1>0. TabsInv /\ SessionsInv /\ ~written
  BY DEF SupportInv
<1>1. /\ ending \cap Support!Locked = {} /\ until' = None
      /\ session' = Support!End(ending, clock) /\ withdrawn' = withdrawn \cup DOMAIN session
      /\ UNCHANGED <<clock, onStaff, isMember, tab, entries, written>>
  BY DEF Support!WithdrawSupportAccess
<1>2. /\ ending \subseteq Support!Open /\ ending \subseteq DOMAIN session
      /\ \A i \in DOMAIN session : i \in ending \/ ~Support!Live(i)
  BY DEF Support!Withdrawn, Support!Open, Support!Live
\* As if nothing were withdrawn; then everything there is has ended or run out.
<1>3. /\ DOMAIN session = 1..Len(session) /\ DOMAIN entries = DOMAIN session /\ Len(session) \in Nat
      /\ \A i \in DOMAIN session : session[i] \in Support!Session /\ entries[i] \in Nat
      /\ clock \in Nat
  BY <1>0 DEF SessionsInv
<1> HIDE DEF ending
<1>4. /\ session' \in [1..Len(session) -> Support!Session]
      /\ \A i \in DOMAIN session : /\ i \in ending => session'[i].ended = clock
                                   /\ i \notin ending => session'[i] = session[i]
  <2>1. \A i \in DOMAIN session : /\ [session[i] EXCEPT !.ended = clock] \in Support!Session
                                  /\ [session[i] EXCEPT !.ended = clock].ended = clock
    BY <1>3 DEF Support!Session
  <2> QED
    BY <1>1, <1>3, <2>1 DEF Support!End
<1>5. session' \in Seq(Support!Session) /\ Len(session') = Len(session) /\ DOMAIN session' = DOMAIN session
  BY <1>3, <1>4
<1>6. \A i \in DOMAIN session : ~(session'[i].ended = None /\ session'[i].expires > clock)
  BY <1>2, <1>3, <1>4, SupportConstants DEF Support!Live
<1>7. withdrawn' \subseteq DOMAIN session' /\ Support!WithdrawalEnds'
  BY <1>0, <1>1, <1>5, <1>6 DEF SessionsInv, Support!WithdrawalEnds, Support!Live
<1>8. \A i \in DOMAIN session : entries[i] <= 1 /\ (entries[i] = 1 => session'[i].ended # None)
  BY <1>0, <1>3, <1>4, SupportConstants DEF SessionsInv
<1>9. SessionsInv'
  BY <1>0, <1>1, <1>5, <1>7, <1>8 DEF SessionsInv
<1>10. \A u \in Tabs : Holding(u) => tab[u].ending \subseteq Support!Open'
  <2> SUFFICES ASSUME NEW u \in Tabs, Holding(u), NEW i \in tab[u].ending PROVE i \in Support!Open'
    OBVIOUS
  <2>1. i \in Support!Open /\ i \notin ending
    BY <1>0, <1>1, HeldLocked DEF TabsInv, Holding
  <2> QED
    BY <1>4, <1>5, <2>1 DEF Support!Open
<1>11. TabsInv'
  BY <1>0, <1>1, <1>10 DEF TabsInv, Holding
<1> QED
  BY <1>0, <1>1, <1>9, <1>11 DEF SupportInv

\* The steps that change no session and start or end none.
LEMMA OtherSteps ==
  ASSUME SupportInv,
         \/ \E d \in Days : Support!GrantSupportAccess(d)
         \/ Support!SetStaff \/ Support!SetMember \/ Support!Tick
         \/ UNCHANGED support
  PROVE  SupportInv'
<1>0. TabsInv /\ SessionsInv /\ ~written
  BY DEF SupportInv
<1>1. /\ UNCHANGED <<session, tab, entries, withdrawn, written>>
      /\ clock' \in {clock, clock + 1} /\ until' \in Nat \cup {None}
  BY <1>0, SupportConstants
  DEF Support!GrantSupportAccess, Support!SetStaff, Support!SetMember, Support!Tick, support, SessionsInv
<1>2. SessionsInv' /\ Support!Open' = Support!Open
  BY <1>0, <1>1, SessionsKept
<1>3. TabsInv'
  BY <1>0, <1>1, <1>2 DEF TabsInv, Holding
<1> QED
  BY <1>0, <1>1, <1>2, <1>3 DEF SupportInv

\* The guards of an action's body see the session that its start did not.
LEMMA ActionSteps ==
  ASSUME SupportInv, NEW t \in Tabs,
         (\E kind \in Support!Kinds : Support!RunAction(t, kind)) \/ Support!RunBody(t)
  PROVE  SupportInv'
<1>0. TabsInv /\ SessionsInv /\ ~written
  BY DEF SupportInv
<1>1. UNCHANGED <<clock, until, onStaff, isMember, session, grants, entries, withdrawn>>
  BY DEF Support!RunAction, Support!RunBody
<1>2. SessionsInv' /\ Support!Open' = Support!Open
  BY <1>0, <1>1, SessionsKept DEF SessionsInv
<1>3. PICK q \in {Support!Idle} \cup Acting : tab' = [tab EXCEPT ![t] = q]
  BY DEF Support!RunAction, Support!RunBody, Acting
<1>4. q.op # "start"
  BY DEF Support!Idle, Acting
<1>5. TabsInv'
  BY <1>0, <1>2, <1>3, <1>4, TabGoesOn DEF TabsInv, Holding
<1>6. ~written'
  <2>1. CASE Support!RunBody(t)
    BY <1>0, <2>1 DEF Support!RunBody, Support!ReadOnly
  <2>2. CASE \E kind \in Support!Kinds : Support!RunAction(t, kind)
    BY <1>0, <2>2 DEF Support!RunAction
  <2> QED
    BY <2>1, <2>2
<1> QED
  BY <1>2, <1>5, <1>6 DEF SupportInv

LEMMA SupportInit ==
  ASSUME Support!Init
  PROVE  SupportInv
<1>1. /\ clock = 0 /\ until \in Nat \cup {None} /\ session = << >> /\ entries = << >> /\ withdrawn = {}
      /\ tab = [t \in Tabs |-> Support!Idle] /\ ~written
  BY SupportConstants DEF Support!Init
<1>2. SessionsInv
  BY <1>1 DEF SessionsInv, Support!WithdrawalEnds
<1>3. TabsInv
  BY <1>1 DEF TabsInv, Holding, Support!Idle
<1> QED
  BY <1>1, <1>2, <1>3 DEF SupportInv

LEMMA SupportStep ==
  ASSUME SupportInv, [MCNext]_<<focus, vars, list, support>>
  PROVE  SupportInv'
<1>1. Support!Next \/ UNCHANGED support
  BY DEF MCNext, Viewing, Pages, Hiring, Focus, Support!Next, support
<1>2. CASE UNCHANGED support
  BY <1>2, OtherSteps
<1>3. CASE Support!Next
  BY <1>3, StartSupportSessionStep, ReadGrantStep, EndOthersStep, CommitStartStep, EndSupportSessionStep,
     WithdrawStep, ActionSteps, OtherSteps DEF Support!Next
<1> QED
  BY <1>1, <1>2, <1>3

\* A withdrawn session shows the workspace no more, each end is entered once, and
\* nothing is written as the person viewed, however many tabs start, end and act.
THEOREM SupportStaysBounded == MCSpec => []SupportBounded
<1>1. MCInit => SupportInv
  BY SupportInit DEF MCInit
<1>2. SupportInv /\ [MCNext]_<<focus, vars, list, support>> => SupportInv'
  BY SupportStep
<1>3. SupportInv => SupportBounded
  BY DEF SupportInv, SessionsInv, SupportBounded, Support!SupportBounded, Support!WithdrawalEnds,
     Support!EndedOnce, Support!WorkspaceReadOnly
<1> QED
  BY <1>1, <1>2, <1>3, PTL DEF MCSpec
-----------------------------------------------------------------------------
(* Lists: the order of the rows, and what a query finds. *)

Scans == {"asc", "desc"}

LEMMA ListConstants ==
  /\ ListIds \subseteq Nat /\ IsFiniteSet(ListIds) /\ Keys \subseteq Nat /\ PageSize \in Nat \ {0}
  /\ MaxListChanges \in Nat /\ None \notin Nat /\ Absent \notin Nat /\ None # Absent /\ None \notin Lists!Cursor
BY InstanceAssumption DEF Lists!KeysetAssumption, Lists!IsFiniteSet, IsFiniteSet

\* Rows are in one order, forwards and back.
LEMMA RowOrder ==
  ASSUME Lists!TypeOK, NEW scan \in Scans
  PROVE  /\ \A a, b \in Lists!Rows : a = b \/ Lists!OrderBy(scan, a, b) \/ Lists!OrderBy(scan, b, a)
         /\ \A a, b \in Lists!Rows : ~(Lists!OrderBy(scan, a, b) /\ Lists!OrderBy(scan, b, a))
         /\ \A a, b, c \in Lists!Rows :
              Lists!OrderBy(scan, a, b) /\ Lists!OrderBy(scan, b, c) => Lists!OrderBy(scan, a, c)
<1>1. \A a \in Lists!Rows : a \in Nat /\ a # None /\ listed[a] \in Nat \cup {None} /\ (listed[a] # None => listed[a] \in Nat)
  BY ListConstants DEF Lists!TypeOK, Lists!Rows
<1>2. CASE scan = "asc"
  BY <1>1, <1>2 DEF Lists!OrderBy, Lists!Past
<1>3. CASE scan = "desc"
  BY <1>1, <1>3 DEF Lists!OrderBy, Lists!Past
<1> QED
  BY <1>2, <1>3 DEF Scans

LEMMA OrderBack ==
  ASSUME Lists!TypeOK, NEW scan \in Scans
  PROVE  /\ Lists!FlipDirection(scan) \in Scans
         /\ \A a, b \in Lists!Rows : Lists!OrderBy(Lists!FlipDirection(scan), a, b) <=> Lists!OrderBy(scan, b, a)
<1>1. \A a \in Lists!Rows : a \in Nat /\ a # None /\ listed[a] \in Nat \cup {None} /\ (listed[a] # None => listed[a] \in Nat)
  BY ListConstants DEF Lists!TypeOK, Lists!Rows
<1>2. CASE scan = "asc"
  BY <1>1, <1>2 DEF Lists!OrderBy, Lists!Past, Lists!FlipDirection, Scans
<1>3. CASE scan = "desc"
  BY <1>1, <1>3 DEF Lists!OrderBy, Lists!Past, Lists!FlipDirection, Scans
<1> QED
  BY <1>2, <1>3 DEF Scans

\* The condition on the rows past a cursor agrees with the order of the query.
LEMMA SeekOrder ==
  ASSUME Lists!TypeOK, NEW scan \in Scans
  PROVE  /\ \A a, b \in Lists!Rows : Lists!SeekWhere(Lists!CursorOf(a), scan, b) <=> Lists!OrderBy(scan, a, b)
         /\ \A c \in Lists!Cursor, a, b \in Lists!Rows :
              Lists!SeekWhere(c, scan, a) /\ Lists!OrderBy(scan, a, b) => Lists!SeekWhere(c, scan, b)
<1>1. \A a \in Lists!Rows : a \in Nat /\ a # None /\ listed[a] \in Nat \cup {None} /\ (listed[a] # None => listed[a] \in Nat)
  BY ListConstants DEF Lists!TypeOK, Lists!Rows
<1>2. \A c \in Lists!Cursor : c.id \in Nat /\ c.id # None /\ c.key \in Nat \cup {None} /\ (c.key # None => c.key \in Nat)
  BY ListConstants DEF Lists!Cursor
<1>3. \A a, b \in Lists!Rows : Lists!SeekWhere(Lists!CursorOf(a), scan, b) <=> Lists!OrderBy(scan, a, b)
  BY <1>1 DEF Lists!SeekWhere, Lists!OrderBy, Lists!Past, Lists!CursorOf
<1>4. ASSUME NEW c \in Lists!Cursor, NEW a \in Lists!Rows, NEW b \in Lists!Rows,
             Lists!SeekWhere(c, scan, a), Lists!OrderBy(scan, a, b)
      PROVE  Lists!SeekWhere(c, scan, b)
  <2>1. CASE scan = "asc"
    BY <1>1, <1>2, <1>4, <2>1 DEF Lists!SeekWhere, Lists!OrderBy, Lists!Past
  <2>2. CASE scan = "desc"
    BY <1>1, <1>2, <1>4, <2>2 DEF Lists!SeekWhere, Lists!OrderBy, Lists!Past
  <2> QED
    BY <2>1, <2>2 DEF Scans
<1> QED
  BY <1>3, <1>4

LEMMA LeastNumber ==
  ASSUME NEW S \in SUBSET Nat, S # {}
  PROVE  \E m \in S : \A k \in S : m <= k
<1> DEFINE R == {ss \in Nat \X Nat : ss[1] < ss[2]}
<1>1. IsWellFoundedOn(R, Nat)
  BY NatLessThanWellFounded DEF OpToRel
<1>2. PICK m \in S : \A k \in S : <<k, m>> \notin R
  <2> HIDE DEF R
  <2> QED
    BY <1>1, WFMin
<1>3. ASSUME NEW k \in S PROVE m <= k
  <2>1. k < m => <<k, m>> \in R
    OBVIOUS
  <2> QED
    BY <1>2, <2>1
<1> QED
  BY <1>3

\* One row comes before all the others.
LEMMA FirstRow ==
  ASSUME Lists!TypeOK, NEW scan \in Scans, NEW where \in SUBSET Lists!Rows, where # {}
  PROVE  \E a \in where : \A b \in where \ {a} : Lists!OrderBy(scan, a, b)
<1> DEFINE HasFirst(T) == \E a \in T : \A b \in T \ {a} : Lists!OrderBy(scan, a, b)
           Sizes == {n \in Nat : \E T \in SUBSET where : Cardinality(T) = n /\ T # {} /\ ~HasFirst(T)}
<1>1. \A T \in SUBSET where : IsFiniteSet(T) /\ Cardinality(T) \in Nat
  BY ListConstants, FS_Subset, FS_CardinalityType DEF Lists!Rows
<1>2. ASSUME Sizes # {} PROVE FALSE
  <2>1. PICK n \in Sizes : \A k \in Sizes : n <= k
    <3>1. Sizes \in SUBSET Nat
      OBVIOUS
    <3> HIDE DEF Sizes
    <3> QED
      BY <1>2, <3>1, LeastNumber
  <2>2. PICK T \in SUBSET where : Cardinality(T) = n /\ T # {} /\ ~HasFirst(T)
    BY <2>1
  <2>3. PICK x \in T : TRUE
    BY <2>2
  <2>4. n \in Nat /\ Cardinality(T \ {x}) = n - 1 /\ Cardinality(T \ {x}) \in Nat
    BY <1>1, <2>1, <2>2, <2>3, FS_RemoveElement
  <2>5. CASE T \ {x} = {}
    BY <2>2, <2>3, <2>5
  <2>6. CASE T \ {x} # {}
    <3>1. HasFirst(T \ {x})
      <4>1. T \ {x} \in SUBSET where
        OBVIOUS
      <4>2. ~HasFirst(T \ {x}) => n - 1 \in Sizes
        <5> HIDE DEF HasFirst
        <5> QED
          BY <2>4, <2>6, <4>1
      <4> HIDE DEF Sizes, HasFirst
      <4> QED
        BY <2>1, <2>4, <4>2
    <3>2. PICK a \in T \ {x} : \A b \in (T \ {x}) \ {a} : Lists!OrderBy(scan, a, b)
      BY <3>1
    <3>3. a \in Lists!Rows /\ x \in Lists!Rows /\ T \subseteq Lists!Rows
      BY <2>3
    <3>4. CASE Lists!OrderBy(scan, a, x)
      BY <2>2, <2>3, <3>2, <3>4
    <3>5. CASE Lists!OrderBy(scan, x, a)
      <4>1. \A b \in T \ {x} : Lists!OrderBy(scan, x, b)
        BY <3>2, <3>3, <3>5, RowOrder
      <4> QED
        BY <2>2, <2>3, <4>1
    <3> QED
      BY <3>2, <3>3, <3>4, <3>5, RowOrder
  <2> QED
    BY <2>5, <2>6
<1>3. ASSUME ~HasFirst(where) PROVE FALSE
  <2>1. Cardinality(where) \in Sizes
    <3> HIDE DEF HasFirst
    <3> QED
      BY <1>1, <1>3
  <2> QED
    BY <1>2, <2>1
<1> QED
  BY <1>3


\* The place of a row among the rows a query finds.
Place(where, scan, i) == Cardinality({j \in where : Lists!OrderBy(scan, j, i)}) + 1

LEMMA Places ==
  ASSUME Lists!TypeOK, NEW scan \in Scans, NEW where \in SUBSET Lists!Rows
  PROVE  /\ \A i \in where : Place(where, scan, i) \in 1..Cardinality(where)
         /\ \A i, j \in where : Place(where, scan, i) < Place(where, scan, j) => Lists!OrderBy(scan, i, j)
         /\ \A i, j \in where : Place(where, scan, i) = Place(where, scan, j) => i = j
         /\ \A n \in 1..Cardinality(where) : \E i \in where : Place(where, scan, i) = n
<1> DEFINE before(i) == {j \in where : Lists!OrderBy(scan, j, i)}
           place(i) == Cardinality(before(i)) + 1
<1>1. \A T \in SUBSET where : IsFiniteSet(T) /\ Cardinality(T) \in Nat
  BY ListConstants, FS_Subset, FS_CardinalityType DEF Lists!Rows
<1>2. \A S, T \in SUBSET where : S \subseteq T /\ S # T => Cardinality(S) < Cardinality(T)
  <2> SUFFICES ASSUME NEW S \in SUBSET where, NEW T \in SUBSET where, S \subseteq T, S # T
               PROVE  Cardinality(S) < Cardinality(T)
    OBVIOUS
  <2>1. Cardinality(S) <= Cardinality(T) /\ Cardinality(S) # Cardinality(T)
    BY <1>1, FS_Subset
  <2> QED
    BY <1>1, <2>1
<1>3. \A i \in where : i \notin before(i) /\ before(i) \subseteq where
  BY RowOrder
<1>4. ASSUME NEW i \in where PROVE place(i) \in 1..Cardinality(where)
  <2>1. Cardinality(before(i)) < Cardinality(where)
    BY <1>2, <1>3
  <2> QED
    BY <1>1, <2>1
<1>5. ASSUME NEW i \in where, NEW j \in where, Lists!OrderBy(scan, i, j) PROVE place(i) < place(j)
  <2>1. before(i) \subseteq before(j)
    BY <1>5, RowOrder
  <2>2. i \in before(j) /\ i \notin before(i)
    BY <1>3, <1>5
  <2>3. Cardinality(before(i)) < Cardinality(before(j))
    <3> HIDE DEF before
    <3> QED
      BY <1>2, <1>3, <2>1, <2>2
  <2> QED
    BY <1>1, <2>3
<1>6. ASSUME NEW i \in where, NEW j \in where, place(i) < place(j) PROVE Lists!OrderBy(scan, i, j)
  <2>1. place(i) \in Nat /\ place(j) \in Nat
    BY <1>1
  <2>2. i # j /\ ~Lists!OrderBy(scan, j, i)
    <3> HIDE DEF place
    <3> QED
      BY <1>5, <1>6, <2>1
  <2> QED
    BY <2>2, RowOrder
<1>7. \A i, j \in where : place(i) = place(j) => i = j
  <2> HIDE DEF place
  <2>1. \A i, j \in where : Lists!OrderBy(scan, i, j) => place(i) # place(j)
    BY <1>4, <1>5
  <2> QED
    BY <2>1, RowOrder
<1>8. ASSUME NEW n \in 1..Cardinality(where) PROVE \E i \in where : place(i) = n
  \* The rows of lower places are fewer than n, and the first of the others comes just after.
  <2> DEFINE low == {i \in where : place(i) < n}
  <2>1. PICK k \in Nat : k = Cardinality(low) /\ k < n
    <3>1. low \in SUBSET where /\ \A i, j \in low : place(i) = place(j) => i = j
      BY <1>7
    <3>2. [i \in low |-> place(i)] \in Injection(low, 1..(n - 1))
      <4>1. \A i \in low : place(i) \in 1..(n - 1)
        <5> HIDE DEF place
        <5> QED
          BY <1>4
      <4> HIDE DEF low, place
      <4> QED
        BY <3>1, <4>1 DEF Injection, IsInjective
    <3>3. IsFiniteSet(1..(n - 1)) /\ Cardinality(1..(n - 1)) = n - 1
      BY FS_Interval
    <3>4. Cardinality(low) <= n - 1
      <4> HIDE DEF low, place
      <4> QED
        BY <3>2, <3>3, FS_Injection
    <3> HIDE DEF low
    <3>5. Cardinality(low) \in Nat
      BY <1>1, <3>1
    <3> QED
      BY <3>4, <3>5
  <2>2. where \ low # {}
    <3>1. Cardinality(where) \in Nat /\ Cardinality(low) < Cardinality(where)
      <4> HIDE DEF low
      <4> QED
        BY <1>1, <2>1
    <3>2. low # where
      <4> HIDE DEF low
      <4> QED
        BY <3>1
    <3> QED
      BY <3>2
  <2>3. PICK a \in where \ low : \A b \in (where \ low) \ {a} : Lists!OrderBy(scan, a, b)
    <3>1. where \ low \in SUBSET Lists!Rows
      OBVIOUS
    <3> HIDE DEF low
    <3> QED
      BY <2>2, <3>1, FirstRow
  <2>4. before(a) = low
    <3>1. ASSUME NEW b \in low PROVE b \in before(a)
      <4>1. place(b) < place(a)
        <5>1. place(b) \in Nat /\ place(a) \in Nat /\ place(b) < n /\ ~(place(a) < n)
          BY <1>1, <2>3, <3>1
        <5> HIDE DEF place
        <5> QED
          BY <5>1
      <4> HIDE DEF place
      <4> QED
        BY <1>6, <3>1, <4>1
    <3>2. ASSUME NEW b \in before(a) PROVE b \in low
      <4>1. b \in where /\ Lists!OrderBy(scan, b, a) /\ a \in where
        BY <3>2
      <4> HIDE DEF low
      <4> QED
        BY <2>3, <4>1, RowOrder
    <3> QED
      BY <3>1, <3>2
  <2>5. place(a) = k + 1
    <3> HIDE DEF before, low
    <3> QED
      BY <2>1, <2>4
  <2>6. ~(place(a) < n) /\ a \in where
    BY <2>3
  <2> HIDE DEF place
  <2> QED
    BY <2>1, <2>5, <2>6
<1> QED
  BY <1>4, <1>6, <1>7, <1>8 DEF Place

\* What a query that takes so many rows may answer.
Found(s, where, scan, take) ==
  /\ s \in Seq(where) /\ Len(s) <= take
  /\ \A m, n \in 1..Len(s) : m < n => Lists!OrderBy(scan, s[m], s[n])
  /\ \A i \in where : (\A n \in 1..Len(s) : s[n] # i) =>
       Len(s) = take /\ \A n \in 1..Len(s) : Lists!OrderBy(scan, s[n], i)

LEMMA Fetched ==
  ASSUME Lists!TypeOK, NEW scan \in Scans, NEW where \in SUBSET Lists!Rows, NEW take \in Nat
  PROVE  Found(Lists!Fetch(where, scan, take), where, scan, take)
<1> DEFINE s == Lists!Fetch(where, scan, take)
           size == Cardinality(where)
           len == IF size < take THEN size ELSE take
<1>1. IsFiniteSet(where) /\ size \in Nat
  BY ListConstants, FS_Subset, FS_CardinalityType DEF Lists!Rows
<1>2. s = [n \in 1..len |-> CHOOSE i \in where : Place(where, scan, i) = n]
  BY DEF Lists!Fetch, Place, Lists!Cardinality, Cardinality
<1> HIDE DEF s
<1>3. len \in Nat /\ len <= take /\ len <= size /\ (len = take \/ len = size)
  BY <1>1
<1>4. \A i \in where : Place(where, scan, i) \in 1..size
  BY Places
<1> HIDE DEF size
<1>5. \A n \in 1..len : \E i \in where : Place(where, scan, i) = n
  BY <1>1, <1>3, Places DEF size
<1> HIDE DEF len
<1>6. \A n \in 1..len : s[n] \in where /\ Place(where, scan, s[n]) = n
  BY <1>2, <1>5
<1>7. s \in Seq(where) /\ Len(s) = len
  BY <1>2, <1>3, <1>6
<1>8. ASSUME NEW m \in 1..len, NEW n \in 1..len, m < n PROVE Lists!OrderBy(scan, s[m], s[n])
  BY <1>6, <1>8, Places
<1>9. ASSUME NEW i \in where, \A n \in 1..len : s[n] # i
      PROVE  len = take /\ \A n \in 1..len : Lists!OrderBy(scan, s[n], i)
  <2>1. PICK p \in 1..size : p = Place(where, scan, i)
    BY <1>4
  <2>2. ASSUME p \in 1..len PROVE FALSE
    <3>1. s[p] # i /\ s[p] \in where /\ Place(where, scan, s[p]) = p
      BY <1>6, <1>9, <2>2
    <3> QED
      BY <2>1, <3>1, Places
  <2>3. p > len /\ len # size
    BY <1>1, <1>3, <2>1, <2>2
  <2>4. ASSUME NEW n \in 1..len PROVE Lists!OrderBy(scan, s[n], i)
    <3>1. s[n] \in where /\ Place(where, scan, s[n]) = n
      BY <1>6
    <3>2. n < p
      BY <1>1, <1>3, <2>1, <2>3
    <3> QED
      BY <2>1, <3>1, <3>2, Places
  <2> QED
    BY <1>3, <2>3, <2>4
<1> QED
  BY <1>3, <1>7, <1>8, <1>9 DEF Found, s
-----------------------------------------------------------------------------
(* Lists: pages and batches. *)

In(i, s) == \E n \in 1..Len(s) : s[n] = i

\* A row is among those found unless it comes after the last of them.
LEMMA UpToLast ==
  ASSUME Lists!TypeOK, NEW scan \in Scans, NEW where \in SUBSET Lists!Rows, NEW take, NEW s,
         Found(s, where, scan, take)
  PROVE  /\ \A m, n \in 1..Len(s) : s[m] = s[n] => m = n
         /\ Len(s) > 0 => \A i \in where : In(i, s) <=> ~Lists!OrderBy(scan, s[Len(s)], i)
<1>1. /\ s \in Seq(where) /\ Len(s) \in Nat
      /\ \A n \in 1..Len(s) : s[n] \in where /\ s[n] \in Lists!Rows
      /\ \A m, n \in 1..Len(s) : m < n => Lists!OrderBy(scan, s[m], s[n])
      /\ \A i \in where : ~In(i, s) => \A n \in 1..Len(s) : Lists!OrderBy(scan, s[n], i)
  BY DEF Found, In
<1>2. ASSUME NEW m \in 1..Len(s), NEW n \in 1..Len(s), s[m] = s[n] PROVE m = n
  <2>1. m < n \/ n < m \/ m = n
    BY <1>1
  <2> QED
    BY <1>1, <1>2, <2>1, RowOrder
<1>3. ASSUME Len(s) > 0, NEW i \in where PROVE In(i, s) <=> ~Lists!OrderBy(scan, s[Len(s)], i)
  <2>1. Len(s) \in 1..Len(s)
    BY <1>1, <1>3
  <2>2. CASE In(i, s)
    <3>1. PICK n \in 1..Len(s) : s[n] = i
      BY <2>2 DEF In
    <3>2. n < Len(s) \/ n = Len(s)
      BY <1>1
    <3> QED
      BY <1>1, <2>1, <2>2, <3>1, <3>2, RowOrder
  <2> QED
    BY <1>1, <2>1, <2>2
<1> QED
  BY <1>2, <1>3

\* The rows shown of those fetched, one more than a page.
LEMMA ItemsFound ==
  ASSUME NEW where, NEW scan, NEW rows, Found(rows, where, scan, PageSize + 1)
  PROVE  /\ Found(Lists!Items(rows), where, scan, PageSize)
         /\ Lists!More(rows) \/ \A i \in where : In(i, Lists!Items(rows))
         /\ rows # << >> => Len(Lists!Items(rows)) > 0
         /\ Lists!More(rows) => Len(Lists!Items(rows)) = PageSize
<1> DEFINE items == Lists!Items(rows)
<1>0. PageSize \in Nat \ {0}
  BY ListConstants
<1>1. /\ rows \in Seq(where) /\ Len(rows) \in Nat /\ Len(rows) <= PageSize + 1
      /\ \A m, n \in 1..Len(rows) : m < n => Lists!OrderBy(scan, rows[m], rows[n])
      /\ \A i \in where : (\A n \in 1..Len(rows) : rows[n] # i) =>
           Len(rows) = PageSize + 1 /\ \A n \in 1..Len(rows) : Lists!OrderBy(scan, rows[n], i)
  BY DEF Found
<1>2. CASE Lists!More(rows)
  <2>1. Len(rows) = PageSize + 1
    BY <1>0, <1>1, <1>2 DEF Lists!More
  <2>2. items = SubSeq(rows, 1, PageSize)
    BY <1>2 DEF Lists!Items
  <2>3. items \in Seq(where) /\ Len(items) = PageSize /\ \A n \in 1..PageSize : items[n] = rows[n]
    BY <1>0, <1>1, <2>1, <2>2
  <2> HIDE DEF items
  <2>4. ASSUME NEW i \in where, \A n \in 1..PageSize : items[n] # i, NEW n \in 1..PageSize
        PROVE  Lists!OrderBy(scan, items[n], i)
    <3>1. n \in 1..Len(rows) /\ PageSize + 1 \in 1..Len(rows) /\ n < PageSize + 1
      BY <1>0, <2>1
    <3>2. CASE \E m \in 1..Len(rows) : rows[m] = i
      <4>1. PICK m \in 1..Len(rows) : rows[m] = i
        BY <3>2
      <4>2. m \notin 1..PageSize
        BY <2>3, <2>4, <4>1
      <4>3. m = PageSize + 1
        BY <1>0, <2>1, <4>2
      <4> QED
        BY <1>1, <2>3, <3>1, <4>1, <4>3
    <3>3. CASE \A m \in 1..Len(rows) : rows[m] # i
      BY <1>1, <2>3, <3>1, <3>3
    <3> QED
      BY <3>2, <3>3
  <2> QED
    BY <1>0, <1>1, <1>2, <2>1, <2>3, <2>4 DEF Found, items
<1>3. CASE ~Lists!More(rows)
  <2>1. Len(rows) <= PageSize
    BY <1>0, <1>1, <1>3 DEF Lists!More
  <2>2. items = rows
    BY <1>1, <1>3 DEF Lists!Items
  <2>3. \A i \in where : In(i, rows)
    BY <1>0, <1>1, <2>1 DEF In
  <2> QED
    BY <1>1, <1>3, <2>1, <2>2, <2>3 DEF Found, In
<1> QED
  BY <1>2, <1>3

\* The rows shown are those up to the cursor, or all of them.
GoesOnFrom(s, where, next) ==
  \/ next = None /\ \A i \in where : In(i, s)
  \/ next \in Lists!Cursor /\ Len(s) > 0 /\ next = Lists!CursorOf(s[Len(s)])

LEMMA CursorTypes ==
  ASSUME Lists!TypeOK, NEW i \in Lists!Rows
  PROVE  Lists!CursorOf(i) \in Lists!Cursor /\ Lists!CursorOf(i) # None
<1>1. Lists!CursorOf(i) \in Lists!Cursor
  BY DEF Lists!TypeOK, Lists!Rows, Lists!CursorOf, Lists!Cursor
<1> QED
  BY <1>1, ListConstants

LEMMA PageGoesOn ==
  ASSUME Lists!TypeOK, NEW scan \in Scans, NEW where \in SUBSET Lists!Rows, NEW rows,
         Found(rows, where, scan, PageSize + 1)
  PROVE  GoesOnFrom(Lists!Items(rows), where,
                 IF Lists!More(rows) THEN Lists!CursorOf(Lists!Last(Lists!Items(rows))) ELSE None)
<1> DEFINE items == Lists!Items(rows)
<1>1. /\ Found(items, where, scan, PageSize)
      /\ Lists!More(rows) => Len(items) = PageSize
      /\ Lists!More(rows) \/ \A i \in where : In(i, items)
  BY ItemsFound
<1> HIDE DEF items
<1>2. CASE Lists!More(rows)
  <2>1. Len(items) > 0 /\ items[Len(items)] \in Lists!Rows
    BY <1>1, <1>2, ListConstants DEF Found
  <2> QED
    BY <1>2, <2>1, CursorTypes DEF GoesOnFrom, Lists!Last, items
<1> QED
  BY <1>1, <1>2 DEF GoesOnFrom, items

LEMMA FirstPageFacts ==
  ASSUME Lists!TypeOK
  PROVE  /\ Found(Lists!FirstPage.items, Lists!Rows, view.direction, PageSize)
         /\ GoesOnFrom(Lists!FirstPage.items, Lists!Rows, Lists!FirstPage.next)
         /\ Lists!FirstPage.prev = None
         /\ Lists!FirstPage \in [items: Seq(ListIds), prev: Lists!Cursor \cup {None}, next: Lists!Cursor \cup {None}]
<1> DEFINE rows == Lists!Fetch(Lists!Rows, view.direction, PageSize + 1)
<1>1. view.direction \in Scans /\ Lists!Rows \in SUBSET Lists!Rows /\ Lists!Rows \subseteq ListIds /\ PageSize + 1 \in Nat
  BY ListConstants DEF Lists!TypeOK, Scans, Lists!Rows
<1>2. Found(rows, Lists!Rows, view.direction, PageSize + 1)
  BY <1>1, Fetched
<1>3. Lists!FirstPage = [items |-> Lists!Items(rows), prev |-> None,
                         next |-> IF Lists!More(rows) THEN Lists!CursorOf(Lists!Last(Lists!Items(rows))) ELSE None]
  BY DEF Lists!FirstPage
<1> HIDE DEF rows
<1>4. Found(Lists!Items(rows), Lists!Rows, view.direction, PageSize)
  BY <1>2, ItemsFound
<1>5. GoesOnFrom(Lists!FirstPage.items, Lists!Rows, Lists!FirstPage.next)
  BY <1>1, <1>2, <1>3, PageGoesOn
<1>6. Lists!Items(rows) \in Seq(ListIds)
  BY <1>1, <1>4 DEF Found
<1>7. Lists!FirstPage.next \in Lists!Cursor \cup {None}
  BY <1>5 DEF GoesOnFrom
<1> QED
  BY <1>3, <1>4, <1>5, <1>6, <1>7


LEMMA AfterPageFacts ==
  ASSUME Lists!TypeOK, NEW c \in Lists!Cursor
  PROVE  LET p == Lists!AfterPage(c)
             where == Lists!RowsPast(c, view.direction)
         IN \/ p = Lists!FirstPage
            \/ /\ Found(p.items, where, view.direction, PageSize)
               /\ GoesOnFrom(p.items, where, p.next)
               /\ p.prev # None
               /\ p \in [items: Seq(ListIds), prev: Lists!Cursor \cup {None}, next: Lists!Cursor \cup {None}]
<1> DEFINE p == Lists!AfterPage(c)
           where == Lists!RowsPast(c, view.direction)
           rows == Lists!Fetch(where, view.direction, PageSize + 1)
<1>1. view.direction \in Scans /\ where \in SUBSET Lists!Rows /\ Lists!Rows \subseteq ListIds /\ PageSize + 1 \in Nat
  BY ListConstants DEF Lists!TypeOK, Scans, Lists!Rows, Lists!RowsPast
<1>2. rows = << >> => p = Lists!FirstPage
  BY DEF Lists!AfterPage
<1>3. rows # << >> =>
        p = [items |-> Lists!Items(rows), prev |-> Lists!CursorOf(Head(rows)),
             next |-> IF Lists!More(rows) THEN Lists!CursorOf(Lists!Last(Lists!Items(rows))) ELSE None]
  BY DEF Lists!AfterPage
<1> HIDE DEF where
<1>4. Found(rows, where, view.direction, PageSize + 1)
  BY <1>1, Fetched
<1> HIDE DEF rows, p
<1>5. ASSUME rows # << >>
      PROVE  /\ Found(p.items, where, view.direction, PageSize)
             /\ GoesOnFrom(p.items, where, p.next)
             /\ p.prev # None
             /\ p \in [items: Seq(ListIds), prev: Lists!Cursor \cup {None}, next: Lists!Cursor \cup {None}]
  <2>1. p.items = Lists!Items(rows) /\ Found(p.items, where, view.direction, PageSize)
    BY <1>3, <1>4, <1>5, ItemsFound
  <2>2. GoesOnFrom(p.items, where, p.next)
    BY <1>1, <1>3, <1>4, <1>5, PageGoesOn
  <2>3. p.prev \in Lists!Cursor /\ p.prev # None
    <3>1. Head(rows) \in Lists!Rows
      BY <1>1, <1>4, <1>5 DEF Found
    <3> QED
      BY <1>3, <1>5, <3>1, CursorTypes
  <2>4. p.items \in Seq(ListIds)
    BY <1>1, <2>1 DEF Found
  <2>5. p.next \in Lists!Cursor \cup {None}
    BY <2>2 DEF GoesOnFrom
  <2> QED
    BY <1>3, <1>5, <2>1, <2>2, <2>3, <2>4, <2>5
<1> QED
  BY <1>2, <1>5 DEF p, where

LEMMA BeforePageFacts ==
  ASSUME Lists!TypeOK, NEW c \in Lists!Cursor
  PROVE  LET p == Lists!BeforePage(c)
             back == Lists!FlipDirection(view.direction)
             rows == Lists!Fetch(Lists!RowsPast(c, back), back, PageSize + 1)
         IN /\ Found(rows, Lists!RowsPast(c, back), back, PageSize + 1)
            /\ ~Lists!More(rows) => p = Lists!FirstPage
            /\ Lists!More(rows) =>
                 /\ p.prev # None
                 /\ \A i \in ListIds : i \in Lists!ToSet(p.items) <=> In(i, Lists!Items(rows))
                 /\ p \in [items: Seq(ListIds), prev: Lists!Cursor \cup {None}, next: Lists!Cursor \cup {None}]
<1> DEFINE p == Lists!BeforePage(c)
           back == Lists!FlipDirection(view.direction)
           where == Lists!RowsPast(c, back)
           rows == Lists!Fetch(where, back, PageSize + 1)
           items == Lists!Reverse(Lists!Items(rows))
<1>1. back \in Scans /\ where \in SUBSET Lists!Rows /\ Lists!Rows \subseteq ListIds /\ PageSize + 1 \in Nat
  BY ListConstants DEF Lists!FlipDirection, Scans, Lists!Rows, Lists!RowsPast
<1>2. ~Lists!More(rows) => p = Lists!FirstPage
  BY DEF Lists!BeforePage
<1>3. Lists!More(rows) =>
        p = [items |-> items, prev |-> Lists!CursorOf(Head(items)), next |-> Lists!CursorOf(Lists!Last(items))]
  BY DEF Lists!BeforePage
<1> HIDE DEF where, back
<1>4. Found(rows, where, back, PageSize + 1)
  BY <1>1, Fetched
<1> HIDE DEF rows, p
<1>5. ASSUME Lists!More(rows)
      PROVE  /\ p.prev # None
             /\ \A i \in ListIds : i \in Lists!ToSet(p.items) <=> In(i, Lists!Items(rows))
             /\ p \in [items: Seq(ListIds), prev: Lists!Cursor \cup {None}, next: Lists!Cursor \cup {None}]
  <2> DEFINE shown == Lists!Items(rows)
  <2>1. shown \in Seq(where) /\ Len(shown) = PageSize /\ PageSize \in Nat \ {0}
    BY <1>4, <1>5, ItemsFound, ListConstants DEF Found
  <2>2. items = [n \in 1..Len(shown) |-> shown[Len(shown) - n + 1]]
    BY DEF Lists!Reverse
  <2> HIDE DEF shown, items
  <2>3. \A n \in 1..Len(shown) : Len(shown) - n + 1 \in 1..Len(shown) /\ shown[n] \in where
    BY <2>1
  <2>4. items \in Seq(where) /\ Len(items) = PageSize /\ DOMAIN items = 1..PageSize
    BY <2>1, <2>2, <2>3
  <2>5. ASSUME NEW i \in ListIds PROVE i \in Lists!ToSet(items) <=> In(i, shown)
    <3>1. ASSUME i \in Lists!ToSet(items) PROVE In(i, shown)
      BY <2>1, <2>2, <2>3, <2>4, <3>1 DEF Lists!ToSet, In
    <3>2. ASSUME In(i, shown) PROVE i \in Lists!ToSet(items)
      <4>1. PICK n \in 1..Len(shown) : shown[n] = i
        BY <3>2 DEF In
      <4>2. Len(shown) - n + 1 \in 1..Len(shown) /\ Len(shown) - (Len(shown) - n + 1) + 1 = n
        BY <2>1
      <4>3. items[Len(shown) - n + 1] = i
        BY <2>2, <4>1, <4>2
      <4> QED
        BY <2>1, <2>4, <4>2, <4>3 DEF Lists!ToSet
    <3> QED
      BY <3>1, <3>2
  <2>6. Head(items) \in Lists!Rows /\ Lists!Last(items) \in Lists!Rows
    BY <1>1, <2>1, <2>4 DEF Lists!Last
  <2>7. /\ Lists!CursorOf(Head(items)) \in Lists!Cursor /\ Lists!CursorOf(Head(items)) # None
        /\ Lists!CursorOf(Lists!Last(items)) \in Lists!Cursor
    BY <2>6, CursorTypes
  <2>8. items \in Seq(ListIds)
    BY <1>1, <2>4
  <2> QED
    BY <1>3, <1>5, <2>5, <2>7, <2>8 DEF shown
<1> QED
  BY <1>2, <1>4, <1>5 DEF p, where, back, rows

LEMMA BatchFacts ==
  ASSUME Lists!TypeOK, NEW c \in Lists!Cursor \cup {None}
  PROVE  LET p == Lists!Batch(c)
             where == IF c = None THEN Lists!Rows ELSE Lists!RowsPast(c, view.direction)
         IN /\ Found(p.items, where, view.direction, PageSize)
            /\ GoesOnFrom(p.items, where, p.next)
            /\ p \in [items: Seq(ListIds), prev: Lists!Cursor \cup {None}, next: Lists!Cursor \cup {None}]
<1> DEFINE p == Lists!Batch(c)
           where == IF c = None THEN Lists!Rows ELSE Lists!RowsPast(c, view.direction)
           rows == Lists!Fetch(where, view.direction, PageSize)
<1>1. /\ view.direction \in Scans /\ where \in SUBSET Lists!Rows /\ Lists!Rows \subseteq ListIds
      /\ PageSize \in Nat /\ PageSize > 0
  BY ListConstants DEF Lists!TypeOK, Scans, Lists!Rows, Lists!RowsPast
<1>2. p = [items |-> rows, prev |-> None,
           next |-> IF Len(rows) < PageSize THEN None ELSE Lists!CursorOf(Lists!Last(rows))]
  BY DEF Lists!Batch
<1> HIDE DEF where
<1>3. Found(rows, where, view.direction, PageSize)
  BY <1>1, Fetched
<1> HIDE DEF rows, p
<1>4. rows \in Seq(where) /\ Len(rows) \in Nat /\ rows \in Seq(ListIds)
  BY <1>1, <1>3 DEF Found
<1>5. GoesOnFrom(rows, where, p.next)
  <2>1. CASE Len(rows) < PageSize
    <3>1. \A i \in where : In(i, rows)
      BY <1>1, <1>3, <2>1 DEF Found, In
    <3> QED
      BY <1>2, <2>1, <3>1 DEF GoesOnFrom
  <2>2. CASE ~(Len(rows) < PageSize)
    <3>1. Len(rows) > 0
      BY <1>1, <1>4, <2>2
    <3>2. rows[Len(rows)] \in Lists!Rows
      BY <1>1, <1>4, <3>1
    <3> QED
      BY <1>2, <2>2, <3>1, <3>2, CursorTypes DEF GoesOnFrom, Lists!Last
  <2> QED
    BY <2>1, <2>2
<1>6. p.next \in Lists!Cursor \cup {None}
  BY <1>5 DEF GoesOnFrom
<1> QED
  BY <1>2, <1>3, <1>4, <1>5, <1>6 DEF p, where
-----------------------------------------------------------------------------
(* Lists: the invariant of a walk, and its steps. *)

\* Of the rows that stayed as they were, those met are those up to the cursor, each once.
Walked(kept, met, next) ==
  \A i \in kept :
    /\ i \in Lists!Rows
    /\ \A m, n \in 1..Len(met) : met[m] = i /\ met[n] = i => m = n
    /\ In(i, met) <=> next = None \/ ~Lists!SeekWhere(next, view.direction, i)

WalkInv == Walked(steady, walk, page.next)

\* Only scores are missing, and lists by score descend.
NullsInv ==
  /\ view.sort = "score" => view.direction = "desc"
  /\ \A i \in ListIds : listed[i] = None => view.sort = "score"

ListInv == Lists!TypeOK /\ WalkInv /\ NullsInv

LEMMA WalkBegins ==
  ASSUME Lists!TypeOK, NEW s, NEW take, NEW next,
         Found(s, Lists!Rows, view.direction, take), GoesOnFrom(s, Lists!Rows, next)
  PROVE  Walked(Lists!Rows, s, next)
<1>1. view.direction \in Scans /\ Lists!Rows \in SUBSET Lists!Rows
  BY DEF Lists!TypeOK, Scans
<1>2. /\ \A m, n \in 1..Len(s) : s[m] = s[n] => m = n
      /\ Len(s) > 0 => \A i \in Lists!Rows : In(i, s) <=> ~Lists!OrderBy(view.direction, s[Len(s)], i)
  BY <1>1, UpToLast
<1>3. CASE next = None
  BY <1>2, <1>3, ListConstants DEF GoesOnFrom, Walked
<1>4. CASE next # None
  <2>1. Len(s) > 0 /\ next = Lists!CursorOf(s[Len(s)]) /\ s[Len(s)] \in Lists!Rows
    BY <1>4 DEF GoesOnFrom, Found
  <2>2. \A i \in Lists!Rows : Lists!SeekWhere(next, view.direction, i) <=> Lists!OrderBy(view.direction, s[Len(s)], i)
    BY <1>1, <2>1, SeekOrder
  <2> QED
    BY <1>2, <1>4, <2>1, <2>2 DEF Walked
<1> QED
  BY <1>3, <1>4

LEMMA WalkGoesOn ==
  ASSUME Lists!TypeOK, NEW kept \in SUBSET ListIds, NEW met \in Seq(ListIds), NEW c \in Lists!Cursor,
         Walked(kept, met, c),
         NEW s, NEW take, NEW next,
         Found(s, Lists!RowsPast(c, view.direction), view.direction, take),
         GoesOnFrom(s, Lists!RowsPast(c, view.direction), next)
  PROVE  Walked(kept, met \o s, next) /\ met \o s \in Seq(ListIds)
<1> DEFINE where == Lists!RowsPast(c, view.direction)
<1>1. view.direction \in Scans /\ where \in SUBSET Lists!Rows /\ Lists!Rows \subseteq ListIds
  BY DEF Lists!TypeOK, Scans, Lists!RowsPast, Lists!Rows
<1>2. \A i \in Lists!Rows : i \in where <=> Lists!SeekWhere(c, view.direction, i)
  BY DEF Lists!RowsPast
<1>3. c # None
  BY ListConstants
<1> HIDE DEF where
<1>4. /\ Found(s, where, view.direction, take) /\ GoesOnFrom(s, where, next)
      /\ s \in Seq(where) /\ Len(s) \in Nat /\ Len(met) \in Nat
  BY DEF Found, where
<1>5. /\ \A m, n \in 1..Len(s) : s[m] = s[n] => m = n
      /\ Len(s) > 0 => \A i \in where : In(i, s) <=> ~Lists!OrderBy(view.direction, s[Len(s)], i)
  BY <1>1, <1>4, UpToLast
<1>6. /\ met \o s \in Seq(ListIds) /\ Len(met \o s) = Len(met) + Len(s)
      /\ \A n \in 1..Len(met) : (met \o s)[n] = met[n]
      /\ \A n \in (Len(met) + 1)..(Len(met) + Len(s)) : (met \o s)[n] = s[n - Len(met)]
  BY <1>1, <1>4
<1>7. ASSUME NEW i \in kept
      PROVE  /\ i \in Lists!Rows
             /\ \A m, n \in 1..Len(met) : met[m] = i /\ met[n] = i => m = n
             /\ In(i, met) <=> i \notin where
  BY <1>2, <1>3, <1>7 DEF Walked
<1>8. ASSUME NEW i PROVE In(i, met \o s) <=> In(i, met) \/ In(i, s)
  <2>1. ASSUME In(i, met \o s) PROVE In(i, met) \/ In(i, s)
    <3>1. PICK n \in 1..(Len(met) + Len(s)) : (met \o s)[n] = i
      BY <1>6, <2>1 DEF In
    <3>2. n \in 1..Len(met) \/ (n \in (Len(met) + 1)..(Len(met) + Len(s)) /\ n - Len(met) \in 1..Len(s))
      BY <1>4
    <3> QED
      BY <1>6, <3>1, <3>2 DEF In
  <2>2. ASSUME In(i, met) PROVE In(i, met \o s)
    <3>1. PICK n \in 1..Len(met) : met[n] = i
      BY <2>2 DEF In
    <3>2. n \in 1..(Len(met) + Len(s))
      BY <1>4
    <3> QED
      BY <1>6, <3>1, <3>2 DEF In
  <2>3. ASSUME In(i, s) PROVE In(i, met \o s)
    <3>1. PICK n \in 1..Len(s) : s[n] = i
      BY <2>3 DEF In
    <3>2. /\ Len(met) + n \in 1..(Len(met) + Len(s)) /\ Len(met) + n \in (Len(met) + 1)..(Len(met) + Len(s))
          /\ (Len(met) + n) - Len(met) = n
      BY <1>4
    <3> QED
      BY <1>6, <3>1, <3>2 DEF In
  <2> QED
    BY <2>1, <2>2, <2>3
<1>9. \A i \in kept : In(i, s) => i \in where
  BY <1>4 DEF In
<1>10. ASSUME NEW i \in kept, NEW m \in 1..Len(met \o s), NEW n \in 1..Len(met \o s),
              (met \o s)[m] = i, (met \o s)[n] = i
       PROVE  m = n
  <2>1. \A k \in 1..Len(met \o s) :
          k \in 1..Len(met) \/ (k \in (Len(met) + 1)..(Len(met) + Len(s)) /\ k - Len(met) \in 1..Len(s))
    BY <1>4, <1>6
  <2>2. CASE In(i, met)
    <3>1. ~In(i, s)
      BY <1>7, <1>9, <2>2
    <3>2. \A k \in 1..Len(met \o s) : (met \o s)[k] = i => k \in 1..Len(met) /\ met[k] = i
      BY <1>6, <2>1, <3>1 DEF In
    <3> QED
      BY <1>7, <1>10, <3>2
  <2>3. CASE ~In(i, met)
    <3>1. \A k \in 1..Len(met \o s) : (met \o s)[k] = i =>
            k \in (Len(met) + 1)..(Len(met) + Len(s)) /\ k - Len(met) \in 1..Len(s) /\ s[k - Len(met)] = i
      BY <1>6, <2>1, <2>3 DEF In
    <3>2. m - Len(met) = n - Len(met)
      BY <1>5, <1>10, <3>1
    <3> QED
      BY <1>4, <1>10, <3>1, <3>2
  <2> QED
    BY <2>2, <2>3
<1>11. ASSUME NEW i \in kept
       PROVE  In(i, met \o s) <=> next = None \/ ~Lists!SeekWhere(next, view.direction, i)
  <2>1. CASE next = None
    <3>1. \A j \in where : In(j, s)
      BY <1>4, <2>1, ListConstants DEF GoesOnFrom
    <3> QED
      BY <1>7, <1>8, <2>1, <3>1
  <2>2. CASE next # None
    <3>1. Len(s) > 0 /\ next = Lists!CursorOf(s[Len(s)]) /\ s[Len(s)] \in Lists!Rows /\ s[Len(s)] \in where
      BY <1>1, <1>4, <2>2 DEF GoesOnFrom
    <3>2. Lists!SeekWhere(next, view.direction, i) <=> Lists!OrderBy(view.direction, s[Len(s)], i)
      BY <1>1, <1>7, <3>1, SeekOrder
    <3>3. CASE i \in where
      BY <1>5, <1>7, <1>8, <2>2, <3>1, <3>2, <3>3
    <3>4. CASE i \notin where
      <4>1. ~Lists!OrderBy(view.direction, s[Len(s)], i)
        BY <1>1, <1>2, <1>7, <3>1, <3>4, SeekOrder
      <4> QED
        BY <1>7, <1>8, <2>2, <3>2, <3>4, <4>1
    <3> QED
      BY <3>3, <3>4
  <2> QED
    BY <2>1, <2>2
<1> QED
  BY <1>6, <1>7, <1>10, <1>11 DEF Walked


PageType == [items: Seq(ListIds), prev: Lists!Cursor \cup {None}, next: Lists!Cursor \cup {None}]

\* A step to another page leaves the rows as they are.
LEMMA ListTurns ==
  ASSUME ListInv, UNCHANGED <<view, listed, listChanges>>, page' \in PageType,
         walk' \in Seq(ListIds), steady' \in SUBSET ListIds, Walked(steady', walk', page'.next)
  PROVE  ListInv'
<1>1. WalkInv'
  BY DEF WalkInv, Walked, In, Lists!Rows, Lists!SeekWhere, Lists!Past
<1>2. Lists!TypeOK' /\ NullsInv'
  BY DEF ListInv, Lists!TypeOK, NullsInv, PageType, Lists!Sorts, Lists!Cursor
<1> QED
  BY <1>1, <1>2 DEF ListInv

LEMMA FirstPageStep ==
  ASSUME ListInv, UNCHANGED <<view, listed, listChanges>>, page' = Lists!FirstPage,
         walk' = page'.items, steady' = Lists!Rows
  PROVE  ListInv'
<1>1. /\ Lists!FirstPage \in PageType
      /\ Found(Lists!FirstPage.items, Lists!Rows, view.direction, PageSize)
      /\ GoesOnFrom(Lists!FirstPage.items, Lists!Rows, Lists!FirstPage.next)
  BY FirstPageFacts DEF ListInv, PageType
<1>2. Walked(Lists!Rows, Lists!FirstPage.items, Lists!FirstPage.next)
  BY <1>1, WalkBegins DEF ListInv
<1>3. walk' \in Seq(ListIds) /\ steady' \in SUBSET ListIds
  BY <1>1 DEF PageType, Lists!Rows
<1> QED
  BY <1>1, <1>2, <1>3, ListTurns

LEMMA NextPageStep == ASSUME ListInv, Lists!NextPage PROVE ListInv'
<1>1. /\ Lists!TypeOK /\ page.next \in Lists!Cursor /\ walk \in Seq(ListIds) /\ steady \in SUBSET ListIds
      /\ Walked(steady, walk, page.next)
  BY DEF ListInv, Lists!TypeOK, Lists!NextPage, WalkInv
<1>2. PICK c \in Lists!Cursor : c = page.next
  BY <1>1
<1>3. page' = Lists!AfterPage(c) /\ UNCHANGED <<view, listed, listChanges>>
  BY <1>2 DEF Lists!NextPage
<1>4. CASE page' = Lists!FirstPage
  <2>1. page'.prev = None
    BY <1>1, <1>4, FirstPageFacts
  <2>2. walk' = page'.items /\ steady' = Lists!Rows
    BY <2>1 DEF Lists!NextPage
  <2> QED
    BY <1>3, <1>4, <2>2, FirstPageStep
<1>5. CASE page' # Lists!FirstPage
  <2>1. /\ Found(page'.items, Lists!RowsPast(c, view.direction), view.direction, PageSize)
        /\ GoesOnFrom(page'.items, Lists!RowsPast(c, view.direction), page'.next)
        /\ page'.prev # None /\ page' \in PageType
    BY <1>1, <1>3, <1>5, AfterPageFacts DEF PageType
  <2>2. walk' = walk \o page'.items /\ steady' = steady
    BY <2>1 DEF Lists!NextPage
  <2>3. Walked(steady, walk \o page'.items, page'.next) /\ walk \o page'.items \in Seq(ListIds)
    <3>1. PICK shown, next : shown = page'.items /\ next = page'.next
      OBVIOUS
    <3>2. Walked(steady, walk, c)
      BY <1>1, <1>2
    <3>3. Walked(steady, walk \o shown, next) /\ walk \o shown \in Seq(ListIds)
      BY <1>1, <2>1, <3>1, <3>2, WalkGoesOn
    <3> QED
      BY <3>1, <3>3
  <2> QED
    BY <1>1, <1>3, <2>1, <2>2, <2>3, ListTurns
<1> QED
  BY <1>4, <1>5

LEMMA PrevPageStep == ASSUME ListInv, Lists!PrevPage PROVE ListInv'
<1>1. Lists!TypeOK /\ page.prev \in Lists!Cursor
  BY DEF ListInv, Lists!TypeOK, Lists!PrevPage
<1>2. PICK c \in Lists!Cursor : c = page.prev
  BY <1>1
<1>3. page' = Lists!BeforePage(c) /\ UNCHANGED <<view, listed, listChanges>>
  BY <1>2 DEF Lists!PrevPage
<1>4. CASE page' = Lists!FirstPage
  <2>1. page'.prev = None
    BY <1>1, <1>4, FirstPageFacts
  <2>2. walk' = page'.items /\ steady' = Lists!Rows
    BY <2>1 DEF Lists!PrevPage
  <2> QED
    BY <1>3, <1>4, <2>2, FirstPageStep
<1>5. CASE page' # Lists!FirstPage
  <2>1. page'.prev # None /\ page' \in PageType
    BY <1>1, <1>3, <1>5, BeforePageFacts DEF PageType
  <2>2. walk' = << >> /\ steady' = {}
    BY <2>1 DEF Lists!PrevPage
  <2>3. walk' \in Seq(ListIds) /\ steady' \in SUBSET ListIds /\ Walked(steady', walk', page'.next)
    BY <2>2 DEF Walked
  <2> QED
    BY <1>3, <2>1, <2>3, ListTurns
<1> QED
  BY <1>4, <1>5

LEMMA ExportStep == ASSUME ListInv, Lists!ExportCandidatesCsv PROVE ListInv'
<1>1. /\ Lists!TypeOK /\ page.next \in Lists!Cursor \cup {None} /\ walk \in Seq(ListIds) /\ steady \in SUBSET ListIds
      /\ Walked(steady, walk, page.next)
  BY DEF ListInv, Lists!TypeOK, WalkInv
<1>2. PICK c \in Lists!Cursor \cup {None} : c = page.next
  BY <1>1
<1>3. page' = Lists!Batch(c) /\ UNCHANGED <<view, listed, listChanges>>
  BY <1>2 DEF Lists!ExportCandidatesCsv
<1>4. PICK shown, next : shown = page'.items /\ next = page'.next
  OBVIOUS
<1>5. /\ page' \in PageType
      /\ c = None => Found(shown, Lists!Rows, view.direction, PageSize) /\ GoesOnFrom(shown, Lists!Rows, next)
      /\ c # None => /\ Found(shown, Lists!RowsPast(c, view.direction), view.direction, PageSize)
                     /\ GoesOnFrom(shown, Lists!RowsPast(c, view.direction), next)
  BY <1>1, <1>3, <1>4, BatchFacts DEF PageType
<1>6. CASE c = None
  <2>1. walk' = shown /\ steady' = Lists!Rows
    BY <1>2, <1>4, <1>6 DEF Lists!ExportCandidatesCsv
  <2>2. Walked(Lists!Rows, shown, next)
    BY <1>1, <1>5, <1>6, WalkBegins
  <2>3. walk' \in Seq(ListIds) /\ steady' \in SUBSET ListIds
    BY <1>4, <1>5, <2>1 DEF PageType, Lists!Rows
  <2> QED
    BY <1>3, <1>4, <1>5, <2>1, <2>2, <2>3, ListTurns
<1>7. CASE c # None
  <2>1. walk' = walk \o shown /\ steady' = steady
    BY <1>2, <1>4, <1>7 DEF Lists!ExportCandidatesCsv
  <2>2. c \in Lists!Cursor /\ Walked(steady, walk, c)
    BY <1>1, <1>2, <1>7
  <2>3. Walked(steady, walk \o shown, next) /\ walk \o shown \in Seq(ListIds)
    BY <1>1, <1>5, <1>7, <2>2, WalkGoesOn
  <2> QED
    BY <1>1, <1>3, <1>4, <1>5, <2>1, <2>3, ListTurns
<1> QED
  BY <1>6, <1>7

\* A row that changes was not steady, or is not any more.
LEMMA ChangeRowStep == ASSUME ListInv, NEW i \in ListIds, Lists!ChangeRow(i) PROVE ListInv'
<1>1. PICK k \in (Keys \cup Lists!Nullable \cup {Absent}) \ {listed[i]} : listed' = [listed EXCEPT ![i] = k]
  BY DEF Lists!ChangeRow
<1>2. /\ Lists!TypeOK /\ listed \in [ListIds -> Keys \cup {None, Absent}]
      /\ listed' \in [ListIds -> Keys \cup {None, Absent}] /\ listed'[i] = k
      /\ \A j \in ListIds : j # i => listed'[j] = listed[j]
      /\ UNCHANGED <<view, page, walk>> /\ steady' = steady \ {i}
      /\ listChanges' \in 0..MaxListChanges
  BY <1>1, ListConstants DEF ListInv, Lists!TypeOK, Lists!ChangeRow, Lists!Nullable
<1>3. Lists!TypeOK'
  BY <1>2 DEF Lists!TypeOK, Lists!Sorts, Lists!Cursor
<1>4. NullsInv'
  <2>1. k = None => view.sort = "score"
    BY <1>1, ListConstants DEF Lists!Nullable
  <2> QED
    BY <1>2, <2>1 DEF ListInv, NullsInv
<1>5. WalkInv'
  <2> SUFFICES ASSUME NEW j \in steady, j # i
               PROVE  (/\ j \in Lists!Rows
                       /\ \A m, n \in 1..Len(walk) : walk[m] = j /\ walk[n] = j => m = n
                       /\ In(j, walk) <=> page.next = None \/ ~Lists!SeekWhere(page.next, view.direction, j))'
    BY <1>2 DEF WalkInv, Walked
  <2>1. /\ j \in Lists!Rows
        /\ \A m, n \in 1..Len(walk) : walk[m] = j /\ walk[n] = j => m = n
        /\ In(j, walk) <=> page.next = None \/ ~Lists!SeekWhere(page.next, view.direction, j)
    BY DEF ListInv, WalkInv, Walked
  <2>2. j \in ListIds /\ listed'[j] = listed[j]
    BY <1>2, <2>1 DEF Lists!Rows
  <2> QED
    BY <1>2, <2>1, <2>2 DEF In, Lists!Rows, Lists!SeekWhere, Lists!Past
<1> QED
  BY <1>3, <1>4, <1>5 DEF ListInv

LEMMA ListStep == ASSUME ListInv, [Lists!Next]_list PROVE ListInv'
<1>1. CASE Lists!Open
  BY <1>1, FirstPageStep DEF Lists!Open
<1>2. CASE UNCHANGED list
  <2>1. /\ UNCHANGED <<view, listed, listChanges>> /\ page' = page /\ walk' = walk /\ steady' = steady
        /\ page \in PageType /\ walk \in Seq(ListIds) /\ steady \in SUBSET ListIds
    BY <1>2 DEF list, ListInv, Lists!TypeOK, PageType
  <2>2. Walked(steady', walk', page'.next)
    BY <2>1 DEF ListInv, WalkInv
  <2> QED
    BY <2>1, <2>2, ListTurns
<1> QED
  BY <1>1, <1>2, NextPageStep, PrevPageStep, ExportStep, ChangeRowStep DEF Lists!Next

LEMMA ListInit == ASSUME Lists!Init PROVE ListInv
<1>1. /\ view \in [sort: Lists!Sorts, direction: {"asc", "desc"}, by: {"pages", "export"}]
      /\ view.sort = "score" => view.direction = "desc"
      /\ page = [items |-> << >>, prev |-> None, next |-> None] /\ walk = << >> /\ steady = {} /\ listChanges = 0
      /\ listed \in [ListIds -> Keys \cup {None, Absent}]
      /\ \A i \in ListIds : listed[i] = None => view.sort = "score"
  BY ListConstants DEF Lists!Init, Lists!Nullable
<1>2. Lists!TypeOK
  BY <1>1, ListConstants DEF Lists!TypeOK
<1> QED
  BY <1>1, <1>2 DEF ListInv, NullsInv, WalkInv, Walked
-----------------------------------------------------------------------------
(* Lists: no row is missed or met twice, on the way forward and back. *)

LEMMA WalksComplete == ListInv => Lists!WalkComplete
<1> SUFFICES ASSUME ListInv, NEW i \in steady
             PROVE  /\ page.next = None => i \in Lists!ToSet(walk)
                    /\ Lists!Cardinality({n \in DOMAIN walk : walk[n] = i}) <= 1
  BY DEF Lists!WalkComplete
<1>1. /\ walk \in Seq(ListIds) /\ DOMAIN walk = 1..Len(walk)
      /\ \A m, n \in 1..Len(walk) : walk[m] = i /\ walk[n] = i => m = n
      /\ In(i, walk) <=> page.next = None \/ ~Lists!SeekWhere(page.next, view.direction, i)
  BY DEF ListInv, Lists!TypeOK, WalkInv, Walked
<1>2. page.next = None => i \in Lists!ToSet(walk)
  BY <1>1 DEF In, Lists!ToSet
<1>3. PICK T : T = {n \in DOMAIN walk : walk[n] = i}
  OBVIOUS
<1>4. T = {} \/ \E n : T = {n}
  BY <1>1, <1>3
<1>5. Cardinality(T) = 0 \/ Cardinality(T) = 1
  BY <1>4, FS_EmptySet, FS_Singleton
<1>6. Lists!Cardinality(T) = Cardinality(T)
  BY DEF Lists!Cardinality, Cardinality
<1>7. Lists!Cardinality(T) <= 1
  BY <1>5, <1>6
<1> QED
  BY <1>2, <1>3, <1>7, Zenon

LEMMA RanksInOrder ==
  ASSUME ListInv, NEW a \in Lists!Rows, NEW b \in Lists!Rows, a # b
  PROVE  Lists!Ranks(a, b) <=> Lists!OrderBy(view.direction, a, b)
<1>1. /\ \A i \in Lists!Rows : i \in Nat /\ i # None /\ listed[i] \in Nat \cup {None} /\ (listed[i] # None => listed[i] \in Nat)
      /\ view.direction \in {"asc", "desc"}
      /\ \A i \in Lists!Rows : listed[i] = None => view.direction = "desc"
  BY ListConstants DEF ListInv, Lists!TypeOK, Lists!Rows, NullsInv
<1>2. CASE view.direction = "asc"
  BY <1>1, <1>2 DEF Lists!Ranks, Lists!OrderBy, Lists!Past
<1>3. CASE view.direction = "desc"
  BY <1>1, <1>3 DEF Lists!Ranks, Lists!OrderBy, Lists!Past
<1> QED
  BY <1>1, <1>2, <1>3

\* The first page has every row that fewer than a page of rows precede.
LEMMA FirstPageHas ==
  ASSUME Lists!TypeOK, NEW here \in Lists!Rows, NEW i \in Lists!Rows,
         Lists!OrderBy(view.direction, i, here),
         NEW s, Found(s, {j \in Lists!Rows : Lists!OrderBy(view.direction, j, here)},
                      Lists!FlipDirection(view.direction), PageSize + 1),
         ~Lists!More(s)
  PROVE  In(i, Lists!FirstPage.items)
<1> DEFINE before == {j \in Lists!Rows : Lists!OrderBy(view.direction, j, here)}
           shown == Lists!FirstPage.items
<1>1. view.direction \in Scans /\ PageSize \in Nat /\ i \in before
  BY ListConstants DEF Lists!TypeOK, Scans
<1>2. IsFiniteSet(before)
  BY ListConstants, FS_Subset DEF Lists!Rows
<1>3. Cardinality(before) \in Nat /\ Cardinality(before) <= PageSize
  <2>1. /\ s \in Seq(before) /\ Len(s) \in Nat /\ Len(s) <= PageSize
        /\ \A j \in before : \E n \in 1..Len(s) : s[n] = j
    BY <1>1 DEF Found, Lists!More
  <2> HIDE DEF before
  <2>2. [n \in 1..Len(s) |-> s[n]] \in Surjection(1..Len(s), before)
    BY <2>1 DEF Surjection
  <2>3. Cardinality(before) <= Len(s)
    BY <2>1, <2>2, FS_SurjCardinalityBound DEF ExistsSurjection
  <2>4. Cardinality(before) \in Nat
    BY <1>2, FS_CardinalityType
  <2> QED
    BY <1>1, <2>1, <2>3, <2>4
<1> SUFFICES ASSUME ~In(i, shown) PROVE FALSE
  OBVIOUS
<1>4. /\ shown \in Seq(Lists!Rows) /\ Len(shown) = PageSize
      /\ \A n \in 1..PageSize : shown[n] \in Lists!Rows /\ Lists!OrderBy(view.direction, shown[n], i)
      /\ Found(shown, Lists!Rows, view.direction, PageSize)
  <2>1. Found(shown, Lists!Rows, view.direction, PageSize)
    BY FirstPageFacts
  <2> HIDE DEF shown
  <2>2. /\ shown \in Seq(Lists!Rows) /\ Len(shown) = PageSize
        /\ \A n \in 1..PageSize : Lists!OrderBy(view.direction, shown[n], i)
    BY <2>1 DEF Found, In
  <2> QED
    BY <2>1, <2>2
<1> HIDE DEF shown
<1>5. \A n \in 1..PageSize : shown[n] \in before /\ shown[n] # i
  BY <1>1, <1>4, RowOrder DEF In
<1>6. \A m, n \in 1..PageSize : shown[m] = shown[n] => m = n
  BY <1>1, <1>4, UpToLast
<1> HIDE DEF before
<1>7. PICK f \in Injection(1..(PageSize + 1), before) : TRUE
  <2> DEFINE f == [n \in 1..(PageSize + 1) |-> IF n = PageSize + 1 THEN i ELSE shown[n]]
  <2>1. \A n \in 1..(PageSize + 1) : n = PageSize + 1 \/ n \in 1..PageSize
    BY <1>1
  <2>2. f \in [1..(PageSize + 1) -> before]
    BY <1>1, <1>5, <2>1
  <2>3. \A m, n \in 1..(PageSize + 1) : f[m] = f[n] => m = n
    BY <1>1, <1>5, <1>6, <2>1
  <2> QED
    BY <2>2, <2>3 DEF Injection, IsInjective
<1>8. Cardinality(1..(PageSize + 1)) <= Cardinality(before)
  BY <1>2, <1>7, FS_Injection
<1>9. Cardinality(1..(PageSize + 1)) = PageSize + 1
  BY <1>1, FS_Interval
<1> QED
  BY <1>1, <1>3, <1>8, <1>9

LEMMA BackLeavesNoneOut == ListInv => Lists!NoneLeftOut
<1> DEFINE here == page.prev.id
           back == Lists!FlipDirection(view.direction)
<1> SUFFICES ASSUME ListInv, page.prev # None, page' = Lists!BeforePage(page.prev),
                    NEW i \in Lists!Rows, here \in Lists!Rows, listed[here] = page.prev.key,
                    i # here, Lists!Ranks(i, here), i \notin Lists!ToSet(page'.items),
                    NEW s \in Lists!ToSet(page'.items)
             PROVE  Lists!Ranks(i, s)
  BY DEF Lists!NoneLeftOut
<1>1. Lists!TypeOK /\ view.direction \in Scans /\ back \in Scans
  BY DEF ListInv, Lists!TypeOK, Lists!FlipDirection, Scans
<1>2. PICK c \in Lists!Cursor : c = page.prev
  BY <1>1 DEF Lists!TypeOK
<1>3. c = Lists!CursorOf(here)
  BY <1>2 DEF Lists!CursorOf, Lists!Cursor
<1>4. Lists!OrderBy(view.direction, i, here)
  BY RanksInOrder
<1> HIDE DEF here
<1>5. \A j \in Lists!Rows : Lists!SeekWhere(c, back, j) <=> Lists!OrderBy(view.direction, j, here)
  BY <1>1, <1>3, SeekOrder, OrderBack
<1> HIDE DEF back
<1>6. Lists!RowsPast(c, back) = {j \in Lists!Rows : Lists!OrderBy(view.direction, j, here)}
  BY <1>5 DEF Lists!RowsPast
<1> DEFINE rows == Lists!Fetch(Lists!RowsPast(c, back), back, PageSize + 1)
<1>7. /\ Found(rows, Lists!RowsPast(c, back), back, PageSize + 1)
      /\ ~Lists!More(rows) => page' = Lists!FirstPage
      /\ Lists!More(rows) => \A j \in ListIds : j \in Lists!ToSet(page'.items) <=> In(j, Lists!Items(rows))
      /\ Lists!More(rows) => page' \in PageType
  BY <1>1, <1>2, BeforePageFacts DEF back, PageType
<1> HIDE DEF rows
<1>8. CASE ~Lists!More(rows)
  <2>1. In(i, Lists!FirstPage.items)
    BY <1>1, <1>4, <1>6, <1>7, <1>8, FirstPageHas DEF back
  <2>2. i \in Lists!ToSet(Lists!FirstPage.items)
    BY <1>1, <2>1, FirstPageFacts DEF In, Lists!ToSet
  <2> QED
    BY <1>7, <1>8, <2>2
<1>9. CASE Lists!More(rows)
  <2>1. /\ Found(Lists!Items(rows), Lists!RowsPast(c, back), back, PageSize)
        /\ i \in Lists!RowsPast(c, back)
    BY <1>4, <1>6, <1>7, ItemsFound
  <2>2. i \in ListIds /\ s \in ListIds
    BY <1>7, <1>9 DEF PageType, Lists!Rows, Lists!ToSet
  <2>3. In(s, Lists!Items(rows)) /\ ~In(i, Lists!Items(rows))
    BY <1>7, <1>9, <2>2
  <2>4. Lists!OrderBy(back, s, i) /\ s \in Lists!Rows
    BY <1>6, <2>1, <2>3 DEF Found, In
  <2>5. Lists!OrderBy(view.direction, i, s) /\ i # s
    BY <1>1, <2>3, <2>4, OrderBack DEF back
  <2> QED
    BY <2>4, <2>5, RanksInOrder
<1> QED
  BY <1>8, <1>9

\* Whoever goes through a list page by page, or exports it, meets every row that stays as
\* it was, and once; going back leaves no row out (keysetPage, seekWhere, pagination.ts).
THEOREM ListsAreWalked == MCSpec => ListsWalked
<1>1. MCInit => ListInv
  BY ListInit DEF MCInit
<1>2. ListInv /\ [MCNext]_<<focus, vars, list, support>> => ListInv'
  <2>1. [MCNext]_<<focus, vars, list, support>> => [Lists!Next]_list
    BY DEF MCNext, Pages, Viewing, Hiring, Focus, Lists!Next, list
  <2> QED
    BY <2>1, ListStep
<1>3. ListInv /\ ListInv' => [Lists!WalkComplete' /\ Lists!NoneLeftOut]_(Lists!vars)
  <2>1. (ListInv => Lists!WalkComplete)'
    BY WalksComplete, PTL
  <2> QED
    BY <2>1, BackLeavesNoneOut
<1> QED
  BY <1>1, <1>2, <1>3, PTL DEF MCSpec, ListsWalked, Lists!ListsWalked
===============================================================================
