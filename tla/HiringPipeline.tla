---------------------------- MODULE HiringPipeline ----------------------------
(***************************************************************************)
(* The applications on one job (services/applications.ts), the people who  *)
(* reach them (access.ts, hiring-team.ts, departments.ts), the record of   *)
(* their decisions (decisions.ts), their scorecards, and the job's rubric  *)
(* (updateJob in jobs.ts).  A request reads its person's role, then the    *)
(* row in its transaction, then writes: others come in between, as they do *)
(* under READ COMMITTED.                                                   *)
(***************************************************************************)
EXTENDS Naturals, Sequences, FiniteSets, SequencesExt

CONSTANTS
  People,
  Applications,  \* 1, 2, ... in the order they are created
  Stages,
  NewStage,      \* NEW
  Scores,        \* the values of aiScore, naturals
  Labels,        \* what a requirement may say
  ForeignId,     \* the id of another job's requirement
  MaxForm,       \* bound: requirements in a form
  MaxDecisions, MaxRuns, MaxEdits, MaxChanges,  \* bounds
  None           \* SQL NULL

VARIABLES
  role,          \* Membership.role, None without a membership
  team,          \* JobAssignment: who is on the job's hiring team
  department,    \* one department: whether it exists, its members, whether the job is filed there
  job,           \* its status and requirements; the next requirement's id
  row,           \* the Application rows
  record,        \* the stage entries of the audit log and the events queued with them
  scorecards,    \* who has rated an application
  request,       \* what each person is doing
  saved,         \* the form saved last
  changes        \* bound: changes of who may reach the job

vars == <<role, team, department, job, row, record, scorecards, request, saved, changes>>
staff == <<role, team, department>>

Roles == {"ADMIN", "MEMBER", "HIRING_MANAGER", "INTERVIEWER", "VIEWER"}

ASSUME HiringAssumption ==
  /\ Applications = 1..Cardinality(Applications)
  /\ NewStage \in Stages
  /\ Labels # {}
  /\ Scores \subseteq Nat
  /\ {MaxForm, MaxDecisions, MaxRuns, MaxEdits, MaxChanges} \subseteq Nat
  /\ None \notin Roles \cup Stages \cup Nat
  /\ ForeignId \notin Nat

\* Every entry of a form names one of the job's rows, each at most once, another
\* job's row, or none.
Field(ids) == [id: ids \cup {ForeignId, None}, label: Labels]
IsForm(f) == f # << >> /\ \A i, j \in DOMAIN f : i # j /\ f[i].id = f[j].id => f[i].id = None

Run == [id: 1..MaxRuns, score: Scores]
Ai == [kind: {"unscored", "hidden"}] \cup [kind: {"shown"}, run: Run]
Entry == [app: Applications, by: People, was: Stages, from: Stages, to: Stages, ai: Ai, told: BOOLEAN]
Row == [stage: Stages, removed: BOOLEAN, run: Run \cup {None}]
ASSUME NoneAssumption == None \notin Run \cup Row

Requirement == [id: Nat, label: Labels, order: Nat]

Idle == [op |-> "none"]
Asked == [op: {"stage", "create", "remove", "restore", "rate"}, pc: {"asked", "read"},
          role: Roles, app: Applications, to: Stages, from: Stages, ai: Ai]
Filling == [op: {"edit"}, role: Roles, known: SUBSET Nat, form: {f \in Seq(Field(Nat)) : IsForm(f)}]

TypeOK ==
  /\ role \in [People -> Roles \cup {None}]
  /\ team \subseteq People
  /\ department \in [exists: BOOLEAN, members: SUBSET People, filed: BOOLEAN]
  /\ job \in [archived: BOOLEAN, requirements: SUBSET Requirement, next: Nat]
  /\ row \in [Applications -> Row \cup {None}]
  /\ record \in Seq(Entry)
  /\ scorecards \in [Applications -> SUBSET People]
  /\ request \in [People -> {Idle} \cup Asked \cup Filling]
-----------------------------------------------------------------------------
(* auth/roles.ts and services/access.ts. *)

\* The permissions asked for here; OWNER has ADMIN's.
Grants ==
  LET recruiter == {"job.manage", "job.edit", "job.staff", "application.manage", "application.stage",
                    "scoring.view", "scorecard.submit", "scorecard.viewAll"}
  IN [ADMIN |-> recruiter \cup {"department.manage"},
      MEMBER |-> recruiter,
      HIRING_MANAGER |-> {"job.edit", "application.stage", "scoring.view", "scorecard.submit", "scorecard.viewAll"},
      INTERVIEWER |-> {"scorecard.submit"},
      VIEWER |-> {"scoring.view", "scorecard.viewAll"}]

Can(r, permission) == r # None /\ permission \in Grants[r]
SeesWholeCompany(r) == r \in {"ADMIN", "MEMBER", "VIEWER"}
SeesScores(r) == Can(r, "scoring.view")

Reaches(p, r) ==
  \/ SeesWholeCompany(r)
  \/ p \in team
  \/ department.filed /\ p \in department.members

\* Somebody of the workspace may do it.
Somebody(permission) == \E p \in People : Can(role[p], permission)

Init ==
  /\ role \in [People -> Roles \cup {None}]
  /\ team \in SUBSET {p \in People : role[p] # None}
  /\ department = [exists |-> TRUE, members |-> {}, filed |-> FALSE]
  /\ job = [archived |-> FALSE, requirements |-> {[id |-> 1, label |-> CHOOSE l \in Labels : TRUE, order |-> 0]}, next |-> 2]
  /\ row = [a \in Applications |-> None]
  /\ record = << >>
  /\ scorecards = [a \in Applications |-> {}]
  /\ request = [p \in People |-> Idle]
  /\ saved = << [id |-> None, label |-> CHOOSE l \in Labels : TRUE] >>
  /\ changes = 0
-----------------------------------------------------------------------------
(* Who works on the job.  Each is one transaction that names its row. *)

Changed == changes < MaxChanges /\ changes' = changes + 1

\* mutant: the assignments outlive the membership
SetMembership_TeamStays(p, r) ==
  /\ Changed /\ role[p] # r
  /\ role' = [role EXCEPT ![p] = r]
  /\ department' = [department EXCEPT !.members = IF r = None THEN @ \ {p} ELSE @]
  /\ UNCHANGED <<team, job, row, record, scorecards, request, saved>>

\* team.ts; the assignments and the departments hang on the membership.
SetMembership(p, r) ==
  /\ Changed /\ role[p] # r
  /\ role' = [role EXCEPT ![p] = r]
  /\ team' = IF r = None THEN team \ {p} ELSE team
  /\ department' = [department EXCEPT !.members = IF r = None THEN @ \ {p} ELSE @]
  /\ UNCHANGED <<job, row, record, scorecards, request, saved>>

AssignToJob(p) ==
  /\ Changed /\ Somebody("job.staff") /\ role[p] # None /\ p \notin team
  /\ team' = team \cup {p}
  /\ UNCHANGED <<role, department, job, row, record, scorecards, request, saved>>

UnassignFromJob(p) ==
  /\ Changed /\ Somebody("job.staff") /\ p \in team
  /\ team' = team \ {p}
  /\ UNCHANGED <<role, department, job, row, record, scorecards, request, saved>>

SetJobDepartment(filed) ==
  /\ Changed /\ Somebody("job.staff") /\ department.exists /\ department.filed # filed
  /\ department' = [department EXCEPT !.filed = filed]
  /\ UNCHANGED <<role, team, job, row, record, scorecards, request, saved>>

CreateDepartment ==
  /\ Changed /\ Somebody("department.manage") /\ ~department.exists
  /\ department' = [department EXCEPT !.exists = TRUE]
  /\ UNCHANGED <<role, team, job, row, record, scorecards, request, saved>>

\* Its jobs stay, filed under none, and its members go.
DeleteDepartment ==
  /\ Changed /\ Somebody("department.manage") /\ department.exists
  /\ department' = [exists |-> FALSE, members |-> {}, filed |-> FALSE]
  /\ UNCHANGED <<role, team, job, row, record, scorecards, request, saved>>

AddDepartmentMember(p) ==
  /\ Changed /\ Somebody("department.manage")
  /\ department.exists /\ role[p] # None /\ p \notin department.members
  /\ department' = [department EXCEPT !.members = @ \cup {p}]
  /\ UNCHANGED <<role, team, job, row, record, scorecards, request, saved>>

RemoveDepartmentMember(p) ==
  /\ Changed /\ Somebody("department.manage") /\ p \in department.members
  /\ department' = [department EXCEPT !.members = @ \ {p}]
  /\ UNCHANGED <<role, team, job, row, record, scorecards, request, saved>>

SetJobStatus ==
  /\ Changed /\ Somebody("job.manage")
  /\ job' = [job EXCEPT !.archived = ~@]
  /\ UNCHANGED <<staff, row, record, scorecards, request, saved>>
-----------------------------------------------------------------------------
(* What the page and the lists show (getApplication, listStageDecisions,    *)
(* listApplicationsForJob, listJobs), and the AI context of a decision.     *)

\* decisionContext
DecisionContext(r, run) ==
  IF ~SeesScores(r) THEN [kind |-> "hidden"]
  ELSE IF run = None THEN [kind |-> "unscored"] ELSE [kind |-> "shown", run |-> run]

\* The places of an application's entries in the log.
EntriesOf(a, log) == {i \in DOMAIN log : log[i].app = a}

\* mutant: the decisions are listed as they were recorded
ListStageDecisions_Plain(r, a, log) ==
  [i \in EntriesOf(a, log) |->
     [by |-> log[i].by, from |-> log[i].from, to |-> log[i].to, ai |-> log[i].ai]]

\* In the order they were recorded.  Someone who can't see scores doesn't learn
\* them from the record either.
ListStageDecisions(r, a, log) ==
  [i \in EntriesOf(a, log) |->
     [by |-> log[i].by, from |-> log[i].from, to |-> log[i].to,
      ai |-> IF SeesScores(r) \/ log[i].ai.kind # "shown" THEN log[i].ai ELSE [kind |-> "hidden"]]]

GetApplication(p, r, a, rows, log) ==
  [stage |-> rows[a].stage, removed |-> rows[a].removed,
   scoring |-> IF SeesScores(r) THEN rows[a].run ELSE None,
   scorecards |-> IF Can(r, "scorecard.viewAll") THEN scorecards[a] ELSE scorecards[a] \cap {p},
   decisions |-> ListStageDecisions(r, a, log)]

\* Highest score first, unscored last; the id breaks a tie.
RanksBefore(rows, a, b) ==
  LET s(x) == rows[x].run.score IN
  \/ rows[a].run # None /\ rows[b].run # None /\ (s(a) > s(b) \/ (s(a) = s(b) /\ a > b))
  \/ rows[a].run # None /\ rows[b].run = None
  \/ rows[a].run = None /\ rows[b].run = None /\ a > b

ListedBefore(r, sort, rows, a, b) ==
  IF sort = "score" /\ SeesScores(r) THEN RanksBefore(rows, a, b)
  ELSE IF sort = "oldest" THEN a < b ELSE a > b

Live(rows) == {a \in Applications : rows[a] # None /\ ~rows[a].removed}

\* The live applications, each with those listed before it and what the list says
\* of its score.
ListApplications(r, sort, rows) ==
  [a \in Live(rows) |->
     [stage |-> rows[a].stage,
      before |-> {b \in Live(rows) : ListedBefore(r, sort, rows, b, a)},
      scoring |-> IF SeesScores(r) THEN rows[a].run ELSE None]]

ScoreSum(rows, scored) == FoldSet(LAMBDA a, sum : sum + rows[a].run.score, 0, scored)

\* Rounded by the caller; the sum and the count tell as much.
AverageScore(r, rows) ==
  LET scored == {a \in Live(rows) : rows[a].run # None}
  IN IF SeesScores(r) /\ scored # {} THEN <<ScoreSum(rows, scored), Cardinality(scored)>> ELSE None
-----------------------------------------------------------------------------
(* Requests.  The guard reads the role before the rest.                      *)

Hidden == [kind |-> "hidden"]

Ask(p, op, permission, a, to) ==
  /\ request[p] = Idle
  /\ Can(role[p], permission)
  /\ request' = [request EXCEPT ![p] = [op |-> op, pc |-> "asked", role |-> role[p], app |-> a, to |-> to,
                                         from |-> to, ai |-> Hidden]]
  /\ UNCHANGED <<staff, job, row, record, scorecards, saved, changes>>

\* The next candidate to be attached, by one person or by several at once.
RequestCreate(p, a) ==
  /\ \A b \in Applications : row[b] = None <=> b >= a
  /\ Ask(p, "create", "application.manage", a, NewStage)

RequestRemove(p, a) ==
  row[a] # None /\ \E op \in {"remove", "restore"} : Ask(p, op, "application.manage", a, NewStage)

RequestRate(p, a) == row[a] # None /\ Ask(p, "rate", "scorecard.submit", a, NewStage)

RequestStage(p, a, to) ==
  /\ row[a] # None /\ Reaches(p, role[p])
  /\ Len(record) < MaxDecisions
  /\ Ask(p, "stage", "application.stage", a, to)

\* The request ends, with an error or without.
End(p) == request' = [request EXCEPT ![p] = Idle]

\* applicationAccessWhere
Visible(p) == row[request[p].app] # None /\ Reaches(p, request[p].role)

\* The first statement of the transaction, or what createApplication reads before it.
ReadRow(p) ==
  LET q == request[p]
      goesOn == CASE q.op = "create" -> Reaches(p, q.role) /\ ~job.archived
                  [] q.op \in {"stage", "rate"} -> Visible(p) /\ ~row[q.app].removed
                  [] q.op \in {"remove", "restore"} -> Visible(p)
  IN
  /\ q.op \notin {"none", "edit"} /\ q.pc = "asked"
  /\ IF ~goesOn THEN End(p)
     ELSE request' = [request EXCEPT ![p].pc = "read",
                        ![p].from = IF q.op = "stage" THEN row[q.app].stage ELSE @,
                        ![p].ai = IF q.op = "stage" THEN DecisionContext(q.role, row[q.app].run) ELSE @]
  /\ UNCHANGED <<staff, job, row, record, scorecards, saved, changes>>

Doing(p, op) == request[p].op = op /\ request[p].pc = "read" /\ End(p)

\* mutant: the update names the application alone
StillThere_ById(a) == row[a] # None

\* The update asks again whether the application was removed.
StillThere(a) == row[a] # None /\ ~row[a].removed

\* updateStage: the row, its entry and, if it moved, its event commit together.
UpdateStage(p) ==
  LET q == request[p] IN
  /\ Doing(p, "stage")
  /\ IF StillThere(q.app)
     THEN /\ row' = [row EXCEPT ![q.app].stage = q.to]
          /\ record' = Append(record, [app |-> q.app, by |-> p, was |-> row[q.app].stage, from |-> q.from,
                                       to |-> q.to, ai |-> q.ai, told |-> q.from # q.to])
     ELSE UNCHANGED <<row, record>>
  /\ UNCHANGED <<staff, job, scorecards, saved, changes>>

\* createApplication: one application to a candidate and a job.
CreateApplication(p) ==
  LET a == request[p].app IN
  /\ Doing(p, "create")
  /\ row' = IF row[a] = None THEN [row EXCEPT ![a] = [stage |-> NewStage, removed |-> FALSE, run |-> None]] ELSE row
  /\ UNCHANGED <<staff, job, record, scorecards, saved, changes>>

SetApplicationRemoved(p) ==
  LET q == request[p] IN
  /\ q.op \in {"remove", "restore"} /\ Doing(p, q.op)
  /\ row' = [row EXCEPT ![q.app].removed = q.op = "remove"]
  /\ UNCHANGED <<staff, job, record, scorecards, saved, changes>>

UpsertScorecard(p) ==
  /\ Doing(p, "rate")
  /\ scorecards' = [scorecards EXCEPT ![request[p].app] = @ \cup {p}]
  /\ UNCHANGED <<staff, job, row, record, saved, changes>>

\* The scoring worker's commit (ScoringQueue); it leaves removed applications alone.
ScoreLands(a) == \E s \in Scores :
  /\ row[a] # None /\ ~row[a].removed
  /\ LET n == IF row[a].run = None THEN 1 ELSE row[a].run.id + 1
     IN n <= MaxRuns /\ row' = [row EXCEPT ![a].run = [id |-> n, score |-> s]]
  /\ UNCHANGED <<staff, job, record, scorecards, request, saved, changes>>
-----------------------------------------------------------------------------
(* updateJob. *)

RowIds == {q.id : q \in job.requirements}

OpenForm(p) == \E f \in SeqOf(Field(RowIds), MaxForm) :
  /\ IsForm(f)
  /\ request[p] = Idle /\ Can(role[p], "job.edit") /\ Reaches(p, role[p])
  /\ job.next + MaxForm * Cardinality({o \in People : request[o].op = "edit"}) < 1 + MaxForm * MaxEdits
  /\ request' = [request EXCEPT ![p] = [op |-> "edit", role |-> role[p], known |-> RowIds, form |-> f]]
  /\ UNCHANGED <<staff, job, row, record, scorecards, saved, changes>>

\* mutant: the rows are read before the job's row is locked
Existing_Early(p) == request[p].known

\* Those of this job, read with its row locked by the update above.
Existing(p) == RowIds

\* The rows a form leaves: others go, those it names are edited, the rest are new.
Applied(f, existing, rows, next) ==
  LET new == {i \in DOMAIN f : f[i].id \notin existing}
      deleted == existing \ {f[i].id : i \in DOMAIN f}
      edited(q) == {i \in DOMAIN f : f[i].id = q.id /\ q.id \in existing}
  IN {IF edited(q) = {} THEN q
      ELSE LET i == CHOOSE i \in edited(q) : TRUE IN [id |-> q.id, label |-> f[i].label, order |-> i - 1] :
        q \in {q \in rows : q.id \notin deleted}}
     \cup {[id |-> next + Cardinality({j \in new : j < i}), label |-> f[i].label, order |-> i - 1] : i \in new}

UpdateJob(p) ==
  LET q == request[p]
      new == {i \in DOMAIN q.form : q.form[i].id \notin Existing(p)}
  IN
  /\ q.op = "edit" /\ End(p)
  /\ IF Reaches(p, q.role)
     THEN /\ job' = [job EXCEPT !.requirements = Applied(q.form, Existing(p), @, job.next),
                                !.next = @ + Cardinality(new)]
          /\ saved' = [i \in DOMAIN q.form |->
                       IF q.form[i].id \in RowIds THEN q.form[i] ELSE [q.form[i] EXCEPT !.id = None]]
     ELSE UNCHANGED <<job, saved>>
  /\ UNCHANGED <<staff, row, record, scorecards, changes>>
-----------------------------------------------------------------------------
Staffing ==
  \/ \E p \in People :
       \/ \E r \in Roles \cup {None} : SetMembership(p, r)
       \/ AssignToJob(p) \/ UnassignFromJob(p)
       \/ AddDepartmentMember(p) \/ RemoveDepartmentMember(p)
  \/ \E filed \in BOOLEAN : SetJobDepartment(filed)
  \/ CreateDepartment \/ DeleteDepartment \/ SetJobStatus

Deciding(p, a) ==
  \/ RequestCreate(p, a) \/ RequestRemove(p, a) \/ RequestRate(p, a)
  \/ \E to \in Stages : RequestStage(p, a, to)
  \/ ScoreLands(a)

Serving(p) ==
  \/ ReadRow(p)
  \/ UpdateStage(p) \/ CreateApplication(p) \/ SetApplicationRemoved(p) \/ UpsertScorecard(p)

Editing(p) == OpenForm(p) \/ UpdateJob(p)

Next ==
  \/ Staffing
  \/ \E p \in People : Serving(p) \/ Editing(p) \/ \E a \in Applications : Deciding(p, a)

Spec == Init /\ [][Next]_vars
-----------------------------------------------------------------------------
(* Properties. *)

\* A role that may not see scores is told the same whatever the scores are, by the
\* page, the record of decisions, the order of the list and the job's average.
BlindToScores ==
  \A f \in [Scores -> Scores] :
    LET run(x) == [x EXCEPT !.score = f[@]]
        rows == [a \in Applications |->
                  IF row[a] = None \/ row[a].run = None THEN row[a] ELSE [row[a] EXCEPT !.run = run(@)]]
        log == [i \in DOMAIN record |->
                  IF record[i].ai.kind = "shown" THEN [record[i] EXCEPT !.ai.run = run(@)] ELSE record[i]]
    IN \A r \in Roles : ~SeesScores(r) =>
         /\ \A p \in People, a \in Applications : row[a] # None =>
              GetApplication(p, r, a, row, record) = GetApplication(p, r, a, rows, log)
         /\ \A sort \in {"score", "newest", "oldest"} : ListApplications(r, sort, row) = ListApplications(r, sort, rows)
         /\ AverageScore(r, row) = AverageScore(r, rows)

\* However moves, removals and restorations overlap, the last entry of the record says
\* the stage an application is in.
RecordEndsAtStage ==
  \A a \in Applications : row[a] # None =>
    \/ EntriesOf(a, record) = {} /\ row[a].stage = NewStage
    \/ \E i \in EntriesOf(a, record) :
         record[i].to = row[a].stage /\ \A j \in EntriesOf(a, record) : j <= i

\* An application that was removed while it was being moved stays where it was, and
\* nothing is decided about it until it is restored.
RemovedStays ==
  [][\A a \in Applications : row[a] # None /\ row[a].removed =>
       /\ row'[a].stage = row[a].stage
       /\ Len(record') > Len(record) => record'[Len(record')].app # a]_vars

\* Both.
RecordKept == []RecordEndsAtStage /\ RemovedStays

\* "Leaving a workspace ends the access with it": who comes back in a restricted role
\* reaches none of the jobs they were on, by the team or by a department.
LeaversStartOver ==
  [][\A p \in People : role[p] = None /\ role'[p] # None => p \notin team' /\ p \notin department'.members]_vars

\* However edits overlap, the job's requirements are those of the form saved last, in
\* its order, each edited row still the same row.
FormSaved ==
  /\ Cardinality(job.requirements) = Len(saved)
  /\ \A i \in DOMAIN saved : \E q \in job.requirements :
       q.order = i - 1 /\ q.label = saved[i].label /\ (saved[i].id # None => q.id = saved[i].id)

\* "application.stage_changed: an application moves to a different stage."
StageChangesTold ==
  \A i \in DOMAIN record :
    /\ record[i].told <=> record[i].was # record[i].to
    /\ record[i].told => record[i].from = record[i].was
=============================================================================
