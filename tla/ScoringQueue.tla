---------------------------- MODULE ScoringQueue ----------------------------
(***************************************************************************)
(* The AI scoring pipeline: recruiters request scores                      *)
(* (services/scoring.ts), workers on any number of instances claim the     *)
(* queued runs, call the model and commit the result (scoring/queue.ts),   *)
(* under the opt-out policy (scoring/policy.ts) and the token budget       *)
(* (ai-budget.ts).                                                         *)
(*                                                                         *)
(* Postgres runs READ COMMITTED.  A statement, or a transaction whose rows *)
(* are locked by its first statement, is one action; every await between   *)
(* two of them is a point where the other actors may move.                 *)
(***************************************************************************)
EXTENDS Integers, FiniteSets, FiniteSetsExt

CONSTANTS
  Apps,              \* application ids; integers, because row locks are taken in id order
  Companies,
  CompanyOf,         \* the tenant of each application (one job per tenant)
  Inputs,            \* what is scored: resume text, rubric and settings
  Scorable,          \* inputs with enough resume text and at least one requirement
  Workers,           \* lanes of the draining instances
  Users,             \* recruiters with a request in progress
  TenantConcurrency, GlobalConcurrency, MaxAttempts, StaleAfter,
  Delays,            \* the backoffs retryDelayMs can return, in ticks
  Budget, TokenCosts,
  MaxBulk,
  MaxRuns,           \* bound: runs per application
  MaxEdits,          \* bound: changes made from outside the pipeline
  MaxCrashes,        \* bound: workers killed
  None               \* SQL NULL

VARIABLES
  clock,    \* wall clock of every instance
  run,      \* ScoringRun rows
  app,      \* Application rows, with the candidate's flags and the current input
  noticeRequired,  \* Company.aiNoticeRequired
  used,     \* tokens charged to each company in the budget window
  spent,    \* tokens the model really consumed for each company
  worker,   \* the lanes
  user,     \* the requests in progress
  edits, crashes

vars == <<clock, run, app, noticeRequired, used, spent, worker, user, edits, crashes>>

Slots == 1..MaxRuns
RunIds == Apps \X Slots

Statuses == {"NONE", "QUEUED", "RUNNING", "SUCCEEDED", "FAILED"}
Active == {"QUEUED", "RUNNING"}
Terminal == {"SUCCEEDED", "FAILED"}

ASSUME CapsAssumption ==
  /\ TenantConcurrency \in Nat \ {0}
  /\ GlobalConcurrency \in Nat \ {0}
  /\ MaxAttempts \in Nat \ {0}
  /\ StaleAfter \in Nat
  /\ MaxBulk \in Nat

ASSUME DataAssumption ==
  /\ Apps \subseteq Nat
  /\ CompanyOf \in [Apps -> Companies]
  /\ Scorable \subseteq Inputs
  /\ MaxRuns \in Nat
  /\ MaxEdits \in Nat
  /\ MaxCrashes \in Nat
  /\ Budget \in [Companies -> Nat]
  /\ TokenCosts \subseteq Nat
  /\ None \notin Inputs \cup RunIds \cup Nat

\* retryDelayMs: at least 8 s, so a retry is never due in the instant of the claim that failed.
ASSUME DelayAssumption == Delays \subseteq Nat \ {0}

ASSUME FiniteAssumption ==
  /\ IsFiniteSet(Apps)
  /\ IsFiniteSet(Workers)

\* One answer costs a bounded number of tokens: the prompt and MAX_COMPLETION_TOKENS.
ASSUME CostAssumption == \E most \in TokenCosts : \A cost \in TokenCosts : most >= cost

Run == [status: Statuses, attempts: Nat, lockedAt: Nat \cup {None}, nextAttemptAt: Nat,
        createdAt: Nat, inputHash: Inputs \cup {None}, scored: Inputs \cup {None}]

Application == [deleted: BOOLEAN, optOut: BOOLEAN, noticed: BOOLEAN, input: Inputs,
                latest: Slots \cup {None}, aiScore: Inputs \cup {None}]

Lane == [pc: {"idle", "waiting", "counted", "claimed", "loaded", "evaluating",
              "answered", "charged", "failing", "retrying"},
         run: RunIds \cup {None}, token: Nat, attempts: Nat, input: Inputs \cup {None},
         cost: Nat, saturated: SUBSET Companies]

ScoringRequest == [pc: {"idle", "locking", "creating", "reusing"}, bulk: BOOLEAN,
                   want: SUBSET Apps, held: SUBSET Apps, batch: SUBSET Apps,
                   hash: [Apps -> Inputs \cup {None}], previous: Slots \cup {None}]

NewRow == [status |-> "NONE", attempts |-> 0, lockedAt |-> None, nextAttemptAt |-> 0,
           createdAt |-> 0, inputHash |-> None, scored |-> None]

IdleLane == [pc |-> "idle", run |-> None, token |-> 0, attempts |-> 0, input |-> None,
             cost |-> 0, saturated |-> {}]

NoRequest == [pc |-> "idle", bulk |-> FALSE, want |-> {}, held |-> {}, batch |-> {},
              hash |-> [a \in Apps |-> None], previous |-> None]

TypeOK ==
  /\ clock \in Nat
  /\ run \in [RunIds -> Run]
  /\ app \in [Apps -> Application]
  /\ noticeRequired \in [Companies -> BOOLEAN]
  /\ used \in [Companies -> Nat]
  /\ spent \in [Companies -> Nat]
  /\ worker \in [Workers -> Lane]
  /\ user \in [Users -> ScoringRequest]
  /\ edits \in 0..MaxEdits
  /\ crashes \in 0..MaxCrashes
-----------------------------------------------------------------------------
(* What the code reads. *)

App(r) == r[1]
Tenant(r) == CompanyOf[App(r)]

RunsOf(a) == {r \in RunIds : App(r) = a}
ActiveRuns(a) == {r \in RunsOf(a) : run[r].status \in Active}
Running == {r \in RunIds : run[r].status = "RUNNING"}
RunningIn(c) == {r \in Running : Tenant(r) = c}
FreeSlots(a) == {n \in Slots : run[<<a, n>>].status = "NONE"}

\* scoringRefusal: the candidate opted out, or has not had the notice the company requires.
Refused(a) == \/ app[a].optOut
              \/ noticeRequired[CompanyOf[a]] /\ ~app[a].noticed

\* mutant: off by one at the limit
OverBudget_OffByOne(c) == used[c] > Budget[c]

\* assertAiBudget, and the check processRun repeats: remaining <= 0.
OverBudget(c) == used[c] >= Budget[c]

\* ownedBy: only the claim that is still current may finish a run.
OwnedBy(w) == /\ run[worker[w].run].status = "RUNNING"
              /\ run[worker[w].run].lockedAt = worker[w].token

\* mutant: no advisory lock
ClaimLockFree_NoLock == TRUE

\* The advisory lock of claimNextRun is held from the count to the update.
ClaimLockFree == \A w \in Workers : worker[w].pc # "counted"

\* mutant: the rows are read without FOR UPDATE
RowFree_NoLock(a) == TRUE

\* The row locks of lockApplications are held to the end of the request's transaction.
RowFree(a) == \A u \in Users : a \notin user[u].held

\* mutant: the age of the claim is not looked at
StaleRuns_AnyAge == Running

\* recoverStaleRuns: RUNNING and locked before now - STALE_RUN_MS.
StaleRuns == {r \in Running : run[r].lockedAt + StaleAfter < clock}

Init ==
  /\ clock = 0
  /\ run = [r \in RunIds |-> NewRow]
  /\ \E in \in [Apps -> Inputs] :
       app = [a \in Apps |-> [deleted |-> FALSE, optOut |-> FALSE, noticed |-> FALSE,
                              input |-> in[a], latest |-> None, aiScore |-> None]]
  /\ noticeRequired = [c \in Companies |-> FALSE]
  /\ used = [c \in Companies |-> 0]
  /\ spent = [c \in Companies |-> 0]
  /\ worker = [w \in Workers |-> IdleLane]
  /\ user = [u \in Users |-> NoRequest]
  /\ edits = 0
  /\ crashes = 0
-----------------------------------------------------------------------------
(* Requests: services/scoring.ts.  Each is one transaction.                *)

\* requestScoring: one application.
RequestScoring(u, a) ==
  /\ user[u].pc = "idle"
  /\ user' = [user EXCEPT ![u] = [NoRequest EXCEPT !.pc = "locking", !.want = {a}]]
  /\ UNCHANGED <<clock, run, app, noticeRequired, used, spent, worker, edits, crashes>>

\* requestJobScoring: the unscored applications, read before any row is locked.
RequestJobScoring(u, c) ==
  LET unscored == {a \in Apps : /\ CompanyOf[a] = c
                                /\ ~app[a].deleted
                                /\ app[a].latest = None}
  IN /\ user[u].pc = "idle"
     /\ unscored # {}
     /\ user' = [user EXCEPT ![u] = [NoRequest EXCEPT !.pc = "locking", !.bulk = TRUE, !.want = unscored]]
     /\ UNCHANGED <<clock, run, app, noticeRequired, used, spent, worker, edits, crashes>>

\* mutant: the rows are locked in no fixed order
LockNext_AnyOrder(u) ==
  /\ user[u].pc = "locking"
  /\ \E a \in user[u].want \ user[u].held : RowFree(a) /\ user' = [user EXCEPT ![u].held = @ \cup {a}]
  /\ UNCHANGED <<clock, run, app, noticeRequired, used, spent, worker, edits, crashes>>

\* SELECT ... ORDER BY id FOR UPDATE locks the rows one by one, and waits at each.
LockNext(u) ==
  /\ user[u].pc = "locking"
  /\ \E a \in user[u].want \ user[u].held :
       /\ \A b \in user[u].want \ user[u].held : a <= b
       /\ RowFree(a)
       /\ user' = [user EXCEPT ![u].held = @ \cup {a}]
  /\ UNCHANGED <<clock, run, app, noticeRequired, used, spent, worker, edits, crashes>>

\* The application may not be scored now: removed, no usable input, or refused by policy.
Unscorable(a) == app[a].deleted \/ app[a].input \notin Scorable \/ Refused(a)

\* mutant: only the run shown now is compared
Reusable_LatestOnly(a) == {n \in Slots : n = app[a].latest /\ run[<<a, n>>].inputHash = app[a].input}

\* Earlier successful runs of the application for its present input.
Reusable(a) == {n \in Slots : /\ run[<<a, n>>].status = "SUCCEEDED"
                              /\ run[<<a, n>>].inputHash = app[a].input}

EndRequest(u) == user' = [user EXCEPT ![u] = NoRequest]

\* Go on to insert runs for a batch, unless it is empty or the budget is spent.
PlanRuns(u, batch) ==
  IF batch # {} /\ \A a \in batch : ~OverBudget(CompanyOf[a]) /\ FreeSlots(a) # {}
  THEN user' = [user EXCEPT ![u].pc = "creating", ![u].batch = batch,
                            ![u].hash = [a \in Apps |-> app[a].input]]
  ELSE EndRequest(u)

\* requestScoring, holding the row: refused, in progress, reused or queued.
DecideOne(u) ==
  /\ user[u].pc = "locking"
  /\ ~user[u].bulk
  /\ user[u].want = user[u].held
  /\ \E a \in user[u].held :
       \/ /\ Unscorable(a) \/ ActiveRuns(a) # {}
          /\ EndRequest(u)
       \/ /\ ~Unscorable(a) /\ ActiveRuns(a) = {} /\ Reusable(a) = {}
          /\ PlanRuns(u, {a})
       \/ /\ ~Unscorable(a) /\ ActiveRuns(a) = {}
          /\ \E n \in Reusable(a) :
               /\ \A m \in Reusable(a) : m <= n
               /\ IF app[a].latest = n
                  THEN EndRequest(u)
                  ELSE user' = [user EXCEPT ![u].pc = "reusing", ![u].previous = n]
  /\ UNCHANGED <<clock, run, app, noticeRequired, used, spent, worker, edits, crashes>>

\* requestJobScoring, holding the rows: the applications are read again, and the
\* first MAX_BULK_SCORING of those still unscored, idle and scorable are queued.
DecideBulk(u) ==
  LET scorable == {a \in user[u].held : /\ app[a].latest = None
                                        /\ ActiveRuns(a) = {}
                                        /\ ~Unscorable(a)}
  IN /\ user[u].pc = "locking"
     /\ user[u].bulk
     /\ user[u].want = user[u].held
     /\ PlanRuns(u, {a \in scorable : Cardinality({b \in scorable : b < a}) < MaxBulk})
     /\ UNCHANGED <<clock, run, app, noticeRequired, used, spent, worker, edits, crashes>>

\* The row scoringRun.create inserts for application a.
QueuedRun(u, a) == [NewRow EXCEPT !.status = "QUEUED", !.nextAttemptAt = clock,
                                  !.createdAt = clock, !.inputHash = user[u].hash[a]]

\* r is the next unused row of its application; rows fill in creation order.
NextRow(r) == /\ run[r].status = "NONE"
              /\ \A n \in Slots : n < r[2] => run[<<App(r), n>>].status # "NONE"

CreateRuns(u) ==
  /\ user[u].pc = "creating"
  /\ run' = [r \in RunIds |-> IF App(r) \in user[u].batch /\ NextRow(r)
                              THEN QueuedRun(u, App(r)) ELSE run[r]]
  /\ EndRequest(u)
  /\ UNCHANGED <<clock, app, noticeRequired, used, spent, worker, edits, crashes>>

\* mutant: the mirror is not copied
ReuseRun_PointerOnly(u) ==
  /\ user[u].pc = "reusing"
  /\ \E a \in user[u].held : app' = [app EXCEPT ![a].latest = user[u].previous]
  /\ EndRequest(u)
  /\ UNCHANGED <<clock, run, noticeRequired, used, spent, worker, edits, crashes>>

\* Point the application at an earlier run, and copy the score it shows.
ReuseRun(u) ==
  /\ user[u].pc = "reusing"
  /\ \E a \in user[u].held :
       app' = [app EXCEPT ![a].latest = user[u].previous,
                          ![a].aiScore = run[<<a, user[u].previous>>].scored]
  /\ EndRequest(u)
  /\ UNCHANGED <<clock, run, noticeRequired, used, spent, worker, edits, crashes>>

\* The transaction rolls back: a lost connection, or checkAiQuota refused.
AbortRequest(u) ==
  /\ user[u].pc # "idle"
  /\ EndRequest(u)
  /\ UNCHANGED <<clock, run, app, noticeRequired, used, spent, worker, edits, crashes>>
-----------------------------------------------------------------------------
(* The worker: scoring/queue.ts.                                           *)

Step(w, to) == worker' = [worker EXCEPT ![w].pc = to]
GoIdle(w) == worker' = [worker EXCEPT ![w] = IdleLane]

\* A lane calls claimNextRun, which reads the clock before it waits for the lock.
ClaimStart(w) ==
  /\ worker[w].pc = "idle"
  /\ worker' = [worker EXCEPT ![w].pc = "waiting", ![w].token = clock]
  /\ UNCHANGED <<clock, run, app, noticeRequired, used, spent, user, edits, crashes>>

\* Under the lock: the runs in flight, in total and per tenant.
ClaimCount(w) ==
  /\ worker[w].pc = "waiting"
  /\ ClaimLockFree
  /\ IF Cardinality(Running) >= GlobalConcurrency
     THEN GoIdle(w)
     ELSE worker' = [worker EXCEPT
            ![w].pc = "counted",
            ![w].saturated = {c \in Companies : Cardinality(RunningIn(c)) >= TenantConcurrency}]
  /\ UNCHANGED <<clock, run, app, noticeRequired, used, spent, user, edits, crashes>>

\* The runs claimNextRun may take: due at the time it read, of a tenant below its cap.
Due(w) == {r \in RunIds : /\ run[r].status = "QUEUED"
                          /\ run[r].nextAttemptAt <= worker[w].token
                          /\ Tenant(r) \notin worker[w].saturated}

\* ORDER BY nextAttemptAt, createdAt; the id that breaks ties is random.
Before(r, s) == \/ run[r].nextAttemptAt < run[s].nextAttemptAt
                \/ /\ run[r].nextAttemptAt = run[s].nextAttemptAt
                   /\ run[r].createdAt < run[s].createdAt

ClaimTake(w) ==
  /\ worker[w].pc = "counted"
  /\ \/ /\ Due(w) = {}
        /\ GoIdle(w)
        /\ UNCHANGED run
     \/ \E r \in Due(w) :
          /\ \A s \in Due(w) : ~Before(s, r)
          /\ run' = [run EXCEPT ![r].status = "RUNNING", ![r].lockedAt = worker[w].token,
                                ![r].attempts = @ + 1]
          /\ worker' = [worker EXCEPT ![w].pc = "claimed", ![w].run = r,
                                      ![w].attempts = run[r].attempts + 1, ![w].saturated = {}]
  /\ UNCHANGED <<clock, app, noticeRequired, used, spent, user, edits, crashes>>

\* mutant: the policy is not checked again
Load_NoRecheck(w) ==
  /\ worker[w].pc = "claimed"
  /\ worker' = [worker EXCEPT ![w].pc = "loaded", ![w].input = app[App(worker[w].run)].input]
  /\ UNCHANGED <<clock, run, app, noticeRequired, used, spent, user, edits, crashes>>

\* processRun reads the application and the policy, and remembers what it read.
Load(w) ==
  /\ worker[w].pc = "claimed"
  /\ LET a == App(worker[w].run)
     IN IF Unscorable(a) THEN Step(w, "failing")
        ELSE worker' = [worker EXCEPT ![w].pc = "loaded", ![w].input = app[a].input]
  /\ UNCHANGED <<clock, run, app, noticeRequired, used, spent, user, edits, crashes>>

CheckBudget(w) ==
  /\ worker[w].pc = "loaded"
  /\ Step(w, IF OverBudget(Tenant(worker[w].run)) THEN "failing" ELSE "evaluating")
  /\ UNCHANGED <<clock, run, app, noticeRequired, used, spent, user, edits, crashes>>

\* The model answers: a valid answer goes on, one rejected twice throws.
Evaluate(w) ==
  /\ worker[w].pc = "evaluating"
  /\ \E cost \in TokenCosts, to \in {"answered", "failing"} :
       /\ spent' = [spent EXCEPT ![Tenant(worker[w].run)] = @ + cost]
       /\ worker' = [worker EXCEPT ![w].pc = to, ![w].cost = cost]
  /\ UNCHANGED <<clock, run, app, noticeRequired, used, user, edits, crashes>>

\* The provider fails: retried later if transient and attempts are left (retryOrFail).
EvaluateError(w) ==
  /\ worker[w].pc = "evaluating"
  /\ \E transient \in BOOLEAN :
       Step(w, IF transient /\ worker[w].attempts < MaxAttempts THEN "retrying" ELSE "failing")
  /\ UNCHANGED <<clock, run, app, noticeRequired, used, spent, user, edits, crashes>>

\* Spent whether or not this worker still owns the run.
ChargeAiTokens(w) ==
  /\ worker[w].pc = "answered"
  /\ used' = [used EXCEPT ![Tenant(worker[w].run)] = @ + worker[w].cost]
  /\ Step(w, "charged")
  /\ UNCHANGED <<clock, run, app, noticeRequired, spent, user, edits, crashes>>

\* The finished row: the hash is computed again, from the input the model was given.
Succeeded(w) == [run[worker[w].run] EXCEPT
  !.status = "SUCCEEDED", !.lockedAt = None, !.inputHash = worker[w].input, !.scored = worker[w].input]

\* One transaction: the run, and the application's pointer and mirror of it.
Commit(w) ==
  LET r == worker[w].run
  IN /\ worker[w].pc = "charged"
     /\ RowFree(App(r))
     /\ IF OwnedBy(w)
        THEN /\ run' = [run EXCEPT ![r] = Succeeded(w)]
             /\ app' = [app EXCEPT ![App(r)].latest = r[2], ![App(r)].aiScore = worker[w].input]
        ELSE UNCHANGED <<run, app>>
     /\ GoIdle(w)
     /\ UNCHANGED <<clock, noticeRequired, used, spent, user, edits, crashes>>

\* An error outside the model call, a database error say: drainScoringQueue's catch.
Throw(w) ==
  /\ worker[w].pc \in {"claimed", "loaded", "answered", "charged"}
  /\ Step(w, "failing")
  /\ UNCHANGED <<clock, run, app, noticeRequired, used, spent, user, edits, crashes>>

\* failRun
FailRun(w) ==
  /\ worker[w].pc = "failing"
  /\ run' = IF OwnedBy(w)
            THEN [run EXCEPT ![worker[w].run].status = "FAILED", ![worker[w].run].lockedAt = None]
            ELSE run
  /\ GoIdle(w)
  /\ UNCHANGED <<clock, app, noticeRequired, used, spent, user, edits, crashes>>

RetryRun(w) ==
  /\ worker[w].pc = "retrying"
  /\ \E d \in Delays :
       run' = IF OwnedBy(w)
              THEN [run EXCEPT ![worker[w].run].status = "QUEUED", ![worker[w].run].lockedAt = None,
                               ![worker[w].run].nextAttemptAt = clock + d]
              ELSE run
  /\ GoIdle(w)
  /\ UNCHANGED <<clock, app, noticeRequired, used, spent, user, edits, crashes>>

\* mutant: recovery does not count attempts
RecoverStaleRuns_AlwaysRequeue ==
  /\ StaleRuns # {}
  /\ run' = [r \in RunIds |-> IF r \notin StaleRuns THEN run[r] ELSE
       [run[r] EXCEPT !.status = "QUEUED", !.lockedAt = None, !.nextAttemptAt = clock]]
  /\ UNCHANGED <<clock, app, noticeRequired, used, spent, worker, user, edits, crashes>>

\* recoverStaleRuns, at the start of every drain.
RecoverStaleRuns ==
  /\ StaleRuns # {}
  /\ run' = [r \in RunIds |->
       IF r \notin StaleRuns THEN run[r]
       ELSE IF run[r].attempts < MaxAttempts
            THEN [run[r] EXCEPT !.status = "QUEUED", !.lockedAt = None, !.nextAttemptAt = clock]
            ELSE [run[r] EXCEPT !.status = "FAILED", !.lockedAt = None]]
  /\ UNCHANGED <<clock, app, noticeRequired, used, spent, worker, user, edits, crashes>>

\* A worker is killed (function timeout, deploy); the database drops its locks.
Crash(w) ==
  /\ worker[w].pc # "idle"
  /\ crashes < MaxCrashes
  /\ crashes' = crashes + 1
  /\ GoIdle(w)
  /\ UNCHANGED <<clock, run, app, noticeRequired, used, spent, user, edits>>
-----------------------------------------------------------------------------
(* The rest of the application, and time.                                  *)

\* The resume or the rubric is edited.
EditInput(a) ==
  /\ edits < MaxEdits
  /\ edits' = edits + 1
  /\ \E in \in Inputs : app' = [app EXCEPT ![a].input = in]
  /\ UNCHANGED <<clock, run, noticeRequired, used, spent, worker, user, crashes>>

\* setCandidateAiFlags.
SetCandidateAiFlags(a) ==
  /\ edits < MaxEdits
  /\ edits' = edits + 1
  /\ \E o, n \in BOOLEAN : app' = [app EXCEPT ![a].optOut = o, ![a].noticed = n]
  /\ UNCHANGED <<clock, run, noticeRequired, used, spent, worker, user, crashes>>

\* updateAiPolicy: the company starts or stops requiring the notice.
SetNoticeRequired(c) ==
  /\ edits < MaxEdits
  /\ edits' = edits + 1
  /\ noticeRequired' = [noticeRequired EXCEPT ![c] = ~@]
  /\ UNCHANGED <<clock, run, app, used, spent, worker, user, crashes>>

\* setApplicationRemoved: an update of the row, so it waits for a request's lock.
SetApplicationRemoved(a) ==
  /\ edits < MaxEdits
  /\ edits' = edits + 1
  /\ RowFree(a)
  /\ app' = [app EXCEPT ![a].deleted = ~@]
  /\ UNCHANGED <<clock, run, noticeRequired, used, spent, worker, user, crashes>>

\* Time matters only while a backoff or a lease is still running: once every
\* queued run is due and every claim is stale, a later clock decides nothing else.
TimerPending == \E r \in RunIds :
  \/ run[r].status = "QUEUED" /\ run[r].nextAttemptAt > clock
  \/ run[r].status = "RUNNING" /\ r \notin StaleRuns

Tick ==
  /\ TimerPending
  /\ clock' = clock + 1
  /\ UNCHANGED <<run, app, noticeRequired, used, spent, worker, user, edits, crashes>>

Request(u) ==
  \/ \E a \in Apps : RequestScoring(u, a)
  \/ \E c \in Companies : RequestJobScoring(u, c)
  \/ LockNext(u)
  \/ DecideOne(u)
  \/ DecideBulk(u)
  \/ CreateRuns(u)
  \/ ReuseRun(u)
  \/ AbortRequest(u)

Work(w) ==
  \/ ClaimStart(w)
  \/ ClaimCount(w)
  \/ ClaimTake(w)
  \/ Load(w)
  \/ CheckBudget(w)
  \/ Evaluate(w)
  \/ EvaluateError(w)
  \/ ChargeAiTokens(w)
  \/ Commit(w)
  \/ Throw(w)
  \/ FailRun(w)
  \/ RetryRun(w)
  \/ Crash(w)

Outside ==
  \/ \E a \in Apps : EditInput(a) \/ SetCandidateAiFlags(a) \/ SetApplicationRemoved(a)
  \/ \E c \in Companies : SetNoticeRequired(c)

Next ==
  \/ \E u \in Users : Request(u)
  \/ \E w \in Workers : Work(w)
  \/ RecoverStaleRuns
  \/ Outside
  \/ Tick

Spec == Init /\ [][Next]_vars
-----------------------------------------------------------------------------
(* Fairness.  A cron calls drainScoringQueue every minute, so lanes keep    *)
(* claiming and stale runs keep being recovered; a lane's own steps follow  *)
(* each other.  Postgres grants row and advisory locks in queue order, so   *)
(* waiting for one is strongly fair.                                       *)

Progress(w) == \/ Load(w)
               \/ CheckBudget(w)
               \/ Evaluate(w)
               \/ EvaluateError(w)
               \/ ChargeAiTokens(w)
               \/ FailRun(w)
               \/ RetryRun(w)

Fairness ==
  /\ WF_vars(Tick)
  /\ WF_vars(RecoverStaleRuns)
  /\ \A w \in Workers : /\ WF_vars(ClaimStart(w))
                        /\ SF_vars(ClaimCount(w))
                        /\ WF_vars(ClaimTake(w))
                        /\ WF_vars(Progress(w))
                        /\ SF_vars(Commit(w))
  /\ \A u \in Users : /\ SF_vars(LockNext(u))
                      /\ WF_vars(DecideOne(u) \/ DecideBulk(u))
                      /\ WF_vars(CreateRuns(u) \/ ReuseRun(u))

FairSpec == Spec /\ Fairness
-----------------------------------------------------------------------------
(* Properties.                                                             *)

\* Two clicks, or a click racing a bulk request, never leave an application
\* with two runs in flight (lockApplications: "can't be raced into a
\* duplicate run").
OneActiveRun == \A r, s \in RunIds :
  /\ App(r) = App(s)
  /\ run[r].status \in Active
  /\ run[s].status \in Active
  => r = s

\* Both concurrency caps are exact, however many instances claim at once
\* (claimNextRun: "the caps are exact rather than best-effort").
WithinCaps ==
  /\ Cardinality(Running) <= GlobalConcurrency
  /\ \A c \in Companies : Cardinality(RunningIn(c)) <= TenantConcurrency

\* A worker that outlived its claim is fenced off: two workers processing the
\* same run never both pass ownedBy, although the token is only a clock reading.
OneOwner == \A v, w \in Workers :
  /\ worker[v].run # None
  /\ worker[v].run = worker[w].run
  /\ OwnedBy(v)
  /\ OwnedBy(w)
  => v = w

\* The score the application shows is the score of the run it points at, that
\* run succeeded, and an application with a successful run points at one
\* (so "unscored" in requestJobScoring means what it says).
MirrorMatchesRun == \A a \in Apps :
  IF app[a].latest = None
  THEN app[a].aiScore = None /\ \A r \in RunsOf(a) : run[r].status # "SUCCEEDED"
  ELSE /\ run[<<a, app[a].latest>>].status = "SUCCEEDED"
       /\ app[a].aiScore = run[<<a, app[a].latest>>].scored

\* A finished run is filed under the hash of the input that was really scored,
\* even when the resume or the rubric changed while it waited; reuse relies on it.
HashMatchesScored == \A r \in RunIds :
  run[r].status = "SUCCEEDED" => run[r].scored \in Scorable /\ run[r].inputHash = run[r].scored

\* Both, which is what reuse relies on: a reused run is one whose score still stands
\* for the input it is filed under.
ScoresAgree == MirrorMatchesRun /\ HashMatchesScored

\* A tenant overshoots its token budget by less than one answer per worker,
\* counting the workers that had already lost their claim (assertAiBudget:
\* "overshoot by at most the requests already in flight").
BudgetOvershoot == \A c \in Companies :
  used[c] > 0 => used[c] < Budget[c] + Cardinality(Workers) * Max(TokenCosts)

\* A run that has finished is never written again, which is what the
\* scoring_record_guard trigger enforces in the database.
FinishedRunsFrozen == [][\A r \in RunIds : run[r].status \in Terminal => run'[r] = run[r]]_vars

\* A new run is queued only for an input no earlier run of the application
\* succeeded with ("instead of paying for the same answer twice").
NeverPaidTwice == [][\A r, s \in RunIds :
  /\ run[r].status = "NONE"
  /\ run'[r].status # "NONE"
  /\ App(r) = App(s)
  /\ run[s].status = "SUCCEEDED"
  => run'[r].inputHash # run[s].inputHash]_vars

\* A run still queued when its candidate may no longer be scored does not
\* succeed as long as that lasts (processRun checks scoringRefusal again).
OptOutHonoured == \A r \in RunIds :
  [](run[r].status = "QUEUED" /\ []Refused(App(r)) => [](run[r].status # "SUCCEEDED"))

\* Every queued run is settled: no crash, lost claim or full queue strands it.
RunsSettle == \A r \in RunIds : run[r].status = "QUEUED" ~> run[r].status \in Terminal

\* Requests that lock overlapping sets of applications never wait on each
\* other for ever (lockApplications: "can't deadlock").
RequestsFinish == \A u \in Users : user[u].pc # "idle" ~> user[u].pc = "idle"

\* Neither a run nor a request is stranded, whatever crashes or waits.
ScoringSettles == RunsSettle /\ RequestsFinish

\* Where a run is in its queue.
QueueState(s) == CASE s = "NONE" -> "absent"
                   [] s = "QUEUED" -> "waiting"
                   [] s = "RUNNING" -> "working"
                   [] OTHER -> "done"

Queue == INSTANCE WorkQueue WITH
  Items <- RunIds,
  MaxAttempts <- MaxAttempts,
  state <- [r \in RunIds |-> QueueState(run[r].status)],
  attempts <- [r \in RunIds |-> run[r].attempts]

\* Scoring runs are a work queue: crashes, retries, lost claims and recoveries
\* together never start more than MAX_ATTEMPTS attempts, and a run that ended is
\* never queued or claimed again.
ImplementsWorkQueue == Queue!Spec

-----------------------------------------------------------------------------
(* The inductive invariant behind the properties.                          *)

Processing == {"claimed", "loaded", "evaluating", "answered", "charged", "failing", "retrying"}
HasInput == {"loaded", "evaluating", "answered", "charged"}

\* A lane that processes a run knows it, and scores only an input that may be scored.
LanesInv == \A w \in Workers :
  /\ worker[w].pc \in Processing => worker[w].run \in RunIds
  /\ worker[w].pc \notin Processing => worker[w].run = None
  /\ worker[w].pc \in HasInput => worker[w].input \in Scorable
  /\ worker[w].token <= clock

\* Row locks exclude each other, and a request relies only on rows it holds.
RequestsInv == \A u \in Users :
  /\ user[u].pc = "idle" => user[u].held = {}
  /\ user[u].pc # "idle" /\ ~user[u].bulk => \E a \in Apps : user[u].want = {a}
  /\ user[u].pc = "reusing" => /\ user[u].previous \in Slots
                               /\ ~user[u].bulk
                               /\ user[u].held = user[u].want
                               /\ \A a \in user[u].held : run[<<a, user[u].previous>>].status = "SUCCEEDED"
  /\ user[u].pc = "creating" => /\ user[u].batch \subseteq user[u].held
                                /\ \A a \in user[u].batch : ActiveRuns(a) = {}
  /\ \A v \in Users : v # u => user[u].held \cap user[v].held = {}

\* The clock orders the claims of a run: a queued run is due only after every
\* claim ever made on it, a running one carries the latest of them.
ClaimsInv ==
  /\ \A r \in RunIds : run[r].status = "RUNNING" => run[r].lockedAt \in Nat
  /\ \A w \in Workers : worker[w].run # None =>
       /\ run[worker[w].run].status # "NONE"
       /\ run[worker[w].run].status = "QUEUED" => worker[w].token < run[worker[w].run].nextAttemptAt
       /\ run[worker[w].run].status = "RUNNING" => worker[w].token <= run[worker[w].run].lockedAt

\* A queued run has an attempt left, a row not used yet has all of them, and
\* the current claim of a run knows how many are gone: it decides on a retry
\* by its own copy.
AttemptsInv ==
  /\ \A r \in RunIds : /\ run[r].attempts <= MaxAttempts
                       /\ run[r].status = "QUEUED" => run[r].attempts < MaxAttempts
                       /\ run[r].status = "NONE" => run[r].attempts = 0
  /\ \A w \in Workers :
       /\ worker[w].pc \in Processing /\ OwnedBy(w) => worker[w].attempts = run[worker[w].run].attempts
       /\ worker[w].pc = "retrying" => worker[w].attempts < MaxAttempts
=============================================================================
