------------------------- MODULE ScoringQueueProofs -------------------------
(***************************************************************************)
(* Proofs about ScoringQueue, for any number of applications, tenants,     *)
(* workers, recruiters and runs, and any caps, leases and backoffs: one    *)
(* active run and one owner, the score shown, the work queue it implements *)
(* and the switches it honours; then the limits, which are the caps, the   *)
(* token budget and no input paid for twice.                               *)
(***************************************************************************)
EXTENDS ScoringQueue, FiniteSetTheorems, TLAPS

\* The constant records of the model have their types.
LEMMA ConstantRecords ==
  /\ NewRow \in Run
  /\ IdleLane \in Lane
  /\ NoRequest \in ScoringRequest
BY DEF NewRow, Run, Statuses, IdleLane, Lane, NoRequest, ScoringRequest

\* Every step of a request keeps the types.
LEMMA TypeRequest ==
  ASSUME TypeOK, RequestsInv, NEW u \in Users, Request(u)
  PROVE  TypeOK'
<1> USE DataAssumption, ConstantRecords
<1>1. ASSUME NEW a \in Apps, RequestScoring(u, a) PROVE TypeOK'
  BY <1>1, ZenonT(60) DEF RequestScoring, TypeOK, ScoringRequest, NoRequest
<1>2. ASSUME NEW c \in Companies, RequestJobScoring(u, c) PROVE TypeOK'
  BY <1>2 DEF RequestJobScoring, TypeOK, ScoringRequest, NoRequest
<1>3. CASE LockNext(u)
  <2>1. PICK a \in user[u].want : user' = [user EXCEPT ![u].held = @ \cup {a}]
    BY <1>3 DEF LockNext
  <2>2. user[u] \in ScoringRequest
    BY DEF TypeOK
  <2>3. a \in Apps
    BY <2>2 DEF ScoringRequest
  <2>4. [user[u] EXCEPT !.held = @ \cup {a}] \in ScoringRequest
    BY <2>2, <2>3 DEF ScoringRequest
  <2>5. user' \in [Users -> ScoringRequest]
    BY <2>1, <2>4 DEF TypeOK
  <2> QED
    BY <1>3, <2>5 DEF LockNext, TypeOK
<1>4. ASSUME NEW batch \in SUBSET Apps, PlanRuns(u, batch)
      PROVE  user' \in [Users -> ScoringRequest]
  <2>1. user[u] \in ScoringRequest
    BY DEF TypeOK
  <2>2. [a \in Apps |-> app[a].input] \in [Apps -> Inputs \cup {None}]
    BY DEF TypeOK, Application
  <2>3. [user[u] EXCEPT !.pc = "creating", !.batch = batch, !.hash = [a \in Apps |-> app[a].input]]
          \in ScoringRequest
    BY <2>1, <2>2 DEF ScoringRequest
  <2> QED
    BY <1>4, <2>3 DEF PlanRuns, EndRequest, TypeOK
<1>5. CASE DecideOne(u)
  <2>1. user[u].held \in SUBSET Apps
    BY DEF TypeOK, ScoringRequest
  <2>2. ASSUME EndRequest(u) PROVE user' \in [Users -> ScoringRequest]
    BY <2>2 DEF EndRequest, TypeOK
  <2>3. ASSUME NEW n \in Slots, user' = [user EXCEPT ![u].pc = "reusing", ![u].previous = n]
        PROVE  user' \in [Users -> ScoringRequest]
    <3>1. [user[u] EXCEPT !.pc = "reusing", !.previous = n] \in ScoringRequest
      BY DEF TypeOK, ScoringRequest
    <3> QED
      BY <2>3, <3>1 DEF TypeOK
  <2>4. user' \in [Users -> ScoringRequest]
    BY <1>5, <1>4, <2>1, <2>2, <2>3 DEF DecideOne, Reusable
  <2> QED
    BY <1>5, <2>4 DEF DecideOne, TypeOK
<1>6. CASE DecideBulk(u)
  <2> DEFINE scorable == {a \in user[u].held : /\ app[a].latest = None
                                               /\ ActiveRuns(a) = {}
                                               /\ ~Unscorable(a)}
             batch == {a \in scorable : Cardinality({b \in scorable : b < a}) < MaxBulk}
  <2>1. batch \in SUBSET Apps
    BY DEF TypeOK, ScoringRequest
  <2>2. PlanRuns(u, batch)
    BY <1>6 DEF DecideBulk
  <2> QED
    BY <1>4, <1>6, <2>1, <2>2 DEF DecideBulk, TypeOK
<1>7. CASE CreateRuns(u)
  <2>1. ASSUME NEW a \in Apps PROVE QueuedRun(u, a) \in Run
    <3>1. clock \in Nat /\ user[u].hash[a] \in Inputs \cup {None}
      BY DEF TypeOK, ScoringRequest
    <3> QED
      BY <3>1 DEF QueuedRun, NewRow, Run, Statuses
  <2>2. \A r \in RunIds : App(r) \in Apps
    BY DEF RunIds, App
  <2>3. run' \in [RunIds -> Run]
    BY <1>7, <2>1, <2>2 DEF CreateRuns, TypeOK
  <2>4. user' \in [Users -> ScoringRequest]
    BY <1>7 DEF CreateRuns, EndRequest, TypeOK
  <2> QED
    BY <1>7, <2>3, <2>4 DEF CreateRuns, TypeOK
<1>8. CASE ReuseRun(u)
  <2>1. PICK a \in user[u].held : app' = [app EXCEPT ![a].latest = user[u].previous,
                          ![a].aiScore = run[<<a, user[u].previous>>].scored]
    BY <1>8 DEF ReuseRun
  <2>2. a \in Apps /\ user[u].previous \in Slots
    BY <1>8 DEF ReuseRun, RequestsInv, TypeOK, ScoringRequest
  <2>3. run[<<a, user[u].previous>>].scored \in Inputs \cup {None}
    BY <2>2 DEF TypeOK, Run, RunIds
  <2>4. ASSUME NEW latest \in Slots, NEW score \in Inputs \cup {None}
        PROVE  [app[a] EXCEPT !.latest = latest, !.aiScore = score] \in Application
    <3>1. app[a] \in Application
      BY <2>2 DEF TypeOK
    <3> QED
      BY <3>1 DEF Application
  <2>5. app' \in [Apps -> Application]
    BY <2>1, <2>2, <2>3, <2>4 DEF TypeOK
  <2> QED
    BY <1>8, <2>5 DEF ReuseRun, EndRequest, TypeOK
<1>9. CASE AbortRequest(u)
  BY <1>9 DEF AbortRequest, EndRequest, TypeOK
<1> QED
  BY <1>1, <1>2, <1>3, <1>5, <1>6, <1>7, <1>8, <1>9 DEF Request

\* Every step of a worker keeps the types.
LEMMA TypeWork ==
  ASSUME TypeOK, LanesInv, NEW w \in Workers, Work(w)
  PROVE  TypeOK'
<1> USE DataAssumption, ConstantRecords
<1>0. worker[w] \in Lane
  BY DEF TypeOK
<1>a. ASSUME NEW to \in {"claimed", "loaded", "evaluating", "answered", "charged", "failing", "retrying"},
             Step(w, to)
      PROVE  worker' \in [Workers -> Lane]
  <2>1. [worker[w] EXCEPT !.pc = to] \in Lane
    BY <1>0 DEF Lane
  <2> QED
    BY <1>a, <2>1 DEF Step, TypeOK
<1>b. ASSUME GoIdle(w) PROVE worker' \in [Workers -> Lane]
  BY <1>b DEF GoIdle, TypeOK
<1>c. worker[w].pc \in Processing => worker[w].run \in RunIds
  BY DEF LanesInv
<1>1. CASE ClaimStart(w)
  <2>1. [worker[w] EXCEPT !.pc = "waiting", !.token = clock] \in Lane
    BY <1>0 DEF Lane, TypeOK
  <2> QED
    BY <1>1, <2>1 DEF ClaimStart, TypeOK
<1>2. CASE ClaimCount(w)
  <2> DEFINE full == {c \in Companies : Cardinality(RunningIn(c)) >= TenantConcurrency}
  <2>1. [worker[w] EXCEPT !.pc = "counted", !.saturated = full] \in Lane
    BY <1>0 DEF Lane
  <2>2. worker' \in [Workers -> Lane]
    BY <1>2, <1>b, <2>1 DEF ClaimCount, TypeOK
  <2> QED
    BY <1>2, <2>2 DEF ClaimCount, TypeOK
<1>3. CASE ClaimTake(w)
  <2>1. CASE GoIdle(w) /\ UNCHANGED run
    BY <1>3, <1>b, <2>1 DEF ClaimTake, TypeOK
  <2>2. ASSUME NEW r \in Due(w),
               run' = [run EXCEPT ![r].status = "RUNNING", ![r].lockedAt = worker[w].token,
                                  ![r].attempts = @ + 1],
               worker' = [worker EXCEPT ![w].pc = "claimed", ![w].run = r,
                                        ![w].attempts = run[r].attempts + 1, ![w].saturated = {}]
        PROVE  TypeOK'
    <3>1. r \in RunIds /\ run[r] \in Run
      BY DEF Due, TypeOK
    <3>a. worker[w].token \in Nat \cup {None} /\ run[r].attempts + 1 \in Nat
      BY <1>0, <3>1 DEF Run, Lane
    <3>2. [run[r] EXCEPT !.status = "RUNNING", !.lockedAt = worker[w].token, !.attempts = @ + 1] \in Run
      BY <3>a, <3>1 DEF Run, Statuses
    <3>3. [worker[w] EXCEPT !.pc = "claimed", !.run = r, !.attempts = run[r].attempts + 1,
                            !.saturated = {}] \in Lane
      BY <1>0, <3>a, <3>1 DEF Lane
    <3>4. run' \in [RunIds -> Run]
      BY <2>2, <3>1, <3>2 DEF TypeOK
    <3>5. worker' \in [Workers -> Lane]
      BY <2>2, <3>3 DEF TypeOK
    <3> QED
      BY <1>3, <3>4, <3>5 DEF ClaimTake, TypeOK
  <2> QED
    BY <1>3, <2>1, <2>2 DEF ClaimTake
<1>4. CASE Load(w)
  <2>1. App(worker[w].run) \in Apps
    BY <1>4, <1>c DEF Load, Processing, RunIds, App
  <2>2. [worker[w] EXCEPT !.pc = "loaded", !.input = app[App(worker[w].run)].input] \in Lane
    BY <1>0, <2>1 DEF Lane, TypeOK, Application
  <2>3. worker' \in [Workers -> Lane]
    BY <1>4, <1>a, <2>2 DEF Load, TypeOK
  <2> QED
    BY <1>4, <2>3 DEF Load, TypeOK
<1>5. CASE CheckBudget(w)
  <2>1. worker' \in [Workers -> Lane]
    BY <1>5, <1>a DEF CheckBudget
  <2> QED
    BY <1>5, <2>1 DEF CheckBudget, TypeOK
<1>d. worker[w].pc \in Processing => Tenant(worker[w].run) \in Companies
  BY <1>c DEF Tenant, App, RunIds
<1>6. CASE Evaluate(w)
  <2>1. PICK cost \in TokenCosts, to \in {"answered", "failing"} :
          /\ spent' = [spent EXCEPT ![Tenant(worker[w].run)] = @ + cost]
          /\ worker' = [worker EXCEPT ![w].pc = to, ![w].cost = cost]
    BY <1>6 DEF Evaluate
  <2>2. [worker[w] EXCEPT !.pc = to, !.cost = cost] \in Lane
    BY <1>0, <2>1 DEF Lane
  <2>3. worker' \in [Workers -> Lane]
    BY <2>1, <2>2 DEF TypeOK
  <2>4. spent' \in [Companies -> Nat]
    BY <1>6, <1>d, <2>1 DEF Evaluate, TypeOK, Processing
  <2> QED
    BY <1>6, <2>3, <2>4 DEF Evaluate, TypeOK
<1>7. CASE EvaluateError(w)
  <2>1. worker' \in [Workers -> Lane]
    BY <1>7, <1>a DEF EvaluateError
  <2> QED
    BY <1>7, <2>1 DEF EvaluateError, TypeOK
<1>8. CASE ChargeAiTokens(w)
  <2>1. worker' \in [Workers -> Lane]
    BY <1>8, <1>a DEF ChargeAiTokens
  <2>2. worker[w].cost \in Nat
    BY <1>0 DEF Lane
  <2>3. used' \in [Companies -> Nat]
    BY <1>8, <1>d, <2>2 DEF ChargeAiTokens, TypeOK, Processing
  <2> QED
    BY <1>8, <2>1, <2>3 DEF ChargeAiTokens, TypeOK
<1>9. CASE Commit(w)
  <2> DEFINE r == worker[w].run
  <2>1. r \in RunIds /\ worker[w].input \in Inputs /\ worker[w].input \in Inputs \cup {None}
    BY <1>9, <1>c DEF Commit, Processing, HasInput, LanesInv
  <2>2. run[r] \in Run /\ r[2] \in Slots /\ App(r) \in Apps
    BY <2>1 DEF TypeOK, RunIds, App
  <2>3. Succeeded(w) \in Run
    BY <2>1, <2>2 DEF Succeeded, Run, Statuses
  <2>4. [app[App(r)] EXCEPT !.latest = r[2], !.aiScore = worker[w].input] \in Application
    BY <2>1, <2>2, ZenonT(90) DEF TypeOK, Application
  <2>5. worker' \in [Workers -> Lane]
    BY <1>9, <1>b DEF Commit
  <2>6. run' \in [RunIds -> Run]
    BY <1>9, <2>1, <2>3 DEF Commit, TypeOK
  <2>7. app' \in [Apps -> Application]
    BY <1>9, <2>2, <2>4 DEF Commit, TypeOK
  <2> QED
    BY <1>9, <2>5, <2>6, <2>7 DEF Commit, TypeOK
<1>10. CASE Throw(w)
  <2>1. worker' \in [Workers -> Lane]
    BY <1>10, <1>a DEF Throw
  <2> QED
    BY <1>10, <2>1 DEF Throw, TypeOK
<1>11. CASE FailRun(w)
  <2>1. worker[w].run \in RunIds /\ run[worker[w].run] \in Run
    BY <1>11, <1>c DEF FailRun, Processing, TypeOK
  <2>2. [run[worker[w].run] EXCEPT !.status = "FAILED", !.lockedAt = None] \in Run
    BY <2>1 DEF Run, Statuses
  <2>3. run' \in [RunIds -> Run]
    BY <1>11, <2>1, <2>2 DEF FailRun, TypeOK
  <2>4. worker' \in [Workers -> Lane]
    BY <1>11, <1>b DEF FailRun
  <2> QED
    BY <1>11, <2>3, <2>4 DEF FailRun, TypeOK
<1>12. CASE RetryRun(w)
  <2>1. worker[w].run \in RunIds /\ run[worker[w].run] \in Run
    BY <1>12, <1>c DEF RetryRun, Processing, TypeOK
  <2>2. ASSUME NEW d \in Delays
        PROVE  [run[worker[w].run] EXCEPT !.status = "QUEUED", !.lockedAt = None,
                                          !.nextAttemptAt = clock + d] \in Run
    <3>1. clock + d \in Nat
      BY DelayAssumption DEF TypeOK
    <3> QED
      BY <2>1, <3>1 DEF Run, Statuses
  <2>3. run' \in [RunIds -> Run]
    BY <1>12, <2>1, <2>2, ZenonT(60) DEF RetryRun, TypeOK
  <2>4. worker' \in [Workers -> Lane]
    BY <1>12, <1>b DEF RetryRun
  <2> QED
    BY <1>12, <2>3, <2>4 DEF RetryRun, TypeOK
<1>13. CASE Crash(w)
  <2>1. worker' \in [Workers -> Lane]
    BY <1>13, <1>b DEF Crash
  <2> QED
    BY <1>13, <2>1 DEF Crash, TypeOK
<1> QED
  BY <1>1, <1>2, <1>3, <1>4, <1>5, <1>6, <1>7, <1>8, <1>9, <1>10, <1>11, <1>12, <1>13 DEF Work

\* Recovery, the outside world and the clock keep the types.
LEMMA TypeOther ==
  ASSUME TypeOK, RecoverStaleRuns \/ Outside \/ Tick
  PROVE  TypeOK'
<1> USE DataAssumption
<1>1. CASE RecoverStaleRuns
  <2>1. ASSUME NEW r \in RunIds
        PROVE  /\ [run[r] EXCEPT !.status = "QUEUED", !.lockedAt = None, !.nextAttemptAt = clock] \in Run
               /\ [run[r] EXCEPT !.status = "FAILED", !.lockedAt = None] \in Run
    BY ZenonT(60) DEF TypeOK, Run, Statuses
  <2>2. run' \in [RunIds -> Run]
    BY <1>1, <2>1 DEF RecoverStaleRuns, TypeOK
  <2> QED
    BY <1>1, <2>2 DEF RecoverStaleRuns, TypeOK
<1>2. ASSUME NEW a \in Apps, EditInput(a) PROVE TypeOK'
  <2>1. \A in \in Inputs : [app[a] EXCEPT !.input = in] \in Application
    BY DEF TypeOK, Application
  <2>2. app' \in [Apps -> Application]
    BY <1>2, <2>1 DEF EditInput, TypeOK
  <2> QED
    BY <1>2, <2>2 DEF EditInput, TypeOK
<1>3. ASSUME NEW a \in Apps, SetCandidateAiFlags(a) PROVE TypeOK'
  <2>1. PICK o \in BOOLEAN, n \in BOOLEAN : app' = [app EXCEPT ![a].optOut = o, ![a].noticed = n]
    BY <1>3 DEF SetCandidateAiFlags
  <2>a. [app[a] EXCEPT !.optOut = o, !.noticed = n] \in Application
    BY ZenonT(90) DEF TypeOK, Application
  <2>2. app' \in [Apps -> Application]
    BY <2>1, <2>a DEF TypeOK
  <2> QED
    BY <1>3, <2>2 DEF SetCandidateAiFlags, TypeOK
<1>4. ASSUME NEW a \in Apps, SetApplicationRemoved(a) PROVE TypeOK'
  <2>1. [app[a] EXCEPT !.deleted = ~@] \in Application
    BY ZenonT(90) DEF TypeOK, Application
  <2>2. app' \in [Apps -> Application]
    BY <1>4, <2>1 DEF SetApplicationRemoved, TypeOK
  <2> QED
    BY <1>4, <2>2 DEF SetApplicationRemoved, TypeOK
<1>5. ASSUME NEW c \in Companies, SetNoticeRequired(c) PROVE TypeOK'
  BY <1>5 DEF SetNoticeRequired, TypeOK
<1>6. CASE Tick
  BY <1>6 DEF Tick, TypeOK
<1> QED
  BY <1>1, <1>2, <1>3, <1>4, <1>5, <1>6 DEF Outside

LEMMA TypeStep ==
  ASSUME TypeOK, LanesInv, RequestsInv, [Next]_vars
  PROVE  TypeOK'
<1>1. CASE UNCHANGED vars
  BY <1>1 DEF vars, TypeOK
<1> QED
  BY <1>1, TypeRequest, TypeWork, TypeOther DEF Next
-----------------------------------------------------------------------------
(* Lanes.                                                                  *)

\* Only the lane that moves has to be looked at.
LEMMA LanesFrame ==
  ASSUME TypeOK, LanesInv, NEW w \in Workers, NEW l, clock' = clock,
         worker' = [worker EXCEPT ![w] = l],
         l.pc \in Processing => l.run \in RunIds,
         l.pc \notin Processing => l.run = None,
         l.pc \in HasInput => l.input \in Scorable,
         l.token <= clock
  PROVE  LanesInv'
BY DEF LanesInv, TypeOK

LEMMA LanesStep ==
  ASSUME TypeOK, LanesInv, [Next]_vars
  PROVE  LanesInv'
<1>1. ASSUME worker' = worker, clock' \in Nat, clock' >= clock PROVE LanesInv'
  BY <1>1 DEF LanesInv, TypeOK, Lane
<1>2. ASSUME NEW u \in Users, Request(u) PROVE LanesInv'
  <2>1. worker' = worker /\ clock' = clock
    BY <1>2 DEF Request, RequestScoring, RequestJobScoring, LockNext, DecideOne, DecideBulk,
                CreateRuns, ReuseRun, AbortRequest
  <2> QED
    BY <1>1, <2>1 DEF TypeOK
<1>3. CASE RecoverStaleRuns \/ Outside \/ Tick \/ UNCHANGED vars
  <2>1. worker' = worker /\ (clock' = clock \/ clock' = clock + 1)
    BY <1>3 DEF RecoverStaleRuns, Outside, EditInput, SetCandidateAiFlags,
                SetApplicationRemoved, SetNoticeRequired, Tick, vars
  <2> QED
    BY <1>1, <2>1 DEF TypeOK
<1>4. ASSUME NEW w \in Workers, Work(w) PROVE LanesInv'
  <2>0. worker[w] \in Lane /\ clock \in Nat
    BY DEF TypeOK
  <2>a. ASSUME GoIdle(w), clock' = clock PROVE LanesInv'
    <3>1. IdleLane.pc \notin Processing /\ IdleLane.pc \notin HasInput /\ IdleLane.run = None
          /\ IdleLane.token <= clock
      BY <2>0 DEF IdleLane, Processing, HasInput
    <3> QED
      BY <2>a, <3>1, LanesFrame DEF GoIdle
  <2>b. ASSUME NEW to \in Processing, Step(w, to), clock' = clock, worker[w].pc \in Processing,
               to \in HasInput => worker[w].pc \in HasInput
        PROVE  LanesInv'
    <3> DEFINE l == [worker[w] EXCEPT !.pc = to]
    <3>1. l.pc = to /\ l.run = worker[w].run /\ l.input = worker[w].input /\ l.token = worker[w].token
      BY <2>0 DEF Lane
    <3>2. worker' = [worker EXCEPT ![w] = l]
      BY <2>b DEF Step
    <3> QED
      BY <2>b, <3>1, <3>2, LanesFrame DEF LanesInv
  <2>1. CASE ClaimStart(w)
    <3> DEFINE l == [worker[w] EXCEPT !.pc = "waiting", !.token = clock]
    <3>1. l.pc = "waiting" /\ l.run = worker[w].run /\ l.token = clock
      BY <2>0 DEF Lane
    <3>2. worker' = [worker EXCEPT ![w] = l] /\ clock' = clock /\ worker[w].run = None
      BY <2>1 DEF ClaimStart, LanesInv, Processing
    <3>3. l.pc \notin Processing /\ l.pc \notin HasInput /\ l.token <= clock
      BY <2>0, <3>1 DEF Processing, HasInput
    <3> HIDE DEF l
    <3> QED
      BY <3>1, <3>2, <3>3, LanesFrame
  <2>2. CASE ClaimCount(w)
    <3> DEFINE full == {c \in Companies : Cardinality(RunningIn(c)) >= TenantConcurrency}
               l == [worker[w] EXCEPT !.pc = "counted", !.saturated = full]
    <3>1. l.pc = "counted" /\ l.run = worker[w].run /\ l.token = worker[w].token
      BY <2>0 DEF Lane
    <3>2. GoIdle(w) \/ worker' = [worker EXCEPT ![w] = l]
      BY <2>2 DEF ClaimCount
    <3>3. clock' = clock /\ worker[w].run = None /\ worker[w].token <= clock
      BY <2>2 DEF ClaimCount, LanesInv, Processing
    <3>4. l.pc \notin Processing /\ l.pc \notin HasInput
      BY <3>1 DEF Processing, HasInput
    <3> HIDE DEF l
    <3> QED
      BY <2>a, <3>1, <3>2, <3>3, <3>4, LanesFrame
  <2>3. CASE ClaimTake(w)
    <3>1. ASSUME NEW r \in Due(w),
                 worker' = [worker EXCEPT ![w].pc = "claimed", ![w].run = r,
                                          ![w].attempts = run[r].attempts + 1, ![w].saturated = {}]
          PROVE  LanesInv'
      <4> DEFINE l == [worker[w] EXCEPT !.pc = "claimed", !.run = r,
                                        !.attempts = run[r].attempts + 1, !.saturated = {}]
      <4>1. l.pc = "claimed" /\ l.run = r /\ l.token = worker[w].token
        BY <2>0 DEF Lane
      <4>2. worker' = [worker EXCEPT ![w] = l]
        BY <3>1
      <4>3. clock' = clock /\ worker[w].token <= clock /\ r \in RunIds
        BY <2>3 DEF ClaimTake, LanesInv, Due
      <4>4. l.pc \in Processing /\ l.pc \notin HasInput
        BY <4>1 DEF Processing, HasInput
      <4> HIDE DEF l
      <4> QED
        BY <4>1, <4>2, <4>3, <4>4, LanesFrame
    <3> QED
      BY <2>3, <2>a, <3>1 DEF ClaimTake
  <2>4. CASE Load(w)
    <3> DEFINE a == App(worker[w].run)
               l == [worker[w] EXCEPT !.pc = "loaded", !.input = app[a].input]
    <3>1. l.pc = "loaded" /\ l.run = worker[w].run /\ l.token = worker[w].token /\ l.input = app[a].input
      BY <2>0 DEF Lane
    <3>2. clock' = clock /\ worker[w].token <= clock /\ worker[w].run \in RunIds
          /\ worker[w].pc \in Processing
      BY <2>4 DEF Load, LanesInv, Processing
    <3>3. Step(w, "failing") \/ (worker' = [worker EXCEPT ![w] = l] /\ app[a].input \in Scorable)
      BY <2>4 DEF Load, Unscorable
    <3>4. l.pc \in Processing /\ "failing" \in Processing /\ "failing" \notin HasInput
      BY <3>1 DEF Processing, HasInput
    <3> HIDE DEF l
    <3> QED
      BY <2>b, <3>1, <3>2, <3>3, <3>4, LanesFrame
  <2>5. CASE CheckBudget(w) \/ EvaluateError(w) \/ ChargeAiTokens(w) \/ Throw(w)
    BY <2>b, <2>5 DEF CheckBudget, EvaluateError, ChargeAiTokens, Throw, Processing, HasInput
  <2>6. CASE Evaluate(w)
    <3>1. PICK cost \in TokenCosts, to \in {"answered", "failing"} :
            worker' = [worker EXCEPT ![w].pc = to, ![w].cost = cost]
      BY <2>6 DEF Evaluate
    <3> DEFINE l == [worker[w] EXCEPT !.pc = to, !.cost = cost]
    <3>2. l.pc = to /\ l.run = worker[w].run /\ l.token = worker[w].token /\ l.input = worker[w].input
      BY <2>0 DEF Lane
    <3>3. clock' = clock /\ worker[w].token <= clock /\ worker[w].run \in RunIds
          /\ worker[w].input \in Scorable
      BY <2>6 DEF Evaluate, LanesInv, Processing, HasInput
    <3>4. worker' = [worker EXCEPT ![w] = l] /\ to \in Processing
      BY <3>1 DEF Processing
    <3> HIDE DEF l
    <3> QED
      BY <3>2, <3>3, <3>4, LanesFrame
  <2>7. CASE Commit(w) \/ FailRun(w) \/ RetryRun(w) \/ Crash(w)
    BY <2>a, <2>7 DEF Commit, FailRun, RetryRun, Crash
  <2> QED
    BY <1>4, <2>1, <2>2, <2>3, <2>4, <2>5, <2>6, <2>7 DEF Work
<1> QED
  BY <1>2, <1>3, <1>4 DEF Next
-----------------------------------------------------------------------------
(* Runs: only a request creates one, and a finished one is never touched.  *)

\* Workers and recovery write only rows in flight, whatever they believe they own.
LEMMA WorkersWriteActiveRows ==
  ASSUME TypeOK, LanesInv, NEW r \in RunIds, run[r].status \notin Active,
         (\E w \in Workers : Work(w)) \/ RecoverStaleRuns \/ Outside \/ Tick \/ UNCHANGED vars
  PROVE  run'[r] = run[r]
<1>1. ASSUME NEW w \in Workers, Work(w) PROVE run'[r] = run[r]
  <2>1. CASE ClaimTake(w)
    BY <2>1 DEF ClaimTake, Due, Active, TypeOK
  <2>2. CASE Commit(w)
    BY <2>2 DEF Commit, OwnedBy, Active, TypeOK, LanesInv, Processing
  <2>3. CASE FailRun(w)
    BY <2>3 DEF FailRun, OwnedBy, Active, TypeOK, LanesInv, Processing
  <2>4. CASE RetryRun(w)
    BY <2>4 DEF RetryRun, OwnedBy, Active, TypeOK, LanesInv, Processing
  <2> QED
    BY <1>1, <2>1, <2>2, <2>3, <2>4
       DEF Work, ClaimStart, ClaimCount, Load, CheckBudget, Evaluate, EvaluateError,
           ChargeAiTokens, Throw, Crash
<1>2. CASE RecoverStaleRuns
  BY <1>2 DEF RecoverStaleRuns, StaleRuns, Running, Active
<1>3. CASE Outside \/ Tick \/ UNCHANGED vars
  BY <1>3 DEF Outside, EditInput, SetCandidateAiFlags, SetApplicationRemoved,
              SetNoticeRequired, Tick, vars
<1> QED
  BY <1>1, <1>2, <1>3

\* A request writes only rows not used before, each once, and only in its batch.
LEMMA RequestsWriteNewRows ==
  ASSUME TypeOK, NEW u \in Users, Request(u), NEW r \in RunIds, run'[r] # run[r]
  PROVE  /\ CreateRuns(u)
         /\ App(r) \in user[u].batch
         /\ NextRow(r)
         /\ run'[r] = QueuedRun(u, App(r))
<1>1. CASE CreateRuns(u)
  BY <1>1 DEF CreateRuns
<1> QED
  BY <1>1 DEF Request, RequestScoring, RequestJobScoring, LockNext, DecideOne, DecideBulk,
              ReuseRun, AbortRequest

\* Each application has at most one next row.
LEMMA NextRowUnique ==
  ASSUME NEW r \in RunIds, NEW s \in RunIds, App(r) = App(s), NextRow(r), NextRow(s)
  PROVE  r = s
<1>1. PICK a \in Apps, m \in Slots, n \in Slots : r = <<a, m>> /\ s = <<a, n>>
  BY DEF RunIds, App
<1>2. ~(m < n) /\ ~(n < m)
  BY <1>1 DEF NextRow, App
<1> QED
  BY <1>1, <1>2, DataAssumption DEF Slots
-----------------------------------------------------------------------------
(* Requests.                                                               *)

\* What a request relies on survives the steps of everyone who holds no row lock.
LEMMA RequestsFrame ==
  ASSUME TypeOK, RequestsInv, user' = user,
         \A r \in RunIds : run[r].status \notin Active => run'[r] = run[r]
  PROVE  RequestsInv'
<1>1. \A a \in Apps : ActiveRuns(a) = {} => ActiveRuns(a)' = {}
  BY DEF ActiveRuns, RunsOf
<1>2. \A u \in Users : user[u].held \subseteq Apps /\ user[u].batch \subseteq Apps
  BY DEF TypeOK, ScoringRequest
<1>3. \A a \in Apps, n \in Slots : run[<<a, n>>].status = "SUCCEEDED" => run'[<<a, n>>].status = "SUCCEEDED"
  BY DEF RunIds, Active
<1> QED
  BY <1>1, <1>2, <1>3 DEF RequestsInv

\* One request moves on without writing a run.
LEMMA RequestMoves ==
  ASSUME TypeOK, RequestsInv, NEW u \in Users, NEW q \in ScoringRequest,
         user' = [user EXCEPT ![u] = q], run' = run,
         q.pc = "idle" => q.held = {},
         q.pc # "idle" /\ ~q.bulk => \E a \in Apps : q.want = {a},
         q.pc = "reusing" => /\ q.previous \in Slots
                             /\ ~q.bulk
                             /\ q.held = q.want
                             /\ \A a \in q.held : run[<<a, q.previous>>].status = "SUCCEEDED",
         q.pc = "creating" => /\ q.batch \subseteq q.held
                              /\ \A a \in q.batch : ActiveRuns(a) = {},
         \A v \in Users : v # u => q.held \cap user[v].held = {}
  PROVE  RequestsInv'
<1>1. \A a \in Apps : ActiveRuns(a)' = ActiveRuns(a)
  BY DEF ActiveRuns, RunsOf
<1>2. \A v \in Users : user[v].held \subseteq Apps /\ user[v].batch \subseteq Apps
  BY DEF TypeOK, ScoringRequest
<1>3. q.held \subseteq Apps /\ q.batch \subseteq Apps
  BY DEF ScoringRequest
<1>4. user'[u] = q /\ \A v \in Users : v # u => user'[v] = user[v]
  BY DEF TypeOK
<1>5. ASSUME NEW v \in Users, v # u
      PROVE  /\ user'[v].pc = "idle" => user'[v].held = {}
             /\ user'[v].pc # "idle" /\ ~user'[v].bulk => \E a \in Apps : user'[v].want = {a}
             /\ user'[v].pc = "reusing" =>
                  /\ user'[v].previous \in Slots
                  /\ ~user'[v].bulk
                  /\ user'[v].held = user'[v].want
                  /\ \A a \in user'[v].held : run'[<<a, user'[v].previous>>].status = "SUCCEEDED"
             /\ user'[v].pc = "creating" => /\ user'[v].batch \subseteq user'[v].held
                                            /\ \A a \in user'[v].batch : ActiveRuns(a)' = {}
  BY <1>1, <1>2, <1>4, <1>5 DEF RequestsInv
<1>6. \A a \in q.batch : ActiveRuns(a)' = ActiveRuns(a)
  BY <1>1, <1>3
<1>7. \A v, x \in Users : v # x => user'[x].held \cap user'[v].held = {}
  BY <1>4 DEF RequestsInv
<1> QED
  BY <1>4, <1>5, <1>6, <1>7 DEF RequestsInv

LEMMA RequestsStep ==
  ASSUME TypeOK, TypeOK', LanesInv, RequestsInv, [Next]_vars
  PROVE  RequestsInv'
<1>1. CASE (\E w \in Workers : Work(w)) \/ RecoverStaleRuns \/ Outside \/ Tick \/ UNCHANGED vars
  <2>1. user' = user
    BY <1>1 DEF Work, ClaimStart, ClaimCount, ClaimTake, Load, CheckBudget, Evaluate, EvaluateError,
                ChargeAiTokens, Commit, Throw, FailRun, RetryRun, Crash, RecoverStaleRuns, Outside,
                EditInput, SetCandidateAiFlags, SetApplicationRemoved, SetNoticeRequired, Tick, vars
  <2> QED
    BY <1>1, <2>1, WorkersWriteActiveRows, RequestsFrame
<1>2. ASSUME NEW u \in Users, Request(u) PROVE RequestsInv'
  <2> USE ConstantRecords
  <2>0. user[u] \in ScoringRequest /\ user'[u] \in ScoringRequest /\ user[u].held \subseteq Apps
    BY DEF TypeOK, ScoringRequest
  <2>a. ASSUME EndRequest(u), run' = run PROVE RequestsInv'
    <3>1. NoRequest.pc = "idle" /\ NoRequest.held = {}
      BY DEF NoRequest
    <3> QED
      BY <2>a, <3>1, RequestMoves DEF EndRequest
  <2>b. ASSUME NEW batch \in SUBSET user[u].held, PlanRuns(u, batch), run' = run,
               user[u].pc = "locking", \A a \in batch : ActiveRuns(a) = {}
        PROVE  RequestsInv'
    <3> DEFINE q == [user[u] EXCEPT !.pc = "creating", !.batch = batch,
                                    !.hash = [a \in Apps |-> app[a].input]]
    <3>1. q.pc = "creating" /\ q.batch = batch /\ q.held = user[u].held /\ q.want = user[u].want
          /\ q.bulk = user[u].bulk
      BY <2>0 DEF ScoringRequest
    <3>2. EndRequest(u) \/ user' = [user EXCEPT ![u] = q]
      BY <2>b DEF PlanRuns
    <3>3. ASSUME user' = [user EXCEPT ![u] = q] PROVE RequestsInv'
      <4>1. q \in ScoringRequest
        BY <2>0, <3>3 DEF TypeOK
      <4>2. /\ q.pc # "idle" /\ ~q.bulk => \E a \in Apps : q.want = {a}
            /\ \A v \in Users : v # u => q.held \cap user[v].held = {}
        BY <2>b, <3>1 DEF RequestsInv
      <4> HIDE DEF q
      <4> QED
        BY <2>b, <3>1, <3>3, <4>1, <4>2, RequestMoves
    <3> QED
      BY <2>a, <2>b, <3>2, <3>3
  <2>1. ASSUME NEW a \in Apps, RequestScoring(u, a) PROVE RequestsInv'
    <3> DEFINE q == [NoRequest EXCEPT !.pc = "locking", !.want = {a}]
    <3>1. q.pc = "locking" /\ q.want = {a} /\ q.held = {} /\ q \in ScoringRequest
      BY DEF NoRequest, ScoringRequest
    <3>2. user' = [user EXCEPT ![u] = q] /\ run' = run
      BY <2>1 DEF RequestScoring
    <3> HIDE DEF q
    <3> QED
      BY <3>1, <3>2, RequestMoves
  <2>2. ASSUME NEW c \in Companies, RequestJobScoring(u, c) PROVE RequestsInv'
    <3> DEFINE unscored == {a \in Apps : CompanyOf[a] = c /\ ~app[a].deleted /\ app[a].latest = None}
               q == [NoRequest EXCEPT !.pc = "locking", !.bulk = TRUE, !.want = unscored]
    <3>1. q.pc = "locking" /\ q.bulk /\ q.held = {} /\ q \in ScoringRequest
      BY DEF NoRequest, ScoringRequest
    <3>2. user' = [user EXCEPT ![u] = q] /\ run' = run
      BY <2>2 DEF RequestJobScoring
    <3> HIDE DEF q
    <3> QED
      BY <3>1, <3>2, RequestMoves
  <2>3. CASE LockNext(u)
    <3>1. PICK a \in user[u].want : RowFree(a) /\ user' = [user EXCEPT ![u].held = @ \cup {a}]
      BY <2>3 DEF LockNext
    <3> DEFINE q == [user[u] EXCEPT !.held = @ \cup {a}]
    <3>2. q.pc = "locking" /\ q.want = user[u].want /\ q.bulk = user[u].bulk /\ q.held = user[u].held \cup {a}
      BY <2>0, <2>3 DEF ScoringRequest, LockNext
    <3>3. user' = [user EXCEPT ![u] = q] /\ run' = run
      BY <2>3, <3>1 DEF LockNext
    <3>4. q \in ScoringRequest
      BY <2>0, <3>3 DEF TypeOK
    <3>5. \A v \in Users : v # u => q.held \cap user[v].held = {}
      BY <3>1, <3>2 DEF RowFree, RequestsInv
    <3>6. ~q.bulk => \E x \in Apps : q.want = {x}
      BY <2>3, <3>2 DEF RequestsInv, LockNext
    <3> HIDE DEF q
    <3> QED
      BY <3>2, <3>3, <3>4, <3>5, <3>6, RequestMoves
  <2>4. CASE DecideOne(u)
    <3>1. ASSUME NEW a \in user[u].held, NEW n \in Reusable(a),
                 user' = [user EXCEPT ![u].pc = "reusing", ![u].previous = n]
          PROVE  RequestsInv'
      <4> DEFINE q == [user[u] EXCEPT !.pc = "reusing", !.previous = n]
      <4>1. q.pc = "reusing" /\ q.want = user[u].want /\ q.bulk = user[u].bulk
            /\ q.held = user[u].held /\ q.previous = n
        BY <2>0 DEF ScoringRequest
      <4>2. user' = [user EXCEPT ![u] = q] /\ run' = run
        BY <2>4, <3>1 DEF DecideOne
      <4>3. q \in ScoringRequest
        BY <2>0, <4>2 DEF TypeOK
      <4>4. \E x \in Apps : user[u].want = {x}
        BY <2>4 DEF DecideOne, RequestsInv
      <4>5. user[u].held = {a} /\ user[u].want = user[u].held /\ ~user[u].bulk
        BY <2>4, <4>4 DEF DecideOne
      <4>6. n \in Slots /\ run[<<a, n>>].status = "SUCCEEDED"
        BY DEF Reusable
      <4>7. \A v \in Users : v # u => q.held \cap user[v].held = {}
        BY <4>1 DEF RequestsInv
      <4> HIDE DEF q
      <4>8. /\ q.previous \in Slots /\ ~q.bulk /\ q.held = q.want
            /\ \A x \in q.held : run[<<x, q.previous>>].status = "SUCCEEDED"
            /\ \E x \in Apps : q.want = {x}
            /\ q.pc # "idle" /\ q.pc # "creating"
        BY <4>1, <4>4, <4>5, <4>6
      <4> QED
        BY <4>2, <4>3, <4>7, <4>8, RequestMoves
    <3>2. run' = run /\ user[u].pc = "locking"
      BY <2>4 DEF DecideOne
    <3> QED
      BY <2>4, <2>a, <2>b, <3>1, <3>2 DEF DecideOne
  <2>5. CASE DecideBulk(u)
    <3> DEFINE scorable == {a \in user[u].held : /\ app[a].latest = None
                                                 /\ ActiveRuns(a) = {}
                                                 /\ ~Unscorable(a)}
               batch == {a \in scorable : Cardinality({b \in scorable : b < a}) < MaxBulk}
    <3>1. PlanRuns(u, batch) /\ run' = run /\ user[u].pc = "locking"
      BY <2>5 DEF DecideBulk
    <3>2. batch \in SUBSET user[u].held /\ \A a \in batch : ActiveRuns(a) = {}
      OBVIOUS
    <3> HIDE DEF batch
    <3> QED
      BY <2>b, <3>1, <3>2
  <2>6. CASE CreateRuns(u)
    <3>1. user'[u] = NoRequest /\ \A v \in Users : v # u => user'[v] = user[v]
      BY <2>6 DEF CreateRuns, EndRequest, TypeOK
    <3>2. NoRequest.pc = "idle" /\ NoRequest.held = {}
      BY DEF NoRequest
    <3>3. user[u].batch \subseteq user[u].held
      BY <2>6 DEF CreateRuns, RequestsInv
    <3>4. \A r \in RunIds : App(r) \notin user[u].held \/ run[r].status = "SUCCEEDED" => run'[r] = run[r]
      BY <1>2, <3>3, RequestsWriteNewRows DEF NextRow
    <3>5. ASSUME NEW v \in Users, v # u
          PROVE  /\ user[v].pc = "reusing" =>
                      \A a \in user[v].held : run'[<<a, user[v].previous>>].status = "SUCCEEDED"
                 /\ user[v].pc = "creating" => \A a \in user[v].batch : ActiveRuns(a)' = {}
      <4>1. user[v].held \subseteq Apps /\ user[v].held \cap user[u].held = {}
        BY <3>5 DEF RequestsInv, TypeOK, ScoringRequest
      <4>2. ASSUME user[v].pc = "reusing", NEW a \in user[v].held
            PROVE  run'[<<a, user[v].previous>>].status = "SUCCEEDED"
        <5>1. <<a, user[v].previous>> \in RunIds
          BY <4>1, <4>2 DEF RequestsInv, RunIds
        <5> QED
          BY <3>4, <4>2, <5>1 DEF RequestsInv
      <4>3. ASSUME user[v].pc = "creating", NEW a \in user[v].batch
            PROVE  ActiveRuns(a)' = {}
        <5>1. a \in user[v].held /\ ActiveRuns(a) = {} /\ a \notin user[u].held
          BY <4>1, <4>3 DEF RequestsInv
        <5> QED
          BY <3>4, <5>1 DEF ActiveRuns, RunsOf
      <4> QED
        BY <4>2, <4>3
    <3>6. \A v, x \in Users : v # x => user'[x].held \cap user'[v].held = {}
      BY <3>1, <3>2 DEF RequestsInv
    <3> QED
      BY <3>1, <3>2, <3>5, <3>6 DEF RequestsInv
  <2>7. CASE ReuseRun(u) \/ AbortRequest(u)
    BY <2>a, <2>7 DEF ReuseRun, AbortRequest
  <2> QED
    BY <1>2, <2>1, <2>2, <2>3, <2>4, <2>5, <2>6, <2>7 DEF Request
<1> QED
  BY <1>1, <1>2 DEF Next

\* No step gives an application a second run in flight.
LEMMA OneActiveRunStep ==
  ASSUME TypeOK, LanesInv, RequestsInv, OneActiveRun, [Next]_vars
  PROVE  OneActiveRun'
<1>1. CASE (\E w \in Workers : Work(w)) \/ RecoverStaleRuns \/ Outside \/ Tick \/ UNCHANGED vars
  <2>1. \A r \in RunIds : run'[r].status \in Active => run[r].status \in Active
    BY <1>1, WorkersWriteActiveRows
  <2> QED
    BY <2>1 DEF OneActiveRun
<1>2. ASSUME NEW u \in Users, Request(u) PROVE OneActiveRun'
  <2> SUFFICES ASSUME NEW r \in RunIds, NEW s \in RunIds, App(r) = App(s),
                      run'[r].status \in Active, run'[s].status \in Active
               PROVE  r = s
    BY DEF OneActiveRun
  <2>1. CASE run'[r] = run[r] /\ run'[s] = run[s]
    BY <2>1 DEF OneActiveRun
  <2>2. CASE run'[r] # run[r] /\ run'[s] # run[s]
    BY <1>2, <2>2, RequestsWriteNewRows, NextRowUnique
  <2>3. ASSUME NEW x \in RunIds, NEW y \in RunIds, App(x) = App(y), run'[x] # run[x], run'[y] = run[y],
               run'[y].status \in Active
        PROVE  FALSE
    <3>1. CreateRuns(u) /\ App(x) \in user[u].batch
      BY <1>2, <2>3, RequestsWriteNewRows
    <3>2. ActiveRuns(App(x)) = {}
      BY <3>1 DEF CreateRuns, RequestsInv
    <3> QED
      BY <2>3, <3>2 DEF ActiveRuns, RunsOf
  <2> QED
    BY <2>1, <2>2, <2>3
<1> QED
  BY <1>1, <1>2 DEF Next
-----------------------------------------------------------------------------
(* Claims: the fencing token.                                              *)

\* Steps that change neither a run nor a lane's claim keep the order of claims.
LEMMA ClaimsFrame ==
  ASSUME TypeOK, LanesInv, ClaimsInv, OneOwner, run' = run,
         \A w \in Workers : \/ worker'[w].run = None
                            \/ worker'[w].run = worker[w].run /\ worker'[w].token = worker[w].token
  PROVE  ClaimsInv' /\ OneOwner'
BY DEF ClaimsInv, OneOwner, OwnedBy

\* A worker settles its run, or lost it and writes nothing.
LEMMA ClaimsSettle ==
  ASSUME TypeOK, LanesInv, ClaimsInv, OneOwner, NEW w \in Workers, GoIdle(w),
         worker[w].run \in RunIds,
         \/ run' = run
         \/ \E row : /\ run' = [run EXCEPT ![worker[w].run] = row]
                     /\ row.status \in {"QUEUED", "SUCCEEDED", "FAILED"}
                     /\ row.status = "QUEUED" => row.nextAttemptAt \in Nat /\ row.nextAttemptAt > clock
  PROVE  ClaimsInv' /\ OneOwner'
<1>1. worker'[w].run = None /\ \A v \in Workers : v # w => worker'[v] = worker[v]
  BY DEF GoIdle, TypeOK, IdleLane
<1>2. CASE run' = run
  BY <1>1, <1>2, ClaimsFrame
<1>3. ASSUME NEW row, run' = [run EXCEPT ![worker[w].run] = row],
             row.status \in {"QUEUED", "SUCCEEDED", "FAILED"},
             row.status = "QUEUED" => row.nextAttemptAt \in Nat /\ row.nextAttemptAt > clock
      PROVE  ClaimsInv' /\ OneOwner'
  <2>1. run'[worker[w].run] = row /\ \A r \in RunIds : r # worker[w].run => run'[r] = run[r]
    BY <1>3 DEF TypeOK
  <2>2. \A v \in Workers : worker[v].run \in RunIds \cup {None} /\ worker[v].token \in Nat
                           /\ worker[v].token <= clock
    BY DEF TypeOK, Lane, LanesInv
  <2>3. clock \in Nat
    BY DEF TypeOK
  <2>4. \A r \in RunIds : run'[r].status = "RUNNING" => run'[r].lockedAt \in Nat
    BY <1>3, <2>1 DEF ClaimsInv
  <2>5. ASSUME NEW v \in Workers, worker'[v].run # None
        PROVE  /\ run'[worker'[v].run].status # "NONE"
               /\ run'[worker'[v].run].status = "QUEUED" => worker'[v].token < run'[worker'[v].run].nextAttemptAt
               /\ run'[worker'[v].run].status = "RUNNING" => worker'[v].token <= run'[worker'[v].run].lockedAt
    <3>1. worker'[v] = worker[v] /\ v # w
      BY <1>1, <2>5
    <3>2. CASE worker[v].run = worker[w].run
      BY <1>3, <2>1, <2>2, <2>3, <3>1, <3>2
    <3>3. CASE worker[v].run # worker[w].run
      BY <2>1, <2>2, <2>5, <3>1, <3>3 DEF ClaimsInv
    <3> QED
      BY <3>2, <3>3
  <2>6. OneOwner'
    <3> SUFFICES ASSUME NEW x \in Workers, NEW y \in Workers, worker'[x].run # None,
                        worker'[x].run = worker'[y].run, OwnedBy(x)', OwnedBy(y)'
                 PROVE  x = y
      BY DEF OneOwner
    <3>1. worker'[x] = worker[x] /\ worker'[y] = worker[y]
      BY <1>1
    <3>2. worker[x].run # worker[w].run
      BY <1>3, <2>1, <3>1 DEF OwnedBy
    <3>3. run'[worker[x].run] = run[worker[x].run]
      BY <2>1, <2>2, <3>1, <3>2
    <3> QED
      BY <3>1, <3>3 DEF OneOwner, OwnedBy
  <2> QED
    BY <2>4, <2>5, <2>6 DEF ClaimsInv
<1> QED
  BY <1>2, <1>3

LEMMA ClaimsStep ==
  ASSUME TypeOK, TypeOK', LanesInv, ClaimsInv, OneOwner, [Next]_vars
  PROVE  ClaimsInv' /\ OneOwner'
<1>0. \A v \in Workers : worker[v].run \in RunIds \cup {None} /\ worker[v].token \in Nat
                         /\ worker[v].token <= clock
  BY DEF TypeOK, Lane, LanesInv
<1>1. ASSUME NEW u \in Users, Request(u) PROVE ClaimsInv' /\ OneOwner'
  <2>1. worker' = worker
    BY <1>1 DEF Request, RequestScoring, RequestJobScoring, LockNext, DecideOne, DecideBulk,
                CreateRuns, ReuseRun, AbortRequest
  <2>2. \A r \in RunIds : run'[r] # run[r] => run[r].status = "NONE" /\ run'[r].status = "QUEUED"
    <3>1. \A a \in Apps : QueuedRun(u, a).status = "QUEUED"
      BY DEF QueuedRun, NewRow
    <3>2. \A r \in RunIds : App(r) \in Apps
      BY DEF App, RunIds
    <3> QED
      BY <1>1, <3>1, <3>2, RequestsWriteNewRows DEF NextRow
  <2>3. \A v \in Workers : worker[v].run # None => run'[worker[v].run] = run[worker[v].run]
    BY <1>0, <2>2 DEF ClaimsInv
  <2>4. \A r \in RunIds : run'[r].status = "RUNNING" => run'[r].lockedAt \in Nat
    BY <2>2 DEF ClaimsInv
  <2> QED
    BY <2>1, <2>3, <2>4 DEF ClaimsInv, OneOwner, OwnedBy
<1>2. ASSUME NEW w \in Workers, Work(w) PROVE ClaimsInv' /\ OneOwner'
  <2>0. worker[w] \in Lane
    BY DEF TypeOK
  <2>1. CASE ClaimStart(w)
    <3>1. worker[w].run = None
      BY <2>1 DEF ClaimStart, LanesInv, Processing
    <3>2. worker'[w].run = None /\ \A v \in Workers : v # w => worker'[v] = worker[v]
      BY <2>0, <2>1, <3>1 DEF ClaimStart, TypeOK, Lane
    <3> QED
      BY <2>1, <3>2, ClaimsFrame DEF ClaimStart
  <2>2. CASE ClaimCount(w)
    <3> DEFINE full == {c \in Companies : Cardinality(RunningIn(c)) >= TenantConcurrency}
    <3>1. GoIdle(w) \/ worker' = [worker EXCEPT ![w].pc = "counted", ![w].saturated = full]
      BY <2>2 DEF ClaimCount
    <3> HIDE DEF full
    <3>2. \A v \in Workers : \/ worker'[v].run = None
                             \/ worker'[v].run = worker[v].run /\ worker'[v].token = worker[v].token
      BY <2>0, <3>1 DEF GoIdle, IdleLane, TypeOK, Lane
    <3> QED
      BY <2>2, <3>2, ClaimsFrame DEF ClaimCount
  <2>3. CASE Load(w) \/ CheckBudget(w) \/ Evaluate(w) \/ EvaluateError(w) \/ ChargeAiTokens(w) \/ Throw(w)
    <3>1. run' = run
      BY <2>3 DEF Load, CheckBudget, Evaluate, EvaluateError, ChargeAiTokens, Throw
    <3>2. \A v \in Workers : worker'[v].run = worker[v].run /\ worker'[v].token = worker[v].token
      BY <2>0, <2>3 DEF Load, CheckBudget, Evaluate, EvaluateError, ChargeAiTokens, Throw, Step, TypeOK, Lane
    <3> QED
      BY <3>1, <3>2, ClaimsFrame
  <2>4. CASE Crash(w)
    BY <2>4, ClaimsFrame DEF Crash, GoIdle, IdleLane, TypeOK
  <2>5. CASE Commit(w)
    <3>1. worker[w].run \in RunIds
      BY <2>5 DEF Commit, LanesInv, Processing
    <3>2. Succeeded(w).status = "SUCCEEDED"
      BY <3>1 DEF Succeeded, TypeOK, Run
    <3> QED
      BY <2>5, <3>1, <3>2, ClaimsSettle DEF Commit
  <2>6. CASE FailRun(w)
    <3>1. worker[w].run \in RunIds
      BY <2>6 DEF FailRun, LanesInv, Processing
    <3> DEFINE row == [run[worker[w].run] EXCEPT !.status = "FAILED", !.lockedAt = None]
    <3>2. row.status = "FAILED"
      BY <3>1 DEF TypeOK, Run
    <3>3. GoIdle(w) /\ (run' = run \/ run' = [run EXCEPT ![worker[w].run] = row])
      BY <2>6 DEF FailRun
    <3> HIDE DEF row
    <3> QED
      BY <3>1, <3>2, <3>3, ClaimsSettle
  <2>7. CASE RetryRun(w)
    <3>1. worker[w].run \in RunIds
      BY <2>7 DEF RetryRun, LanesInv, Processing
    <3>2. PICK d \in Delays : run' = IF OwnedBy(w)
              THEN [run EXCEPT ![worker[w].run].status = "QUEUED", ![worker[w].run].lockedAt = None,
                               ![worker[w].run].nextAttemptAt = clock + d]
              ELSE run
      BY <2>7 DEF RetryRun
    <3> DEFINE row == [run[worker[w].run] EXCEPT !.status = "QUEUED", !.lockedAt = None,
                                                 !.nextAttemptAt = clock + d]
    <3>3. row.status = "QUEUED" /\ row.nextAttemptAt = clock + d
      BY <3>1 DEF TypeOK, Run
    <3>4. row.nextAttemptAt \in Nat /\ row.nextAttemptAt > clock
      BY <3>3, DelayAssumption DEF TypeOK
    <3>5. GoIdle(w) /\ (run' = run \/ run' = [run EXCEPT ![worker[w].run] = row])
      BY <2>7, <3>2 DEF RetryRun
    <3> HIDE DEF row
    <3> QED
      BY <3>1, <3>3, <3>4, <3>5, ClaimsSettle
  <2>8. CASE ClaimTake(w)
    <3>1. CASE GoIdle(w) /\ UNCHANGED run
      BY <3>1, ClaimsFrame DEF GoIdle, IdleLane, TypeOK
    <3>2. ASSUME NEW r \in Due(w),
                 run' = [run EXCEPT ![r].status = "RUNNING", ![r].lockedAt = worker[w].token,
                                    ![r].attempts = @ + 1],
                 worker' = [worker EXCEPT ![w].pc = "claimed", ![w].run = r,
                                          ![w].attempts = run[r].attempts + 1, ![w].saturated = {}]
          PROVE  ClaimsInv' /\ OneOwner'
      <4>1. r \in RunIds /\ run[r] \in Run /\ run[r].status = "QUEUED"
            /\ run[r].nextAttemptAt <= worker[w].token /\ run[r].nextAttemptAt \in Nat
        BY DEF Due, TypeOK, Run
      <4>2. /\ run'[r].status = "RUNNING" /\ run'[r].lockedAt = worker[w].token
            /\ \A s \in RunIds : s # r => run'[s] = run[s]
        BY <3>2, <4>1 DEF TypeOK, Run
      <4>3. /\ worker'[w].run = r /\ worker'[w].token = worker[w].token
            /\ \A v \in Workers : v # w => worker'[v] = worker[v]
        BY <2>0, <3>2 DEF TypeOK, Lane
      <4>4. \A v \in Workers : v # w /\ worker[v].run = r => worker[v].token < worker[w].token
        BY <1>0, <4>1, DataAssumption DEF ClaimsInv
      <4>5. ClaimsInv'
        BY <1>0, <4>1, <4>2, <4>3, <4>4 DEF ClaimsInv
      <4>6. OneOwner'
        <5> SUFFICES ASSUME NEW x \in Workers, NEW y \in Workers, worker'[x].run # None,
                            worker'[x].run = worker'[y].run, OwnedBy(x)', OwnedBy(y)'
                     PROVE  x = y
          BY DEF OneOwner
        <5>1. CASE worker'[x].run = r
          <6>1. \A v \in Workers : worker'[v].run = r /\ OwnedBy(v)' => worker'[v].token = worker[w].token
            BY <4>2 DEF OwnedBy
          <6>2. \A v \in Workers : v # w /\ worker'[v].run = r => worker'[v].token < worker[w].token
            BY <4>3, <4>4
          <6>3. \A v \in Workers : worker'[v].run = r /\ OwnedBy(v)' => v = w
            BY <1>0, <6>1, <6>2
          <6> QED
            BY <5>1, <6>3
        <5>2. CASE worker'[x].run # r
          <6>1. worker'[x] = worker[x] /\ worker'[y] = worker[y]
            BY <4>3, <5>2
          <6>2. run'[worker[x].run] = run[worker[x].run]
            BY <1>0, <4>2, <5>2, <6>1
          <6> QED
            BY <6>1, <6>2 DEF OneOwner, OwnedBy
        <5> QED
          BY <5>1, <5>2
      <4> QED
        BY <4>5, <4>6
    <3> QED
      BY <2>8, <3>1, <3>2 DEF ClaimTake
  <2> QED
    BY <1>2, <2>1, <2>2, <2>3, <2>4, <2>5, <2>6, <2>7, <2>8 DEF Work
<1>3. CASE RecoverStaleRuns
  <2>1. worker' = worker
    BY <1>3 DEF RecoverStaleRuns
  <2>2. ASSUME NEW r \in RunIds
        PROVE  \/ run'[r] = run[r]
               \/ /\ run[r].status = "RUNNING" /\ run[r].lockedAt \in Nat
                  /\ run[r].lockedAt + StaleAfter < clock
                  /\ \/ run'[r].status = "FAILED"
                     \/ run'[r].status = "QUEUED" /\ run'[r].nextAttemptAt = clock
    <3>1. run[r] \in Run
      BY DEF TypeOK
    <3> QED
      BY <1>3, <3>1 DEF RecoverStaleRuns, StaleRuns, Running, ClaimsInv, Run
  <2>3. \A r \in RunIds : run'[r].status = "RUNNING" => run'[r] = run[r]
    BY <2>2
  <2>4. ASSUME NEW v \in Workers, worker[v].run # None
        PROVE  /\ run'[worker[v].run].status # "NONE"
               /\ run'[worker[v].run].status = "QUEUED" => worker[v].token < run'[worker[v].run].nextAttemptAt
               /\ run'[worker[v].run].status = "RUNNING" => worker[v].token <= run'[worker[v].run].lockedAt
    BY <1>0, <2>2, <2>4, CapsAssumption DEF ClaimsInv, TypeOK
  <2> QED
    BY <1>0, <2>1, <2>3, <2>4 DEF ClaimsInv, OneOwner, OwnedBy
<1>4. CASE Outside \/ Tick \/ UNCHANGED vars
  <2>1. run' = run /\ worker' = worker
    BY <1>4 DEF Outside, EditInput, SetCandidateAiFlags, SetApplicationRemoved,
                SetNoticeRequired, Tick, vars
  <2> QED
    BY <2>1, ClaimsFrame
<1> QED
  BY <1>1, <1>2, <1>3, <1>4 DEF Next
-----------------------------------------------------------------------------
(* Scores.                                                                 *)

\* The application's pointer and mirror, and the hash of what was scored.
LEMMA ScoresStep ==
  ASSUME TypeOK, LanesInv, RequestsInv, MirrorMatchesRun, HashMatchesScored, [Next]_vars
  PROVE  MirrorMatchesRun' /\ HashMatchesScored'
<1> USE DataAssumption
<1>0. \A a \in Apps : app[a].latest # None => <<a, app[a].latest>> \in RunIds
  BY DEF TypeOK, Application, RunIds
<1>a. ASSUME \A a \in Apps : app'[a].latest = app[a].latest /\ app'[a].aiScore = app[a].aiScore,
             \A r \in RunIds : /\ run[r].status = "SUCCEEDED" => run'[r] = run[r]
                               /\ run'[r].status = "SUCCEEDED" => run'[r] = run[r]
      PROVE  MirrorMatchesRun' /\ HashMatchesScored'
  <2>1. HashMatchesScored'
    BY <1>a DEF HashMatchesScored
  <2>2. MirrorMatchesRun'
    BY <1>0, <1>a DEF MirrorMatchesRun, RunsOf
  <2> QED
    BY <2>1, <2>2
<1>1. ASSUME NEW u \in Users, Request(u) PROVE MirrorMatchesRun' /\ HashMatchesScored'
  <2>1. CASE ReuseRun(u)
    <3>1. PICK a \in user[u].held : app' = [app EXCEPT ![a].latest = user[u].previous,
                            ![a].aiScore = run[<<a, user[u].previous>>].scored]
      BY <2>1 DEF ReuseRun
    <3>2. a \in Apps /\ user[u].previous \in Slots /\ run[<<a, user[u].previous>>].status = "SUCCEEDED"
          /\ user[u].previous # None
      BY <2>1 DEF ReuseRun, RequestsInv, TypeOK, ScoringRequest, Slots
    <3>3. /\ app'[a].latest = user[u].previous
          /\ app'[a].aiScore = run[<<a, user[u].previous>>].scored
          /\ \A b \in Apps : b # a => app'[b] = app[b]
      BY <3>1, <3>2 DEF TypeOK, Application
    <3>4. run' = run
      BY <2>1 DEF ReuseRun
    <3>5. HashMatchesScored'
      BY <3>4 DEF HashMatchesScored
    <3>6. MirrorMatchesRun'
      BY <3>2, <3>3, <3>4 DEF MirrorMatchesRun, RunsOf
    <3> QED
      BY <3>5, <3>6
  <2>2. CASE app' = app
    <3>1. \A r \in RunIds : run'[r] # run[r] => run[r].status = "NONE" /\ run'[r].status = "QUEUED"
      <4>1. \A a \in Apps : QueuedRun(u, a).status = "QUEUED"
        BY DEF QueuedRun, NewRow
      <4>2. \A r \in RunIds : App(r) \in Apps
        BY DEF App, RunIds
      <4> QED
        BY <1>1, <4>1, <4>2, RequestsWriteNewRows DEF NextRow
    <3> QED
      BY <1>a, <2>2, <3>1
  <2> QED
    BY <1>1, <2>1, <2>2 DEF Request, RequestScoring, RequestJobScoring, LockNext, DecideOne, DecideBulk,
                            CreateRuns, AbortRequest
<1>2. ASSUME NEW w \in Workers, Work(w) PROVE MirrorMatchesRun' /\ HashMatchesScored'
  <2>1. CASE Commit(w) /\ OwnedBy(w)
    <3> DEFINE r == worker[w].run
    <3>1. r \in RunIds /\ worker[w].input \in Scorable
      BY <2>1 DEF Commit, LanesInv, Processing, HasInput
    <3>2. run' = [run EXCEPT ![r] = Succeeded(w)]
          /\ app' = [app EXCEPT ![App(r)].latest = r[2], ![App(r)].aiScore = worker[w].input]
      BY <2>1 DEF Commit
    <3>3. Succeeded(w).status = "SUCCEEDED" /\ Succeeded(w).scored = worker[w].input
          /\ Succeeded(w).inputHash = worker[w].input
      BY <3>1 DEF Succeeded, TypeOK, Run
    <3> DEFINE a == r[1]
               n == r[2]
    <3>4. a \in Apps /\ n \in Slots /\ r = <<a, n>>
      BY <3>1 DEF RunIds
    <3>5. App(r) = a /\ r[2] = n /\ n # None
      BY <3>4 DEF App, Slots
    <3> HIDE DEF a, n
    <3>6. /\ app'[a].latest = n /\ app'[a].aiScore = worker[w].input
          /\ \A b \in Apps : b # a => app'[b] = app[b]
      <4>1. app[a] \in Application /\ app' = [app EXCEPT ![a].latest = n, ![a].aiScore = worker[w].input]
        BY <3>2, <3>4, <3>5 DEF TypeOK
      <4> QED
        BY <3>4, <4>1 DEF TypeOK, Application
    <3>7. run'[<<a, n>>] = Succeeded(w) /\ \A s \in RunIds : s # r => run'[s] = run[s]
      BY <3>1, <3>2, <3>4 DEF TypeOK
    <3> HIDE DEF r
    <3>8. HashMatchesScored'
      BY <3>1, <3>3, <3>4, <3>7 DEF HashMatchesScored
    <3>9. ASSUME NEW b \in Apps, b # a
          PROVE  IF app'[b].latest = None
                 THEN app'[b].aiScore = None /\ \A s \in RunsOf(b) : run'[s].status # "SUCCEEDED"
                 ELSE /\ run'[<<b, app'[b].latest>>].status = "SUCCEEDED"
                      /\ app'[b].aiScore = run'[<<b, app'[b].latest>>].scored
      <4>1. \A s \in RunsOf(b) : run'[s] = run[s]
        BY <3>5, <3>7, <3>9 DEF RunsOf
      <4>2. app[b].latest # None => <<b, app[b].latest>> \in RunsOf(b)
        BY <1>0 DEF RunsOf, App
      <4> QED
        BY <3>6, <3>9, <4>1, <4>2, ZenonT(90) DEF MirrorMatchesRun
    <3>10. run'[<<a, app'[a].latest>>].status = "SUCCEEDED"
           /\ app'[a].aiScore = run'[<<a, app'[a].latest>>].scored /\ app'[a].latest # None
      BY <3>3, <3>5, <3>6, <3>7
    <3> QED
      BY <3>8, <3>9, <3>10 DEF MirrorMatchesRun, RunsOf
  <2>2. CASE ~(Commit(w) /\ OwnedBy(w))
    <3>1. app' = app
      BY <1>2, <2>2 DEF Work, ClaimStart, ClaimCount, ClaimTake, Load, CheckBudget, Evaluate, EvaluateError,
                        ChargeAiTokens, Commit, Throw, FailRun, RetryRun, Crash
    <3>2. ASSUME NEW r \in RunIds
          PROVE  /\ run[r].status = "SUCCEEDED" => run'[r] = run[r]
                 /\ run'[r].status = "SUCCEEDED" => run'[r] = run[r]
      <4>1. run[r].status = "SUCCEEDED" => run'[r] = run[r]
        BY <1>2, WorkersWriteActiveRows DEF Active
      <4>2. run[r] \in Run
        BY DEF TypeOK
      <4>3. CASE ClaimTake(w)
        <5>1. ASSUME NEW x \in Due(w),
                     run' = [run EXCEPT ![x].status = "RUNNING", ![x].lockedAt = worker[w].token,
                                        ![x].attempts = @ + 1]
              PROVE  run'[r].status = "SUCCEEDED" => run'[r] = run[r]
          <6>1. x \in RunIds /\ run[x] \in Run
            BY DEF Due, TypeOK
          <6>2. run'[x].status = "RUNNING" /\ \A y \in RunIds : y # x => run'[y] = run[y]
            BY <5>1, <6>1 DEF TypeOK, Run
          <6> QED
            BY <6>2
        <5> QED
          BY <4>1, <4>3, <5>1 DEF ClaimTake
      <4>4. CASE FailRun(w)
        BY <4>1, <4>2, <4>4 DEF FailRun, TypeOK, Run
      <4>5. CASE RetryRun(w)
        BY <4>1, <4>2, <4>5 DEF RetryRun, TypeOK, Run
      <4>6. CASE run' = run
        BY <4>6
      <4> QED
        BY <1>2, <2>2, <4>1, <4>3, <4>4, <4>5, <4>6
           DEF Work, ClaimStart, ClaimCount, Load, CheckBudget, Evaluate, EvaluateError,
               ChargeAiTokens, Commit, Throw, Crash
    <3> QED
      BY <1>a, <3>1, <3>2
  <2> QED
    BY <2>1, <2>2
<1>3. CASE RecoverStaleRuns
  <2>1. app' = app
    BY <1>3 DEF RecoverStaleRuns
  <2>2. ASSUME NEW r \in RunIds
        PROVE  /\ run[r].status = "SUCCEEDED" => run'[r] = run[r]
               /\ run'[r].status = "SUCCEEDED" => run'[r] = run[r]
    <3>1. run[r] \in Run
      BY DEF TypeOK
    <3> QED
      BY <1>3, <3>1 DEF RecoverStaleRuns, StaleRuns, Running, Run
  <2> QED
    BY <1>a, <2>1, <2>2
<1>4. CASE Outside \/ Tick \/ UNCHANGED vars
  <2>a. \A a \in Apps : app[a] \in Application
    BY DEF TypeOK
  <2>b. ASSUME NEW b \in Apps, EditInput(b) \/ SetCandidateAiFlags(b) \/ SetApplicationRemoved(b)
        PROVE  run' = run /\ \A a \in Apps : app'[a].latest = app[a].latest /\ app'[a].aiScore = app[a].aiScore
    <3>1. CASE EditInput(b)
      BY <2>a, <3>1 DEF EditInput, Application, TypeOK
    <3>2. CASE SetCandidateAiFlags(b)
      BY <2>a, <3>2 DEF SetCandidateAiFlags, Application, TypeOK
    <3>3. CASE SetApplicationRemoved(b)
      BY <2>a, <3>3 DEF SetApplicationRemoved, Application, TypeOK
    <3> QED
      BY <2>b, <3>1, <3>2, <3>3
  <2>1. run' = run /\ \A a \in Apps : app'[a].latest = app[a].latest /\ app'[a].aiScore = app[a].aiScore
    BY <1>4, <2>b DEF Outside, SetNoticeRequired, Tick, vars
  <2> QED
    BY <1>a, <2>1
<1> QED
  BY <1>1, <1>2, <1>3, <1>4 DEF Next
-----------------------------------------------------------------------------
IndInv ==
  /\ TypeOK
  /\ LanesInv
  /\ RequestsInv
  /\ ClaimsInv
  /\ OneActiveRun
  /\ OneOwner
  /\ MirrorMatchesRun
  /\ HashMatchesScored

LEMMA InitIndInv == Init => IndInv
<1> SUFFICES ASSUME Init PROVE IndInv
  OBVIOUS
<1> USE DataAssumption, ConstantRecords
<1>1. PICK in \in [Apps -> Inputs] :
        app = [a \in Apps |-> [deleted |-> FALSE, optOut |-> FALSE, noticed |-> FALSE,
                               input |-> in[a], latest |-> None, aiScore |-> None]]
  BY DEF Init
<1>2. app \in [Apps -> Application]
  BY <1>1 DEF Application
<1>3. TypeOK
  BY <1>2 DEF Init, TypeOK
<1>4. IdleLane.pc = "idle" /\ IdleLane.run = None /\ IdleLane.token = 0
      /\ NoRequest.pc = "idle" /\ NoRequest.held = {} /\ NewRow.status = "NONE"
  BY DEF IdleLane, NoRequest, NewRow
<1>5. LanesInv
  BY <1>4 DEF Init, LanesInv, Processing, HasInput
<1>6. RequestsInv
  BY <1>4 DEF Init, RequestsInv
<1>7. ClaimsInv /\ OneActiveRun /\ OneOwner
  BY <1>4 DEF Init, ClaimsInv, OneActiveRun, OneOwner, Active
<1>8. MirrorMatchesRun /\ HashMatchesScored
  BY <1>1, <1>4 DEF Init, MirrorMatchesRun, HashMatchesScored, RunsOf
<1> QED
  BY <1>3, <1>5, <1>6, <1>7, <1>8 DEF IndInv

LEMMA NextIndInv == IndInv /\ [Next]_vars => IndInv'
BY TypeStep, LanesStep, RequestsStep, ClaimsStep, OneActiveRunStep, ScoresStep DEF IndInv

\* The inductive invariant holds in every reachable state.
THEOREM Invariance == Spec => []IndInv
BY InitIndInv, NextIndInv, PTL DEF Spec

\* Every variable keeps its type.
THEOREM TypeCorrect == Spec => []TypeOK
BY Invariance, PTL DEF IndInv

\* However clicks and bulk requests interleave, an application never has two
\* runs in flight.
THEOREM AtMostOneActiveRun == Spec => []OneActiveRun
BY Invariance, PTL DEF IndInv

\* A worker that lost its claim is fenced off for ever: lockedAt is a sound
\* fencing token, for every lease and every backoff of at least one tick.
THEOREM ClaimsAreExclusive == Spec => []OneOwner
BY Invariance, PTL DEF IndInv

\* The score shown is always the score of the successful run pointed at, and a
\* finished run's hash is the hash of the input that was scored.
THEOREM ScoresCorrect == Spec => []ScoresAgree
<1>1. IndInv => ScoresAgree
  BY DEF IndInv, ScoresAgree
<1> QED
  BY <1>1, Invariance, PTL

\* No step of any actor writes a finished run.
THEOREM FinishedRunsStay == Spec => FinishedRunsFrozen
<1>1. ASSUME IndInv, [Next]_vars, NEW r \in RunIds, run[r].status \in Terminal
      PROVE  run'[r] = run[r]
  <2>1. run[r].status \notin Active /\ run[r].status # "NONE"
    BY <1>1 DEF Terminal, Active
  <2> QED
    BY <1>1, <2>1, WorkersWriteActiveRows, RequestsWriteNewRows DEF IndInv, Next, NextRow
<1>2. IndInv /\ [Next]_vars => [\A r \in RunIds : run[r].status \in Terminal => run'[r] = run[r]]_vars
  BY <1>1
<1> QED
  BY <1>2, Invariance, PTL DEF Spec, FinishedRunsFrozen
-----------------------------------------------------------------------------
(* The refinement of WorkQueue.  Every row of ScoringRun moves on its own, *)
(* and every lane keeps the count of the claim it holds.                   *)

\* What one step can do to a row.
RowStep(r) ==
  \/ run'[r] = run[r]
  \/ /\ run[r].status = "NONE"
     /\ run'[r].status = "QUEUED"
     /\ run'[r].attempts = 0
  \/ /\ run[r].status = "QUEUED"
     /\ run'[r].status = "RUNNING"
     /\ run'[r].attempts = run[r].attempts + 1
     /\ run[r].nextAttemptAt <= run'[r].lockedAt
  \/ /\ run[r].status = "RUNNING"
     /\ run[r].attempts < MaxAttempts
     /\ run'[r].status = "QUEUED"
     /\ run'[r].attempts = run[r].attempts
  \/ /\ run[r].status = "RUNNING"
     /\ run'[r].status \in Terminal
     /\ run'[r].attempts = run[r].attempts

\* What one step can do to a lane: it holds no claim afterwards, goes on with
\* the claim it had, or has just made one.
LaneStep(w) ==
  \/ worker'[w].pc \notin Processing
  \/ /\ worker[w].pc \in Processing
     /\ worker'[w].run = worker[w].run
     /\ worker'[w].token = worker[w].token
     /\ worker'[w].attempts = worker[w].attempts
     /\ worker'[w].pc = "retrying" => worker[w].attempts < MaxAttempts
  \/ /\ worker'[w].pc = "claimed"
     /\ worker'[w].attempts = run'[worker'[w].run].attempts

LEMMA RowSteps ==
  ASSUME IndInv, AttemptsInv, [Next]_vars, NEW r \in RunIds
  PROVE  RowStep(r)
<1>0. TypeOK /\ LanesInv /\ run[r] \in Run
  BY DEF IndInv, TypeOK
<1>1. ASSUME NEW u \in Users, Request(u) PROVE RowStep(r)
  <2>1. CASE run'[r] # run[r]
    <3>1. NextRow(r) /\ run'[r] = QueuedRun(u, App(r))
      BY <1>0, <1>1, <2>1, RequestsWriteNewRows
    <3> QED
      BY <3>1 DEF RowStep, NextRow, QueuedRun, NewRow
  <2> QED
    BY <2>1 DEF RowStep
<1>2. ASSUME NEW w \in Workers, Work(w) PROVE RowStep(r)
  <2>0. worker[w] \in Lane
    BY <1>0 DEF TypeOK
  <2>1. CASE ClaimTake(w)
    <3>1. ASSUME NEW x \in Due(w),
                 run' = [run EXCEPT ![x].status = "RUNNING", ![x].lockedAt = worker[w].token,
                                    ![x].attempts = @ + 1]
          PROVE  RowStep(r)
      <4>1. x \in RunIds /\ run[x] \in Run /\ run[x].status = "QUEUED"
            /\ run[x].nextAttemptAt <= worker[w].token
        BY <1>0 DEF Due, TypeOK
      <4>2. CASE x = r
        BY <3>1, <4>1, <4>2, <1>0 DEF RowStep, TypeOK, Run
      <4>3. CASE x # r
        BY <3>1, <4>1, <4>3, <1>0 DEF RowStep, TypeOK
      <4> QED
        BY <4>2, <4>3
    <3> QED
      BY <2>1, <3>1 DEF ClaimTake, RowStep
  <2>2. CASE Commit(w)
    <3>1. worker[w].run \in RunIds
      BY <1>0, <2>2 DEF Commit, LanesInv, Processing
    <3>2. CASE OwnedBy(w) /\ worker[w].run = r
      <4>1. run'[r] = Succeeded(w) /\ run[r].status = "RUNNING"
        BY <1>0, <2>2, <3>2 DEF Commit, OwnedBy, TypeOK
      <4>2. Succeeded(w).status = "SUCCEEDED" /\ Succeeded(w).attempts = run[r].attempts
        BY <1>0, <3>2 DEF Succeeded, Run
      <4> QED
        BY <4>1, <4>2 DEF RowStep, Terminal
    <3>3. CASE ~(OwnedBy(w) /\ worker[w].run = r)
      BY <1>0, <2>2, <3>1, <3>3 DEF Commit, RowStep, TypeOK
    <3> QED
      BY <3>2, <3>3
  <2>3. CASE FailRun(w)
    <3>1. worker[w].run \in RunIds
      BY <1>0, <2>3 DEF FailRun, LanesInv, Processing
    <3>2. CASE OwnedBy(w) /\ worker[w].run = r
      BY <1>0, <2>3, <3>1, <3>2 DEF FailRun, OwnedBy, RowStep, TypeOK, Run, Terminal
    <3>3. CASE ~(OwnedBy(w) /\ worker[w].run = r)
      BY <1>0, <2>3, <3>1, <3>3 DEF FailRun, RowStep, TypeOK
    <3> QED
      BY <3>2, <3>3
  <2>4. CASE RetryRun(w)
    <3>1. worker[w].run \in RunIds
      BY <1>0, <2>4 DEF RetryRun, LanesInv, Processing
    <3>2. CASE OwnedBy(w) /\ worker[w].run = r
      <4>1. run[r].attempts < MaxAttempts
        BY <2>4, <3>2 DEF RetryRun, AttemptsInv, Processing
      <4> QED
        BY <1>0, <2>4, <3>1, <3>2, <4>1 DEF RetryRun, OwnedBy, RowStep, TypeOK, Run
    <3>3. CASE ~(OwnedBy(w) /\ worker[w].run = r)
      BY <1>0, <2>4, <3>1, <3>3 DEF RetryRun, RowStep, TypeOK
    <3> QED
      BY <3>2, <3>3
  <2>5. CASE run' = run
    BY <2>5 DEF RowStep
  <2> QED
    BY <1>2, <2>1, <2>2, <2>3, <2>4, <2>5
       DEF Work, ClaimStart, ClaimCount, Load, CheckBudget, Evaluate, EvaluateError,
           ChargeAiTokens, Throw, Crash
<1>3. CASE RecoverStaleRuns
  <2>1. r \in StaleRuns => run[r].status = "RUNNING"
    BY DEF StaleRuns, Running
  <2>2. run[r].attempts \in Nat
    BY <1>0 DEF Run
  <2> QED
    BY <1>0, <1>3, <2>1, <2>2 DEF RecoverStaleRuns, RowStep, Run, Terminal
<1>4. CASE Outside \/ Tick \/ UNCHANGED vars
  BY <1>4 DEF Outside, EditInput, SetCandidateAiFlags, SetApplicationRemoved,
              SetNoticeRequired, Tick, vars, RowStep
<1> QED
  BY <1>1, <1>2, <1>3, <1>4 DEF Next

LEMMA LaneSteps ==
  ASSUME IndInv, AttemptsInv, [Next]_vars, NEW w \in Workers
  PROVE  LaneStep(w)
<1>0. TypeOK /\ LanesInv /\ worker[w] \in Lane
  BY DEF IndInv, TypeOK
<1>1. ASSUME worker'[w] = worker[w] PROVE LaneStep(w)
  BY <1>1 DEF LaneStep, AttemptsInv
<1>2. ASSUME NEW v \in Workers, Work(v) PROVE LaneStep(w)
  <2>1. CASE v # w
    <3>1. worker'[w] = worker[w]
      BY <1>0, <1>2, <2>1
         DEF Work, ClaimStart, ClaimCount, ClaimTake, Load, CheckBudget, Evaluate, EvaluateError,
             ChargeAiTokens, Commit, Throw, FailRun, RetryRun, Crash, Step, GoIdle, TypeOK
    <3> QED
      BY <1>1, <3>1
  <2>2. CASE v = w
    <3>a. ASSUME GoIdle(w) PROVE LaneStep(w)
      BY <1>0, <3>a DEF GoIdle, IdleLane, LaneStep, Processing, TypeOK
    <3>b. ASSUME NEW to, Step(w, to), worker[w].pc \in Processing,
                 to = "retrying" => worker[w].attempts < MaxAttempts
          PROVE  LaneStep(w)
      <4>1. worker'[w] = [worker[w] EXCEPT !.pc = to]
        BY <1>0, <3>b DEF Step, TypeOK
      <4> QED
        BY <1>0, <3>b, <4>1 DEF LaneStep, Lane
    <3>1. CASE ClaimStart(w)
      <4>1. worker'[w].pc = "waiting"
        BY <1>0, <3>1 DEF ClaimStart, TypeOK, Lane
      <4> QED
        BY <4>1 DEF LaneStep, Processing
    <3>2. CASE ClaimCount(w)
      <4>1. GoIdle(w) \/ worker'[w].pc = "counted"
        BY <1>0, <3>2 DEF ClaimCount, TypeOK, Lane
      <4> QED
        BY <3>a, <4>1 DEF LaneStep, Processing
    <3>3. CASE ClaimTake(w)
      <4>1. ASSUME NEW x \in Due(w),
                   run' = [run EXCEPT ![x].status = "RUNNING", ![x].lockedAt = worker[w].token,
                                      ![x].attempts = @ + 1],
                   worker' = [worker EXCEPT ![w].pc = "claimed", ![w].run = x,
                                            ![w].attempts = run[x].attempts + 1, ![w].saturated = {}]
            PROVE  LaneStep(w)
        <5>1. x \in RunIds /\ run[x] \in Run
          BY <1>0 DEF Due, TypeOK
        <5>2. run'[x].attempts = run[x].attempts + 1
          BY <1>0, <4>1, <5>1 DEF TypeOK, Run
        <5>3. worker'[w] = [worker[w] EXCEPT !.pc = "claimed", !.run = x,
                                             !.attempts = run[x].attempts + 1, !.saturated = {}]
          BY <1>0, <4>1 DEF TypeOK
        <5>4. worker'[w].pc = "claimed" /\ worker'[w].run = x
              /\ worker'[w].attempts = run[x].attempts + 1
          BY <1>0, <5>3 DEF Lane
        <5> QED
          BY <5>2, <5>4 DEF LaneStep
      <4> QED
        BY <3>3, <3>a, <4>1 DEF ClaimTake
    <3>4. CASE Load(w)
      <4>1. ASSUME worker' = [worker EXCEPT ![w].pc = "loaded", ![w].input = app[App(worker[w].run)].input]
            PROVE  LaneStep(w)
        <5>1. worker'[w] = [worker[w] EXCEPT !.pc = "loaded", !.input = app[App(worker[w].run)].input]
          BY <1>0, <4>1 DEF TypeOK
        <5>2. worker[w].pc \in Processing
          BY <3>4 DEF Load, Processing
        <5> QED
          BY <1>0, <5>1, <5>2 DEF LaneStep, Lane
      <4>2. Step(w, "failing") => LaneStep(w)
        BY <3>4, <3>b DEF Load, Processing
      <4> QED
        BY <3>4, <4>1, <4>2 DEF Load
    <3>5. CASE CheckBudget(w) \/ ChargeAiTokens(w) \/ Throw(w)
      BY <3>5, <3>b DEF CheckBudget, ChargeAiTokens, Throw, Processing
    <3>6. CASE EvaluateError(w)
      BY <3>6, <3>b DEF EvaluateError, Processing
    <3>7. CASE Evaluate(w)
      <4>1. PICK cost \in TokenCosts, to \in {"answered", "failing"} :
              worker' = [worker EXCEPT ![w].pc = to, ![w].cost = cost]
        BY <3>7 DEF Evaluate
      <4>2. worker'[w] = [worker[w] EXCEPT !.pc = to, !.cost = cost]
        BY <1>0, <4>1 DEF TypeOK
      <4>3. worker[w].pc \in Processing
        BY <3>7 DEF Evaluate, Processing
      <4> QED
        BY <1>0, <4>2, <4>3 DEF LaneStep, Lane
    <3>8. CASE Commit(w) \/ FailRun(w) \/ RetryRun(w) \/ Crash(w)
      BY <3>8, <3>a DEF Commit, FailRun, RetryRun, Crash
    <3> QED
      BY <1>2, <2>2, <3>1, <3>2, <3>3, <3>4, <3>5, <3>6, <3>7, <3>8 DEF Work
  <2> QED
    BY <2>1, <2>2
<1>3. CASE (\E u \in Users : Request(u)) \/ RecoverStaleRuns \/ Outside \/ Tick \/ UNCHANGED vars
  <2>1. worker' = worker
    BY <1>3 DEF Request, RequestScoring, RequestJobScoring, LockNext, DecideOne, DecideBulk,
                CreateRuns, ReuseRun, AbortRequest, RecoverStaleRuns, Outside, EditInput,
                SetCandidateAiFlags, SetApplicationRemoved, SetNoticeRequired, Tick, vars
  <2> QED
    BY <1>1, <2>1
<1> QED
  BY <1>2, <1>3 DEF Next

\* The worker's copy of the count is never stale while it owns the run: the
\* claim that replaces it carries a later token.
LEMMA AttemptsStep ==
  ASSUME IndInv, AttemptsInv, [Next]_vars
  PROVE  AttemptsInv'
<1>0. TypeOK /\ TypeOK' /\ LanesInv /\ ClaimsInv
  BY NextIndInv DEF IndInv
<1>1. ASSUME NEW r \in RunIds
      PROVE  /\ run'[r].attempts <= MaxAttempts
             /\ run'[r].status = "QUEUED" => run'[r].attempts < MaxAttempts
             /\ run'[r].status = "NONE" => run'[r].attempts = 0
  <2>1. RowStep(r)
    BY RowSteps
  <2>2. run[r].attempts \in Nat
    BY <1>0 DEF TypeOK, Run
  <2> QED
    BY <2>1, <2>2, CapsAssumption DEF RowStep, AttemptsInv, Terminal
<1>2. ASSUME NEW w \in Workers
      PROVE  /\ worker'[w].pc \in Processing /\ OwnedBy(w)' =>
                  worker'[w].attempts = run'[worker'[w].run].attempts
             /\ worker'[w].pc = "retrying" => worker'[w].attempts < MaxAttempts
  <2>1. LaneStep(w)
    BY LaneSteps
  <2>2. CASE worker'[w].pc \notin Processing
    BY <2>2 DEF Processing
  <2>3. CASE worker'[w].pc = "claimed" /\ worker'[w].attempts = run'[worker'[w].run].attempts
    BY <2>3
  <2>4. CASE /\ worker[w].pc \in Processing
             /\ worker'[w].run = worker[w].run
             /\ worker'[w].token = worker[w].token
             /\ worker'[w].attempts = worker[w].attempts
             /\ worker'[w].pc = "retrying" => worker[w].attempts < MaxAttempts
    <3> DEFINE r == worker[w].run
    <3>1. r \in RunIds /\ r # None
      BY <1>0, <2>4, DataAssumption DEF LanesInv
    <3>2. RowStep(r)
      BY <3>1, RowSteps
    <3>3. ASSUME OwnedBy(w)' PROVE worker[w].attempts = run'[r].attempts
      <4>1. run'[r].status = "RUNNING" /\ run'[r].lockedAt = worker[w].token
        BY <2>4, <3>3 DEF OwnedBy
      <4>2. ~(run[r].status = "QUEUED" /\ run[r].nextAttemptAt <= run'[r].lockedAt)
        <5>1. worker[w].token \in Nat /\ run[r].nextAttemptAt \in Nat
          BY <1>0, <3>1 DEF TypeOK, Lane, Run
        <5>2. run[r].status = "QUEUED" => worker[w].token < run[r].nextAttemptAt
          BY <1>0, <3>1 DEF ClaimsInv
        <5> QED
          BY <4>1, <5>1, <5>2
      <4>3. run'[r] = run[r]
        BY <3>2, <4>1, <4>2 DEF RowStep, Terminal
      <4> QED
        BY <2>4, <4>1, <4>3 DEF OwnedBy, AttemptsInv
    <3> QED
      BY <2>4, <3>3
  <2> QED
    BY <2>1, <2>2, <2>3, <2>4 DEF LaneStep
<1> QED
  BY <1>1, <1>2 DEF AttemptsInv

LEMMA InitAttempts == Init => AttemptsInv
<1>1. NewRow.attempts = 0 /\ NewRow.status = "NONE" /\ IdleLane.pc = "idle"
  BY DEF NewRow, IdleLane
<1> QED
  BY <1>1, CapsAssumption DEF Init, AttemptsInv, Processing

\* A claim never starts a run more often than MAX_ATTEMPTS allows, and a worker
\* that still owns its run decides on a retry by the true count.
THEOREM AttemptsCounted == Spec => [](IndInv /\ AttemptsInv)
<1>1. IndInv /\ AttemptsInv /\ [Next]_vars => (IndInv /\ AttemptsInv)'
  BY NextIndInv, AttemptsStep
<1> QED
  BY <1>1, InitIndInv, InitAttempts, PTL DEF Spec

\* A row's step is a step of the abstract queue.
LEMMA QueueSteps ==
  ASSUME IndInv, AttemptsInv, [Next]_vars
  PROVE  Queue!Next
<1>0. TypeOK /\ TypeOK'
  BY NextIndInv DEF IndInv
<1>1. \A r \in RunIds : run[r].attempts \in Nat /\ run'[r].attempts \in Nat
  BY <1>0 DEF TypeOK, Run
<1>2. \A s : QueueState(s) \in {"absent", "waiting", "working", "done"}
  BY DEF QueueState
<1>3. ASSUME NEW r \in RunIds
      PROVE  \/ Queue!Put(r) \/ Queue!Take(r) \/ Queue!Return(r)
             \/ Queue!Finish(r) \/ Queue!Withdraw(r) \/ Queue!Stay(r)
  <2>1. RowStep(r)
    BY RowSteps
  <2>2. run[r].status = "QUEUED" => run[r].attempts < MaxAttempts
    BY DEF AttemptsInv
  <2> QED
    BY <2>1, <2>2 DEF RowStep, Queue!Put, Queue!Take, Queue!Return, Queue!Finish, Queue!Withdraw,
                      Queue!Stay, QueueState, Terminal
<1> QED
  BY <1>1, <1>2, <1>3 DEF Queue!Next

\* The scoring queue is a work queue: every run is taken at most MAX_ATTEMPTS
\* times and stays ended, under any interleaving of requests, workers,
\* crashes and recoveries.
THEOREM ScoringImplementsWorkQueue == Spec => ImplementsWorkQueue
<1>1. Init => Queue!Init
  BY DEF Init, NewRow, Queue!Init, QueueState
<1>2. IndInv /\ AttemptsInv /\ [Next]_vars => [Queue!Next]_(Queue!vars)
  BY QueueSteps
<1> QED
  BY <1>1, <1>2, AttemptsCounted, PTL DEF Spec, ImplementsWorkQueue, Queue!Spec
-----------------------------------------------------------------------------
(* Candidates who may not be scored. *)

\* Run r has not succeeded, and no lane that may still write it has an input for it.
Unscored(r) ==
  /\ run[r].status \notin {"NONE", "SUCCEEDED"}
  /\ \A w \in Workers : worker[w].run = r /\ OwnedBy(w) => worker[w].pc \notin HasInput

\* A lane that has an input had it before, or has just loaded it.
LEMMA InputSteps ==
  ASSUME TypeOK, [Next]_vars, NEW w \in Workers, worker'[w].pc \in HasInput
  PROVE  /\ worker'[w].run = worker[w].run /\ worker'[w].token = worker[w].token
         /\ worker[w].pc \in HasInput \/ (worker[w].pc = "claimed" /\ ~Unscorable(App(worker[w].run)))
<1>0. worker \in [Workers -> Lane] /\ worker[w] \in Lane
  BY DEF TypeOK
<1>1. ASSUME worker'[w] = worker[w]
      PROVE  /\ worker'[w].run = worker[w].run /\ worker'[w].token = worker[w].token
             /\ worker[w].pc \in HasInput
  BY <1>1
<1>2. ASSUME NEW v \in Workers, Work(v), v # w PROVE worker'[w] = worker[w]
  BY <1>0, <1>2, Zenon DEF Work, ClaimStart, ClaimCount, ClaimTake, Load, CheckBudget, Evaluate, EvaluateError,
     ChargeAiTokens, Commit, Throw, FailRun, RetryRun, Crash, Step, GoIdle
<1>3. ASSUME Work(w)
      PROVE  /\ worker'[w].run = worker[w].run /\ worker'[w].token = worker[w].token
             /\ worker[w].pc \in HasInput \/ (worker[w].pc = "claimed" /\ ~Unscorable(App(worker[w].run)))
  <2>1. CASE Load(w)
    BY <1>0, <2>1 DEF Load, Step, HasInput, Lane
  <2>2. CASE CheckBudget(w) \/ Evaluate(w) \/ ChargeAiTokens(w)
    BY <1>0, <2>2 DEF CheckBudget, Evaluate, ChargeAiTokens, Step, HasInput, Lane
  <2>3. CASE EvaluateError(w) \/ Throw(w)
    <3>1. worker'[w].pc \in {"retrying", "failing"}
      BY <1>0, <2>3 DEF EvaluateError, Throw, Step, Lane
    <3> QED
      BY <3>1 DEF HasInput
  <2>4. CASE Commit(w) \/ FailRun(w) \/ RetryRun(w) \/ Crash(w)
    <3>1. worker'[w].pc = "idle"
      BY <1>0, <2>4 DEF Commit, FailRun, RetryRun, Crash, GoIdle, IdleLane
    <3> QED
      BY <3>1 DEF HasInput
  <2>5. CASE ClaimStart(w) \/ ClaimCount(w) \/ ClaimTake(w)
    <3>1. ClaimStart(w) => worker'[w].pc = "waiting"
      BY <1>0 DEF ClaimStart, Lane
    <3>2. ClaimCount(w) => worker'[w].pc \in {"idle", "counted"}
      BY <1>0 DEF ClaimCount, GoIdle, IdleLane, Lane
    <3>3. ASSUME NEW x \in RunIds,
                 worker' = [worker EXCEPT ![w].pc = "claimed", ![w].run = x,
                                          ![w].attempts = run[x].attempts + 1, ![w].saturated = {}]
          PROVE  worker'[w].pc = "claimed"
      BY <1>0, <3>3 DEF Lane
    <3>4. ClaimTake(w) => worker'[w].pc \in {"idle", "claimed"}
      <4>1. GoIdle(w) => worker'[w].pc = "idle"
        BY <1>0 DEF GoIdle, IdleLane
      <4>2. ClaimTake(w) => GoIdle(w) \/ \E x \in RunIds :
                 worker' = [worker EXCEPT ![w].pc = "claimed", ![w].run = x,
                                          ![w].attempts = run[x].attempts + 1, ![w].saturated = {}]
        BY Zenon DEF ClaimTake, Due
      <4> QED
        BY <3>3, <4>1, <4>2
    <3> QED
      BY <2>5, <3>1, <3>2, <3>4 DEF HasInput
  <2> QED
    BY <1>3, <2>1, <2>2, <2>3, <2>4, <2>5 DEF Work
<1>4. ASSUME ~\E v \in Workers : Work(v) PROVE worker'[w] = worker[w]
  BY <1>4 DEF Next, vars, Request, RequestScoring, RequestJobScoring, LockNext, DecideOne, DecideBulk,
     CreateRuns, ReuseRun, AbortRequest, RecoverStaleRuns, Outside, EditInput,
     SetCandidateAiFlags, SetApplicationRemoved, SetNoticeRequired, Tick
<1> QED
  BY <1>1, <1>2, <1>3, <1>4

\* Only a lane that owns the run and has an input lets it succeed.
LEMMA OnlyOwnersSucceed ==
  ASSUME IndInv, [Next]_vars, NEW r \in RunIds, Unscored(r)
  PROVE  run'[r].status # "SUCCEEDED"
<1>0. TypeOK /\ LanesInv /\ run[r] \in Run /\ run \in [RunIds -> Run]
  BY DEF IndInv, TypeOK
<1>1. CASE run'[r] = run[r]
  BY <1>1 DEF Unscored
<1>2. ASSUME NEW u \in Users, Request(u), run'[r] # run[r] PROVE FALSE
  BY <1>0, <1>2, RequestsWriteNewRows DEF NextRow, Unscored
<1>3. ASSUME NEW w \in Workers, Work(w), run'[r].status = "SUCCEEDED", run'[r] # run[r] PROVE FALSE
  <2>1. CASE Commit(w)
    <3>1. worker[w].run \in RunIds
      BY <1>0, <2>1 DEF Commit, LanesInv, Processing
    <3>2. OwnedBy(w) /\ worker[w].run = r
      BY <1>0, <1>3, <2>1, <3>1 DEF Commit
    <3> QED
      BY <2>1, <3>2 DEF Commit, Unscored, HasInput
  <2>2. CASE ClaimTake(w)
    <3>1. ASSUME NEW x \in RunIds,
                 run' = [run EXCEPT ![x].status = "RUNNING", ![x].lockedAt = worker[w].token,
                                    ![x].attempts = @ + 1]
          PROVE  FALSE
      BY <1>0, <1>3, <3>1 DEF Run
    <3> QED
      BY <1>3, <2>2, <3>1 DEF ClaimTake, Due
  <2>3. CASE FailRun(w)
    <3>1. worker[w].run \in RunIds
      BY <1>0, <2>3 DEF FailRun, LanesInv, Processing
    <3> QED
      BY <1>0, <1>3, <2>3, <3>1 DEF FailRun
  <2>4. CASE RetryRun(w)
    <3>1. worker[w].run \in RunIds
      BY <1>0, <2>4 DEF RetryRun, LanesInv, Processing
    <3> QED
      BY <1>0, <1>3, <2>4, <3>1 DEF RetryRun
  <2>5. CASE run' = run
    BY <1>3, <2>5
  <2> QED
    BY <1>3, <2>1, <2>2, <2>3, <2>4, <2>5
       DEF Work, ClaimStart, ClaimCount, Load, CheckBudget, Evaluate, EvaluateError,
           ChargeAiTokens, Throw, Crash
<1>4. CASE RecoverStaleRuns
  <2>1. run'[r].status \in {run[r].status, "QUEUED", "FAILED"}
    BY <1>0, <1>4 DEF RecoverStaleRuns, Run
  <2> QED
    BY <2>1 DEF Unscored
<1>5. CASE Outside \/ Tick \/ UNCHANGED vars
  BY <1>1, <1>5 DEF Outside, EditInput, SetCandidateAiFlags, SetApplicationRemoved, SetNoticeRequired, Tick, vars
<1> QED
  BY <1>1, <1>2, <1>3, <1>4, <1>5 DEF Next

\* As long as its candidate is refused, a run that is not scored stays so.
LEMMA UnscoredStays ==
  ASSUME IndInv, AttemptsInv, [Next]_vars, NEW r \in RunIds, Refused(App(r)), Unscored(r)
  PROVE  Unscored(r)'
<1>0. TypeOK /\ ClaimsInv /\ run[r] \in Run /\ RowStep(r)
  BY RowSteps DEF IndInv, TypeOK
<1>1. run'[r].status \notin {"NONE", "SUCCEEDED"}
  BY <1>0, OnlyOwnersSucceed DEF RowStep, Unscored, Terminal
<1>2. ASSUME NEW w \in Workers, worker'[w].run = r, OwnedBy(w)', worker'[w].pc \in HasInput
      PROVE  FALSE
  <2>1. /\ worker[w].run = r /\ worker'[w].token = worker[w].token
        /\ worker[w].pc \in HasInput \/ (worker[w].pc = "claimed" /\ ~Unscorable(App(r)))
    BY <1>0, <1>2, InputSteps
  <2>2. worker[w].pc \in HasInput
    BY <2>1 DEF Unscorable
  <2>3. ~OwnedBy(w)
    BY <2>1, <2>2 DEF Unscored
  <2>4. run'[r].status = "RUNNING" /\ run'[r].lockedAt = worker[w].token
    BY <1>2, <2>1 DEF OwnedBy
  <2>5. run'[r] # run[r]
    BY <2>1, <2>3, <2>4 DEF OwnedBy
  <2>6. run[r].status = "QUEUED" /\ run[r].nextAttemptAt <= run'[r].lockedAt
    BY <1>0, <2>4, <2>5 DEF RowStep, Terminal
  <2>7. worker[w].token < run[r].nextAttemptAt
    BY <1>0, <2>1, <2>6, DataAssumption DEF ClaimsInv
  <2>8. worker[w].token \in Nat /\ run[r].nextAttemptAt \in Nat
    BY <1>0 DEF TypeOK, Lane, Run
  <2> QED
    BY <2>4, <2>6, <2>7, <2>8
<1> QED
  BY <1>1, <1>2 DEF Unscored

\* A queued run whose candidate opts out, or loses a notice the company requires, never
\* succeeds while that lasts, whichever lane claims it or claimed it before.
THEOREM OptOutsHold == Spec => OptOutHonoured
<1>1. ASSUME NEW r \in RunIds
      PROVE  Spec => [](run[r].status = "QUEUED" /\ []Refused(App(r)) => [](run[r].status # "SUCCEEDED"))
  <2>1. IndInv /\ AttemptsInv /\ Refused(App(r)) /\ Unscored(r) /\ [Next]_vars => Unscored(r)'
    BY <1>1, UnscoredStays
  <2>2. run[r].status = "QUEUED" => Unscored(r)
    BY DEF Unscored, OwnedBy
  <2>3. Unscored(r) => run[r].status # "SUCCEEDED"
    BY DEF Unscored
  <2> QED
    BY <2>1, <2>2, <2>3, AttemptsCounted, PTL DEF Spec
<1> QED
  BY <1>1 DEF OptOutHonoured
-----------------------------------------------------------------------------
(* The limits. *)

\* One lane counts at a time, and while it is between the count and the claim
\* there is room for the run it may take.
CapsInv ==
  /\ WithinCaps
  /\ \A v, w \in Workers : worker[v].pc = "counted" /\ worker[w].pc = "counted" => v = w
  /\ \A w \in Workers : worker[w].pc = "counted" =>
       /\ Cardinality(Running) < GlobalConcurrency
       /\ \A c \in Companies \ worker[w].saturated : Cardinality(RunningIn(c)) < TenantConcurrency

\* The lanes that have passed the budget check and may still charge the tenant.
Spending(c) == {w \in Workers : /\ worker[w].pc \in {"evaluating", "answered"}
                                /\ Tenant(worker[w].run) = c}

\* Each of them may still charge one answer.
BudgetInv ==
  /\ \A w \in Workers : worker[w].pc = "answered" => worker[w].cost \in TokenCosts
  /\ \A c \in Companies : used[c] > 0 \/ Spending(c) # {} =>
       used[c] + Cardinality(Spending(c)) * Max(TokenCosts)
         < Budget[c] + Cardinality(Workers) * Max(TokenCosts)

\* A request that goes on to insert runs holds the rows of applications that
\* no earlier run succeeded with for that input.
FreshInv == \A u \in Users : user[u].pc = "creating" =>
  \A a \in user[u].batch : \A r \in RunsOf(a) :
    run[r].status = "SUCCEEDED" => run[r].inputHash # user[u].hash[a]

LimitsInv == CapsInv /\ BudgetInv /\ FreshInv
-----------------------------------------------------------------------------
(* The concurrency caps. *)

LEMMA RunsFinite == IsFiniteSet(RunIds)
<1>1. IsFiniteSet(Slots)
  BY FS_Interval, DataAssumption DEF Slots
<1> QED
  BY <1>1, FS_Product, FiniteAssumption DEF RunIds

LEMMA RunningFinite ==
  ASSUME NEW S \in SUBSET RunIds
  PROVE  IsFiniteSet(S) /\ Cardinality(S) \in Nat
BY RunsFinite, FS_Subset, FS_CardinalityType

\* Only a claim starts a run.
LEMMA OthersStartNothing ==
  ASSUME TypeOK, LanesInv,
         \/ \E u \in Users : Request(u)
         \/ \E w \in Workers : Work(w) /\ (~ClaimTake(w) \/ UNCHANGED run)
         \/ RecoverStaleRuns \/ Outside \/ Tick \/ UNCHANGED vars
  PROVE  Running' \subseteq Running
<1> SUFFICES ASSUME NEW r \in RunIds, run'[r] # run[r], run'[r].status = "RUNNING" PROVE FALSE
  BY DEF Running
<1>0. run[r] \in Run
  BY DEF TypeOK
<1>1. ASSUME NEW u \in Users, Request(u) PROVE FALSE
  <2>1. run'[r] = QueuedRun(u, App(r))
    BY <1>1, RequestsWriteNewRows
  <2> QED
    BY <2>1 DEF QueuedRun, NewRow
<1>2. ASSUME NEW w \in Workers, Work(w), ~ClaimTake(w) \/ UNCHANGED run PROVE FALSE
  <2>1. CASE Commit(w)
    <3>1. worker[w].run = r /\ run'[r] = Succeeded(w)
      BY <2>1 DEF Commit, LanesInv, Processing, TypeOK
    <3> QED
      BY <1>0, <3>1 DEF Succeeded, Run
  <2>2. CASE FailRun(w)
    BY <1>0, <2>2 DEF FailRun, LanesInv, Processing, TypeOK, Run
  <2>3. CASE RetryRun(w)
    BY <1>0, <2>3 DEF RetryRun, LanesInv, Processing, TypeOK, Run
  <2> QED
    BY <1>2, <2>1, <2>2, <2>3
       DEF Work, ClaimStart, ClaimCount, Load, CheckBudget, Evaluate, EvaluateError,
           ChargeAiTokens, Throw, Crash
<1>3. CASE RecoverStaleRuns
  BY <1>0, <1>3 DEF RecoverStaleRuns, Run
<1>4. CASE Outside \/ Tick \/ UNCHANGED vars
  BY <1>4 DEF Outside, EditInput, SetCandidateAiFlags, SetApplicationRemoved,
              SetNoticeRequired, Tick, vars
<1> QED
  BY <1>1, <1>2, <1>3, <1>4

\* A step that starts no run leaves room to the lane that is counting, if no
\* other lane starts to count.
LEMMA CapsFrame ==
  ASSUME TypeOK, CapsInv, Running' \subseteq Running,
         \A w \in Workers : worker'[w].pc = "counted" => /\ worker[w].pc = "counted"
                                                         /\ worker'[w].saturated = worker[w].saturated
  PROVE  CapsInv'
<1> USE CapsAssumption
<1>1. Cardinality(Running) \in Nat /\ Cardinality(Running') \in Nat
      /\ Cardinality(Running') <= Cardinality(Running)
  <2>1. Running \in SUBSET RunIds /\ Running' \in SUBSET Running
    BY DEF Running
  <2> QED
    BY <2>1, RunningFinite, FS_Subset
<1>2. ASSUME NEW c \in Companies
      PROVE  /\ Cardinality(RunningIn(c)) \in Nat /\ Cardinality(RunningIn(c)') \in Nat
             /\ Cardinality(RunningIn(c)') <= Cardinality(RunningIn(c))
  <2>1. RunningIn(c) \in SUBSET RunIds /\ RunningIn(c)' \in SUBSET RunningIn(c)
    BY DEF RunningIn, Running
  <2> QED
    BY <2>1, RunningFinite, FS_Subset
<1>3. (Cardinality(Running))' = Cardinality(Running')
      /\ \A c \in Companies : (Cardinality(RunningIn(c)))' = Cardinality(RunningIn(c)')
  OBVIOUS
<1>4. WithinCaps'
  BY <1>1, <1>2, <1>3 DEF CapsInv, WithinCaps
<1>5. \A v, w \in Workers : worker'[v].pc = "counted" /\ worker'[w].pc = "counted" => v = w
  BY DEF CapsInv
<1>6. ASSUME NEW w \in Workers, worker'[w].pc = "counted"
      PROVE  /\ Cardinality(Running') < GlobalConcurrency
             /\ \A c \in Companies \ worker'[w].saturated : Cardinality(RunningIn(c)') < TenantConcurrency
  BY <1>1, <1>2, <1>6 DEF CapsInv
<1> QED
  BY <1>3, <1>4, <1>5, <1>6 DEF CapsInv

LEMMA CapsStep ==
  ASSUME TypeOK, LanesInv, CapsInv, [Next]_vars
  PROVE  CapsInv'
<1> USE CapsAssumption
<1>2. ASSUME NEW w \in Workers, Work(w) PROVE CapsInv'
  <2>0. worker[w] \in Lane
    BY DEF TypeOK
  <2>a. ASSUME Running' \subseteq Running, NEW l, worker' = [worker EXCEPT ![w] = l], l.pc # "counted"
        PROVE  CapsInv'
    BY <2>a, CapsFrame DEF TypeOK
  <2>1. CASE ClaimCount(w)
    <3>1. run' = run
      BY <2>1 DEF ClaimCount
    <3>2. CASE GoIdle(w)
      <4>1. IdleLane.pc # "counted"
        BY DEF IdleLane
      <4> QED
        BY <2>a, <3>1, <3>2, <4>1 DEF GoIdle, Running
    <3>3. CASE ~GoIdle(w)
      <4> DEFINE full == {c \in Companies : Cardinality(RunningIn(c)) >= TenantConcurrency}
      <4>1. ~(Cardinality(Running) >= GlobalConcurrency) /\ ClaimLockFree
            /\ worker' = [worker EXCEPT ![w].pc = "counted", ![w].saturated = full]
        BY <2>1, <3>3 DEF ClaimCount
      <4>2. /\ worker'[w].pc = "counted" /\ worker'[w].saturated = full
            /\ \A v \in Workers \ {w} : worker'[v] = worker[v]
        BY <2>0, <4>1 DEF TypeOK, Lane
      <4>3. Cardinality(Running) \in Nat /\ \A c \in Companies : Cardinality(RunningIn(c)) \in Nat
        <5>1. Running \in SUBSET RunIds /\ \A c \in Companies : RunningIn(c) \in SUBSET RunIds
          BY DEF Running, RunningIn
        <5> QED
          BY <5>1, RunningFinite
      <4>4. Cardinality(Running) < GlobalConcurrency
            /\ \A c \in Companies \ full : Cardinality(RunningIn(c)) < TenantConcurrency
        BY <4>1, <4>3
      <4>5. \A v \in Workers : worker'[v].pc = "counted" => v = w
        BY <4>1, <4>2 DEF ClaimLockFree
      <4>6. Running' = Running /\ \A c \in Companies : RunningIn(c)' = RunningIn(c)
        BY <3>1 DEF Running, RunningIn
      <4>7. WithinCaps'
        BY <3>1 DEF CapsInv, WithinCaps, Running, RunningIn
      <4>8. Cardinality(Running') < GlobalConcurrency
            /\ \A c \in Companies \ worker'[w].saturated : Cardinality(RunningIn(c)') < TenantConcurrency
        BY <4>2, <4>4, <4>6
      <4>9. (Cardinality(Running))' = Cardinality(Running')
            /\ \A c \in Companies : (Cardinality(RunningIn(c)))' = Cardinality(RunningIn(c)')
        OBVIOUS
      <4> HIDE DEF full
      <4> QED
        BY <4>5, <4>7, <4>8, <4>9 DEF CapsInv
    <3> QED
      BY <3>2, <3>3
  <2>2. CASE ClaimTake(w) /\ ~UNCHANGED run
    <3>1. PICK r \in Due(w) :
            /\ run' = [run EXCEPT ![r].status = "RUNNING", ![r].lockedAt = worker[w].token,
                                  ![r].attempts = @ + 1]
            /\ worker' = [worker EXCEPT ![w].pc = "claimed", ![w].run = r,
                                        ![w].attempts = run[r].attempts + 1, ![w].saturated = {}]
      BY <2>2 DEF ClaimTake
    <3>2. r \in RunIds /\ run[r] \in Run /\ run[r].status = "QUEUED" /\ Tenant(r) \notin worker[w].saturated
      BY DEF Due, TypeOK
    <3>3. run'[r].status = "RUNNING" /\ \A s \in RunIds \ {r} : run'[s] = run[s]
      BY <3>1, <3>2 DEF TypeOK, Run
    <3>4. worker'[w].pc = "claimed" /\ \A v \in Workers \ {w} : worker'[v] = worker[v]
      BY <2>0, <3>1 DEF TypeOK, Lane
    <3>5. worker[w].pc = "counted"
      BY <2>2 DEF ClaimTake
    <3>6. Running' = Running \cup {r} /\ r \notin Running
      BY <3>2, <3>3 DEF Running
    <3>7. Cardinality(Running') <= GlobalConcurrency
      <4>1. Running \in SUBSET RunIds
        BY DEF Running
      <4>2. Cardinality(Running') = Cardinality(Running) + 1
        BY <3>6, <4>1, RunningFinite, FS_AddElement
      <4>3. Cardinality(Running) \in Nat /\ Cardinality(Running) < GlobalConcurrency
        BY <3>5, <4>1, RunningFinite DEF CapsInv
      <4> QED
        BY <4>2, <4>3
    <3>8. ASSUME NEW c \in Companies PROVE Cardinality(RunningIn(c)') <= TenantConcurrency
      <4>1. RunningIn(c) \in SUBSET RunIds
        BY DEF RunningIn, Running
      <4>2. CASE Tenant(r) = c
        <5>1. RunningIn(c)' = RunningIn(c) \cup {r} /\ r \notin RunningIn(c)
          BY <3>6, <4>2 DEF RunningIn
        <5>2. Cardinality(RunningIn(c)') = Cardinality(RunningIn(c)) + 1
          BY <4>1, <5>1, RunningFinite, FS_AddElement
        <5>3. Cardinality(RunningIn(c)) \in Nat /\ Cardinality(RunningIn(c)) < TenantConcurrency
          BY <3>2, <3>5, <4>1, <4>2, RunningFinite DEF CapsInv
        <5> QED
          BY <5>2, <5>3
      <4>3. CASE Tenant(r) # c
        <5>1. RunningIn(c)' = RunningIn(c)
          BY <3>6, <4>3 DEF RunningIn
        <5> QED
          BY <5>1 DEF CapsInv, WithinCaps
      <4> QED
        BY <4>2, <4>3
    <3>9. (Cardinality(Running))' = Cardinality(Running')
          /\ \A c \in Companies : (Cardinality(RunningIn(c)))' = Cardinality(RunningIn(c)')
      OBVIOUS
    <3>10. WithinCaps'
      BY <3>7, <3>8, <3>9 DEF WithinCaps
    <3>11. \A v \in Workers : worker'[v].pc # "counted"
      BY <3>4, <3>5 DEF CapsInv
    <3> QED
      BY <3>10, <3>11 DEF CapsInv
  <2>3. CASE ~ClaimCount(w) /\ (~ClaimTake(w) \/ UNCHANGED run)
    <3>1. Running' \subseteq Running
      BY <1>2, <2>3, OthersStartNothing
    <3>2. ASSUME NEW to, Step(w, to), to # "counted" PROVE worker'[w].pc # "counted"
      BY <2>0, <3>2 DEF Step, TypeOK, Lane
    <3>3. \A v \in Workers \ {w} : worker'[v] = worker[v]
      BY <1>2 DEF Work, ClaimStart, ClaimCount, ClaimTake, Load, CheckBudget, Evaluate, EvaluateError,
                  ChargeAiTokens, Commit, Throw, FailRun, RetryRun, Crash, Step, GoIdle, TypeOK
    <3>4. GoIdle(w) => worker'[w].pc # "counted"
      BY DEF GoIdle, IdleLane, TypeOK
    <3>5. CASE ClaimStart(w)
      <4>1. worker'[w].pc # "counted"
        BY <2>0, <3>5 DEF ClaimStart, TypeOK, Lane
      <4> QED
        BY <3>1, <3>3, <4>1, CapsFrame
    <3>6. CASE ClaimTake(w)
      <4>a. ASSUME NEW r \in Due(w), worker' = [worker EXCEPT ![w].pc = "claimed", ![w].run = r,
                     ![w].attempts = run[r].attempts + 1, ![w].saturated = {}]
            PROVE  worker'[w].pc # "counted"
        BY <2>0, <4>a DEF TypeOK, Lane
      <4>1. worker'[w].pc # "counted"
        BY <3>4, <3>6, <4>a DEF ClaimTake
      <4> QED
        BY <3>1, <3>3, <4>1, CapsFrame
    <3>7. CASE Load(w)
      <4>1. worker'[w].pc # "counted"
        BY <2>0, <3>2, <3>7 DEF Load, TypeOK, Lane
      <4> QED
        BY <3>1, <3>3, <4>1, CapsFrame
    <3>8. CASE Evaluate(w)
      <4>1. worker'[w].pc # "counted"
        BY <2>0, <3>8 DEF Evaluate, TypeOK, Lane
      <4> QED
        BY <3>1, <3>3, <4>1, CapsFrame
    <3>9. CASE CheckBudget(w) \/ EvaluateError(w) \/ ChargeAiTokens(w) \/ Throw(w)
      <4>1. worker'[w].pc # "counted"
        BY <3>2, <3>9 DEF CheckBudget, EvaluateError, ChargeAiTokens, Throw
      <4> QED
        BY <3>1, <3>3, <4>1, CapsFrame
    <3>10. CASE Commit(w) \/ FailRun(w) \/ RetryRun(w) \/ Crash(w)
      <4>1. worker'[w].pc # "counted"
        BY <3>4, <3>10 DEF Commit, FailRun, RetryRun, Crash
      <4> QED
        BY <3>1, <3>3, <4>1, CapsFrame
    <3> QED
      BY <1>2, <2>3, <3>5, <3>6, <3>7, <3>8, <3>9, <3>10 DEF Work
  <2> QED
    BY <2>1, <2>2, <2>3
<1>3. CASE (\E u \in Users : Request(u)) \/ RecoverStaleRuns \/ Outside \/ Tick \/ UNCHANGED vars
  <2>1. worker' = worker
    BY <1>3 DEF Request, RequestScoring, RequestJobScoring, LockNext, DecideOne, DecideBulk, CreateRuns,
                ReuseRun, AbortRequest, RecoverStaleRuns, Outside, EditInput, SetCandidateAiFlags,
                SetApplicationRemoved, SetNoticeRequired, Tick, vars
  <2>2. Running' \subseteq Running
    BY <1>3, OthersStartNothing
  <2> QED
    BY <2>1, <2>2, CapsFrame
<1> QED
  BY <1>2, <1>3 DEF Next
-----------------------------------------------------------------------------
(* The token budget. *)

\* The most one answer costs.
LEMMA MostIs ==
  /\ Max(TokenCosts) \in Nat
  /\ \A cost \in TokenCosts : cost <= Max(TokenCosts)
<1>1. Max(TokenCosts) \in TokenCosts /\ \A cost \in TokenCosts : Max(TokenCosts) >= cost
  BY CostAssumption, Zenon DEF Max
<1> QED
  BY <1>1, DataAssumption

LEMMA Scaled ==
  ASSUME NEW m \in Nat, NEW n \in Nat, NEW k \in Nat, m <= n
  PROVE  m * k \in Nat /\ n * k \in Nat /\ m * k <= n * k
OBVIOUS

LEMMA SpendingFinite ==
  ASSUME NEW S \in SUBSET Workers
  PROVE  IsFiniteSet(S) /\ Cardinality(S) \in Nat /\ Cardinality(S) <= Cardinality(Workers)
BY FiniteAssumption, FS_Subset, FS_CardinalityType

\* A tenant for which no lane starts to spend and nothing is charged.
LEMMA BudgetKept ==
  ASSUME TypeOK, BudgetInv, NEW c \in Companies, used'[c] = used[c], Spending(c)' \subseteq Spending(c)
  PROVE  used'[c] > 0 \/ Spending(c)' # {} =>
           used'[c] + Cardinality(Spending(c)') * Max(TokenCosts)
             < Budget[c] + Cardinality(Workers) * Max(TokenCosts)
<1> DEFINE most == Max(TokenCosts)
           before == Cardinality(Spending(c))
           after == Cardinality(Spending(c)')
           all == Cardinality(Workers)
<1>1. before \in Nat /\ after \in Nat /\ after <= before
  <2>1. Spending(c) \in SUBSET Workers /\ Spending(c)' \in SUBSET Spending(c)
    BY DEF Spending
  <2> QED
    BY <2>1, SpendingFinite, FS_Subset
<1>2. most \in Nat /\ all \in Nat /\ used[c] \in Nat /\ Budget[c] \in Nat
  BY MostIs, FiniteAssumption, FS_CardinalityType, DataAssumption DEF TypeOK
<1>3. used'[c] > 0 \/ Spending(c)' # {} => used[c] + before * most < Budget[c] + all * most
  BY DEF BudgetInv
<1> HIDE DEF most, before, after, all
<1>4. after * most \in Nat /\ before * most \in Nat /\ all * most \in Nat /\ after * most <= before * most
  BY <1>1, <1>2, Scaled
<1>5. ASSUME used'[c] > 0 \/ Spending(c)' # {}
      PROVE  used'[c] + after * most < Budget[c] + all * most
  BY <1>2, <1>3, <1>4, <1>5
<1> QED
  BY <1>5 DEF most, after, all

\* A step that charges nothing and lets no further lane spend.
LEMMA BudgetFrame ==
  ASSUME TypeOK, BudgetInv, used' = used,
         \A w \in Workers : worker'[w].pc = "answered" => worker'[w].cost \in TokenCosts,
         \A c \in Companies : Spending(c)' \subseteq Spending(c)
  PROVE  BudgetInv'
<1>1. \A c \in Companies : (Cardinality(Spending(c)))' = Cardinality(Spending(c)')
  OBVIOUS
<1>2. Max(TokenCosts)' = Max(TokenCosts) /\ Cardinality(Workers)' = Cardinality(Workers)
  BY DEF Max
<1>3. ASSUME NEW c \in Companies
      PROVE  used'[c] > 0 \/ Spending(c)' # {} =>
               used'[c] + Cardinality(Spending(c)') * Max(TokenCosts)
                 < Budget[c] + Cardinality(Workers) * Max(TokenCosts)
  BY BudgetKept
<1> QED
  BY <1>3 DEF BudgetInv

\* A lane that gives up its run, or keeps it in a state that spends nothing.
LEMMA LaneQuiet ==
  ASSUME TypeOK, BudgetInv, used' = used, NEW w \in Workers, NEW l,
         worker' = [worker EXCEPT ![w] = l], l.pc \notin {"evaluating", "answered"}
  PROVE  BudgetInv'
<1>1. worker'[w] = l /\ \A v \in Workers \ {w} : worker'[v] = worker[v]
  BY DEF TypeOK
<1>2. \A c \in Companies : Spending(c)' \subseteq Spending(c)
  BY <1>1 DEF Spending
<1>3. \A v \in Workers : worker'[v].pc = "answered" => worker'[v].cost \in TokenCosts
  BY <1>1 DEF BudgetInv
<1> QED
  BY <1>2, <1>3, BudgetFrame

LEMMA BudgetStep ==
  ASSUME TypeOK, LanesInv, BudgetInv, [Next]_vars
  PROVE  BudgetInv'
<1>1. ASSUME NEW w \in Workers, Work(w) PROVE BudgetInv'
  <2>0. worker[w] \in Lane
    BY DEF TypeOK
  <2>a. ASSUME used' = used, GoIdle(w) PROVE BudgetInv'
    <3>1. IdleLane.pc \notin {"evaluating", "answered"}
      BY DEF IdleLane
    <3> QED
      BY <2>a, <3>1, LaneQuiet DEF GoIdle
  <2>b. ASSUME used' = used, NEW to, to \notin {"evaluating", "answered"}, Step(w, to) PROVE BudgetInv'
    <3> DEFINE l == [worker[w] EXCEPT !.pc = to]
    <3>1. l.pc = to /\ worker' = [worker EXCEPT ![w] = l]
      BY <2>0, <2>b DEF Step, Lane
    <3> HIDE DEF l
    <3> QED
      BY <2>b, <3>1, LaneQuiet
  <2>1. CASE ClaimStart(w)
    <3> DEFINE l == [worker[w] EXCEPT !.pc = "waiting", !.token = clock]
    <3>1. l.pc = "waiting" /\ worker' = [worker EXCEPT ![w] = l] /\ used' = used
      BY <2>0, <2>1 DEF ClaimStart, Lane
    <3> HIDE DEF l
    <3> QED
      BY <3>1, LaneQuiet
  <2>2. CASE ClaimCount(w)
    <3> DEFINE full == {c \in Companies : Cardinality(RunningIn(c)) >= TenantConcurrency}
               l == [worker[w] EXCEPT !.pc = "counted", !.saturated = full]
    <3>1. l.pc = "counted" /\ (GoIdle(w) \/ worker' = [worker EXCEPT ![w] = l]) /\ used' = used
      BY <2>0, <2>2 DEF ClaimCount, Lane
    <3> HIDE DEF l
    <3> QED
      BY <2>a, <3>1, LaneQuiet
  <2>3. CASE ClaimTake(w)
    <3>1. ASSUME NEW r \in Due(w), worker' = [worker EXCEPT ![w].pc = "claimed", ![w].run = r,
                     ![w].attempts = run[r].attempts + 1, ![w].saturated = {}]
          PROVE  BudgetInv'
      <4> DEFINE l == [worker[w] EXCEPT !.pc = "claimed", !.run = r,
                                        !.attempts = run[r].attempts + 1, !.saturated = {}]
      <4>1. l.pc = "claimed" /\ worker' = [worker EXCEPT ![w] = l] /\ used' = used
        BY <2>0, <2>3, <3>1, ZenonT(90) DEF ClaimTake, Lane
      <4> HIDE DEF l
      <4> QED
        BY <4>1, LaneQuiet
    <3> QED
      BY <2>3, <2>a, <3>1 DEF ClaimTake
  <2>4. CASE Load(w)
    <3> DEFINE l == [worker[w] EXCEPT !.pc = "loaded", !.input = app[App(worker[w].run)].input]
    <3>1. l.pc = "loaded" /\ used' = used /\ (Step(w, "failing") \/ worker' = [worker EXCEPT ![w] = l])
      BY <2>0, <2>4 DEF Load, Lane
    <3> HIDE DEF l
    <3> QED
      BY <2>b, <3>1, LaneQuiet
  <2>5. CASE EvaluateError(w) \/ Throw(w)
    BY <2>b, <2>5 DEF EvaluateError, Throw
  <2>6. CASE Commit(w) \/ FailRun(w) \/ RetryRun(w) \/ Crash(w)
    BY <2>a, <2>6 DEF Commit, FailRun, RetryRun, Crash
  <2>7. CASE CheckBudget(w)
    <3>0. Tenant(worker[w].run) \in Companies
      BY <2>7, DataAssumption DEF CheckBudget, LanesInv, Processing, Tenant, App, RunIds
    <3>c. PICK c \in Companies : c = Tenant(worker[w].run)
      BY <3>0
    <3>1. CASE Step(w, "failing")
      BY <2>7, <2>b, <3>1 DEF CheckBudget
    <3>2. CASE ~OverBudget(c) /\ Step(w, "evaluating")
      <4>1. used' = used /\ worker[w].pc = "loaded" /\ worker[w].run \in RunIds
        BY <2>7 DEF CheckBudget, LanesInv, Processing
      <4>2. /\ worker'[w].pc = "evaluating" /\ worker'[w].run = worker[w].run
            /\ \A v \in Workers \ {w} : worker'[v] = worker[v]
        BY <2>0, <3>2 DEF Step, TypeOK, Lane
      <4>4. used[c] \in Nat /\ Budget[c] \in Nat /\ used[c] < Budget[c]
        BY <3>2, DataAssumption DEF OverBudget, TypeOK
      <4>5. used'[c] + Cardinality(Spending(c)') * Max(TokenCosts)
               < Budget[c] + Cardinality(Workers) * Max(TokenCosts)
        <5> DEFINE most == Max(TokenCosts)
                   after == Cardinality(Spending(c)')
                   all == Cardinality(Workers)
        <5>1. after \in Nat /\ all \in Nat /\ after <= all /\ most \in Nat
          <6>1. Spending(c)' \in SUBSET Workers
            BY DEF Spending
          <6> QED
            BY <6>1, SpendingFinite, MostIs, FiniteAssumption, FS_CardinalityType
        <5> HIDE DEF most, after, all
        <5>2. after * most \in Nat /\ all * most \in Nat /\ after * most <= all * most
          BY <5>1, Scaled
        <5>3. used'[c] + after * most < Budget[c] + all * most
          BY <4>1, <4>4, <5>2
        <5> QED
          BY <5>3 DEF most, after, all
      <4>6. ASSUME NEW d \in Companies, d # c PROVE Spending(d)' \subseteq Spending(d)
        BY <3>c, <4>2, <4>6 DEF Spending
      <4>7. ASSUME NEW d \in Companies
            PROVE  used'[d] > 0 \/ Spending(d)' # {} =>
                     used'[d] + Cardinality(Spending(d)') * Max(TokenCosts)
                       < Budget[d] + Cardinality(Workers) * Max(TokenCosts)
        <5>1. CASE d = c
          BY <4>5, <5>1 DEF Spending
        <5>2. CASE d # c
          BY <4>1, <4>6, <5>2, BudgetKept
        <5> QED
          BY <5>1, <5>2
      <4>8. \A v \in Workers : worker'[v].pc = "answered" => worker'[v].cost \in TokenCosts
        BY <4>2 DEF BudgetInv
      <4>9. \A d \in Companies : (Cardinality(Spending(d)))' = Cardinality(Spending(d)')
        OBVIOUS
      <4> QED
        BY <4>7, <4>8 DEF BudgetInv
    <3> QED
      BY <2>7, <3>c, <3>1, <3>2 DEF CheckBudget
  <2>8. CASE Evaluate(w)
    <3>1. PICK cost \in TokenCosts, to \in {"answered", "failing"} :
            worker' = [worker EXCEPT ![w].pc = to, ![w].cost = cost]
      BY <2>8 DEF Evaluate
    <3>2. /\ worker'[w].pc = to /\ worker'[w].cost = cost /\ worker'[w].run = worker[w].run
          /\ worker[w].pc = "evaluating" /\ used' = used
          /\ \A v \in Workers \ {w} : worker'[v] = worker[v]
      BY <2>0, <2>8, <3>1 DEF Evaluate, TypeOK, Lane
    <3>3. \A c \in Companies : Spending(c)' \subseteq Spending(c)
      BY <3>2 DEF Spending
    <3>4. \A v \in Workers : worker'[v].pc = "answered" => worker'[v].cost \in TokenCosts
      BY <3>2 DEF BudgetInv
    <3> QED
      BY <3>2, <3>3, <3>4, BudgetFrame
  <2>9. CASE ChargeAiTokens(w)
    <3>0. Tenant(worker[w].run) \in Companies /\ worker[w].cost \in TokenCosts
      BY <2>9, DataAssumption
         DEF ChargeAiTokens, LanesInv, Processing, Tenant, App, RunIds, BudgetInv
    <3>c. PICK c \in Companies, cost \in TokenCosts : c = Tenant(worker[w].run) /\ cost = worker[w].cost
      BY <3>0
    <3>1. /\ worker[w].pc = "answered" /\ used' = [used EXCEPT ![c] = @ + cost]
      BY <2>9, <3>c DEF ChargeAiTokens
    <3>2. worker'[w].pc = "charged" /\ \A v \in Workers \ {w} : worker'[v] = worker[v]
      BY <2>0, <2>9 DEF ChargeAiTokens, Step, TypeOK, Lane
    <3>4. w \in Spending(c)
      BY <3>c, <3>1 DEF Spending
    <3>a. \A d \in Companies : Spending(d)' \subseteq Spending(d)
      BY <3>2 DEF Spending
    <3>b. Spending(c)' = Spending(c) \ {w}
      <4>1. w \notin Spending(c)'
        BY <3>2 DEF Spending
      <4>2. \A v \in Workers \ {w} : v \in Spending(c)' <=> v \in Spending(c)
        BY <3>2 DEF Spending
      <4>3. Spending(c)' \subseteq Workers /\ Spending(c) \subseteq Workers
        BY DEF Spending
      <4> QED
        BY <4>1, <4>2, <4>3
    <3>5. used'[c] + Cardinality(Spending(c)') * Max(TokenCosts)
             < Budget[c] + Cardinality(Workers) * Max(TokenCosts)
      <4> DEFINE most == Max(TokenCosts)
                 before == Cardinality(Spending(c))
                 after == Cardinality(Spending(c)')
                 all == Cardinality(Workers)
      <4>1. after \in Nat /\ all \in Nat /\ before = after + 1 /\ most \in Nat /\ cost \in Nat /\ cost <= most
        <5>1. Spending(c) \in SUBSET Workers /\ Spending(c)' \in SUBSET Workers
          BY DEF Spending
        <5>2. IsFiniteSet(Spending(c)) /\ before \in Nat /\ after \in Nat
          BY <5>1, SpendingFinite
        <5>3. after = before - 1
          BY <3>4, <3>b, <5>2, FS_RemoveElement
        <5> QED
          BY <3>1, <5>2, <5>3, MostIs, DataAssumption, FiniteAssumption, FS_CardinalityType
      <4>2. used[c] + before * most < Budget[c] + all * most
        BY <3>4 DEF BudgetInv
      <4>3. used'[c] = used[c] + cost /\ used[c] \in Nat /\ Budget[c] \in Nat
        BY <3>1, DataAssumption DEF TypeOK
      <4> HIDE DEF most, before, after, all
      <4>4. before * most = after * most + most /\ after * most \in Nat /\ all * most \in Nat
        BY <4>1
      <4>5. used'[c] + after * most < Budget[c] + all * most
        BY <4>1, <4>2, <4>3, <4>4
      <4> QED
        BY <4>5 DEF most, after, all
    <3>6. ASSUME NEW d \in Companies
          PROVE  used'[d] > 0 \/ Spending(d)' # {} =>
                   used'[d] + Cardinality(Spending(d)') * Max(TokenCosts)
                     < Budget[d] + Cardinality(Workers) * Max(TokenCosts)
      <4>1. CASE d = c
        BY <3>5, <4>1 DEF Spending
      <4>2. CASE d # c
        <5>1. used'[d] = used[d]
          BY <3>1, <4>2 DEF TypeOK
        <5> QED
          BY <3>a, <5>1, BudgetKept
      <4> QED
        BY <4>1, <4>2
    <3>7. \A v \in Workers : worker'[v].pc = "answered" => worker'[v].cost \in TokenCosts
      BY <3>2 DEF BudgetInv
    <3> QED
      BY <3>6, <3>7 DEF BudgetInv
  <2> QED
    BY <1>1, <2>1, <2>2, <2>3, <2>4, <2>5, <2>6, <2>7, <2>8, <2>9 DEF Work
<1>2. CASE (\E u \in Users : Request(u)) \/ RecoverStaleRuns \/ Outside \/ Tick \/ UNCHANGED vars
  <2>1. worker' = worker /\ used' = used
    BY <1>2 DEF Request, RequestScoring, RequestJobScoring, LockNext, DecideOne, DecideBulk, CreateRuns,
                ReuseRun, AbortRequest, RecoverStaleRuns, Outside, EditInput, SetCandidateAiFlags,
                SetApplicationRemoved, SetNoticeRequired, Tick, vars
  <2>2. \A c \in Companies : Spending(c)' \subseteq Spending(c)
    BY <2>1 DEF Spending
  <2> QED
    BY <2>1, <2>2, BudgetFrame DEF BudgetInv
<1> QED
  BY <1>1, <1>2 DEF Next
-----------------------------------------------------------------------------
(* No input is paid for twice. *)

\* A request plans runs only for applications none of whose runs succeeded
\* with the input they have.
LEMMA PlanFresh ==
  ASSUME TypeOK, FreshInv, NEW u \in Users, NEW batch \in SUBSET Apps, PlanRuns(u, batch), run' = run,
         \A a \in batch : \A r \in RunsOf(a) :
           run[r].status = "SUCCEEDED" => run[r].inputHash # app[a].input
  PROVE  FreshInv'
<1> DEFINE hash == [a \in Apps |-> app[a].input]
           q == [user[u] EXCEPT !.pc = "creating", !.batch = batch, !.hash = hash]
<1>0. user[u] \in ScoringRequest /\ \A v \in Users : user[v].batch \in SUBSET Apps
  BY DEF TypeOK, ScoringRequest
<1>1. q.batch = batch /\ q.hash = hash
  BY <1>0 DEF ScoringRequest
<1>2. user' = [user EXCEPT ![u] = q] \/ user' = [user EXCEPT ![u] = NoRequest]
  BY DEF PlanRuns, EndRequest
<1>3. ASSUME NEW a \in batch, NEW r \in RunsOf(a), run[r].status = "SUCCEEDED"
      PROVE  run[r].inputHash # q.hash[a]
  BY <1>1, <1>3
<1>4. NoRequest.pc # "creating"
  BY DEF NoRequest
<1> HIDE DEF q
<1>5. \A v \in Users \ {u} : user'[v] = user[v]
  BY <1>2 DEF TypeOK
<1>6. user'[u].pc = "creating" => user'[u] = q
  BY <1>2, <1>4 DEF TypeOK
<1>7. ASSUME NEW v \in Users, user'[v].pc = "creating", NEW a \in user'[v].batch, NEW r \in RunsOf(a),
             run'[r].status = "SUCCEEDED"
      PROVE  run'[r].inputHash # user'[v].hash[a]
  <2>1. CASE v = u
    BY <1>1, <1>3, <1>6, <1>7, <2>1
  <2>2. CASE v # u
    BY <1>5, <1>7, <2>2 DEF FreshInv
  <2> QED
    BY <2>1, <2>2
<1> QED
  BY <1>7 DEF FreshInv, RunsOf

\* A step that brings nobody to insert runs, and finishes no run of a held row.
LEMMA FreshFrame ==
  ASSUME TypeOK, FreshInv,
         \A u \in Users : user'[u].pc = "creating" => user'[u] = user[u],
         \A u \in Users : user[u].pc = "creating" => \A a \in user[u].batch : \A r \in RunsOf(a) :
           run'[r].status = "SUCCEEDED" => run'[r] = run[r]
  PROVE  FreshInv'
<1>1. ASSUME NEW v \in Users, user'[v].pc = "creating", NEW a \in user'[v].batch, NEW r \in RunsOf(a),
             run'[r].status = "SUCCEEDED"
      PROVE  run'[r].inputHash # user'[v].hash[a]
  <2>1. user'[v] = user[v]
    BY <1>1
  <2>2. run'[r] = run[r]
    BY <1>1, <2>1
  <2> QED
    BY <1>1, <2>1, <2>2 DEF FreshInv
<1> QED
  BY <1>1 DEF FreshInv, RunsOf

LEMMA FreshStep ==
  ASSUME TypeOK, LanesInv, RequestsInv, MirrorMatchesRun, FreshInv, [Next]_vars
  PROVE  FreshInv'
<1>0. \A u \in Users : user[u] \in ScoringRequest /\ user[u].held \in SUBSET Apps
  BY DEF TypeOK, ScoringRequest
<1>1. ASSUME NEW u \in Users, Request(u) PROVE FreshInv'
  <2>a. ASSUME NEW q, q.pc # "creating", user' = [user EXCEPT ![u] = q], run' = run PROVE FreshInv'
    <3>1. user'[u] = q /\ \A v \in Users \ {u} : user'[v] = user[v]
      BY <2>a DEF TypeOK
    <3>2. \A v \in Users : user'[v].pc = "creating" => user'[v] = user[v]
      BY <2>a, <3>1
    <3> QED
      BY <2>a, <3>2, FreshFrame
  <2>b. ASSUME EndRequest(u), run' = run PROVE FreshInv'
    <3>1. NoRequest.pc # "creating"
      BY DEF NoRequest
    <3> QED
      BY <2>a, <2>b, <3>1 DEF EndRequest
  <2>1. CASE (\E a \in Apps : RequestScoring(u, a)) \/ (\E c \in Companies : RequestJobScoring(u, c))
    <3>1. ASSUME NEW a PROVE [NoRequest EXCEPT !.pc = "locking", !.want = {a}].pc # "creating"
      BY DEF NoRequest
    <3>2. ASSUME NEW S PROVE [NoRequest EXCEPT !.pc = "locking", !.bulk = TRUE, !.want = S].pc # "creating"
      BY DEF NoRequest
    <3> QED
      BY <2>1, <2>a, <3>1, <3>2 DEF RequestScoring, RequestJobScoring
  <2>2. CASE LockNext(u)
    <3>1. PICK a : user' = [user EXCEPT ![u].held = @ \cup {a}]
      BY <2>2 DEF LockNext
    <3> DEFINE q == [user[u] EXCEPT !.held = @ \cup {a}]
    <3>2. q.pc = "locking" /\ user' = [user EXCEPT ![u] = q] /\ run' = run
      BY <1>0, <2>2, <3>1 DEF LockNext, ScoringRequest
    <3> HIDE DEF q
    <3> QED
      BY <2>a, <3>2
  <2>3. CASE DecideOne(u)
    <3>1. PICK a \in user[u].held :
            \/ EndRequest(u)
            \/ Reusable(a) = {} /\ PlanRuns(u, {a})
            \/ \E n \in Reusable(a) : user' = [user EXCEPT ![u].pc = "reusing", ![u].previous = n]
      BY <2>3 DEF DecideOne
    <3>2. run' = run /\ a \in Apps
      BY <1>0, <2>3 DEF DecideOne
    <3>3. ASSUME Reusable(a) = {}, PlanRuns(u, {a}) PROVE FreshInv'
      <4>1. \A b \in {a} : \A r \in RunsOf(b) :
              run[r].status = "SUCCEEDED" => run[r].inputHash # app[b].input
        <5>1. ASSUME NEW r \in RunsOf(a), run[r].status = "SUCCEEDED", run[r].inputHash = app[a].input
              PROVE  FALSE
          <6>1. PICK n \in Slots : r = <<a, n>>
            BY DEF RunsOf, RunIds, App
          <6> QED
            BY <3>3, <5>1, <6>1 DEF Reusable
        <5> QED
          BY <5>1
      <4> QED
        BY <3>2, <3>3, <4>1, PlanFresh
    <3>4. ASSUME NEW n, user' = [user EXCEPT ![u].pc = "reusing", ![u].previous = n] PROVE FreshInv'
      <4> DEFINE q == [user[u] EXCEPT !.pc = "reusing", !.previous = n]
      <4>1. q.pc = "reusing" /\ user' = [user EXCEPT ![u] = q]
        BY <1>0, <3>4 DEF ScoringRequest
      <4> HIDE DEF q
      <4> QED
        BY <2>a, <3>2, <4>1
    <3> QED
      BY <2>b, <3>1, <3>2, <3>3, <3>4
  <2>4. CASE DecideBulk(u)
    <3> DEFINE scorable == {a \in user[u].held : /\ app[a].latest = None
                                                 /\ ActiveRuns(a) = {}
                                                 /\ ~Unscorable(a)}
               batch == {a \in scorable : Cardinality({b \in scorable : b < a}) < MaxBulk}
    <3>1. PlanRuns(u, batch) /\ run' = run
      BY <2>4 DEF DecideBulk
    <3>2. batch \in SUBSET Apps /\ \A a \in batch : app[a].latest = None
      BY <1>0
    <3> HIDE DEF batch
    <3>3. \A a \in batch : \A r \in RunsOf(a) :
            run[r].status = "SUCCEEDED" => run[r].inputHash # app[a].input
      BY <3>2 DEF MirrorMatchesRun
    <3> QED
      BY <3>1, <3>2, <3>3, PlanFresh
  <2>5. CASE CreateRuns(u)
    <3>1. \A r \in RunIds : run'[r].status = "SUCCEEDED" => run'[r] = run[r]
      <4>1. ASSUME NEW r \in RunIds, run'[r] # run[r] PROVE run'[r].status = "QUEUED"
        <5>1. run'[r] = QueuedRun(u, App(r))
          BY <1>1, <4>1, RequestsWriteNewRows
        <5> QED
          BY <5>1 DEF QueuedRun, NewRow
      <4> QED
        BY <4>1
    <3>2. user' = [user EXCEPT ![u] = NoRequest] /\ NoRequest.pc # "creating"
      BY <2>5 DEF CreateRuns, EndRequest, NoRequest
    <3>3. \A v \in Users : user'[v].pc = "creating" => user'[v] = user[v]
      BY <3>2 DEF TypeOK
    <3> QED
      BY <3>1, <3>3, FreshFrame DEF RunsOf
  <2>6. CASE ReuseRun(u) \/ AbortRequest(u)
    BY <2>6, <2>b DEF ReuseRun, AbortRequest
  <2> QED
    BY <1>1, <2>1, <2>2, <2>3, <2>4, <2>5, <2>6 DEF Request
<1>2. ASSUME user' = user, \A r \in RunIds : run'[r].status = "SUCCEEDED" => run'[r] = run[r]
      PROVE  FreshInv'
  BY <1>2, FreshFrame DEF RunsOf
<1>3. ASSUME NEW w \in Workers, Work(w) PROVE FreshInv'
  <2>0. user' = user
    BY <1>3 DEF Work, ClaimStart, ClaimCount, ClaimTake, Load, CheckBudget, Evaluate, EvaluateError,
                ChargeAiTokens, Commit, Throw, FailRun, RetryRun, Crash
  <2>1. CASE Commit(w)
    <3>1. worker[w].run \in RunIds /\ RowFree(App(worker[w].run))
      BY <2>1 DEF Commit, LanesInv, Processing
    <3>2. \A r \in RunIds : App(r) # App(worker[w].run) => run'[r] = run[r]
      BY <2>1, <3>1 DEF Commit, TypeOK
    <3>3. ASSUME NEW u \in Users, user[u].pc = "creating", NEW a \in user[u].batch, NEW r \in RunsOf(a)
          PROVE  run'[r] = run[r]
      <4>1. a \in user[u].held
        BY <3>3 DEF RequestsInv
      <4>2. App(r) # App(worker[w].run)
        BY <3>1, <4>1 DEF RowFree, RunsOf
      <4> QED
        BY <3>2, <4>2 DEF RunsOf
    <3> QED
      BY <2>0, <3>3, FreshFrame
  <2>2. CASE ~Commit(w)
    <3>1. ASSUME NEW r \in RunIds, run'[r] # run[r] PROVE run'[r].status # "SUCCEEDED"
      <4>0. run[r] \in Run
        BY DEF TypeOK
      <4>1. CASE ClaimTake(w)
        <5>1. PICK x \in Due(w) : run' = [run EXCEPT ![x].status = "RUNNING", ![x].lockedAt = worker[w].token,
                                                     ![x].attempts = @ + 1]
          BY <3>1, <4>1 DEF ClaimTake
        <5> QED
          BY <3>1, <4>0, <5>1 DEF TypeOK, Run
      <4>2. CASE FailRun(w)
        BY <3>1, <4>0, <4>2 DEF FailRun, LanesInv, Processing, TypeOK, Run
      <4>3. CASE RetryRun(w)
        BY <3>1, <4>0, <4>3 DEF RetryRun, LanesInv, Processing, TypeOK, Run
      <4> QED
        BY <1>3, <2>2, <3>1, <4>1, <4>2, <4>3
           DEF Work, ClaimStart, ClaimCount, Load, CheckBudget, Evaluate, EvaluateError,
               ChargeAiTokens, Throw, Crash
    <3> QED
      BY <1>2, <2>0, <3>1
  <2> QED
    BY <2>1, <2>2
<1>4. CASE RecoverStaleRuns
  <2>1. ASSUME NEW r \in RunIds, run'[r] # run[r] PROVE run'[r].status # "SUCCEEDED"
    <3>1. run[r] \in Run
      BY DEF TypeOK
    <3> QED
      BY <1>4, <2>1, <3>1 DEF RecoverStaleRuns, Run
  <2>2. user' = user
    BY <1>4 DEF RecoverStaleRuns
  <2> QED
    BY <1>2, <2>1, <2>2
<1>5. CASE Outside \/ Tick \/ UNCHANGED vars
  <2>1. run' = run /\ user' = user
    BY <1>5 DEF Outside, EditInput, SetCandidateAiFlags, SetApplicationRemoved,
                SetNoticeRequired, Tick, vars
  <2> QED
    BY <1>2, <2>1
<1> QED
  BY <1>1, <1>3, <1>4, <1>5 DEF Next
-----------------------------------------------------------------------------
LEMMA InitLimits == Init => LimitsInv
<1> SUFFICES ASSUME Init PROVE LimitsInv
  OBVIOUS
<1> USE DataAssumption, CapsAssumption
<1>1. IdleLane.pc = "idle" /\ NoRequest.pc = "idle" /\ NewRow.status = "NONE"
  BY DEF IdleLane, NoRequest, NewRow
<1>2. Running = {} /\ \A c \in Companies : RunningIn(c) = {}
  BY <1>1 DEF Init, Running, RunningIn
<1>a. Cardinality(Running) = 0 /\ \A c \in Companies : Cardinality(RunningIn(c)) = 0
  BY <1>2, FS_EmptySet
<1>b. \A w \in Workers : worker[w].pc # "counted"
  BY <1>1 DEF Init
<1>3. CapsInv
  BY <1>a, <1>b DEF CapsInv, WithinCaps
<1>4. \A c \in Companies : used[c] = 0 /\ Spending(c) = {}
  BY <1>1 DEF Init, Spending
<1>5. BudgetInv
  BY <1>1, <1>4 DEF Init, BudgetInv
<1>6. FreshInv
  BY <1>1 DEF Init, FreshInv
<1> QED
  BY <1>3, <1>5, <1>6 DEF LimitsInv

\* The limits hold in every reachable state.
THEOREM LimitsHold == Spec => [](IndInv /\ LimitsInv)
<1>1. Init => IndInv /\ LimitsInv
  BY InitIndInv, InitLimits
<1>2. (IndInv /\ LimitsInv) /\ [Next]_vars => (IndInv /\ LimitsInv)'
  BY NextIndInv, CapsStep, BudgetStep, FreshStep DEF IndInv, LimitsInv
<1> QED
  BY <1>1, <1>2, PTL DEF Spec

\* However many instances claim at once, the runs in flight stay within both caps.
THEOREM CapsAreExact == Spec => []WithinCaps
<1>1. LimitsInv => WithinCaps
  BY DEF LimitsInv, CapsInv
<1> QED
  BY <1>1, LimitsHold, PTL

\* A tenant overshoots its budget by less than one answer for each worker.
THEOREM OvershootIsBounded == Spec => []BudgetOvershoot
<1>1. IndInv /\ LimitsInv => BudgetOvershoot
  <2> SUFFICES ASSUME IndInv, LimitsInv, NEW c \in Companies, used[c] > 0
               PROVE  used[c] < Budget[c] + Cardinality(Workers) * Max(TokenCosts)
    BY DEF BudgetOvershoot
  <2> DEFINE most == Max(TokenCosts)
             now == Cardinality(Spending(c))
             all == Cardinality(Workers)
  <2>1. used[c] + now * most < Budget[c] + all * most
    BY DEF LimitsInv, BudgetInv
  <2>2. most \in Nat /\ all \in Nat /\ used[c] \in Nat /\ Budget[c] \in Nat
    BY MostIs, FiniteAssumption, FS_CardinalityType, DataAssumption DEF IndInv, TypeOK
  <2>3. now \in Nat
    BY SpendingFinite DEF Spending
  <2> HIDE DEF most, now, all
  <2>4. now * most \in Nat /\ all * most \in Nat
    BY <2>2, <2>3, Scaled
  <2>5. used[c] < Budget[c] + all * most
    BY <2>1, <2>2, <2>4
  <2> QED
    BY <2>5 DEF most, all
<1> QED
  BY <1>1, LimitsHold, PTL

\* A new run is queued only for an input that no run of the application
\* succeeded with, whatever was edited or committed since the request began.
THEOREM PaidOnce == Spec => NeverPaidTwice
<1>1. ASSUME IndInv, LimitsInv, [Next]_vars, NEW r \in RunIds, NEW s \in RunIds, run[r].status = "NONE",
             run'[r].status # "NONE", App(r) = App(s), run[s].status = "SUCCEEDED"
      PROVE  run'[r].inputHash # run[s].inputHash
  <2>1. TypeOK /\ LanesInv /\ FreshInv /\ run'[r] # run[r]
    BY <1>1 DEF IndInv, LimitsInv
  <2>2. run[r].status \notin Active
    BY <1>1 DEF Active
  <2>3. PICK u \in Users : Request(u)
    BY <1>1, <2>1, <2>2, WorkersWriteActiveRows DEF Next
  <2>4. CreateRuns(u) /\ App(r) \in user[u].batch /\ run'[r] = QueuedRun(u, App(r))
    BY <2>1, <2>3, RequestsWriteNewRows
  <2>5. run'[r].inputHash = user[u].hash[App(r)]
    BY <2>4 DEF QueuedRun, NewRow
  <2>6. s \in RunsOf(App(r)) /\ user[u].pc = "creating"
    BY <1>1, <2>4 DEF RunsOf, CreateRuns
  <2> QED
    BY <1>1, <2>1, <2>4, <2>5, <2>6 DEF FreshInv
<1>2. IndInv /\ LimitsInv /\ [Next]_vars => [\A r, s \in RunIds :
        /\ run[r].status = "NONE"
        /\ run'[r].status # "NONE"
        /\ App(r) = App(s)
        /\ run[s].status = "SUCCEEDED"
        => run'[r].inputHash # run[s].inputHash]_vars
  BY <1>1
<1> QED
  BY <1>2, LimitsHold, PTL DEF Spec, NeverPaidTwice
=============================================================================
