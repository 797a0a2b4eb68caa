---------------------------- MODULE OutgoingProofs ----------------------------
(***************************************************************************)
(* What overlapping drains of webhooks and of emails hand over, and that   *)
(* the deliveries implement WorkQueue, for every number of endpoints,      *)
(* events, messages and drains.  The webhooks come first.                  *)
(***************************************************************************)
EXTENDS MCOutgoing, FiniteSetTheorems, TLAPS

(* The inductive invariant of the deliveries. *)

Holding == {"claimed", "sent", "failed"}

\* A lane with a delivery works on one that was queued, with the time of its claim, and
\* not for longer than the claim lasts unless it is frozen.
LanesInv == \A w \in Workers :
  /\ lane[w].pc \in Holding => lane[w].row \in Deliveries /\ delivery[lane[w].row].status # "NONE"
  /\ lane[w].token <= clock
  /\ lane[w].pc # "idle" /\ ~lane[w].slow => clock <= lane[w].token + StaleAfter

\* A change that was not committed has queued nothing.
EventsInv == \A d \in Deliveries : event[d[1]].pc # "committed" => delivery[d].status = "NONE"

\* The clock orders the claims of a delivery: a free one is due only after every claim
\* ever made on it, a claimed one carries the latest, and no two are of the same time.
ClaimsInv ==
  /\ \A d \in Deliveries : delivery[d].lockedAt # None => delivery[d].status \in {"PENDING", "DELETED"}
  /\ \A w \in Workers : lane[w].pc \in Holding /\ delivery[lane[w].row].status = "PENDING" =>
       IF delivery[lane[w].row].lockedAt = None
       THEN lane[w].token < delivery[lane[w].row].nextAttemptAt
       ELSE lane[w].token <= delivery[lane[w].row].lockedAt
  /\ \A v, w \in Workers :
       /\ lane[v].pc \in Holding /\ lane[w].pc \in Holding
       /\ lane[v].row = lane[w].row /\ lane[v].token = lane[w].token
       => v = w

\* What the rows and the lanes count was really tried.
CountsInv ==
  /\ \A d \in Deliveries :
       /\ delivery[d].attempts <= started[d]
       /\ delivery[d].status = "PENDING" => delivery[d].attempts < MaxWebhookAttempts
  /\ \A w \in Workers : lane[w].pc \in Holding =>
       /\ lane[w].attempts <= started[lane[w].row]
       /\ lane[w].pc # "claimed" => lane[w].attempts + 1 <= started[lane[w].row]
       /\ lane[w].pc = "sent" => accepted[lane[w].row] > 0
       /\ OwnedBy(w) => lane[w].attempts = delivery[lane[w].row].attempts
  /\ SettledTruthfully

\* The lanes that may still send a delivery, and those that were frozen before their claim.
Sends(w, d) == lane[w].pc = "claimed" /\ lane[w].row = d
Freezes(w) == lane[w].pc = "asked" /\ lane[w].slow
Unsent(d) == {w \in Workers : Sends(w, d)}
Frozen == {w \in Workers : Freezes(w)}

\* The one acceptance no fault pays for: of the claim under way, or of the last one.
Lives(w, d) == /\ lane[w].pc \in {"claimed", "sent"} /\ lane[w].row = d
               /\ ~lane[w].slow /\ lane[w].token = delivery[d].lockedAt
Live(d) == \E w \in Workers : Lives(w, d)
Unpaid(d) == IF delivery[d].status = "PENDING" THEN Live(d) ELSE delivery[d].status # "NONE"

\* Every other one that was or can be made is paid for by a fault of its own.
SendsInv == \A d \in Deliveries :
  accepted[d] + Cardinality(Unsent(d)) + Cardinality(Frozen) <= faults + (IF Unpaid(d) THEN 1 ELSE 0)

IndInv == TypeOK /\ LanesInv /\ EventsInv /\ ClaimsInv /\ CountsInv /\ SendsInv
-----------------------------------------------------------------------------
(* Types. *)

USE BoundsAssumption, NoneAssumption

LEMMA Constants == NewDelivery \in Delivery /\ IdleLane \in Lane
BY DEF NewDelivery, Delivery, IdleLane, Lane

\* What settling writes: the attempts, no claim, and the outcome or the next attempt.
LEMMA SettledRow ==
  ASSUME NEW q \in Delivery, NEW n \in Nat, NEW t \in Nat
  PROVE  /\ [q EXCEPT !.status = "DELIVERED", !.lockedAt = None, !.attempts = n] \in Delivery
         /\ [[q EXCEPT !.attempts = n, !.lockedAt = None] EXCEPT !.status = "FAILED"] \in Delivery
         /\ [[q EXCEPT !.attempts = n, !.lockedAt = None] EXCEPT !.nextAttemptAt = t] \in Delivery
BY DEF Delivery

\* A lane that settles: its row is replaced or, if the claim was lost, nothing is.
LEMMA TypeSettle ==
  ASSUME TypeOK, NEW w \in Workers, NEW settled \in Delivery, Settle(w, settled),
         lane[w].row \in Deliveries,
         UNCHANGED <<clock, endpoint, adding, event, ghosts, faults>>
  PROVE  TypeOK'
<1>1. delivery' \in [Deliveries -> Delivery]
  BY DEF Settle, TypeOK
<1>2. lane' \in [Workers -> Lane]
  BY Constants DEF Settle, TypeOK
<1> QED
  BY <1>1, <1>2 DEF TypeOK, ghosts

LEMMA TypeAdmins ==
  ASSUME TypeOK,
         \/ \E a \in Admins : CountWebhooks(a) \/ CreateWebhook(a)
         \/ \E p \in Endpoints : SetWebhookEnabled(p) \/ DeleteWebhook(p)
         \/ \E e \in Events : ReadEndpoints(e) \/ QueueWebhookEvent(e)
         \/ PurgeSettledDeliveries
  PROVE  TypeOK'
<1>0. \A d \in Deliveries : [delivery[d] EXCEPT !.status = "DELETED"] \in Delivery
  BY DEF TypeOK, Delivery
<1>1. ASSUME NEW a \in Admins, CountWebhooks(a) PROVE TypeOK'
  <2>1. Existing \in SUBSET Endpoints
    BY DEF Existing
  <2>2. Cardinality(Existing) \in Nat
    BY <2>1, FS_Subset, FS_CardinalityType
  <2> QED
    BY <1>1, <2>2 DEF CountWebhooks, TypeOK, ghosts
<1>2. ASSUME NEW a \in Admins, CreateWebhook(a) PROVE TypeOK'
  BY <1>2 DEF CreateWebhook, TypeOK, ghosts
<1>3. ASSUME NEW p \in Endpoints, SetWebhookEnabled(p) PROVE TypeOK'
  BY <1>3 DEF SetWebhookEnabled, TypeOK, ghosts
<1>4. ASSUME NEW p \in Endpoints, DeleteWebhook(p) PROVE TypeOK'
  BY <1>0, <1>4 DEF DeleteWebhook, TypeOK, ghosts
<1>5. ASSUME NEW e \in Events, ReadEndpoints(e) PROVE TypeOK'
  <2>1. PICK targets \in SUBSET Endpoints : event' = [event EXCEPT ![e] = [pc |-> "read", targets |-> targets]]
    BY <1>5 DEF ReadEndpoints, Existing
  <2> QED
    BY <1>5, <2>1 DEF ReadEndpoints, TypeOK, ghosts
<1>6. ASSUME NEW e \in Events, QueueWebhookEvent(e) PROVE TypeOK'
  <2>1. [NewDelivery EXCEPT !.status = "PENDING", !.nextAttemptAt = clock, !.createdAt = clock] \in Delivery
    BY DEF NewDelivery, Delivery, TypeOK
  <2>2. delivery' \in [Deliveries -> Delivery]
    BY <1>6, <2>1 DEF QueueWebhookEvent, TypeOK
  <2>3. event' \in [Events -> [pc: {"idle", "read", "committed", "aborted"}, targets: SUBSET Endpoints]]
    BY <1>6 DEF QueueWebhookEvent, TypeOK
  <2> QED
    BY <1>6, <2>2, <2>3 DEF QueueWebhookEvent, TypeOK, ghosts
<1>7. ASSUME PurgeSettledDeliveries PROVE TypeOK'
  BY <1>0, <1>7 DEF PurgeSettledDeliveries, TypeOK, ghosts
<1> QED
  BY <1>1, <1>2, <1>3, <1>4, <1>5, <1>6, <1>7

\* What a claim makes of the row and the lane.
Claimed(w, d) ==
  /\ delivery' = [delivery EXCEPT ![d].lockedAt = lane[w].token]
  /\ lane' = [lane EXCEPT ![w].pc = "claimed", ![w].row = d, ![w].attempts = delivery[d].attempts]

LEMMA TypeDrain ==
  ASSUME TypeOK, LanesInv, NEW w \in Workers, Drain(w)
  PROVE  TypeOK'
<1>0. lane[w] \in Lane /\ \A d \in Deliveries : delivery[d] \in Delivery
  BY DEF TypeOK
<1>a. faults \in 0..MaxFaults /\ (faults < MaxFaults => faults + 1 \in 0..MaxFaults)
  BY DEF TypeOK
<1>b. lane[w].token \in Nat /\ lane[w].attempts + 1 \in Nat /\ 0 \in Nat
  BY <1>0 DEF Lane
<1>1. CASE ClaimStart(w)
  <2>1. [IdleLane EXCEPT !.pc = "asked", !.token = clock] \in Lane
    BY DEF IdleLane, Lane, TypeOK
  <2> QED
    BY <1>1, <2>1 DEF ClaimStart, TypeOK, ghosts, rows
<1>2. CASE ClaimNextDelivery(w)
  <2>1. CASE \E d \in Due(lane[w].token) : Claimed(w, d)
    <3>1. PICK d \in Deliveries : Claimed(w, d)
      BY <2>1 DEF Due
    <3>2. [delivery[d] EXCEPT !.lockedAt = lane[w].token] \in Delivery
      BY <1>0 DEF Delivery, Lane
    <3>3. [lane[w] EXCEPT !.pc = "claimed", !.row = d, !.attempts = delivery[d].attempts] \in Lane
      BY <1>0 DEF Delivery, Lane
    <3>4. delivery' \in [Deliveries -> Delivery]
      BY <3>1, <3>2 DEF Claimed, TypeOK
    <3>5. lane' \in [Workers -> Lane]
      BY <3>1, <3>3 DEF Claimed, TypeOK
    <3> QED
      BY <1>2, <3>4, <3>5 DEF ClaimNextDelivery, TypeOK, ghosts
  <2>2. CASE lane' = [lane EXCEPT ![w] = IdleLane] /\ UNCHANGED delivery
    BY <1>2, <2>2, Constants DEF ClaimNextDelivery, TypeOK, ghosts
  <2> QED
    BY <1>2, <2>1, <2>2 DEF ClaimNextDelivery, Claimed
<1>3. CASE Send(w) \/ SendFails(w)
  <2>1. lane[w].row \in Deliveries
    BY <1>3 DEF Send, SendFails, LanesInv, Holding
  <2>2. \A pc \in {"sent", "failed"} : [lane[w] EXCEPT !.pc = pc] \in Lane
    BY <1>0 DEF Lane
  <2>3. lane' \in [Workers -> Lane]
    BY <1>3, <2>2 DEF Send, SendFails, TypeOK
  <2>4. accepted' \in [Deliveries -> Nat] /\ started' \in [Deliveries -> Nat]
    BY <1>3, <2>1 DEF Send, SendFails, Start, Accept, TypeOK
  <2>5. faults' \in 0..MaxFaults
    BY <1>3, <1>a DEF Send, SendFails, Fault
  <2> QED
    BY <1>3, <2>3, <2>4, <2>5 DEF Send, SendFails, TypeOK, rows
<1>4. CASE RecordDelivered(w)
  <2>1. lane[w].row \in Deliveries
    BY <1>4 DEF RecordDelivered, LanesInv, Holding
  <2>2. [delivery[lane[w].row] EXCEPT !.status = "DELIVERED", !.lockedAt = None,
                                      !.attempts = lane[w].attempts + 1] \in Delivery
    BY <1>b, <1>0, <2>1, SettledRow
  <2> QED
    BY <1>4, <2>1, <2>2, TypeSettle DEF RecordDelivered
<1>5. CASE RecordFailure(w)
  <2>1. lane[w].row \in Deliveries
    BY <1>5 DEF RecordFailure, LanesInv, Holding
  <2> DEFINE failed == [delivery[lane[w].row] EXCEPT !.attempts = lane[w].attempts + 1, !.lockedAt = None]
  <2>2. [failed EXCEPT !.status = "FAILED"] \in Delivery
    BY <1>b, <1>0, <2>1, SettledRow
  <2>3. \A delay \in Delays : [failed EXCEPT !.nextAttemptAt = lane[w].token + delay] \in Delivery
    <3> TAKE delay \in Delays
    <3>1. lane[w].token + delay \in Nat
      BY <1>b
    <3> QED
      BY <1>b, <1>0, <2>1, <3>1, SettledRow
  <2>4. PICK settled \in Delivery : Settle(w, settled)
    BY <1>5, <2>2, <2>3 DEF RecordFailure
  <2> QED
    BY <1>5, <2>1, <2>4, TypeSettle DEF RecordFailure
<1>6. CASE Crash(w)
  BY <1>6, <1>a, Constants DEF Crash, Fault, TypeOK, ghosts, rows
<1>7. CASE Stall(w)
  <2>1. [lane[w] EXCEPT !.slow = TRUE] \in Lane
    BY <1>0 DEF Lane
  <2>2. lane' \in [Workers -> Lane]
    BY <1>7, <2>1 DEF Stall, TypeOK
  <2> QED
    BY <1>7, <1>a, <2>2 DEF Stall, Fault, TypeOK, ghosts, rows
<1> QED
  BY <1>1, <1>2, <1>3, <1>4, <1>5, <1>6, <1>7 DEF Drain

LEMMA TypeStep ==
  ASSUME TypeOK, LanesInv, [Next]_vars
  PROVE  TypeOK'
<1>1. CASE Tick
  BY <1>1 DEF Tick, TypeOK, rows, ghosts
<1>2. CASE UNCHANGED vars
  BY <1>2 DEF vars, TypeOK
<1> QED
  BY <1>1, <1>2, TypeAdmins, TypeDrain DEF Next
-----------------------------------------------------------------------------
(* What one step can do to a row and to a lane. *)

ClaimOf(w, d) == lane[w].pc = "asked" /\ d \in Due(lane[w].token) /\ Claimed(w, d)

SettleOf(w, d) ==
  /\ lane[w].pc \in {"sent", "failed"} /\ lane[w].row = d /\ OwnedBy(w)
  /\ lane' = [lane EXCEPT ![w] = IdleLane]
  /\ delivery'[d].lockedAt = None /\ delivery'[d].attempts = lane[w].attempts + 1
  /\ \/ lane[w].pc = "sent" /\ delivery'[d].status = "DELIVERED"
     \/ /\ lane[w].pc = "failed" /\ lane[w].attempts + 1 >= MaxWebhookAttempts
        /\ delivery'[d].status = "FAILED"
     \/ /\ lane[w].pc = "failed" /\ lane[w].attempts + 1 < MaxWebhookAttempts
        /\ delivery'[d].status = delivery[d].status
        /\ lane[w].token < delivery'[d].nextAttemptAt

RowStep(d) ==
  \/ delivery'[d] = delivery[d]
  \/ /\ delivery[d].status = "NONE" /\ event'[d[1]].pc = "committed"
     /\ delivery'[d].status = "PENDING" /\ delivery'[d].lockedAt = None /\ delivery'[d].attempts = 0
  \/ delivery[d].status # "NONE" /\ delivery'[d] = [delivery[d] EXCEPT !.status = "DELETED"]
  \/ \E w \in Workers : ClaimOf(w, d) \/ SettleOf(w, d)

Tried(w) ==
  /\ lane[w].pc = "claimed" /\ lane'[w].pc \in {"sent", "failed"}
  /\ lane'[w].row = lane[w].row /\ lane'[w].token = lane[w].token
  /\ lane'[w].attempts = lane[w].attempts /\ lane'[w].slow = lane[w].slow
  /\ delivery' = delivery
  /\ started'[lane[w].row] = started[lane[w].row] + 1
  /\ lane'[w].pc = "sent" => accepted'[lane[w].row] = accepted[lane[w].row] + 1

LaneStep(w) ==
  \/ lane'[w] = lane[w]
  \/ lane'[w] = IdleLane
  \/ lane[w].pc = "idle" /\ lane'[w] = [IdleLane EXCEPT !.pc = "asked", !.token = clock]
  \/ \E d \in Deliveries : ClaimOf(w, d)
  \/ Tried(w)
  \/ /\ lane[w].pc # "idle" /\ lane'[w] = [lane[w] EXCEPT !.slow = TRUE]
     /\ delivery' = delivery

OneLane == \A v, w \in Workers : lane'[v] = lane[v] \/ lane'[w] = lane[w] \/ v = w

Grow == \A d \in Deliveries : started[d] <= started'[d] /\ accepted[d] <= accepted'[d]

Steps == (\A d \in Deliveries : RowStep(d)) /\ (\A w \in Workers : LaneStep(w)) /\ OneLane /\ Grow

LEMMA StepsAdmins ==
  ASSUME TypeOK, EventsInv,
         \/ \E a \in Admins : CountWebhooks(a) \/ CreateWebhook(a)
         \/ \E p \in Endpoints : SetWebhookEnabled(p) \/ DeleteWebhook(p)
         \/ \E e \in Events : ReadEndpoints(e) \/ QueueWebhookEvent(e)
         \/ PurgeSettledDeliveries
  PROVE  Steps
<1>1. UNCHANGED <<lane, started, accepted>>
  BY DEF CountWebhooks, CreateWebhook, SetWebhookEnabled, DeleteWebhook, ReadEndpoints, QueueWebhookEvent,
         PurgeSettledDeliveries, ghosts
<1>2. (\A w \in Workers : LaneStep(w)) /\ OneLane
  BY <1>1 DEF LaneStep, OneLane
<1>3. Grow
  BY <1>1 DEF Grow, TypeOK
<1>4. \A d \in Deliveries : RowStep(d)
  <2>1. CASE UNCHANGED delivery
    BY <2>1 DEF RowStep
  <2>2. ASSUME NEW p \in Endpoints, DeleteWebhook(p) PROVE \A d \in Deliveries : RowStep(d)
    BY <2>2 DEF DeleteWebhook, RowStep
  <2>3. ASSUME NEW e \in Events, QueueWebhookEvent(e), ~(UNCHANGED delivery)
        PROVE  \A d \in Deliveries : RowStep(d)
    <3> TAKE d \in Deliveries
    <3>1. CASE d[1] = e /\ d[2] \in event[e].targets
      <4>1. delivery'[d] = [NewDelivery EXCEPT !.status = "PENDING", !.nextAttemptAt = clock, !.createdAt = clock]
        BY <2>3, <3>1 DEF QueueWebhookEvent
      <4>2. delivery'[d].status = "PENDING" /\ delivery'[d].lockedAt = None /\ delivery'[d].attempts = 0
        BY <4>1 DEF NewDelivery
      <4>3. delivery[d].status = "NONE"
        BY <2>3, <3>1 DEF QueueWebhookEvent, EventsInv
      <4>4. event'[d[1]].pc = "committed"
        BY <2>3, <3>1 DEF QueueWebhookEvent, TypeOK
      <4> QED
        BY <4>2, <4>3, <4>4 DEF RowStep
    <3>2. CASE ~(d[1] = e /\ d[2] \in event[e].targets)
      BY <2>3, <3>2 DEF QueueWebhookEvent, RowStep
    <3> QED
      BY <3>1, <3>2
  <2>4. ASSUME PurgeSettledDeliveries PROVE \A d \in Deliveries : RowStep(d)
    BY <2>4 DEF PurgeSettledDeliveries, Purgeable, RowStep
  <2> QED
    BY <2>1, <2>2, <2>3, <2>4 DEF CountWebhooks, CreateWebhook, SetWebhookEnabled, ReadEndpoints
<1> QED
  BY <1>2, <1>3, <1>4 DEF Steps

LEMMA StepsDrain ==
  ASSUME TypeOK, LanesInv, NEW w \in Workers, Drain(w)
  PROVE  Steps
<1>a. \A v \in Workers : v # w => lane'[v] = lane[v]
  BY DEF Drain, ClaimStart, ClaimNextDelivery, Send, SendFails, RecordDelivered, RecordFailure, Settle,
         Crash, Stall, TypeOK
<1>0. OneLane
  BY <1>a DEF OneLane
<1>b. \A v \in Workers : v # w => LaneStep(v)
  BY <1>a DEF LaneStep
<1>c. lane[w].pc \in Holding => lane[w].row \in Deliveries
  BY DEF LanesInv
<1>d. UNCHANGED delivery => \A d \in Deliveries : RowStep(d)
  BY DEF RowStep
<1>e. UNCHANGED ghosts => Grow
  BY DEF ghosts, Grow, TypeOK
<1>1. CASE ClaimStart(w)
  <2>1. LaneStep(w)
    BY <1>1 DEF ClaimStart, LaneStep, TypeOK
  <2> QED
    BY <1>0, <1>1, <1>b, <1>d, <1>e, <2>1 DEF ClaimStart, Steps, rows
<1>2. CASE ClaimNextDelivery(w)
  <2>1. CASE \E d \in Due(lane[w].token) : Claimed(w, d)
    <3>1. PICK d \in Deliveries : ClaimOf(w, d)
      BY <1>2, <2>1 DEF Due, ClaimOf, ClaimNextDelivery
    <3>2. LaneStep(w)
      BY <3>1 DEF LaneStep
    <3>3. \A n \in Deliveries : RowStep(n)
      BY <3>1 DEF RowStep, ClaimOf, Claimed, TypeOK
    <3> QED
      BY <1>0, <1>2, <1>b, <1>e, <3>2, <3>3 DEF ClaimNextDelivery, Steps
  <2>2. CASE lane' = [lane EXCEPT ![w] = IdleLane] /\ UNCHANGED delivery
    <3>1. LaneStep(w)
      BY <2>2 DEF LaneStep, TypeOK
    <3> QED
      BY <1>0, <1>2, <1>b, <1>d, <1>e, <2>2, <3>1 DEF ClaimNextDelivery, Steps
  <2> QED
    BY <1>2, <2>1, <2>2 DEF ClaimNextDelivery, Claimed
<1>3. CASE Send(w) \/ SendFails(w)
  <2>1. lane[w].row \in Deliveries /\ lane[w].pc = "claimed"
    BY <1>3, <1>c DEF Send, SendFails, Holding
  <2>2. started' = [started EXCEPT ![lane[w].row] = @ + 1] /\ delivery' = delivery
    BY <1>3 DEF Send, SendFails, Start, rows
  <2>3. accepted' = [accepted EXCEPT ![lane[w].row] = @ + 1] \/ accepted' = accepted
    BY <1>3 DEF Send, SendFails, Accept
  <2>4. Grow
    BY <2>1, <2>2, <2>3 DEF Grow, TypeOK
  <2>5. \/ lane' = [lane EXCEPT ![w].pc = "failed"]
        \/ lane' = [lane EXCEPT ![w].pc = "sent"] /\ accepted' = [accepted EXCEPT ![lane[w].row] = @ + 1]
    BY <1>3 DEF Send, SendFails, Accept
  <2>6. LaneStep(w)
    BY <2>1, <2>2, <2>5 DEF LaneStep, Tried, TypeOK, Lane
  <2> QED
    BY <1>0, <1>b, <1>d, <2>2, <2>4, <2>6 DEF Steps
<1>4. CASE RecordDelivered(w) \/ RecordFailure(w)
  <2>1. lane[w].row \in Deliveries /\ lane[w].pc \in {"sent", "failed"}
    BY <1>4, <1>c DEF RecordDelivered, RecordFailure, Holding
  <2>2. lane' = [lane EXCEPT ![w] = IdleLane]
    BY <1>4 DEF RecordDelivered, RecordFailure, Settle
  <2>3. LaneStep(w)
    BY <2>2 DEF LaneStep, TypeOK
  <2>4. ASSUME NEW d \in Deliveries PROVE RowStep(d)
    <3>1. CASE UNCHANGED delivery \/ d # lane[w].row
      BY <1>4, <3>1 DEF RecordDelivered, RecordFailure, Settle, RowStep, TypeOK
    <3>2. CASE ~(UNCHANGED delivery) /\ d = lane[w].row
      <4>0. lane[w] \in Lane /\ delivery[d] \in Delivery
        BY DEF TypeOK
      <4>1. OwnedBy(w)
        BY <1>4, <3>2 DEF RecordDelivered, RecordFailure, Settle
      <4>2. CASE RecordDelivered(w)
        <5>1. delivery'[d] = [delivery[d] EXCEPT !.status = "DELIVERED", !.lockedAt = None,
                                                 !.attempts = lane[w].attempts + 1]
          BY <4>1, <4>2, <3>2 DEF RecordDelivered, Settle, TypeOK
        <5>2. SettleOf(w, d)
          BY <2>1, <2>2, <3>2, <4>0, <4>1, <4>2, <5>1 DEF SettleOf, RecordDelivered, Delivery
        <5> QED
          BY <5>2 DEF RowStep
      <4>3. CASE RecordFailure(w)
        <5> DEFINE failed == [delivery[d] EXCEPT !.attempts = lane[w].attempts + 1, !.lockedAt = None]
        <5>1. \/ /\ lane[w].attempts + 1 >= MaxWebhookAttempts
                 /\ delivery'[d] = [failed EXCEPT !.status = "FAILED"]
              \/ /\ lane[w].attempts + 1 < MaxWebhookAttempts
                 /\ \E delay \in Delays : delivery'[d] = [failed EXCEPT !.nextAttemptAt = lane[w].token + delay]
          BY <4>1, <4>3, <3>2 DEF RecordFailure, Settle, TypeOK
        <5>2. \A delay \in Delays : lane[w].token < lane[w].token + delay
          BY <4>0 DEF Lane
        <5>3. SettleOf(w, d)
          BY <2>1, <2>2, <3>2, <4>0, <4>1, <4>3, <5>1, <5>2, ZenonT(60) DEF SettleOf, RecordFailure, Delivery
        <5> QED
          BY <5>3 DEF RowStep
      <4> QED
        BY <1>4, <4>2, <4>3
    <3> QED
      BY <3>1, <3>2
  <2> QED
    BY <1>0, <1>4, <1>b, <1>e, <2>3, <2>4 DEF RecordDelivered, RecordFailure, Steps
<1>5. CASE Crash(w) \/ Stall(w)
  <2>1. LaneStep(w) /\ delivery' = delivery
    BY <1>5 DEF LaneStep, Crash, Stall, TypeOK, Lane, rows
  <2> QED
    BY <1>0, <1>5, <1>b, <1>d, <1>e, <2>1 DEF Crash, Stall, Steps
<1> QED
  BY <1>1, <1>2, <1>3, <1>4, <1>5 DEF Drain

LEMMA NextSteps ==
  ASSUME TypeOK, LanesInv, EventsInv, [Next]_vars
  PROVE  Steps
<1>1. CASE Tick \/ UNCHANGED vars
  BY <1>1 DEF Tick, vars, rows, ghosts, Steps, RowStep, LaneStep, OneLane, Grow, TypeOK
<1> QED
  BY <1>1, StepsAdmins, StepsDrain DEF Next
-----------------------------------------------------------------------------
(* Lanes, events, claims and counts. *)

StateInv == LanesInv /\ EventsInv /\ ClaimsInv /\ CountsInv

LEMMA RowKept ==
  ASSUME TypeOK, LanesInv, NEW d \in Deliveries, RowStep(d), delivery[d].status # "NONE"
  PROVE  delivery'[d].status # "NONE"
<1>1. delivery[d] \in Delivery
  BY DEF TypeOK
<1>2. ASSUME NEW w \in Workers, ClaimOf(w, d) PROVE delivery'[d].status = delivery[d].status
  BY <1>1, <1>2 DEF ClaimOf, Claimed, TypeOK, Delivery
<1>3. ASSUME NEW w \in Workers, SettleOf(w, d) PROVE delivery'[d].status # "NONE"
  BY <1>3 DEF SettleOf
<1>4. CASE delivery'[d] = [delivery[d] EXCEPT !.status = "DELETED"]
  BY <1>1, <1>4 DEF Delivery
<1> QED
  BY <1>2, <1>3, <1>4 DEF RowStep

LEMMA LanesStep ==
  ASSUME TypeOK, TypeOK', LanesInv, Steps, [Next]_vars
  PROVE  LanesInv'
<1>1. clock' = clock \/ Tick
  BY DEF Next, vars, CountWebhooks, CreateWebhook, SetWebhookEnabled, DeleteWebhook, ReadEndpoints,
         QueueWebhookEvent, Drain, ClaimStart, ClaimNextDelivery, Send, SendFails, RecordDelivered,
         RecordFailure, Crash, Stall, PurgeSettledDeliveries
<1>2. clock \in Nat /\ clock' \in Nat /\ clock <= clock'
  BY <1>1 DEF Tick, TypeOK
<1> SUFFICES ASSUME NEW w \in Workers
             PROVE  /\ lane'[w].pc \in Holding => /\ lane'[w].row \in Deliveries
                                                  /\ delivery'[lane'[w].row].status # "NONE"
                    /\ lane'[w].token <= clock'
                    /\ lane'[w].pc # "idle" /\ ~lane'[w].slow => clock' <= lane'[w].token + StaleAfter
  BY DEF LanesInv
<1>3. lane[w] \in Lane /\ lane'[w] \in Lane
  BY DEF TypeOK
<1>4. \A d \in Deliveries : delivery[d].status # "NONE" => delivery'[d].status # "NONE"
  BY RowKept DEF Steps
<1>5. CASE Tick
  <2>1. lane' = lane /\ clock' = clock + 1
    BY <1>5 DEF Tick
  <2>2. lane[w].pc # "idle" /\ ~lane[w].slow => clock - lane[w].token < StaleAfter
    BY <1>5 DEF Tick
  <2>3. lane[w].token \in Nat
    BY <1>3 DEF Lane
  <2> QED
    BY <1>2, <1>4, <2>1, <2>2, <2>3 DEF LanesInv
<1>6. CASE clock' = clock /\ lane'[w] = lane[w]
  BY <1>4, <1>6 DEF LanesInv
<1>7. CASE clock' = clock /\ lane'[w] = IdleLane
  BY <1>2, <1>7 DEF IdleLane, Holding
<1>8. CASE clock' = clock /\ lane'[w] = [IdleLane EXCEPT !.pc = "asked", !.token = clock]
  <2>1. lane'[w].pc = "asked" /\ lane'[w].token = clock
    BY <1>8 DEF IdleLane
  <2> QED
    BY <1>2, <1>8, <2>1 DEF Holding
<1>9. ASSUME clock' = clock, NEW d \in Deliveries, ClaimOf(w, d)
      PROVE  /\ lane'[w].row \in Deliveries /\ delivery'[lane'[w].row].status # "NONE"
             /\ lane'[w].token <= clock'
             /\ ~lane'[w].slow => clock' <= lane'[w].token + StaleAfter
  <2>1. /\ lane'[w].row = d /\ lane'[w].token = lane[w].token /\ lane'[w].slow = lane[w].slow
        /\ lane[w].pc = "asked"
    BY <1>3, <1>9 DEF ClaimOf, Claimed, Lane, TypeOK
  <2>2. delivery[d].status # "NONE"
    BY <1>9 DEF ClaimOf, Due
  <2> QED
    BY <1>4, <1>9, <2>1, <2>2 DEF LanesInv
<1>10. CASE clock' = clock /\ Tried(w)
  BY <1>4, <1>10 DEF Tried, LanesInv, Holding
<1>11. CASE clock' = clock /\ lane[w].pc # "idle" /\ lane'[w] = [lane[w] EXCEPT !.slow = TRUE]
  <2>1. lane'[w].pc = lane[w].pc /\ lane'[w].row = lane[w].row /\ lane'[w].token = lane[w].token
        /\ lane'[w].slow
    BY <1>3, <1>11 DEF Lane
  <2> QED
    BY <1>4, <1>11, <2>1 DEF LanesInv
<1> QED
  BY <1>1, <1>5, <1>6, <1>7, <1>8, <1>9, <1>10, <1>11 DEF Steps, LaneStep

LEMMA EventsStep ==
  ASSUME TypeOK, LanesInv, EventsInv, Steps, [Next]_vars
  PROVE  EventsInv'
<1>1. \A e \in Events : event[e].pc = "committed" => event'[e].pc = "committed"
  <2>1. ASSUME NEW e \in Events, ReadEndpoints(e) \/ QueueWebhookEvent(e)
        PROVE  \A f \in Events : event[f].pc = "committed" => event'[f].pc = "committed"
    BY <2>1 DEF ReadEndpoints, QueueWebhookEvent, TypeOK
  <2> QED
    BY <2>1 DEF Next, vars, rows, CountWebhooks, CreateWebhook, SetWebhookEnabled, DeleteWebhook,
         Drain, ClaimStart, ClaimNextDelivery, Send, SendFails, RecordDelivered,
         RecordFailure, Crash, Stall, PurgeSettledDeliveries, Tick
<1> SUFFICES ASSUME NEW d \in Deliveries, event'[d[1]].pc # "committed"
             PROVE  delivery'[d].status = "NONE"
  BY DEF EventsInv
<1>2. d[1] \in Events
  BY DEF Deliveries
<1>3. delivery[d].status = "NONE"
  BY <1>1, <1>2 DEF EventsInv
<1>4. RowStep(d)
  BY DEF Steps
<1>5. \A w \in Workers : ~ClaimOf(w, d) /\ ~SettleOf(w, d)
  BY <1>3 DEF ClaimOf, Due, SettleOf, LanesInv, Holding
<1> QED
  BY <1>3, <1>4, <1>5 DEF RowStep

\* A row with a claim of w, or with none, and the time of w's claim.
Behind(w, d) ==
  IF delivery[d].lockedAt = None THEN lane[w].token < delivery[d].nextAttemptAt
  ELSE lane[w].token <= delivery[d].lockedAt

\* A new claim is later than all the others.
LEMMA ClaimIsLatest ==
  ASSUME TypeOK, LanesInv, ClaimsInv, NEW v \in Workers, NEW w \in Workers, NEW d \in Deliveries,
         ClaimOf(w, d), lane[v].pc \in Holding, lane[v].row = d
  PROVE  lane[v].token < lane[w].token
<1>1. lane[v].token \in Nat /\ lane[w].token \in Nat /\ delivery[d].nextAttemptAt \in Nat
      /\ delivery[d].lockedAt \in Nat \cup {None}
  BY DEF TypeOK, Lane, Delivery
<1>2. /\ delivery[d].status = "PENDING" /\ delivery[d].nextAttemptAt <= lane[w].token
      /\ delivery[d].lockedAt = None \/ delivery[d].lockedAt < lane[w].token - StaleAfter
  BY DEF ClaimOf, Due, Free
<1>3. Behind(v, d)
  BY <1>2 DEF ClaimsInv, Behind
<1>4. CASE delivery[d].lockedAt = None
  BY <1>1, <1>2, <1>3, <1>4 DEF Behind
<1>5. CASE delivery[d].lockedAt # None
  <2>1. delivery[d].lockedAt \in Nat /\ delivery[d].lockedAt < lane[w].token - StaleAfter
    BY <1>1, <1>2, <1>5
  <2>2. lane[v].token <= delivery[d].lockedAt
    BY <1>3, <1>5 DEF Behind
  <2> QED
    BY <1>1, <2>1, <2>2
<1> QED
  BY <1>4, <1>5

LEMMA ClaimEffect ==
  ASSUME TypeOK, NEW w \in Workers, NEW d \in Deliveries, ClaimOf(w, d)
  PROVE  /\ delivery[d].status = "PENDING" /\ delivery'[d] = [delivery[d] EXCEPT !.lockedAt = lane[w].token]
         /\ delivery'[d].status = "PENDING" /\ delivery'[d].lockedAt = lane[w].token
         /\ delivery'[d].attempts = delivery[d].attempts /\ delivery'[d].lockedAt # None
         /\ lane'[w].pc = "claimed" /\ lane'[w].row = d /\ lane'[w].token = lane[w].token
         /\ lane'[w].attempts = delivery[d].attempts /\ lane'[w].slow = lane[w].slow
<1>1. delivery[d] \in Delivery /\ lane[w] \in Lane /\ lane[w].token \in Nat
  BY DEF TypeOK, Lane
<1>2. delivery[d].status = "PENDING"
  BY DEF ClaimOf, Due
<1>3. delivery'[d] = [delivery[d] EXCEPT !.lockedAt = lane[w].token]
  BY DEF ClaimOf, Claimed, TypeOK
<1>4. lane'[w] = [lane[w] EXCEPT !.pc = "claimed", !.row = d, !.attempts = delivery[d].attempts]
  BY DEF ClaimOf, Claimed, TypeOK
<1>5. lane'[w].pc = "claimed" /\ lane'[w].row = d /\ lane'[w].token = lane[w].token
      /\ lane'[w].attempts = delivery[d].attempts /\ lane'[w].slow = lane[w].slow
  BY <1>1, <1>4 DEF Lane
<1>6. delivery'[d].status = "PENDING" /\ delivery'[d].lockedAt = lane[w].token
      /\ delivery'[d].attempts = delivery[d].attempts
  BY <1>1, <1>2, <1>3 DEF Delivery
<1> QED
  BY <1>1, <1>2, <1>3, <1>5, <1>6

LEMMA SlowEffect ==
  ASSUME TypeOK, NEW w \in Workers, lane'[w] = [lane[w] EXCEPT !.slow = TRUE]
  PROVE  /\ lane'[w].pc = lane[w].pc /\ lane'[w].row = lane[w].row /\ lane'[w].token = lane[w].token
         /\ lane'[w].attempts = lane[w].attempts /\ lane'[w].slow
BY DEF TypeOK, Lane

\* Lanes with a delivery: one that has it from now on, or one that had it already.
LEMMA HoldingStep ==
  ASSUME TypeOK, LanesInv, Steps, NEW w \in Workers, lane'[w].pc \in Holding
  PROVE  \/ ClaimOf(w, lane'[w].row) /\ lane'[w].row \in Deliveries
         \/ /\ lane[w].pc \in Holding
            /\ lane'[w].row = lane[w].row /\ lane'[w].token = lane[w].token
            /\ lane'[w].attempts = lane[w].attempts
            /\ lane'[w].pc = lane[w].pc \/ Tried(w)
            /\ delivery' = delivery \/ lane'[w] = lane[w]
<1>1. LaneStep(w)
  BY DEF Steps
<1>2. CASE lane'[w] = IdleLane
  BY <1>2 DEF IdleLane, Holding
<1>3. CASE lane'[w] = [IdleLane EXCEPT !.pc = "asked", !.token = clock]
  BY <1>3 DEF IdleLane, Holding
<1>4. CASE lane'[w] = [lane[w] EXCEPT !.slow = TRUE] /\ delivery' = delivery
  BY <1>4, SlowEffect
<1>5. ASSUME NEW d \in Deliveries, ClaimOf(w, d) PROVE ClaimOf(w, lane'[w].row) /\ lane'[w].row \in Deliveries
  BY <1>5, ClaimEffect
<1>6. CASE Tried(w)
  BY <1>6 DEF Tried, Holding
<1> QED
  BY <1>1, <1>2, <1>3, <1>4, <1>5, <1>6 DEF LaneStep

\* A row with a lane does not come from nowhere.
LEMMA HeldRow ==
  ASSUME TypeOK, LanesInv, Steps, NEW w \in Workers, lane[w].pc \in Holding, lane'[w] = lane[w]
  PROVE  LET d == lane[w].row IN
         /\ d \in Deliveries /\ d = lane'[w].row
         /\ \/ delivery'[d] = delivery[d]
            \/ delivery'[d].status = "DELETED"
            \/ \E v \in Workers : ClaimOf(v, d)
            \/ \E v \in Workers : SettleOf(v, d)
<1> DEFINE d == lane[w].row
<1>1. d \in Deliveries /\ delivery[d].status # "NONE" /\ delivery[d] \in Delivery
  BY DEF LanesInv, TypeOK
<1>2. RowStep(d)
  BY <1>1 DEF Steps
<1>3. delivery'[d] = [delivery[d] EXCEPT !.status = "DELETED"] => delivery'[d].status = "DELETED"
  BY <1>1 DEF Delivery
<1> QED
  BY <1>1, <1>2, <1>3 DEF RowStep

LEMMA ClaimsStep ==
  ASSUME TypeOK, TypeOK', LanesInv, ClaimsInv, Steps
  PROVE  ClaimsInv'
<1>1. ASSUME NEW d \in Deliveries, delivery'[d].lockedAt # None
      PROVE  delivery'[d].status \in {"PENDING", "DELETED"}
  <2>0. RowStep(d) /\ delivery[d] \in Delivery
    BY DEF Steps, TypeOK
  <2>1. CASE delivery'[d] = delivery[d]
    BY <1>1, <2>1 DEF ClaimsInv
  <2>2. CASE delivery'[d] = [delivery[d] EXCEPT !.status = "DELETED"]
    BY <2>0, <2>2 DEF Delivery
  <2>3. ASSUME NEW w \in Workers, ClaimOf(w, d) PROVE delivery'[d].status = "PENDING"
    BY <2>3, ClaimEffect
  <2> QED
    BY <1>1, <2>0, <2>1, <2>2, <2>3 DEF RowStep, SettleOf
<1>2. ASSUME NEW w \in Workers, lane'[w].pc \in Holding, delivery'[lane'[w].row].status = "PENDING"
      PROVE  IF delivery'[lane'[w].row].lockedAt = None
             THEN lane'[w].token < delivery'[lane'[w].row].nextAttemptAt
             ELSE lane'[w].token <= delivery'[lane'[w].row].lockedAt
  <2> DEFINE d == lane[w].row
  <2>0. lane'[w].token \in Nat /\ lane[w].token \in Nat
    BY DEF TypeOK, Lane
  <2>1. CASE ClaimOf(w, lane'[w].row) /\ lane'[w].row \in Deliveries
    <3>1. PICK n \in Deliveries : n = lane'[w].row /\ ClaimOf(w, n)
      BY <2>1
    <3>2. delivery'[n].lockedAt = lane[w].token /\ delivery'[n].lockedAt # None /\ lane'[w].token = lane[w].token
      BY <3>1, ClaimEffect
    <3> QED
      BY <2>0, <3>1, <3>2
  <2>2. CASE lane[w].pc \in Holding /\ lane'[w].row = d /\ lane'[w].token = lane[w].token /\ delivery' = delivery
    BY <1>2, <2>2 DEF ClaimsInv
  <2>3. CASE lane[w].pc \in Holding /\ lane'[w] = lane[w]
    <3>1. CASE delivery'[d] = delivery[d]
      BY <1>2, <2>3, <3>1 DEF ClaimsInv
    <3>2. ASSUME NEW v \in Workers, ClaimOf(v, d) PROVE lane[w].token <= delivery'[d].lockedAt /\ delivery'[d].lockedAt # None
      <4>1. d \in Deliveries
        BY <2>3 DEF LanesInv
      <4>2. lane[w].token < lane[v].token
        BY <2>3, <3>2, <4>1, ClaimIsLatest
      <4>3. delivery'[d].lockedAt = lane[v].token /\ delivery'[d].lockedAt # None /\ lane[v].token \in Nat
        BY <3>2, <4>1, ClaimEffect DEF TypeOK, Lane
      <4> QED
        BY <2>0, <4>2, <4>3
    <3>3. ASSUME NEW v \in Workers, SettleOf(v, d)
          PROVE  delivery'[d].lockedAt = None /\ lane[w].token < delivery'[d].nextAttemptAt
      <4>1. d \in Deliveries /\ delivery'[d].nextAttemptAt \in Nat /\ lane[v].token \in Nat
        BY <2>3 DEF LanesInv, TypeOK, Delivery, Lane
      <4>2. /\ delivery'[d].lockedAt = None /\ lane[v].token < delivery'[d].nextAttemptAt
            /\ delivery[d].status = "PENDING" /\ delivery[d].lockedAt = lane[v].token
        BY <1>2, <2>3, <3>3 DEF SettleOf, OwnedBy
      <4>3. lane[w].token <= lane[v].token
        BY <2>3, <4>1, <4>2 DEF ClaimsInv
      <4> QED
        BY <2>0, <4>1, <4>2, <4>3
    <3> QED
      BY <1>2, <2>3, <3>1, <3>2, <3>3, HeldRow
  <2> QED
    BY <1>2, <2>1, <2>2, <2>3, HoldingStep
<1>3. ASSUME NEW v \in Workers, NEW w \in Workers, lane'[v].pc \in Holding, lane'[w].pc \in Holding,
             lane'[v].row = lane'[w].row, lane'[v].token = lane'[w].token, v # w
      PROVE  FALSE
  <2>0. \A u \in Workers : lane[u].token \in Nat
    BY DEF TypeOK, Lane
  <2>1. CASE lane'[v] = lane[v]
    <3>1. CASE ClaimOf(w, lane'[w].row) /\ lane'[w].row \in Deliveries
      <4>1. lane[v].token < lane[w].token /\ lane'[w].token = lane[w].token
        BY <1>3, <2>1, <3>1, ClaimIsLatest, ClaimEffect, ZenonT(60)
      <4> QED
        BY <1>3, <2>0, <2>1, <4>1
    <3>2. CASE lane[w].pc \in Holding /\ lane'[w].row = lane[w].row /\ lane'[w].token = lane[w].token
      BY <1>3, <2>1, <3>2 DEF ClaimsInv
    <3> QED
      BY <1>3, <3>1, <3>2, HoldingStep
  <2>2. CASE lane'[w] = lane[w]
    <3>1. CASE ClaimOf(v, lane'[v].row) /\ lane'[v].row \in Deliveries
      <4>1. lane[w].token < lane[v].token /\ lane'[v].token = lane[v].token
        BY <1>3, <2>2, <3>1, ClaimIsLatest, ClaimEffect, ZenonT(60)
      <4> QED
        BY <1>3, <2>0, <2>2, <4>1
    <3>2. CASE lane[v].pc \in Holding /\ lane'[v].row = lane[v].row /\ lane'[v].token = lane[v].token
      BY <1>3, <2>2, <3>2 DEF ClaimsInv
    <3> QED
      BY <1>3, <3>1, <3>2, HoldingStep
  <2> QED
    BY <1>3, <2>1, <2>2 DEF Steps, OneLane
<1> QED
  BY <1>1, <1>2, <1>3 DEF ClaimsInv

\* What settling makes of the row, in its own terms.
LEMMA SettleEffect ==
  ASSUME TypeOK, ClaimsInv, NEW w \in Workers, NEW d \in Deliveries, SettleOf(w, d)
  PROVE  /\ delivery[d].status = "PENDING" /\ delivery[d].lockedAt = lane[w].token
         /\ delivery[d].lockedAt # None /\ delivery'[d].lockedAt = None
         /\ lane[w].pc \in Holding /\ lane[w].row = d /\ lane'[w] = IdleLane
<1>1. delivery[d].lockedAt = lane[w].token /\ delivery[d].status # "DELETED" /\ lane[w].row = d
  BY DEF SettleOf, OwnedBy
<1>2. lane[w].token \in Nat
  BY DEF TypeOK, Lane
<1> QED
  BY <1>1, <1>2 DEF SettleOf, ClaimsInv, Holding, TypeOK

LEMMA CountsStep ==
  ASSUME TypeOK, TypeOK', LanesInv, ClaimsInv, CountsInv, Steps
  PROVE  CountsInv'
<1>0. /\ \A w \in Workers : lane[w].attempts \in Nat /\ lane'[w].attempts \in Nat /\ lane[w].token \in Nat
      /\ \A d \in Deliveries : /\ delivery[d].attempts \in Nat /\ delivery'[d].attempts \in Nat
                               /\ started[d] \in Nat /\ started'[d] \in Nat
                               /\ accepted[d] \in Nat /\ accepted'[d] \in Nat
                               /\ delivery[d] \in Delivery
                               /\ started[d] <= started'[d] /\ accepted[d] <= accepted'[d]
  BY DEF TypeOK, Lane, Delivery, Steps, Grow
<1>1. ASSUME NEW d \in Deliveries
      PROVE  /\ delivery'[d].attempts <= started'[d]
             /\ delivery'[d].status = "PENDING" => delivery'[d].attempts < MaxWebhookAttempts
             /\ delivery'[d].status = "FAILED" => started'[d] >= MaxWebhookAttempts
             /\ delivery'[d].status = "DELIVERED" => accepted'[d] > 0
  <2>0. RowStep(d)
    BY DEF Steps
  <2>1. CASE delivery'[d] = delivery[d]
    BY <1>0, <2>1 DEF CountsInv, SettledTruthfully
  <2>2. CASE delivery'[d].status = "PENDING" /\ delivery'[d].attempts = 0
    BY <1>0, <2>2
  <2>3. CASE delivery'[d] = [delivery[d] EXCEPT !.status = "DELETED"]
    <3>1. delivery'[d].status = "DELETED" /\ delivery'[d].attempts = delivery[d].attempts
      BY <1>0, <2>3 DEF Delivery
    <3> QED
      BY <1>0, <3>1 DEF CountsInv
  <2>4. ASSUME NEW w \in Workers, ClaimOf(w, d)
        PROVE  delivery'[d].status = "PENDING" /\ delivery[d].status = "PENDING"
               /\ delivery'[d].attempts = delivery[d].attempts
    BY <2>4, ClaimEffect
  <2>5. ASSUME NEW w \in Workers, SettleOf(w, d)
        PROVE  /\ delivery'[d].attempts <= started'[d]
               /\ delivery'[d].status = "PENDING" => delivery'[d].attempts < MaxWebhookAttempts
               /\ delivery'[d].status = "FAILED" => started'[d] >= MaxWebhookAttempts
               /\ delivery'[d].status = "DELIVERED" => accepted'[d] > 0
    <3>1. lane[w].attempts + 1 <= started[d] /\ (lane[w].pc = "sent" => accepted[d] > 0)
      BY <2>5 DEF SettleOf, CountsInv, Holding
    <3>2. delivery[d].status = "PENDING"
      BY <2>5, SettleEffect
    <3> QED
      BY <1>0, <2>5, <3>1, <3>2 DEF SettleOf
  <2> QED
    BY <1>0, <2>0, <2>1, <2>2, <2>3, <2>4, <2>5 DEF RowStep, CountsInv
<1>2. ASSUME NEW w \in Workers, lane'[w].pc \in Holding
      PROVE  /\ lane'[w].attempts <= started'[lane'[w].row]
             /\ lane'[w].pc # "claimed" => lane'[w].attempts + 1 <= started'[lane'[w].row]
             /\ lane'[w].pc = "sent" => accepted'[lane'[w].row] > 0
             /\ OwnedBy(w)' => lane'[w].attempts = delivery'[lane'[w].row].attempts
  <2>1. CASE ClaimOf(w, lane'[w].row) /\ lane'[w].row \in Deliveries
    <3>1. PICK d \in Deliveries : d = lane'[w].row /\ ClaimOf(w, d)
      BY <2>1
    <3>2. /\ lane'[w].pc = "claimed" /\ lane'[w].attempts = delivery[d].attempts
          /\ delivery'[d].attempts = delivery[d].attempts
      BY <3>1, ClaimEffect
    <3>3. delivery[d].attempts <= started[d]
      BY DEF CountsInv
    <3> QED
      BY <1>0, <3>1, <3>2, <3>3
  <2>2. CASE /\ lane[w].pc \in Holding
             /\ lane'[w].row = lane[w].row /\ lane'[w].token = lane[w].token
             /\ lane'[w].attempts = lane[w].attempts
             /\ lane'[w].pc = lane[w].pc \/ Tried(w)
             /\ delivery' = delivery \/ lane'[w] = lane[w]
    <3>1. PICK d \in Deliveries : d = lane[w].row /\ d = lane'[w].row
      BY <2>2 DEF LanesInv
    <3>2. /\ lane[w].attempts <= started[d]
          /\ lane[w].pc # "claimed" => lane[w].attempts + 1 <= started[d]
          /\ lane[w].pc = "sent" => accepted[d] > 0
          /\ OwnedBy(w) => lane[w].attempts = delivery[d].attempts
      BY <2>2, <3>1 DEF CountsInv
    <3>4. Tried(w) => started'[d] = started[d] + 1 /\ (lane'[w].pc = "sent" => accepted'[d] = accepted[d] + 1)
      BY <3>1 DEF Tried
    <3>5. /\ lane'[w].attempts <= started'[d]
          /\ lane'[w].pc # "claimed" => lane'[w].attempts + 1 <= started'[d]
          /\ lane'[w].pc = "sent" => accepted'[d] > 0
      <4>1. CASE lane'[w].pc = lane[w].pc
        BY <1>0, <2>2, <3>1, <3>2, <4>1
      <4>2. CASE Tried(w)
        BY <1>0, <2>2, <3>1, <3>2, <3>4, <4>2
      <4> QED
        BY <2>2, <4>1, <4>2
    <3>6. OwnedBy(w)' => lane'[w].attempts = delivery'[d].attempts
      <4>1. CASE delivery' = delivery
        BY <2>2, <3>1, <3>2, <4>1 DEF OwnedBy
      <4>2. CASE lane'[w] = lane[w]
        <5>1. CASE delivery'[d] = delivery[d]
          BY <3>1, <3>2, <4>2, <5>1 DEF OwnedBy
        <5>2. CASE delivery'[d].status = "DELETED"
          BY <3>1, <5>2 DEF OwnedBy
        <5>3. ASSUME NEW v \in Workers, ClaimOf(v, d) PROVE ~OwnedBy(w)'
          <6>1. lane[w].token < lane[v].token
            BY <2>2, <3>1, <5>3, ClaimIsLatest
          <6>2. delivery'[d].lockedAt = lane[v].token
            BY <5>3, ClaimEffect
          <6> QED
            BY <1>0, <2>2, <3>1, <6>1, <6>2 DEF OwnedBy
        <5>4. ASSUME NEW v \in Workers, SettleOf(v, d) PROVE ~OwnedBy(w)'
          <6>1. delivery'[d].lockedAt = None /\ lane'[w].token \in Nat
            BY <1>0, <2>2, <5>4, SettleEffect
          <6> QED
            BY <3>1, <6>1 DEF OwnedBy
        <5> QED
          BY <2>2, <3>1, <4>2, <5>1, <5>2, <5>3, <5>4, HeldRow
      <4> QED
        BY <2>2, <4>1, <4>2
    <3> QED
      BY <3>1, <3>5, <3>6
  <2> QED
    BY <1>2, <2>1, <2>2, HoldingStep
<1> QED
  BY <1>1, <1>2 DEF CountsInv, SettledTruthfully
-----------------------------------------------------------------------------
(* Acceptances and faults. *)

LEMMA CountOne ==
  ASSUME NEW A \in SUBSET Workers, NEW w \in Workers
  PROVE  /\ Cardinality(A \ {w}) \in Nat
         /\ Cardinality(A) = Cardinality(A \ {w}) + (IF w \in A THEN 1 ELSE 0)
<1>1. IsFiniteSet(A) /\ IsFiniteSet(A \ {w})
  BY FS_Subset
<1>2. Cardinality(A) \in Nat /\ Cardinality(A \ {w}) \in Nat
  BY <1>1, FS_CardinalityType
<1>3. CASE w \in A
  BY <1>1, <1>2, <1>3, FS_RemoveElement
<1>4. CASE w \notin A
  <2>1. A \ {w} = A
    BY <1>4
  <2> QED
    BY <1>2, <1>4, <2>1
<1> QED
  BY <1>3, <1>4

\* When only w moves, only w is counted differently.
LEMMA Recount ==
  ASSUME NEW w \in Workers, \A v \in Workers : v # w => lane'[v] = lane[v], NEW d \in Deliveries
  PROVE  \E u, f \in Nat :
           /\ Cardinality(Unsent(d)) = u + (IF Sends(w, d) THEN 1 ELSE 0)
           /\ Cardinality(Unsent(d)') = u + (IF Sends(w, d)' THEN 1 ELSE 0)
           /\ Cardinality(Frozen) = f + (IF Freezes(w) THEN 1 ELSE 0)
           /\ Cardinality(Frozen') = f + (IF Freezes(w)' THEN 1 ELSE 0)
<1>1. /\ Unsent(d) \in SUBSET Workers /\ Unsent(d)' \in SUBSET Workers
      /\ Frozen \in SUBSET Workers /\ Frozen' \in SUBSET Workers
  BY DEF Unsent, Frozen
<1>2. /\ w \in Unsent(d) <=> Sends(w, d)
      /\ w \in Unsent(d)' <=> Sends(w, d)'
      /\ w \in Frozen <=> Freezes(w)
      /\ w \in Frozen' <=> Freezes(w)'
  BY DEF Unsent, Frozen
<1>3. Unsent(d)' \ {w} = Unsent(d) \ {w} /\ Frozen' \ {w} = Frozen \ {w}
  BY DEF Unsent, Frozen, Sends, Freezes
<1>4. /\ Cardinality(Unsent(d) \ {w}) \in Nat
      /\ Cardinality(Unsent(d)) = Cardinality(Unsent(d) \ {w}) + (IF Sends(w, d) THEN 1 ELSE 0)
  BY <1>1, <1>2, CountOne
<1>5. Cardinality(Unsent(d)') = Cardinality(Unsent(d) \ {w}) + (IF Sends(w, d)' THEN 1 ELSE 0)
  BY <1>1, <1>2, <1>3, CountOne
<1>6. /\ Cardinality(Frozen \ {w}) \in Nat
      /\ Cardinality(Frozen) = Cardinality(Frozen \ {w}) + (IF Freezes(w) THEN 1 ELSE 0)
  BY <1>1, <1>2, CountOne
<1>7. Cardinality(Frozen') = Cardinality(Frozen \ {w}) + (IF Freezes(w)' THEN 1 ELSE 0)
  BY <1>1, <1>2, <1>3, CountOne
<1> QED
  BY <1>4, <1>5, <1>6, <1>7

\* The delivery of a drain whose claim has not expired is still claimed by it.
LEMMA NoLiveOneTaken ==
  ASSUME TypeOK, LanesInv, NEW w \in Workers, NEW d \in Deliveries, ClaimOf(w, d)
  PROVE  ~Live(d)
<1> SUFFICES ASSUME NEW v \in Workers, Lives(v, d) PROVE FALSE
  BY DEF Live
<1>1. lane[v].token \in Nat /\ lane[w].token \in Nat /\ clock \in Nat
  BY DEF TypeOK, Lane
<1>2. lane[w].token <= clock /\ clock <= lane[v].token + StaleAfter
  BY DEF LanesInv, Lives
<1>3. lane[v].token = None \/ lane[v].token < lane[w].token - StaleAfter
  BY DEF ClaimOf, Due, Free, Lives
<1> QED
  BY <1>1, <1>2, <1>3

LEMMA SendsDrain ==
  ASSUME TypeOK, TypeOK', LanesInv, ClaimsInv, SendsInv, NEW w \in Workers, Drain(w)
  PROVE  SendsInv'
<1>a. \A v \in Workers : v # w => lane'[v] = lane[v]
  BY DEF Drain, ClaimStart, ClaimNextDelivery, Send, SendFails, RecordDelivered, RecordFailure, Settle,
         Crash, Stall, TypeOK
<1> SUFFICES ASSUME NEW d \in Deliveries
             PROVE  accepted'[d] + Cardinality(Unsent(d)') + Cardinality(Frozen')
                      <= faults' + (IF Unpaid(d)' THEN 1 ELSE 0)
  BY DEF SendsInv
<1>b. PICK u \in Nat, f \in Nat :
        /\ Cardinality(Unsent(d)) = u + (IF Sends(w, d) THEN 1 ELSE 0)
        /\ Cardinality(Unsent(d)') = u + (IF Sends(w, d)' THEN 1 ELSE 0)
        /\ Cardinality(Frozen) = f + (IF Freezes(w) THEN 1 ELSE 0)
        /\ Cardinality(Frozen') = f + (IF Freezes(w)' THEN 1 ELSE 0)
  BY <1>a, Recount
<1>c. /\ accepted[d] \in Nat /\ accepted'[d] \in Nat /\ faults \in Nat /\ faults' \in Nat
      /\ lane[w] \in Lane /\ lane[w].token \in Nat /\ delivery[d] \in Delivery
  BY DEF TypeOK, Lane
<1>d. accepted[d] + (u + (IF Sends(w, d) THEN 1 ELSE 0)) + (f + (IF Freezes(w) THEN 1 ELSE 0))
        <= faults + (IF Unpaid(d) THEN 1 ELSE 0)
  BY <1>b DEF SendsInv
<1> SUFFICES accepted'[d] + (u + (IF Sends(w, d)' THEN 1 ELSE 0)) + (f + (IF Freezes(w)' THEN 1 ELSE 0))
               <= faults' + (IF Unpaid(d)' THEN 1 ELSE 0)
  BY <1>b
<1>e. ASSUME delivery'[d] = delivery[d], Lives(w, d) => Lives(w, d)' PROVE Unpaid(d) => Unpaid(d)'
  <2>1. Live(d) => Live(d)'
    BY <1>a, <1>e DEF Live, Lives
  <2> QED
    BY <1>e, <2>1 DEF Unpaid
<1>1. CASE ClaimStart(w)
  <2>1. lane'[w] = [IdleLane EXCEPT !.pc = "asked", !.token = clock] /\ lane[w].pc = "idle"
    BY <1>1 DEF ClaimStart, TypeOK
  <2>2. lane'[w].pc = "asked" /\ ~lane'[w].slow
    BY <2>1 DEF IdleLane
  <2>3. ~Sends(w, d)' /\ ~Freezes(w)' /\ ~Lives(w, d)
    BY <2>1, <2>2 DEF Sends, Freezes, Lives
  <2>4. UNCHANGED <<delivery, accepted, faults>>
    BY <1>1 DEF ClaimStart, rows, ghosts
  <2> QED
    BY <1>c, <1>d, <1>e, <2>3, <2>4
<1>2. CASE ClaimNextDelivery(w)
  <2>0. UNCHANGED <<accepted, faults>> /\ lane[w].pc = "asked" /\ ~Lives(w, d) /\ ~Sends(w, d)
    BY <1>2 DEF ClaimNextDelivery, ghosts, Lives, Sends
  <2>1. CASE \E n \in Due(lane[w].token) : Claimed(w, n)
    <3>1. PICK n \in Deliveries : ClaimOf(w, n)
      BY <2>0, <2>1 DEF Due, ClaimOf
    <3>2. /\ lane'[w].pc = "claimed" /\ lane'[w].row = n /\ lane'[w].token = lane[w].token
          /\ lane'[w].slow = lane[w].slow /\ delivery[n].status = "PENDING"
          /\ delivery'[n].status = "PENDING" /\ delivery'[n].lockedAt = lane[w].token
      BY <3>1, ClaimEffect
    <3>3. ~Freezes(w)' /\ (Freezes(w) <=> lane[w].slow)
      BY <2>0, <3>2 DEF Freezes
    <3>4. CASE n = d
      <4>1. ~Unpaid(d)
        BY <3>1, <3>2, <3>4, NoLiveOneTaken DEF Unpaid
      <4>2. Sends(w, d)'
        BY <3>2, <3>4 DEF Sends
      <4>3. ~lane[w].slow => Unpaid(d)'
        <5>1. ~lane[w].slow => Lives(w, d)'
          BY <3>2, <3>4 DEF Lives
        <5> QED
          BY <3>2, <3>4, <5>1 DEF Unpaid, Live
      <4> QED
        BY <1>c, <1>d, <2>0, <3>3, <4>1, <4>2, <4>3
    <3>5. CASE n # d
      <4>1. delivery'[d] = delivery[d]
        BY <3>1, <3>5 DEF ClaimOf, Claimed, TypeOK
      <4>2. ~Sends(w, d)'
        BY <3>2, <3>5 DEF Sends
      <4> QED
        BY <1>c, <1>d, <1>e, <2>0, <3>3, <4>1, <4>2
    <3> QED
      BY <3>4, <3>5
  <2>2. CASE lane' = [lane EXCEPT ![w] = IdleLane] /\ UNCHANGED delivery
    <3>1. lane'[w].pc = "idle"
      BY <2>2 DEF TypeOK, IdleLane
    <3>2. ~Sends(w, d)' /\ ~Freezes(w)'
      BY <3>1 DEF Sends, Freezes
    <3> QED
      BY <1>c, <1>d, <1>e, <2>0, <2>2, <3>2
  <2> QED
    BY <1>2, <2>1, <2>2 DEF ClaimNextDelivery, Claimed
<1>3. CASE Send(w) \/ SendFails(w)
  <2>1. lane[w].pc = "claimed" /\ lane'[w].pc \in {"sent", "failed"} /\ UNCHANGED delivery
    BY <1>3 DEF Send, SendFails, TypeOK, Lane, rows
  <2>2. /\ ~Sends(w, d)' /\ ~Freezes(w) /\ ~Freezes(w)' /\ (Sends(w, d) <=> lane[w].row = d)
        /\ Lives(w, d) => lane[w].row = d
    BY <2>1 DEF Sends, Freezes, Lives
  <2>3. CASE Send(w)
    <3>1. accepted'[d] = IF lane[w].row = d THEN accepted[d] + 1 ELSE accepted[d]
      BY <2>3 DEF Send, Accept, TypeOK
    <3>2. \/ faults' = faults /\ (Lives(w, d) => Lives(w, d)')
          \/ faults' = faults + 1
      <4>1. (lane' = [lane EXCEPT ![w].pc = "sent"] /\ UNCHANGED faults) \/ faults' = faults + 1
        BY <2>3 DEF Send, Fault
      <4>2. lane' = [lane EXCEPT ![w].pc = "sent"] => (Lives(w, d) => Lives(w, d)')
        BY <1>c, <2>1 DEF Lives, TypeOK, Lane
      <4> QED
        BY <4>1, <4>2
    <3> QED
      BY <1>c, <1>d, <1>e, <2>1, <2>2, <3>1, <3>2
  <2>4. CASE SendFails(w)
    <3>1. accepted' = accepted /\ faults' = faults
      BY <2>4 DEF SendFails
    <3> QED
      BY <1>c, <1>d, <1>e, <2>1, <2>2, <3>1
  <2> QED
    BY <1>3, <2>3, <2>4
<1>4. CASE RecordDelivered(w) \/ RecordFailure(w)
  <2>1. /\ lane[w].pc \in {"sent", "failed"} /\ lane'[w].pc = "idle" /\ UNCHANGED <<accepted, faults>>
        /\ lane' = [lane EXCEPT ![w] = IdleLane]
    <3>1. lane' = [lane EXCEPT ![w] = IdleLane]
      BY <1>4 DEF RecordDelivered, RecordFailure, Settle
    <3>2. lane'[w].pc = "idle"
      BY <3>1 DEF TypeOK, IdleLane
    <3>3. lane[w].pc \in {"sent", "failed"} /\ UNCHANGED <<accepted, faults>>
      BY <1>4 DEF RecordDelivered, RecordFailure, ghosts
    <3> QED
      BY <3>1, <3>2, <3>3
  <2>2. ~Sends(w, d) /\ ~Sends(w, d)' /\ ~Freezes(w) /\ ~Freezes(w)'
    BY <2>1 DEF Sends, Freezes
  <2>3. Unpaid(d) => Unpaid(d)'
    <3>1. CASE d # lane[w].row
      <4>1. delivery'[d] = delivery[d]
        BY <1>4, <3>1 DEF RecordDelivered, RecordFailure, Settle, TypeOK
      <4> QED
        BY <1>e, <3>1, <4>1 DEF Lives
    <3>2. CASE d = lane[w].row /\ ~OwnedBy(w)
      <4>1. delivery' = delivery
        BY <1>4, <3>2 DEF RecordDelivered, RecordFailure, Settle
      <4>2. CASE delivery[d].status = "DELETED"
        BY <4>1, <4>2 DEF Unpaid
      <4>3. CASE delivery[d].lockedAt # lane[w].token
        BY <1>e, <4>1, <4>3 DEF Lives
      <4> QED
        BY <3>2, <4>2, <4>3 DEF OwnedBy
    <3>3. CASE d = lane[w].row /\ OwnedBy(w)
      <4>1. delivery[d].status = "PENDING" /\ delivery[d].lockedAt = lane[w].token
        BY <1>c, <3>3 DEF OwnedBy, ClaimsInv
      <4>2. CASE RecordDelivered(w)
        <5>1. delivery'[d].status = "DELIVERED"
          BY <1>c, <3>3, <4>2 DEF RecordDelivered, Settle, TypeOK, Delivery
        <5> QED
          BY <5>1 DEF Unpaid
      <4>3. CASE RecordFailure(w)
        <5>1. \A v \in Workers : ~Lives(v, d)
          BY <3>3, <4>1, <4>3 DEF Lives, ClaimsInv, Holding, RecordFailure
        <5> QED
          BY <4>1, <5>1 DEF Unpaid, Live
      <4> QED
        BY <1>4, <4>2, <4>3
    <3> QED
      BY <3>1, <3>2, <3>3
  <2> QED
    BY <1>c, <1>d, <2>1, <2>2, <2>3
<1>5. CASE Crash(w)
  <2>1. lane'[w].pc = "idle" /\ accepted' = accepted /\ faults' = faults + 1
    BY <1>5 DEF Crash, Fault, TypeOK, IdleLane, ghosts
  <2>2. ~Sends(w, d)' /\ ~Freezes(w)'
    BY <2>1 DEF Sends, Freezes
  <2> QED
    BY <1>c, <1>d, <2>1, <2>2
<1>6. CASE Stall(w)
  <2>1. /\ lane'[w] = [lane[w] EXCEPT !.slow = TRUE] /\ ~lane[w].slow
        /\ delivery' = delivery /\ accepted' = accepted /\ faults' = faults + 1
    BY <1>6 DEF Stall, Fault, TypeOK, ghosts, rows
  <2>2. lane'[w].pc = lane[w].pc /\ lane'[w].row = lane[w].row
    BY <2>1, SlowEffect
  <2>3. (Sends(w, d)' <=> Sends(w, d)) /\ ~Freezes(w) /\ (Freezes(w)' => lane[w].pc = "asked")
    BY <2>1, <2>2 DEF Sends, Freezes
  <2>4. lane[w].pc = "asked" => ~Lives(w, d)
    BY DEF Lives
  <2> QED
    BY <1>c, <1>d, <1>e, <2>1, <2>3, <2>4
<1> QED
  BY <1>1, <1>2, <1>3, <1>4, <1>5, <1>6 DEF Drain

LEMMA SendsStep ==
  ASSUME TypeOK, TypeOK', LanesInv, EventsInv, ClaimsInv, SendsInv, [Next]_vars
  PROVE  SendsInv'
<1>1. CASE \E w \in Workers : Drain(w)
  BY <1>1, SendsDrain
<1>2. CASE UNCHANGED <<lane, accepted, faults>>
  <2> SUFFICES ASSUME NEW d \in Deliveries
               PROVE  accepted'[d] + Cardinality(Unsent(d)') + Cardinality(Frozen')
                        <= faults' + (IF Unpaid(d)' THEN 1 ELSE 0)
    BY DEF SendsInv
  <2>1. Unsent(d)' = Unsent(d) /\ Frozen' = Frozen
    BY <1>2 DEF Unsent, Frozen, Sends, Freezes
  <2>2. RowStep(d) /\ delivery[d] \in Delivery
    BY NextSteps DEF Steps, TypeOK
  <2>3. \A w \in Workers : ~ClaimOf(w, d) /\ ~SettleOf(w, d)
    <3>1. \A w \in Workers : ClaimOf(w, d) => lane[w].pc = "asked" /\ lane'[w].pc = "claimed"
      BY ClaimEffect DEF ClaimOf
    <3>2. \A w \in Workers : SettleOf(w, d) => lane[w].pc # "idle" /\ lane'[w].pc = "idle"
      BY DEF SettleOf, IdleLane, TypeOK
    <3> QED
      BY <1>2, <3>1, <3>2
  <2>4. Unpaid(d) => Unpaid(d)'
    <3>1. CASE delivery'[d] = delivery[d]
      BY <1>2, <3>1 DEF Unpaid, Live, Lives
    <3>2. CASE delivery[d].status = "NONE"
      BY <3>2 DEF Unpaid
    <3>3. CASE delivery'[d] = [delivery[d] EXCEPT !.status = "DELETED"]
      BY <2>2, <3>3 DEF Unpaid, Delivery
    <3> QED
      BY <2>2, <2>3, <3>1, <3>2, <3>3 DEF RowStep
  <2>5. accepted[d] + Cardinality(Unsent(d)) + Cardinality(Frozen) <= faults + (IF Unpaid(d) THEN 1 ELSE 0)
    BY DEF SendsInv
  <2>6. Cardinality(Unsent(d)) \in Nat /\ Cardinality(Frozen) \in Nat /\ accepted[d] \in Nat /\ faults \in Nat
    <3>1. Unsent(d) \in SUBSET Workers /\ Frozen \in SUBSET Workers
      BY DEF Unsent, Frozen
    <3> QED
      BY <3>1, FS_Subset, FS_CardinalityType DEF TypeOK
  <2> QED
    BY <1>2, <2>1, <2>4, <2>5, <2>6
<1> QED
  BY <1>1, <1>2 DEF Next, vars, ghosts, CountWebhooks, CreateWebhook, SetWebhookEnabled, DeleteWebhook,
       ReadEndpoints, QueueWebhookEvent, PurgeSettledDeliveries, Tick
-----------------------------------------------------------------------------
(* The theorems of the deliveries. *)

LEMMA InitHolds == Init => IndInv
<1> SUFFICES ASSUME Init PROVE IndInv
  OBVIOUS
<1> USE Constants
<1>1. /\ NewDelivery.status = "NONE" /\ NewDelivery.attempts = 0 /\ NewDelivery.lockedAt = None
      /\ IdleLane.pc = "idle" /\ IdleLane.token = 0
  BY DEF NewDelivery, IdleLane
<1>2. TypeOK
  BY DEF Init, TypeOK
<1>3. LanesInv /\ EventsInv /\ ClaimsInv
  <2>1. \A d \in Deliveries : delivery[d] = NewDelivery
    BY DEF Init
  <2>2. \A w \in Workers : lane[w] = IdleLane
    BY DEF Init
  <2> QED
    BY <1>1, <2>1, <2>2 DEF Init, LanesInv, EventsInv, ClaimsInv, Holding
<1>4. CountsInv
  BY <1>1 DEF Init, CountsInv, Holding, SettledTruthfully
<1>5. SendsInv
  <2> SUFFICES ASSUME NEW d \in Deliveries
               PROVE  accepted[d] + Cardinality(Unsent(d)) + Cardinality(Frozen)
                        <= faults + (IF Unpaid(d) THEN 1 ELSE 0)
    BY DEF SendsInv
  <2>1. Frozen = {} /\ Unsent(d) = {}
    BY <1>1 DEF Init, Unsent, Frozen, Sends, Freezes
  <2>2. Cardinality({}) = 0
    BY FS_EmptySet
  <2>3. accepted[d] = 0 /\ faults = 0
    BY DEF Init
  <2> QED
    BY <2>1, <2>2, <2>3
<1> QED
  BY <1>2, <1>3, <1>4, <1>5 DEF IndInv

LEMMA IndInvStep == ASSUME IndInv, [Next]_vars PROVE IndInv'
<1>1. TypeOK /\ LanesInv /\ EventsInv /\ ClaimsInv /\ CountsInv /\ SendsInv
  BY DEF IndInv
<1>2. TypeOK' /\ Steps
  BY <1>1, TypeStep, NextSteps
<1> QED
  BY <1>1, <1>2, LanesStep, EventsStep, ClaimsStep, CountsStep, SendsStep DEF IndInv

\* The inductive invariant holds in every reachable state.
THEOREM Invariance == Spec => []IndInv
BY InitHolds, IndInvStep, PTL DEF Spec

\* Every variable of the deliveries keeps its type.
THEOREM TypeCorrect == Spec => []TypeOK
BY Invariance, PTL DEF IndInv

LEMMA SentOnceOrPaid == IndInv => NoDoubleSend /\ SettledTruthfully
<1> SUFFICES ASSUME IndInv PROVE NoDoubleSend /\ SettledTruthfully
  OBVIOUS
<1>1. SettledTruthfully
  BY DEF IndInv, CountsInv
<1>2. ASSUME NEW d \in Deliveries PROVE accepted[d] <= 1 + faults
  <2>1. accepted[d] + Cardinality(Unsent(d)) + Cardinality(Frozen) <= faults + (IF Unpaid(d) THEN 1 ELSE 0)
    BY DEF IndInv, SendsInv
  <2>2. Unsent(d) \in SUBSET Workers /\ Frozen \in SUBSET Workers
    BY DEF Unsent, Frozen
  <2>3. Cardinality(Unsent(d)) \in Nat /\ Cardinality(Frozen) \in Nat
    BY <2>2, FS_Subset, FS_CardinalityType
  <2>4. accepted[d] \in Nat /\ faults \in Nat
    BY DEF IndInv, TypeOK
  <2> QED
    BY <2>1, <2>3, <2>4
<1> QED
  BY <1>1, <1>2 DEF NoDoubleSend


\* A row's step is a step of the abstract queue.
LEMMA QueueSteps ==
  ASSUME IndInv, IndInv', [Next]_vars
  PROVE  Queue!Next
<1>0. /\ TypeOK /\ LanesInv /\ EventsInv /\ ClaimsInv /\ CountsInv
      /\ TypeOK' /\ ClaimsInv' /\ CountsInv'
  BY DEF IndInv
<1>1. \A d \in Deliveries : /\ delivery[d] \in Delivery /\ delivery'[d] \in Delivery
                            /\ delivery[d].attempts \in Nat /\ delivery'[d].attempts \in Nat
  BY <1>0 DEF TypeOK, Delivery
<1>2. \A d \in Deliveries : /\ QueueState(d) \in {"absent", "waiting", "working", "done"}
                            /\ QueueState(d)' \in {"absent", "waiting", "working", "done"}
  BY DEF QueueState
<1>4. ASSUME NEW d \in Deliveries
      PROVE  /\ delivery[d].status = "NONE" => QueueState(d) = "absent"
             /\ delivery[d].status = "PENDING" /\ delivery[d].lockedAt = None => QueueState(d) = "waiting"
             /\ delivery[d].status = "PENDING" /\ delivery[d].lockedAt # None => QueueState(d) = "working"
             /\ delivery[d].status \in {"DELIVERED", "FAILED", "DELETED"} => QueueState(d) = "done"
  <2>1. delivery[d].status = "NONE" => QueueState(d) = "absent"
    BY DEF QueueState
  <2>2. delivery[d].status = "PENDING" /\ delivery[d].lockedAt = None => QueueState(d) = "waiting"
    BY DEF QueueState
  <2>3. delivery[d].status = "PENDING" /\ delivery[d].lockedAt # None => QueueState(d) = "working"
    BY DEF QueueState
  <2>4. delivery[d].status \in {"DELIVERED", "FAILED", "DELETED"} => QueueState(d) = "done"
    BY DEF QueueState
  <2> QED
    BY <2>1, <2>2, <2>3, <2>4
<1>5. ASSUME NEW d \in Deliveries
      PROVE  /\ delivery'[d].status = "PENDING" /\ delivery'[d].lockedAt = None => QueueState(d)' = "waiting"
             /\ delivery'[d].status = "PENDING" /\ delivery'[d].lockedAt # None => QueueState(d)' = "working"
             /\ delivery'[d].status \in {"DELIVERED", "FAILED", "DELETED"} => QueueState(d)' = "done"
  <2>1. delivery'[d].status = "PENDING" /\ delivery'[d].lockedAt = None => QueueState(d)' = "waiting"
    BY DEF QueueState
  <2>2. delivery'[d].status = "PENDING" /\ delivery'[d].lockedAt # None => QueueState(d)' = "working"
    BY DEF QueueState
  <2>3. delivery'[d].status \in {"DELIVERED", "FAILED", "DELETED"} => QueueState(d)' = "done"
    BY DEF QueueState
  <2> QED
    BY <2>1, <2>2, <2>3
<1>3. ASSUME NEW d \in Deliveries
      PROVE  \/ Queue!Put(d) \/ Queue!Take(d) \/ Queue!Return(d)
             \/ Queue!Finish(d) \/ Queue!Withdraw(d) \/ Queue!Stay(d)
  <2>0. RowStep(d)
    BY <1>0, NextSteps DEF Steps
  <2>1. /\ delivery[d].status = "PENDING" => delivery[d].attempts < MaxWebhookAttempts
        /\ delivery'[d].status = "PENDING" => delivery'[d].attempts < MaxWebhookAttempts
    BY <1>0 DEF CountsInv
  <2>2. CASE delivery'[d] = delivery[d]
    <3>1. Queue!Stay(d)
      BY <2>2 DEF Queue!Stay, QueueState
    <3> QED
      BY <3>1
  <2>3. CASE /\ delivery[d].status = "NONE" /\ delivery'[d].status = "PENDING"
             /\ delivery'[d].lockedAt = None /\ delivery'[d].attempts = 0
    <3>1. Queue!Put(d)
      BY <1>4, <1>5, <2>3 DEF Queue!Put
    <3> QED
      BY <3>1
  <2>4. CASE delivery[d].status # "NONE" /\ delivery'[d] = [delivery[d] EXCEPT !.status = "DELETED"]
    <3>1. /\ delivery'[d].status = "DELETED" /\ delivery'[d].attempts = delivery[d].attempts
          /\ delivery'[d].lockedAt = delivery[d].lockedAt
      BY <1>1, <2>4 DEF Delivery
    <3>2. Queue!Finish(d) \/ Queue!Withdraw(d) \/ Queue!Stay(d)
      BY <1>1, <2>4, <3>1 DEF Queue!Finish, Queue!Withdraw, Queue!Stay, QueueState, Delivery
    <3> QED
      BY <3>2
  <2>5. ASSUME NEW w \in Workers, ClaimOf(w, d) PROVE Queue!Take(d) \/ Queue!Stay(d)
    <3>1. /\ delivery[d].status = "PENDING" /\ delivery'[d].status = "PENDING"
          /\ delivery'[d].lockedAt # None /\ delivery'[d].attempts = delivery[d].attempts
      BY <1>0, <2>5, ClaimEffect
    <3> QED
      BY <1>1, <1>4, <1>5, <2>1, <3>1 DEF Queue!Take, Queue!Stay
  <2>6. ASSUME NEW w \in Workers, SettleOf(w, d) PROVE Queue!Finish(d) \/ Queue!Return(d)
    <3>1. /\ delivery[d].status = "PENDING" /\ delivery[d].lockedAt # None /\ delivery'[d].lockedAt = None
          /\ lane[w].pc \in Holding /\ lane[w].row = d /\ OwnedBy(w)
      BY <1>0, <2>6, SettleEffect DEF SettleOf
    <3>2. delivery'[d].attempts = delivery[d].attempts + 1
      BY <1>0, <2>6, <3>1 DEF SettleOf, CountsInv
    <3>3. delivery'[d].status \in {"DELIVERED", "FAILED", "PENDING"}
      BY <2>6, <3>1 DEF SettleOf
    <3> QED
      BY <1>1, <1>4, <1>5, <2>1, <3>1, <3>2, <3>3 DEF Queue!Finish, Queue!Return
  <2> QED
    BY <2>0, <2>2, <2>3, <2>4, <2>5, <2>6 DEF RowStep
<1> QED
  BY <1>1, <1>2, <1>3 DEF Queue!Next

\* Deliveries are a work queue: a claim is the attempt, one that is taken over is
\* no new attempt, and what is settled or deleted is not sent or counted again,
\* however drains overlap, die or lose their claims.
THEOREM DeliveriesImplementWorkQueue == Spec => ImplementsWorkQueue
<1>1. Init => Queue!Init
  BY DEF Init, NewDelivery, Queue!Init, QueueState
<1>2. IndInv /\ IndInv' /\ [Next]_vars => [Queue!Next]_(Queue!vars)
  BY QueueSteps
<1> QED
  BY <1>1, <1>2, Invariance, PTL DEF Spec, ImplementsWorkQueue, Queue!Spec
-----------------------------------------------------------------------------
(* The emails, as EmailOutbox has them under the name Outbox. *)

USE InstanceAssumption DEF Outbox!BoundsAssumption, Outbox!DataAssumption

HoldingMail == {"claimed", "live", "sending", "settling", "failed"}
Holds(w, m) == mailLane[w].pc \in HoldingMail /\ mailLane[w].msg = m

\* A lane with a message has one that was queued, and settles it with an outcome.
MailLanesInv == \A w \in Workers :
  /\ mailLane[w].pc \in HoldingMail =>
       mailLane[w].msg \in Messages /\ msg[mailLane[w].msg].status # "NONE"
  /\ mailLane[w].pc = "settling" => mailLane[w].outcome \in Outbox!Outcomes

\* A receipt is kept for settled messages only, which no event queues again.
MailRowsInv == \A m \in Messages :
  /\ msg[m].status = "NONE" => msg[m].attempts = 0
  /\ msg[m].hasProviderId \/ msg[m].sentAt # None => msg[m].status \in Outbox!Terminal \cup {"PRUNED"}

\* Every claim allows one hand-over.
Tries(w, m) == mailLane[w].pc \in {"claimed", "live", "sending"} /\ mailLane[w].msg = m
Untried(m) == {w \in Workers : Tries(w, m)}
MailCountsInv == \A m \in Messages : handedOver[m] + Cardinality(Untried(m)) <= msg[m].attempts

\* Unless its send was given up for lost, a message is with one lane at most; once
\* handed over it is never queued, and a lane that still has it can only settle it.
MailOnce(m) ==
  /\ \A w \in Workers : Holds(w, m) => /\ msg[m].status = "SENDING"
                                       /\ handedOver[m] > 0 => mailLane[w].pc = "settling"
  /\ \A v, w \in Workers : Holds(v, m) /\ Holds(w, m) => v = w
  /\ handedOver[m] <= 1
  /\ handedOver[m] > 0 => msg[m].status \notin {"NONE", "QUEUED"}
MailOnceInv == \A m \in Messages : m \notin lost => MailOnce(m)

MailInv == Outbox!TypeOK /\ MailLanesInv /\ MailRowsInv /\ MailCountsInv /\ MailOnceInv

\* What one step does: only one lane moves, and with it at most one message.
Rest(w) == \A v \in Workers : v # w => mailLane'[v] = mailLane[v]
RestOf(m) == \A n \in Messages : n # m => msg'[n] = msg[n]
SameReceipt(m) == msg'[m].hasProviderId = msg[m].hasProviderId /\ msg'[m].sentAt = msg[m].sentAt

\* Messages are queued, given up for lost, pruned or reported on.
QuietRow(m) ==
  \/ msg'[m] = msg[m]
  \/ /\ msg[m].status = "NONE" /\ msg'[m].status = "QUEUED"
     /\ ~msg'[m].hasProviderId /\ msg'[m].sentAt = None
  \/ /\ msg[m].status = "SENDING" /\ msg'[m].status \in {"QUEUED", "FAILED"} /\ m \in lost'
     /\ msg'[m].attempts = msg[m].attempts /\ SameReceipt(m)
  \/ /\ msg[m].status \in Outbox!Terminal \cup {"PRUNED"}
     /\ msg'[m].status \in Outbox!Terminal \cup {"PRUNED"} /\ msg'[m].attempts = msg[m].attempts
Quiet == /\ mailLane' = mailLane /\ handedOver' = handedOver /\ lost \subseteq lost'
         /\ \A m \in Messages : QuietRow(m)

LetsGo(w) == Rest(w) /\ mailLane'[w].pc \notin HoldingMail /\ UNCHANGED <<msg, handedOver, lost>>

Takes(w, m) ==
  /\ Rest(w) /\ RestOf(m) /\ UNCHANGED <<handedOver, lost>>
  /\ mailLane[w].pc = "asked" /\ mailLane'[w].pc = "claimed" /\ mailLane'[w].msg = m
  /\ msg[m].status = "QUEUED" /\ msg'[m].status = "SENDING"
  /\ msg'[m].attempts = msg[m].attempts + 1 /\ SameReceipt(m)

Moves(w) ==
  /\ Rest(w) /\ UNCHANGED <<msg, handedOver>> /\ lost \subseteq lost'
  /\ mailLane[w].pc \in HoldingMail /\ mailLane'[w].pc \in HoldingMail
  /\ mailLane'[w].msg = mailLane[w].msg
  /\ mailLane'[w].pc = "settling" => mailLane'[w].outcome \in Outbox!Outcomes
  /\ mailLane[w].pc \in {"settling", "failed"} => mailLane'[w].pc \in {"settling", "failed"}
  /\ mailLane[w].pc = "settling" => mailLane[w].msg \in lost'

Hands(w) ==
  /\ Rest(w) /\ UNCHANGED msg /\ lost \subseteq lost'
  /\ mailLane[w].pc = "sending" /\ mailLane'[w].msg = mailLane[w].msg
  /\ handedOver' = [handedOver EXCEPT ![mailLane[w].msg] = @ + 1]
  /\ \/ mailLane'[w].pc = "settling" /\ mailLane'[w].outcome \in Outbox!Outcomes
     \/ mailLane'[w].pc = "failed" /\ mailLane[w].msg \in lost'

Ends(w, m) ==
  /\ Rest(w) /\ RestOf(m) /\ UNCHANGED <<handedOver, lost>>
  /\ mailLane[w].pc \in {"settling", "failed"} /\ mailLane[w].msg = m
  /\ mailLane'[w].pc = "idle"
  /\ msg[m].status = "SENDING" /\ msg'[m].attempts = msg[m].attempts
  /\ \/ msg'[m].status \in Outbox!Outcomes
     \/ msg'[m].status = "QUEUED" /\ mailLane[w].pc = "failed" /\ SameReceipt(m)

MailStep ==
  \/ Quiet
  \/ \E w \in Workers : LetsGo(w) \/ Moves(w) \/ Hands(w)
  \/ \E w \in Workers, m \in Messages : Takes(w, m) \/ Ends(w, m)

LEMMA MailConstants == Outbox!NewMessage \in Outbox!Message /\ Outbox!IdleLane \in Outbox!Lane
BY DEF Outbox!NewMessage, Outbox!Message, Outbox!IdleLane, Outbox!Lane, Outbox!Pending, Outbox!Terminal,
       Outbox!Outcomes

\* The messages' own steps keep the types and no lane notices them.
LEMMA QuietSteps ==
  ASSUME Outbox!TypeOK, MailRowsInv,
         \/ \E m \in Messages : Outbox!EnqueueEmail(m) \/ Outbox!ApplyEmailEvent(m)
         \/ Outbox!RecoverStaleEmails \/ Outbox!PruneEmails \/ Outbox!Tick
  PROVE  Outbox!TypeOK' /\ Quiet
<1>0. \A m \in Messages : msg[m] \in Outbox!Message
  BY DEF Outbox!TypeOK
<1>1. ASSUME NEW m \in Messages, Outbox!EnqueueEmail(m) PROVE Outbox!TypeOK' /\ Quiet
  <2> DEFINE q == [Outbox!NewMessage EXCEPT !.status = "QUEUED", !.nextAttemptAt = mailClock,
                     !.createdAt = mailClock, !.expiresAt = mailClock + Lifetime, !.payload = TRUE]
  <2>1. q \in Outbox!Message /\ q.status = "QUEUED" /\ ~q.hasProviderId /\ q.sentAt = None
    <3>1. mailClock \in Nat /\ mailClock + Lifetime \in Nat
      BY DEF Outbox!TypeOK
    <3>2. q \in Outbox!Message
      BY <3>1, MailConstants DEF Outbox!Message, Outbox!Pending
    <3>3. q.status = "QUEUED" /\ ~q.hasProviderId /\ q.sentAt = None
      BY DEF Outbox!NewMessage
    <3> QED
      BY <3>2, <3>3
  <2>2. msg' = [msg EXCEPT ![m] = q] /\ msg[m].status = "NONE"
        /\ UNCHANGED <<mailClock, suppressed, mailLane, handedOver, lost, mailFaults>>
    BY <1>1 DEF Outbox!EnqueueEmail
  <2> HIDE DEF q
  <2>3. Outbox!TypeOK'
    BY <2>1, <2>2 DEF Outbox!TypeOK
  <2>4. \A n \in Messages : QuietRow(n)
    BY <2>1, <2>2 DEF QuietRow, Outbox!TypeOK
  <2> QED
    BY <2>2, <2>3, <2>4 DEF Quiet
<1>2. ASSUME NEW m \in Messages, Outbox!ApplyEmailEvent(m) PROVE Outbox!TypeOK' /\ Quiet
  <2>1. /\ UNCHANGED <<mailClock, mailLane, handedOver, lost>>
        /\ suppressed' \subseteq Addresses
        /\ mailFaults' \in 0..MaxFaults
        /\ \/ msg' = msg
           \/ \E created \in Int, status \in {"BOUNCED", "COMPLAINED"} :
                \E n \in Outbox!EventMessages(m, created) : msg' = [msg EXCEPT ![n].status = status]
    BY <1>2 DEF Outbox!ApplyEmailEvent, Outbox!TypeOK, Outbox!Fault
  <2>2. CASE msg' = msg
    BY <2>1, <2>2 DEF Outbox!TypeOK, Quiet, QuietRow
  <2>3. CASE msg' # msg
    <3>1. PICK created \in Int, status \in {"BOUNCED", "COMPLAINED"} :
            \E n \in Outbox!EventMessages(m, created) : msg' = [msg EXCEPT ![n].status = status]
      BY <2>1, <2>3
    <3>2. PICK n \in Outbox!EventMessages(m, created) : msg' = [msg EXCEPT ![n].status = status]
      BY <3>1
    <3>3. n \in Messages /\ (msg[n].hasProviderId \/ msg[n].sentAt # None)
      BY <3>2 DEF Outbox!EventMessages
    <3>4. msg[n].status \in Outbox!Terminal \cup {"PRUNED"}
      BY <3>3 DEF MailRowsInv
    <3>5. [msg[n] EXCEPT !.status = status] \in Outbox!Message
      BY <1>0, <3>3 DEF Outbox!Message, Outbox!Terminal
    <3>6. msg'[n].status = status /\ msg'[n].attempts = msg[n].attempts /\ RestOf(n)
      BY <1>0, <3>2, <3>3 DEF Outbox!TypeOK, Outbox!Message, RestOf
    <3>7. Outbox!TypeOK'
      BY <2>1, <3>2, <3>5 DEF Outbox!TypeOK
    <3>8. \A k \in Messages : QuietRow(k)
      BY <3>4, <3>6 DEF QuietRow, RestOf, Outbox!Terminal
    <3> QED
      BY <2>1, <3>7, <3>8 DEF Quiet
  <2> QED
    BY <2>2, <2>3
<1>3. ASSUME Outbox!RecoverStaleEmails PROVE Outbox!TypeOK' /\ Quiet
  <2>1. \A m \in Messages :
          /\ [msg[m] EXCEPT !.status = "QUEUED", !.lockedAt = None, !.nextAttemptAt = mailClock] \in Outbox!Message
          /\ [msg[m] EXCEPT !.status = "FAILED", !.lockedAt = None, !.payload = FALSE] \in Outbox!Message
    <3> TAKE m \in Messages
    <3>1. mailClock \in Nat /\ msg[m] \in Outbox!Message
      BY <1>0 DEF Outbox!TypeOK
    <3>2. [msg[m] EXCEPT !.status = "QUEUED", !.lockedAt = None, !.nextAttemptAt = mailClock] \in Outbox!Message
      BY <3>1 DEF Outbox!Message, Outbox!Pending
    <3>3. [msg[m] EXCEPT !.status = "FAILED", !.lockedAt = None, !.payload = FALSE] \in Outbox!Message
      BY <3>1 DEF Outbox!Message, Outbox!Terminal
    <3> QED
      BY <3>2, <3>3
  <2>2. msg' \in [Messages -> Outbox!Message]
    BY <1>0, <1>3, <2>1 DEF Outbox!RecoverStaleEmails
  <2>3. UNCHANGED <<mailClock, suppressed, mailLane, handedOver, mailFaults>> /\ lost' = lost \cup Outbox!Stale
        /\ Outbox!Stale \subseteq Messages
    BY <1>3 DEF Outbox!RecoverStaleEmails, Outbox!Stale
  <2>4. ASSUME NEW m \in Messages PROVE QuietRow(m)
    <3>1. CASE m \notin Outbox!Stale
      BY <1>3, <3>1 DEF Outbox!RecoverStaleEmails, QuietRow
    <3>2. CASE m \in Outbox!Stale
      <4>1. \/ msg'[m] = [msg[m] EXCEPT !.status = "QUEUED", !.lockedAt = None, !.nextAttemptAt = mailClock]
            \/ msg'[m] = [msg[m] EXCEPT !.status = "FAILED", !.lockedAt = None, !.payload = FALSE]
        BY <1>3, <3>2 DEF Outbox!RecoverStaleEmails
      <4>2. msg'[m].status \in {"QUEUED", "FAILED"} /\ msg'[m].attempts = msg[m].attempts /\ SameReceipt(m)
        BY <1>0, <4>1 DEF Outbox!Message, SameReceipt
      <4>3. msg[m].status = "SENDING" /\ m \in lost'
        BY <2>3, <3>2 DEF Outbox!Stale
      <4> QED
        BY <4>2, <4>3 DEF QuietRow
    <3> QED
      BY <3>1, <3>2
  <2> QED
    BY <2>2, <2>3, <2>4 DEF Outbox!TypeOK, Quiet
<1>4. ASSUME Outbox!PruneEmails PROVE Outbox!TypeOK' /\ Quiet
  <2>1. \A m \in Messages : [msg[m] EXCEPT !.status = "PRUNED"] \in Outbox!Message
    BY <1>0 DEF Outbox!Message
  <2>2. msg' \in [Messages -> Outbox!Message]
    BY <1>0, <1>4, <2>1 DEF Outbox!PruneEmails
  <2>3. UNCHANGED <<mailClock, suppressed, mailLane, handedOver, lost, mailFaults>>
    BY <1>4 DEF Outbox!PruneEmails
  <2>4. ASSUME NEW m \in Messages PROVE QuietRow(m)
    <3>1. \/ msg'[m] = msg[m]
          \/ msg'[m] = [msg[m] EXCEPT !.status = "PRUNED"] /\ msg[m].status \in Outbox!Terminal
      BY <1>4 DEF Outbox!PruneEmails, Outbox!Prunable
    <3> QED
      BY <1>0, <3>1 DEF QuietRow, Outbox!Message
  <2> QED
    BY <2>2, <2>3, <2>4 DEF Outbox!TypeOK, Quiet
<1>5. ASSUME Outbox!Tick PROVE Outbox!TypeOK' /\ Quiet
  BY <1>5 DEF Outbox!Tick, Outbox!TypeOK, Quiet, QuietRow
<1> QED
  BY <1>1, <1>2, <1>3, <1>4, <1>5

LEMMA MailFault == ASSUME Outbox!TypeOK, Outbox!Fault PROVE mailFaults' \in 0..MaxFaults
BY DEF Outbox!TypeOK, Outbox!Fault

\* A lane's steps keep the types and are of the five kinds.
LEMMA SendSteps ==
  ASSUME Outbox!TypeOK, MailLanesInv, NEW w \in Workers, Outbox!Send(w)
  PROVE  Outbox!TypeOK' /\ MailStep
<1>0. /\ mailLane[w] \in Outbox!Lane /\ mailLane \in [Workers -> Outbox!Lane]
      /\ msg \in [Messages -> Outbox!Message] /\ \A m \in Messages : msg[m] \in Outbox!Message
      /\ mailClock \in Nat /\ mailLane[w].token \in Nat
  BY DEF Outbox!TypeOK, Outbox!Lane
<1>a. mailLane[w].pc \in HoldingMail => mailLane[w].msg \in Messages
  BY DEF MailLanesInv
<1>b. ASSUME Outbox!GoIdle(w)
      PROVE  mailLane' \in [Workers -> Outbox!Lane] /\ Rest(w) /\ mailLane'[w].pc = "idle"
  BY <1>0, <1>b, MailConstants DEF Outbox!GoIdle, Outbox!IdleLane, Rest
<1>c. ASSUME NEW pc \in {"live", "sending", "failed"}, Outbox!Step(w, pc)
      PROVE  /\ mailLane' \in [Workers -> Outbox!Lane] /\ Rest(w)
             /\ mailLane'[w].pc = pc /\ mailLane'[w].msg = mailLane[w].msg
  <2>1. [mailLane[w] EXCEPT !.pc = pc] \in Outbox!Lane
    BY <1>0 DEF Outbox!Lane
  <2>2. mailLane' = [mailLane EXCEPT ![w] = [mailLane[w] EXCEPT !.pc = pc]]
    BY <1>c DEF Outbox!Step
  <2> QED
    BY <1>0, <2>1, <2>2 DEF Rest, Outbox!Lane
<1>d. ASSUME NEW outcome \in Outbox!Outcomes, Outbox!SettleAs(w, outcome)
      PROVE  /\ mailLane' \in [Workers -> Outbox!Lane] /\ Rest(w)
             /\ mailLane'[w].pc = "settling" /\ mailLane'[w].msg = mailLane[w].msg
             /\ mailLane'[w].outcome = outcome
  <2>1. [mailLane[w] EXCEPT !.pc = "settling", !.outcome = outcome] \in Outbox!Lane
    BY <1>0 DEF Outbox!Lane
  <2>2. mailLane' = [mailLane EXCEPT ![w] = [mailLane[w] EXCEPT !.pc = "settling", !.outcome = outcome]]
    BY <1>d DEF Outbox!SettleAs
  <2> QED
    BY <1>0, <2>1, <2>2 DEF Rest, Outbox!Lane
<1>e. {"SENT", "FAILED", "EXPIRED", "SUPPRESSED"} = Outbox!Outcomes
  BY DEF Outbox!Outcomes
<1>1. CASE Outbox!ClaimStart(w)
  <2>1. [Outbox!IdleLane EXCEPT !.pc = "asked", !.token = mailClock] \in Outbox!Lane
    BY <1>0, MailConstants DEF Outbox!Lane
  <2>2. mailLane' = [mailLane EXCEPT ![w] = [Outbox!IdleLane EXCEPT !.pc = "asked", !.token = mailClock]]
        /\ UNCHANGED <<mailClock, msg, suppressed, handedOver, lost, mailFaults>>
    BY <1>1 DEF Outbox!ClaimStart
  <2>3. mailLane'[w].pc = "asked" /\ Rest(w) /\ mailLane' \in [Workers -> Outbox!Lane]
    BY <1>0, <2>1, <2>2 DEF Rest, Outbox!IdleLane
  <2> QED
    BY <2>2, <2>3 DEF Outbox!TypeOK, MailStep, LetsGo, HoldingMail
<1>2. CASE Outbox!ClaimNextEmail(w)
  <2>0. UNCHANGED <<mailClock, suppressed, handedOver, lost, mailFaults>> /\ mailLane[w].pc = "asked"
    BY <1>2 DEF Outbox!ClaimNextEmail
  <2>1. CASE Outbox!GoIdle(w) /\ UNCHANGED msg
    BY <1>b, <2>0, <2>1 DEF Outbox!TypeOK, MailStep, LetsGo, HoldingMail
  <2>2. CASE \E m \in Outbox!Due(mailLane[w].token) :
               /\ msg' = [msg EXCEPT ![m].status = "SENDING", ![m].lockedAt = mailLane[w].token,
                                     ![m].attempts = @ + 1]
               /\ mailLane' = [mailLane EXCEPT ![w].pc = "claimed", ![w].msg = m,
                                               ![w].attempts = msg[m].attempts + 1,
                                               ![w].expiresAt = msg[m].expiresAt]
    <3>1. PICK m \in Messages :
               /\ msg[m].status = "QUEUED"
               /\ msg' = [msg EXCEPT ![m].status = "SENDING", ![m].lockedAt = mailLane[w].token,
                                     ![m].attempts = @ + 1]
               /\ mailLane' = [mailLane EXCEPT ![w].pc = "claimed", ![w].msg = m,
                                               ![w].attempts = msg[m].attempts + 1,
                                               ![w].expiresAt = msg[m].expiresAt]
      BY <2>2 DEF Outbox!Due
    <3>2. msg[m].attempts + 1 \in Nat /\ msg[m].expiresAt \in Nat
      BY <1>0 DEF Outbox!Message
    <3> DEFINE q == [msg[m] EXCEPT !.status = "SENDING", !.lockedAt = mailLane[w].token,
                                   !.attempts = msg[m].attempts + 1]
               l == [mailLane[w] EXCEPT !.pc = "claimed", !.msg = m, !.attempts = msg[m].attempts + 1,
                                        !.expiresAt = msg[m].expiresAt]
    <3>3. q \in Outbox!Message
      BY <1>0, <3>2, ZenonT(60) DEF Outbox!Message, Outbox!Pending
    <3>4. l \in Outbox!Lane
      BY <1>0, <3>2 DEF Outbox!Lane
    <3>5. q.status = "SENDING" /\ q.attempts = msg[m].attempts + 1
          /\ q.hasProviderId = msg[m].hasProviderId /\ q.sentAt = msg[m].sentAt
      BY <1>0 DEF Outbox!Message
    <3>6. l.pc = "claimed" /\ l.msg = m
      BY <1>0 DEF Outbox!Lane
    <3>7. msg'[m] = q /\ RestOf(m) /\ msg' \in [Messages -> Outbox!Message]
      <4>1. msg'[m] = q
        BY <1>0, <3>1
      <4>2. RestOf(m)
        BY <1>0, <3>1 DEF RestOf
      <4>3. msg' \in [Messages -> Outbox!Message]
        BY <1>0, <3>1, <3>3
      <4> QED
        BY <4>1, <4>2, <4>3
    <3>8. mailLane'[w] = l /\ Rest(w) /\ mailLane' \in [Workers -> Outbox!Lane]
      <4>1. mailLane'[w] = l
        BY <1>0, <3>1
      <4>2. Rest(w)
        BY <1>0, <3>1 DEF Rest
      <4>3. mailLane' \in [Workers -> Outbox!Lane]
        BY <1>0, <3>1, <3>4
      <4> QED
        BY <4>1, <4>2, <4>3
    <3> HIDE DEF q, l
    <3>9. Takes(w, m)
      BY <2>0, <3>1, <3>5, <3>6, <3>7, <3>8 DEF Takes, SameReceipt
    <3> QED
      BY <2>0, <3>7, <3>8, <3>9 DEF Outbox!TypeOK, MailStep
  <2> QED
    BY <1>2, <2>1, <2>2 DEF Outbox!ClaimNextEmail
<1>3. CASE Outbox!CheckExpiry(w) \/ Outbox!CheckSuppressed(w)
  <2>1. /\ UNCHANGED <<mailClock, msg, suppressed, handedOver, lost, mailFaults>>
        /\ mailLane[w].pc \in {"claimed", "live"}
        /\ \/ \E pc \in {"live", "sending", "failed"} : Outbox!Step(w, pc)
           \/ \E outcome \in Outbox!Outcomes : Outbox!SettleAs(w, outcome)
    BY <1>3, <1>e DEF Outbox!CheckExpiry, Outbox!CheckSuppressed
  <2>2. /\ mailLane' \in [Workers -> Outbox!Lane] /\ Rest(w) /\ mailLane'[w].msg = mailLane[w].msg
        /\ \/ mailLane'[w].pc \in {"live", "sending", "failed"}
           \/ mailLane'[w].pc = "settling" /\ mailLane'[w].outcome \in Outbox!Outcomes
    BY <1>c, <1>d, <2>1
  <2>3. Moves(w)
    BY <2>1, <2>2 DEF Moves, HoldingMail
  <2> QED
    BY <2>1, <2>2, <2>3 DEF Outbox!TypeOK, MailStep
<1>4. CASE Outbox!DeliverEmail(w)
  <2>1. /\ UNCHANGED <<mailClock, msg, suppressed>> /\ mailLane[w].pc = "sending"
        /\ handedOver' = [handedOver EXCEPT ![mailLane[w].msg] = @ + 1]
        /\ mailLane[w].msg \in Messages
    BY <1>4, <1>a DEF Outbox!DeliverEmail, HoldingMail
  <2>2. handedOver' \in [Messages -> Nat]
    BY <2>1 DEF Outbox!TypeOK
  <2>3. CASE Outbox!SettleAs(w, "SENT") /\ UNCHANGED <<lost, mailFaults>>
    <3>1. /\ mailLane' \in [Workers -> Outbox!Lane] /\ Rest(w) /\ mailLane'[w].pc = "settling"
          /\ mailLane'[w].msg = mailLane[w].msg /\ mailLane'[w].outcome \in Outbox!Outcomes
      BY <1>d, <1>e, <2>3
    <3>2. Hands(w)
      BY <2>1, <2>3, <3>1 DEF Hands
    <3> QED
      BY <2>1, <2>2, <2>3, <3>1, <3>2 DEF Outbox!TypeOK, MailStep
  <2>4. CASE Outbox!Step(w, "failed") /\ lost' = lost \cup {mailLane[w].msg} /\ Outbox!Fault
    <3>1. /\ mailLane' \in [Workers -> Outbox!Lane] /\ Rest(w) /\ mailLane'[w].pc = "failed"
          /\ mailLane'[w].msg = mailLane[w].msg
      BY <1>c, <2>4
    <3>2. Hands(w)
      BY <2>1, <2>4, <3>1 DEF Hands
    <3> QED
      BY <2>1, <2>2, <2>4, <3>1, <3>2, MailFault DEF Outbox!TypeOK, MailStep
  <2> QED
    BY <1>4, <2>3, <2>4 DEF Outbox!DeliverEmail
<1>5. CASE Outbox!DeliveryError(w)
  <2>1. /\ UNCHANGED <<mailClock, msg, suppressed, handedOver, lost, mailFaults>>
        /\ mailLane[w].pc = "sending"
        /\ Outbox!Step(w, "failed") \/ Outbox!SettleAs(w, "FAILED")
    BY <1>5 DEF Outbox!DeliveryError
  <2>2. /\ mailLane' \in [Workers -> Outbox!Lane] /\ Rest(w) /\ mailLane'[w].msg = mailLane[w].msg
        /\ \/ mailLane'[w].pc = "failed"
           \/ mailLane'[w].pc = "settling" /\ mailLane'[w].outcome \in Outbox!Outcomes
    BY <1>c, <1>d, <1>e, <2>1
  <2>3. Moves(w)
    BY <2>1, <2>2 DEF Moves, HoldingMail
  <2> QED
    BY <2>1, <2>2, <2>3 DEF Outbox!TypeOK, MailStep
<1>6. CASE Outbox!Settle(w)
  <2>1. /\ UNCHANGED <<mailClock, suppressed, handedOver, lost, mailFaults>>
        /\ mailLane[w].pc = "settling" /\ Outbox!GoIdle(w)
    BY <1>6 DEF Outbox!Settle
  <2>2. CASE ~Outbox!OwnedBy(w)
    <3>1. msg' = msg
      BY <1>6, <2>2 DEF Outbox!Settle
    <3> QED
      BY <1>b, <2>1, <3>1 DEF Outbox!TypeOK, MailStep, LetsGo, HoldingMail
  <2>3. CASE Outbox!OwnedBy(w)
    <3>1. PICK m \in Messages : m = mailLane[w].msg
      BY <1>a, <2>1 DEF HoldingMail
    <3>2. mailLane[w].outcome \in Outbox!Outcomes /\ msg[m].status = "SENDING"
      BY <2>1, <2>3, <3>1 DEF MailLanesInv, Outbox!OwnedBy
    <3> DEFINE settled == [msg[m] EXCEPT !.status = mailLane[w].outcome, !.lockedAt = None, !.payload = FALSE]
    <3>3. /\ settled \in Outbox!Message /\ settled.status = mailLane[w].outcome
          /\ settled.attempts = msg[m].attempts
      BY <1>0, <3>2, ZenonT(60) DEF Outbox!Message, Outbox!Outcomes, Outbox!Terminal
    <3>4. \/ msg' = [msg EXCEPT ![m] = settled]
          \/ \E known \in BOOLEAN :
               msg' = [msg EXCEPT ![m] = [settled EXCEPT !.sentAt = mailClock, !.hasProviderId = known]]
      BY <1>6, <2>3, <3>1 DEF Outbox!Settle
    <3> HIDE DEF settled
    <3>5. PICK q \in Outbox!Message : /\ msg' = [msg EXCEPT ![m] = q]
                                      /\ q.status = mailLane[w].outcome /\ q.attempts = msg[m].attempts
      <4>1. ASSUME NEW known \in BOOLEAN
            PROVE  LET q == [settled EXCEPT !.sentAt = mailClock, !.hasProviderId = known]
                   IN  q \in Outbox!Message /\ q.status = settled.status /\ q.attempts = settled.attempts
        BY <1>0, <3>3 DEF Outbox!Message
      <4> QED
        BY <3>3, <3>4, <4>1
    <3>6. msg'[m] = q /\ RestOf(m) /\ msg' \in [Messages -> Outbox!Message]
      BY <1>0, <3>5 DEF RestOf
    <3>7. Ends(w, m)
      BY <1>b, <2>1, <3>1, <3>2, <3>5, <3>6 DEF Ends
    <3> QED
      BY <1>b, <2>1, <3>6, <3>7 DEF Outbox!TypeOK, MailStep
  <2> QED
    BY <2>2, <2>3
<1>7. CASE Outbox!SettleFails(w)
  <2>1. /\ UNCHANGED <<mailClock, msg, suppressed, handedOver>> /\ mailLane[w].pc = "settling"
        /\ Outbox!Step(w, "failed") /\ lost' = lost \cup {mailLane[w].msg} /\ Outbox!Fault
    BY <1>7 DEF Outbox!SettleFails
  <2>2. /\ mailLane' \in [Workers -> Outbox!Lane] /\ Rest(w) /\ mailLane'[w].pc = "failed"
        /\ mailLane'[w].msg = mailLane[w].msg
    BY <1>c, <2>1
  <2>3. Moves(w) /\ mailLane[w].msg \in Messages
    BY <1>a, <2>1, <2>2 DEF Moves, HoldingMail
  <2> QED
    BY <2>1, <2>2, <2>3, MailFault DEF Outbox!TypeOK, MailStep
<1>8. CASE Outbox!RetryOrFail(w)
  <2>1. /\ UNCHANGED <<mailClock, suppressed, handedOver, lost, mailFaults>> /\ mailLane[w].pc = "failed"
    BY <1>8 DEF Outbox!RetryOrFail
  <2>2. CASE Outbox!SettleAs(w, "FAILED") /\ UNCHANGED msg
    <3>1. /\ mailLane' \in [Workers -> Outbox!Lane] /\ Rest(w) /\ mailLane'[w].msg = mailLane[w].msg
          /\ mailLane'[w].pc = "settling" /\ mailLane'[w].outcome \in Outbox!Outcomes
      BY <1>d, <1>e, <2>2
    <3>2. Moves(w)
      BY <2>1, <2>2, <3>1 DEF Moves, HoldingMail
    <3> QED
      BY <2>1, <2>2, <3>1, <3>2 DEF Outbox!TypeOK, MailStep
  <2>3. CASE Outbox!GoIdle(w) /\ UNCHANGED msg
    BY <1>b, <2>1, <2>3 DEF Outbox!TypeOK, MailStep, LetsGo, HoldingMail
  <2>4. CASE /\ Outbox!GoIdle(w) /\ Outbox!OwnedBy(w)
             /\ \E d \in Delays : msg' = [msg EXCEPT ![mailLane[w].msg].status = "QUEUED",
                                                     ![mailLane[w].msg].lockedAt = None,
                                                     ![mailLane[w].msg].nextAttemptAt = mailClock + d]
    <3>1. PICK m \in Messages : m = mailLane[w].msg
      BY <1>a, <2>1 DEF HoldingMail
    <3>2. PICK d \in Delays : msg' = [msg EXCEPT ![m] = [msg[m] EXCEPT !.status = "QUEUED", !.lockedAt = None,
                                                                       !.nextAttemptAt = mailClock + d]]
      BY <2>4, <3>1, ZenonT(60)
    <3>3. msg[m].status = "SENDING" /\ mailClock + d \in Nat
      BY <1>0, <2>4, <3>1 DEF Outbox!OwnedBy
    <3> DEFINE q == [msg[m] EXCEPT !.status = "QUEUED", !.lockedAt = None, !.nextAttemptAt = mailClock + d]
    <3>4. q \in Outbox!Message
      BY <1>0, <3>3, ZenonT(60) DEF Outbox!Message, Outbox!Pending
    <3>5. q.status = "QUEUED" /\ q.attempts = msg[m].attempts
          /\ q.hasProviderId = msg[m].hasProviderId /\ q.sentAt = msg[m].sentAt
      BY <1>0 DEF Outbox!Message
    <3>6. msg' = [msg EXCEPT ![m] = q]
      BY <3>2
    <3> HIDE DEF q
    <3>7. msg'[m] = q /\ RestOf(m) /\ msg' \in [Messages -> Outbox!Message]
      BY <1>0, <3>4, <3>6 DEF RestOf
    <3>8. Ends(w, m)
      BY <1>b, <2>1, <2>4, <3>1, <3>3, <3>5, <3>7 DEF Ends, SameReceipt
    <3> QED
      BY <1>b, <2>1, <2>4, <3>7, <3>8 DEF Outbox!TypeOK, MailStep
  <2> QED
    BY <1>8, <2>2, <2>3, <2>4 DEF Outbox!RetryOrFail
<1>9. CASE Outbox!Crash(w)
  <2>1. /\ UNCHANGED <<mailClock, msg, suppressed, handedOver, lost>>
        /\ Outbox!GoIdle(w) /\ Outbox!Fault
    BY <1>9 DEF Outbox!Crash
  <2> QED
    BY <1>b, <2>1, MailFault DEF Outbox!TypeOK, MailStep, LetsGo, HoldingMail
<1> QED
  BY <1>1, <1>2, <1>3, <1>4, <1>5, <1>6, <1>7, <1>8, <1>9 DEF Outbox!Send

\* A queued message stays known.
LEMMA MailStatuses ==
  ASSUME Outbox!TypeOK, MailStep, NEW m \in Messages, msg[m].status # "NONE"
  PROVE  msg'[m].status # "NONE"
<1>1. CASE Quiet
  BY <1>1 DEF Quiet, QuietRow, Outbox!Terminal
<1>2. ASSUME NEW w \in Workers, LetsGo(w) \/ Moves(w) \/ Hands(w) PROVE msg'[m].status # "NONE"
  BY <1>2 DEF LetsGo, Moves, Hands
<1>3. ASSUME NEW w \in Workers, NEW n \in Messages, Takes(w, n) \/ Ends(w, n)
      PROVE  msg'[m].status # "NONE"
  BY <1>3 DEF Takes, Ends, RestOf, Outbox!Outcomes
<1> QED
  BY <1>1, <1>2, <1>3 DEF MailStep

LEMMA MailLanesStep ==
  ASSUME Outbox!TypeOK, MailLanesInv, MailStep
  PROVE  MailLanesInv'
<1> SUFFICES ASSUME NEW w \in Workers
             PROVE  /\ mailLane'[w].pc \in HoldingMail =>
                         mailLane'[w].msg \in Messages /\ msg'[mailLane'[w].msg].status # "NONE"
                    /\ mailLane'[w].pc = "settling" => mailLane'[w].outcome \in Outbox!Outcomes
  BY DEF MailLanesInv
<1>1. CASE mailLane'[w] = mailLane[w]
  BY <1>1, MailStatuses DEF MailLanesInv
<1>2. CASE mailLane'[w].pc \notin HoldingMail
  BY <1>2 DEF HoldingMail
<1>3. CASE Moves(w) \/ Hands(w)
  <2>1. mailLane[w].pc \in HoldingMail /\ mailLane'[w].msg = mailLane[w].msg
    BY <1>3 DEF Moves, Hands, HoldingMail
  <2>2. mailLane[w].msg \in Messages /\ msg'[mailLane[w].msg].status # "NONE"
    BY <2>1, MailStatuses DEF MailLanesInv
  <2> QED
    BY <1>3, <2>1, <2>2 DEF Moves, Hands
<1>4. ASSUME NEW m \in Messages, Takes(w, m)
      PROVE  /\ mailLane'[w].msg \in Messages /\ msg'[mailLane'[w].msg].status # "NONE"
             /\ mailLane'[w].pc # "settling"
  BY <1>4 DEF Takes
<1>5. CASE Quiet
  BY <1>1, <1>5 DEF Quiet
<1>6. ASSUME NEW v \in Workers, LetsGo(v) \/ Moves(v) \/ Hands(v)
      PROVE  mailLane'[w] = mailLane[w] \/ mailLane'[w].pc \notin HoldingMail \/ Moves(w) \/ Hands(w)
  BY <1>6 DEF LetsGo, Moves, Hands, Rest
<1>7. ASSUME NEW v \in Workers, NEW m \in Messages, Takes(v, m) \/ Ends(v, m)
      PROVE  mailLane'[w] = mailLane[w] \/ mailLane'[w].pc \notin HoldingMail \/ Takes(w, m)
  BY <1>7 DEF Takes, Ends, Rest, HoldingMail
<1> QED
  BY <1>1, <1>2, <1>3, <1>4, <1>5, <1>6, <1>7 DEF MailStep

LEMMA MailRowsStep ==
  ASSUME Outbox!TypeOK, MailRowsInv, MailStep
  PROVE  MailRowsInv'
<1> SUFFICES ASSUME NEW m \in Messages
             PROVE  /\ msg'[m].status = "NONE" => msg'[m].attempts = 0
                    /\ msg'[m].hasProviderId \/ msg'[m].sentAt # None =>
                         msg'[m].status \in Outbox!Terminal \cup {"PRUNED"}
  BY DEF MailRowsInv
<1>0. msg[m].status = "NONE" => msg[m].attempts = 0
  BY DEF MailRowsInv
<1>1. msg[m].hasProviderId \/ msg[m].sentAt # None => msg[m].status \in Outbox!Terminal \cup {"PRUNED"}
  BY DEF MailRowsInv
<1>2. CASE msg'[m] = msg[m]
  BY <1>0, <1>1, <1>2
<1>3. CASE QuietRow(m)
  BY <1>0, <1>1, <1>3 DEF QuietRow, SameReceipt, Outbox!Terminal
<1>4. ASSUME NEW w \in Workers, Takes(w, m) \/ Ends(w, m)
      PROVE  /\ msg'[m].status # "NONE"
             /\ msg'[m].hasProviderId \/ msg'[m].sentAt # None =>
                  msg'[m].status \in Outbox!Terminal \cup {"PRUNED"}
  BY <1>1, <1>4 DEF Takes, Ends, SameReceipt, Outbox!Terminal, Outbox!Outcomes
<1>5. ASSUME NEW w \in Workers, NEW n \in Messages, Takes(w, n) \/ Ends(w, n)
      PROVE  n = m \/ msg'[m] = msg[m]
  BY <1>5 DEF Takes, Ends, RestOf
<1> QED
  BY <1>0, <1>2, <1>3, <1>4, <1>5 DEF MailStep, Quiet, LetsGo, Moves, Hands

\* When only w moves, only w is counted differently.
LEMMA MailRecount ==
  ASSUME NEW w \in Workers, Rest(w), NEW m \in Messages
  PROVE  \E u \in Nat :
           /\ Cardinality(Untried(m)) = u + (IF Tries(w, m) THEN 1 ELSE 0)
           /\ Cardinality(Untried(m)') = u + (IF Tries(w, m)' THEN 1 ELSE 0)
<1>1. Untried(m) \in SUBSET Workers /\ Untried(m)' \in SUBSET Workers
  BY DEF Untried
<1>2. (w \in Untried(m) <=> Tries(w, m)) /\ (w \in Untried(m)' <=> Tries(w, m)')
  BY DEF Untried
<1>3. Untried(m)' \ {w} = Untried(m) \ {w}
  BY DEF Untried, Tries, Rest
<1>4. /\ Cardinality(Untried(m) \ {w}) \in Nat
      /\ Cardinality(Untried(m)) = Cardinality(Untried(m) \ {w}) + (IF Tries(w, m) THEN 1 ELSE 0)
  BY <1>1, <1>2, CountOne
<1>5. Cardinality(Untried(m)') = Cardinality(Untried(m) \ {w}) + (IF Tries(w, m)' THEN 1 ELSE 0)
  BY <1>1, <1>2, <1>3, CountOne
<1> QED
  BY <1>4, <1>5

LEMMA MailCountsStep ==
  ASSUME Outbox!TypeOK, Outbox!TypeOK', MailLanesInv, MailRowsInv, MailCountsInv, MailStep
  PROVE  MailCountsInv'
<1> SUFFICES ASSUME NEW m \in Messages
             PROVE  handedOver'[m] + Cardinality(Untried(m)') <= msg'[m].attempts
  BY DEF MailCountsInv
<1>0. /\ handedOver[m] \in Nat /\ handedOver'[m] \in Nat
      /\ msg[m].attempts \in Nat /\ msg'[m].attempts \in Nat
      /\ handedOver[m] + Cardinality(Untried(m)) <= msg[m].attempts
  BY DEF Outbox!TypeOK, Outbox!Message, MailCountsInv
<1>1. CASE Quiet
  <2>1. Untried(m)' = Untried(m) /\ handedOver'[m] = handedOver[m]
    BY <1>1 DEF Quiet, Untried, Tries
  <2>2. msg[m].attempts <= msg'[m].attempts
    <3>1. msg[m].status = "NONE" => msg[m].attempts = 0
      BY DEF MailRowsInv
    <3> QED
      BY <1>0, <1>1, <3>1 DEF Quiet, QuietRow
  <2>3. Cardinality(Untried(m)) \in Nat
    <3>1. Untried(m) \in SUBSET Workers
      BY DEF Untried
    <3> QED
      BY <3>1, FS_Subset, FS_CardinalityType
  <2> QED
    BY <1>0, <2>1, <2>2, <2>3
<1>2. ASSUME NEW w \in Workers, LetsGo(w) \/ Moves(w) \/ Hands(w)
      PROVE  handedOver'[m] + Cardinality(Untried(m)') <= msg'[m].attempts
  <2>1. PICK u \in Nat : /\ Cardinality(Untried(m)) = u + (IF Tries(w, m) THEN 1 ELSE 0)
                         /\ Cardinality(Untried(m)') = u + (IF Tries(w, m)' THEN 1 ELSE 0)
    BY <1>2, MailRecount DEF LetsGo, Moves, Hands
  <2>2. msg' = msg
    BY <1>2 DEF LetsGo, Moves, Hands
  <2>3. CASE LetsGo(w) \/ Moves(w)
    <3>1. handedOver' = handedOver /\ (Tries(w, m)' => Tries(w, m))
      BY <2>3 DEF LetsGo, Moves, Tries, HoldingMail
    <3> QED
      BY <1>0, <2>1, <2>2, <3>1
  <2>4. CASE Hands(w)
    <3>1. ~Tries(w, m)' /\ (Tries(w, m) <=> mailLane[w].msg = m)
      BY <2>4 DEF Hands, Tries
    <3>2. handedOver'[m] = IF mailLane[w].msg = m THEN handedOver[m] + 1 ELSE handedOver[m]
      BY <2>4 DEF Hands, Outbox!TypeOK
    <3> QED
      BY <1>0, <2>1, <2>2, <3>1, <3>2
  <2> QED
    BY <1>2, <2>3, <2>4
<1>3. ASSUME NEW w \in Workers, NEW n \in Messages, Takes(w, n) \/ Ends(w, n)
      PROVE  handedOver'[m] + Cardinality(Untried(m)') <= msg'[m].attempts
  <2>1. PICK u \in Nat : /\ Cardinality(Untried(m)) = u + (IF Tries(w, m) THEN 1 ELSE 0)
                         /\ Cardinality(Untried(m)') = u + (IF Tries(w, m)' THEN 1 ELSE 0)
    BY <1>3, MailRecount DEF Takes, Ends
  <2>2. handedOver' = handedOver /\ (n # m => msg'[m] = msg[m])
    BY <1>3 DEF Takes, Ends, RestOf
  <2>3. CASE Takes(w, n)
    <3>1. /\ ~Tries(w, m) /\ (Tries(w, m)' <=> n = m)
          /\ n = m => msg'[m].attempts = msg[m].attempts + 1
      BY <2>3 DEF Takes, Tries
    <3> QED
      BY <1>0, <2>1, <2>2, <3>1
  <2>4. CASE Ends(w, n)
    <3>1. ~Tries(w, m)' /\ (n = m => msg'[m].attempts = msg[m].attempts)
      BY <2>4 DEF Ends, Tries
    <3> QED
      BY <1>0, <2>1, <2>2, <3>1
  <2> QED
    BY <1>3, <2>3, <2>4
<1> QED
  BY <1>1, <1>2, <1>3 DEF MailStep

LEMMA MailOnceStep ==
  ASSUME Outbox!TypeOK, Outbox!TypeOK', MailLanesInv, MailRowsInv, MailCountsInv, MailOnceInv, MailStep
  PROVE  MailOnceInv'
<1> SUFFICES ASSUME NEW m \in Messages, m \notin lost'
             PROVE  /\ \A w \in Workers : Holds(w, m)' =>
                         /\ msg'[m].status = "SENDING"
                         /\ handedOver'[m] > 0 => mailLane'[w].pc = "settling"
                    /\ \A v, w \in Workers : Holds(v, m)' /\ Holds(w, m)' => v = w
                    /\ handedOver'[m] <= 1
                    /\ handedOver'[m] > 0 => msg'[m].status \notin {"NONE", "QUEUED"}
  BY DEF MailOnceInv, MailOnce
<1>0. lost \subseteq lost'
  BY DEF MailStep, Quiet, LetsGo, Moves, Hands, Takes, Ends
<1>1. /\ \A w \in Workers : Holds(w, m) => /\ msg[m].status = "SENDING"
                                           /\ handedOver[m] > 0 => mailLane[w].pc = "settling"
      /\ \A v, w \in Workers : Holds(v, m) /\ Holds(w, m) => v = w
      /\ handedOver[m] <= 1
      /\ handedOver[m] > 0 => msg[m].status \notin {"NONE", "QUEUED"}
  BY <1>0 DEF MailOnceInv, MailOnce
<1>2. handedOver[m] \in Nat /\ handedOver'[m] \in Nat
  BY DEF Outbox!TypeOK
<1>3. CASE Quiet
  <2>1. handedOver'[m] = handedOver[m] /\ \A w \in Workers : Holds(w, m)' <=> Holds(w, m)
    BY <1>3 DEF Quiet, Holds
  <2>2. CASE msg'[m] = msg[m]
    BY <1>1, <1>3, <2>1, <2>2 DEF Quiet
  <2>3. CASE msg[m].status = "NONE"
    <3>1. handedOver[m] = 0
      <4>1. Untried(m) \in SUBSET Workers
        BY DEF Untried
      <4>2. Cardinality(Untried(m)) \in Nat
        BY <4>1, FS_Subset, FS_CardinalityType
      <4>3. msg[m].attempts = 0 /\ handedOver[m] + Cardinality(Untried(m)) <= msg[m].attempts
        BY <2>3 DEF MailRowsInv, MailCountsInv
      <4> QED
        BY <1>2, <4>2, <4>3
    <3> QED
      BY <1>1, <2>1, <2>3, <3>1
  <2>4. CASE /\ msg[m].status \in Outbox!Terminal \cup {"PRUNED"}
             /\ msg'[m].status \in Outbox!Terminal \cup {"PRUNED"}
    <3>1. msg[m].status # "SENDING" /\ msg'[m].status \notin {"NONE", "QUEUED"}
      BY <2>4 DEF Outbox!Terminal
    <3> QED
      BY <1>1, <2>1, <3>1
  <2> QED
    BY <1>3, <2>2, <2>3, <2>4 DEF Quiet, QuietRow
<1>4. ASSUME NEW u \in Workers, LetsGo(u)
      PROVE  /\ msg' = msg /\ handedOver' = handedOver
             /\ \A w \in Workers : Holds(w, m)' => Holds(w, m) /\ mailLane'[w] = mailLane[w]
  BY <1>4 DEF LetsGo, Rest, Holds
<1>5. ASSUME NEW u \in Workers, Moves(u)
      PROVE  /\ msg' = msg /\ handedOver' = handedOver
             /\ \A w \in Workers : Holds(w, m)' =>
                  /\ Holds(w, m)
                  /\ mailLane[w].pc = "settling" => mailLane'[w].pc = "settling"
  BY <1>5 DEF Moves, Rest, Holds
<1>6. ASSUME NEW u \in Workers, Hands(u), mailLane[u].msg # m
      PROVE  /\ msg' = msg /\ handedOver'[m] = handedOver[m]
             /\ \A w \in Workers : Holds(w, m)' => Holds(w, m) /\ mailLane'[w] = mailLane[w]
  BY <1>6 DEF Hands, Rest, Holds, Outbox!TypeOK
<1>7. ASSUME NEW u \in Workers, Hands(u), mailLane[u].msg = m
      PROVE  /\ msg' = msg /\ msg[m].status = "SENDING" /\ handedOver'[m] = 1
             /\ \A w \in Workers : Holds(w, m)' => w = u /\ mailLane'[w].pc = "settling"
  <2>1. Holds(u, m) /\ mailLane[u].pc = "sending"
    BY <1>7 DEF Hands, Holds, HoldingMail
  <2>2. handedOver[m] = 0 /\ msg[m].status = "SENDING"
    BY <1>1, <1>2, <2>1
  <2>3. handedOver'[m] = 1
    BY <1>7, <2>2 DEF Hands, Outbox!TypeOK
  <2>4. ASSUME NEW w \in Workers, Holds(w, m)' PROVE w = u
    <3>1. w # u => Holds(w, m)
      BY <1>7, <2>4 DEF Hands, Rest, Holds
    <3> QED
      BY <1>1, <2>1, <3>1
  <2>5. mailLane'[u].pc = "settling"
    BY <1>7 DEF Hands
  <2> QED
    BY <1>7, <2>2, <2>3, <2>4, <2>5 DEF Hands
<1>8. ASSUME NEW u \in Workers, NEW n \in Messages, n # m, Takes(u, n) \/ Ends(u, n)
      PROVE  /\ msg'[m] = msg[m] /\ handedOver' = handedOver
             /\ \A w \in Workers : Holds(w, m)' => Holds(w, m) /\ mailLane'[w] = mailLane[w]
  BY <1>8 DEF Takes, Ends, Rest, RestOf, Holds, HoldingMail
<1>9. ASSUME NEW u \in Workers, Takes(u, m)
      PROVE  /\ msg'[m].status = "SENDING" /\ handedOver'[m] = 0
             /\ \A w \in Workers : Holds(w, m)' => w = u
  <2>1. handedOver[m] = 0 /\ \A w \in Workers : ~Holds(w, m)
    BY <1>1, <1>2, <1>9 DEF Takes
  <2>2. \A w \in Workers : w # u => (Holds(w, m)' => Holds(w, m))
    BY <1>9 DEF Takes, Rest, Holds
  <2> QED
    BY <1>9, <2>1, <2>2 DEF Takes
<1>10. ASSUME NEW u \in Workers, Ends(u, m)
       PROVE  /\ \A w \in Workers : ~Holds(w, m)'
              /\ handedOver'[m] = handedOver[m]
              /\ handedOver'[m] > 0 => msg'[m].status \notin {"NONE", "QUEUED"}
  <2>1. Holds(u, m)
    BY <1>10 DEF Ends, Holds, HoldingMail
  <2>2. ASSUME NEW w \in Workers PROVE ~Holds(w, m)'
    <3>1. CASE w = u
      BY <1>10, <3>1 DEF Ends, Holds, HoldingMail
    <3>2. CASE w # u
      BY <1>1, <1>10, <2>1, <3>2 DEF Ends, Rest, Holds
    <3> QED
      BY <3>1, <3>2
  <2>3. mailLane[u].pc = "failed" => ~(handedOver[m] > 0)
    BY <1>1, <2>1
  <2> QED
    BY <1>10, <2>2, <2>3 DEF Ends, Outbox!Outcomes
<1> QED
  BY <1>1, <1>2, <1>3, <1>4, <1>5, <1>6, <1>7, <1>8, <1>9, <1>10 DEF MailStep

LEMMA MailInitHolds == Outbox!Init => MailInv
<1> SUFFICES ASSUME Outbox!Init PROVE MailInv
  OBVIOUS
<1>1. /\ \A m \in Messages : msg[m] = Outbox!NewMessage /\ handedOver[m] = 0
      /\ \A w \in Workers : mailLane[w] = Outbox!IdleLane
  BY DEF Outbox!Init
<1>2. /\ Outbox!NewMessage.status = "NONE" /\ Outbox!NewMessage.attempts = 0
      /\ Outbox!NewMessage.hasProviderId = FALSE /\ Outbox!NewMessage.sentAt = None
      /\ Outbox!IdleLane.pc = "idle"
  BY DEF Outbox!NewMessage, Outbox!IdleLane
<1>3. Outbox!TypeOK
  BY MailConstants DEF Outbox!Init, Outbox!TypeOK
<1>4. MailLanesInv /\ MailRowsInv
  BY <1>1, <1>2 DEF MailLanesInv, MailRowsInv, HoldingMail
<1>5. MailCountsInv
  <2> SUFFICES ASSUME NEW m \in Messages
               PROVE  handedOver[m] + Cardinality(Untried(m)) <= msg[m].attempts
    BY DEF MailCountsInv
  <2>1. Untried(m) = {}
    BY <1>1, <1>2 DEF Untried, Tries
  <2>2. Cardinality({}) = 0
    BY FS_EmptySet
  <2> QED
    BY <1>1, <1>2, <2>1, <2>2
<1>6. MailOnceInv
  BY <1>1, <1>2 DEF MailOnceInv, MailOnce, Holds, HoldingMail
<1> QED
  BY <1>3, <1>4, <1>5, <1>6 DEF MailInv

LEMMA MailInvStep ==
  ASSUME MailInv, Outbox!Next \/ UNCHANGED mail
  PROVE  MailInv'
<1>0. Outbox!TypeOK /\ MailLanesInv /\ MailRowsInv /\ MailCountsInv /\ MailOnceInv
  BY DEF MailInv
<1>1. Outbox!TypeOK' /\ MailStep
  <2>1. CASE UNCHANGED mail
    BY <1>0, <2>1 DEF mail, Outbox!TypeOK, MailStep, Quiet, QuietRow
  <2>2. CASE Outbox!Next
    BY <1>0, <2>2, QuietSteps, SendSteps DEF Outbox!Next, MailStep
  <2> QED
    BY <2>1, <2>2
<1> QED
  BY <1>0, <1>1, MailLanesStep, MailRowsStep, MailCountsStep, MailOnceStep DEF MailInv

LEMMA MessagesOnce == MailInv => Outbox!NoDoubleSend
<1> SUFFICES ASSUME MailInv, NEW m \in Messages
             PROVE  /\ handedOver[m] > 1 => m \in lost
                    /\ handedOver[m] <= msg[m].attempts
  BY DEF Outbox!NoDoubleSend
<1>1. handedOver[m] \in Nat /\ msg[m].attempts \in Nat
  BY DEF MailInv, Outbox!TypeOK, Outbox!Message
<1>2. m \notin lost => handedOver[m] <= 1
  BY DEF MailInv, MailOnceInv, MailOnce
<1>3. Untried(m) \in SUBSET Workers
  BY DEF Untried
<1>4. Cardinality(Untried(m)) \in Nat
  BY <1>3, FS_Subset, FS_CardinalityType
<1>5. handedOver[m] + Cardinality(Untried(m)) <= msg[m].attempts
  BY DEF MailInv, MailCountsInv
<1> QED
  BY <1>1, <1>2, <1>4, <1>5
-----------------------------------------------------------------------------
(* Both together. *)

LEMMA BothHold == MCSpec => [](IndInv /\ MailInv)
<1>1. MCInit => IndInv /\ MailInv
  BY InitHolds, MailInitHolds DEF MCInit
<1>2. IndInv /\ MailInv /\ [MCNext]_MCVars => (IndInv /\ MailInv)'
  <2> SUFFICES ASSUME IndInv, MailInv, [MCNext]_MCVars PROVE IndInv' /\ MailInv'
    OBVIOUS
  <2>1. [Next]_vars
    BY DEF MCNext, MCVars, Webhooks, Email, Next, Drain
  <2>2. Outbox!Next \/ UNCHANGED mail
    BY DEF MCNext, MCVars, Webhooks, Email, Outbox!Next, Outbox!Send
  <2> QED
    BY <2>1, <2>2, IndInvStep, MailInvStep
<1> QED
  BY <1>1, <1>2, PTL DEF MCSpec

\* However many drains overlap, die, freeze or lose an answer: every second
\* acceptance of a webhook is paid for by a fault, every second hand-over of a
\* message by a send given up for lost, and a delivery given up was really tried.
THEOREM SentOnlyOnce == MCSpec => []SentOnce
<1>1. IndInv /\ MailInv => SentOnce
  BY SentOnceOrPaid, MessagesOnce DEF SentOnce
<1> QED
  BY <1>1, BothHold, PTL
-----------------------------------------------------------------------------
(* Suppressed addresses. *)

\* The address of m is suppressed, and no lane has m past the check.
Barred(m, n) ==
  /\ AddressOf[m] \in suppressed
  /\ handedOver[m] = n
  /\ \A w \in Workers : mailLane[w].pc = "sending" => mailLane[w].msg # m

\* Nothing lifts a suppression, and no lane gets past the check with m any more.
LEMMA BarredStays ==
  ASSUME MailInv, Outbox!Next \/ UNCHANGED mail, NEW m \in Messages, NEW n, Barred(m, n)
  PROVE  Barred(m, n)'
<1>0. Outbox!TypeOK /\ MailLanesInv
  BY DEF MailInv
<1>1. /\ mailLane \in [Workers -> Outbox!Lane]
      /\ handedOver \in [Messages -> Nat]
  BY <1>0 DEF Outbox!TypeOK
<1>2. AddressOf[m] \in suppressed /\ handedOver[m] = n
      /\ \A w \in Workers : mailLane[w].pc = "sending" => mailLane[w].msg # m
  BY DEF Barred
<1>3. CASE UNCHANGED mail
  BY <1>2, <1>3 DEF mail, Barred
<1>4. ASSUME NEW w \in Workers, Outbox!Send(w) PROVE Barred(m, n)'
  <2>1. \A v \in Workers : v # w => mailLane'[v] = mailLane[v]
    BY <1>1, <1>4 DEF Outbox!Send, Outbox!ClaimStart, Outbox!ClaimNextEmail, Outbox!CheckExpiry,
       Outbox!CheckSuppressed, Outbox!DeliverEmail, Outbox!DeliveryError, Outbox!Settle,
       Outbox!SettleFails, Outbox!RetryOrFail, Outbox!Crash, Outbox!GoIdle, Outbox!Step, Outbox!SettleAs
  <2>2. mailLane'[w].pc = "sending" => mailLane'[w].msg # m
    <3>1. CASE Outbox!CheckSuppressed(w)
      BY <1>1, <1>2, <3>1 DEF Outbox!CheckSuppressed, Outbox!Step, Outbox!SettleAs, Outbox!Lane
    <3>2. CASE Outbox!ClaimStart(w)
      BY <1>1, <3>2 DEF Outbox!ClaimStart, Outbox!IdleLane
    <3>3. CASE Outbox!ClaimNextEmail(w)
      <4>1. mailLane'[w].pc = "claimed"
            \/ mailLane' = [mailLane EXCEPT ![w] = Outbox!IdleLane]
        <5>1. mailLane[w] \in Outbox!Lane
          BY <1>1
        <5>2. CASE \E k \in Messages :
                mailLane' = [mailLane EXCEPT ![w].pc = "claimed", ![w].msg = k,
                               ![w].attempts = msg[k].attempts + 1, ![w].expiresAt = msg[k].expiresAt]
          BY <1>1, <5>1, <5>2 DEF Outbox!Lane
        <5> QED
          BY <3>3, <5>2 DEF Outbox!ClaimNextEmail, Outbox!GoIdle, Outbox!Due
      <4> QED
        BY <1>1, <4>1 DEF Outbox!IdleLane
    <3>4. CASE Outbox!CheckExpiry(w) \/ Outbox!DeliverEmail(w) \/ Outbox!DeliveryError(w) \/ Outbox!SettleFails(w)
      BY <1>1, <3>4 DEF Outbox!CheckExpiry, Outbox!DeliverEmail, Outbox!DeliveryError,
         Outbox!SettleFails, Outbox!Step, Outbox!SettleAs, Outbox!Lane
    <3>5. CASE Outbox!Settle(w) \/ Outbox!RetryOrFail(w) \/ Outbox!Crash(w)
      <4>1. Outbox!GoIdle(w) \/ Outbox!SettleAs(w, "FAILED")
        BY <3>5 DEF Outbox!Settle, Outbox!RetryOrFail, Outbox!Crash
      <4> QED
        BY <1>1, <4>1 DEF Outbox!GoIdle, Outbox!SettleAs, Outbox!IdleLane, Outbox!Lane
    <3> QED
      BY <1>4, <3>1, <3>2, <3>3, <3>4, <3>5 DEF Outbox!Send
  <2>3. suppressed' = suppressed /\ handedOver'[m] = handedOver[m]
    <3>1. CASE Outbox!DeliverEmail(w)
      BY <1>1, <1>2, <3>1 DEF Outbox!DeliverEmail
    <3>2. CASE ~Outbox!DeliverEmail(w)
      BY <1>4, <3>2 DEF Outbox!Send, Outbox!ClaimStart, Outbox!ClaimNextEmail, Outbox!CheckExpiry,
         Outbox!CheckSuppressed, Outbox!DeliveryError, Outbox!Settle, Outbox!SettleFails,
         Outbox!RetryOrFail, Outbox!Crash
    <3> QED
      BY <3>1, <3>2
  <2> QED
    BY <1>2, <2>1, <2>2, <2>3 DEF Barred
<1>5. ASSUME ~\E w \in Workers : Outbox!Send(w), Outbox!Next PROVE Barred(m, n)'
  <2>1. suppressed \subseteq suppressed' /\ UNCHANGED <<mailLane, handedOver>>
    BY <1>5 DEF Outbox!Next, Outbox!EnqueueEmail, Outbox!ApplyEmailEvent, Outbox!RecoverStaleEmails,
       Outbox!PruneEmails, Outbox!Tick
  <2> QED
    BY <1>2, <2>1 DEF Barred
<1> QED
  BY <1>3, <1>4, <1>5

\* Once an address is suppressed, a message to it is never handed over again, by retries
\* and recoveries either, but for the lanes that had already passed the check.
THEOREM SuppressedStayUnsent == MCSpec => SuppressionHonoured
<1>1. MCSpec => []MailInv /\ [][Outbox!Next]_mail
  <2>1. MailInv /\ [MCNext]_MCVars => [Outbox!Next]_mail
    BY DEF MCNext, MCVars, Webhooks, Email, Outbox!Next, Outbox!Send
  <2> QED
    BY <2>1, BothHold, PTL DEF MCSpec
<1>2. ASSUME NEW m \in Messages, NEW n \in 0..MaxEmailAttempts
      PROVE  MCSpec => [](/\ AddressOf[m] \in suppressed
                          /\ handedOver[m] = n
                          /\ \A w \in Workers : mailLane[w].pc = "sending" => mailLane[w].msg # m
                          => [](handedOver[m] = n))
  <2>1. MailInv /\ Barred(m, n) /\ [Outbox!Next]_mail => Barred(m, n)'
    BY BarredStays
  <2>2. Barred(m, n) => handedOver[m] = n
    BY DEF Barred
  <2>3. (/\ AddressOf[m] \in suppressed
         /\ handedOver[m] = n
         /\ \A w \in Workers : mailLane[w].pc = "sending" => mailLane[w].msg # m) => Barred(m, n)
    BY DEF Barred
  <2> QED
    BY <1>1, <2>1, <2>2, <2>3, PTL
<1> QED
  BY <1>2 DEF SuppressionHonoured, Outbox!SuppressionHonoured
=============================================================================
