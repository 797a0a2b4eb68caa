--------------------------- MODULE WebhookDelivery ---------------------------
(***************************************************************************)
(* Outgoing webhooks (webhooks/outbox.ts, webhooks/delivery.ts,            *)
(* services/webhooks.ts): a change queues one delivery per endpoint in its *)
(* own transaction, drains of any number of instances send them, admins    *)
(* add, pause, test and delete endpoints meanwhile.  A delivery has no     *)
(* SENDING status: it is claimed while lockedAt is set and fresh, and an   *)
(* attempt is counted when it is settled, not when it starts.              *)
(***************************************************************************)
EXTENDS Integers, FiniteSets

CONSTANTS
  Endpoints,
  Events,              \* changes that queue an event, and test pings
  Workers,             \* the drains of all instances
  Admins,              \* requests that add an endpoint
  MaxWebhookAttempts,
  MaxWebhookEndpoints,
  StaleAfter,          \* STALE_LOCK_MS, in ticks
  Delays,              \* what streamBackoffMs can return, in ticks
  KeepSettled,         \* KEEP_SETTLED_MS, in ticks
  MaxFaults,           \* bound: crashes, lost replies, failing updates
  None                 \* SQL NULL

VARIABLES
  clock,
  endpoint,  \* WebhookEndpoint rows: absent, enabled, paused or deleted
  adding,    \* the count each createWebhook has read
  event,     \* the transactions that queue events
  delivery,  \* WebhookDelivery rows, one per event and endpoint
  lane,      \* the drains
  accepted,  \* how often the receiver accepted each delivery
  started,   \* how often a send was started
  faults

vars == <<clock, endpoint, adding, event, delivery, lane, accepted, started, faults>>
rows == <<endpoint, adding, event, delivery>>
ghosts == <<accepted, started>>

Deliveries == Events \X Endpoints

ASSUME BoundsAssumption ==
  /\ MaxWebhookAttempts \in Nat \ {0}
  /\ MaxWebhookEndpoints \in Nat
  /\ StaleAfter \in Nat
  /\ Delays \subseteq Nat \ {0}
  /\ KeepSettled \in Nat
  /\ MaxFaults \in Nat
  /\ IsFiniteSet(Endpoints) /\ IsFiniteSet(Workers)

ASSUME NoneAssumption == None \notin Nat \cup Deliveries

Delivery == [status: {"NONE", "PENDING", "DELIVERED", "FAILED", "DELETED"}, attempts: Nat,
             nextAttemptAt: Nat, lockedAt: Nat \cup {None}, createdAt: Nat]
Lane == [pc: {"idle", "asked", "claimed", "sent", "failed"}, row: Deliveries \cup {None},
         token: Nat, attempts: Nat, slow: BOOLEAN]

NewDelivery == [status |-> "NONE", attempts |-> 0, nextAttemptAt |-> 0, lockedAt |-> None,
                createdAt |-> 0]
IdleLane == [pc |-> "idle", row |-> None, token |-> 0, attempts |-> 0, slow |-> FALSE]

TypeOK ==
  /\ clock \in Nat
  /\ endpoint \in [Endpoints -> {"absent", "enabled", "paused", "deleted"}]
  /\ adding \in [Admins -> Nat \cup {None}]
  /\ event \in [Events -> [pc: {"idle", "read", "committed", "aborted"}, targets: SUBSET Endpoints]]
  /\ delivery \in [Deliveries -> Delivery]
  /\ lane \in [Workers -> Lane]
  /\ accepted \in [Deliveries -> Nat]
  /\ started \in [Deliveries -> Nat]
  /\ faults \in 0..MaxFaults

Init ==
  /\ clock = 0
  /\ endpoint = [p \in Endpoints |-> "absent"]
  /\ adding = [a \in Admins |-> None]
  /\ event = [e \in Events |-> [pc |-> "idle", targets |-> {}]]
  /\ delivery = [d \in Deliveries |-> NewDelivery]
  /\ lane = [w \in Workers |-> IdleLane]
  /\ accepted = [d \in Deliveries |-> 0]
  /\ started = [d \in Deliveries |-> 0]
  /\ faults = 0

Fault == faults < MaxFaults /\ faults' = faults + 1
Existing == {p \in Endpoints : endpoint[p] \in {"enabled", "paused"}}
-----------------------------------------------------------------------------
(* The admins' operations.                                                  *)

\* createWebhook: the endpoints are counted in one statement ...
CountWebhooks(a) ==
  /\ adding[a] = None
  /\ adding' = [adding EXCEPT ![a] = Cardinality(Existing)]
  /\ UNCHANGED <<clock, endpoint, event, delivery, lane, ghosts, faults>>

\* ... and one is added in the next, unless the limit was reached.
CreateWebhook(a) ==
  /\ adding[a] # None
  /\ \/ /\ adding[a] < MaxWebhookEndpoints
        /\ \E p \in Endpoints : endpoint[p] = "absent" /\ endpoint' = [endpoint EXCEPT ![p] = "enabled"]
     \/ adding[a] >= MaxWebhookEndpoints /\ UNCHANGED endpoint
  /\ adding' = [adding EXCEPT ![a] = None]
  /\ UNCHANGED <<clock, event, delivery, lane, ghosts, faults>>

\* setWebhookEnabled
SetWebhookEnabled(p) ==
  /\ p \in Existing
  /\ endpoint' = [endpoint EXCEPT ![p] = IF @ = "enabled" THEN "paused" ELSE "enabled"]
  /\ UNCHANGED <<clock, adding, event, delivery, lane, ghosts, faults>>

\* deleteWebhook; the deliveries go with the endpoint, sent or not.
DeleteWebhook(p) ==
  /\ p \in Existing
  /\ endpoint' = [endpoint EXCEPT ![p] = "deleted"]
  /\ delivery' = [d \in Deliveries |->
       IF d[2] = p /\ delivery[d].status # "NONE"
       THEN [delivery[d] EXCEPT !.status = "DELETED"] ELSE delivery[d]]
  /\ UNCHANGED <<clock, adding, event, lane, ghosts, faults>>
-----------------------------------------------------------------------------
(* queueWebhookEvent, inside the transaction of the change, and             *)
(* sendTestWebhook, which concerns one endpoint and wants it enabled.       *)

ReadEndpoints(e) ==
  /\ event[e].pc = "idle"
  /\ \E targets \in {Existing} \cup {{p} : p \in {q \in Existing : endpoint[q] = "enabled"}} :
       event' = [event EXCEPT ![e] = [pc |-> "read", targets |-> targets]]
  /\ UNCHANGED <<clock, endpoint, adding, delivery, lane, ghosts, faults>>

\* The insert and the commit.  The foreign key refuses an endpoint that was
\* deleted meanwhile, and the change is rolled back with the event.
QueueWebhookEvent(e) ==
  /\ event[e].pc = "read"
  /\ \/ /\ event[e].targets \subseteq Existing
        /\ event' = [event EXCEPT ![e].pc = "committed"]
        /\ delivery' = [d \in Deliveries |->
             IF d[1] = e /\ d[2] \in event[e].targets
             THEN [NewDelivery EXCEPT !.status = "PENDING", !.nextAttemptAt = clock, !.createdAt = clock]
             ELSE delivery[d]]
     \/ /\ ~(event[e].targets \subseteq Existing)
        /\ event' = [event EXCEPT ![e].pc = "aborted"]
        /\ UNCHANGED delivery
  /\ UNCHANGED <<clock, endpoint, adding, lane, ghosts, faults>>
-----------------------------------------------------------------------------
(* drainWebhooks.                                                           *)

\* The drain reads its clock; claim and settling use this time.
ClaimStart(w) ==
  /\ lane[w].pc = "idle"
  /\ lane' = [lane EXCEPT ![w] = [IdleLane EXCEPT !.pc = "asked", !.token = clock]]
  /\ UNCHANGED <<clock, rows, ghosts, faults>>

Free(d, now) == delivery[d].lockedAt = None \/ delivery[d].lockedAt < now - StaleAfter

\* mutant: any claim but one's own counts as abandoned
Due_NoLease(now) == {d \in Deliveries :
  /\ delivery[d].status = "PENDING"
  /\ delivery[d].nextAttemptAt <= now
  /\ endpoint[d[2]] = "enabled"
  /\ delivery[d].lockedAt # now}

\* mutant: abandoned claims never expire
Due_NoRecovery(now) == {d \in Deliveries :
  /\ delivery[d].status = "PENDING"
  /\ delivery[d].nextAttemptAt <= now
  /\ endpoint[d[2]] = "enabled"
  /\ delivery[d].lockedAt = None}

\* The rows the claim may take.
Due(now) == {d \in Deliveries :
  /\ delivery[d].status = "PENDING"
  /\ delivery[d].nextAttemptAt <= now
  /\ endpoint[d[2]] = "enabled"
  /\ Free(d, now)}

\* claimNextDelivery, one statement; without a row the drain ends.
ClaimNextDelivery(w) ==
  /\ lane[w].pc = "asked"
  /\ LET now == lane[w].token IN
     \/ \E d \in Due(now) :
          /\ \A n \in Due(now) : delivery[d].nextAttemptAt <= delivery[n].nextAttemptAt
          /\ delivery' = [delivery EXCEPT ![d].lockedAt = now]
          /\ lane' = [lane EXCEPT ![w].pc = "claimed", ![w].row = d,
                                  ![w].attempts = delivery[d].attempts]
     \/ Due(now) = {} /\ lane' = [lane EXCEPT ![w] = IdleLane] /\ UNCHANGED delivery
  /\ UNCHANGED <<clock, endpoint, adding, event, ghosts, faults>>

Start(w) == started' = [started EXCEPT ![lane[w].row] = @ + 1]
Accept(w) == accepted' = [accepted EXCEPT ![lane[w].row] = @ + 1]

\* The receiver accepts; the answer may be lost or late.
Send(w) ==
  /\ lane[w].pc = "claimed"
  /\ Start(w)
  /\ Accept(w)
  /\ \/ lane' = [lane EXCEPT ![w].pc = "sent"] /\ UNCHANGED faults
     \/ lane' = [lane EXCEPT ![w].pc = "failed"] /\ Fault
  /\ UNCHANGED <<clock, rows>>

\* The receiver refuses or cannot be reached, or the secret cannot be opened.
SendFails(w) ==
  /\ lane[w].pc = "claimed"
  /\ Start(w)
  /\ lane' = [lane EXCEPT ![w].pc = "failed"]
  /\ UNCHANGED <<clock, rows, accepted, faults>>

OwnedBy(w) == /\ delivery[lane[w].row].status # "DELETED"
              /\ delivery[lane[w].row].lockedAt = lane[w].token
Settle(w, settled) ==
  /\ delivery' = IF OwnedBy(w) THEN [delivery EXCEPT ![lane[w].row] = settled] ELSE delivery
  /\ lane' = [lane EXCEPT ![w] = IdleLane]

\* deliver, after the send: the next iteration of the drain begins.
RecordDelivered(w) ==
  /\ lane[w].pc = "sent"
  /\ Settle(w, [delivery[lane[w].row] EXCEPT !.status = "DELIVERED", !.lockedAt = None,
                                            !.attempts = lane[w].attempts + 1])
  /\ UNCHANGED <<clock, endpoint, adding, event, ghosts, faults>>

\* mutant: an attempt of a drain that lost its claim is written all the same
RecordFailure_NotFenced(w) ==
  /\ lane[w].pc = "failed"
  /\ LET attempts == lane[w].attempts + 1
         failed == [delivery[lane[w].row] EXCEPT !.attempts = attempts, !.lockedAt = None]
     IN IF attempts >= MaxWebhookAttempts
        THEN delivery' = [delivery EXCEPT ![lane[w].row] = [failed EXCEPT !.status = "FAILED"]]
        ELSE \E delay \in Delays : delivery' = [delivery EXCEPT ![lane[w].row] =
               [failed EXCEPT !.nextAttemptAt = lane[w].token + delay]]
  /\ lane' = [lane EXCEPT ![w] = IdleLane]
  /\ UNCHANGED <<clock, endpoint, adding, event, ghosts, faults>>

\* recordFailure
RecordFailure(w) ==
  /\ lane[w].pc = "failed"
  /\ LET attempts == lane[w].attempts + 1
         failed == [delivery[lane[w].row] EXCEPT !.attempts = attempts, !.lockedAt = None]
     IN \/ /\ attempts >= MaxWebhookAttempts
           /\ Settle(w, [failed EXCEPT !.status = "FAILED"])
        \/ /\ attempts < MaxWebhookAttempts
           /\ \E delay \in Delays : Settle(w, [failed EXCEPT !.nextAttemptAt = lane[w].token + delay])
  /\ UNCHANGED <<clock, endpoint, adding, event, ghosts, faults>>

\* The instance dies, or settling fails: the row stays locked, nothing is counted.
Crash(w) ==
  /\ lane[w].pc # "idle"
  /\ Fault
  /\ lane' = [lane EXCEPT ![w] = IdleLane]
  /\ UNCHANGED <<clock, rows, ghosts>>

\* The instance is frozen for longer than the claim lasts.  A send alone cannot
\* take that long: it is cut off after ten seconds.
Stall(w) ==
  /\ lane[w].pc # "idle"
  /\ ~lane[w].slow
  /\ Fault
  /\ lane' = [lane EXCEPT ![w].slow = TRUE]
  /\ UNCHANGED <<clock, rows, ghosts>>

Purgeable == {d \in Deliveries : /\ delivery[d].status \in {"DELIVERED", "FAILED"}
                                 /\ delivery[d].createdAt < clock - KeepSettled}

\* purgeSettledDeliveries
PurgeSettledDeliveries ==
  /\ Purgeable # {}
  /\ delivery' = [d \in Deliveries |->
       IF d \in Purgeable THEN [delivery[d] EXCEPT !.status = "DELETED"] ELSE delivery[d]]
  /\ UNCHANGED <<clock, endpoint, adding, event, lane, ghosts, faults>>
-----------------------------------------------------------------------------
\* Time matters while a backoff, a claim or the retention of a row runs.
TimerPending == \E d \in Deliveries :
  \/ /\ delivery[d].status = "PENDING"
     /\ delivery[d].nextAttemptAt > clock \/ ~Free(d, clock)
  \/ delivery[d].status \in {"DELIVERED", "FAILED"} /\ d \notin Purgeable

Tick ==
  /\ TimerPending
  /\ \A w \in Workers : lane[w].pc = "idle" \/ lane[w].slow \/ clock - lane[w].token < StaleAfter
  /\ clock' = clock + 1
  /\ UNCHANGED <<rows, lane, ghosts, faults>>

Drain(w) ==
  \/ ClaimStart(w)
  \/ ClaimNextDelivery(w)
  \/ Send(w)
  \/ SendFails(w)
  \/ RecordDelivered(w)
  \/ RecordFailure(w)
  \/ Crash(w)
  \/ Stall(w)

Next ==
  \/ \E a \in Admins : CountWebhooks(a) \/ CreateWebhook(a)
  \/ \E p \in Endpoints : SetWebhookEnabled(p) \/ DeleteWebhook(p)
  \/ \E e \in Events : ReadEndpoints(e) \/ QueueWebhookEvent(e)
  \/ \E w \in Workers : Drain(w)
  \/ PurgeSettledDeliveries
  \/ Tick

Spec == Init /\ [][Next]_vars

(* Fairness.  The cron drains every minute; a drain's steps follow each other. *)
Fairness ==
  /\ WF_vars(Tick)
  /\ \A w \in Workers :
       /\ WF_vars(ClaimStart(w))
       /\ WF_vars(ClaimNextDelivery(w))
       /\ WF_vars(Send(w) \/ SendFails(w))
       /\ WF_vars(RecordDelivered(w) \/ RecordFailure(w))

FairSpec == Spec /\ Fairness
-----------------------------------------------------------------------------
(* Properties. *)

\* Overlapping drains alone send nothing twice: every further acceptance of a
\* delivery is paid for by a crash, a frozen instance or a lost answer.
NoDoubleSend == \A d \in Deliveries : accepted[d] <= 1 + faults

\* Whatever drains die or lose their claims, a delivery that was given up has
\* really been sent MaxWebhookAttempts times, and a delivered one was accepted.
SettledTruthfully == \A d \in Deliveries :
  /\ delivery[d].status = "FAILED" => started[d] >= MaxWebhookAttempts
  /\ delivery[d].status = "DELIVERED" => accepted[d] > 0

\* A delivery is settled unless its endpoint is paused.
DeliveriesSettle == \A d \in Deliveries :
  delivery[d].status = "PENDING" ~> delivery[d].status # "PENDING" \/ endpoint[d[2]] = "paused"

QueueState(d) == CASE delivery[d].status = "NONE" -> "absent"
                   [] delivery[d].status = "PENDING" /\ delivery[d].lockedAt = None -> "waiting"
                   [] delivery[d].status = "PENDING" /\ delivery[d].lockedAt # None -> "working"
                   [] OTHER -> "done"

Queue == INSTANCE WorkQueue WITH
  Items <- Deliveries,
  MaxAttempts <- MaxWebhookAttempts,
  state <- [d \in Deliveries |-> QueueState(d)],
  attempts <- [d \in Deliveries |->
    delivery[d].attempts + (IF delivery[d].lockedAt = None THEN 0 ELSE 1)]

\* The deliveries are a work queue in which a claim is the attempt: a claim that
\* is taken over is no new attempt, and no settled delivery is sent or counted again.
ImplementsWorkQueue == Queue!Spec
=============================================================================
