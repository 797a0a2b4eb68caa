----------------------------- MODULE EmailOutbox -----------------------------
(***************************************************************************)
(* The email outbox (email/outbox.ts, email/policy.ts): messages are       *)
(* queued with the token or invite they carry, lanes of any number of      *)
(* drains send them, and the provider reports bounces and complaints in    *)
(* its own time.  The provider is outside every transaction: it may accept *)
(* a message and the reply, or the row's update after it, may be lost.     *)
(***************************************************************************)
EXTENDS Integers

CONSTANTS
  Messages,
  Addresses,
  AddressOf,         \* the recipient of each message
  Workers,           \* lanes of the draining instances
  MaxEmailAttempts,
  StaleAfter,        \* STALE_SEND_MS, in ticks
  Delays,            \* what emailRetryDelayMs can return, in ticks
  Lifetime,          \* how long the link inside works
  Retention,         \* EMAIL_RETENTION_MS, in ticks
  MaxFaults,         \* bound: crashes, lost replies, failing updates
  None               \* SQL NULL

VARIABLES
  clock,
  msg,         \* EmailMessage rows
  suppressed,  \* EmailSuppression rows
  lane,        \* the drain lanes
  accepted,    \* how often the provider accepted each message
  lost,        \* messages whose send was given up for lost while it may have happened
  faults

vars == <<clock, msg, suppressed, lane, accepted, lost, faults>>

\* What the constants must be; the module that instantiates this one assumes it.
BoundsAssumption ==
  /\ MaxEmailAttempts \in Nat \ {0}
  /\ StaleAfter \in Nat
  /\ Delays \subseteq Nat \ {0}
  /\ Lifetime \in Nat
  /\ Retention \in Nat
  /\ MaxFaults \in Nat

DataAssumption ==
  /\ AddressOf \in [Messages -> Addresses]
  /\ None \notin Messages \cup Nat

Pending == {"QUEUED", "SENDING"}
Terminal == {"SENT", "FAILED", "EXPIRED", "SUPPRESSED", "BOUNCED", "COMPLAINED"}
Outcomes == {"SENT", "FAILED", "EXPIRED", "SUPPRESSED"}

Message == [status: {"NONE", "PRUNED"} \cup Pending \cup Terminal, attempts: Nat,
            nextAttemptAt: Nat, lockedAt: Nat \cup {None}, createdAt: Nat, expiresAt: Nat,
            payload: BOOLEAN, sentAt: Nat \cup {None}, hasProviderId: BOOLEAN]

Lane == [pc: {"idle", "asked", "claimed", "live", "sending", "settling", "failed"},
         msg: Messages \cup {None}, token: Nat, attempts: Nat, expiresAt: Nat,
         outcome: Outcomes \cup {None}]

NewMessage == [status |-> "NONE", attempts |-> 0, nextAttemptAt |-> 0, lockedAt |-> None,
               createdAt |-> 0, expiresAt |-> 0, payload |-> FALSE, sentAt |-> None,
               hasProviderId |-> FALSE]
IdleLane == [pc |-> "idle", msg |-> None, token |-> 0, attempts |-> 0, expiresAt |-> 0,
             outcome |-> None]

TypeOK ==
  /\ clock \in Nat
  /\ msg \in [Messages -> Message]
  /\ suppressed \subseteq Addresses
  /\ lane \in [Workers -> Lane]
  /\ accepted \in [Messages -> Nat]
  /\ lost \subseteq Messages
  /\ faults \in 0..MaxFaults

Init ==
  /\ clock = 0
  /\ msg = [m \in Messages |-> NewMessage]
  /\ suppressed = {}
  /\ lane = [w \in Workers |-> IdleLane]
  /\ accepted = [m \in Messages |-> 0]
  /\ lost = {}
  /\ faults = 0

Fault == faults < MaxFaults /\ faults' = faults + 1
-----------------------------------------------------------------------------
(* enqueueEmail, and the housekeeping at the start of every drain. *)

\* In the caller's transaction: due at once, the payload sealed.
EnqueueEmail(m) ==
  /\ msg[m].status = "NONE"
  /\ msg' = [msg EXCEPT ![m] = [NewMessage EXCEPT !.status = "QUEUED", !.nextAttemptAt = clock,
                                  !.createdAt = clock, !.expiresAt = clock + Lifetime,
                                  !.payload = TRUE]]
  /\ UNCHANGED <<clock, suppressed, lane, accepted, lost, faults>>

Stale == {m \in Messages : msg[m].status = "SENDING" /\ msg[m].lockedAt < clock - StaleAfter}

\* recoverStaleEmails
RecoverStaleEmails ==
  /\ Stale # {}
  /\ msg' = [m \in Messages |->
       IF m \notin Stale THEN msg[m]
       ELSE IF msg[m].attempts < MaxEmailAttempts
            THEN [msg[m] EXCEPT !.status = "QUEUED", !.lockedAt = None, !.nextAttemptAt = clock]
            ELSE [msg[m] EXCEPT !.status = "FAILED", !.lockedAt = None, !.payload = FALSE]]
  /\ lost' = lost \cup Stale
  /\ UNCHANGED <<clock, suppressed, lane, accepted, faults>>

Prunable == {m \in Messages : msg[m].status \in Terminal /\ msg[m].createdAt < clock - Retention}

\* pruneEmails
PruneEmails ==
  /\ Prunable # {}
  /\ msg' = [m \in Messages |-> IF m \in Prunable THEN [msg[m] EXCEPT !.status = "PRUNED"] ELSE msg[m]]
  /\ UNCHANGED <<clock, suppressed, lane, accepted, lost, faults>>
-----------------------------------------------------------------------------
(* A lane of drainEmailOutbox: claimNextEmail, then processEmail. *)

OwnedBy(w) == /\ msg[lane[w].msg].status = "SENDING"
              /\ msg[lane[w].msg].lockedAt = lane[w].token

GoIdle(w) == lane' = [lane EXCEPT ![w] = IdleLane]
Step(w, pc) == lane' = [lane EXCEPT ![w].pc = pc]
SettleAs(w, outcome) == lane' = [lane EXCEPT ![w].pc = "settling", ![w].outcome = outcome]

\* The lane reads its clock; the claim is sent with it.
ClaimStart(w) ==
  /\ lane[w].pc = "idle"
  /\ lane' = [lane EXCEPT ![w] = [IdleLane EXCEPT !.pc = "asked", !.token = clock]]
  /\ UNCHANGED <<clock, msg, suppressed, accepted, lost, faults>>

\* The rows the claim may take.
Due(now) == {m \in Messages : msg[m].status = "QUEUED" /\ msg[m].nextAttemptAt <= now}

\* One statement: select for update skip locked, and the update.
ClaimNextEmail(w) ==
  /\ lane[w].pc = "asked"
  /\ LET now == lane[w].token IN
     \/ \E m \in Due(now) :
          /\ \A n \in Due(now) : msg[m].nextAttemptAt <= msg[n].nextAttemptAt
          /\ msg' = [msg EXCEPT ![m].status = "SENDING", ![m].lockedAt = now, ![m].attempts = @ + 1]
          /\ lane' = [lane EXCEPT ![w].pc = "claimed", ![w].msg = m,
                                  ![w].attempts = msg[m].attempts + 1,
                                  ![w].expiresAt = msg[m].expiresAt]
     \/ Due(now) = {} /\ GoIdle(w) /\ UNCHANGED msg
  /\ UNCHANGED <<clock, suppressed, accepted, lost, faults>>

CheckExpiry(w) ==
  /\ lane[w].pc = "claimed"
  /\ IF lane[w].expiresAt <= clock THEN SettleAs(w, "EXPIRED") ELSE Step(w, "live")
  /\ UNCHANGED <<clock, msg, suppressed, accepted, lost, faults>>

\* mutant: only the first attempt looks at the suppression list
CheckSuppressed_FirstAttempt(w) ==
  /\ lane[w].pc = "live"
  /\ IF AddressOf[lane[w].msg] \in suppressed /\ lane[w].attempts = 1
     THEN SettleAs(w, "SUPPRESSED") ELSE Step(w, "sending")
  /\ UNCHANGED <<clock, msg, suppressed, accepted, lost, faults>>

\* isSuppressed, then the payload, which cannot be opened once AUTH_SECRET has changed.
CheckSuppressed(w) ==
  /\ lane[w].pc = "live"
  /\ IF AddressOf[lane[w].msg] \in suppressed
     THEN SettleAs(w, "SUPPRESSED")
     ELSE Step(w, "sending") \/ SettleAs(w, "FAILED")
  /\ UNCHANGED <<clock, msg, suppressed, accepted, lost, faults>>

\* The provider accepts the message.  The reply may be lost on the way.
DeliverEmail(w) ==
  /\ lane[w].pc = "sending"
  /\ accepted' = [accepted EXCEPT ![lane[w].msg] = @ + 1]
  /\ \/ SettleAs(w, "SENT") /\ UNCHANGED <<lost, faults>>
     \/ Step(w, "failed") /\ lost' = lost \cup {lane[w].msg} /\ Fault
  /\ UNCHANGED <<clock, msg, suppressed>>

\* The provider refuses: for now, or for good.
DeliveryError(w) ==
  /\ lane[w].pc = "sending"
  /\ Step(w, "failed") \/ SettleAs(w, "FAILED")
  /\ UNCHANGED <<clock, msg, suppressed, accepted, lost, faults>>

\* settle: a terminal status drops the payload.  Only SENT has a receipt, and
\* not every relay puts its id into the reply.
Settle(w) ==
  /\ lane[w].pc = "settling"
  /\ LET m == lane[w].msg
         settled == [msg[m] EXCEPT !.status = lane[w].outcome, !.lockedAt = None, !.payload = FALSE]
     IN IF ~OwnedBy(w) THEN UNCHANGED msg
        ELSE IF lane[w].outcome # "SENT" THEN msg' = [msg EXCEPT ![m] = settled]
        ELSE \E known \in BOOLEAN :
               msg' = [msg EXCEPT ![m] = [settled EXCEPT !.sentAt = clock, !.hasProviderId = known]]
  /\ GoIdle(w)
  /\ UNCHANGED <<clock, suppressed, accepted, lost, faults>>

\* The update after a successful send fails inside the try: it counts as a failed send.
SettleFails(w) ==
  /\ lane[w].pc = "settling"
  /\ lane[w].outcome = "SENT"
  /\ Step(w, "failed")
  /\ lost' = lost \cup {lane[w].msg}
  /\ Fault
  /\ UNCHANGED <<clock, msg, suppressed, accepted>>

\* decideRetry and the update that follows it.
RetryOrFail(w) ==
  /\ lane[w].pc = "failed"
  /\ \E d \in Delays :
       IF lane[w].attempts >= MaxEmailAttempts \/ clock + d >= lane[w].expiresAt
       THEN SettleAs(w, "FAILED") /\ UNCHANGED msg
       ELSE /\ msg' = IF OwnedBy(w)
                      THEN [msg EXCEPT ![lane[w].msg].status = "QUEUED",
                                       ![lane[w].msg].lockedAt = None,
                                       ![lane[w].msg].nextAttemptAt = clock + d]
                      ELSE msg
            /\ GoIdle(w)
  /\ UNCHANGED <<clock, suppressed, accepted, lost, faults>>

\* The instance dies, or an error ends processEmail ("email.process_crashed"):
\* the row stays SENDING.
Crash(w) ==
  /\ lane[w].pc # "idle"
  /\ Fault
  /\ GoIdle(w)
  /\ UNCHANGED <<clock, msg, suppressed, accepted, lost>>
-----------------------------------------------------------------------------
(* applyEmailEvent.  Events come late, repeated and in any order.           *)

\* updateEventMessage: the message with the provider's id, else the latest one
\* sent to the recipient before the event.
EventMessages(m, created) ==
  IF msg[m].hasProviderId /\ msg[m].status # "PRUNED" THEN {m}
  ELSE LET before == {n \in Messages : /\ AddressOf[n] = AddressOf[m]
                                       /\ msg[n].status # "PRUNED"
                                       /\ msg[n].sentAt # None
                                       /\ msg[n].sentAt <= created}
       IN {n \in before : \A k \in before : msg[k].sentAt <= msg[n].sentAt}

\* A permanent bounce or a complaint suppresses the address, then the status is recorded.
ApplyEmailEvent(m) ==
  /\ accepted[m] > 0
  /\ \E event \in {"Permanent", "Transient", "COMPLAINED"}, created \in msg[m].createdAt..clock :
       /\ suppressed' = IF event = "Transient" THEN suppressed ELSE suppressed \cup {AddressOf[m]}
       /\ LET about == EventMessages(m, created)
              status == IF event = "COMPLAINED" THEN event ELSE "BOUNCED"
          IN \/ \E n \in about : msg' = [msg EXCEPT ![n].status = status] /\ UNCHANGED faults
             \/ about = {} /\ UNCHANGED <<msg, faults>>
             \/ Fault /\ UNCHANGED msg
  /\ UNCHANGED <<clock, lane, accepted, lost>>
-----------------------------------------------------------------------------
\* Time matters while a backoff, a lease, a link or a retention period runs.
TimerPending == \E m \in Messages :
  \/ msg[m].status \in Pending /\ (msg[m].nextAttemptAt > clock \/ msg[m].expiresAt > clock)
  \/ msg[m].status = "SENDING" /\ m \notin Stale
  \/ msg[m].status \in Terminal /\ m \notin Prunable

Tick ==
  /\ TimerPending
  /\ clock' = clock + 1
  /\ UNCHANGED <<msg, suppressed, lane, accepted, lost, faults>>

Send(w) ==
  \/ ClaimStart(w)
  \/ ClaimNextEmail(w)
  \/ CheckExpiry(w)
  \/ CheckSuppressed(w)
  \/ DeliverEmail(w)
  \/ DeliveryError(w)
  \/ Settle(w)
  \/ SettleFails(w)
  \/ RetryOrFail(w)
  \/ Crash(w)

Next ==
  \/ \E m \in Messages : EnqueueEmail(m) \/ ApplyEmailEvent(m)
  \/ RecoverStaleEmails
  \/ PruneEmails
  \/ \E w \in Workers : Send(w)
  \/ Tick

Spec == Init /\ [][Next]_vars

(* Fairness.  The cron drains every minute; a lane's steps follow each other. *)
Fairness ==
  /\ WF_vars(Tick)
  /\ WF_vars(RecoverStaleEmails)
  /\ \A w \in Workers :
       /\ WF_vars(ClaimStart(w))
       /\ WF_vars(ClaimNextEmail(w))
       /\ WF_vars(CheckExpiry(w) \/ CheckSuppressed(w))
       /\ WF_vars(DeliverEmail(w) \/ DeliveryError(w))
       /\ WF_vars(Settle(w) \/ RetryOrFail(w))

FairSpec == Spec /\ Fairness
-----------------------------------------------------------------------------
(* Properties. *)

\* "Overlapping drains never double-send": a message is handed to the provider
\* twice only when its first send was given up for lost, and never more often
\* than it was claimed.
NoDoubleSend == \A m \in Messages :
  /\ accepted[m] > 1 => m \in lost
  /\ accepted[m] <= msg[m].attempts

\* Once an address is suppressed, a message to it is handed to the provider only
\* by lanes that had already passed the check; retries and recoveries are stopped.
SuppressionHonoured == \A m \in Messages, n \in 0..MaxEmailAttempts :
  [](/\ AddressOf[m] \in suppressed
     /\ accepted[m] = n
     /\ \A w \in Workers : lane[w].pc = "sending" => lane[w].msg # m
     => [](accepted[m] = n))

\* Every queued message is settled, however many sends are lost.
MessagesSettle == \A m \in Messages :
  msg[m].status = "QUEUED" ~> msg[m].status \in Terminal \cup {"PRUNED"}

=============================================================================
