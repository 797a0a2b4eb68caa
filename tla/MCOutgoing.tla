----------------------------- MODULE MCOutgoing -----------------------------
(***************************************************************************)
(* Instances of WebhookDelivery and EmailOutbox for TLC.  The two share no *)
(* state: a behaviour is one of the subject chosen at the start.           *)
(***************************************************************************)
EXTENDS WebhookDelivery

CONSTANTS p1, e1, w1, w2, a1, m1, to1,
          Messages, Addresses, AddressOf, MaxEmailAttempts, StaleSend, Lifetime, Retention

VARIABLES subject, mailClock, msg, suppressed, mailLane, handedOver, lost, mailFaults

Outbox == INSTANCE EmailOutbox WITH
  StaleAfter <- StaleSend, clock <- mailClock, lane <- mailLane, accepted <- handedOver,
  faults <- mailFaults

ASSUME InstanceAssumption == Outbox!BoundsAssumption /\ Outbox!DataAssumption

mail == <<mailClock, msg, suppressed, mailLane, handedOver, lost, mailFaults>>

\* Every message goes to one address, so a bounce of one concerns the other.
OneAddress == [m \in Messages |-> to1]

MCInit == Init /\ Outbox!Init /\ subject \in {"webhooks", "email"}

Webhooks == subject = "webhooks" /\ UNCHANGED <<subject, mail>>
Email == subject = "email" /\ UNCHANGED <<subject, vars>>

\* The disjuncts of Next and of Outbox!Next, one to a line: TLC counts each.
MCNext ==
  \/ Webhooks /\ \E a \in Admins : CountWebhooks(a)
  \/ Webhooks /\ \E a \in Admins : CreateWebhook(a)
  \/ Webhooks /\ \E p \in Endpoints : SetWebhookEnabled(p)
  \/ Webhooks /\ \E p \in Endpoints : DeleteWebhook(p)
  \/ Webhooks /\ \E e \in Events : ReadEndpoints(e)
  \/ Webhooks /\ \E e \in Events : QueueWebhookEvent(e)
  \/ Webhooks /\ \E w \in Workers : ClaimStart(w)
  \/ Webhooks /\ \E w \in Workers : ClaimNextDelivery(w)
  \/ Webhooks /\ \E w \in Workers : Send(w)
  \/ Webhooks /\ \E w \in Workers : SendFails(w)
  \/ Webhooks /\ \E w \in Workers : RecordDelivered(w)
  \/ Webhooks /\ \E w \in Workers : RecordFailure(w)
  \/ Webhooks /\ \E w \in Workers : Crash(w)
  \/ Webhooks /\ \E w \in Workers : Stall(w)
  \/ Webhooks /\ PurgeSettledDeliveries
  \/ Webhooks /\ Tick
  \/ Email /\ \E m \in Messages : Outbox!EnqueueEmail(m)
  \/ Email /\ \E m \in Messages : Outbox!ApplyEmailEvent(m)
  \/ Email /\ Outbox!RecoverStaleEmails
  \/ Email /\ Outbox!PruneEmails
  \/ Email /\ \E w \in Workers : Outbox!ClaimStart(w)
  \/ Email /\ \E w \in Workers : Outbox!ClaimNextEmail(w)
  \/ Email /\ \E w \in Workers : Outbox!CheckExpiry(w)
  \/ Email /\ \E w \in Workers : Outbox!CheckSuppressed(w)
  \/ Email /\ \E w \in Workers : Outbox!DeliverEmail(w)
  \/ Email /\ \E w \in Workers : Outbox!DeliveryError(w)
  \/ Email /\ \E w \in Workers : Outbox!Settle(w)
  \/ Email /\ \E w \in Workers : Outbox!SettleFails(w)
  \/ Email /\ \E w \in Workers : Outbox!RetryOrFail(w)
  \/ Email /\ \E w \in Workers : Outbox!Crash(w)
  \/ Email /\ Outbox!Tick

MCVars == <<subject, vars, mail>>

\* Fairness and Outbox!Fairness, each when it is the subject.
MCSpec ==
  /\ MCInit /\ [][MCNext]_MCVars
  /\ WF_MCVars(Webhooks /\ Tick)
  /\ WF_MCVars(Email /\ Outbox!Tick)
  /\ WF_MCVars(Email /\ Outbox!RecoverStaleEmails)
  /\ \A w \in Workers :
       /\ WF_MCVars(Webhooks /\ ClaimStart(w))
       /\ WF_MCVars(Webhooks /\ ClaimNextDelivery(w))
       /\ WF_MCVars(Webhooks /\ (Send(w) \/ SendFails(w)))
       /\ WF_MCVars(Webhooks /\ (RecordDelivered(w) \/ RecordFailure(w)))
       /\ WF_MCVars(Email /\ Outbox!ClaimStart(w))
       /\ WF_MCVars(Email /\ Outbox!ClaimNextEmail(w))
       /\ WF_MCVars(Email /\ (Outbox!CheckExpiry(w) \/ Outbox!CheckSuppressed(w)))
       /\ WF_MCVars(Email /\ (Outbox!DeliverEmail(w) \/ Outbox!DeliveryError(w)))
       /\ WF_MCVars(Email /\ (Outbox!Settle(w) \/ Outbox!RetryOrFail(w)))

\* However drains overlap, no webhook and no message is handed over twice but for a
\* crash, a frozen instance or a lost answer, and a delivery given up was really tried.
SentOnce == NoDoubleSend /\ SettledTruthfully /\ Outbox!NoDoubleSend

\* As in EmailOutbox.
SuppressionHonoured == Outbox!SuppressionHonoured

\* Every queued delivery and every queued message is settled.
OutgoingSettles == DeliveriesSettle /\ Outbox!MessagesSettle
=============================================================================
