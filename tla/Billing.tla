------------------------------- MODULE Billing -------------------------------
(***************************************************************************)
(* One workspace's subscription: Stripe's side of it, the checkout that    *)
(* starts one (services/billing.ts) and the webhook that stores what       *)
(* Stripe says (billing/webhooks.ts).  Each change at Stripe makes an      *)
(* event, which is delivered at least once and in any order; the handler   *)
(* reads the subscription anew, outside the transaction that stores it.    *)
(* The workspace has one Stripe customer, made under an idempotency key.   *)
(***************************************************************************)
EXTENDS Integers, FiniteSets

CONSTANTS
  Subs,         \* subscriptions that may come to exist at Stripe
  Handlers,     \* webhook requests under way
  MaxChanges,   \* bound: changes at Stripe
  MaxFaults,    \* bound: webhook requests that fail
  None          \* SQL NULL

VARIABLES
  sub,       \* the subscriptions at Stripe
  event,     \* the subscription each event is about, in the order of the changes
  recorded,  \* the StripeEvent rows
  account,   \* the BillingAccount row, None once the workspace is deleted
  handler,   \* the webhook requests
  sessions,  \* checkout sessions somebody may still complete
  faults,
  applied,   \* how often each event had an effect
  raced,     \* a handler that others had overtaken wrote or left the row
  doubled    \* two subscriptions of the workspace were live at once

vars == <<sub, event, recorded, account, handler, sessions, faults, applied, raced, doubled>>
stripe == <<sub, event, doubled>>

\* Trials count as active; unpaid and paused as incomplete, neither paid nor over.
Statuses == {"incomplete", "active", "past_due", "canceled"}
LIVE == {"active", "past_due"}
PAID == {"active"}

\* What Stripe may do to a subscription.  active to active: its seats or its plan.
Turns == [incomplete |-> {"active", "canceled"},
          active |-> {"active", "past_due", "canceled"},
          past_due |-> {"active", "incomplete", "canceled"},
          canceled |-> {}]

Events == 1..MaxChanges

\* version identifies the plan, the seats, the period: whatever one reading returns.
Sub == [status: Statuses, version: Events]
Row == [comped: BOOLEAN, status: Statuses \cup {None}, id: Subs \cup {None}, version: 0..MaxChanges,
        pastDueSince: Events \cup {None}]       \* the event whose handling set it
Before == [id: Subs \cup {None}, pastDueSince: Events \cup {None}]
Handler == [pc: {"idle", "retrieved", "open"}, event: Events \cup {None},
            snapshot: Sub \cup {None},      \* the subscription as Stripe returned it
            before: Before \cup {None},     \* the row as the transaction read it
            overtaken: BOOLEAN]             \* another handler has finished since the reading

\* What the constants must be; the module that instantiates this one assumes it.
BillingAssumption ==
  /\ IsFiniteSet(Subs)
  /\ MaxChanges \in Nat
  /\ MaxFaults \in Nat
  /\ None \notin Subs \cup Nat \cup Sub \cup Row \cup Before

Idle == [pc |-> "idle", event |-> None, snapshot |-> None, before |-> None, overtaken |-> FALSE]
NoSubscription == [comped |-> FALSE, status |-> None, id |-> None, version |-> 0, pastDueSince |-> None]

TypeOK ==
  /\ sub \in [Subs -> Sub \cup {None}]
  /\ event \in [Events -> Subs \cup {None}]
  /\ recorded \subseteq Events
  /\ account \in Row \cup {None}
  /\ handler \in [Handlers -> Handler]
  /\ sessions \in Nat
  /\ faults \in 0..MaxFaults
  /\ applied \in [Events -> Nat]
  /\ raced \in BOOLEAN
  /\ doubled \in BOOLEAN

\* A new workspace is on Free; one from before billing is comped.
Init ==
  /\ sub = [s \in Subs |-> None]
  /\ event = [e \in Events |-> None]
  /\ recorded = {}
  /\ \E comped \in BOOLEAN : account = [NoSubscription EXCEPT !.comped = comped]
  /\ handler = [h \in Handlers |-> Idle]
  /\ sessions = 0
  /\ faults = 0
  /\ applied = [e \in Events |-> 0]
  /\ raced = FALSE
  /\ doubled = FALSE

IsLive(s) == sub[s] # None /\ sub[s].status \in LIVE
Pending == {e \in Events : event[e] # None /\ e \notin recorded}
\* Every event was handled, and nobody is at it.
Quiet == Pending = {} /\ \A h \in Handlers : handler[h].pc = "idle"
-----------------------------------------------------------------------------
(* Stripe. *)

\* The subscription's next state and the event about it.
Turn(s, status) ==
  \E n \in Events :
    /\ event[n] = None
    /\ \A m \in 1..(n - 1) : event[m] # None
    /\ sub' = [sub EXCEPT ![s] = [status |-> status, version |-> n]]
    /\ event' = [event EXCEPT ![n] = s]
    /\ doubled' = (doubled \/ \E t \in Subs \ {s} : IsLive(t) /\ status \in LIVE)

\* Somebody pays at a checkout, or the payment still needs them.
CompleteCheckout(s) ==
  /\ sessions > 0
  /\ sub[s] = None
  /\ sessions' = sessions - 1
  /\ \E status \in {"incomplete", "active"} : Turn(s, status)
  /\ UNCHANGED <<recorded, account, handler, faults, applied, raced>>

\* The portal, a card, the end of a period, the workspace's deletion.
Change(s) ==
  /\ sub[s] # None
  /\ \E status \in Turns[sub[s].status] : Turn(s, status)
  /\ UNCHANGED <<recorded, account, handler, sessions, faults, applied, raced>>
-----------------------------------------------------------------------------
(* services/billing.ts and services/offboarding.ts. *)

SUBSCRIBED == LIVE

\* A session for a workspace without a subscription to change; several may be open.
StartCheckout ==
  /\ account # None
  /\ account.comped \/ account.status \notin SUBSCRIBED
  /\ sessions < Cardinality({s \in Subs : sub[s] = None})
  /\ sessions' = sessions + 1
  /\ UNCHANGED <<stripe, recorded, account, handler, faults, applied, raced>>

\* The row goes with the company.
DeleteCompany ==
  /\ account # None
  /\ account' = None
  /\ UNCHANGED <<stripe, recorded, handler, sessions, faults, applied, raced>>
-----------------------------------------------------------------------------
(* applyStripeEvent. *)

\* Deliveries of a recorded event end at once; the insert below looks again.
RetrieveSubscription(h) == \E e \in Pending :
  /\ handler[h].pc = "idle"
  /\ handler' = [handler EXCEPT ![h] = [Idle EXCEPT !.pc = "retrieved", !.event = e, !.snapshot = sub[event[e]]]]
  /\ UNCHANGED <<stripe, recorded, account, sessions, faults, applied, raced>>

Read == IF account = None THEN None ELSE [id |-> account.id, pastDueSince |-> account.pastDueSince]

\* recordEvent inserts the id, and waits for a transaction that has inserted it.
OpenTransaction(h) ==
  /\ handler[h].pc = "retrieved"
  /\ \A g \in Handlers \ {h} : ~(handler[g].pc = "open" /\ handler[g].event = handler[h].event)
  /\ handler' = IF handler[h].event \in recorded THEN [handler EXCEPT ![h] = Idle]
                ELSE [handler EXCEPT ![h].pc = "open", ![h].before = Read]
  /\ UNCHANGED <<stripe, recorded, account, sessions, faults, applied, raced>>

\* mutant: an event about a subscription since replaced is applied like any other
Ignored_NotReplaced(before, snapshot, id) ==
  FALSE

\* A late event about a subscription since replaced, which is not live.
Ignored(before, snapshot, id) ==
  before.id # None /\ before.id # id /\ snapshot.status \notin LIVE

\* mutant: every failed payment starts the grace period again
PastDueSince_Restarts(before, snapshot, e) == IF snapshot.status = "past_due" THEN e ELSE None

PastDueSince(before, snapshot, e) ==
  IF snapshot.status # "past_due" THEN None
  ELSE IF before.pastDueSince # None THEN before.pastDueSince ELSE e

\* The company was deleted after the transaction read it: the foreign key refuses the row.
Orphaned(h) == handler[h].pc = "open" /\ handler[h].before # None /\ account = None

\* The row becomes what was read, whatever it is meanwhile; the event counts as handled.
Apply(h) ==
  LET q == handler[h]
      id == event[q.event]
  IN
  /\ q.pc = "open"
  /\ ~Orphaned(h)
  /\ recorded' = recorded \cup {q.event}
  /\ raced' = (raced \/ q.overtaken)
  /\ handler' = [g \in Handlers |-> IF g = h THEN Idle
                                    ELSE [handler[g] EXCEPT !.overtaken = @ \/ handler[g].snapshot # None]]
  /\ IF q.before = None \/ Ignored(q.before, q.snapshot, id)
     THEN UNCHANGED <<account, applied>>
     ELSE /\ account' = [comped |-> FALSE, status |-> q.snapshot.status, id |-> id,
                         version |-> q.snapshot.version,
                         pastDueSince |-> PastDueSince(q.before, q.snapshot, q.event)]
          /\ applied' = [applied EXCEPT ![q.event] = @ + 1]
  /\ UNCHANGED <<stripe, sessions, faults>>

\* A request fails, its instance dies or its company was deleted under it: nothing is
\* recorded and Stripe retries.
Fail(h) ==
  /\ handler[h].pc # "idle"
  /\ \/ faults < MaxFaults /\ faults' = faults + 1
     \/ Orphaned(h) /\ UNCHANGED faults
  /\ handler' = [handler EXCEPT ![h] = Idle]
  /\ UNCHANGED <<stripe, recorded, account, sessions, applied, raced>>
-----------------------------------------------------------------------------
Stripe == \E s \in Subs : CompleteCheckout(s) \/ Change(s)
Handle(h) == OpenTransaction(h) \/ Apply(h) \/ (Orphaned(h) /\ Fail(h))

Next ==
  \/ Stripe
  \/ StartCheckout \/ DeleteCompany
  \/ \E h \in Handlers : RetrieveSubscription(h) \/ Handle(h) \/ Fail(h)

Spec == Init /\ [][Next]_vars

(* Fairness.  Stripe delivers an event again until it is answered. *)
Fairness == \A h \in Handlers : WF_vars(RetrieveSubscription(h)) /\ WF_vars(Handle(h))
FairSpec == Spec /\ Fairness
-----------------------------------------------------------------------------
(* Properties. *)

\* "Events arriving late or out of order still leave the latest state behind": once
\* every event is handled the row shows its subscription as it is at Stripe, and a
\* live subscription is the one it shows.  Unless a handler
\* decided that others had overtaken since its reading, or two subscriptions were live
\* at once.
LatestStored ==
  Quiet /\ ~raced /\ ~doubled /\ account # None =>
    /\ account.id # None => sub[account.id].version = account.version
    /\ \A s \in Subs : IsLive(s) => account.id = s

\* An event has its effect once, however often and by how many it is delivered.
AppliedOnce == \A e \in Events : applied[e] <= 1

\* While a row stays past due on one subscription its grace period does not start
\* again, but for a handler that had read the row before it was past due.
GraceRuns == [][account # None /\ account' # None /\ account.pastDueSince # None
                /\ account'.pastDueSince # None
                  => account'.pastDueSince = account.pastDueSince \/ raced']_vars

\* Every event is handled in the end.
EventsHandled == \A e \in Events : event[e] # None ~> e \in recorded

=============================================================================
