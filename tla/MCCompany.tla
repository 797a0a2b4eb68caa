------------------------------ MODULE MCCompany ------------------------------
(***************************************************************************)
(* Instances of Memberships, Billing and Metering for TLC.  The three      *)
(* share no state: a behaviour is one of the subject chosen at the start.  *)
(***************************************************************************)
EXTENDS Memberships

CONSTANTS u1, u2, u3, r1, r2, s1, s2, h1, h2, p1, p2,
          Subs, Handlers, MaxChanges, MaxFaults,
          Passes, BatchSize, Settle, MaxAge, MaxRuns, LastFinish, MaxEvents

VARIABLES subject,
          sub, event, recorded, account, handler, sessions, faults, applied, raced, doubled,
          clock, finishedAt, committed, cursor, start, reported, aged, pass, webhook, events, meterFaults

Stripe == INSTANCE Billing
Meter == INSTANCE Metering WITH faults <- meterFaults

ASSUME InstanceAssumption == Stripe!BillingAssumption /\ Meter!MeteringAssumption

billing == <<sub, event, recorded, account, handler, sessions, faults, applied, raced, doubled>>
metering == <<clock, finishedAt, committed, cursor, start, reported, aged, pass, webhook, events, meterFaults>>

\* What is not the subject starts in one state and stays there.
MCInit ==
  /\ subject \in {"team", "billing", "metering"}
  /\ Init /\ Stripe!Init /\ Meter!Init
  /\ subject = "team" \/ limit = None
  /\ subject = "billing" \/ account = Stripe!NoSubscription
  /\ subject = "metering" \/ cursor = None

Team == subject = "team" /\ UNCHANGED <<subject, billing, metering>>
Paying == subject = "billing" /\ UNCHANGED <<subject, vars, metering>>
Metered == subject = "metering" /\ UNCHANGED <<subject, vars, billing>>

MCNext ==
  \/ Team /\ \E r \in Requests : BeginRole(r)
  \/ Team /\ \E r \in Requests : BeginRemove(r)
  \/ Team /\ \E r \in Requests : BeginTransfer(r)
  \/ Team /\ \E r \in Requests : BeginDeprovision(r)
  \/ Team /\ \E r \in Requests : BeginDelete(r)
  \/ Team /\ \E r \in Requests : BeginInvite(r)
  \/ Team /\ \E r \in Requests : BeginAccept(r)
  \/ Team /\ \E r \in Requests : BeginJoin(r)
  \/ Team /\ \E r \in Requests : ReadTarget(r)
  \/ Team /\ \E r \in Requests : UpdateMemberRole(r)
  \/ Team /\ \E r \in Requests : RemoveMember(r)
  \/ Team /\ \E r \in Requests : TransferOwnership(r)
  \/ Team /\ \E r \in Requests : ChangeFails(r)
  \/ Team /\ \E r \in Requests : ClaimInvite(r)
  \/ Team /\ \E r \in Requests : ReadLimit(r)
  \/ Team /\ \E r \in Requests : LockSeats(r)
  \/ Team /\ \E r \in Requests : CountSeats(r)
  \/ Team /\ \E r \in Requests : CreateInvite(r)
  \/ Team /\ \E r \in Requests : CreateMembership(r)
  \/ Team /\ \E r \in Requests : AlreadyMember(r)
  \/ Team /\ ResolveDeadlock
  \/ Team /\ \E u \in Users : RevokeInvite(u)
  \/ Team /\ \E u \in Users : ExpireInvite(u)
  \/ Team /\ SetLimit
  \/ Paying /\ \E s \in Subs : Stripe!CompleteCheckout(s)
  \/ Paying /\ \E s \in Subs : Stripe!Change(s)
  \/ Paying /\ Stripe!StartCheckout
  \/ Paying /\ Stripe!DeleteCompany
  \/ Paying /\ \E h \in Handlers : Stripe!RetrieveSubscription(h)
  \/ Paying /\ \E h \in Handlers : Stripe!OpenTransaction(h)
  \/ Paying /\ \E h \in Handlers : Stripe!Apply(h)
  \/ Paying /\ \E h \in Handlers : Stripe!Fail(h)
  \/ Metered /\ Meter!FinishRun
  \/ Metered /\ Meter!Commit
  \/ Metered /\ Meter!Tick
  \/ Metered /\ Meter!ReadRow
  \/ Metered /\ Meter!WriteRow
  \/ Metered /\ \E p \in Passes : Meter!ChooseAccount(p)
  \/ Metered /\ \E p \in Passes : Meter!ReadRuns(p)
  \/ Metered /\ \E p \in Passes : Meter!ReportUsage(p)
  \/ Metered /\ \E p \in Passes : Meter!SaveCursor(p)
  \/ Metered /\ \E p \in Passes : Meter!Crash(p)

MCVars == <<subject, vars, billing, metering>>

\* FairSpec of each module.  Only the actions of one subject are ever enabled, so the
\* fairness of a disjunction is that of its disjunct about the subject.
MCSpec ==
  /\ MCInit /\ [][MCNext]_MCVars
  /\ WF_MCVars((Team /\ ResolveDeadlock) \/ (Metered /\ Meter!Commit))
  /\ WF_MCVars((Paying /\ Stripe!RetrieveSubscription(h1)) \/ (Metered /\ Meter!Tick))
  /\ WF_MCVars((Paying /\ Stripe!RetrieveSubscription(h2)) \/ (Metered /\ Meter!WriteRow))
  /\ WF_MCVars((Team /\ Proceed(r1)) \/ (Paying /\ Stripe!Handle(h1)) \/ (Metered /\ Meter!Report(p1)))
  /\ WF_MCVars((Team /\ Proceed(r2)) \/ (Paying /\ Stripe!Handle(h2)) \/ (Metered /\ Meter!Report(p2)))

\* Late, repeated and reordered events leave the latest state behind, each with one effect.
LatestStored == Stripe!LatestStored /\ Stripe!AppliedOnce

\* As in Billing.
GraceRuns == Stripe!GraceRuns

\* As in Metering.
NothingSkipped == Meter!NothingSkipped

\* Every request ends, every event is handled and all usage reaches Stripe: the requests,
\* events and runs are finitely many, so that from some moment on none is left.
AllSettles == <>[](/\ \A r \in Requests : req[r].pc = "idle"
                   /\ \A e \in Stripe!Events : event[e] # None => e \in recorded
                   /\ Meter!AllReported)
=============================================================================
