--------------------------- MODULE SupportSessions ---------------------------
(***************************************************************************)
(* A member of ResumeRank's staff looks at a workspace as one of its       *)
(* members (staff/support-sessions.ts) while its owners grant or withdraw  *)
(* support access (services/support-access.ts).  The staff member's tabs   *)
(* share one sign-in and send actions that runAction and the guards        *)
(* (lib/auth/guards.ts) check one after the other.                         *)
(***************************************************************************)
EXTENDS Naturals, Sequences, FiniteSets

CONSTANTS
  Tabs,         \* requests of the staff member's sign-in that may overlap
  Minutes,      \* the lengths a session may be asked for
  Days,         \* the lengths of a grant
  MaxSessions,  \* bound: support sessions started
  MaxGrants,    \* bound: decisions of the owners and of staff administration
  MaxClock,     \* bound
  None          \* SQL NULL

VARIABLES
  clock,
  until,      \* Company.supportAccessUntil
  onStaff,    \* the StaffMember row exists
  isMember,   \* the person viewed has their membership
  session,    \* the SupportSession rows, in the order of their commits
  tab,        \* what each tab's request is doing
  grants,
  entries,    \* "support.session_end" entries of each session
  withdrawn,  \* the sessions that were there when an owner withdrew the access
  written     \* something was written as the person viewed

vars == <<clock, until, onStaff, isMember, session, tab, grants, entries, withdrawn, written>>

\* What the constants must be; the module that instantiates this one assumes it.
SupportAssumption ==
  /\ Minutes \cup Days \subseteq Nat \ {0}
  /\ {MaxSessions, MaxGrants, MaxClock} \subseteq Nat
  /\ None \notin Nat

Session == [expires: Nat, ended: Nat \cup {None}]
Kinds == {"tenant", "account"}
Idle == [op |-> "none"]
Request == {Idle}
  \cup [op: {"start"}, pc: {"allowed", "granted", "ended"}, now: Nat, minutes: Minutes,
        expires: Nat, ending: SUBSET (1..MaxSessions)]
  \cup [op: {"act"}, kind: Kinds]

TypeOK ==
  /\ clock \in 0..MaxClock
  /\ until \in Nat \cup {None}
  /\ {onStaff, isMember} \subseteq BOOLEAN
  /\ session \in Seq(Session) /\ Len(session) <= MaxSessions
  /\ tab \in [Tabs -> Request]
  /\ grants \in 0..MaxGrants
  /\ entries \in Seq(Nat) /\ Len(entries) = Len(session)
  /\ withdrawn \subseteq DOMAIN session
  /\ written \in BOOLEAN

Init ==
  /\ clock = 0
  /\ until \in {None} \cup Days
  /\ onStaff = TRUE
  /\ isMember = TRUE
  /\ session = << >>
  /\ tab = [t \in Tabs |-> Idle]
  /\ grants = 0
  /\ entries = << >>
  /\ withdrawn = {}
  /\ written = FALSE
-----------------------------------------------------------------------------
(* The sessions. *)

Granted == until # None /\ until > clock
Live(i) == session[i].ended = None /\ session[i].expires > clock

\* activeSupportSession
ActiveSupportSession == onStaff /\ Granted /\ \E i \in DOMAIN session : Live(i)

\* supportSessionUser: the guards' answer to whom a request acts as.
ViewsAsMember == ActiveSupportSession /\ isMember

\* The rows that transactions of the tabs have updated and not committed.
Locked == UNION {tab[t].ending : t \in {u \in Tabs : tab[u].op = "start"}}

Open == {i \in DOMAIN session : session[i].ended = None}

\* endSessions: one statement, which waits for the rows it finds.
Ending == Open

End(ending, now) == [i \in DOMAIN session |-> IF i \in ending THEN [session[i] EXCEPT !.ended = now] ELSE session[i]]
Logged(ending) == [i \in DOMAIN entries |-> IF i \in ending THEN entries[i] + 1 ELSE entries[i]]

\* requireStaffSession and staffCompanyMember, before the transaction.
StartSupportSession(t, minutes) ==
  /\ tab[t] = Idle
  /\ onStaff /\ isMember /\ ~ViewsAsMember
  /\ Len(session) + Cardinality({u \in Tabs : tab[u].op = "start"}) < MaxSessions
  /\ tab' = [tab EXCEPT ![t] = [op |-> "start", pc |-> "allowed", now |-> clock, minutes |-> minutes,
                                expires |-> 0, ending |-> {}]]
  /\ UNCHANGED <<clock, until, onStaff, isMember, session, grants, entries, withdrawn, written>>

Earlier(a, b) == IF a < b THEN a ELSE b

ReadGrant(t) ==
  /\ tab[t].op = "start" /\ tab[t].pc = "allowed"
  /\ tab' = [tab EXCEPT ![t] =
       IF until = None \/ until <= tab[t].now THEN Idle
       ELSE [@ EXCEPT !.pc = "granted", !.expires = Earlier(tab[t].now + tab[t].minutes, until)]]
  /\ UNCHANGED <<clock, until, onStaff, isMember, session, grants, entries, withdrawn, written>>

EndOthers(t) ==
  /\ tab[t].op = "start" /\ tab[t].pc = "granted"
  /\ Ending \cap Locked = {}
  /\ tab' = [tab EXCEPT ![t].pc = "ended", ![t].ending = Ending]
  /\ UNCHANGED <<clock, until, onStaff, isMember, session, grants, entries, withdrawn, written>>

CommitStart(t) ==
  /\ tab[t].op = "start" /\ tab[t].pc = "ended"
  /\ session' = Append(End(tab[t].ending, tab[t].now), [expires |-> tab[t].expires, ended |-> None])
  /\ entries' = Append(Logged(tab[t].ending), 0)
  /\ tab' = [tab EXCEPT ![t] = Idle]
  /\ UNCHANGED <<clock, until, onStaff, isMember, grants, withdrawn, written>>

\* Whoever is in a session may leave it.
EndSupportSession(t) ==
  /\ tab[t] = Idle
  /\ onStaff
  /\ Ending # {} /\ Ending \cap Locked = {}
  /\ session' = End(Ending, clock)
  /\ entries' = Logged(Ending)
  /\ UNCHANGED <<clock, until, onStaff, isMember, tab, grants, withdrawn, written>>
-----------------------------------------------------------------------------
(* The workspace's owners, its team and staff administration. *)

Decided == grants < MaxGrants /\ grants' = grants + 1

GrantSupportAccess(days) ==
  /\ Decided
  /\ until' = clock + days
  /\ UNCHANGED <<clock, onStaff, isMember, session, tab, entries, withdrawn, written>>

\* mutant: the sessions are left to the grant
Withdrawn_Nothing == {}

\* "Which also ends any session in progress".
Withdrawn == {i \in DOMAIN session : Live(i)}

WithdrawSupportAccess ==
  /\ Decided
  /\ Withdrawn \cap Locked = {}
  /\ until' = None
  /\ session' = End(Withdrawn, clock)
  /\ withdrawn' = withdrawn \cup DOMAIN session
  /\ UNCHANGED <<clock, onStaff, isMember, tab, entries, written>>

SetStaff == Decided /\ onStaff' = ~onStaff
  /\ UNCHANGED <<clock, until, isMember, session, tab, entries, withdrawn, written>>

SetMember == Decided /\ isMember' = ~isMember
  /\ UNCHANGED <<clock, until, onStaff, session, tab, entries, withdrawn, written>>
-----------------------------------------------------------------------------
(* An action of the application: it writes in a tenant transaction, or it    *)
(* acts on the account behind requireUserSession.                            *)

\* runAction: only the console's own actions run in a support session.
RunAction(t, kind) ==
  /\ tab[t] = Idle
  /\ ~ActiveSupportSession
  /\ tab' = [tab EXCEPT ![t] = [op |-> "act", kind |-> kind]]
  /\ UNCHANGED <<clock, until, onStaff, isMember, session, grants, entries, withdrawn, written>>

\* tenantContext
ReadOnly == ViewsAsMember

\* The body, with the guards' own look at the session.
RunBody(t) ==
  LET writes == IF tab[t].kind = "tenant" THEN ~ReadOnly ELSE ~ViewsAsMember IN
  /\ tab[t].op = "act"
  /\ written' = (written \/ (writes /\ ViewsAsMember))
  /\ tab' = [tab EXCEPT ![t] = Idle]
  /\ UNCHANGED <<clock, until, onStaff, isMember, session, grants, entries, withdrawn>>

Tick ==
  /\ clock < MaxClock
  /\ clock' = clock + 1
  /\ UNCHANGED <<until, onStaff, isMember, session, tab, grants, entries, withdrawn, written>>
-----------------------------------------------------------------------------
Next ==
  \/ \E t \in Tabs :
       \/ \E m \in Minutes : StartSupportSession(t, m)
       \/ ReadGrant(t) \/ EndOthers(t) \/ CommitStart(t) \/ EndSupportSession(t)
       \/ \E kind \in Kinds : RunAction(t, kind)
       \/ RunBody(t)
  \/ \E d \in Days : GrantSupportAccess(d)
  \/ WithdrawSupportAccess \/ SetStaff \/ SetMember \/ Tick

Spec == Init /\ [][Next]_vars
-----------------------------------------------------------------------------
(* Properties. *)

\* A session that was there when the access was withdrawn shows the workspace no more,
\* whatever is granted later.
WithdrawalEnds == \A i \in withdrawn : ~Live(i)

\* A session's end is entered in the log once, however many tabs end it.
EndedOnce == \A i \in DOMAIN session : entries[i] <= 1

\* Nothing of the workspace is written as the person viewed, even by an action that was
\* let through before the session began.
WorkspaceReadOnly == ~written

\* All three.
SupportBounded == WithdrawalEnds /\ EndedOnce /\ WorkspaceReadOnly
=============================================================================
