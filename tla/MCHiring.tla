------------------------------- MODULE MCHiring -------------------------------
(***************************************************************************)
(* Instances of HiringPipeline, KeysetList and SupportSessions for TLC.    *)
(* The three share no state: a behaviour is one of the focus chosen at the *)
(* start, for the hiring pipeline of one of its concerns.                  *)
(***************************************************************************)
EXTENDS HiringPipeline, TLC

CONSTANTS p1, p2, p3, t1, t2,
          ListIds, Keys, PageSize, MaxListChanges, Absent,
          Tabs, Minutes, Days, MaxSessions, MaxGrants, MaxClock

VARIABLES focus,
          view, listed, page, walk, steady, listChanges,
          clock, until, onStaff, isMember, session, tab, grants, entries, withdrawn, written

Lists == INSTANCE KeysetList WITH Ids <- ListIds, MaxChanges <- MaxListChanges, row <- listed, changes <- listChanges
Support == INSTANCE SupportSessions

ASSUME InstanceAssumption == Lists!KeysetAssumption /\ Support!SupportAssumption

list == <<view, listed, page, walk, steady, listChanges>>
support == <<clock, until, onStaff, isMember, session, tab, grants, entries, withdrawn, written>>

\* Of everybody who decides, one sees every job, one those of a team, one no scores.
Team == p1 :> "MEMBER" @@ p2 :> "HIRING_MANAGER" @@ p3 :> "INTERVIEWER"
Staffers == p1 :> "ADMIN" @@ p2 :> "HIRING_MANAGER" @@ p3 :> "INTERVIEWER"

\* What is not in focus starts in one state and stays there.
MCInit ==
  /\ focus \in {"decisions", "list", "team", "form", "pages", "support"}
  /\ role = IF focus = "team" THEN Staffers ELSE Team
  /\ team = IF focus = "team" THEN {} ELSE {p2, p3}
  /\ Init
  /\ until \in IF focus = "support" THEN {None} \cup Days ELSE {None}
  /\ Support!Init
  /\ listed \in IF focus = "pages" THEN [ListIds -> Keys \cup {None, Absent}] ELSE {[i \in ListIds |-> Absent]}
  /\ Lists!Init
  /\ focus = "pages" \/ view.sort = "score"

Focus(f, others) == focus = f /\ UNCHANGED <<focus, others>>
Pages == Focus("pages", <<vars, support>>)
Viewing == Focus("support", <<vars, list>>)
Hiring(f) == Focus(f, <<list, support>>)

\* Two people decide about one application, or one about two.
Served == {<<"decisions", p1, 1>>, <<"decisions", p2, 1>>, <<"list", p1, 1>>, <<"list", p1, 2>>}

MCNext ==
  \/ Hiring("team") /\ \E p \in People, r \in Roles \cup {None} : SetMembership(p, r)
  \/ Hiring("team") /\ \E p \in People : AssignToJob(p)
  \/ Hiring("team") /\ \E p \in People : UnassignFromJob(p)
  \/ Hiring("team") /\ \E p \in People : AddDepartmentMember(p)
  \/ Hiring("team") /\ \E p \in People : RemoveDepartmentMember(p)
  \/ Hiring("team") /\ \E filed \in BOOLEAN : SetJobDepartment(filed)
  \/ Hiring("team") /\ CreateDepartment
  \/ Hiring("team") /\ DeleteDepartment
  \/ Hiring("team") /\ SetJobStatus
  \/ \E s \in Served : Hiring(s[1]) /\ RequestCreate(s[2], s[3])
  \/ \E s \in Served : Hiring(s[1]) /\ RequestRemove(s[2], s[3])
  \/ \E s \in Served : Hiring(s[1]) /\ RequestRate(s[2], s[3])
  \/ \E s \in Served, to \in Stages : Hiring(s[1]) /\ RequestStage(s[2], s[3], to)
  \/ \E s \in Served : Hiring(s[1]) /\ ScoreLands(s[3])
  \/ \E f \in {"decisions", "list"}, p \in {p1, p2} : Hiring(f) /\ ReadRow(p)
  \/ \E f \in {"decisions", "list"}, p \in {p1, p2} : Hiring(f) /\ UpdateStage(p)
  \/ \E f \in {"decisions", "list"}, p \in {p1, p2} : Hiring(f) /\ CreateApplication(p)
  \/ \E f \in {"decisions", "list"}, p \in {p1, p2} : Hiring(f) /\ SetApplicationRemoved(p)
  \/ \E f \in {"decisions", "list"}, p \in {p1, p2} : Hiring(f) /\ UpsertScorecard(p)
  \/ \E p \in People : Hiring("form") /\ OpenForm(p)
  \/ \E p \in People : Hiring("form") /\ UpdateJob(p)
  \/ Pages /\ Lists!Open
  \/ Pages /\ Lists!NextPage
  \/ Pages /\ Lists!PrevPage
  \/ Pages /\ Lists!ExportCandidatesCsv
  \/ Pages /\ \E i \in ListIds : Lists!ChangeRow(i)
  \/ Viewing /\ \E t \in Tabs, m \in Minutes : Support!StartSupportSession(t, m)
  \/ Viewing /\ \E t \in Tabs : Support!ReadGrant(t)
  \/ Viewing /\ \E t \in Tabs : Support!EndOthers(t)
  \/ Viewing /\ \E t \in Tabs : Support!CommitStart(t)
  \/ Viewing /\ \E t \in Tabs : Support!EndSupportSession(t)
  \/ Viewing /\ \E t \in Tabs, kind \in Support!Kinds : Support!RunAction(t, kind)
  \/ Viewing /\ \E t \in Tabs : Support!RunBody(t)
  \/ Viewing /\ \E d \in Days : Support!GrantSupportAccess(d)
  \/ Viewing /\ Support!WithdrawSupportAccess
  \/ Viewing /\ Support!SetStaff
  \/ Viewing /\ Support!SetMember
  \/ Viewing /\ Support!Tick

MCSpec == MCInit /\ [][MCNext]_<<focus, vars, list, support>>

\* As in KeysetList.
ListsWalked == Lists!ListsWalked

\* As in SupportSessions.
SupportBounded == Support!SupportBounded
=============================================================================
