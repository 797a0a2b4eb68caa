------------------------------ MODULE PageGuards ------------------------------
(***************************************************************************)
(* One person's sign-in on its way through the pages: the proxy, the       *)
(* guards (lib/auth/guards.ts), the pages that hold a session for a step   *)
(* it still owes, the route that clears a dead one, and the actions that   *)
(* release it.  What the workspaces' owners, their identity providers and  *)
(* ResumeRank's staff may have set meanwhile is in the initial states:     *)
(* each combination is one that a sign-in may wake up to.                  *)
(***************************************************************************)
EXTENDS Naturals, FiniteSets

CONSTANTS
  Companies,  \* 1, 2, ... in the order the person joined them
  Kinds,      \* what each membership and its company may be like
  MaxSteps,   \* bound: redirects and steps from a visit to the page it leads to
  None        \* SQL NULL, and no membership

VARIABLES
  account,    \* the User and StaffMember rows, as far as the guards read them
  workspace,  \* the memberships with their companies' rules
  login,      \* the LoginSession row, with what the token proves
  support,    \* the support session of this sign-in; "lapsed": its member has left
  browser     \* the page asked for or shown, and whether there is a cookie

vars == <<account, workspace, login, support, browser>>

Kind == [owner: BOOLEAN, suspended: BOOLEAN, ssoEnforced: BOOLEAN, mfaRequired: BOOLEAN,
         excludes: BOOLEAN,     \* its IP allowlist has no range with this network
         brief: BOOLEAN]        \* its session policy is over for a sign-in that is old

ASSUME PageGuardsAssumption ==
  /\ IsFiniteSet(Companies) /\ Companies = 1..Cardinality(Companies) /\ Companies # {}
  /\ \A c \in Companies : Kinds[c] \subseteq Kind
  /\ MaxSteps \in Nat
  /\ None \notin Companies \cup Kind

Gates == {"mfa", "mfa/setup", "password-change", "network-blocked"}
Protected == Gates \cup {"app", "onboarding", "workspace-suspended", "staff"}
Pages == Protected \cup {"session-ended", "login", "not-found"}

Account == [mfa: BOOLEAN, staff: BOOLEAN, preferred: Companies \cup {None}]
Login == [live: BOOLEAN, old: BOOLEAN, opened: Companies \cup {None}, sso: Companies \cup {None},
          passwordChange: BOOLEAN, proven: BOOLEAN]
Browser == [cookie: BOOLEAN, at: Pages, next: Pages, shown: BOOLEAN, steps: 0..(MaxSteps + 1)]

Plain == [owner |-> TRUE, suspended |-> FALSE, ssoEnforced |-> FALSE, mfaRequired |-> FALSE,
          excludes |-> FALSE, brief |-> FALSE]

TypeOK ==
  /\ account \in Account
  /\ workspace \in [Companies -> Kind \cup {None}]
  /\ login \in Login
  /\ support \in {"none", "viewing", "lapsed"}
  /\ browser \in Browser

Member == {c \in Companies : workspace[c] # None}

\* A sign-in with a cookie.  Only a password is held for a change, and only staff who had
\* proved their factor have a support session.
Init ==
  /\ account \in Account
  /\ workspace \in [Companies -> UNION {Kinds[c] : c \in Companies} \cup {None}]
  /\ \A c \in Member : workspace[c] \in Kinds[c]
  /\ login \in Login
  /\ login.passwordChange => login.sso = None
  /\ login.proven => account.mfa
  /\ support \in {"none", "viewing", "lapsed"}
  /\ support # "none" => account.staff
  /\ browser = [cookie |-> TRUE, at |-> "app", next |-> "app", shown |-> FALSE, steps |-> 0]
-----------------------------------------------------------------------------
(* Which workspace a sign-in has open (auth/workspace-policy.ts). *)

Suspended(c) == workspace[c].suspended
\* Owners are exempt from both rules.
RequiresSso(c) == workspace[c].ssoEnforced /\ ~workspace[c].owner
Excluded(c) == workspace[c].excludes /\ ~workspace[c].owner

SignInMayOpen(c, sso) == RequiresSso(c) => sso = c
MayOpen(c, sso) == ~Suspended(c) /\ SignInMayOpen(c, sso)

\* The company whose provider vouched for it, the last one open, the oldest.
LandingWorkspace(sso) ==
  LET openable == {c \in Member : MayOpen(c, sso)}
  IN CASE sso \in openable -> sso
       [] sso \notin openable /\ account.preferred \in openable -> account.preferred
       [] openable \cap {sso, account.preferred} = {} /\ openable # {} ->
            CHOOSE c \in openable : \A d \in openable : c <= d
       [] OTHER -> None

\* resolveWorkspace: one that requires SSO by now is kept, for the guards to refuse.
Active == IF login.opened \in Member /\ ~Suspended(login.opened) THEN login.opened
          ELSE LandingWorkspace(login.sso)
-----------------------------------------------------------------------------
(* The guards: what getSignedInSession throws and returns. *)

Ended == ~login.live \/ (Active # None /\ workspace[Active].brief /\ login.old)

Session ==
  CASE Ended -> "ended"
    [] ~Ended /\ Active = None /\ Member # {} -> IF \A c \in Member : Suspended(c) THEN "suspended" ELSE "sso"
    [] ~Ended /\ Active # None /\ ~SignInMayOpen(Active, login.sso) -> "sso"
    [] OTHER -> "open"

\* An identity provider answers for its own company only.
ViaSso == login.sso # None /\ Active \in {None, login.sso}
Required == Active # None /\ workspace[Active].mfaRequired
Mfa == CASE ViaSso -> "pass"
         [] ~ViaSso /\ account.mfa -> IF login.proven THEN "pass" ELSE "challenge"
         [] OTHER -> IF Required THEN "setup" ELSE "pass"

SecondFactorProven == account.mfa /\ login.proven
\* The staff member sees the workspace as the member; otherwise the sign-in is their own.
Viewing == /\ account.staff /\ SecondFactorProven /\ Mfa = "pass" /\ ~login.passwordChange
           /\ support = "viewing"
Network == IF ~Viewing /\ Active # None /\ Excluded(Active) THEN "blocked" ELSE "allowed"
HasCompany == Viewing \/ Active # None

\* requireLiveSession, requireUser: the first thing in the way.
Gate ==
  CASE Session # "open" -> Session
    [] Session = "open" /\ Mfa # "pass" -> Mfa
    [] Session = "open" /\ Mfa = "pass" /\ login.passwordChange -> "password"
    [] OTHER -> IF Network = "blocked" THEN "network" ELSE "none"

GateRedirect == [challenge |-> "mfa", setup |-> "mfa/setup", password |-> "password-change",
                 network |-> "network-blocked", suspended |-> "workspace-suspended",
                 sso |-> "session-ended", ended |-> "session-ended"]

\* inSupportSession asks for the session's row and nothing else.
InSupportSession == account.staff /\ support # "none"
-----------------------------------------------------------------------------
(* What each page answers: itself, or another page to go to. *)

Answer == [browser EXCEPT !.shown = TRUE]
RedirectOn(page, next) == [browser EXCEPT !.at = page, !.next = next, !.steps = @ + 1]
Redirect(page) == RedirectOn(page, "app")

\* Layouts and pages that ask for requireUser.
App == IF Gate # "none" THEN Redirect(GateRedirect[Gate])
       ELSE IF HasCompany THEN Answer ELSE Redirect("onboarding")
OnboardingPage == IF Gate # "none" THEN Redirect(GateRedirect[Gate]) ELSE Answer

MfaPage == CASE Session # "open" -> Redirect("session-ended")
             [] Session = "open" /\ Mfa = "setup" -> RedirectOn("mfa/setup", browser.next)
             [] Session = "open" /\ Mfa = "pass" -> Redirect(browser.next)
             [] OTHER -> Answer

\* No redirect on a pass: the recovery codes are still to be shown.
MfaSetupPage == CASE Session # "open" -> Redirect("session-ended")
                  [] Session = "open" /\ Mfa = "challenge" -> RedirectOn("mfa", browser.next)
                  [] OTHER -> Answer

PasswordChangePage == CASE Session # "open" -> Redirect("session-ended")
                        [] Session = "open" /\ Mfa # "pass" -> Redirect(GateRedirect[Mfa])
                        [] OTHER -> IF login.passwordChange THEN Answer ELSE Redirect("app")

NetworkBlockedPage == CASE Session # "open" -> Redirect("session-ended")
                        [] Session = "open" /\ Mfa # "pass" -> Redirect(GateRedirect[Mfa])
                        [] Session = "open" /\ Mfa = "pass" /\ login.passwordChange -> Redirect("password-change")
                        [] OTHER -> IF Network = "blocked" THEN Answer ELSE Redirect("app")

WorkspaceSuspendedPage == CASE Session = "suspended" -> Answer
                            [] Session = "open" -> Redirect("app")
                            [] OTHER -> Redirect(GateRedirect[Session])

\* requireStaff: the workspaces' allowlists do not apply to the console.
StaffConsole == CASE Session # "open" -> Redirect(GateRedirect[Session])
                  [] Session = "open" /\ ~account.staff -> [Answer EXCEPT !.at = "not-found"]
                  [] Session = "open" /\ account.staff /\ Mfa # "pass" -> Redirect(GateRedirect[Mfa])
                  [] OTHER -> IF SecondFactorProven /\ login.passwordChange THEN Redirect("password-change")
                              ELSE Answer     \* the console, or the notice about the factor

ClearCookie == [Redirect("login") EXCEPT !.cookie = FALSE]

\* mutant: only a session that owes its second factor is sent on
Held_SecondFactor == Gate \in {"challenge", "setup"}

\* A session that has only a step left is alive.
Held == Gate \in {"challenge", "setup", "password", "network"}

SessionEnded == CASE Gate = "none" -> Redirect("app")
                  [] Held -> Redirect(GateRedirect[Gate])
                  [] OTHER -> ClearCookie

Page == CASE browser.at = "app" -> App
          [] browser.at = "onboarding" -> OnboardingPage
          [] browser.at = "mfa" -> MfaPage
          [] browser.at = "mfa/setup" -> MfaSetupPage
          [] browser.at = "password-change" -> PasswordChangePage
          [] browser.at = "network-blocked" -> NetworkBlockedPage
          [] browser.at = "workspace-suspended" -> WorkspaceSuspendedPage
          [] browser.at = "staff" -> StaffConsole
          [] browser.at = "session-ended" -> SessionEnded
          [] OTHER -> Answer

\* The proxy looks at the cookie alone, before the page does.
Respond == CASE ~browser.cookie /\ browser.at \in Protected -> RedirectOn("login", browser.at)
             [] browser.cookie /\ browser.at = "login" -> Redirect("app")
             [] OTHER -> Page
-----------------------------------------------------------------------------
(* The person. *)

Request ==
  /\ ~browser.shown
  /\ browser.steps <= MaxSteps
  /\ browser' = Respond
  \* Clearing the cookie ends the sign-in's row as well.
  /\ login' = IF browser.cookie /\ ~browser'.cookie THEN [login EXCEPT !.live = FALSE] ELSE login
  /\ UNCHANGED <<account, workspace, support>>

Start(page) == browser' = [browser EXCEPT !.at = page, !.next = "app", !.shown = FALSE, !.steps = 0]

\* A link, a bookmark, the address bar.
Visit(page) ==
  /\ browser.shown
  /\ Start(page)
  /\ UNCHANGED <<account, workspace, login, support>>

Shows(page) == browser.cookie /\ browser.shown /\ browser.at = page
GoTo(page) == browser' = [browser EXCEPT !.at = page, !.next = "app", !.shown = FALSE, !.steps = @ + 1]

\* runAction refuses whatever is not the staff console's; then the action's own guard.
OwnAction == browser.steps <= MaxSteps /\ ~InSupportSession /\ Session = "open"

MayVerify == Shows("mfa") /\ OwnAction /\ Mfa = "challenge"

VerifyMfaChallenge ==
  /\ MayVerify
  /\ login' = [login EXCEPT !.proven = TRUE]
  /\ GoTo(browser.next)
  /\ UNCHANGED <<account, workspace, support>>

\* requireMfaEnrollment.
MayEnroll == Mfa # "challenge" /\ ~Viewing

\* On the page that holds the session, or later in the settings.
MayAddFactor ==
  /\ (Shows("mfa/setup") /\ Mfa = "setup") \/ Shows("app")
  /\ OwnAction
  /\ MayEnroll

\* The first factor turns the second step on; a further one proves it again.
AddFactor ==
  /\ MayAddFactor
  /\ account' = [account EXCEPT !.mfa = TRUE]
  /\ login' = [login EXCEPT !.proven = TRUE]
  /\ IF Shows("app") THEN Start("app") ELSE GoTo(browser.next)
  /\ UNCHANGED <<workspace, support>>

\* The button of the setup page once the factor is there.
MayContinue == Shows("mfa/setup") /\ Mfa = "pass" /\ browser.steps <= MaxSteps

Continue ==
  /\ MayContinue
  /\ GoTo(browser.next)
  /\ UNCHANGED <<account, workspace, login, support>>

\* mutant: the network has to be right to change a password or a workspace
MayChange_SignedIn == Gate = "none" \/ Gate = "password"

\* requirePasswordChange, requireWorkspaceSwitch.
MayChange == Mfa = "pass" /\ ~Viewing

MayChangePassword == Shows("password-change") /\ OwnAction /\ MayChange

ChangePassword ==
  /\ MayChangePassword
  /\ login' = [login EXCEPT !.passwordChange = FALSE]
  /\ GoTo("app")
  /\ UNCHANGED <<account, workspace, support>>

\* The switcher, and the page of a blocked network: blockedBy is null.
Offered == {c \in Member \ {Active} : MayOpen(c, login.sso) /\ ~Excluded(c)}

MaySwitch(c) ==
  /\ Shows("network-blocked") \/ Shows("app")
  /\ OwnAction
  /\ c \in Offered
  /\ MayChange
  /\ MayOpen(c, login.sso)

SwitchWorkspace(c) ==
  /\ MaySwitch(c)
  /\ login' = [login EXCEPT !.opened = c]
  /\ account' = [account EXCEPT !.preferred = c]
  /\ IF Shows("app") THEN Start("app") ELSE GoTo("app")
  /\ UNCHANGED <<workspace, support>>

\* A new company is the latest one joined.
MayCreate(c) ==
  /\ Shows("onboarding") /\ OwnAction
  /\ Gate = "none" /\ ~Viewing
  /\ \A d \in Companies : d >= c => workspace[d] = None

CreateWorkspace(c) ==
  /\ MayCreate(c)
  /\ workspace' = [workspace EXCEPT ![c] = Plain]
  /\ login' = [login EXCEPT !.opened = c]
  /\ account' = [account EXCEPT !.preferred = c]
  /\ GoTo("app")
  /\ UNCHANGED support

\* The banner of the session; whoever is in one may leave it.
EndSupportSession ==
  /\ Shows("app") /\ Viewing
  /\ support' = "none"
  /\ Start("staff")
  /\ UNCHANGED <<account, workspace, login>>

\* mutant: a sign-in is refused only if the person has to use SSO everywhere
PasswordSignInRefused_Everywhere == \A c \in Member : RequiresSso(c)

\* Suspended workspaces do not count: someone who has no other is let in to be told.
PasswordSignInRefused ==
  LET live == {c \in Member : ~Suspended(c)}
  IN live # {} /\ \A c \in live : ~SignInMayOpen(c, None)

\* By password or Google (sso = None), or through a company's identity provider.
SignIn(sso) ==
  /\ ~browser.cookie /\ browser.shown /\ browser.at = "login"
  /\ sso = None => ~PasswordSignInRefused
  /\ \E held \in BOOLEAN :
       /\ held => sso = None
       /\ login' = [live |-> TRUE, old |-> FALSE, opened |-> LandingWorkspace(sso), sso |-> sso,
                    passwordChange |-> held, proven |-> FALSE]
  /\ support' = "none"
  /\ browser' = [browser EXCEPT !.cookie = TRUE, !.shown = FALSE, !.steps = 0,
                   !.at = IF account.mfa /\ sso = None THEN "mfa" ELSE browser.next,
                   !.next = IF account.mfa /\ sso = None THEN browser.next ELSE "app"]
  /\ UNCHANGED <<account, workspace>>
-----------------------------------------------------------------------------
Proceed ==
  \/ VerifyMfaChallenge
  \/ AddFactor
  \/ Continue
  \/ ChangePassword
  \/ \E c \in Companies : SwitchWorkspace(c)
  \/ \E c \in Companies : CreateWorkspace(c)

\* One of them is admitted: the guard of each is its first conjunct.
MayProceed ==
  \/ MayVerify
  \/ MayAddFactor
  \/ MayContinue
  \/ MayChangePassword
  \/ \E c \in Companies : MaySwitch(c) \/ MayCreate(c)

Next ==
  \/ Request
  \/ Proceed
  \/ EndSupportSession
  \/ \E page \in Pages \ {"not-found"} : Visit(page)
  \/ \E sso \in Companies \cup {None} : SignIn(sso)

Spec == Init /\ [][Next]_vars
-----------------------------------------------------------------------------
(* Properties. *)

\* Pages that ask for nothing: the workspace, the console, the notice of a suspension,
\* the login page of someone signed out.
Arrived == \/ browser.at \in {"app", "staff", "workspace-suspended", "login", "not-found"}
           \/ browser.at = "onboarding" /\ Member # {}
\* Nobody but the company, or another network, can help.
Elsewhere == browser.at = "network-blocked" /\ Offered = {}

\* However the rules of the person's workspaces combine, no chain of redirects and steps
\* goes on for long, and every page that holds a session has an action that admits it,
\* unless a support session refuses the staff member's own actions.
NeverStranded ==
  /\ browser.steps <= MaxSteps
  /\ browser.shown /\ ~Arrived /\ ~Elsewhere /\ ~InSupportSession => MayProceed

\* "A still-valid session is sent back to the app untouched": the cookie is cleared only
\* of a session that has ended or may open nothing.
LiveSessionKept == [][browser.cookie /\ ~browser'.cookie => Session # "open"]_vars

\* A sign-in that is accepted is not turned away by the first page it opens, unless it
\* came through the provider of a company that is no workspace of the person's to open.
SignInAdmitted ==
  [][~browser.cookie /\ browser'.cookie /\ login'.sso \in {c \in Member : ~Suspended(c)} \cup {None}
       => Session' \in {"open", "suspended"}]_vars
=============================================================================
