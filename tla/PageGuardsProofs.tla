--------------------------- MODULE PageGuardsProofs ---------------------------
(***************************************************************************)
(* What PageGuards promises for any number of companies, of any kinds:     *)
(* types, that the cookie of a session that may open something is never    *)
(* cleared, that a sign-in which is accepted gets past the guards, and     *)
(* that no redirects go in a circle.  The last follows from ChainInv: the  *)
(* steps taken and the longest way that is left (StepsAhead) never come    *)
(* to more than nine, for each redirect and each step that is owed uses    *)
(* one of them up.                                                         *)
(***************************************************************************)
EXTENDS PageGuards, FiniteSetTheorems, WellFoundedInduction, TLAPS
-----------------------------------------------------------------------------
(* Types. *)

LEMMA StepLimit == MaxSteps \in Nat
BY PageGuardsAssumption

USE StepLimit

\* What the guards may answer.
LEMMA GateAnswers ==
  /\ Session \in {"open", "ended", "suspended", "sso"}
  /\ Mfa \in {"pass", "challenge", "setup"}
  /\ Gate \in {"none", "ended", "suspended", "sso", "challenge", "setup", "password", "network"}
  /\ Gate \in {"ended", "suspended", "sso"} => Session # "open"
<1>1. Session \in {"open", "ended", "suspended", "sso"}
  BY DEF Session
<1>2. Mfa \in {"pass", "challenge", "setup"}
  BY DEF Mfa
<1>3. /\ Session # "open" => Gate = Session
      /\ Session = "open" /\ Mfa # "pass" => Gate = Mfa
      /\ Session = "open" /\ Mfa = "pass" => Gate \in {"password", "network", "none"}
  BY DEF Gate
<1> QED
  BY <1>1, <1>2, <1>3

\* A redirect, an answer, and where the person goes next.
LEMMA Moves ==
  ASSUME browser \in Browser, browser.steps <= MaxSteps, NEW page \in Pages, NEW next \in Pages
  PROVE  /\ RedirectOn(page, next) \in Browser /\ RedirectOn(page, next).cookie = browser.cookie
         /\ Redirect(page) \in Browser /\ Redirect(page).cookie = browser.cookie
         /\ Answer \in Browser /\ Answer.cookie = browser.cookie
         /\ [Answer EXCEPT !.at = page] \in Browser /\ [Answer EXCEPT !.at = page].cookie = browser.cookie
         /\ ClearCookie \in Browser /\ ~ClearCookie.cookie
         /\ GoTo(page) => browser' \in Browser /\ browser'.cookie = browser.cookie
         /\ Start(page) => browser' \in Browser /\ browser'.cookie = browser.cookie
<1>1. /\ "app" \in Pages /\ "login" \in Pages
      /\ browser.steps + 1 \in 0..(MaxSteps + 1) /\ 0 \in 0..(MaxSteps + 1)
  BY DEF Browser, Pages, Protected
<1>2. RedirectOn(page, next) \in Browser /\ RedirectOn(page, next).cookie = browser.cookie
  BY <1>1 DEF RedirectOn, Browser
<1>3. Redirect(page) \in Browser /\ Redirect(page).cookie = browser.cookie
  BY <1>1 DEF Redirect, RedirectOn, Browser
<1>4. Answer \in Browser /\ Answer.cookie = browser.cookie
  BY DEF Answer, Browser
<1>5. [Answer EXCEPT !.at = page] \in Browser /\ [Answer EXCEPT !.at = page].cookie = browser.cookie
  BY <1>4 DEF Browser
<1>6. ClearCookie \in Browser /\ ~ClearCookie.cookie
  BY <1>1 DEF ClearCookie, Redirect, RedirectOn, Browser
<1>7. GoTo(page) => browser' \in Browser /\ browser'.cookie = browser.cookie
  BY <1>1 DEF GoTo, Browser
<1>8. Start(page) => browser' \in Browser /\ browser'.cookie = browser.cookie
  BY <1>1 DEF Start, Browser
<1> QED
  BY <1>2, <1>3, <1>4, <1>5, <1>6, <1>7, <1>8

\* The pages keep the cookie, but for the route that clears one that opens nothing.
LEMMA PageAnswers ==
  ASSUME browser \in Browser, browser.steps <= MaxSteps
  PROVE  /\ Page \in Browser
         /\ Page.cookie = browser.cookie \/ (browser.at = "session-ended" /\ Session # "open" /\ ~Page.cookie)
<1> DEFINE Kept(b) == b \in Browser /\ b.cookie = browser.cookie
<1>1. /\ \A page \in Pages : Kept(Redirect(page)) /\ Kept([Answer EXCEPT !.at = page])
      /\ \A page, next \in Pages : Kept(RedirectOn(page, next))
      /\ Kept(Answer) /\ ClearCookie \in Browser /\ ~ClearCookie.cookie
  BY Moves DEF Browser
<1>2. /\ {"app", "onboarding", "mfa", "mfa/setup", "password-change", "network-blocked", "workspace-suspended",
          "staff", "session-ended", "login", "not-found"} \subseteq Pages
      /\ browser.next \in Pages
  BY DEF Pages, Protected, Gates, Browser
<1>3. /\ \A g \in {"ended", "suspended", "sso", "challenge", "setup", "password", "network"} : GateRedirect[g] \in Pages
  BY <1>2 DEF GateRedirect
<1> HIDE DEF Kept
<1>4. Kept(App) /\ Kept(OnboardingPage)
  BY <1>1, <1>2, <1>3, GateAnswers DEF App, OnboardingPage
<1>5. Kept(MfaPage) /\ Kept(MfaSetupPage)
  BY <1>1, <1>2 DEF MfaPage, MfaSetupPage
<1>6. Kept(PasswordChangePage)
  BY <1>1, <1>2, <1>3, GateAnswers DEF PasswordChangePage
<1>7. Kept(NetworkBlockedPage)
  BY <1>1, <1>2, <1>3, GateAnswers DEF NetworkBlockedPage
<1>8. Kept(WorkspaceSuspendedPage)
  BY <1>1, <1>2, <1>3, GateAnswers DEF WorkspaceSuspendedPage
<1>9. Kept(StaffConsole)
  BY <1>1, <1>2, <1>3, GateAnswers DEF StaffConsole
<1>10. Kept(SessionEnded) \/ (SessionEnded = ClearCookie /\ Session # "open")
  BY <1>1, <1>2, <1>3, GateAnswers DEF SessionEnded, Held
<1>11. Kept(Page) \/ (Page = ClearCookie /\ browser.at = "session-ended" /\ Session # "open")
  BY <1>1, <1>4, <1>5, <1>6, <1>7, <1>8, <1>9, <1>10 DEF Page
<1> QED
  BY <1>1, <1>11 DEF Kept

LEMMA Responds ==
  ASSUME browser \in Browser, browser.steps <= MaxSteps
  PROVE  /\ Respond \in Browser
         /\ Respond.cookie = browser.cookie \/ (browser.at = "session-ended" /\ Session # "open" /\ ~Respond.cookie)
<1>1. browser.at \in Pages /\ "login" \in Pages /\ "app" \in Pages
  BY DEF Browser, Pages, Protected
<1> QED
  BY <1>1, Moves, PageAnswers DEF Respond

\* Companies are numbered.
LEMMA Numbered == Companies \subseteq Nat /\ None \notin Companies
<1>1. Cardinality(Companies) \in Nat
  BY FS_CardinalityType, PageGuardsAssumption
<1> QED
  BY <1>1, PageGuardsAssumption

LEMMA LeastNumber ==
  ASSUME NEW S \in SUBSET Nat, S # {}
  PROVE  \E m \in S : \A k \in S : m <= k
<1> DEFINE R == {ss \in Nat \X Nat : ss[1] < ss[2]}
<1>1. IsWellFoundedOn(R, Nat)
  BY NatLessThanWellFounded DEF OpToRel
<1>2. PICK m \in S : \A k \in S : <<k, m>> \notin R
  <2> HIDE DEF R
  <2> QED
    BY <1>1, WFMin
<1>3. ASSUME NEW k \in S PROVE m <= k
  <2>1. k < m => <<k, m>> \in R
    OBVIOUS
  <2> QED
    BY <1>2, <2>1
<1> QED
  BY <1>3

\* The workspace a sign-in lands in is one it may open, if there is one.
LEMMA Landing ==
  ASSUME NEW sso
  PROVE  LET open == {c \in Member : MayOpen(c, sso)} IN
         IF open = {} THEN LandingWorkspace(sso) = None ELSE LandingWorkspace(sso) \in open
<1> DEFINE open == {c \in Member : MayOpen(c, sso)}
<1>1. open = {} => LandingWorkspace(sso) = None
  BY DEF LandingWorkspace
<1>2. ASSUME open # {} PROVE LandingWorkspace(sso) \in open
  <2>1. \E c \in open : \A d \in open : c <= d
    <3>1. open \in SUBSET Nat
      BY Numbered DEF Member
    <3> HIDE DEF open
    <3> QED
      BY <1>2, <3>1, LeastNumber
  <2> HIDE DEF open
  <2>2. CASE sso \in open
    BY <2>2 DEF LandingWorkspace, open
  <2>3. CASE sso \notin open /\ account.preferred \in open
    BY <2>3 DEF LandingWorkspace, open
  <2>4. CASE sso \notin open /\ account.preferred \notin open
    <3>1. open \cap {sso, account.preferred} = {}
      BY <2>4
    <3>2. LandingWorkspace(sso) = CHOOSE c \in open : \A d \in open : c <= d
      BY <1>2, <2>4, <3>1 DEF LandingWorkspace, open
    <3> QED
      BY <2>1, <3>2
  <2> QED
    BY <2>2, <2>3, <2>4
<1> QED
  BY <1>1, <1>2

LEMMA TypeInit == Init => TypeOK
<1> SUFFICES ASSUME Init PROVE TypeOK
  OBVIOUS
<1>1. workspace \in [Companies -> Kind \cup {None}]
  <2>1. \A c \in Companies : workspace[c] \in Kind \cup {None}
    BY PageGuardsAssumption DEF Init, Member
  <2> QED
    BY <2>1 DEF Init
<1>2. browser \in Browser
  BY DEF Init, Browser, Pages, Protected
<1> QED
  BY <1>1, <1>2 DEF Init, TypeOK

LEMMA LandingType == ASSUME NEW sso PROVE LandingWorkspace(sso) \in Companies \cup {None}
BY Landing DEF Member

LEMMA TypeStep == TypeOK /\ [Next]_vars => TypeOK'
<1> SUFFICES ASSUME TypeOK, [Next]_vars PROVE TypeOK'
  OBVIOUS
<1>1. /\ browser \in Browser /\ login \in Login /\ account \in Account
      /\ workspace \in [Companies -> Kind \cup {None}] /\ support \in {"none", "viewing", "lapsed"}
  BY DEF TypeOK
<1>2. /\ "app" \in Pages /\ "staff" \in Pages /\ "mfa" \in Pages /\ "login" \in Pages
      /\ browser.next \in Pages /\ 0 \in 0..(MaxSteps + 1)
  BY <1>1 DEF Browser, Pages, Protected, Gates
<1>3. CASE Request
  <2>1. browser' \in Browser
    BY <1>1, <1>3, Responds DEF Request
  <2>2. login' \in Login
    BY <1>1, <1>3 DEF Request, Login
  <2> QED
    BY <1>1, <1>3, <2>1, <2>2 DEF Request, TypeOK
<1>4. CASE VerifyMfaChallenge
  <2>1. browser' \in Browser
    BY <1>1, <1>2, <1>4, Moves DEF VerifyMfaChallenge, MayVerify, OwnAction
  <2>2. login' \in Login
    BY <1>1, <1>4 DEF VerifyMfaChallenge, MayVerify, Login
  <2> QED
    BY <1>1, <1>4, <2>1, <2>2 DEF VerifyMfaChallenge, MayVerify, TypeOK
<1>5. CASE AddFactor
  <2>1. browser' \in Browser
    BY <1>1, <1>2, <1>5, Moves DEF AddFactor, MayAddFactor, OwnAction
  <2>2. login' \in Login /\ account' \in Account
    BY <1>1, <1>5 DEF AddFactor, MayAddFactor, Login, Account
  <2> QED
    BY <1>1, <1>5, <2>1, <2>2 DEF AddFactor, MayAddFactor, TypeOK
<1>6. CASE Continue
  <2>1. browser' \in Browser
    BY <1>1, <1>2, <1>6, Moves DEF Continue, MayContinue
  <2> QED
    BY <1>1, <1>6, <2>1 DEF Continue, MayContinue, TypeOK
<1>7. CASE ChangePassword
  <2>1. browser' \in Browser
    BY <1>1, <1>2, <1>7, Moves DEF ChangePassword, MayChangePassword, OwnAction
  <2>2. login' \in Login
    BY <1>1, <1>7 DEF ChangePassword, MayChangePassword, Login
  <2> QED
    BY <1>1, <1>7, <2>1, <2>2 DEF ChangePassword, MayChangePassword, TypeOK
<1>8. ASSUME NEW c \in Companies, SwitchWorkspace(c) PROVE TypeOK'
  <2>1. browser' \in Browser
    BY <1>1, <1>2, <1>8, Moves DEF SwitchWorkspace, MaySwitch, OwnAction
  <2>2. login' \in Login /\ account' \in Account
    BY <1>1, <1>8 DEF SwitchWorkspace, MaySwitch, Login, Account
  <2> QED
    BY <1>1, <1>8, <2>1, <2>2 DEF SwitchWorkspace, MaySwitch, TypeOK
<1>9. ASSUME NEW c \in Companies, CreateWorkspace(c) PROVE TypeOK'
  <2>1. browser' \in Browser
    BY <1>1, <1>2, <1>9, Moves DEF CreateWorkspace, MayCreate, OwnAction
  <2>2. login' \in Login /\ account' \in Account
    BY <1>1, <1>9 DEF CreateWorkspace, MayCreate, Login, Account
  <2>3. workspace' \in [Companies -> Kind \cup {None}]
    <3>1. Plain \in Kind
      BY DEF Plain, Kind
    <3> QED
      BY <1>1, <1>9, <3>1 DEF CreateWorkspace, MayCreate
  <2> QED
    BY <1>1, <1>9, <2>1, <2>2, <2>3 DEF CreateWorkspace, MayCreate, TypeOK
<1>10. CASE EndSupportSession
  <2>1. browser' \in Browser
    BY <1>1, <1>2, <1>10 DEF EndSupportSession, Start, Browser
  <2> QED
    BY <1>1, <1>10, <2>1 DEF EndSupportSession, TypeOK
<1>11. ASSUME NEW page \in Pages \ {"not-found"}, Visit(page) PROVE TypeOK'
  <2>1. browser' \in Browser
    BY <1>1, <1>2, <1>11 DEF Visit, Start, Browser
  <2> QED
    BY <1>1, <1>11, <2>1 DEF Visit, TypeOK
<1>12. ASSUME NEW sso \in Companies \cup {None}, SignIn(sso) PROVE TypeOK'
  <2>1. browser' \in Browser
    BY <1>1, <1>2, <1>12 DEF SignIn, Browser
  <2>2. login' \in Login
    <3>1. LandingWorkspace(sso) \in Companies \cup {None}
      BY LandingType
    <3> QED
      BY <1>12, <3>1 DEF SignIn, Login
  <2> QED
    BY <1>1, <1>12, <2>1, <2>2 DEF SignIn, TypeOK
<1>13. CASE UNCHANGED vars
  BY <1>13 DEF vars, TypeOK
<1> QED
  BY <1>3, <1>4, <1>5, <1>6, <1>7, <1>8, <1>9, <1>10, <1>11, <1>12, <1>13 DEF Next, Proceed

\* Every variable keeps its type, for any number of companies of any kinds.
THEOREM TypeCorrect == Spec => []TypeOK
BY TypeInit, TypeStep, PTL DEF Spec
-----------------------------------------------------------------------------
(* Who comes in and who is shown out. *)

\* The steps that change whether there is a cookie.
LEMMA CookieSteps ==
  ASSUME TypeOK, [Next]_vars
  PROVE  \/ browser'.cookie = browser.cookie
         \/ Request /\ Session # "open" /\ ~browser'.cookie
         \/ \E sso \in Companies \cup {None} : SignIn(sso)
<1>1. browser \in Browser /\ browser.next \in Pages /\ "app" \in Pages /\ "staff" \in Pages /\ "mfa" \in Pages
  BY DEF TypeOK, Browser, Pages, Protected, Gates
<1>2. \A page \in Pages : Start(page) => browser'.cookie = browser.cookie
  BY <1>1 DEF Start, Browser
<1>3. \A page \in Pages : GoTo(page) => browser'.cookie = browser.cookie
  BY <1>1 DEF GoTo, Browser
<1>4. CASE Request
  BY <1>1, <1>4, Responds DEF Request
<1>5. CASE Proceed
  BY <1>1, <1>2, <1>3, <1>5
     DEF Proceed, VerifyMfaChallenge, AddFactor, Continue, ChangePassword, SwitchWorkspace, CreateWorkspace
<1>6. CASE EndSupportSession \/ \E page \in Pages \ {"not-found"} : Visit(page)
  BY <1>1, <1>2, <1>6 DEF EndSupportSession, Visit
<1>7. CASE UNCHANGED vars
  BY <1>7 DEF vars
<1> QED
  BY <1>4, <1>5, <1>6, <1>7 DEF Next

\* The cookie of a session that may still open something is never cleared.
THEOREM LiveSessionsStay == Spec => LiveSessionKept
<1>1. TypeOK /\ [Next]_vars => [browser.cookie /\ ~browser'.cookie => Session # "open"]_vars
  BY CookieSteps DEF SignIn
<1> QED
  BY <1>1, TypeCorrect, PTL DEF Spec, LiveSessionKept

\* A sign-in that is accepted opens a workspace, or tells its person that all are suspended.
LEMMA AdmittedStep ==
  ASSUME TypeOK, NEW sso \in Companies \cup {None}, SignIn(sso),
         sso \in {c \in Member : ~Suspended(c)} \cup {None}
  PROVE  Session' \in {"open", "suspended"}
<1> DEFINE landing == LandingWorkspace(sso)
           openable == {c \in Member : MayOpen(c, sso)}
<1>1. /\ login' \in Login /\ login'.live = TRUE /\ login'.old = FALSE
      /\ login'.opened = landing /\ login'.sso = sso
      /\ workspace' = workspace /\ account' = account
  <2>1. landing \in Companies \cup {None}
    BY LandingType
  <2> QED
    BY <2>1 DEF SignIn, Login
<1>2. /\ Member' = Member
      /\ \A c \in Companies : Suspended(c)' = Suspended(c)
      /\ \A c \in Companies : SignInMayOpen(c, sso)' = SignInMayOpen(c, sso)
      /\ LandingWorkspace(sso)' = landing
  BY <1>1 DEF Member, Suspended, SignInMayOpen, RequiresSso, LandingWorkspace, MayOpen
<1> HIDE DEF landing, openable
<1>3. IF openable = {} THEN landing = None ELSE landing \in openable
  BY Landing DEF landing, openable
<1>4. CASE openable # {}
  <2>1. landing \in Member /\ landing \in Companies /\ landing # None /\ ~Suspended(landing) /\ SignInMayOpen(landing, sso)
    BY <1>3, <1>4, Numbered DEF openable, MayOpen, Member
  <2>2. Active' = landing
    BY <1>1, <1>2, <2>1 DEF Active, Suspended
  <2>3. ~Ended'
    BY <1>1 DEF Ended
  <2>4. SignInMayOpen(Active, login.sso)'
    BY <1>1, <2>1, <2>2 DEF SignInMayOpen, RequiresSso
  <2> QED
    BY <2>1, <2>2, <2>3, <2>4 DEF Session
<1>5. CASE openable = {}
  <2>1. \A c \in Member : Suspended(c)
    <3>1. CASE sso = None
      BY <1>5, <3>1 DEF openable, MayOpen, SignIn, PasswordSignInRefused
    <3>2. CASE sso \in Member /\ ~Suspended(sso)
      BY <1>5, <3>2 DEF openable, MayOpen, SignInMayOpen
    <3> QED
      BY <3>1, <3>2
  <2>2. Active' = None
    BY <1>1, <1>2, <1>3, <1>5, Numbered DEF Active, Member
  <2>3. ~Ended'
    BY <1>1, <2>2 DEF Ended
  <2>4. (\A c \in Member : Suspended(c))'
    BY <1>1, <2>1 DEF Member, Suspended
  <2> QED
    BY <2>2, <2>3, <2>4 DEF Session
<1> QED
  BY <1>4, <1>5

\* A sign-in that is accepted is not turned away by the first page it opens, unless it came
\* through the provider of a company that is no workspace of the person's to open.
THEOREM AcceptedSignInsEnter == Spec => SignInAdmitted
<1>1. ASSUME TypeOK, [Next]_vars
      PROVE  [~browser.cookie /\ browser'.cookie /\ login'.sso \in {c \in Member : ~Suspended(c)} \cup {None}
                => Session' \in {"open", "suspended"}]_vars
  <2> SUFFICES ASSUME ~browser.cookie, browser'.cookie,
                      login'.sso \in {c \in Member : ~Suspended(c)} \cup {None}
               PROVE  Session' \in {"open", "suspended"}
    OBVIOUS
  <2>1. PICK sso \in Companies \cup {None} : SignIn(sso)
    BY <1>1, CookieSteps
  <2>2. login'.sso = sso
    BY <2>1 DEF SignIn
  <2> QED
    BY <1>1, <2>1, <2>2, AdmittedStep
<1> QED
  BY <1>1, TypeCorrect, PTL DEF Spec, SignInAdmitted
-----------------------------------------------------------------------------
(* No chain of redirects and steps goes on for long. *)

\* What is left to do in a workspace: another password, and another or a first workspace,
\* which may ask for a second factor or turn out to be closed to the sign-in.
PasswordSteps == IF login.passwordChange THEN 2 ELSE 0
WorkspaceSteps == IF Network = "blocked" \/ ~HasCompany THEN 4 ELSE 0
OwedSteps == PasswordSteps + WorkspaceSteps

\* The longest way from a page, once the second factor is passed ...
PassedSteps(page) ==
  CASE page = "app" -> OwedSteps
    [] page \in {"mfa", "mfa/setup"} -> 1 + OwedSteps
    [] page = "password-change" -> 1 + WorkspaceSteps
    [] page = "network-blocked" -> IF ~login.passwordChange /\ Network = "blocked" THEN 3 ELSE 7
    [] page = "onboarding" -> IF ~login.passwordChange /\ Network = "allowed" THEN 3 ELSE 6
    [] page \in {"staff", "session-ended"} -> 6
    [] page \in {"workspace-suspended", "login"} -> 7
    [] OTHER -> 0

\* ... while it is still owed ...
HeldSteps(page, next) ==
  CASE page = "mfa" -> (IF Mfa = "challenge" THEN 1 ELSE 2) + PassedSteps(next)
    [] page = "mfa/setup" -> (IF Mfa = "challenge" THEN 2 ELSE 1) + PassedSteps(next)
    [] page \in {"workspace-suspended", "login"} -> 3 + OwedSteps
    [] page = "not-found" -> 0
    [] OTHER -> 2 + OwedSteps

\* ... and for a session that may open nothing.
ClosedSteps(page, next) ==
  CASE page = "mfa/setup" -> IF next = "app" THEN 3 ELSE 4
    [] page = "workspace-suspended" -> IF Session = "suspended" THEN 1 ELSE 2
    [] page = "session-ended" -> 1
    [] page = "login" -> 3
    [] page = "not-found" -> 0
    [] OTHER -> 2

\* Someone signed out is shown the login page.
SignedOutSteps(page) == CASE page \in Protected -> 1 [] page = "session-ended" -> 2 [] OTHER -> 0

Way(cookie, page, next) ==
  CASE ~cookie -> SignedOutSteps(page)
    [] cookie /\ Session # "open" -> ClosedSteps(page, next)
    [] cookie /\ Session = "open" /\ Mfa # "pass" -> HeldSteps(page, next)
    [] OTHER -> IF page \in {"mfa", "mfa/setup"} THEN 1 + PassedSteps(next) ELSE PassedSteps(page)

StepsAhead == Way(browser.cookie, browser.at, browser.next)

\* Whatever is done uses up a step of those ahead.
ChainInv == browser.steps + StepsAhead <= 9

LEMMA WayBounds == \A cookie \in BOOLEAN, page, next \in Pages : Way(cookie, page, next) \in 0..9
<1> SUFFICES ASSUME NEW cookie \in BOOLEAN, NEW page \in Pages, NEW next \in Pages
             PROVE  Way(cookie, page, next) \in 0..9
  OBVIOUS
<1>1. PasswordSteps \in {0, 2} /\ WorkspaceSteps \in {0, 4}
  BY DEF PasswordSteps, WorkspaceSteps
<1>2. OwedSteps \in 0..6
  BY <1>1 DEF OwedSteps
<1>3. \A p \in Pages : PassedSteps(p) \in 0..7
  BY <1>1, <1>2 DEF PassedSteps
<1>4. HeldSteps(page, next) \in 0..9
  BY <1>2, <1>3 DEF HeldSteps
<1>5. ClosedSteps(page, next) \in 0..9 /\ SignedOutSteps(page) \in 0..9
  BY DEF ClosedSteps, SignedOutSteps
<1> QED
  BY <1>3, <1>4, <1>5 DEF Way

\* A step of the person, or one that starts anew.
Onward(b) == b.steps + Way(b.cookie, b.at, b.next) <= browser.steps + StepsAhead

LEMMA Onwards ==
  ASSUME browser \in Browser, browser.steps <= MaxSteps
  PROVE  /\ Onward(Answer) /\ Onward([Answer EXCEPT !.at = "not-found"])
         /\ \A page, next \in Pages :
              1 + Way(browser.cookie, page, next) <= StepsAhead => Onward(RedirectOn(page, next))
         /\ \A page \in Pages :
              1 + Way(browser.cookie, page, "app") <= StepsAhead => Onward(Redirect(page))
         /\ 1 <= StepsAhead => Onward(ClearCookie)
<1> DEFINE S == StepsAhead
<1>1. /\ browser.cookie \in BOOLEAN /\ browser.at \in Pages /\ browser.next \in Pages /\ browser.steps \in Nat
      /\ "app" \in Pages /\ "not-found" \in Pages /\ "login" \in Pages
  BY DEF Browser, Pages, Protected
<1>2. S \in 0..9 /\ \A page, next \in Pages : Way(browser.cookie, page, next) \in 0..9
  BY <1>1, WayBounds DEF StepsAhead
<1> HIDE DEF S
<1>3. Onward(Answer)
  <2>1. /\ Answer.steps = browser.steps /\ Answer.cookie = browser.cookie
        /\ Answer.at = browser.at /\ Answer.next = browser.next
    BY DEF Answer, Browser
  <2> QED
    BY <1>1, <1>2, <2>1 DEF Onward, StepsAhead, S
<1>4. Onward([Answer EXCEPT !.at = "not-found"])
  <2> DEFINE b == [Answer EXCEPT !.at = "not-found"]
  <2>1. b.steps = browser.steps /\ b.cookie = browser.cookie /\ b.at = "not-found" /\ b.next = browser.next
    BY DEF Answer, Browser
  <2> HIDE DEF b
  <2>2. Way(b.cookie, b.at, b.next) = 0
    BY <2>1 DEF Way, SignedOutSteps, ClosedSteps, HeldSteps, PassedSteps, Protected, Gates
  <2> QED
    BY <1>1, <1>2, <2>1, <2>2 DEF Onward, S, b
<1>5. ASSUME NEW page \in Pages, NEW next \in Pages, 1 + Way(browser.cookie, page, next) <= S
      PROVE  Onward(RedirectOn(page, next))
  <2>1. /\ RedirectOn(page, next).steps = browser.steps + 1 /\ RedirectOn(page, next).cookie = browser.cookie
        /\ RedirectOn(page, next).at = page /\ RedirectOn(page, next).next = next
    BY DEF RedirectOn, Browser
  <2> QED
    BY <1>1, <1>2, <1>5, <2>1 DEF Onward, S
<1>6. ASSUME 1 <= S PROVE Onward(ClearCookie)
  <2>1. ClearCookie.steps = browser.steps + 1 /\ ClearCookie.cookie = FALSE /\ ClearCookie.at = "login"
    BY DEF ClearCookie, Redirect, RedirectOn, Browser
  <2>2. Way(ClearCookie.cookie, ClearCookie.at, ClearCookie.next) = 0
    BY <2>1 DEF Way, SignedOutSteps, Protected, Gates
  <2> QED
    BY <1>1, <1>2, <1>6, <2>1, <2>2 DEF Onward, S
<1> QED
  BY <1>1, <1>3, <1>4, <1>5, <1>6 DEF Redirect, S

\* What every page answers leads onward.
LEMMA RespondOnward ==
  ASSUME browser \in Browser, browser.steps <= MaxSteps
  PROVE  Onward(Respond)
<1> DEFINE S == StepsAhead
           at == browser.at
           next == browser.next
           W(page, then) == Way(browser.cookie, page, then)
<1>1. /\ browser.cookie \in BOOLEAN /\ at \in Pages /\ next \in Pages
      /\ {"app", "onboarding", "mfa", "mfa/setup", "password-change", "network-blocked", "workspace-suspended",
          "staff", "session-ended", "login", "not-found"} = Pages
  BY DEF Browser, Pages, Protected, Gates
<1>2. S = W(at, next)
  BY DEF StepsAhead
<1>3. /\ Onward(Answer) /\ Onward([Answer EXCEPT !.at = "not-found"])
      /\ \A page, then \in Pages : 1 + W(page, then) <= S => Onward(RedirectOn(page, then))
      /\ \A page \in Pages : 1 + W(page, "app") <= S => Onward(Redirect(page))
      /\ 1 <= S => Onward(ClearCookie)
  BY Onwards
<1>4. /\ Session \in {"open", "ended", "suspended", "sso"} /\ Mfa \in {"pass", "challenge", "setup"}
      /\ Session # "open" => Gate = Session
      /\ Session = "open" /\ Mfa # "pass" => Gate = Mfa
      /\ Session = "open" /\ Mfa = "pass" /\ login.passwordChange => Gate = "password"
      /\ Session = "open" /\ Mfa = "pass" /\ ~login.passwordChange /\ Network = "blocked" => Gate = "network"
      /\ Session = "open" /\ Mfa = "pass" /\ ~login.passwordChange /\ Network # "blocked" => Gate = "none"
      /\ Network \in {"blocked", "allowed"}
  BY GateAnswers DEF Gate, Network
<1>5. /\ GateRedirect["challenge"] = "mfa" /\ GateRedirect["setup"] = "mfa/setup"
      /\ GateRedirect["password"] = "password-change" /\ GateRedirect["network"] = "network-blocked"
      /\ GateRedirect["suspended"] = "workspace-suspended"
      /\ GateRedirect["sso"] = "session-ended" /\ GateRedirect["ended"] = "session-ended"
  BY DEF GateRedirect
<1>6. PasswordSteps = (IF login.passwordChange THEN 2 ELSE 0)
      /\ WorkspaceSteps = (IF Network = "blocked" \/ ~HasCompany THEN 4 ELSE 0)
      /\ OwedSteps = PasswordSteps + WorkspaceSteps
  BY DEF PasswordSteps, WorkspaceSteps, OwedSteps
<1>7. \A page \in Pages : PassedSteps(page) \in 0..7
  BY <1>1, <1>6 DEF PassedSteps
<1> HIDE DEF S, W, at, next
<1>8. CASE ~browser.cookie
  <2>1. \A page, then \in Pages : W(page, then) = SignedOutSteps(page)
    BY <1>8 DEF W, Way
  <2>2. CASE at \in Protected
    <3>1. 1 + W("login", at) <= S /\ "login" \in Pages
      BY <1>1, <1>2, <2>1, <2>2 DEF SignedOutSteps, Protected, Gates
    <3> QED
      BY <1>1, <1>3, <1>8, <2>2, <3>1 DEF Respond, at
  <2>3. CASE at = "session-ended"
    <3>1. S = 2 /\ \A page \in Pages : page # "session-ended" => 1 + W(page, "app") <= S
      BY <1>1, <1>2, <2>1, <2>3 DEF SignedOutSteps, Protected, Gates
    <3>2. Onward(SessionEnded)
      BY <1>1, <1>3, <1>4, <1>5, <3>1 DEF SessionEnded, Held
    <3> QED
      BY <1>8, <2>3, <3>2 DEF Respond, Page, at, Protected, Gates
  <2>4. CASE at \in {"login", "not-found"}
    BY <1>3, <1>8, <2>4 DEF Respond, Page, at, Protected, Gates
  <2> QED
    BY <1>1, <2>2, <2>3, <2>4 DEF Protected, Gates
<1>9. CASE browser.cookie /\ Session # "open"
  <2>1. \A page, then \in Pages : W(page, then) = ClosedSteps(page, then)
    BY <1>9 DEF W, Way
  <2>2. /\ W("session-ended", "app") = 1 /\ W("app", "app") = 2
        /\ W("workspace-suspended", "app") = IF Session = "suspended" THEN 1 ELSE 2
        /\ S = ClosedSteps(at, next)
    <3>1. S = ClosedSteps(at, next)
      BY <1>1, <1>2, <2>1
    <3> QED
      BY <1>1, <2>1, <3>1 DEF ClosedSteps
  <2>3. 1 + W(GateRedirect[Session], "app") <= 2 /\ GateRedirect[Session] \in Pages
    BY <1>1, <1>4, <1>5, <1>9, <2>2
  <2>4. at = "app" => Onward(App)
    BY <1>1, <1>3, <1>4, <1>9, <2>2, <2>3 DEF App, ClosedSteps
  <2>5. at = "onboarding" => Onward(OnboardingPage)
    BY <1>1, <1>3, <1>4, <1>9, <2>2, <2>3 DEF OnboardingPage, ClosedSteps
  <2>6. at = "mfa" => Onward(MfaPage)
    BY <1>1, <1>3, <1>9, <2>2 DEF MfaPage, ClosedSteps
  <2>7. at = "mfa/setup" => Onward(MfaSetupPage)
    BY <1>1, <1>3, <1>9, <2>2 DEF MfaSetupPage, ClosedSteps
  <2>8. at = "password-change" => Onward(PasswordChangePage)
    BY <1>1, <1>3, <1>9, <2>2 DEF PasswordChangePage, ClosedSteps
  <2>9. at = "network-blocked" => Onward(NetworkBlockedPage)
    BY <1>1, <1>3, <1>9, <2>2 DEF NetworkBlockedPage, ClosedSteps
  <2>10. at = "workspace-suspended" => Onward(WorkspaceSuspendedPage)
    <3>1. Session # "suspended" => GateRedirect[Session] = "session-ended"
      BY <1>4, <1>5, <1>9
    <3> QED
      BY <1>1, <1>3, <1>9, <2>2, <3>1 DEF WorkspaceSuspendedPage, ClosedSteps
  <2>11. at = "staff" => Onward(StaffConsole)
    BY <1>1, <1>3, <1>9, <2>2, <2>3 DEF StaffConsole, ClosedSteps
  <2>12. at = "session-ended" => Onward(SessionEnded)
    BY <1>1, <1>3, <1>4, <1>9, <2>2 DEF SessionEnded, Held, ClosedSteps
  <2>13. at = "login" => Onward(Redirect("app"))
    BY <1>1, <1>3, <2>2 DEF ClosedSteps
  <2> QED
    BY <1>1, <1>3, <1>9, <2>4, <2>5, <2>6, <2>7, <2>8, <2>9, <2>10, <2>11, <2>12, <2>13 DEF Respond, Page, at
<1>10. CASE browser.cookie /\ Session = "open" /\ Mfa # "pass"
  <2>1. \A page, then \in Pages : W(page, then) = HeldSteps(page, then)
    BY <1>10 DEF W, Way
  <2>2. PassedSteps("app") = OwedSteps /\ OwedSteps \in 0..6
    BY <1>6 DEF PassedSteps
  <2>3. /\ GateRedirect[Mfa] \in Pages /\ Gate = Mfa /\ 1 + W(GateRedirect[Mfa], "app") = 2 + OwedSteps
        /\ 1 + W("app", "app") = 3 + OwedSteps
        /\ S = HeldSteps(at, next)
    <3>1. S = HeldSteps(at, next)
      BY <1>1, <1>2, <2>1
    <3>2. 1 + W("app", "app") = 3 + OwedSteps
      BY <1>1, <2>1, <2>2 DEF HeldSteps
    <3>3. CASE Mfa = "challenge"
      <4>1. W("mfa", "app") = 1 + OwedSteps
        BY <1>1, <2>1, <2>2, <3>3 DEF HeldSteps
      <4> QED
        BY <1>1, <1>4, <1>5, <1>10, <2>2, <3>1, <3>2, <3>3, <4>1
    <3>4. CASE Mfa = "setup"
      BY <1>1, <1>4, <1>5, <1>10, <2>1, <2>2, <3>1, <3>2, <3>4 DEF HeldSteps
    <3> QED
      BY <1>4, <1>10, <3>3, <3>4
  <2>4. at = "app" => Onward(App)
    BY <1>1, <1>3, <1>4, <1>10, <2>2, <2>3 DEF App, HeldSteps
  <2>5. at = "onboarding" => Onward(OnboardingPage)
    BY <1>1, <1>3, <1>10, <2>2, <2>3 DEF OnboardingPage, HeldSteps
  <2>6. at = "mfa" => Onward(MfaPage)
    <3>1. Mfa = "setup" /\ at = "mfa" => 1 + W("mfa/setup", next) <= S
      BY <1>1, <1>7, <2>1, <2>3 DEF HeldSteps
    <3> QED
      <4>1. Mfa = "setup" => MfaPage = RedirectOn("mfa/setup", next)
        BY <1>10 DEF MfaPage, next
      <4>2. Mfa = "challenge" => MfaPage = Answer
        BY <1>10 DEF MfaPage
      <4>3. Mfa = "setup" /\ at = "mfa" => Onward(RedirectOn("mfa/setup", next))
        BY <1>1, <1>3, <3>1
      <4> QED
        BY <1>3, <1>4, <1>10, <4>1, <4>2, <4>3
  <2>7. at = "mfa/setup" => Onward(MfaSetupPage)
    <3>1. Mfa = "challenge" /\ at = "mfa/setup" => 1 + W("mfa", next) <= S
      BY <1>1, <1>7, <2>1, <2>3 DEF HeldSteps
    <3> QED
      BY <1>1, <1>3, <1>4, <1>10, <3>1 DEF MfaSetupPage, next
  <2>8. at = "password-change" => Onward(PasswordChangePage)
    BY <1>1, <1>3, <1>10, <2>2, <2>3 DEF PasswordChangePage, HeldSteps
  <2>9. at = "network-blocked" => Onward(NetworkBlockedPage)
    BY <1>1, <1>3, <1>10, <2>2, <2>3 DEF NetworkBlockedPage, HeldSteps
  <2>10. at = "workspace-suspended" => Onward(WorkspaceSuspendedPage)
    BY <1>1, <1>3, <1>10, <2>2, <2>3 DEF WorkspaceSuspendedPage, HeldSteps
  <2>11. at = "staff" => Onward(StaffConsole)
    BY <1>1, <1>3, <1>10, <2>2, <2>3 DEF StaffConsole, HeldSteps
  <2>12. at = "session-ended" => Onward(SessionEnded)
    BY <1>1, <1>3, <1>4, <1>10, <2>2, <2>3 DEF SessionEnded, Held, HeldSteps
  <2>13. at = "login" => Onward(Redirect("app"))
    BY <1>1, <1>3, <2>2, <2>3 DEF HeldSteps
  <2> QED
    BY <1>1, <1>3, <1>10, <2>4, <2>5, <2>6, <2>7, <2>8, <2>9, <2>10, <2>11, <2>12, <2>13 DEF Respond, Page, at
<1>11. CASE browser.cookie /\ Session = "open" /\ Mfa = "pass"
  <2>1. \A page, then \in Pages :
          W(page, then) = IF page \in {"mfa", "mfa/setup"} THEN 1 + PassedSteps(then) ELSE PassedSteps(page)
    BY <1>11 DEF W, Way
  <2>2. /\ W("app", "app") = OwedSteps /\ W("password-change", "app") = 1 + WorkspaceSteps
        /\ W("network-blocked", "app") = IF ~login.passwordChange /\ Network = "blocked" THEN 3 ELSE 7
        /\ W("onboarding", "app") = IF ~login.passwordChange /\ Network = "allowed" THEN 3 ELSE 6
    BY <1>1, <2>1 DEF PassedSteps
  <2>3. S = IF at \in {"mfa", "mfa/setup"} THEN 1 + PassedSteps(next) ELSE PassedSteps(at)
    BY <1>1, <1>2, <2>1
  <2>4. at = "app" => Onward(App)
    BY <1>1, <1>3, <1>4, <1>5, <1>6, <1>11, <2>2, <2>3 DEF App, PassedSteps
  <2>5. at = "onboarding" => Onward(OnboardingPage)
    BY <1>1, <1>3, <1>4, <1>5, <1>6, <1>11, <2>2, <2>3 DEF OnboardingPage, PassedSteps
  <2>6. at = "mfa" => Onward(MfaPage)
    <3>1. W(next, "app") = PassedSteps(next)
      <4>1. next \in {"mfa", "mfa/setup"} => PassedSteps(next) = 1 + PassedSteps("app")
        BY DEF PassedSteps
      <4> QED
        BY <1>1, <2>1, <4>1
    <3>2. at = "mfa" => 1 + W(next, "app") <= S
      BY <1>1, <1>7, <2>3, <3>1
    <3> QED
      BY <1>1, <1>3, <1>11, <3>2 DEF MfaPage, next
  <2>7. at = "mfa/setup" => Onward(MfaSetupPage)
    BY <1>3, <1>11 DEF MfaSetupPage
  <2>8. at = "password-change" => Onward(PasswordChangePage)
    BY <1>1, <1>3, <1>6, <1>11, <2>2, <2>3 DEF PasswordChangePage, PassedSteps
  <2>9. at = "network-blocked" => Onward(NetworkBlockedPage)
    BY <1>1, <1>3, <1>4, <1>6, <1>11, <2>2, <2>3 DEF NetworkBlockedPage, PassedSteps
  <2>10. at = "workspace-suspended" => Onward(WorkspaceSuspendedPage)
    BY <1>1, <1>3, <1>6, <1>11, <2>2, <2>3 DEF WorkspaceSuspendedPage, PassedSteps
  <2>11. at = "staff" => Onward(StaffConsole)
    BY <1>1, <1>3, <1>6, <1>11, <2>2, <2>3 DEF StaffConsole, PassedSteps
  <2>12. at = "session-ended" => Onward(SessionEnded)
    BY <1>1, <1>3, <1>4, <1>5, <1>6, <1>11, <2>2, <2>3 DEF SessionEnded, Held, PassedSteps
  <2>13. at = "login" => Onward(Redirect("app"))
    BY <1>1, <1>3, <1>6, <2>2, <2>3 DEF PassedSteps
  <2> QED
    BY <1>1, <1>3, <1>11, <2>4, <2>5, <2>6, <2>7, <2>8, <2>9, <2>10, <2>11, <2>12, <2>13 DEF Respond, Page, at
<1> QED
  BY <1>1, <1>4, <1>8, <1>9, <1>10, <1>11

\* The guards look at nothing of the browser.
LEMMA GuardsSame ==
  ASSUME UNCHANGED <<account, workspace, login, support>>
  PROVE  /\ Session' = Session /\ Mfa' = Mfa /\ Network' = Network /\ HasCompany' = HasCompany
         /\ Gate' = Gate
<1>1. Member' = Member /\ Active' = Active
  BY DEF Member, Active, LandingWorkspace, MayOpen, SignInMayOpen, RequiresSso, Suspended
<1>2. Session' = Session
  BY <1>1 DEF Session, Ended, SignInMayOpen, RequiresSso, Suspended
<1>3. Mfa' = Mfa /\ SecondFactorProven' = SecondFactorProven
  BY <1>1 DEF Mfa, ViaSso, Required, SecondFactorProven
<1>4. Network' = Network /\ HasCompany' = HasCompany
  BY <1>1, <1>3 DEF Network, HasCompany, Viewing, Excluded
<1> QED
  BY <1>2, <1>3, <1>4 DEF Gate

LEMMA GuardsKept ==
  ASSUME UNCHANGED <<account, workspace, login, support>>, NEW cookie, NEW page, NEW next
  PROVE  Way(cookie, page, next)' = Way(cookie, page, next)
<1>1. Session' = Session /\ Mfa' = Mfa /\ Network' = Network /\ HasCompany' = HasCompany
  BY GuardsSame
<1>2. PasswordSteps' = PasswordSteps /\ WorkspaceSteps' = WorkspaceSteps /\ OwedSteps' = OwedSteps
  BY <1>1 DEF PasswordSteps, WorkspaceSteps, OwedSteps
<1>3. \A p : PassedSteps(p)' = PassedSteps(p)
  BY <1>1, <1>2 DEF PassedSteps
<1> QED
  BY <1>1, <1>2, <1>3 DEF Way, HeldSteps, ClosedSteps, SignedOutSteps

LEMMA AheadNext ==
  ASSUME NEW cookie, NEW page, NEW next,
         browser'.cookie = cookie, browser'.at = page, browser'.next = next
  PROVE  StepsAhead' = Way(cookie, page, next)'
BY DEF StepsAhead, Way, HeldSteps, ClosedSteps, SignedOutSteps, PassedSteps

\* A step that starts anew has a whole chain before it.
LEMMA ChainAnew ==
  ASSUME browser' \in Browser, browser'.steps = 0
  PROVE  ChainInv'
<1>1. (\A cookie \in BOOLEAN, page, next \in Pages : Way(cookie, page, next) \in 0..9)'
  BY WayBounds, PTL
<1>2. PICK cookie \in BOOLEAN, page \in Pages, next \in Pages :
        browser'.cookie = cookie /\ browser'.at = page /\ browser'.next = next
  BY DEF Browser
<1>3. StepsAhead' \in 0..9
  BY <1>1, <1>2, AheadNext
<1>4. PICK k \in 0..9 : k = StepsAhead'
  BY <1>3
<1>5. 0 + k <= 9
  OBVIOUS
<1>6. (browser.steps + StepsAhead <= 9)'
  BY <1>4, <1>5, Zenon
<1> QED
  BY <1>6 DEF ChainInv

\* A step to another page uses one up.
LEMMA ChainOn ==
  ASSUME browser \in Browser, ChainInv, NEW page \in Pages, GoTo(page), browser.cookie,
         NEW k \in Nat, Way(TRUE, page, "app")' = k, k < StepsAhead
  PROVE  ChainInv'
<1>1. PICK n \in Nat : browser.steps = n
  BY DEF Browser
<1>2. /\ browser'.cookie = TRUE /\ browser'.at = page /\ browser'.next = "app"
      /\ browser'.steps = n + 1
  BY <1>1 DEF GoTo, Browser
<1>3. StepsAhead' = k
  BY <1>2, AheadNext, Zenon
<1>4. PICK s \in 0..9 : StepsAhead = s
  <2>1. browser.cookie \in BOOLEAN /\ browser.at \in Pages /\ browser.next \in Pages
    BY DEF Browser
  <2> QED
    BY <2>1, WayBounds DEF StepsAhead
<1>5. n + s <= 9
  BY <1>1, <1>4 DEF ChainInv
<1>6. (n + 1) + k <= 9
  BY <1>4, <1>5
<1>7. (browser.steps + StepsAhead <= 9)'
  BY <1>2, <1>3, <1>6, Zenon
<1> QED
  BY <1>7 DEF ChainInv

LEMMA ChainRequest == ASSUME TypeOK, ChainInv, Request PROVE ChainInv'
<1>1. browser \in Browser /\ browser.steps <= MaxSteps /\ browser' = Respond /\ UNCHANGED <<account, workspace, support>>
  BY DEF TypeOK, Request
<1>2. PICK cookie \in BOOLEAN, page \in Pages, next \in Pages, n \in Nat :
        browser'.cookie = cookie /\ browser'.at = page /\ browser'.next = next /\ browser'.steps = n
  BY <1>1, Responds DEF Browser
<1>3. n + Way(cookie, page, next) <= browser.steps + StepsAhead
  BY <1>1, <1>2, RespondOnward DEF Onward
<1>4. StepsAhead' = Way(cookie, page, next)'
  BY <1>2, AheadNext
<1>5. Way(cookie, page, next)' = Way(cookie, page, next)
  <2>1. CASE ~cookie
    BY <2>1 DEF Way, SignedOutSteps
  <2>2. CASE cookie
    <3>1. login' = login
      BY <1>2, <2>2 DEF Request
    <3> QED
      BY <1>1, <3>1, GuardsKept
  <2> QED
    BY <2>1, <2>2
<1>6. Way(cookie, page, next) \in 0..9 /\ StepsAhead \in 0..9 /\ browser.steps \in Nat
  <2>1. browser.cookie \in BOOLEAN /\ browser.at \in Pages /\ browser.next \in Pages /\ browser.steps \in Nat
    BY <1>1 DEF Browser
  <2> QED
    BY <2>1, WayBounds DEF StepsAhead
<1>7. PICK k \in 0..9, m \in Nat, s \in 0..9 : k = Way(cookie, page, next) /\ m = browser.steps /\ s = StepsAhead
  BY <1>6
<1>8. m + s <= 9 /\ n + k <= m + s
  BY <1>3, <1>7 DEF ChainInv
<1>9. n + k <= 9
  BY <1>8
<1>10. (browser.steps + StepsAhead <= 9)'
  BY <1>2, <1>4, <1>5, <1>7, <1>9, Zenon
<1> QED
  BY <1>10 DEF ChainInv

\* Proving a factor or changing the password opens and closes no workspace.
LEMMA WorkspaceKept ==
  ASSUME UNCHANGED <<workspace, support>>, ~InSupportSession,
         account'.staff = account.staff, account'.preferred = account.preferred,
         login'.live = login.live, login'.old = login.old, login'.opened = login.opened, login'.sso = login.sso
  PROVE  /\ Session' = Session /\ Active' = Active
         /\ WorkspaceSteps' = WorkspaceSteps /\ Network' = Network
<1>1. Member' = Member /\ Active' = Active
  BY DEF Member, Active, LandingWorkspace, MayOpen, SignInMayOpen, RequiresSso, Suspended
<1>2. Session' = Session
  BY <1>1 DEF Session, Ended, SignInMayOpen, RequiresSso, Suspended
<1>3. ~Viewing /\ ~Viewing'
  BY DEF Viewing, InSupportSession
<1>4. Network' = Network /\ HasCompany' = HasCompany
  BY <1>1, <1>3 DEF Network, HasCompany, Excluded
<1> QED
  BY <1>1, <1>2, <1>4 DEF WorkspaceSteps

LEMMA StepBounds ==
  /\ PasswordSteps \in {0, 2} /\ WorkspaceSteps \in {0, 4} /\ OwedSteps \in 0..6
  /\ \A page \in Pages : PassedSteps(page) \in 0..7
<1>1. PasswordSteps \in {0, 2} /\ WorkspaceSteps \in {0, 4}
  BY DEF PasswordSteps, WorkspaceSteps
<1>2. OwedSteps \in 0..6
  BY <1>1 DEF OwedSteps
<1> QED
  BY <1>1, <1>2 DEF PassedSteps

\* The second factor is passed: on to where the person wanted to go.
LEMMA ChainFactor ==
  ASSUME TypeOK, ChainInv, VerifyMfaChallenge \/ (AddFactor /\ Shows("mfa/setup") /\ ~Shows("app"))
  PROVE  ChainInv'
<1>1. PICK next \in Pages : next = browser.next
  BY DEF TypeOK, Browser
<1>2. /\ browser \in Browser /\ browser.cookie /\ GoTo(next) /\ Session = "open" /\ ~InSupportSession
      /\ UNCHANGED <<workspace, support>>
      /\ (browser.at = "mfa" /\ Mfa = "challenge") \/ (browser.at = "mfa/setup" /\ Mfa = "setup")
  BY <1>1 DEF TypeOK, VerifyMfaChallenge, MayVerify, AddFactor, MayAddFactor, OwnAction, Shows
<1>3. /\ account'.staff = account.staff /\ account'.preferred = account.preferred
      /\ login'.live = login.live /\ login'.old = login.old /\ login'.opened = login.opened /\ login'.sso = login.sso
      /\ login'.passwordChange = login.passwordChange
      /\ login'.proven = TRUE
  BY DEF TypeOK, VerifyMfaChallenge, MayVerify, AddFactor, MayAddFactor, Account, Login
<1>4. Session' = "open" /\ WorkspaceSteps' = WorkspaceSteps /\ Network' = Network /\ Active' = Active
  BY <1>2, <1>3, WorkspaceKept
<1>5. Mfa' = "pass"
  <2>1. account'.mfa = TRUE
    BY <1>2 DEF TypeOK, VerifyMfaChallenge, MayVerify, AddFactor, MayAddFactor, Account, Mfa
  <2> QED
    BY <1>3, <2>1 DEF Mfa
<1>6. \A page : PassedSteps(page)' = PassedSteps(page)
  BY <1>3, <1>4 DEF PassedSteps, OwedSteps, PasswordSteps
<1>7. Way(TRUE, next, "app")' = PassedSteps(next)
  BY <1>4, <1>5, <1>6 DEF Way, PassedSteps
<1>8. StepsAhead = 1 + PassedSteps(next) /\ PassedSteps(next) \in 0..7
  BY <1>1, <1>2, StepBounds DEF StepsAhead, Way, HeldSteps
<1>9. PassedSteps(next) \in Nat /\ PassedSteps(next) < StepsAhead
  BY <1>8
<1> QED
  BY <1>2, <1>7, <1>9, ChainOn

LEMMA ChainContinue == ASSUME TypeOK, ChainInv, Continue PROVE ChainInv'
<1>1. PICK next \in Pages : next = browser.next
  BY DEF TypeOK, Browser
<1>2. /\ browser \in Browser /\ browser.cookie /\ GoTo(next) /\ UNCHANGED <<account, workspace, login, support>>
      /\ browser.at = "mfa/setup" /\ Mfa = "pass"
  BY <1>1 DEF TypeOK, Continue, MayContinue, Shows
<1>3. Way(TRUE, next, "app")' = Way(TRUE, next, "app")
  BY <1>2, GuardsKept
<1>4. PICK k \in Nat : Way(TRUE, next, "app") = k /\ k < StepsAhead
  <2>1. CASE Session = "open"
    <3>1. PICK k \in 0..7 : k = PassedSteps(next)
      BY StepBounds
    <3>2. Way(TRUE, next, "app") = k
      BY <1>2, <2>1, <3>1 DEF Way, PassedSteps
    <3>3. StepsAhead = 1 + k
      BY <1>1, <1>2, <2>1, <3>1 DEF StepsAhead, Way
    <3>4. k \in Nat /\ k < StepsAhead
      BY <3>1, <3>3
    <3> QED
      BY <3>2, <3>4, Zenon
  <2>2. CASE Session # "open"
    <3>1. PICK k \in 0..9 : k = ClosedSteps(next, "app")
      BY DEF ClosedSteps
    <3>2. Way(TRUE, next, "app") = k
      BY <2>2, <3>1 DEF Way
    <3>3. k < StepsAhead
      BY <1>1, <1>2, <2>2, <3>1 DEF StepsAhead, Way, ClosedSteps
    <3>4. k \in Nat
      OBVIOUS
    <3> QED
      BY <3>2, <3>3, <3>4, Zenon
  <2> QED
    BY <2>1, <2>2
<1> QED
  BY <1>2, <1>3, <1>4, ChainOn

LEMMA ChainPassword == ASSUME TypeOK, ChainInv, ChangePassword PROVE ChainInv'
<1>1. /\ browser \in Browser /\ browser.cookie /\ GoTo("app") /\ "app" \in Pages /\ Session = "open" /\ ~InSupportSession
      /\ UNCHANGED <<account, workspace, support>> /\ browser.at = "password-change" /\ Mfa = "pass"
  BY DEF TypeOK, ChangePassword, MayChangePassword, OwnAction, Shows, MayChange, Pages, Protected
<1>2. /\ login'.live = login.live /\ login'.old = login.old /\ login'.opened = login.opened /\ login'.sso = login.sso
      /\ login'.passwordChange = FALSE /\ login'.proven = login.proven
  BY DEF TypeOK, ChangePassword, MayChangePassword, Login
<1>3. Session' = "open" /\ WorkspaceSteps' = WorkspaceSteps /\ Active' = Active
  BY <1>1, <1>2, WorkspaceKept
<1>4. Mfa' = "pass"
  BY <1>1, <1>2, <1>3 DEF Mfa, ViaSso, Required
<1>5. PasswordSteps' = 0
  BY <1>2 DEF PasswordSteps
<1>6. Way(TRUE, "app", "app")' = WorkspaceSteps
  BY <1>3, <1>4, <1>5, StepBounds DEF Way, PassedSteps, OwedSteps
<1>7. StepsAhead = 1 + WorkspaceSteps
  BY <1>1 DEF StepsAhead, Way, PassedSteps
<1>8. PICK k \in Nat : k = WorkspaceSteps
  BY StepBounds
<1>9. k < 1 + k
  BY <1>8
<1>10. Way(TRUE, "app", "app")' = k /\ k < StepsAhead
  BY <1>6, <1>7, <1>8, <1>9, Zenon
<1> QED
  BY <1>1, <1>10, ChainOn

\* In another workspace, with a network that is right, at most the second factor is asked
\* for, or nothing at all may be opened.
LEMMA ElsewhereSteps ==
  ASSUME (Network = "allowed" /\ Active # None)'
  PROVE  \E k \in Nat : Way(TRUE, "app", "app")' = k /\ k <= 2 + PasswordSteps'
<1>1. WorkspaceSteps' = 0 /\ PasswordSteps' \in {0, 2}
  BY DEF WorkspaceSteps, HasCompany, PasswordSteps
<1>2. OwedSteps' = PasswordSteps' /\ PassedSteps("app")' = PasswordSteps'
  BY <1>1 DEF OwedSteps, PassedSteps
<1>3. HeldSteps("app", "app")' = 2 + PasswordSteps' /\ ClosedSteps("app", "app")' = 2
  BY <1>2 DEF HeldSteps, ClosedSteps
<1> QED
  BY <1>1, <1>2, <1>3 DEF Way

LEMMA ChainSwitch ==
  ASSUME TypeOK, ChainInv, NEW c \in Companies, SwitchWorkspace(c), ~Shows("app")
  PROVE  ChainInv'
<1>1. /\ browser \in Browser /\ browser.cookie /\ GoTo("app") /\ "app" \in Pages /\ Session = "open" /\ ~InSupportSession
      /\ UNCHANGED <<workspace, support>> /\ browser.at = "network-blocked" /\ Mfa = "pass"
      /\ c \in Member /\ ~Excluded(c) /\ ~Suspended(c)
  BY DEF TypeOK, SwitchWorkspace, MaySwitch, OwnAction, Shows, MayChange, Pages, Protected, Offered, MayOpen
<1>2. login'.opened = c /\ login'.passwordChange = login.passwordChange /\ account'.staff = account.staff
  BY DEF TypeOK, SwitchWorkspace, MaySwitch, Login, Account
<1>3. (Network = "allowed" /\ Active # None)'
  <2>1. Active' = c
    BY <1>1, <1>2 DEF Active, Member, Suspended
  <2>2. Network' = "allowed"
    BY <1>1, <2>1 DEF Network, Excluded
  <2> QED
    BY <2>1, <2>2, Numbered
<1>4. PasswordSteps' = PasswordSteps
  BY <1>2 DEF PasswordSteps
<1>5. 2 + PasswordSteps < StepsAhead
  BY <1>1 DEF StepsAhead, Way, PassedSteps, PasswordSteps
<1>6. StepsAhead \in 0..9
  BY <1>1, StepBounds DEF StepsAhead, Way, PassedSteps
<1>7. PICK k \in Nat : Way(TRUE, "app", "app")' = k /\ k <= 2 + PasswordSteps
  BY <1>3, <1>4, ElsewhereSteps
<1>8. k < StepsAhead
  BY <1>5, <1>6, <1>7, StepBounds
<1> QED
  BY <1>1, <1>7, <1>8, ChainOn

LEMMA ChainCreate ==
  ASSUME TypeOK, ChainInv, NEW c \in Companies, CreateWorkspace(c)
  PROVE  ChainInv'
<1>1. /\ browser \in Browser /\ browser.cookie /\ GoTo("app") /\ "app" \in Pages /\ Session = "open" /\ Gate = "none"
      /\ browser.at = "onboarding" /\ workspace' = [workspace EXCEPT ![c] = Plain]
  BY DEF TypeOK, CreateWorkspace, MayCreate, OwnAction, Shows, Pages, Protected
<1>2. login'.opened = c /\ login'.passwordChange = login.passwordChange
  BY DEF TypeOK, CreateWorkspace, MayCreate, Login
<1>3. (Network = "allowed" /\ Active # None)'
  <2>1. workspace'[c] = Plain /\ Plain.suspended = FALSE /\ Plain.excludes = FALSE /\ Plain # None
    <3>1. Plain \in Kind
      BY DEF Plain, Kind
    <3>2. Plain # None
      BY <3>1, PageGuardsAssumption
    <3> QED
      BY <1>1, <3>2 DEF TypeOK, Plain
  <2>2. Active' = c
    BY <1>2, <2>1 DEF Active, Member, Suspended
  <2>3. Network' = "allowed"
    BY <2>1, <2>2 DEF Network, Excluded
  <2> QED
    BY <2>2, <2>3, Numbered
<1>4. Mfa = "pass" /\ ~login.passwordChange /\ Network = "allowed"
  BY <1>1 DEF Gate, Mfa, Network
<1>5. PasswordSteps' = 0
  BY <1>2, <1>4 DEF PasswordSteps
<1>6. StepsAhead = 3
  BY <1>1, <1>4 DEF StepsAhead, Way, PassedSteps
<1>7. PICK k \in Nat : Way(TRUE, "app", "app")' = k /\ k <= 2 + PasswordSteps'
  BY <1>3, ElsewhereSteps
<1>8. k <= 2 + 0
  BY <1>5, <1>7, Zenon
<1>9. k < StepsAhead
  BY <1>6, <1>8
<1> QED
  BY <1>1, <1>7, <1>9, ChainOn

LEMMA ChainInit == Init => ChainInv
<1> SUFFICES ASSUME Init PROVE ChainInv
  OBVIOUS
<1>1. browser \in Browser /\ browser.steps = 0
  BY TypeInit DEF TypeOK, Init
<1>2. StepsAhead \in 0..9
  BY <1>1, WayBounds DEF StepsAhead, Browser
<1> QED
  BY <1>1, <1>2 DEF ChainInv

LEMMA ChainStep == TypeOK /\ TypeOK' /\ ChainInv /\ [Next]_vars => ChainInv'
<1> SUFFICES ASSUME TypeOK, TypeOK', ChainInv, [Next]_vars PROVE ChainInv'
  OBVIOUS
<1>1. browser \in Browser /\ browser' \in Browser
  BY DEF TypeOK
<1>2. \A page \in Pages : Start(page) => browser'.steps = 0
  BY <1>1 DEF Start, Browser
<1>3. "app" \in Pages /\ "staff" \in Pages
  BY DEF Pages, Protected
<1>4. CASE Request
  BY <1>4, ChainRequest
<1>5. CASE VerifyMfaChallenge
  BY <1>5, ChainFactor
<1>6. CASE AddFactor
  <2>1. CASE Shows("app")
    <3>1. Start("app")
      BY <1>6, <2>1 DEF AddFactor, MayAddFactor
    <3> QED
      BY <1>1, <1>2, <1>3, <3>1, ChainAnew
  <2>2. CASE ~Shows("app")
    <3>1. Shows("mfa/setup")
      BY <1>6, <2>2 DEF AddFactor, MayAddFactor
    <3> QED
      BY <1>6, <2>2, <3>1, ChainFactor
  <2> QED
    BY <2>1, <2>2
<1>7. CASE Continue
  BY <1>7, ChainContinue
<1>8. CASE ChangePassword
  BY <1>8, ChainPassword
<1>9. ASSUME NEW c \in Companies, SwitchWorkspace(c) PROVE ChainInv'
  <2>1. CASE Shows("app")
    <3>1. Start("app")
      BY <1>9, <2>1 DEF SwitchWorkspace, MaySwitch
    <3> QED
      BY <1>1, <1>2, <1>3, <3>1, ChainAnew
  <2>2. CASE ~Shows("app")
    BY <1>9, <2>2, ChainSwitch
  <2> QED
    BY <2>1, <2>2
<1>10. ASSUME NEW c \in Companies, CreateWorkspace(c) PROVE ChainInv'
  BY <1>10, ChainCreate
<1>11. CASE EndSupportSession
  <2>1. Start("staff")
    BY <1>11 DEF EndSupportSession
  <2> QED
    BY <1>1, <1>2, <1>3, <2>1, ChainAnew
<1>12. ASSUME NEW page \in Pages \ {"not-found"}, Visit(page) PROVE ChainInv'
  <2>1. Start(page)
    BY <1>12 DEF Visit
  <2> QED
    BY <1>1, <1>2, <1>12, <2>1, ChainAnew
<1>13. ASSUME NEW sso \in Companies \cup {None}, SignIn(sso) PROVE ChainInv'
  <2>1. browser'.steps = 0
    BY <1>1, <1>13 DEF SignIn, Browser
  <2> QED
    BY <1>1, <2>1, ChainAnew
<1>14. CASE UNCHANGED vars
  <2>1. PICK cookie \in BOOLEAN, page \in Pages, next \in Pages :
          browser.cookie = cookie /\ browser.at = page /\ browser.next = next
    BY <1>1 DEF Browser
  <2>2. /\ UNCHANGED <<account, workspace, login, support>> /\ browser' = browser
    BY <1>14 DEF vars
  <2>3. StepsAhead = Way(cookie, page, next)
    BY <2>1, Zenon DEF StepsAhead
  <2>4. StepsAhead' = Way(cookie, page, next)'
    BY <2>1, <2>2, AheadNext, Zenon
  <2>5. Way(cookie, page, next)' = Way(cookie, page, next)
    BY <2>2, GuardsKept
  <2>6. (browser.steps + StepsAhead <= 9)'
    BY <2>2, <2>3, <2>4, <2>5, Zenon DEF ChainInv
  <2> QED
    BY <2>6 DEF ChainInv
<1> QED
  BY <1>4, <1>5, <1>6, <1>7, <1>8, <1>9, <1>10, <1>11, <1>12, <1>13, <1>14 DEF Next, Proceed

\* No chain of redirects and steps (guards.ts, the pages' own redirects, the step that each
\* asks for) is longer than nine, however many companies there are and whatever their
\* rules: nobody is sent round in a circle, and a MaxSteps of nine cuts nothing off.
THEOREM ChainsEnd == Spec => [](browser.steps <= 9)
<1>1. TypeOK /\ ChainInv => browser.steps <= 9
  <2> SUFFICES ASSUME TypeOK, ChainInv PROVE browser.steps <= 9
    OBVIOUS
  <2>1. browser.steps \in Nat /\ StepsAhead \in 0..9
    BY WayBounds DEF TypeOK, Browser, StepsAhead
  <2> QED
    BY <2>1 DEF ChainInv
<1> QED
  BY <1>1, TypeCorrect, ChainInit, ChainStep, PTL DEF Spec
-----------------------------------------------------------------------------
(* No page that holds a session keeps it. *)

\* What a page found when it was shown is so until the person goes on.
ShownInv == browser.shown =>
  /\ browser.at \in Protected => browser.cookie
  /\ browser.at # "session-ended"
  /\ browser.at = "mfa" => Session = "open" /\ Mfa = "challenge"
  /\ browser.at = "mfa/setup" => Session = "open" /\ Mfa \in {"setup", "pass"}
  /\ browser.at \in {"password-change", "network-blocked"} => Session = "open" /\ Mfa = "pass"
  /\ browser.at = "onboarding" => Session = "open" /\ Gate = "none"

LEMMA ShownAnswers ==
  ASSUME browser \in Browser, ~browser.shown, Respond.shown
  PROVE  \/ Respond = [Answer EXCEPT !.at = "not-found"]
         \/ /\ Respond = Answer
            /\ browser.at \in Protected => browser.cookie
            /\ browser.at # "session-ended"
            /\ browser.at = "mfa" => Session = "open" /\ Mfa = "challenge"
            /\ browser.at = "mfa/setup" => Session = "open" /\ Mfa \in {"setup", "pass"}
            /\ browser.at \in {"password-change", "network-blocked"} => Session = "open" /\ Mfa = "pass"
            /\ browser.at = "onboarding" => Session = "open" /\ Gate = "none"
<1>1. /\ \A page, next : ~RedirectOn(page, next).shown
      /\ \A page : ~Redirect(page).shown
      /\ ~ClearCookie.shown
  BY DEF Browser, RedirectOn, Redirect, ClearCookie
<1>2. Respond = Page /\ (browser.at \in Protected => browser.cookie)
  BY <1>1 DEF Respond
<1>3. CASE browser.at = "mfa"
  BY <1>1, <1>2, <1>3, GateAnswers DEF Page, MfaPage
<1>4. CASE browser.at = "mfa/setup"
  BY <1>1, <1>2, <1>4, GateAnswers DEF Page, MfaSetupPage
<1>5. CASE browser.at = "password-change"
  BY <1>1, <1>2, <1>5 DEF Page, PasswordChangePage
<1>6. CASE browser.at = "network-blocked"
  BY <1>1, <1>2, <1>6 DEF Page, NetworkBlockedPage
<1>7. CASE browser.at = "onboarding"
  <2>1. Respond = Answer /\ Gate = "none"
    BY <1>1, <1>2, <1>7 DEF Page, OnboardingPage
  <2>2. Session = "open"
    BY <2>1, GateAnswers DEF Gate
  <2> QED
    BY <1>2, <1>7, <2>1, <2>2
<1>8. CASE browser.at = "session-ended"
  BY <1>1, <1>2, <1>8 DEF Page, SessionEnded
<1>9. CASE browser.at = "app"
  BY <1>1, <1>2, <1>9 DEF Page, App
<1>10. CASE browser.at = "workspace-suspended"
  BY <1>1, <1>2, <1>10 DEF Page, WorkspaceSuspendedPage
<1>11. CASE browser.at = "staff"
  BY <1>1, <1>2, <1>11 DEF Page, StaffConsole
<1>12. CASE browser.at \in {"login", "not-found"}
  BY <1>1, <1>2, <1>12 DEF Page
<1> QED
  BY <1>3, <1>4, <1>5, <1>6, <1>7, <1>8, <1>9, <1>10, <1>11, <1>12 DEF Browser, Pages, Protected, Gates

LEMMA ShownStep == TypeOK /\ ShownInv /\ [Next]_vars => ShownInv'
<1> SUFFICES ASSUME TypeOK, ShownInv, [Next]_vars PROVE ShownInv'
  OBVIOUS
<1>1. browser \in Browser
  BY DEF TypeOK
<1>2. \A page : (Start(page) => ~browser'.shown) /\ (GoTo(page) => ~browser'.shown)
  BY <1>1 DEF Start, GoTo, Browser
<1>3. CASE Request
  <2> SUFFICES ASSUME browser'.shown PROVE ShownInv'
    BY DEF ShownInv
  <2>1. ~browser.shown /\ browser' = Respond /\ Respond.shown
    BY <1>3 DEF Request
  <2>2. browser'.cookie = browser.cookie
    BY <1>1, <2>1, ShownAnswers DEF Answer, Browser
  <2>3. UNCHANGED <<account, workspace, login, support>>
    BY <1>3, <2>2 DEF Request
  <2>4. Session' = Session /\ Mfa' = Mfa /\ Gate' = Gate
    BY <2>3, GuardsSame
  <2>5. CASE Respond = [Answer EXCEPT !.at = "not-found"]
    <3>1. browser'.at = "not-found"
      BY <1>1, <2>1, <2>5 DEF Answer, Browser
    <3> QED
      BY <3>1 DEF ShownInv, Protected, Gates
  <2>6. CASE Respond = Answer /\ Respond # [Answer EXCEPT !.at = "not-found"]
    <3>1. browser'.at = browser.at
      BY <1>1, <2>1, <2>6 DEF Answer, Browser
    <3>2. /\ browser.at \in Protected => browser.cookie
          /\ browser.at # "session-ended"
          /\ browser.at = "mfa" => Session = "open" /\ Mfa = "challenge"
          /\ browser.at = "mfa/setup" => Session = "open" /\ Mfa \in {"setup", "pass"}
          /\ browser.at \in {"password-change", "network-blocked"} => Session = "open" /\ Mfa = "pass"
          /\ browser.at = "onboarding" => Session = "open" /\ Gate = "none"
      BY <1>1, <2>1, <2>6, ShownAnswers
    <3> QED
      BY <2>2, <2>4, <3>1, <3>2 DEF ShownInv
  <2> QED
    BY <1>1, <2>1, <2>5, <2>6, ShownAnswers
<1>4. CASE Proceed \/ EndSupportSession \/ \E page \in Pages \ {"not-found"} : Visit(page)
  <2>1. ~browser'.shown
    BY <1>2, <1>4 DEF Proceed, VerifyMfaChallenge, AddFactor, Continue, ChangePassword, SwitchWorkspace,
       CreateWorkspace, EndSupportSession, Visit
  <2> QED
    BY <2>1 DEF ShownInv
<1>5. CASE \E sso \in Companies \cup {None} : SignIn(sso)
  <2>1. ~browser'.shown
    BY <1>1, <1>5 DEF SignIn, Browser
  <2> QED
    BY <2>1 DEF ShownInv
<1>6. CASE UNCHANGED vars
  <2>1. UNCHANGED <<account, workspace, login, support>> /\ browser' = browser
    BY <1>6 DEF vars
  <2>2. Session' = Session /\ Mfa' = Mfa /\ Gate' = Gate
    BY <2>1, GuardsSame
  <2> QED
    BY <2>1, <2>2 DEF ShownInv
<1> QED
  BY <1>3, <1>4, <1>5, <1>6 DEF Next

\* The page that shows which step is owed shows the step that is admitted.
LEMMA StepAdmitted ==
  ASSUME TypeOK, ShownInv, browser.steps <= MaxSteps,
         browser.shown, ~Arrived, ~Elsewhere, ~InSupportSession
  PROVE  MayProceed
<1>1. ~Viewing
  BY DEF Viewing, InSupportSession
<1>2. browser.at \in Gates \cup {"onboarding"} /\ browser.cookie /\ (browser.at = "onboarding" => Member = {})
  BY DEF TypeOK, Browser, Pages, Protected, Gates, Arrived, ShownInv
<1>3. CASE browser.at = "mfa"
  BY <1>2, <1>3 DEF ShownInv, MayProceed, MayVerify, Shows, OwnAction
<1>4. CASE browser.at = "mfa/setup"
  BY <1>1, <1>2, <1>4 DEF ShownInv, MayProceed, MayAddFactor, MayContinue, MayEnroll, Shows, OwnAction
<1>5. CASE browser.at = "password-change"
  BY <1>1, <1>2, <1>5 DEF ShownInv, MayProceed, MayChangePassword, MayChange, Shows, OwnAction
<1>6. CASE browser.at = "network-blocked"
  <2>1. PICK c \in Offered : c \in Companies /\ MayOpen(c, login.sso)
    BY <1>6 DEF Elsewhere, Offered, Member
  <2>2. MaySwitch(c)
    BY <1>1, <1>2, <1>6, <2>1 DEF ShownInv, MaySwitch, MayChange, Shows, OwnAction
  <2> QED
    BY <2>1, <2>2 DEF MayProceed
<1>7. CASE browser.at = "onboarding"
  <2>1. PICK c \in Companies : TRUE
    BY PageGuardsAssumption
  <2>2. \A d \in Companies : workspace[d] = None
    BY <1>2, <1>7 DEF Member
  <2>3. MayCreate(c)
    BY <1>1, <1>2, <1>7, <2>2 DEF ShownInv, MayCreate, Shows, OwnAction
  <2> QED
    BY <2>3 DEF MayProceed
<1> QED
  BY <1>2, <1>3, <1>4, <1>5, <1>6, <1>7 DEF Gates

\* However many workspaces there are and whatever their rules: a page that holds a sign-in
\* (guards.ts) shows a step that the guards admit, unless only others can help.
THEOREM NobodyStranded ==
  ASSUME MaxSteps >= 9
  PROVE  Spec => []NeverStranded
<1>1. Init => ShownInv
  BY DEF Init, ShownInv
<1>2. TypeOK /\ ShownInv /\ browser.steps <= 9 => NeverStranded
  <2> SUFFICES ASSUME TypeOK, ShownInv, browser.steps <= 9 PROVE NeverStranded
    OBVIOUS
  <2>1. browser.steps <= MaxSteps
    BY DEF TypeOK, Browser
  <2> QED
    BY <2>1, StepAdmitted DEF NeverStranded
<1> QED
  BY <1>1, <1>2, TypeCorrect, ChainsEnd, ShownStep, PTL DEF Spec
===============================================================================
