------------------------------- MODULE SignIn -------------------------------
(***************************************************************************)
(* One account's sign-ins: the token each browser holds, the LoginSession  *)
(* row behind it, the session version that ends them all, and the second   *)
(* factors with the epoch a sign-in proves (frontend lib/auth, backend     *)
(* auth and auth/mfa).  A request checks its token first and acts later,   *)
(* while others revoke the sign-in or change the factors.  Sign-ins by     *)
(* password or Google; single sign-on leaves the second factor to the      *)
(* identity provider and passes the same guards.                           *)
(***************************************************************************)
EXTENDS Integers, FiniteSets

CONSTANTS
  Logins,       \* sign-ins, each with a browser of its own
  Requests,     \* requests under way
  Factors,      \* an authenticator app, a passkey
  MaxVersion,   \* bound: account-wide revocations
  MaxEpoch,     \* bound: how often MFA is turned on
  None

VARIABLES
  user,      \* session version, mfaEnabledAt, factors; whether a workspace requires MFA
  epochs,    \* the epochs started so far
  row,       \* the LoginSession rows
  token,     \* the cookie of each sign-in's browser
  req,       \* the requests
  ended,     \* sign-ins somebody has ended
  proven,    \* the epochs in which each sign-in has shown a factor
  shifted    \* sign-ins whose check was under way while MFA was turned off and on

vars == <<user, epochs, row, token, req, ended, proven, shifted>>
ghosts == <<ended, proven, shifted>>

ASSUME SignInAssumption ==
  /\ MaxVersion \in Nat
  /\ MaxEpoch \in Nat
  /\ None \notin Logins \cup Factors \cup Nat

Version == 0..MaxVersion
Epoch == 0..MaxEpoch       \* 0: MFA is off, or nothing is proven
Claims == [version: Version, epoch: Epoch]
Gates == {"pass", "challenge", "setup"}

Request == [pc: {"idle", "authorized", "reading", "admitted", "adding", "removing", "checked", "refresh"},
            login: Logins \cup {None},
            version: Version,               \* read while signing in, for the token
            verified: Epoch,                \* of the token the request came with
            epoch: Epoch,                   \* the user's epoch as last read, or the new token's
            gate: Gates \cup {None},
            factor: Factors \cup {None},
            last: BOOLEAN,                  \* the factor being removed is the only one
            late: BOOLEAN]                  \* the sign-in had been ended when the request came
Idle == [pc |-> "idle", login |-> None, version |-> 0, verified |-> 0, epoch |-> 0, gate |-> None,
         factor |-> None, last |-> FALSE, late |-> FALSE]

TypeOK ==
  /\ user \in [version: Version, epoch: Epoch, factors: SUBSET Factors, required: BOOLEAN]
  /\ epochs \in Epoch
  /\ row \in [Logins -> {"none", "live", "revoked"}]
  /\ token \in [Logins -> Claims \cup {None}]
  /\ req \in [Requests -> Request]
  /\ ended \subseteq Logins
  /\ proven \in [Logins -> SUBSET Epoch]
  /\ shifted \subseteq Logins

Init ==
  /\ user \in [version: {0}, epoch: {0}, factors: {{}}, required: BOOLEAN]
  /\ epochs = 0
  /\ row = [l \in Logins |-> "none"]
  /\ token = [l \in Logins |-> None]
  /\ req = [r \in Requests |-> Idle]
  /\ ended = {}
  /\ proven = [l \in Logins |-> {}]
  /\ shifted = {}

\* A sign-in has proved who it is, whether or not it has been recorded.
Started == {l \in Logins : row[l] # "none" \/ \E r \in Requests : req[r].login = l}
Live == {l \in Logins : row[l] = "live"}
-----------------------------------------------------------------------------
(* Signing in (lib/auth/index.ts, auth/sessions.ts). *)

\* The password is checked and the session version read.
Authorize(r) == \E l \in Logins \ Started :
  /\ req[r].pc = "idle"
  /\ req' = [req EXCEPT ![r] = [Idle EXCEPT !.pc = "authorized", !.login = l, !.version = user.version]]
  /\ UNCHANGED <<user, epochs, row, token, ghosts>>

\* mutant: the token takes the version of the moment the sign-in is recorded
Stamped_Now(r) == user.version

Stamped(r) == req[r].version

\* The jwt callback: the row is made.  The user's revoked rows are deleted on the way,
\* which the guards cannot tell apart.
StartLoginSession(r) ==
  /\ req[r].pc = "authorized"
  /\ row' = [row EXCEPT ![req[r].login] = "live"]
  /\ token' = [token EXCEPT ![req[r].login] = [version |-> Stamped(r), epoch |-> 0]]
  /\ req' = [req EXCEPT ![r] = Idle]
  /\ UNCHANGED <<user, epochs, ghosts>>

\* The row ends and the cookie goes.
SignOut(l) ==
  /\ token[l] # None
  /\ token' = [token EXCEPT ![l] = None]
  /\ row' = [row EXCEPT ![l] = IF @ = "live" THEN "revoked" ELSE @]
  /\ ended' = ended \cup {l}
  /\ UNCHANGED <<user, epochs, req, proven, shifted>>
-----------------------------------------------------------------------------
(* The guards (lib/auth/guards.ts, getSignedInSession). *)

\* The user is read; a token of an older version ends here.
ReadUser(r) == \E l \in Logins :
  /\ req[r].pc = "idle"
  /\ token[l] # None
  /\ token[l].version = user.version
  /\ req' = [req EXCEPT ![r] = [Idle EXCEPT !.pc = "reading", !.login = l, !.verified = token[l].epoch,
                                            !.epoch = user.epoch, !.late = l \in ended]]
  /\ UNCHANGED <<user, epochs, row, token, ghosts>>

\* mutant: a sign-in that has proved a factor once is never asked again
Gate_AnyEpoch(epoch, verified, required) ==
  IF epoch # 0 THEN IF verified # 0 THEN "pass" ELSE "challenge"
  ELSE IF required THEN "setup" ELSE "pass"

\* mfaGate
Gate(epoch, verified, required) ==
  IF epoch # 0 THEN IF verified = epoch THEN "pass" ELSE "challenge"
  ELSE IF required THEN "setup" ELSE "pass"

\* Its relations are read after it: the sign-in's row, and the workspaces.
ReadLogin(r) ==
  /\ req[r].pc = "reading"
  /\ req' = IF row[req[r].login] # "live" THEN [req EXCEPT ![r] = Idle]
            ELSE [req EXCEPT ![r].pc = "admitted",
                             ![r].gate = Gate(req[r].epoch, req[r].verified, user.required)]
  /\ UNCHANGED <<user, epochs, row, token, ghosts>>

Admitted(r, gates) == req[r].pc = "admitted" /\ req[r].gate \in gates

\* What an admitted request goes on to do.
Step(r, pc, factor, epoch) == [Idle EXCEPT !.pc = pc, !.login = req[r].login, !.factor = factor, !.epoch = epoch]

\* The page is served, or the request fails; an open transaction is rolled back.
EndRequest(r) ==
  /\ req[r].pc \in {"admitted", "adding", "removing", "checked", "refresh"}
  /\ req' = [req EXCEPT ![r] = Idle]
  /\ UNCHANGED <<user, epochs, row, token, ghosts>>
-----------------------------------------------------------------------------
(* Ending sign-ins. *)

\* The session version moves and the rows but one end, in one transaction.
RevokeUserSessions(keep) ==
  /\ user.version < MaxVersion
  /\ row' = [l \in Logins |-> IF row[l] = "live" /\ l # keep THEN "revoked" ELSE row[l]]
  /\ ended' = ended \cup (Started \ {keep})

\* The person, an admin, staff or a password reset signs the account out everywhere.
SignOutEverywhere ==
  /\ RevokeUserSessions(None)
  /\ user' = [user EXCEPT !.version = @ + 1]
  /\ UNCHANGED <<epochs, token, req, proven, shifted>>

\* The sign-in that changes the password keeps its row and refreshes its token.
ChangePassword(r) ==
  /\ Admitted(r, {"pass"})
  /\ RevokeUserSessions(req[r].login)
  /\ user' = [user EXCEPT !.version = @ + 1]
  /\ req' = [req EXCEPT ![r] = Step(r, "refresh", None, req[r].verified)]
  /\ UNCHANGED <<epochs, token, proven, shifted>>

\* One of the other sessions of the list, or all of them; the version stays.
RevokeOthers(r) == \E gone \in SUBSET (Live \ {req[r].login}) \ {{}} :
  /\ Admitted(r, {"pass"})
  /\ row' = [l \in Logins |-> IF l \in gone THEN "revoked" ELSE row[l]]
  /\ ended' = ended \cup gone
  /\ req' = [req EXCEPT ![r] = Idle]
  /\ UNCHANGED <<user, epochs, token, proven, shifted>>
-----------------------------------------------------------------------------
(* Second factors (auth/mfa, services/mfa.ts). *)

\* A factor's row serialises the transactions on it.
Free(f) == \A r \in Requests : ~(req[r].pc \in {"adding", "removing"} /\ req[r].factor = f)

\* The factor is written, unseen as yet, and mfaEnabledAt read.
InsertFactor(r) == \E f \in Factors \ user.factors :
  /\ Admitted(r, {"pass", "setup"})
  /\ Free(f)
  /\ req' = [req EXCEPT ![r] = Step(r, "adding", f, user.epoch)]
  /\ UNCHANGED <<user, epochs, row, token, ghosts>>

\* mutant: the update that starts the epoch does not ask whether one has started
Overtaken_Never(r) == FALSE

\* Another first factor has turned MFA on since: the transaction is rolled back.
Overtaken(r) == req[r].epoch = 0 /\ user.epoch # 0

\* The first factor starts an epoch.
FactorAdded(r) ==
  LET epoch == IF req[r].epoch # 0 THEN req[r].epoch ELSE epochs + 1 IN
  /\ req[r].pc = "adding"
  /\ IF Overtaken(r) THEN req' = [req EXCEPT ![r] = Idle] /\ UNCHANGED <<user, epochs, proven>>
     ELSE /\ epoch <= MaxEpoch
          /\ user' = [user EXCEPT !.factors = @ \cup {req[r].factor}, !.epoch = IF req[r].epoch # 0 THEN @ ELSE epoch]
          /\ epochs' = IF req[r].epoch # 0 THEN epochs ELSE epoch
          /\ req' = [req EXCEPT ![r] = Step(r, "refresh", None, epoch)]
          /\ proven' = [proven EXCEPT ![req[r].login] = @ \cup {epoch}]
  /\ UNCHANGED <<row, token, ended, shifted>>

\* The factor is deleted, unseen as yet, and those left are counted.
DeleteFactor(r) == \E f \in user.factors :
  /\ Admitted(r, {"pass"})
  /\ Free(f)
  /\ user.factors = {f} => ~user.required
  /\ req' = [req EXCEPT ![r] = [Step(r, "removing", f, 0) EXCEPT !.last = user.factors = {f}]]
  /\ UNCHANGED <<user, epochs, row, token, ghosts>>

\* The last factor turns MFA off.
FactorRemoved(r) ==
  /\ req[r].pc = "removing"
  /\ user' = [user EXCEPT !.factors = @ \ {req[r].factor}, !.epoch = IF req[r].last THEN 0 ELSE @]
  /\ req' = [req EXCEPT ![r] = Idle]
  /\ UNCHANGED <<epochs, row, token, ghosts>>

\* The code or the assertion is right.
CheckFactor(r) == \E f \in user.factors :
  /\ Admitted(r, {"challenge"})
  /\ req' = [req EXCEPT ![r] = Step(r, "checked", None, user.epoch)]
  /\ proven' = [proven EXCEPT ![req[r].login] = @ \cup {user.epoch}]
  /\ UNCHANGED <<user, epochs, row, token, ended, shifted>>

\* The epoch is read after the check; none, and the check counts for nothing.
CurrentEpoch(r) ==
  /\ req[r].pc = "checked"
  /\ req' = IF user.epoch = 0 THEN [req EXCEPT ![r] = Idle]
            ELSE [req EXCEPT ![r] = Step(r, "refresh", None, user.epoch)]
  /\ shifted' = IF user.epoch \notin {0, req[r].epoch} THEN shifted \cup {req[r].login} ELSE shifted
  /\ UNCHANGED <<user, epochs, row, token, ended, proven>>

\* The code is used up and the epoch read in one transaction.
VerifyRecoveryCode(r) ==
  /\ Admitted(r, {"challenge"})
  /\ user.epoch # 0
  /\ req' = [req EXCEPT ![r] = Step(r, "refresh", None, user.epoch)]
  /\ proven' = [proven EXCEPT ![req[r].login] = @ \cup {user.epoch}]
  /\ UNCHANGED <<user, epochs, row, token, ended, shifted>>

\* refreshSession: the browser's new token has the version of now and what was proved.
RefreshSession(r) ==
  /\ req[r].pc = "refresh"
  /\ token' = [token EXCEPT ![req[r].login] = [version |-> user.version, epoch |-> req[r].epoch]]
  /\ req' = [req EXCEPT ![r] = Idle]
  /\ UNCHANGED <<user, epochs, row, ghosts>>

\* An admin resets the second factor of somebody who has lost it.
ResetMemberMfa ==
  /\ user.epoch # 0
  /\ RevokeUserSessions(None)
  /\ user' = [user EXCEPT !.factors = {}, !.epoch = 0, !.version = @ + 1]
  /\ UNCHANGED <<epochs, token, req, proven, shifted>>

\* A workspace of theirs starts or stops requiring MFA.
SetMfaRequired ==
  /\ user' = [user EXCEPT !.required = ~@]
  /\ UNCHANGED <<epochs, row, token, req, ghosts>>
-----------------------------------------------------------------------------
Next ==
  \/ \E r \in Requests :
       \/ Authorize(r) \/ StartLoginSession(r)
       \/ ReadUser(r) \/ ReadLogin(r) \/ EndRequest(r)
       \/ ChangePassword(r) \/ RevokeOthers(r)
       \/ InsertFactor(r) \/ FactorAdded(r) \/ DeleteFactor(r) \/ FactorRemoved(r)
       \/ CheckFactor(r) \/ CurrentEpoch(r) \/ VerifyRecoveryCode(r) \/ RefreshSession(r)
  \/ \E l \in Logins : SignOut(l)
  \/ SignOutEverywhere \/ ResetMemberMfa \/ SetMfaRequired

Spec == Init /\ [][Next]_vars
-----------------------------------------------------------------------------
(* Properties. *)

\* Once a sign-in has been ended (by hand, by a password change or reset, by an admin
\* or staff), no request that comes later gets past the guards with it, not even if
\* it was still being recorded at the time, or a request of its own refreshed its token.
EndedStaysOut == \A r \in Requests : req[r].pc # "reading" => ~req[r].late

\* A request passes with MFA on only if its sign-in has shown a factor in that very
\* epoch: MFA turned off and on, or reset, asks everyone again.  But for a check that
\* was under way meanwhile.
SecondFactorProven ==
  \A r \in Requests : Admitted(r, {"pass"}) /\ req[r].epoch # 0 /\ req[r].login \notin shifted
    => req[r].epoch \in proven[req[r].login]

\* Two first factors confirmed at once start one epoch between them, so neither sends
\* the other's sign-in back to the challenge.
OneEpoch == [][user.epoch # 0 /\ user'.epoch # 0 => user'.epoch = user.epoch]_vars

=============================================================================
