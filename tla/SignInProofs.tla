---------------------------- MODULE SignInProofs -----------------------------
(***************************************************************************)
(* An ended sign-in never passes the guards again, a pass with MFA on is   *)
(* always backed by a factor shown in that epoch, and an epoch is never    *)
(* replaced by another: for any number of sign-ins, requests and factors.  *)
(* The throttle of the sign-in keeps its limits for any number of attempts *)
(* at once, any limit, any window and any cost.                            *)
(***************************************************************************)
EXTENDS MCSignIn, FiniteSetTheorems, TLAPS

(* The inductive invariant behind the properties. *)

\* A request belongs to a sign-in.  One that is not recorded yet has no token and no
\* request but the one that makes it, and what was read for it is not newer than the account.
UnrecordedInv ==
  /\ \A r \in Requests : req[r].pc = "idle" <=> req[r].login = None
  /\ \A r \in Requests : req[r].pc = "adding" => req[r].factor # None
  /\ \A r \in Requests : req[r].version <= user.version
  /\ \A r \in Requests : req[r].pc = "authorized" => row[req[r].login] = "none"
  /\ \A l \in Logins : row[l] = "none" => token[l] = None
  /\ \A q, r \in Requests :
       req[r].pc # "idle" /\ req[q].login = req[r].login /\ row[req[r].login] = "none"
         => req[r].pc = "authorized" /\ q = r

\* Why an ended sign-in is out: its row is revoked, or it was recorded too late with
\* the version of before, and nobody can refresh its token.
EndedInv ==
  /\ \A l \in Logins : token[l] # None => token[l].version <= user.version
  /\ \A l \in ended : row[l] # "revoked" =>
       /\ token[l] # None => token[l].version < user.version
       /\ \A r \in Requests : req[r].login = l => req[r].pc = "authorized" /\ req[r].version < user.version
  /\ \A l \in ended : row[l] = "none" => \E r \in Requests : req[r].login = l
  /\ \A r \in Requests : req[r].late => req[r].pc = "reading" /\ row[req[r].login] = "revoked"

\* Whatever says that a sign-in has proved an epoch is right.
ProvenInv ==
  /\ \A l \in Logins \ shifted : token[l] # None /\ token[l].epoch # 0 => token[l].epoch \in proven[l]
  /\ \A r \in Requests : req[r].login \in Logins \ shifted =>
       /\ req[r].verified # 0 => req[r].verified \in proven[req[r].login]
       /\ req[r].pc = "checked" \/ (req[r].pc = "refresh" /\ req[r].epoch # 0)
            => req[r].epoch \in proven[req[r].login]
       /\ req[r].pc = "admitted" /\ req[r].gate = "pass" /\ req[r].epoch # 0
            => req[r].verified = req[r].epoch

IndInv == TypeOK /\ UnrecordedInv /\ EndedInv /\ ProvenInv
-----------------------------------------------------------------------------
USE SignInAssumption

\* An idle request, and what an admitted one goes on to do, are requests.
LEMMA IdleRequest == Idle \in Request
BY DEF Idle, Request, Version, Epoch, Gates

LEMMA StepRequest ==
  ASSUME TypeOK, NEW r \in Requests, NEW pc \in {"adding", "removing", "checked", "refresh"},
         NEW f \in Factors \cup {None}, NEW e \in Epoch
  PROVE  Step(r, pc, f, e) \in Request
<1>1. req[r].login \in Logins \cup {None}
  BY DEF TypeOK, Request
<1> QED
  BY <1>1, IdleRequest DEF Step, Idle, Request

\* Most actions replace one request.
LEMMA RequestStep ==
  ASSUME TypeOK, NEW r \in Requests, NEW q \in Request, req' = [req EXCEPT ![r] = q]
  PROVE  req' \in [Requests -> Request]
BY DEF TypeOK

LEMMA TypeStep ==
  ASSUME TypeOK, UnrecordedInv, [Next]_vars
  PROVE  TypeOK'
<1> USE DEF TypeOK
<1>0. /\ \A r \in Requests : req[r] \in Request
      /\ 0 \in Version /\ 0 \in Epoch
  BY DEF Version, Epoch
<1>1. ASSUME NEW r \in Requests, Authorize(r) PROVE TypeOK'
  <2>1. PICK l \in Logins : req' = [req EXCEPT ![r] = [Idle EXCEPT !.pc = "authorized", !.login = l,
                                                                   !.version = user.version]]
    BY <1>1 DEF Authorize
  <2>2. [Idle EXCEPT !.pc = "authorized", !.login = l, !.version = user.version] \in Request
    BY IdleRequest DEF Idle, Request
  <2> QED
    BY <1>1, <2>1, <2>2, RequestStep DEF Authorize, ghosts
<1>2. ASSUME NEW r \in Requests, StartLoginSession(r) PROVE TypeOK'
  <2>1. req[r].login \in Logins /\ req[r].version \in Version
    BY <1>2, <1>0 DEF StartLoginSession, Request, UnrecordedInv
  <2>2. [version |-> req[r].version, epoch |-> 0] \in Claims
    BY <2>1, <1>0 DEF Claims
  <2>3. req' \in [Requests -> Request]
    BY <1>2, IdleRequest, RequestStep DEF StartLoginSession
  <2> QED
    BY <1>2, <2>2, <2>3 DEF StartLoginSession, Stamped, ghosts
<1>3. ASSUME NEW r \in Requests, ReadUser(r) PROVE TypeOK'
  <2>1. PICK l \in Logins :
          /\ token[l] # None
          /\ req' = [req EXCEPT ![r] = [Idle EXCEPT !.pc = "reading", !.login = l, !.verified = token[l].epoch,
                                                    !.epoch = user.epoch, !.late = l \in ended]]
    BY <1>3 DEF ReadUser
  <2>2. token[l].epoch \in Epoch
    BY <2>1 DEF Claims
  <2> DEFINE isLate == l \in ended
             q == [Idle EXCEPT !.pc = "reading", !.login = l, !.verified = token[l].epoch,
                               !.epoch = user.epoch, !.late = isLate]
  <2>3. isLate \in BOOLEAN
    OBVIOUS
  <2>4. req' = [req EXCEPT ![r] = q]
    BY <2>1, Zenon
  <2> HIDE DEF isLate
  <2>5. q \in Request
    BY <2>2, <2>3, IdleRequest DEF Idle, Request
  <2> HIDE DEF q
  <2> QED
    BY <1>3, <2>4, <2>5, RequestStep DEF ReadUser, ghosts
<1>4. ASSUME NEW r \in Requests, ReadLogin(r) PROVE TypeOK'
  <2> DEFINE q == [req[r] EXCEPT !.pc = "admitted", !.gate = Gate(req[r].epoch, req[r].verified, user.required)]
  <2>1. Gate(req[r].epoch, req[r].verified, user.required) \in Gates
    BY DEF Gate, Gates
  <2>2. q \in Request
    BY <2>1, <1>0, ZenonT(90) DEF Request
  <2>3. req' = [req EXCEPT ![r] = Idle] \/ req' = [req EXCEPT ![r] = q]
    BY <1>4 DEF ReadLogin
  <2> HIDE DEF q
  <2>4. req' \in [Requests -> Request]
    BY <2>2, <2>3, IdleRequest, RequestStep
  <2> QED
    BY <1>4, <2>4 DEF ReadLogin, ghosts
<1>5. ASSUME NEW r \in Requests, EndRequest(r) PROVE TypeOK'
  BY <1>5, IdleRequest, RequestStep DEF EndRequest, ghosts
<1>6. ASSUME NEW r \in Requests, ChangePassword(r) PROVE TypeOK'
  <2>1. req[r].verified \in Epoch
    BY <1>0 DEF Request
  <2>2. req' \in [Requests -> Request]
    BY <1>6, <2>1, StepRequest, RequestStep DEF ChangePassword
  <2>3. user.version + 1 \in Version
    BY <1>6 DEF ChangePassword, RevokeUserSessions, Version
  <2> QED
    BY <1>6, <2>2, <2>3 DEF ChangePassword, RevokeUserSessions, Started
<1>7. ASSUME NEW r \in Requests, RevokeOthers(r) PROVE TypeOK'
  <2>1. req' \in [Requests -> Request]
    BY <1>7, IdleRequest, RequestStep DEF RevokeOthers
  <2>2. row' \in [Logins -> {"none", "live", "revoked"}] /\ ended' \subseteq Logins
    BY <1>7 DEF RevokeOthers, Live
  <2> QED
    BY <1>7, <2>1, <2>2 DEF RevokeOthers
<1>8. ASSUME NEW r \in Requests, InsertFactor(r) PROVE TypeOK'
  <2>1. req' \in [Requests -> Request]
    BY <1>8, StepRequest, RequestStep DEF InsertFactor
  <2> QED
    BY <1>8, <2>1 DEF InsertFactor, ghosts
<1>9. ASSUME NEW r \in Requests, FactorAdded(r) PROVE TypeOK'
  <2>1. CASE Overtaken(r)
    BY <1>9, <2>1, IdleRequest, RequestStep DEF FactorAdded
  <2>2. CASE ~Overtaken(r)
    <3> DEFINE epoch == IF req[r].epoch # 0 THEN req[r].epoch ELSE epochs + 1
    <3>1. epoch \in Epoch
      BY <1>9, <2>2, <1>0 DEF FactorAdded, Epoch, Request
    <3>2. req' \in [Requests -> Request]
      BY <1>9, <2>2, <3>1, StepRequest, RequestStep DEF FactorAdded
    <3>3. req[r].factor \in Factors
      BY <1>9, <1>0 DEF FactorAdded, Request, UnrecordedInv
    <3>4. user' \in [version : Version, epoch : Epoch, factors : SUBSET Factors, required : BOOLEAN]
      <4> DEFINE all == user.factors \cup {req[r].factor}
                 now == IF req[r].epoch # 0 THEN user.epoch ELSE epoch
      <4>1. all \in SUBSET Factors /\ now \in Epoch
        BY <3>1, <3>3
      <4>2. user' = [user EXCEPT !.factors = all, !.epoch = now]
        BY <1>9, <2>2 DEF FactorAdded
      <4> HIDE DEF all, now, epoch
      <4> QED
        BY <4>1, <4>2
    <3>5. epochs' \in Epoch
      BY <1>9, <2>2, <3>1 DEF FactorAdded
    <3>6. proven' \in [Logins -> SUBSET Epoch]
      BY <1>9, <2>2, <3>1 DEF FactorAdded
    <3> QED
      BY <1>9, <3>2, <3>4, <3>5, <3>6 DEF FactorAdded
  <2> QED
    BY <2>1, <2>2
<1>10. ASSUME NEW r \in Requests, DeleteFactor(r) PROVE TypeOK'
  <2>1. PICK f \in user.factors :
          req' = [req EXCEPT ![r] = [Step(r, "removing", f, 0) EXCEPT !.last = user.factors = {f}]]
    BY <1>10 DEF DeleteFactor
  <2>2. Step(r, "removing", f, 0) \in Request
    BY <1>0, StepRequest
  <2>3. [Step(r, "removing", f, 0) EXCEPT !.last = user.factors = {f}] \in Request
    BY <2>2 DEF Request
  <2> QED
    BY <1>10, <2>1, <2>3, RequestStep DEF DeleteFactor, ghosts
<1>11. ASSUME NEW r \in Requests, FactorRemoved(r) PROVE TypeOK'
  <2>1. req' \in [Requests -> Request]
    BY <1>11, IdleRequest, RequestStep DEF FactorRemoved
  <2> QED
    BY <1>11, <1>0, <2>1 DEF FactorRemoved, ghosts
<1>12. ASSUME NEW r \in Requests, CheckFactor(r) PROVE TypeOK'
  <2>1. req' \in [Requests -> Request]
    BY <1>12, StepRequest, RequestStep DEF CheckFactor
  <2>2. proven' = [proven EXCEPT ![req[r].login] = @ \cup {user.epoch}]
    BY <1>12 DEF CheckFactor
  <2>3. proven' \in [Logins -> SUBSET Epoch]
    <3> DEFINE e == user.epoch
    <3>1. e \in Epoch
      OBVIOUS
    <3> HIDE DEF e
    <3> QED
      BY <2>2, <3>1
  <2> QED
    BY <1>12, <2>1, <2>3 DEF CheckFactor
<1>13. ASSUME NEW r \in Requests, CurrentEpoch(r) PROVE TypeOK'
  <2>1. req' = [req EXCEPT ![r] = Idle] \/ req' = [req EXCEPT ![r] = Step(r, "refresh", None, user.epoch)]
    BY <1>13 DEF CurrentEpoch
  <2>2. req' \in [Requests -> Request]
    BY <2>1, IdleRequest, StepRequest, RequestStep
  <2>3. req[r].login \in Logins
    BY <1>13, <1>0 DEF CurrentEpoch, Request, UnrecordedInv
  <2> QED
    BY <1>13, <2>2, <2>3 DEF CurrentEpoch
<1>14. ASSUME NEW r \in Requests, VerifyRecoveryCode(r) PROVE TypeOK'
  <2>1. req' \in [Requests -> Request]
    BY <1>14, StepRequest, RequestStep DEF VerifyRecoveryCode
  <2> QED
    BY <1>14, <2>1 DEF VerifyRecoveryCode
<1>15. ASSUME NEW r \in Requests, RefreshSession(r) PROVE TypeOK'
  <2>1. req' \in [Requests -> Request]
    BY <1>15, IdleRequest, RequestStep DEF RefreshSession
  <2>2. [version |-> user.version, epoch |-> req[r].epoch] \in Claims
    BY <1>0 DEF Claims, Request
  <2> QED
    BY <1>15, <2>1, <2>2 DEF RefreshSession, ghosts
<1>16. ASSUME NEW l \in Logins, SignOut(l) PROVE TypeOK'
  BY <1>16 DEF SignOut
<1>17. ASSUME SignOutEverywhere PROVE TypeOK'
  <2>1. user.version + 1 \in Version
    BY <1>17 DEF SignOutEverywhere, RevokeUserSessions, Version
  <2> QED
    BY <1>17, <1>0, <2>1 DEF SignOutEverywhere, RevokeUserSessions, Started
<1>18. ASSUME ResetMemberMfa PROVE TypeOK'
  <2>1. user.version + 1 \in Version
    BY <1>18 DEF ResetMemberMfa, RevokeUserSessions, Version
  <2> QED
    BY <1>18, <1>0, <2>1 DEF ResetMemberMfa, RevokeUserSessions, Started
<1>19. ASSUME SetMfaRequired PROVE TypeOK'
  BY <1>19 DEF SetMfaRequired, ghosts
<1>20. ASSUME UNCHANGED vars PROVE TypeOK'
  BY <1>20 DEF vars
<1> QED
  BY <1>1, <1>2, <1>3, <1>4, <1>5, <1>6, <1>7, <1>8, <1>9, <1>10, <1>11, <1>12, <1>13, <1>14, <1>15, <1>16, <1>17, <1>18, <1>19, <1>20 DEF Next

\* What a confirmed factor changes unless another one has overtaken it.
LEMMA FactorAddedFrame ==
  ASSUME TypeOK, NEW r \in Requests, FactorAdded(r), ~Overtaken(r)
  PROVE  \E epoch \in Nat :
           /\ user'.version = user.version
           /\ req' = [req EXCEPT ![r] = Step(r, "refresh", None, epoch)]
           /\ proven' = [proven EXCEPT ![req[r].login] = @ \cup {epoch}]
<1> DEFINE epoch == IF req[r].epoch # 0 THEN req[r].epoch ELSE epochs + 1
<1>1. epoch \in Nat
  BY DEF TypeOK, Request, Epoch
<1>2. /\ req' = [req EXCEPT ![r] = Step(r, "refresh", None, epoch)]
      /\ proven' = [proven EXCEPT ![req[r].login] = @ \cup {epoch}]
      /\ \E all, now : user' = [user EXCEPT !.factors = all, !.epoch = now]
  BY DEF FactorAdded
<1>3. user'.version = user.version
  BY <1>2 DEF TypeOK
<1> QED
  BY <1>1, <1>2, <1>3

LEMMA UnrecordedStep ==
  ASSUME TypeOK, UnrecordedInv, [Next]_vars
  PROVE  UnrecordedInv'
<1> USE DEF TypeOK, UnrecordedInv, Started, Live, Version
<1>1. ASSUME NEW r \in Requests, Authorize(r) PROVE UnrecordedInv'
  BY <1>1 DEF Authorize, Idle, ghosts, Request
<1>2. ASSUME NEW r \in Requests, StartLoginSession(r) PROVE UnrecordedInv'
  BY <1>2 DEF StartLoginSession, Stamped, Idle, ghosts, Request
<1>3. ASSUME NEW r \in Requests, ReadUser(r) PROVE UnrecordedInv'
  BY <1>3 DEF ReadUser, Idle, ghosts, Request
<1>4. ASSUME NEW r \in Requests, ReadLogin(r) PROVE UnrecordedInv'
  BY <1>4 DEF ReadLogin, Gate, Idle, ghosts, Request
<1>5. ASSUME NEW r \in Requests, EndRequest(r) PROVE UnrecordedInv'
  BY <1>5 DEF EndRequest, Idle, ghosts, Request
<1>6. ASSUME NEW r \in Requests, ChangePassword(r) PROVE UnrecordedInv'
  BY <1>6 DEF ChangePassword, Admitted, RevokeUserSessions, Step, Idle, ghosts, Request
<1>7. ASSUME NEW r \in Requests, RevokeOthers(r) PROVE UnrecordedInv'
  BY <1>7 DEF RevokeOthers, Admitted, Live, Idle, ghosts, Request
<1>8. ASSUME NEW r \in Requests, InsertFactor(r) PROVE UnrecordedInv'
  BY <1>8 DEF InsertFactor, Admitted, Step, Idle, ghosts, Request
<1>9. ASSUME NEW r \in Requests, FactorAdded(r) PROVE UnrecordedInv'
  <2>1. req[r].pc = "adding" /\ UNCHANGED <<row, token, ended, shifted>>
    BY <1>9 DEF FactorAdded
  <2>2. CASE Overtaken(r)
    BY <1>9, <2>1, <2>2 DEF FactorAdded, Idle
  <2>3. CASE ~Overtaken(r)
    <3>1. PICK epoch \in Nat :
            /\ user'.version = user.version
            /\ req' = [req EXCEPT ![r] = Step(r, "refresh", None, epoch)]
            /\ proven' = [proven EXCEPT ![req[r].login] = @ \cup {epoch}]
      BY <1>9, <2>3, FactorAddedFrame
    <3> QED
      BY <2>1, <3>1 DEF Step, Idle
  <2> QED
    BY <2>2, <2>3
<1>10. ASSUME NEW r \in Requests, DeleteFactor(r) PROVE UnrecordedInv'
  BY <1>10 DEF DeleteFactor, Admitted, Step, Idle, ghosts, Request
<1>11. ASSUME NEW r \in Requests, FactorRemoved(r) PROVE UnrecordedInv'
  BY <1>11 DEF FactorRemoved, Idle, ghosts, Request
<1>12. ASSUME NEW r \in Requests, CheckFactor(r) PROVE UnrecordedInv'
  BY <1>12 DEF CheckFactor, Admitted, Step, Idle, ghosts, Request
<1>13. ASSUME NEW r \in Requests, CurrentEpoch(r) PROVE UnrecordedInv'
  BY <1>13 DEF CurrentEpoch, Step, Idle, ghosts, Request
<1>14. ASSUME NEW r \in Requests, VerifyRecoveryCode(r) PROVE UnrecordedInv'
  BY <1>14 DEF VerifyRecoveryCode, Admitted, Step, Idle, ghosts, Request
<1>15. ASSUME NEW r \in Requests, RefreshSession(r) PROVE UnrecordedInv'
  BY <1>15 DEF RefreshSession, Idle, ghosts, Request
<1>16. ASSUME NEW l \in Logins, SignOut(l) PROVE UnrecordedInv'
  BY <1>16 DEF SignOut, ghosts
<1>17. ASSUME SignOutEverywhere PROVE UnrecordedInv'
  <2>1. user.version \in Nat /\ user'.version = user.version + 1 /\ UNCHANGED <<token, req>>
    BY <1>17 DEF SignOutEverywhere
  <2>2. /\ row' = [l \in Logins |-> IF row[l] = "live" THEN "revoked" ELSE row[l]]
        /\ ended' = ended \cup Started
    BY <1>17 DEF SignOutEverywhere, RevokeUserSessions
  <2>3. \A l \in Logins : row'[l] # "live" /\ (row'[l] = "none" <=> row[l] = "none")
    BY <2>2
  <2>4. \A r \in Requests : req[r].version \in Nat /\ req[r].login \in Logins \cup {None}
    BY DEF Request
  <2> HIDE DEF TypeOK
  <2> QED
    BY <2>1, <2>2, <2>3, <2>4
<1>18. ASSUME ResetMemberMfa PROVE UnrecordedInv'
  <2>1. user.version \in Nat /\ user'.version = user.version + 1 /\ UNCHANGED <<token, req>>
    BY <1>18 DEF ResetMemberMfa
  <2>2. /\ row' = [l \in Logins |-> IF row[l] = "live" THEN "revoked" ELSE row[l]]
        /\ ended' = ended \cup Started
    BY <1>18 DEF ResetMemberMfa, RevokeUserSessions
  <2>3. \A l \in Logins : row'[l] # "live" /\ (row'[l] = "none" <=> row[l] = "none")
    BY <2>2
  <2>4. \A r \in Requests : req[r].version \in Nat /\ req[r].login \in Logins \cup {None}
    BY DEF Request
  <2> HIDE DEF TypeOK
  <2> QED
    BY <2>1, <2>2, <2>3, <2>4
<1>19. ASSUME SetMfaRequired PROVE UnrecordedInv'
  BY <1>19 DEF SetMfaRequired, ghosts
<1>20. ASSUME UNCHANGED vars PROVE UnrecordedInv'
  BY <1>20 DEF vars, ghosts
<1> QED
  BY <1>1, <1>2, <1>3, <1>4, <1>5, <1>6, <1>7, <1>8, <1>9, <1>10, <1>11, <1>12, <1>13, <1>14, <1>15, <1>16, <1>17, <1>18, <1>19, <1>20 DEF Next

LEMMA EndedStep ==
  ASSUME TypeOK, UnrecordedInv, EndedInv, [Next]_vars
  PROVE  EndedInv'
<1> USE DEF TypeOK, UnrecordedInv, EndedInv, Started, Live, Version, Claims
<1>1. ASSUME NEW r \in Requests, Authorize(r) PROVE EndedInv'
  BY <1>1 DEF Authorize, Idle, ghosts, Request
<1>2. ASSUME NEW r \in Requests, StartLoginSession(r) PROVE EndedInv'
  BY <1>2 DEF StartLoginSession, Stamped, Idle, ghosts, Request
<1>3. ASSUME NEW r \in Requests, ReadUser(r) PROVE EndedInv'
  BY <1>3 DEF ReadUser, Idle, ghosts, Request
<1>4. ASSUME NEW r \in Requests, ReadLogin(r) PROVE EndedInv'
  BY <1>4 DEF ReadLogin, Gate, Idle, ghosts, Request
<1>5. ASSUME NEW r \in Requests, EndRequest(r) PROVE EndedInv'
  BY <1>5 DEF EndRequest, Idle, ghosts, Request
<1>6. ASSUME NEW r \in Requests, ChangePassword(r) PROVE EndedInv'
  BY <1>6 DEF ChangePassword, Admitted, RevokeUserSessions, Step, Idle, ghosts, Request
<1>7. ASSUME NEW r \in Requests, RevokeOthers(r) PROVE EndedInv'
  BY <1>7 DEF RevokeOthers, Admitted, Live, Idle, ghosts, Request
<1>8. ASSUME NEW r \in Requests, InsertFactor(r) PROVE EndedInv'
  BY <1>8 DEF InsertFactor, Admitted, Step, Idle, ghosts, Request
<1>9. ASSUME NEW r \in Requests, FactorAdded(r) PROVE EndedInv'
  <2>1. req[r].pc = "adding" /\ UNCHANGED <<row, token, ended, shifted>>
    BY <1>9 DEF FactorAdded
  <2>2. CASE Overtaken(r)
    BY <1>9, <2>1, <2>2 DEF FactorAdded, Idle
  <2>3. CASE ~Overtaken(r)
    <3>1. PICK epoch \in Nat :
            /\ user'.version = user.version
            /\ req' = [req EXCEPT ![r] = Step(r, "refresh", None, epoch)]
            /\ proven' = [proven EXCEPT ![req[r].login] = @ \cup {epoch}]
      BY <1>9, <2>3, FactorAddedFrame
    <3> QED
      BY <2>1, <3>1 DEF Step, Idle
  <2> QED
    BY <2>2, <2>3
<1>10. ASSUME NEW r \in Requests, DeleteFactor(r) PROVE EndedInv'
  BY <1>10 DEF DeleteFactor, Admitted, Step, Idle, ghosts, Request
<1>11. ASSUME NEW r \in Requests, FactorRemoved(r) PROVE EndedInv'
  BY <1>11 DEF FactorRemoved, Idle, ghosts, Request
<1>12. ASSUME NEW r \in Requests, CheckFactor(r) PROVE EndedInv'
  BY <1>12 DEF CheckFactor, Admitted, Step, Idle, ghosts, Request
<1>13. ASSUME NEW r \in Requests, CurrentEpoch(r) PROVE EndedInv'
  BY <1>13 DEF CurrentEpoch, Step, Idle, ghosts, Request
<1>14. ASSUME NEW r \in Requests, VerifyRecoveryCode(r) PROVE EndedInv'
  BY <1>14 DEF VerifyRecoveryCode, Admitted, Step, Idle, ghosts, Request
<1>15. ASSUME NEW r \in Requests, RefreshSession(r) PROVE EndedInv'
  BY <1>15 DEF RefreshSession, Idle, ghosts, Request
<1>16. ASSUME NEW l \in Logins, SignOut(l) PROVE EndedInv'
  BY <1>16 DEF SignOut, ghosts
<1>17. ASSUME SignOutEverywhere PROVE EndedInv'
  <2>1. user.version \in Nat /\ user'.version = user.version + 1 /\ UNCHANGED <<token, req>>
    BY <1>17 DEF SignOutEverywhere
  <2>2. /\ row' = [l \in Logins |-> IF row[l] = "live" THEN "revoked" ELSE row[l]]
        /\ ended' = ended \cup Started
    BY <1>17 DEF SignOutEverywhere, RevokeUserSessions
  <2>3. \A l \in Logins : row'[l] # "live" /\ (row'[l] = "none" <=> row[l] = "none")
    BY <2>2
  <2>4. /\ \A r \in Requests : req[r].version \in Nat /\ req[r].login \in Logins \cup {None}
        /\ \A l \in Logins : row[l] \in {"none", "live", "revoked"}
        /\ \A l \in Logins : token[l] # None => token[l].version \in Nat
    BY DEF Request
  <2>5. \A l \in Logins : token'[l] # None => token'[l].version < user'.version
    BY <2>1, <2>4
  <2>6. \A l \in ended' : row'[l] # "revoked" => row[l] = "none" /\ l \in Started
    BY <2>2, <2>3, <2>4
  <2>7. \A l \in Started : row[l] = "none" =>
          \A r \in Requests : req[r].login = l => req[r].pc = "authorized" /\ req[r].version < user'.version
    BY <2>1, <2>4
  <2>8. \A r \in Requests : req'[r].late => req'[r].pc = "reading" /\ row'[req'[r].login] = "revoked"
    BY <2>1, <2>2, <2>4
  <2> QED
    BY <2>1, <2>2, <2>3, <2>4, <2>5, <2>6, <2>7, <2>8
<1>18. ASSUME ResetMemberMfa PROVE EndedInv'
  <2>1. user.version \in Nat /\ user'.version = user.version + 1 /\ UNCHANGED <<token, req>>
    BY <1>18 DEF ResetMemberMfa
  <2>2. /\ row' = [l \in Logins |-> IF row[l] = "live" THEN "revoked" ELSE row[l]]
        /\ ended' = ended \cup Started
    BY <1>18 DEF ResetMemberMfa, RevokeUserSessions
  <2>3. \A l \in Logins : row'[l] # "live" /\ (row'[l] = "none" <=> row[l] = "none")
    BY <2>2
  <2>4. /\ \A r \in Requests : req[r].version \in Nat /\ req[r].login \in Logins \cup {None}
        /\ \A l \in Logins : row[l] \in {"none", "live", "revoked"}
        /\ \A l \in Logins : token[l] # None => token[l].version \in Nat
    BY DEF Request
  <2>5. \A l \in Logins : token'[l] # None => token'[l].version < user'.version
    BY <2>1, <2>4
  <2>6. \A l \in ended' : row'[l] # "revoked" => row[l] = "none" /\ l \in Started
    BY <2>2, <2>3, <2>4
  <2>7. \A l \in Started : row[l] = "none" =>
          \A r \in Requests : req[r].login = l => req[r].pc = "authorized" /\ req[r].version < user'.version
    BY <2>1, <2>4
  <2>8. \A r \in Requests : req'[r].late => req'[r].pc = "reading" /\ row'[req'[r].login] = "revoked"
    BY <2>1, <2>2, <2>4
  <2> QED
    BY <2>1, <2>2, <2>3, <2>4, <2>5, <2>6, <2>7, <2>8
<1>19. ASSUME SetMfaRequired PROVE EndedInv'
  BY <1>19 DEF SetMfaRequired, ghosts
<1>20. ASSUME UNCHANGED vars PROVE EndedInv'
  BY <1>20 DEF vars, ghosts
<1> QED
  BY <1>1, <1>2, <1>3, <1>4, <1>5, <1>6, <1>7, <1>8, <1>9, <1>10, <1>11, <1>12, <1>13, <1>14, <1>15, <1>16, <1>17, <1>18, <1>19, <1>20 DEF Next

LEMMA ProvenStep ==
  ASSUME TypeOK, UnrecordedInv, ProvenInv, [Next]_vars
  PROVE  ProvenInv'
<1> USE DEF TypeOK, UnrecordedInv, ProvenInv, Claims, Version, Epoch
<1>1. ASSUME NEW r \in Requests, Authorize(r) PROVE ProvenInv'
  BY <1>1 DEF Authorize, Idle, ghosts, Request
<1>2. ASSUME NEW r \in Requests, StartLoginSession(r) PROVE ProvenInv'
  BY <1>2 DEF StartLoginSession, Stamped, Idle, ghosts, Request
<1>3. ASSUME NEW r \in Requests, ReadUser(r) PROVE ProvenInv'
  BY <1>3 DEF ReadUser, Idle, ghosts, Request
<1>4. ASSUME NEW r \in Requests, ReadLogin(r) PROVE ProvenInv'
  BY <1>4 DEF ReadLogin, Gate, Idle, ghosts, Request
<1>5. ASSUME NEW r \in Requests, EndRequest(r) PROVE ProvenInv'
  BY <1>5 DEF EndRequest, Idle, ghosts, Request
<1>6. ASSUME NEW r \in Requests, ChangePassword(r) PROVE ProvenInv'
  BY <1>6 DEF ChangePassword, Admitted, RevokeUserSessions, Step, Idle, ghosts, Request
<1>7. ASSUME NEW r \in Requests, RevokeOthers(r) PROVE ProvenInv'
  BY <1>7 DEF RevokeOthers, Admitted, Live, Idle, ghosts, Request
<1>8. ASSUME NEW r \in Requests, InsertFactor(r) PROVE ProvenInv'
  BY <1>8 DEF InsertFactor, Admitted, Step, Idle, ghosts, Request
<1>9. ASSUME NEW r \in Requests, FactorAdded(r) PROVE ProvenInv'
  <2>1. req[r].pc = "adding" /\ UNCHANGED <<row, token, ended, shifted>>
    BY <1>9 DEF FactorAdded
  <2>2. CASE Overtaken(r)
    BY <1>9, <2>1, <2>2 DEF FactorAdded, Idle
  <2>3. CASE ~Overtaken(r)
    <3>1. PICK epoch \in Nat :
            /\ user'.version = user.version
            /\ req' = [req EXCEPT ![r] = Step(r, "refresh", None, epoch)]
            /\ proven' = [proven EXCEPT ![req[r].login] = @ \cup {epoch}]
      BY <1>9, <2>3, FactorAddedFrame
    <3> QED
      BY <2>1, <3>1 DEF Step, Idle
  <2> QED
    BY <2>2, <2>3
<1>10. ASSUME NEW r \in Requests, DeleteFactor(r) PROVE ProvenInv'
  BY <1>10 DEF DeleteFactor, Admitted, Step, Idle, ghosts, Request
<1>11. ASSUME NEW r \in Requests, FactorRemoved(r) PROVE ProvenInv'
  BY <1>11 DEF FactorRemoved, Idle, ghosts, Request
<1>12. ASSUME NEW r \in Requests, CheckFactor(r) PROVE ProvenInv'
  BY <1>12 DEF CheckFactor, Admitted, Step, Idle, ghosts, Request
<1>13. ASSUME NEW r \in Requests, CurrentEpoch(r) PROVE ProvenInv'
  BY <1>13 DEF CurrentEpoch, Step, Idle, ghosts, Request
<1>14. ASSUME NEW r \in Requests, VerifyRecoveryCode(r) PROVE ProvenInv'
  BY <1>14 DEF VerifyRecoveryCode, Admitted, Step, Idle, ghosts, Request
<1>15. ASSUME NEW r \in Requests, RefreshSession(r) PROVE ProvenInv'
  BY <1>15 DEF RefreshSession, Idle, ghosts, Request
<1>16. ASSUME NEW l \in Logins, SignOut(l) PROVE ProvenInv'
  BY <1>16 DEF SignOut, ghosts
<1>17. ASSUME SignOutEverywhere PROVE ProvenInv'
  BY <1>17 DEF SignOutEverywhere, RevokeUserSessions, ghosts
<1>18. ASSUME ResetMemberMfa PROVE ProvenInv'
  BY <1>18 DEF ResetMemberMfa, RevokeUserSessions, ghosts
<1>19. ASSUME SetMfaRequired PROVE ProvenInv'
  BY <1>19 DEF SetMfaRequired, ghosts
<1>20. ASSUME UNCHANGED vars PROVE ProvenInv'
  BY <1>20 DEF vars, ghosts
<1> QED
  BY <1>1, <1>2, <1>3, <1>4, <1>5, <1>6, <1>7, <1>8, <1>9, <1>10, <1>11, <1>12, <1>13, <1>14, <1>15, <1>16, <1>17, <1>18, <1>19, <1>20 DEF Next

LEMMA InitIndInv == Init => IndInv
<1> SUFFICES ASSUME Init PROVE IndInv
  OBVIOUS
<1>1. TypeOK
  BY IdleRequest DEF Init, TypeOK, Version, Epoch
<1>2. UnrecordedInv
  BY DEF Init, UnrecordedInv, Idle
<1>3. EndedInv
  BY DEF Init, EndedInv, Idle
<1>4. ProvenInv
  BY DEF Init, ProvenInv, Idle
<1> QED
  BY <1>1, <1>2, <1>3, <1>4 DEF IndInv

LEMMA NextIndInv == IndInv /\ [Next]_vars => IndInv'
BY TypeStep, UnrecordedStep, EndedStep, ProvenStep DEF IndInv

\* The inductive invariant holds in every reachable state.
THEOREM Invariance == Spec => []IndInv
BY InitIndInv, NextIndInv, PTL DEF Spec

\* Every variable keeps its type.
THEOREM TypeCorrect == Spec => []TypeOK
BY Invariance, PTL DEF IndInv

\* A sign-in that has been ended never passes the guards again, even if it was still
\* being recorded when it was ended, or a request of its own refreshed its token after.
THEOREM EndedNeverReturns == Spec => []EndedStaysOut
<1>1. IndInv => EndedStaysOut
  BY DEF IndInv, EndedInv, EndedStaysOut
<1> QED
  BY <1>1, Invariance, PTL

\* A request that passes with MFA on belongs to a sign-in that has shown a factor in
\* that very epoch, however factors are added, removed and reset around it.
THEOREM PassesAreProven == Spec => []SecondFactorProven
<1>1. IndInv => SecondFactorProven
  BY DEF IndInv, TypeOK, Request, UnrecordedInv, ProvenInv, SecondFactorProven, Admitted
<1> QED
  BY <1>1, Invariance, PTL

\* An epoch ends before another one starts.
THEOREM EpochsDoNotOverlap == Spec => OneEpoch
<1>1. ASSUME IndInv, [Next]_vars, user.epoch # 0, user'.epoch # 0 PROVE user'.epoch = user.epoch
  <2> USE DEF IndInv, TypeOK
  <2>1. ASSUME NEW r \in Requests, FactorAdded(r) PROVE user'.epoch = user.epoch
    BY <1>1, <2>1 DEF FactorAdded, Overtaken
  <2>2. ASSUME NEW r \in Requests, FactorRemoved(r) PROVE user'.epoch = user.epoch
    BY <1>1, <2>2 DEF FactorRemoved
  <2>3. ASSUME NEW r \in Requests, ChangePassword(r) PROVE user'.epoch = user.epoch
    BY <2>3 DEF ChangePassword
  <2>4. ASSUME SignOutEverywhere \/ SetMfaRequired PROVE user'.epoch = user.epoch
    <3>1. \/ user' = [user EXCEPT !.version = user.version + 1]
          \/ user' = [user EXCEPT !.required = ~user.required]
      BY <2>4 DEF SignOutEverywhere, SetMfaRequired
    <3> QED
      BY <1>1, <3>1
  <2>5. ASSUME ResetMemberMfa PROVE user'.epoch = user.epoch
    BY <1>1, <2>5 DEF ResetMemberMfa
  <2>6. ASSUME NEW r \in Requests,
               \/ Authorize(r) \/ StartLoginSession(r) \/ ReadUser(r) \/ ReadLogin(r) \/ EndRequest(r)
               \/ RevokeOthers(r) \/ InsertFactor(r) \/ DeleteFactor(r) \/ CheckFactor(r)
               \/ CurrentEpoch(r) \/ VerifyRecoveryCode(r) \/ RefreshSession(r)
        PROVE  user'.epoch = user.epoch
    BY <2>6 DEF Authorize, StartLoginSession, ReadUser, ReadLogin, EndRequest, RevokeOthers, InsertFactor,
                DeleteFactor, CheckFactor, CurrentEpoch, VerifyRecoveryCode, RefreshSession
  <2>7. ASSUME (\E l \in Logins : SignOut(l)) \/ UNCHANGED vars PROVE user'.epoch = user.epoch
    BY <2>7 DEF SignOut, vars
  <2> QED
    BY <1>1, <2>1, <2>2, <2>3, <2>4, <2>5, <2>6, <2>7 DEF Next
<1>2. IndInv /\ [Next]_vars => [user.epoch # 0 /\ user'.epoch # 0 => user'.epoch = user.epoch]_vars
  BY <1>1
<1> QED
  BY <1>2, Invariance, PTL DEF Spec, OneEpoch
-----------------------------------------------------------------------------
(* The throttle: windows and totals. *)

LEMMA ThrottleConstants ==
  /\ IsFiniteSet(Attempts)
  /\ Limit \in Nat /\ MaxFailures \in Nat \ {0} /\ Costs \subseteq Nat
  /\ Window \in Nat \ {0} /\ LastTime \in Nat
BY InstanceAssumption DEF Throttle!RateLimitAssumption, IsFiniteSet, Throttle!IsFiniteSet

\* The instance has a Cardinality of its own.
LEMMA SameCount == \A S : Throttle!Cardinality(S) = Cardinality(S)
BY DEF Cardinality, Throttle!Cardinality, IsFiniteSet, Throttle!IsFiniteSet

LEMMA DivMod ==
  ASSUME NEW n \in Int, NEW m \in Nat \ {0}
  PROVE  /\ n \div m \in Int /\ n % m \in 0..(m - 1)
         /\ n = m * (n \div m) + (n % m)
BY Z3

\* A larger factor makes a larger product.
LEMMA Monotone ==
  ASSUME NEW a \in Int, NEW b \in Int, NEW m \in Nat, a <= b
  PROVE  m * a \in Int /\ m * b \in Int /\ m * a <= m * b
BY Z3

LEMMA Products ==
  ASSUME NEW a \in Int, NEW b \in Int, NEW m \in Int
  PROVE  /\ m * a \in Int /\ m * b \in Int /\ m * a = a * m
         /\ m * (a + b) = m * a + m * b /\ m * (a - b) = m * a - m * b
         /\ m * (a + 1) = m * a + m
BY Z3

\* What a quotient bounds.
LEMMA Quotient ==
  ASSUME NEW k \in Int, NEW n \in Int, NEW m \in Nat \ {0}, m * k <= n
  PROVE  n \div m \in Int /\ k <= n \div m
<1> DEFINE q == n \div m
<1>1. q \in Int /\ n < m * q + m /\ m * q \in Int
  BY DivMod, Products
<1>2. k > q => m * (q + 1) <= m * k /\ m * k \in Int
  BY <1>1, Monotone
<1>3. m * (q + 1) = m * q + m
  BY <1>1, Products
<1> QED
  BY <1>1, <1>2, <1>3


\* Where a window begins.
Begins(w) == w * Window

LEMMA Windows ==
  /\ \A w \in Int : Begins(w) \in Int /\ Begins(w + 1) = Begins(w) + Window /\ Begins(w - 1) = Begins(w) - Window
  /\ \A v, w \in Int : v < w => Begins(v) + Window <= Begins(w)
  /\ Begins(0) = 0
<1>1. ASSUME NEW w \in Int
      PROVE  Begins(w) \in Int /\ Begins(w + 1) = Begins(w) + Window /\ Begins(w - 1) = Begins(w) - Window
  <2>1. Window * (w + 1) = Window * w + Window /\ Window * (w - 1) = Window * w - Window * 1 /\ Window * 1 = Window
    BY ThrottleConstants, Products
  <2>2. /\ Begins(w) = Window * w /\ Window * w \in Int
        /\ Begins(w + 1) = Window * (w + 1) /\ Begins(w - 1) = Window * (w - 1)
    BY ThrottleConstants, Products DEF Begins
  <2> QED
    BY <2>1, <2>2, ThrottleConstants
<1>2. ASSUME NEW v \in Int, NEW w \in Int, v < w PROVE Begins(v) + Window <= Begins(w)
  <2>1. Window * (v + 1) <= Window * w
    BY <1>2, ThrottleConstants, Monotone
  <2>2. Begins(v + 1) = Window * (v + 1) /\ Begins(w) = Window * w
    BY ThrottleConstants, Products DEF Begins
  <2> QED
    BY <1>1, <2>1, <2>2
<1>3. Begins(0) = 0
  BY ThrottleConstants DEF Begins
<1> QED
  BY <1>1, <1>2, <1>3

LEMMA WindowOfTime ==
  ASSUME NEW t \in Nat
  PROVE  LET w == Throttle!WindowOf(t) IN
         /\ w \in Nat
         /\ Begins(w) <= t /\ t < Begins(w) + Window
         /\ t % Window = t - Begins(w)
         /\ t \in Throttle!Times => w \in Throttle!Windows
<1> DEFINE w == t \div Window
<1>1. /\ w \in Int /\ t % Window \in 0..(Window - 1)
      /\ t = Window * w + (t % Window) /\ Window * w \in Int
  BY ThrottleConstants, DivMod, Products
<1>2. Begins(w) = Window * w
  BY <1>1, ThrottleConstants, Products DEF Begins
<1>3. Begins(w) <= t /\ t < Begins(w) + Window /\ t % Window = t - Begins(w)
  BY <1>1, <1>2, ThrottleConstants
<1>4. w \in Nat
  <2>1. w < 0 => Begins(w) + Window <= 0
    BY <1>1, Windows
  <2> QED
    BY <1>1, <1>2, <1>3, <2>1, ThrottleConstants
<1>5. t \in Throttle!Times => w \in Throttle!Windows
  <2> SUFFICES ASSUME t <= LastTime PROVE w <= LastTime \div Window /\ LastTime \div Window \in Int
    BY <1>4 DEF Throttle!Times, Throttle!Windows
  <2>1. Window * w <= LastTime
    BY <1>1, <1>2, <1>3, ThrottleConstants
  <2> QED
    BY <1>1, <2>1, ThrottleConstants, Quotient
<1> QED
  BY <1>3, <1>4, <1>5 DEF Throttle!WindowOf

\* A time belongs to the window it lies in.
LEMMA WindowAround ==
  ASSUME NEW t \in Nat, NEW v \in Int, Begins(v) <= t, t < Begins(v) + Window
  PROVE  Throttle!WindowOf(t) = v
<1> DEFINE w == Throttle!WindowOf(t)
<1>1. w \in Nat /\ Begins(w) <= t /\ t < Begins(w) + Window
  BY WindowOfTime
<1>2. w < v => Begins(w) + Window <= Begins(v)
  BY <1>1, Windows
<1>3. v < w => Begins(v) + Window <= Begins(w)
  BY <1>1, Windows
<1>4. Begins(w) \in Int /\ Begins(v) \in Int
  BY <1>1, Windows
<1> QED
  BY <1>1, <1>2, <1>3, <1>4, ThrottleConstants

LEMMA InWindow ==
  ASSUME NEW w \in Int
  PROVE  /\ Throttle!AdmittedInWindow(w) = Throttle!AdmittedIn(Begins(w), (Begins(w) + Window) - 1)
         /\ Throttle!ExpiresAt(w) = Begins(w) + Window + Window
<1>1. Begins(w + 1) = Begins(w) + Window /\ Begins((w + 1) + 1) = Begins(w + 1) + Window
  BY Windows
<1>2. (w + 1) + 1 = w + 2 /\ w + 1 \in Int
  OBVIOUS
<1>3. Throttle!ExpiresAt(w) = Begins(w + 2)
  BY DEF Throttle!ExpiresAt, Begins
<1>4. Throttle!AdmittedInWindow(w) = Throttle!AdmittedIn(Begins(w), Begins(w + 1) - 1)
  BY DEF Throttle!AdmittedInWindow, Begins
<1>5. Begins(w + 2) = Begins(w) + Window + Window
  BY <1>1, <1>2
<1>6. Throttle!AdmittedInWindow(w) = Throttle!AdmittedIn(Begins(w), (Begins(w) + Window) - 1)
  BY <1>1, <1>4, Zenon
<1>7. Throttle!ExpiresAt(w) = Begins(w) + Window + Window
  BY <1>3, <1>5, Zenon
<1> QED
  BY <1>6, <1>7, Zenon
-----------------------------------------------------------------------------
(* The throttle: the inductive invariant. *)

\* The totals grow with time, and nothing is admitted at a time to come.
TotalsInv ==
  /\ \A s, t \in Throttle!Times : s <= t => admitted[s] <= admitted[t]
  /\ \A t \in Throttle!Times : clock <= t => admitted[t] = admitted[clock]

\* A row that may still be read has counted all that its window admitted.
SpentInv == \A w \in Throttle!Windows :
  /\ Throttle!AdmittedInWindow(w) <= Limit
  /\ clock <= Throttle!ExpiresAt(w) => spent[w] = Throttle!AdmittedInWindow(w)

\* A statement under way is younger than a window; what it read of the window before
\* is all that was admitted there, but for what came late.
SpendingInv == \A a \in Attempts : attempt[a].pc = "spending" =>
  LET q == attempt[a] IN
  /\ q.now <= clock /\ clock < q.now + Window
  /\ q.previous <= Limit
  /\ \A w \in Throttle!Windows :
       w + 1 = Throttle!WindowOf(q.now) => Throttle!AdmittedInWindow(w) <= q.previous + late

StretchInv == \A from \in Throttle!Times, length \in 1..Window :
  Throttle!AdmittedIn(from, from + length - 1) <= Limit + ((Limit * (length - 1)) \div Window) + late

\* Every attempt under way may still fail in this window.
UnderWay == {a \in Attempts : attempt[a].pc # "idle"}
GuessesInv ==
  /\ Throttle!GuessesBounded
  /\ failures[Throttle!WindowOf(clock)] + Cardinality(UnderWay) <= MaxFailures + Cardinality(Attempts) - 1
  /\ \A w \in Throttle!Windows : w > Throttle!WindowOf(clock) => failures[w] = 0

ThrottleInv == Throttle!TypeOK /\ TotalsInv /\ SpentInv /\ SpendingInv /\ StretchInv /\ GuessesInv
-----------------------------------------------------------------------------
(* The throttle: the steps. *)

\* What the totals are and say.
LEMMA Totals ==
  ASSUME Throttle!TypeOK, TotalsInv
  PROVE  /\ \A t \in Int : Throttle!AdmittedUpTo(t) \in Nat
         /\ \A s, t \in Int : s <= t => Throttle!AdmittedUpTo(s) <= Throttle!AdmittedUpTo(t)
         /\ \A t \in Int : clock <= t => Throttle!AdmittedUpTo(t) = Throttle!AdmittedUpTo(clock)
<1>1. /\ LastTime \in Nat /\ clock \in Throttle!Times /\ clock \in Nat
      /\ \A t \in Throttle!Times : admitted[t] \in Nat
      /\ \A t \in Int : t \in Throttle!Times <=> 0 <= t /\ t <= LastTime
  BY ThrottleConstants DEF Throttle!TypeOK, Throttle!Times
<1>2. ASSUME NEW t \in Int PROVE Throttle!AdmittedUpTo(t) \in Nat
  BY <1>1 DEF Throttle!AdmittedUpTo
<1>3. ASSUME NEW s \in Int, NEW t \in Int, s <= t
      PROVE  Throttle!AdmittedUpTo(s) <= Throttle!AdmittedUpTo(t)
  BY <1>1, <1>2, <1>3 DEF Throttle!AdmittedUpTo, TotalsInv
<1>4. ASSUME NEW t \in Int, clock <= t PROVE Throttle!AdmittedUpTo(t) = Throttle!AdmittedUpTo(clock)
  <2>1. LastTime \in Throttle!Times /\ clock <= LastTime
    BY <1>1
  <2>2. Throttle!AdmittedUpTo(clock) = admitted[clock]
    BY <1>1 DEF Throttle!AdmittedUpTo
  <2>3. admitted[LastTime] = admitted[clock]
    BY <2>1 DEF TotalsInv
  <2>4. CASE t < LastTime
    BY <1>1, <1>4, <2>2, <2>4 DEF Throttle!AdmittedUpTo, TotalsInv
  <2>5. CASE ~(t < LastTime)
    BY <1>1, <1>4, <2>2, <2>3, <2>5 DEF Throttle!AdmittedUpTo
  <2> QED
    BY <2>4, <2>5
<1> QED
  BY <1>2, <1>3, <1>4

\* Stretches are sums of totals.
LEMMA Stretches ==
  ASSUME Throttle!TypeOK, TotalsInv
  PROVE  /\ \A s, t \in Int : Throttle!AdmittedIn(s, t) \in Int
         /\ \A r, s, t, u \in Int : r <= s /\ t <= u => Throttle!AdmittedIn(s, t) <= Throttle!AdmittedIn(r, u)
         /\ \A s, t, u \in Int : Throttle!AdmittedIn(s, u) = Throttle!AdmittedIn(s, t - 1) + Throttle!AdmittedIn(t, u)
         /\ \A s, t, u \in Int : clock <= t /\ t <= u => Throttle!AdmittedIn(s, u) = Throttle!AdmittedIn(s, t)
         /\ \A s, t \in Int : s <= t + 1 => Throttle!AdmittedIn(s, t) >= 0
<1>1. clock \in Int
  BY DEF Throttle!TypeOK, Throttle!Times
<1>2. ASSUME NEW s \in Int, NEW t \in Int PROVE Throttle!AdmittedIn(s, t) \in Int
  BY Totals DEF Throttle!AdmittedIn
<1>3. ASSUME NEW r \in Int, NEW s \in Int, NEW t \in Int, NEW u \in Int, r <= s, t <= u
      PROVE  Throttle!AdmittedIn(s, t) <= Throttle!AdmittedIn(r, u)
  <2>1. Throttle!AdmittedUpTo(r - 1) <= Throttle!AdmittedUpTo(s - 1) /\ Throttle!AdmittedUpTo(t) <= Throttle!AdmittedUpTo(u)
    BY <1>3, Totals
  <2>2. /\ Throttle!AdmittedUpTo(r - 1) \in Nat /\ Throttle!AdmittedUpTo(s - 1) \in Nat
        /\ Throttle!AdmittedUpTo(t) \in Nat /\ Throttle!AdmittedUpTo(u) \in Nat
    BY Totals
  <2> QED
    BY <2>1, <2>2 DEF Throttle!AdmittedIn
<1>4. ASSUME NEW s \in Int, NEW t \in Int, NEW u \in Int
      PROVE  Throttle!AdmittedIn(s, u) = Throttle!AdmittedIn(s, t - 1) + Throttle!AdmittedIn(t, u)
  BY Totals DEF Throttle!AdmittedIn
<1>5. ASSUME NEW s \in Int, NEW t \in Int, NEW u \in Int, clock <= t, t <= u
      PROVE  Throttle!AdmittedIn(s, u) = Throttle!AdmittedIn(s, t)
  <2>1. Throttle!AdmittedUpTo(u) = Throttle!AdmittedUpTo(t)
    BY <1>1, <1>5, Totals
  <2> QED
    BY <2>1 DEF Throttle!AdmittedIn
<1>6. ASSUME NEW s \in Int, NEW t \in Int, s <= t + 1 PROVE Throttle!AdmittedIn(s, t) >= 0
  <2>1. Throttle!AdmittedUpTo(s - 1) <= Throttle!AdmittedUpTo(t)
    BY <1>6, Totals
  <2> QED
    BY <2>1, Totals DEF Throttle!AdmittedIn
<1> QED
  BY <1>2, <1>3, <1>4, <1>5, <1>6

LEMMA ThrottleInit == Throttle!Init => ThrottleInv
<1> SUFFICES ASSUME Throttle!Init PROVE ThrottleInv
  OBVIOUS
<1>1. Throttle!TypeOK
  BY ThrottleConstants DEF Throttle!Init, Throttle!TypeOK, Throttle!Idle, Throttle!Attempt, Throttle!Times
<1>2. TotalsInv
  BY ThrottleConstants DEF Throttle!Init, TotalsInv, Throttle!Times
<1>3. \A s, t \in Int : Throttle!AdmittedIn(s, t) = 0
  <2>1. \A t \in Int : Throttle!AdmittedUpTo(t) = 0
    BY ThrottleConstants DEF Throttle!Init, Throttle!AdmittedUpTo, Throttle!Times
  <2> QED
    BY <2>1 DEF Throttle!AdmittedIn
<1>4. SpentInv
  <2>1. ASSUME NEW w \in Throttle!Windows
        PROVE  Throttle!AdmittedInWindow(w) <= Limit /\ spent[w] = Throttle!AdmittedInWindow(w)
    <3>1. w \in Int /\ Begins(w) \in Int
      BY Windows, ThrottleConstants DEF Throttle!Windows
    <3>2. Throttle!AdmittedInWindow(w) = 0
      BY <1>3, <3>1, InWindow, ThrottleConstants
    <3> QED
      BY <3>2, ThrottleConstants DEF Throttle!Init
  <2> QED
    BY <2>1 DEF SpentInv
<1>5. SpendingInv
  BY DEF SpendingInv, Throttle!Init, Throttle!Idle
<1>6. StretchInv
  <2>1. ASSUME NEW from \in Throttle!Times, NEW length \in 1..Window
        PROVE  Throttle!AdmittedIn(from, from + length - 1) <= Limit + ((Limit * (length - 1)) \div Window) + late
    <3>1. from \in Int /\ from + length - 1 \in Int
      BY ThrottleConstants DEF Throttle!Times
    <3>2. Throttle!AdmittedIn(from, from + length - 1) = 0 /\ late = 0
      BY <1>3, <3>1 DEF Throttle!Init
    <3>3. Limit * 0 <= Limit * (length - 1) /\ Limit * (length - 1) \in Int /\ Limit * 0 = 0
      BY ThrottleConstants, Monotone
    <3>4. Window * 0 = 0
      BY ThrottleConstants
    <3>5. 0 <= (Limit * (length - 1)) \div Window /\ (Limit * (length - 1)) \div Window \in Int
      BY <3>3, <3>4, ThrottleConstants, Quotient
    <3> QED
      BY <3>2, <3>5, ThrottleConstants
  <2> QED
    BY <2>1 DEF StretchInv
<1>7. GuessesInv
  <2>1. UnderWay = {}
    BY DEF Throttle!Init, UnderWay, Throttle!Idle
  <2>2. Cardinality(UnderWay) = 0 /\ Cardinality(Attempts) \in Nat
    BY <2>1, FS_EmptySet, FS_CardinalityType, ThrottleConstants
  <2>3. \A w \in Throttle!Windows : failures[w] = 0
    BY DEF Throttle!Init
  <2>4. Throttle!WindowOf(clock) \in Throttle!Windows
    BY WindowOfTime, ThrottleConstants DEF Throttle!Init, Throttle!Times
  <2> QED
    BY <2>2, <2>3, <2>4, ThrottleConstants, SameCount DEF GuessesInv, Throttle!GuessesBounded
<1> QED
  BY <1>1, <1>2, <1>4, <1>5, <1>6, <1>7 DEF ThrottleInv

\* What fits is within the limit.
LEMMA FitsWithin ==
  ASSUME NEW p \in Nat, NEW s \in Nat, NEW c \in Nat, NEW now \in Nat, NEW max \in Nat,
         Throttle!Fits(p, s, now, c, max)
  PROVE  s + c <= max
<1> DEFINE r == now % Window
<1>1. Window \in Nat \ {0} /\ r \in 0..(Window - 1)
  BY ThrottleConstants, DivMod
<1>2. p * (Window - r) + Window * (s + c) <= Window * max
  BY DEF Throttle!Fits
<1>3. p * 0 <= p * (Window - r) /\ p * 0 = 0 /\ p * (Window - r) \in Int
  BY <1>1, Monotone
<1>4. Window * (s + c) \in Int /\ Window * max \in Int /\ Window * (s + c) <= Window * max
  BY <1>1, <1>2, <1>3, Products
<1>5. s + c > max => Window * (max + 1) <= Window * (s + c)
  BY <1>1, Monotone
<1>6. Window * (max + 1) = Window * max + Window
  BY <1>1, Products
<1> QED
  BY <1>1, <1>4, <1>5, <1>6

\* What fits leaves room: for the limit, and for the share of a longer stretch.
LEMMA Fading ==
  ASSUME NEW p \in Nat, NEW s \in Nat, NEW c \in Nat, NEW now \in Nat,
         Throttle!Fits(p, s, now, c, Limit), p <= Limit
  PROVE  /\ s + c <= Limit
         /\ \A k \in Int, j \in Nat :
              k <= p + s + c - Limit /\ now % Window <= j => k <= (Limit * j) \div Window
<1> DEFINE r == now % Window
<1>1. Limit \in Nat /\ Window \in Nat \ {0} /\ r \in 0..(Window - 1)
  BY ThrottleConstants, DivMod
<1>2. p * (Window - r) + Window * (s + c) <= Window * Limit
  BY DEF Throttle!Fits
<1>3. p * (Window - r) = p * Window - p * r /\ p * Window \in Int /\ p * r \in Int /\ p * Window = Window * p
  BY <1>1, Products
<1>4. p * r <= Limit * r /\ p * r <= p * Window /\ Limit * r \in Int
  <2>1. r * p <= r * Limit /\ r * p = p * r /\ r * Limit = Limit * r /\ r * Limit \in Int
    BY <1>1, Monotone, Products
  <2>2. p * r <= p * Window
    BY <1>1, Monotone
  <2> QED
    BY <2>1, <2>2
<1>5. Window * (s + c) \in Int /\ Window * Limit \in Int
  BY <1>1, <1>2, <1>3, <1>4, Products
<1>6. s + c <= Limit
  BY <1>1, FitsWithin
<1>7. ASSUME NEW k \in Int, NEW j \in Nat, k <= p + s + c - Limit, r <= j
      PROVE  k <= (Limit * j) \div Window
  <2>1. k <= (p + (s + c)) - Limit /\ p + (s + c) \in Int
    BY <1>1, <1>7
  <2>2. Window * k <= Window * ((p + (s + c)) - Limit) /\ Window * k \in Int
    BY <1>1, <2>1, Monotone
  <2>3. Window * ((p + (s + c)) - Limit) = (Window * p + Window * (s + c)) - Window * Limit
    BY <1>1, Products
  <2>4. Limit * r <= Limit * j /\ Limit * j \in Int
    BY <1>1, <1>7, Monotone
  <2>5. Window * k <= Limit * j
    BY <1>2, <1>3, <1>4, <1>5, <2>2, <2>3, <2>4
  <2> QED
    BY <1>1, <2>4, <2>5, Quotient
<1> QED
  BY <1>6, <1>7

\* Nothing is admitted where the totals stay.
LEMMA TotalsKept ==
  ASSUME admitted' = admitted
  PROVE  /\ \A s, t \in Int : (Throttle!AdmittedIn(s, t))' = Throttle!AdmittedIn(s, t)
         /\ \A w \in Int : (Throttle!AdmittedInWindow(w))' = Throttle!AdmittedInWindow(w)
BY DEF Throttle!AdmittedInWindow, Throttle!AdmittedIn, Throttle!AdmittedUpTo

\* Attempts that leave, and failures that are forgotten, leave more room.
LEMMA GuessesKept ==
  ASSUME Throttle!TypeOK, GuessesInv, clock' = clock, UnderWay' \subseteq UnderWay,
         failures' \in [Throttle!Windows -> Nat],
         \A w \in Throttle!Windows : failures'[w] <= failures[w]
  PROVE  GuessesInv'
<1>1. Cardinality(UnderWay') <= Cardinality(UnderWay) /\ Cardinality(UnderWay) \in Nat /\ Cardinality(UnderWay') \in Nat
  <2>1. IsFiniteSet(UnderWay)
    BY FS_Subset, ThrottleConstants DEF UnderWay
  <2> QED
    BY <2>1, FS_Subset, FS_CardinalityType
<1>2. Throttle!WindowOf(clock) \in Throttle!Windows
  BY WindowOfTime DEF Throttle!TypeOK, Throttle!Times
<1>3. \A w \in Throttle!Windows : failures[w] \in Nat /\ failures'[w] \in Nat
  BY DEF Throttle!TypeOK
<1>4. MaxFailures + Cardinality(Attempts) - 1 \in Int
  BY ThrottleConstants, FS_CardinalityType
<1>5. (Throttle!WindowOf(clock))' = Throttle!WindowOf(clock)
  BY DEF Throttle!WindowOf
<1>6. (Throttle!GuessesBounded)'
  BY <1>3, <1>4, SameCount DEF GuessesInv, Throttle!GuessesBounded
<1>7. failures'[Throttle!WindowOf(clock)] + Cardinality(UnderWay') <= MaxFailures + Cardinality(Attempts) - 1
  BY <1>1, <1>2, <1>3, <1>4 DEF GuessesInv
<1>8. \A w \in Throttle!Windows : w > Throttle!WindowOf(clock) => failures'[w] = 0
  BY <1>3 DEF GuessesInv
<1> QED
  BY <1>5, <1>6, <1>7, <1>8 DEF GuessesInv

\* Where nothing is admitted and the statements under way are those of before.
LEMMA LimitsKept ==
  ASSUME ThrottleInv, UNCHANGED <<admitted, late>>,
         clock \in Nat, clock' \in Nat, clock <= clock',
         \A w \in Throttle!Windows : clock' <= Throttle!ExpiresAt(w) => spent'[w] = spent[w]
  PROVE  TotalsInv' /\ SpentInv' /\ StretchInv'
<1>1. TotalsInv'
  <2>1. \A t \in Throttle!Times : clock' <= t => admitted[t] = admitted[clock]
    BY DEF ThrottleInv, TotalsInv, Throttle!Times
  <2>2. ASSUME NEW t \in Throttle!Times, clock' <= t PROVE admitted[t] = admitted[clock']
    <3>1. clock' \in Throttle!Times
      BY <2>2, ThrottleConstants DEF Throttle!Times
    <3> QED
      BY <2>1, <2>2, <3>1
  <2> QED
    BY <2>2 DEF ThrottleInv, TotalsInv
<1>2. SpentInv'
  <2>1. ASSUME NEW w \in Throttle!Windows
        PROVE  /\ (Throttle!AdmittedInWindow(w))' = Throttle!AdmittedInWindow(w)
               /\ Throttle!ExpiresAt(w) \in Int
    <3>1. w \in Int /\ Begins(w) \in Int
      BY Windows DEF Throttle!Windows
    <3> QED
      BY <3>1, TotalsKept, InWindow, ThrottleConstants
  <2> QED
    BY <2>1 DEF ThrottleInv, SpentInv
<1>3. StretchInv'
  <2>1. \A from \in Throttle!Times, length \in 1..Window : from \in Int /\ from + length - 1 \in Int
    BY DEF Throttle!Times
  <2> QED
    BY <2>1, TotalsKept DEF ThrottleInv, StretchInv
<1> QED
  BY <1>1, <1>2, <1>3

\* The statements under way, when the totals stay.
LEMMA SpendingKept ==
  ASSUME ThrottleInv, UNCHANGED <<admitted, late>>, clock' = clock, NEW a \in Attempts, NEW x,
         attempt' = [attempt EXCEPT ![a] = x], x.pc # "spending"
  PROVE  SpendingInv'
<1>1. ASSUME NEW b \in Attempts, attempt'[b].pc = "spending"
      PROVE  attempt'[b] = attempt[b]
  BY <1>1 DEF ThrottleInv, Throttle!TypeOK
<1>2. \A w \in Throttle!Windows : (Throttle!AdmittedInWindow(w))' = Throttle!AdmittedInWindow(w)
  BY TotalsKept DEF Throttle!Windows
<1>3. SpendingInv
  BY DEF ThrottleInv
<1> QED
  BY <1>1, <1>2, <1>3 DEF SpendingInv, Throttle!WindowOf

LEMMA ClockRow ==
  ASSUME Throttle!TypeOK
  PROVE  clock \in Nat /\ Throttle!WindowOf(clock) \in Throttle!Windows
BY WindowOfTime DEF Throttle!TypeOK, Throttle!Times

LEMMA AttemptUnderWay ==
  ASSUME Throttle!TypeOK, NEW a \in Attempts, NEW x,
         attempt' = [attempt EXCEPT ![a] = x], attempt[a].pc # "idle"
  PROVE  UnderWay' \subseteq UnderWay
BY DEF UnderWay, Throttle!TypeOK

LEMMA PeekKeeps ==
  ASSUME ThrottleInv, NEW a \in Attempts, Throttle!PeekFailures(a)
  PROVE  ThrottleInv'
<1> USE DEF Throttle!PeekFailures
<1> DEFINE w == Throttle!WindowOf(clock)
           x == [attempt[a] EXCEPT !.pc = "peeked"]
<1>1. Throttle!TypeOK /\ GuessesInv /\ clock \in Nat /\ w \in Throttle!Windows /\ attempt[a] \in Throttle!Attempt
  BY ClockRow DEF ThrottleInv, Throttle!TypeOK
<1>2. x \in Throttle!Attempt /\ x.pc = "peeked"
  BY <1>1 DEF Throttle!Attempt
<1>3. attempt' = [attempt EXCEPT ![a] = x]
  BY <1>1 DEF Throttle!TypeOK
<1>4. (Throttle!TypeOK)'
  BY <1>1, <1>2, <1>3 DEF Throttle!TypeOK
<1>5. TotalsInv' /\ SpentInv' /\ StretchInv'
  BY <1>1, LimitsKept
<1>6. SpendingInv'
  BY <1>2, <1>3, SpendingKept
<1>7. GuessesInv'
  <2>1. failures[w] + 1 <= MaxFailures /\ failures[w] \in Nat
    <3>1. failures[w] \in Nat /\ MaxFailures \in Nat
      BY <1>1, ThrottleConstants DEF Throttle!TypeOK
    <3>2. PICK p : p = Throttle!Count(failures, w - 1)
      OBVIOUS
    <3>3. p \in Nat
      BY <1>1, <3>2 DEF Throttle!Count, Throttle!TypeOK
    <3>4. Throttle!Fits(p, failures[w], clock, 1, MaxFailures)
      BY <3>2 DEF Throttle!Unlocked
    <3> QED
      BY <1>1, <3>1, <3>3, <3>4, FitsWithin
  <2>2. Cardinality(UnderWay') <= Cardinality(Attempts) /\ Cardinality(UnderWay') \in Nat /\ Cardinality(Attempts) \in Nat
    <3>1. UnderWay' \subseteq Attempts
      BY DEF UnderWay
    <3> QED
      BY <3>1, FS_Subset, FS_CardinalityType, ThrottleConstants
  <2>3. failures[w] + Cardinality(UnderWay') <= MaxFailures + Cardinality(Attempts) - 1
    BY <2>1, <2>2, ThrottleConstants
  <2> QED
    BY <1>1, <2>3 DEF GuessesInv, Throttle!GuessesBounded, Throttle!WindowOf
<1> QED
  BY <1>4, <1>5, <1>6, <1>7 DEF ThrottleInv

LEMMA RecordKeeps ==
  ASSUME ThrottleInv, NEW a \in Attempts, Throttle!RecordFailure(a)
  PROVE  ThrottleInv'
<1> USE DEF Throttle!RecordFailure
<1> DEFINE w == Throttle!WindowOf(clock)
<1>1. Throttle!TypeOK /\ GuessesInv /\ clock \in Nat /\ w \in Throttle!Windows
  BY ClockRow DEF ThrottleInv
<1>2. Throttle!Idle \in Throttle!Attempt /\ Throttle!Idle.pc = "idle"
  BY ThrottleConstants DEF Throttle!Idle, Throttle!Attempt, Throttle!Times
<1>3. (Throttle!TypeOK)'
  BY <1>1, <1>2 DEF Throttle!TypeOK
<1>4. TotalsInv' /\ SpentInv' /\ StretchInv'
  BY <1>1, LimitsKept
<1>5. SpendingInv'
  BY <1>2, SpendingKept
<1>6. GuessesInv'
  <2>1. IsFiniteSet(UnderWay) /\ a \in UnderWay
    BY FS_Subset, ThrottleConstants DEF UnderWay
  <2>2. UnderWay' = UnderWay \ {a}
    BY <1>1, <1>2 DEF UnderWay, Throttle!TypeOK
  <2>3. Cardinality(UnderWay') = Cardinality(UnderWay) - 1 /\ Cardinality(UnderWay) \in Nat /\ Cardinality(UnderWay') \in Nat
    BY <2>1, <2>2, FS_RemoveElement, FS_CardinalityType, FS_Subset
  <2>4. failures[w] \in Nat /\ failures'[w] = failures[w] + 1 /\ \A v \in Throttle!Windows : v # w => failures'[v] = failures[v]
    BY <1>1 DEF Throttle!TypeOK
  <2>5. failures'[w] + Cardinality(UnderWay') <= MaxFailures + Cardinality(Attempts) - 1
    BY <1>1, <2>3, <2>4 DEF GuessesInv
  <2>6. failures'[w] <= MaxFailures + Cardinality(Attempts) - 1
    <3>1. MaxFailures + Cardinality(Attempts) - 1 \in Int
      BY ThrottleConstants, FS_CardinalityType
    <3> QED
      BY <2>3, <2>4, <2>5, <3>1
  <2>7. \A v \in Throttle!Windows : v > w => failures'[v] = 0
    <3>1. \A v \in Throttle!Windows : v > w => v # w /\ failures[v] = 0
      BY <1>1 DEF GuessesInv, Throttle!Windows
    <3> QED
      BY <2>4, <3>1
  <2>8. (Throttle!GuessesBounded)'
    BY <1>1, <2>4, <2>6, SameCount DEF GuessesInv, Throttle!GuessesBounded
  <2> QED
    BY <2>5, <2>7, <2>8 DEF GuessesInv, Throttle!WindowOf
<1> QED
  BY <1>3, <1>4, <1>5, <1>6 DEF ThrottleInv

LEMMA ClearKeeps ==
  ASSUME ThrottleInv, NEW a \in Attempts, Throttle!ClearFailures(a)
  PROVE  ThrottleInv'
<1> USE DEF Throttle!ClearFailures
<1>1. Throttle!TypeOK /\ GuessesInv /\ clock \in Nat
  BY ClockRow DEF ThrottleInv
<1>2. Throttle!Idle \in Throttle!Attempt /\ Throttle!Idle.pc = "idle"
  BY ThrottleConstants DEF Throttle!Idle, Throttle!Attempt, Throttle!Times
<1>3. (Throttle!TypeOK)'
  BY <1>1, <1>2 DEF Throttle!TypeOK
<1>4. TotalsInv' /\ SpentInv' /\ StretchInv'
  BY <1>1, LimitsKept
<1>5. SpendingInv'
  BY <1>2, SpendingKept
<1>6. GuessesInv'
  <2>1. UnderWay' \subseteq UnderWay
    BY <1>1, AttemptUnderWay
  <2> QED
    BY <1>1, <2>1, GuessesKept DEF Throttle!TypeOK
<1> QED
  BY <1>3, <1>4, <1>5, <1>6 DEF ThrottleInv

LEMMA ReadKeeps ==
  ASSUME ThrottleInv, NEW a \in Attempts, Throttle!ReadPrevious(a)
  PROVE  ThrottleInv'
<1> DEFINE w == Throttle!WindowOf(clock)
<1>1. Throttle!TypeOK /\ GuessesInv /\ SpendingInv /\ SpentInv /\ clock \in Nat /\ w \in Throttle!Windows /\ attempt[a].pc = "peeked"
  BY ClockRow DEF ThrottleInv, Throttle!ReadPrevious
<1>2. PICK cost \in Costs :
        attempt' = [attempt EXCEPT ![a] = [pc |-> "spending", now |-> clock, cost |-> cost,
                                           previous |-> Throttle!Count(spent, w - 1)]]
  BY Zenon DEF Throttle!ReadPrevious
<1>3. UNCHANGED <<clock, spent, failures, admitted, late>>
  BY DEF Throttle!ReadPrevious
<1>4. PICK p : p = Throttle!Count(spent, w - 1)
  OBVIOUS
<1>5. p \in Nat
  BY <1>1, <1>4 DEF Throttle!Count, Throttle!TypeOK
<1> DEFINE x == [pc |-> "spending", now |-> clock, cost |-> cost, previous |-> p]
<1>6. attempt' = [attempt EXCEPT ![a] = x] /\ x \in Throttle!Attempt
  <2>1. x \in Throttle!Attempt
    BY <1>1, <1>5 DEF Throttle!Attempt, Throttle!TypeOK
  <2> QED
    BY <1>2, <1>4, <2>1, Zenon
<1>7. (Throttle!TypeOK)'
  BY <1>1, <1>3, <1>6 DEF Throttle!TypeOK
<1>8. TotalsInv' /\ SpentInv' /\ StretchInv'
  BY <1>1, <1>3, LimitsKept
<1>9. p <= Limit /\ \A v \in Throttle!Windows : v + 1 = w => Throttle!AdmittedInWindow(v) <= p + late
  <2>1. CASE w - 1 \in Throttle!Windows
    <3>1. p = spent[w - 1]
      BY <1>4, <2>1 DEF Throttle!Count
    <3>2. clock <= Throttle!ExpiresAt(w - 1)
      <4>1. clock < Begins(w) + Window /\ w \in Int
        BY <1>1, WindowOfTime DEF Throttle!Windows
      <4>2. Begins(w - 1) = Begins(w) - Window /\ Begins(w) \in Int
        BY <4>1, Windows
      <4>3. Throttle!ExpiresAt(w - 1) = Begins(w - 1) + Window + Window
        BY <4>1, InWindow
      <4> QED
        BY <1>1, <4>1, <4>2, <4>3, ThrottleConstants
    <3>3. p = Throttle!AdmittedInWindow(w - 1) /\ Throttle!AdmittedInWindow(w - 1) <= Limit
      BY <1>1, <2>1, <3>1, <3>2 DEF SpentInv
    <3>4. \A v \in Throttle!Windows : v + 1 = w => v = w - 1
      BY DEF Throttle!Windows
    <3> QED
      BY <1>5, <3>3, <3>4 DEF Throttle!TypeOK, ThrottleInv
  <2>2. CASE w - 1 \notin Throttle!Windows
    <3>1. p = 0
      BY <1>4, <2>2 DEF Throttle!Count
    <3>2. \A v \in Throttle!Windows : v + 1 # w
      BY <1>1, <2>2 DEF Throttle!Windows
    <3> QED
      BY <3>1, <3>2, ThrottleConstants
  <2> QED
    BY <2>1, <2>2
<1>10. SpendingInv'
  <2>1. \A v \in Throttle!Windows : (Throttle!AdmittedInWindow(v))' = Throttle!AdmittedInWindow(v)
    BY <1>3, TotalsKept DEF Throttle!Windows
  <2>2. \A b \in Attempts : attempt'[b] = IF b = a THEN x ELSE attempt[b]
    BY <1>1, <1>6 DEF Throttle!TypeOK
  <2>3. clock <= clock /\ clock < clock + Window
    BY <1>1, ThrottleConstants
  <2>4. ASSUME NEW b \in Attempts, attempt'[b].pc = "spending"
        PROVE  /\ attempt'[b].now <= clock /\ clock < attempt'[b].now + Window
               /\ attempt'[b].previous <= Limit
               /\ \A v \in Throttle!Windows :
                    v + 1 = Throttle!WindowOf(attempt'[b].now) => Throttle!AdmittedInWindow(v) <= attempt'[b].previous + late
    <3>1. CASE b = a
      BY <1>9, <2>2, <2>3, <3>1
    <3>2. CASE b # a
      BY <1>1, <2>2, <2>4, <3>2 DEF SpendingInv
    <3> QED
      BY <3>1, <3>2
  <2> QED
    BY <1>3, <2>1, <2>4 DEF SpendingInv, Throttle!WindowOf
<1>11. GuessesInv'
  <2>1. UnderWay' \subseteq UnderWay
    BY <1>1, <1>6, AttemptUnderWay
  <2> QED
    BY <1>1, <1>3, <2>1, GuessesKept DEF Throttle!TypeOK
<1> QED
  BY <1>7, <1>8, <1>10, <1>11 DEF ThrottleInv

LEMMA PruneKeeps == ASSUME ThrottleInv, Throttle!Prune PROVE ThrottleInv'
<1> USE DEF Throttle!Prune
<1>1. Throttle!TypeOK /\ GuessesInv /\ SpendingInv /\ clock \in Nat
  BY ClockRow DEF ThrottleInv
<1>2. /\ spent' \in [Throttle!Windows -> Nat] /\ failures' \in [Throttle!Windows -> Nat]
      /\ \A w \in Throttle!Windows : clock <= Throttle!ExpiresAt(w) => spent'[w] = spent[w]
      /\ \A w \in Throttle!Windows : failures'[w] <= failures[w]
  <2>1. \A w \in Throttle!Windows : spent[w] \in Nat /\ failures[w] \in Nat
    BY <1>1 DEF Throttle!TypeOK
  <2>2. /\ spent' = [w \in Throttle!Windows |-> IF Throttle!ExpiresAt(w) < clock THEN 0 ELSE spent[w]]
        /\ failures' = [w \in Throttle!Windows |-> IF Throttle!ExpiresAt(w) < clock THEN 0 ELSE failures[w]]
    OBVIOUS
  <2>3. \A w \in Throttle!Windows : Throttle!ExpiresAt(w) \in Int
    <3>1. \A w \in Throttle!Windows : w \in Int
      BY DEF Throttle!Windows
    <3> QED
      BY <3>1, InWindow, Windows, ThrottleConstants
  <2> QED
    BY <1>1, <2>1, <2>2, <2>3
<1>3. (Throttle!TypeOK)'
  BY <1>1, <1>2 DEF Throttle!TypeOK
<1>4. TotalsInv' /\ SpentInv' /\ StretchInv'
  BY <1>1, <1>2, LimitsKept
<1>5. SpendingInv'
  <2>1. \A w \in Throttle!Windows : (Throttle!AdmittedInWindow(w))' = Throttle!AdmittedInWindow(w)
    BY TotalsKept DEF Throttle!Windows
  <2> QED
    BY <1>1, <2>1 DEF SpendingInv, Throttle!WindowOf
<1>6. GuessesInv'
  <2>1. UnderWay' = UnderWay
    BY DEF UnderWay
  <2> QED
    BY <1>1, <1>2, <2>1, GuessesKept
<1> QED
  BY <1>3, <1>4, <1>5, <1>6 DEF ThrottleInv

LEMMA TickKeeps == ASSUME ThrottleInv, Throttle!Tick PROVE ThrottleInv'
<1> USE DEF Throttle!Tick
<1> DEFINE w == Throttle!WindowOf(clock)
           v == Throttle!WindowOf(clock + 1)
<1>1. Throttle!TypeOK /\ GuessesInv /\ SpendingInv /\ clock \in Nat /\ w \in Throttle!Windows
  BY ClockRow DEF ThrottleInv
<1>2. (Throttle!TypeOK)'
  BY <1>1, ThrottleConstants DEF Throttle!TypeOK, Throttle!Times
<1>3. TotalsInv' /\ SpentInv' /\ StretchInv'
  BY <1>1, LimitsKept
<1>4. SpendingInv'
  <2>1. \A u \in Throttle!Windows : (Throttle!AdmittedInWindow(u))' = Throttle!AdmittedInWindow(u)
    BY TotalsKept DEF Throttle!Windows
  <2>2. ASSUME NEW b \in Attempts, attempt[b].pc = "spending"
        PROVE  attempt[b].now <= clock + 1 /\ clock + 1 < attempt[b].now + Window
    <3>1. attempt[b].now \in Nat
      BY <1>1 DEF Throttle!TypeOK, Throttle!Attempt, Throttle!Times
    <3> QED
      BY <1>1, <2>2, <3>1 DEF SpendingInv
  <2> QED
    BY <1>1, <2>1, <2>2 DEF SpendingInv, Throttle!WindowOf
<1>5. GuessesInv'
  <2>1. w \in Nat /\ v \in Throttle!Windows /\ v \in Nat /\ w <= v
    <3>1. /\ w \in Nat /\ v \in Nat /\ v \in Throttle!Windows
          /\ Begins(w) <= clock /\ clock + 1 < Begins(v) + Window
      BY <1>1, <1>2, WindowOfTime DEF Throttle!TypeOK
    <3>2. v < w => Begins(v) + Window <= Begins(w)
      BY <3>1, Windows
    <3>3. Begins(v) \in Int /\ Begins(w) \in Int
      BY <3>1, Windows
    <3> QED
      BY <1>1, <3>1, <3>2, <3>3, ThrottleConstants
  <2>2. Cardinality(UnderWay) <= Cardinality(Attempts) /\ Cardinality(UnderWay) \in Nat /\ Cardinality(Attempts) \in Nat
    <3>1. UnderWay \subseteq Attempts
      BY DEF UnderWay
    <3> QED
      BY <3>1, FS_Subset, FS_CardinalityType, ThrottleConstants
  <2>3. failures[v] + Cardinality(UnderWay) <= MaxFailures + Cardinality(Attempts) - 1
    <3>1. CASE v = w
      BY <1>1, <3>1 DEF GuessesInv
    <3>2. CASE v # w
      <4>1. failures[v] = 0
        BY <1>1, <2>1, <3>2 DEF GuessesInv
      <4> QED
        BY <2>2, <4>1, ThrottleConstants
    <3> QED
      BY <3>1, <3>2
  <2>4. \A u \in Throttle!Windows : u > v => failures[u] = 0
    <3>1. \A u \in Throttle!Windows : u > v => u > w
      BY <2>1 DEF Throttle!Windows
    <3> QED
      BY <1>1, <3>1 DEF GuessesInv
  <2>5. UnderWay' = UnderWay /\ (Throttle!WindowOf(clock))' = v
    BY DEF UnderWay, Throttle!WindowOf
  <2> QED
    BY <1>1, <2>3, <2>4, <2>5 DEF GuessesInv, Throttle!GuessesBounded
<1> QED
  BY <1>2, <1>3, <1>4, <1>5 DEF ThrottleInv

\* What an admitted attempt adds, to the totals, the stretches and the windows.
LEMMA TotalsGrow ==
  ASSUME Throttle!TypeOK, NEW now \in Throttle!Times, NEW c \in Nat,
         admitted' = [t \in Throttle!Times |-> IF t < now THEN admitted[t] ELSE admitted[t] + c]
  PROVE  /\ \A s, t \in Int : s <= t + 1 =>
              (Throttle!AdmittedIn(s, t))' = Throttle!AdmittedIn(s, t) + (IF s <= now /\ now <= t THEN c ELSE 0)
         /\ \A w \in Int :
              (Throttle!AdmittedInWindow(w))'
                = Throttle!AdmittedInWindow(w) + (IF w = Throttle!WindowOf(now) THEN c ELSE 0)
<1>1. /\ LastTime \in Nat /\ now \in Nat /\ now <= LastTime
      /\ \A t \in Throttle!Times : admitted[t] \in Nat
      /\ \A t \in Int : t \in Throttle!Times <=> 0 <= t /\ t <= LastTime
  BY ThrottleConstants DEF Throttle!TypeOK, Throttle!Times
<1>2. ASSUME NEW t \in Int
      PROVE  /\ (Throttle!AdmittedUpTo(t))' = Throttle!AdmittedUpTo(t) + (IF now <= t THEN c ELSE 0)
             /\ Throttle!AdmittedUpTo(t) \in Int
  BY <1>1 DEF Throttle!AdmittedUpTo
<1>3. ASSUME NEW s \in Int, NEW t \in Int, s <= t + 1
      PROVE  (Throttle!AdmittedIn(s, t))' = Throttle!AdmittedIn(s, t) + (IF s <= now /\ now <= t THEN c ELSE 0)
  <2>1. s - 1 \in Int
    OBVIOUS
  <2>2. (Throttle!AdmittedUpTo(s - 1))' = Throttle!AdmittedUpTo(s - 1) + (IF now <= s - 1 THEN c ELSE 0)
    BY <1>2, <2>1
  <2>3. (Throttle!AdmittedIn(s, t))' = (Throttle!AdmittedUpTo(t))' - (Throttle!AdmittedUpTo(s - 1))'
    BY DEF Throttle!AdmittedIn
  <2>4. Throttle!AdmittedIn(s, t) = Throttle!AdmittedUpTo(t) - Throttle!AdmittedUpTo(s - 1)
    BY DEF Throttle!AdmittedIn
  <2>5. Throttle!AdmittedUpTo(s - 1) \in Int /\ Throttle!AdmittedUpTo(t) \in Int
    BY <1>2, <2>1
  <2> QED
    BY <1>1, <1>2, <1>3, <2>2, <2>3, <2>4, <2>5
<1>4. ASSUME NEW w \in Int
      PROVE  (Throttle!AdmittedInWindow(w))'
                = Throttle!AdmittedInWindow(w) + (IF w = Throttle!WindowOf(now) THEN c ELSE 0)
  <2>1. PICK e \in Int : e = (Begins(w) + Window) - 1
    BY Windows, ThrottleConstants
  <2>2. Begins(w) \in Int /\ Begins(w) <= e + 1
    BY <2>1, Windows, ThrottleConstants
  <2>3. Throttle!AdmittedInWindow(w) = Throttle!AdmittedIn(Begins(w), e)
    BY <2>1, InWindow
  <2>4. (Throttle!AdmittedInWindow(w))' = (Throttle!AdmittedIn(Begins(w), e))'
    <3>1. (w + 1) * Window - 1 = e
      <4>1. Begins(w + 1) = Begins(w) + Window
        BY Windows
      <4> QED
        BY <2>1, <4>1 DEF Begins
    <3> QED
      BY <3>1 DEF Throttle!AdmittedInWindow, Begins
  <2>5. w = Throttle!WindowOf(now) <=> Begins(w) <= now /\ now <= e
    <3>1. Begins(w) <= now /\ now < Begins(w) + Window => w = Throttle!WindowOf(now)
      BY <1>1, WindowAround
    <3>2. w = Throttle!WindowOf(now) => Begins(w) <= now /\ now < Begins(w) + Window
      BY <1>1, WindowOfTime
    <3> QED
      BY <1>1, <2>1, <2>2, <3>1, <3>2, ThrottleConstants
  <2> QED
    BY <1>3, <2>2, <2>3, <2>4, <2>5
<1> QED
  BY <1>3, <1>4

\* The stretches of the next state.
LEMMA StretchesNext ==
  ASSUME (Throttle!TypeOK)', TotalsInv', clock' = clock
  PROVE  /\ \A s, t \in Int : (Throttle!AdmittedIn(s, t))' \in Int
         /\ \A r, s, t, u \in Int :
              r <= s /\ t <= u => (Throttle!AdmittedIn(s, t))' <= (Throttle!AdmittedIn(r, u))'
         /\ \A s, t, u \in Int :
              (Throttle!AdmittedIn(s, u))' = (Throttle!AdmittedIn(s, t - 1))' + (Throttle!AdmittedIn(t, u))'
         /\ \A s, t, u \in Int : clock <= t /\ t <= u => (Throttle!AdmittedIn(s, u))' = (Throttle!AdmittedIn(s, t))'
<1>1. (Throttle!TypeOK /\ TotalsInv =>
         /\ \A s, t \in Int : Throttle!AdmittedIn(s, t) \in Int
         /\ \A r, s, t, u \in Int : r <= s /\ t <= u => Throttle!AdmittedIn(s, t) <= Throttle!AdmittedIn(r, u)
         /\ \A s, t, u \in Int : Throttle!AdmittedIn(s, u) = Throttle!AdmittedIn(s, t - 1) + Throttle!AdmittedIn(t, u)
         /\ \A s, t, u \in Int : clock <= t /\ t <= u => Throttle!AdmittedIn(s, u) = Throttle!AdmittedIn(s, t))'
  BY Stretches, PTL
<1> QED
  BY <1>1

LEMMA SpendKeeps ==
  ASSUME ThrottleInv, NEW a \in Attempts, Throttle!Spend(a)
  PROVE  ThrottleInv'
<1>1. /\ Throttle!TypeOK /\ TotalsInv /\ SpentInv /\ SpendingInv /\ StretchInv /\ GuessesInv
      /\ clock \in Nat /\ Throttle!WindowOf(clock) \in Throttle!Windows
      /\ attempt[a].pc = "spending" /\ clock' = clock /\ failures' = failures
  BY ClockRow DEF ThrottleInv, Throttle!Spend
<1>2. PICK now \in Throttle!Times, c \in Costs \cup {0}, p \in Nat :
        now = attempt[a].now /\ c = attempt[a].cost /\ p = attempt[a].previous
  BY <1>1 DEF Throttle!TypeOK, Throttle!Attempt
<1>3. PICK w \in Throttle!Windows : w = Throttle!WindowOf(now)
  BY WindowOfTime DEF Throttle!Times
<1>4. PICK next : attempt' = [attempt EXCEPT ![a] = next] /\ next \in Throttle!Attempt /\ next.pc # "spending"
  <2>1. Throttle!Idle \in Throttle!Attempt /\ Throttle!Idle.pc = "idle"
    BY ThrottleConstants DEF Throttle!Idle, Throttle!Attempt, Throttle!Times
  <2>2. [Throttle!Idle EXCEPT !.pc = "checking"] \in Throttle!Attempt
        /\ [Throttle!Idle EXCEPT !.pc = "checking"].pc = "checking"
    BY <2>1 DEF Throttle!Attempt
  <2> QED
    BY <2>1, <2>2 DEF Throttle!Spend
<1>5. GuessesInv'
  <2>1. UnderWay' \subseteq UnderWay
    BY <1>1, <1>4, AttemptUnderWay
  <2> QED
    BY <1>1, <2>1, GuessesKept DEF Throttle!TypeOK
<1>6. CASE ~Throttle!Fits(p, spent[w], now, c, Limit)
  <2>1. UNCHANGED <<spent, admitted, late>>
    BY <1>2, <1>3, <1>6 DEF Throttle!Spend
  <2>2. (Throttle!TypeOK)'
    BY <1>1, <1>4, <2>1 DEF Throttle!TypeOK
  <2>3. TotalsInv' /\ SpentInv' /\ StretchInv'
    BY <1>1, <2>1, LimitsKept
  <2>4. SpendingInv'
    BY <1>1, <1>4, <2>1, SpendingKept
  <2> QED
    BY <1>5, <2>2, <2>3, <2>4 DEF ThrottleInv
<1>7. CASE Throttle!Fits(p, spent[w], now, c, Limit)
  <2>1. /\ spent' = [spent EXCEPT ![w] = @ + c]
        /\ admitted' = [t \in Throttle!Times |-> IF t < now THEN admitted[t] ELSE admitted[t] + c]
        /\ late' = IF w = Throttle!WindowOf(clock) THEN late ELSE late + c
    BY <1>2, <1>3, <1>7 DEF Throttle!Spend
  <2>2. /\ c \in Nat /\ late \in Nat /\ spent[w] \in Nat /\ late' \in Nat /\ late <= late'
        /\ now \in Nat /\ w \in Nat /\ Limit \in Nat /\ Window \in Nat \ {0}
    BY <1>1, <2>1, ThrottleConstants DEF Throttle!TypeOK, Throttle!Times, Throttle!Windows
  <2>3. /\ Begins(w) \in Int /\ Begins(w) <= now /\ now < Begins(w) + Window /\ now % Window = now - Begins(w)
        /\ Begins(w + 1) = Begins(w) + Window /\ Begins(w - 1) = Begins(w) - Window
    <3>1. Begins(w) <= now /\ now < Begins(w) + Window /\ now % Window = now - Begins(w)
      BY <1>3, <2>2, WindowOfTime
    <3>2. Begins(w) \in Int /\ Begins(w + 1) = Begins(w) + Window /\ Begins(w - 1) = Begins(w) - Window
      BY <2>2, Windows
    <3> QED
      BY <3>1, <3>2
  <2>4. now <= clock /\ clock < now + Window /\ p <= Limit
    BY <1>1, <1>2 DEF SpendingInv
  <2>5. spent[w] = Throttle!AdmittedInWindow(w)
    <3>1. clock <= Throttle!ExpiresAt(w)
      <4>1. Throttle!ExpiresAt(w) = Begins(w) + Window + Window
        BY <2>2, InWindow
      <4> QED
        BY <1>1, <2>2, <2>3, <2>4, <4>1
    <3> QED
      BY <1>1, <3>1 DEF SpentInv
  <2>6. spent[w] + c <= Limit
    BY <1>7, <2>2, FitsWithin
  <2>7. /\ \A s, t \in Int : s <= t + 1 =>
             (Throttle!AdmittedIn(s, t))' = Throttle!AdmittedIn(s, t) + (IF s <= now /\ now <= t THEN c ELSE 0)
        /\ \A v \in Throttle!Windows :
             (Throttle!AdmittedInWindow(v))' = Throttle!AdmittedInWindow(v) + (IF v = w THEN c ELSE 0)
    BY <1>1, <1>3, <2>1, <2>2, TotalsGrow DEF Throttle!Windows
  <2>8. (Throttle!TypeOK)'
    <3>1. admitted' \in [Throttle!Times -> Nat]
      BY <1>1, <2>1, <2>2 DEF Throttle!TypeOK
    <3>2. spent' \in [Throttle!Windows -> Nat]
      BY <1>1, <2>1, <2>2 DEF Throttle!TypeOK
    <3> QED
      BY <1>1, <1>4, <2>2, <3>1, <3>2 DEF Throttle!TypeOK
  <2>9. TotalsInv'
    <3>1. \A t \in Throttle!Times : t \in Int /\ admitted[t] \in Nat
                                    /\ admitted'[t] = IF t < now THEN admitted[t] ELSE admitted[t] + c
      BY <1>1, <2>1 DEF Throttle!TypeOK, Throttle!Times
    <3>2. clock \in Throttle!Times
      BY <1>1 DEF Throttle!TypeOK
    <3> QED
      BY <1>1, <2>2, <2>4, <3>1, <3>2 DEF TotalsInv
  <2>10. SpentInv'
    <3>1. ASSUME NEW v \in Throttle!Windows
          PROVE  /\ (Throttle!AdmittedInWindow(v))' <= Limit
                 /\ clock <= Throttle!ExpiresAt(v) => spent'[v] = (Throttle!AdmittedInWindow(v))'
      <4>1. CASE v = w
        BY <1>1, <2>1, <2>5, <2>6, <2>7, <4>1 DEF Throttle!TypeOK
      <4>2. CASE v # w
        <5>1. Throttle!AdmittedInWindow(v) \in Int
          <6>1. v \in Int /\ Begins(v) \in Int /\ (Begins(v) + Window) - 1 \in Int
            <7>1. v \in Int /\ Begins(v) \in Int
              BY Windows DEF Throttle!Windows
            <7> QED
              BY <2>2, <7>1
          <6> QED
            BY <1>1, <6>1, InWindow, Stretches
        <5>2. (Throttle!AdmittedInWindow(v))' = Throttle!AdmittedInWindow(v) /\ spent'[v] = spent[v]
          BY <1>1, <2>1, <2>7, <4>2, <5>1 DEF Throttle!TypeOK
        <5> QED
          BY <1>1, <5>2 DEF SpentInv
      <4> QED
        BY <4>1, <4>2
    <3> QED
      BY <1>1, <3>1 DEF SpentInv, Throttle!ExpiresAt
  <2>11. SpendingInv'
    <3>1. ASSUME NEW b \in Attempts, attempt'[b].pc = "spending"
          PROVE  attempt'[b] = attempt[b]
      BY <1>1, <1>4, <3>1 DEF Throttle!TypeOK
    <3>2. ASSUME NEW b \in Attempts, attempt[b].pc = "spending", NEW v \in Throttle!Windows,
                 v + 1 = Throttle!WindowOf(attempt[b].now)
          PROVE  (Throttle!AdmittedInWindow(v))' <= attempt[b].previous + late'
      <4>1. Throttle!AdmittedInWindow(v) <= attempt[b].previous + late /\ attempt[b].now <= clock
        BY <1>1, <3>2 DEF SpendingInv
      <4>2. attempt[b].previous \in Nat /\ attempt[b].now \in Nat /\ v \in Nat
        BY <1>1 DEF Throttle!TypeOK, Throttle!Attempt, Throttle!Times, Throttle!Windows
      <4>3. Throttle!AdmittedInWindow(v) \in Int
        <5>1. Begins(v) \in Int
          BY <4>2, Windows
        <5>2. (Begins(v) + Window) - 1 \in Int
          BY <2>2, <5>1
        <5> QED
          BY <1>1, <4>2, <5>1, <5>2, InWindow, Stretches
      <4>4. CASE v = w
        <5>1. Throttle!WindowOf(clock) # w
          <6>1. Begins(v + 1) <= clock
            <7>1. Begins(v + 1) <= attempt[b].now
              BY <3>2, <4>2, WindowOfTime
            <7>2. Begins(v + 1) \in Int
              BY <4>2, Windows
            <7> QED
              BY <1>1, <4>1, <4>2, <7>1, <7>2
          <6>2. clock < Begins(Throttle!WindowOf(clock)) + Window
            BY <1>1, WindowOfTime
          <6> QED
            BY <1>1, <2>2, <2>3, <4>4, <6>1, <6>2
        <5>2. late' = late + c
          BY <2>1, <5>1
        <5> QED
          BY <2>2, <2>7, <4>1, <4>2, <4>3, <4>4, <5>2
      <4>5. CASE v # w
        BY <2>2, <2>7, <4>1, <4>2, <4>3, <4>5
      <4> QED
        BY <4>4, <4>5
    <3> QED
      BY <1>1, <3>1, <3>2 DEF SpendingInv, Throttle!WindowOf
  <2>12. StretchInv'
    <3> SUFFICES ASSUME NEW from \in Throttle!Times, NEW length \in 1..Window
                 PROVE  (Throttle!AdmittedIn(from, from + length - 1))'
                          <= Limit + ((Limit * (length - 1)) \div Window) + late'
      BY DEF StretchInv
    <3>1. PICK e \in Int : e = from + length - 1
      BY DEF Throttle!Times
    <3>2. from \in Nat /\ from \in Int /\ from <= e + 1 /\ length - 1 \in Nat /\ length - 1 = e - from
      BY <3>1 DEF Throttle!Times
    <3>3. PICK q : q = (Limit * (length - 1)) \div Window
      OBVIOUS
    <3>4. q \in Int /\ 0 <= q
      <4>1. Limit * 0 <= Limit * (length - 1) /\ Limit * (length - 1) \in Int /\ Limit * 0 = 0
        BY <2>2, <3>2, Monotone
      <4>2. Window * 0 = 0
        BY <2>2
      <4> QED
        BY <2>2, <3>3, <4>1, <4>2, Quotient
    <3>5. Throttle!AdmittedIn(from, e) <= Limit + q + late /\ Throttle!AdmittedIn(from, e) \in Int
      <4>1. Throttle!AdmittedIn(from, e) \in Int
        BY <1>1, <3>2, Stretches
      <4> QED
        BY <1>1, <3>1, <3>3, <4>1 DEF StretchInv
    <3>6. (Throttle!AdmittedIn(from, e))' = Throttle!AdmittedIn(from, e) + (IF from <= now /\ now <= e THEN c ELSE 0)
      BY <2>7, <3>2
    <3>7. CASE ~(from <= now /\ now <= e)
      BY <2>2, <3>1, <3>3, <3>4, <3>5, <3>6, <3>7
    <3>8. CASE from <= now /\ now <= e /\ Throttle!WindowOf(clock) # w
      BY <2>1, <2>2, <3>1, <3>3, <3>4, <3>5, <3>6, <3>8
    <3>9. CASE from <= now /\ now <= e /\ Throttle!WindowOf(clock) = w
      <4>1. clock < Begins(w) + Window /\ Begins(w) <= clock /\ late' = late
        BY <1>1, <2>1, <3>9, WindowOfTime
      <4> DEFINE last == (Begins(w) + Window) - 1
      <4>2. last \in Int /\ clock <= last /\ Throttle!AdmittedInWindow(w) = Throttle!AdmittedIn(Begins(w), last)
        BY <1>1, <2>2, <2>3, <4>1, InWindow
      <4>3. (Throttle!AdmittedIn(Begins(w), last))' = spent[w] + c
        BY <2>2, <2>3, <2>5, <2>7, <4>1, <4>2
      <4>4. /\ \A s, t \in Int : (Throttle!AdmittedIn(s, t))' \in Int
            /\ \A r, s, t, u \in Int :
                 r <= s /\ t <= u => (Throttle!AdmittedIn(s, t))' <= (Throttle!AdmittedIn(r, u))'
            /\ \A s, t, u \in Int :
                 (Throttle!AdmittedIn(s, u))' = (Throttle!AdmittedIn(s, t - 1))' + (Throttle!AdmittedIn(t, u))'
            /\ \A s, t, u \in Int : clock <= t /\ t <= u => (Throttle!AdmittedIn(s, u))' = (Throttle!AdmittedIn(s, t))'
        BY <1>1, <2>8, <2>9, StretchesNext
      <4>5. \A s \in Int : Begins(w) <= s => (Throttle!AdmittedIn(s, e))' <= spent[w] + c
        <5>1. ASSUME NEW s \in Int, Begins(w) <= s PROVE (Throttle!AdmittedIn(s, e))' <= spent[w] + c
          <6>1. CASE e <= last
            <7>1. (Throttle!AdmittedIn(s, e))' <= (Throttle!AdmittedIn(Begins(w), last))'
              <8>1. Begins(w) \in Int /\ last \in Int
                BY <2>3, <4>2
              <8> QED
                BY <4>4, <5>1, <6>1, <8>1
            <7> QED
              BY <4>3, <7>1
          <6>2. CASE last < e
            <7>1. (Throttle!AdmittedIn(s, e))' <= (Throttle!AdmittedIn(Begins(w), e))'
              BY <2>3, <4>4, <5>1
            <7>2. (Throttle!AdmittedIn(Begins(w), e))' = (Throttle!AdmittedIn(Begins(w), last))'
              BY <2>3, <4>2, <4>4, <6>2
            <7> QED
              BY <4>3, <7>1, <7>2
          <6> QED
            BY <4>2, <6>1, <6>2
        <5> QED
          BY <5>1
      <4>6. PICK n \in Int : n = (Throttle!AdmittedIn(from, e))'
        <5>1. (Throttle!AdmittedIn(from, e))' \in Int
          BY <3>2, <4>4
        <5> QED
          BY <5>1
      <4>7. n <= Limit + q + late
        <5>1. CASE Begins(w) <= from
          <6>1. n <= spent[w] + c
            BY <3>2, <4>5, <4>6, <5>1
          <6> QED
            BY <2>2, <2>6, <3>4, <6>1
        <5>2. CASE from < Begins(w)
          <6>1. w - 1 \in Throttle!Windows /\ Begins(w - 1) <= from
            <7>1. w # 0
              BY <3>2, <5>2, Windows
            <7>2. length <= Window
              OBVIOUS
            <7> QED
              BY <2>2, <2>3, <3>1, <3>2, <3>9, <5>2, <7>1, <7>2, ThrottleConstants DEF Throttle!Windows
          <6>2. PICK x \in Int : x = (Throttle!AdmittedIn(from, Begins(w) - 1))'
            <7>1. (Throttle!AdmittedIn(from, Begins(w) - 1))' \in Int
              BY <2>3, <3>2, <4>4
            <7> QED
              BY <7>1
          <6>3. PICK y \in Int : y = (Throttle!AdmittedIn(Begins(w), e))'
            <7>1. (Throttle!AdmittedIn(Begins(w), e))' \in Int
              BY <2>3, <4>4
            <7> QED
              BY <7>1
          <6>4. n = x + y /\ y <= spent[w] + c
            <7>1. (Throttle!AdmittedIn(from, e))'
                    = (Throttle!AdmittedIn(from, Begins(w) - 1))' + (Throttle!AdmittedIn(Begins(w), e))'
              BY <2>3, <3>2, <4>4
            <7>2. (Throttle!AdmittedIn(Begins(w), e))' <= spent[w] + c
              <8>1. Begins(w) \in Int /\ Begins(w) <= Begins(w)
                BY <2>3
              <8> QED
                BY <4>5, <8>1
            <7> QED
              BY <4>6, <6>2, <6>3, <7>1, <7>2
          <6>5. x <= p + late
            <7>1. x = Throttle!AdmittedIn(from, Begins(w) - 1)
              <8>1. Begins(w) - 1 \in Int /\ from <= (Begins(w) - 1) + 1 /\ ~(now <= Begins(w) - 1)
                BY <2>2, <2>3, <3>2, <5>2
              <8>2. Throttle!AdmittedIn(from, Begins(w) - 1) \in Int
                BY <1>1, <3>2, <8>1, Stretches
              <8> QED
                BY <2>7, <3>2, <6>2, <8>1, <8>2
            <7>2. Throttle!AdmittedIn(from, Begins(w) - 1) <= Throttle!AdmittedIn(Begins(w - 1), Begins(w) - 1)
              <8>1. Begins(w - 1) \in Int /\ Begins(w) - 1 \in Int /\ Begins(w) - 1 <= Begins(w) - 1
                BY <2>2, <2>3
              <8>2. \A r, s, t, u \in Int : r <= s /\ t <= u => Throttle!AdmittedIn(s, t) <= Throttle!AdmittedIn(r, u)
                BY <1>1, Stretches
              <8> QED
                BY <3>2, <6>1, <8>1, <8>2
            <7>3. Throttle!AdmittedIn(Begins(w - 1), Begins(w) - 1) = Throttle!AdmittedInWindow(w - 1)
              <8>1. (Begins(w - 1) + Window) - 1 = Begins(w) - 1 /\ w - 1 \in Int
                BY <2>2, <2>3
              <8> QED
                BY <8>1, InWindow
            <7>4. Throttle!AdmittedInWindow(w - 1) <= p + late
              <8>1. (w - 1) + 1 = w
                BY <2>2
              <8> QED
                BY <1>1, <1>2, <1>3, <6>1, <8>1 DEF SpendingInv
            <7>5. Throttle!AdmittedIn(Begins(w - 1), Begins(w) - 1) \in Int
              <8>1. Begins(w - 1) \in Int /\ Begins(w) - 1 \in Int
                BY <2>2, <2>3
              <8> QED
                BY <1>1, <8>1, Stretches
            <7> QED
              BY <2>2, <7>1, <7>2, <7>3, <7>4, <7>5
          <6>6. n - late - Limit <= q
            <7>1. PICK k \in Int : k = (x + y) - (late + Limit)
              BY <2>2
            <7>2. k <= p + spent[w] + c - Limit
              BY <2>2, <6>4, <6>5, <7>1
            <7>3. now % Window <= length - 1
              BY <2>2, <2>3, <3>2, <3>9, <5>2
            <7>4. k <= q
              BY <1>7, <2>2, <2>4, <3>2, <3>3, <7>2, <7>3, Fading
            <7> QED
              BY <2>2, <3>4, <6>4, <7>1, <7>4
          <6> QED
            BY <2>2, <3>4, <6>6
        <5> QED
          BY <2>3, <3>2, <5>1, <5>2
      <4> QED
        BY <3>1, <3>3, <4>1, <4>6, <4>7
    <3> QED
      BY <3>7, <3>8, <3>9
  <2> QED
    BY <1>5, <2>8, <2>9, <2>10, <2>11, <2>12 DEF ThrottleInv
<1> QED
  BY <1>6, <1>7

LEMMA ThrottleStep == ThrottleInv /\ [MCNext]_<<subject, session, throttle>> => ThrottleInv'
<1> SUFFICES ASSUME ThrottleInv, [MCNext]_<<subject, session, throttle>> PROVE ThrottleInv'
  OBVIOUS
<1>1. CASE UNCHANGED throttle
  BY <1>1 DEF throttle, ThrottleInv, Throttle!TypeOK, TotalsInv, SpentInv, SpendingInv, StretchInv, GuessesInv,
              UnderWay, Throttle!GuessesBounded, Throttle!WindowOf, Throttle!ExpiresAt,
              Throttle!AdmittedInWindow, Throttle!AdmittedIn, Throttle!AdmittedUpTo
<1>2. CASE \E a \in Attempts : Throttle!PeekFailures(a)
  BY <1>2, PeekKeeps
<1>3. CASE \E a \in Attempts : Throttle!ReadPrevious(a)
  BY <1>3, ReadKeeps
<1>4. CASE \E a \in Attempts : Throttle!Spend(a)
  BY <1>4, SpendKeeps
<1>5. CASE \E a \in Attempts : Throttle!RecordFailure(a)
  BY <1>5, RecordKeeps
<1>6. CASE \E a \in Attempts : Throttle!ClearFailures(a)
  BY <1>6, ClearKeeps
<1>7. CASE Throttle!Prune
  BY <1>7, PruneKeeps
<1>8. CASE Throttle!Tick
  BY <1>8, TickKeeps
<1> QED
  BY <1>1, <1>2, <1>3, <1>4, <1>5, <1>6, <1>7, <1>8, Zenon DEF MCNext, Session, Throttling

\* The attempts that run at once never overshoot the address's limit within a window, nor
\* in any stretch by more than its share of a window and what came late; and an account
\* takes no more guesses in a window than its limit and the attempts already under way.
THEOREM AttemptsStayThrottled == MCSpec => []AttemptsThrottled
<1>1. MCInit => ThrottleInv
  BY ThrottleInit DEF MCInit
<1>2. ThrottleInv /\ [MCNext]_<<subject, session, throttle>> => ThrottleInv'
  BY ThrottleStep
<1>3. ThrottleInv => AttemptsThrottled
  <2>1. ThrottleInv => \A w \in Throttle!Windows : Throttle!AdmittedInWindow(w) <= Limit
    BY DEF ThrottleInv, SpentInv
  <2>2. ThrottleInv => StretchInv /\ Throttle!GuessesBounded
    BY DEF ThrottleInv, GuessesInv
  <2> QED
    BY <2>1, <2>2 DEF AttemptsThrottled, Throttle!SpendBounded, StretchInv
<1> QED
  BY <1>1, <1>2, <1>3, PTL DEF MCSpec
=============================================================================
