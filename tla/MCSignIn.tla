------------------------------ MODULE MCSignIn ------------------------------
(***************************************************************************)
(* Instances of SignIn, and of the limiter that throttles signing in, for  *)
(* TLC.  The two share no state: a behaviour is one of the first or one of *)
(* the second, whichever subject was chosen at the start.                  *)
(***************************************************************************)
EXTENDS SignIn, TLC

CONSTANTS l1, l2, r1, r2, totp, passkey, Attempts, Limit, MaxFailures, Costs, Window, LastTime

VARIABLES subject, clock, spent, failures, attempt, admitted, late

Throttle == INSTANCE RateLimit

ASSUME InstanceAssumption == Throttle!RateLimitAssumption

session == <<user, epochs, row, token, req, ended, proven, shifted>>
throttle == <<clock, spent, failures, attempt, admitted, late>>

MCInit ==
  /\ Init /\ Throttle!Init
  /\ (subject = "session") \/ (subject = "throttle" /\ ~user.required)

Session == subject = "session" /\ UNCHANGED <<subject, throttle>>
Throttling == subject = "throttle" /\ UNCHANGED <<subject, session>>

\* The disjuncts of Next and of Throttle!Next, one to a line: TLC counts each.
MCNext ==
  \/ Session /\ \E r \in Requests : Authorize(r)
  \/ Session /\ \E r \in Requests : StartLoginSession(r)
  \/ Session /\ \E r \in Requests : ReadUser(r)
  \/ Session /\ \E r \in Requests : ReadLogin(r)
  \/ Session /\ \E r \in Requests : EndRequest(r)
  \/ Session /\ \E r \in Requests : ChangePassword(r)
  \/ Session /\ \E r \in Requests : RevokeOthers(r)
  \/ Session /\ \E r \in Requests : InsertFactor(r)
  \/ Session /\ \E r \in Requests : FactorAdded(r)
  \/ Session /\ \E r \in Requests : DeleteFactor(r)
  \/ Session /\ \E r \in Requests : FactorRemoved(r)
  \/ Session /\ \E r \in Requests : CheckFactor(r)
  \/ Session /\ \E r \in Requests : CurrentEpoch(r)
  \/ Session /\ \E r \in Requests : VerifyRecoveryCode(r)
  \/ Session /\ \E r \in Requests : RefreshSession(r)
  \/ Session /\ \E l \in Logins : SignOut(l)
  \/ Session /\ SignOutEverywhere
  \/ Session /\ ResetMemberMfa
  \/ Session /\ SetMfaRequired
  \/ Throttling /\ \E a \in Attempts : Throttle!PeekFailures(a)
  \/ Throttling /\ \E a \in Attempts : Throttle!ReadPrevious(a)
  \/ Throttling /\ \E a \in Attempts : Throttle!Spend(a)
  \/ Throttling /\ \E a \in Attempts : Throttle!RecordFailure(a)
  \/ Throttling /\ \E a \in Attempts : Throttle!ClearFailures(a)
  \/ Throttling /\ Throttle!Prune
  \/ Throttling /\ Throttle!Tick

MCSpec == MCInit /\ [][MCNext]_<<subject, session, throttle>>

\* Concurrent attempts overshoot neither the address's limit nor, but for those under
\* way, the account's (RateLimit.SpendBounded, RateLimit.GuessesBounded).
AttemptsThrottled == subject = "throttle" => Throttle!SpendBounded /\ Throttle!GuessesBounded

\* Two browsers do the same, two requests, and the two kinds of factor.
Symmetric == Permutations({l1, l2}) \cup Permutations({r1, r2}) \cup Permutations({totp, passkey})
=============================================================================
