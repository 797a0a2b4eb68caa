------------------------------ MODULE RateLimit ------------------------------
(***************************************************************************)
(* The sliding-window limiter (rate-limit.ts) as the sign-in throttle uses *)
(* it (auth/login-throttle.ts): a budget per address, spent in one         *)
(* statement that reads the window before and adds to the current one, and *)
(* failures per account, looked at first and counted afterwards.  Several  *)
(* attempts run at once, and a statement may wait for another's row while  *)
(* its moment passes.  A window is Window ticks.                           *)
(***************************************************************************)
EXTENDS Integers, FiniteSets

CONSTANTS
  Attempts,     \* attempts under way
  Limit,        \* LOGIN_IP_LIMIT.max
  MaxFailures,  \* ACCOUNT_FAILURE_LIMIT.max
  Costs,        \* what one call may cost: 1 here, more for a bulk request in checkAiQuota
  Window,       \* windowMs
  LastTime      \* bound: the clock

VARIABLES
  clock,
  spent,       \* the RateLimitCounter rows of the address, 0 for no row
  failures,    \* those of the account
  attempt,     \* the attempts
  admitted,    \* what was admitted up to each moment, by the callers' clocks
  late         \* what was admitted after its window had ended

vars == <<clock, spent, failures, attempt, admitted, late>>

\* What the constants must be; the module that instantiates this one assumes it.
RateLimitAssumption ==
  /\ IsFiniteSet(Attempts)
  /\ Limit \in Nat
  /\ MaxFailures \in Nat \ {0}
  /\ Costs \subseteq Nat
  /\ Window \in Nat \ {0}
  /\ LastTime \in Nat

Times == 0..LastTime
Windows == 0..(LastTime \div Window)
Attempt == [pc: {"idle", "peeked", "spending", "checking"}, now: Times, cost: Costs \cup {0}, previous: Nat]
Idle == [pc |-> "idle", now |-> 0, cost |-> 0, previous |-> 0]

TypeOK ==
  /\ clock \in Times
  /\ spent \in [Windows -> Nat]
  /\ failures \in [Windows -> Nat]
  /\ attempt \in [Attempts -> Attempt]
  /\ admitted \in [Times -> Nat]
  /\ late \in Nat

Init ==
  /\ clock = 0
  /\ spent = [w \in Windows |-> 0]
  /\ failures = [w \in Windows |-> 0]
  /\ attempt = [a \in Attempts |-> Idle]
  /\ admitted = [t \in Times |-> 0]
  /\ late = 0

WindowOf(now) == now \div Window
Count(rows, w) == IF w \in Windows THEN rows[w] ELSE 0

\* mutant: the window before is forgotten at the boundary
Fits_FixedWindow(previous, current, now, cost, max) == current + cost <= max

\* slidingCount: what the window before counts for fades as the current one passes.
Fits(previous, current, now, cost, max) ==
  previous * (Window - (now % Window)) + Window * (current + cost) <= Window * max
-----------------------------------------------------------------------------
\* peekRateLimit of the account.
Unlocked ==
  Fits(Count(failures, WindowOf(clock) - 1), failures[WindowOf(clock)], clock, 1, MaxFailures)

\* beginLoginAttempt, first half.
PeekFailures(a) ==
  /\ attempt[a].pc = "idle"
  /\ Unlocked
  /\ attempt' = [attempt EXCEPT ![a].pc = "peeked"]
  /\ UNCHANGED <<clock, spent, failures, admitted, late>>

\* rateLimit: the caller's clock and the statement's snapshot of the window before.
ReadPrevious(a) == \E cost \in Costs :
  /\ attempt[a].pc = "peeked"
  /\ attempt' = [attempt EXCEPT ![a] = [pc |-> "spending", now |-> clock, cost |-> cost,
                                        previous |-> Count(spent, WindowOf(clock) - 1)]]
  /\ UNCHANGED <<clock, spent, failures, admitted, late>>

\* The current row is locked and its latest value decides; nothing is spent otherwise.
Spend(a) ==
  LET q == attempt[a]
      w == WindowOf(q.now)
  IN
  /\ q.pc = "spending"
  /\ IF Fits(q.previous, spent[w], q.now, q.cost, Limit)
     THEN /\ spent' = [spent EXCEPT ![w] = @ + q.cost]
          /\ admitted' = [t \in Times |-> IF t < q.now THEN admitted[t] ELSE admitted[t] + q.cost]
          /\ late' = IF w = WindowOf(clock) THEN late ELSE late + q.cost
          /\ attempt' = [attempt EXCEPT ![a] = [Idle EXCEPT !.pc = "checking"]]
     ELSE attempt' = [attempt EXCEPT ![a] = Idle] /\ UNCHANGED <<spent, admitted, late>>
  /\ UNCHANGED <<clock, failures>>

\* recordUsage: counted whatever the count is.
RecordFailure(a) ==
  /\ attempt[a].pc = "checking"
  /\ failures' = [failures EXCEPT ![WindowOf(clock)] = @ + 1]
  /\ attempt' = [attempt EXCEPT ![a] = Idle]
  /\ UNCHANGED <<clock, spent, admitted, late>>

\* The password was right: the account's rows go.
ClearFailures(a) ==
  /\ attempt[a].pc = "checking"
  /\ failures' = [w \in Windows |-> 0]
  /\ attempt' = [attempt EXCEPT ![a] = Idle]
  /\ UNCHANGED <<clock, spent, admitted, late>>

\* A row counts for the window after its own too.
ExpiresAt(w) == (w + 2) * Window

\* maybePrune.
Prune ==
  LET kept(rows) == [w \in Windows |-> IF ExpiresAt(w) < clock THEN 0 ELSE rows[w]] IN
  /\ spent' = kept(spent)
  /\ failures' = kept(failures)
  /\ UNCHANGED <<clock, attempt, admitted, late>>

\* No statement waits as long as a window.
Tick ==
  /\ clock < LastTime
  /\ \A a \in Attempts : attempt[a].pc = "spending" => clock + 1 < attempt[a].now + Window
  /\ clock' = clock + 1
  /\ UNCHANGED <<spent, failures, attempt, admitted, late>>
-----------------------------------------------------------------------------
Next ==
  \/ \E a \in Attempts :
       PeekFailures(a) \/ ReadPrevious(a) \/ Spend(a) \/ RecordFailure(a) \/ ClearFailures(a)
  \/ Prune \/ Tick

Spec == Init /\ [][Next]_vars
-----------------------------------------------------------------------------
(* Properties. *)

AdmittedUpTo(t) == IF t < 0 THEN 0 ELSE IF t < LastTime THEN admitted[t] ELSE admitted[LastTime]
AdmittedIn(from, to) == AdmittedUpTo(to) - AdmittedUpTo(from - 1)
AdmittedInWindow(w) == AdmittedIn(w * Window, (w + 1) * Window - 1)

\* Concurrent callers never overshoot the limit within a window, rows pruned meanwhile
\* included, and there is no burst at a boundary: what any stretch no longer than a
\* window admits exceeds the limit by no more than its share of the window, but for
\* what a waiting statement added after its window had ended.
SpendBounded ==
  /\ \A w \in Windows : AdmittedInWindow(w) <= Limit
  /\ \A from \in Times, length \in 1..Window :
       AdmittedIn(from, from + length - 1) <= Limit + (Limit * (length - 1)) \div Window + late

\* However many attempts look before the others' failures count, an account takes no
\* more guesses in a window than its limit and the attempts already under way.
GuessesBounded == \A w \in Windows : failures[w] <= MaxFailures + Cardinality(Attempts) - 1
=============================================================================
