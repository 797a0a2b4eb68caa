------------------------------ MODULE WorkQueue ------------------------------
(***************************************************************************)
(* What every queue of the application promises: an item waits, is worked  *)
(* on at most MaxAttempts times, and once it is done it stays done.  The   *)
(* scoring, resume and webhook queues keep their items in three different  *)
(* tables and implement this with the same statements: a claim, an update  *)
(* fenced by the claim, and the recovery of stale claims.  A recovery or a *)
(* bulk request moves several items at once.                               *)
(***************************************************************************)
EXTENDS Integers

CONSTANTS Items, MaxAttempts

VARIABLES
  state,     \* of each item
  attempts   \* how often work on it was started

vars == <<state, attempts>>

Init ==
  /\ state = [i \in Items |-> "absent"]
  /\ attempts = [i \in Items |-> 0]

Put(i) == state[i] = "absent" /\ state'[i] = "waiting" /\ attempts'[i] = 0

Take(i) == /\ state[i] = "waiting"
           /\ attempts[i] < MaxAttempts
           /\ state'[i] = "working"
           /\ attempts'[i] = attempts[i] + 1

\* Work that did not end is tried again only while attempts are left.
Return(i) == /\ state[i] = "working"
             /\ attempts[i] < MaxAttempts
             /\ state'[i] = "waiting"
             /\ attempts'[i] = attempts[i]

Finish(i) == state[i] = "working" /\ state'[i] = "done" /\ attempts'[i] = attempts[i]

\* The item is withdrawn, for example with the candidate it belongs to.
Withdraw(i) == state[i] = "waiting" /\ state'[i] = "done" /\ attempts'[i] = attempts[i]

Stay(i) == state'[i] = state[i] /\ attempts'[i] = attempts[i]

Next ==
  /\ state' \in [Items -> {"absent", "waiting", "working", "done"}]
  /\ attempts' \in [Items -> Nat]
  /\ \A i \in Items : Put(i) \/ Take(i) \/ Return(i) \/ Finish(i) \/ Withdraw(i) \/ Stay(i)

Spec == Init /\ [][Next]_vars
=============================================================================
