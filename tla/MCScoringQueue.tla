--------------------------- MODULE MCScoringQueue ---------------------------
(* Instances of ScoringQueue for TLC. *)
EXTENDS ScoringQueue, TLC

CONSTANTS w1, w2, w3, u1, u2, c1, c2, long, long2, short

\* One application: claims, retries, zombies, crashes and edits of one row.
OneApp == [a \in {1} |-> c1]
\* Two applications of one tenant: bulk requests and clicks.
TwoApps == [a \in {1, 2} |-> c1]
\* Two tenants, one with two applications: the concurrency caps.
TwoTenants == [a \in {1, 2, 3} |-> IF a < 3 THEN c1 ELSE c2]

BudgetOf1 == [c \in Companies |-> 1]
BudgetOf3 == [c \in Companies |-> 3]

SymWorkersUsers == Permutations(Workers) \cup Permutations(Users)
=============================================================================
