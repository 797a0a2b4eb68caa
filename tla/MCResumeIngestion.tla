-------------------------- MODULE MCResumeIngestion --------------------------
(* Instances of ResumeIngestion for TLC. *)
EXTENDS ResumeIngestion, TLC

CONSTANTS f1, f2, f3, c1, c2, w1, w2, e1, e2

\* All uploads for one candidate: ordering, claims, erasure races.
OneCandidate == [f \in Files |-> c1]
\* One upload each for two candidates: purges of several at once.
TwoCandidates == [f \in Files |-> IF f = f1 THEN c1 ELSE c2]

\* The backoff doubles with every attempt.
Doubling == [n \in 1..MaxParseAttempts |-> 2 ^ (n - 1)]

Symmetric == Permutations(Files) \cup Permutations(Workers) \cup Permutations(Erasers)
SymmetricActors == Permutations(Workers) \cup Permutations(Erasers)
=============================================================================
