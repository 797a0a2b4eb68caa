----------------------------- MODULE MCPageGuards -----------------------------
(* Instances of PageGuards for TLC. *)
EXTENDS PageGuards

Rules == {"suspended", "ssoEnforced", "mfaRequired", "excludes", "brief"}
RulesOf(k) == {r \in Rules : k[r]}

\* Members under at most two of the rules (nobody asks for those of a suspended
\* workspace), and an owner who is exempt from two.
First == {k \in Kind :
  \/ ~k.owner /\ Cardinality(RulesOf(k)) <= 2 /\ (k.suspended => RulesOf(k) = {"suspended"})
  \/ k.owner /\ RulesOf(k) = {"ssoEnforced", "excludes"}}

\* Members under at most one of the rules that decide which workspace is opened.
Second == {k \in Kind :
  ~k.owner /\ Cardinality(RulesOf(k)) <= 1 /\ RulesOf(k) \subseteq {"suspended", "ssoEnforced", "excludes"}}

MCKinds == <<First, Second>>
=============================================================================
