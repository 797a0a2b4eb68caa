----------------------------- MODULE CompanyProofs -----------------------------
(***************************************************************************)
(* A seat counted under the lock is there when it is taken, an invite      *)
(* brings one person in at most, and the last owner only goes when         *)
(* requests overlap; the billing row shows the latest subscription, and    *)
(* no usage is skipped on its way to Stripe: for any number of people,     *)
(* requests and seats, subscriptions, handlers, runs and passes.           *)
(***************************************************************************)
EXTENDS MCCompany, Sequences, FiniteSetTheorems, WellFoundedInduction, TLAPS

(* Memberships: the inductive invariant behind the properties. *)

\* What is known of a request under way from how it began and what it has read.
RequestOK(q) == q.pc # "idle" =>
  /\ q.target \in Users
  /\ q.op \in {"role", "transfer"} \cup SeatOps => q.give \in Roles
  /\ q.op \in {"role", "remove", "transfer"} => q.actor \in Users \ {q.target}
  /\ q.pc \notin {"begun", "read"} => q.op \in SeatOps
  /\ q.pc = "read" =>
       /\ q.op \in TeamOps /\ q.seen \in Row
       /\ q.op \in {"role", "remove"} /\ q.seen.role = "OWNER" => q.as = "OWNER"
       /\ q.op = "deprovision" => q.seen.role # "OWNER"
RequestInv == \A r \in Requests : RequestOK(req[r])

\* One request at a time has the seat lock; what it counted bounds the members until it
\* commits, unless a join without a limit went past it.
SeatInv ==
  /\ \A r, q \in Requests :
       req[r].pc \in {"locked", "counted"} /\ req[q].pc \in {"locked", "counted"} => r = q
  /\ \A r \in Requests :
       /\ req[r].pc \in {"waiting", "locked", "counted"} => req[r].limit \in Nat
       /\ req[r].pc = "counted" /\ ~req[r].overtaken => Cardinality(Members) < req[r].limit

\* An invite that somebody may still be brought in by: pending, or claimed by one request.
Usable(u) == invite[u].status = "pending" \/ ~InviteFree(u)
InviteInv ==
  /\ \A r, q \in Requests : \A u \in Users : Holds(r, u) /\ Holds(q, u) => r = q
  /\ \A u \in Users : joined[u] + withdrawn[u] + (IF Usable(u) THEN 1 ELSE 0) <= sent[u]

\* While no role has changed since it began, what a request has read is true.
RoleOK(q) == q.pc \in {"begun", "read"} /\ ~q.stale =>
  /\ q.op \in {"role", "remove", "transfer"} /\ q.as = "OWNER" => RoleOf(q.actor) = "OWNER"
  /\ q.op = "delete" => Owners \ {q.target} # {}
  /\ q.pc = "read" => member[q.target] = q.seen
RoleInv == \A r \in Requests : RoleOK(req[r])

IndInv == TypeOK /\ RequestInv /\ SeatInv /\ InviteInv /\ RoleInv
-----------------------------------------------------------------------------
USE ConstantsAssumption

\* Most actions replace one request or only move it on.
LEMMA IdleRequest == Idle \in Request
BY DEF Idle, Request

LEMMA Finished ==
  ASSUME TypeOK, NEW r \in Requests, Done(r)
  PROVE  req' \in [Requests -> Request]
BY IdleRequest DEF TypeOK, Done

LEMMA Moved ==
  ASSUME TypeOK, NEW r \in Requests, NEW pc \in {"claimed", "locked"}, To(r, pc)
  PROVE  req' \in [Requests -> Request]
<1>1. req[r] \in Request
  BY DEF TypeOK
<1>2. [req[r] EXCEPT !.pc = pc] \in Request
  BY <1>1 DEF Request
<1>3. req' = [req EXCEPT ![r] = [req[r] EXCEPT !.pc = pc]]
  BY DEF To
<1> QED
  BY <1>2, <1>3 DEF TypeOK

\* A request that begins, whatever its operation is.
Begun(op, no, a, u, give, as) ==
  [Idle EXCEPT !.op = op, !.no = no, !.pc = "begun", !.actor = a, !.target = u, !.give = give, !.as = as]

LEMMA BegunRequest ==
  ASSUME TypeOK, NEW r \in Requests, NEW op \in TeamOps \cup SeatOps, NEW a \in Users \cup {None},
         NEW u \in Users, NEW give \in Roles \cup {None}, Begin(r, op, a, u, give)
  PROVE  \E as \in Roles \cup {None} :
           /\ a # None => as = RoleOf(a)
           /\ req' = [req EXCEPT ![r] = Begun(op, begun', a, u, give, as)]
           /\ Begun(op, begun', a, u, give, as) \in Request
<1> DEFINE as == IF a = None THEN None ELSE RoleOf(a)
<1>1. as \in Roles \cup {None} /\ (a # None => as = RoleOf(a))
  BY DEF TypeOK, RoleOf, Row
<1>2. begun' \in Nat
  BY DEF TypeOK, Begin
<1>3. req' = [req EXCEPT ![r] = Begun(op, begun', a, u, give, as)]
  BY DEF Begin, Begun
<1> HIDE DEF as
<1>4. Begun(op, begun', a, u, give, as) \in Request
  BY <1>1, <1>2 DEF Begun, Idle, Request
<1> QED
  BY <1>1, <1>3, <1>4

\* The operations that begin, with what their guards make sure of.
LEMMA Begins ==
  ASSUME TypeOK, NEW r \in Requests, BeginAny(r)
  PROVE  \E op \in TeamOps \cup SeatOps, a \in Users \cup {None}, u \in Users, give \in Roles \cup {None} :
           /\ Begin(r, op, a, u, give)
           /\ op \in {"role", "transfer"} \cup SeatOps => give \in Roles
           /\ op \in {"role", "remove", "transfer"} => a \in Users \ {u}
           /\ op = "delete" => Owners \ {u} # {}
<1> USE DEF TeamOps, SeatOps, Members, Owners
<1>1. CASE BeginRole(r)
  BY <1>1 DEF BeginRole
<1>2. CASE BeginRemove(r)
  BY <1>2 DEF BeginRemove
<1>3. CASE BeginTransfer(r)
  BY <1>3 DEF BeginTransfer
<1>4. CASE BeginDeprovision(r)
  BY <1>4 DEF BeginDeprovision
<1>5. CASE BeginDelete(r)
  BY <1>5 DEF BeginDelete
<1>6. CASE BeginInvite(r)
  BY <1>6 DEF BeginInvite
<1>7. CASE BeginAccept(r)
  BY <1>7 DEF BeginAccept, TypeOK
<1>8. CASE BeginJoin(r)
  BY <1>8 DEF BeginJoin, Roles
<1> QED
  BY <1>1, <1>2, <1>3, <1>4, <1>5, <1>6, <1>7, <1>8 DEF BeginAny

\* The membership rows after a change of roles are rows.
LEMMA CommitType ==
  ASSUME TypeOK, NEW r \in Requests, NEW rows \in [Users -> Row \cup {None}], CommitRoles(r, rows)
  PROVE  TypeOK'
<1>1. \A q \in Requests : req[q] \in Request
  BY DEF TypeOK
<1>2. \A q \in Requests : [req[q] EXCEPT !.stale = TRUE] \in Request
  BY <1>1, ZenonT(90) DEF Request
<1> QED
  BY <1>1, <1>2, IdleRequest DEF CommitRoles, TypeOK, ghosts

LEMMA TypeStep ==
  ASSUME TypeOK, RequestInv, [Next]_vars
  PROVE  TypeOK'
<1>0. \A r \in Requests : req[r] \in Request
  BY DEF TypeOK
<1>1. ASSUME NEW r \in Requests, BeginAny(r) PROVE TypeOK'
  <2>1. PICK op \in TeamOps \cup SeatOps, a \in Users \cup {None}, u \in Users, give \in Roles \cup {None} :
          Begin(r, op, a, u, give)
    BY <1>1, Begins
  <2>2. PICK as \in Roles \cup {None} :
          /\ req' = [req EXCEPT ![r] = Begun(op, begun', a, u, give, as)]
          /\ Begun(op, begun', a, u, give, as) \in Request
    BY <2>1, BegunRequest
  <2>3. req' \in [Requests -> Request]
    BY <2>2 DEF TypeOK
  <2> QED
    BY <2>1, <2>3 DEF Begin, TypeOK, ghosts
<1>2. ASSUME NEW r \in Requests, ReadTarget(r) PROVE TypeOK'
  <2>1. req[r].target \in Users
    BY <1>2 DEF ReadTarget, RequestInv, RequestOK
  <2>2. [req[r] EXCEPT !.pc = "read", !.seen = member[req[r].target]] \in Request
    BY <1>0, <2>1, ZenonT(90) DEF Request, TypeOK
  <2>3. req' \in [Requests -> Request]
    BY <1>2, <2>2, Finished DEF ReadTarget, TypeOK
  <2> QED
    BY <1>2, <2>3 DEF ReadTarget, TypeOK, ghosts
<1>3. ASSUME NEW r \in Requests, UpdateMemberRole(r) PROVE TypeOK'
  <2>1. /\ req[r].target \in Users /\ req[r].give \in Roles
        /\ member[req[r].target] \in Row
    BY <1>3 DEF UpdateMemberRole, RowThere, RequestInv, RequestOK, TypeOK
  <2>2. [member[req[r].target] EXCEPT !.role = req[r].give] \in Row
    BY <2>1 DEF Row
  <2>3. [member EXCEPT ![req[r].target].role = req[r].give] \in [Users -> Row \cup {None}]
    BY <2>1, <2>2 DEF TypeOK
  <2> QED
    BY <1>3, <2>3, CommitType DEF UpdateMemberRole
<1>4. ASSUME NEW r \in Requests, RemoveMember(r) PROVE TypeOK'
  <2>1. [member EXCEPT ![req[r].target] = None] \in [Users -> Row \cup {None}]
    BY DEF TypeOK
  <2> QED
    BY <1>4, <2>1, CommitType DEF RemoveMember
<1>5. ASSUME NEW r \in Requests, TransferOwnership(r) PROVE TypeOK'
  <2> DEFINE u == req[r].target
             a == req[r].actor
  <2>1. /\ u \in Users /\ a \in Users \ {u} /\ req[r].give \in Roles
        /\ member[u] \in Row
    BY <1>5 DEF TransferOwnership, RowThere, RequestInv, RequestOK, TypeOK
  <2>2. member[a] \in Row
    BY <1>5, <2>1 DEF TransferOwnership, Transferable, RoleOf, Roles, TypeOK
  <2>3. [member[u] EXCEPT !.role = "OWNER"] \in Row /\ [member[a] EXCEPT !.role = req[r].give] \in Row
    BY <2>1, <2>2 DEF Row, Roles
  <2>4. [member EXCEPT ![u].role = "OWNER", ![a].role = req[r].give] \in [Users -> Row \cup {None}]
    BY <2>1, <2>2, <2>3 DEF TypeOK
  <2> QED
    BY <1>5, <2>4, CommitType DEF TransferOwnership
<1>6. ASSUME NEW r \in Requests, ChangeFails(r) PROVE TypeOK'
  BY <1>6, Finished DEF ChangeFails, TypeOK, ghosts
<1>7. ASSUME NEW r \in Requests, ClaimInvite(r) PROVE TypeOK'
  BY <1>7, Finished, Moved DEF ClaimInvite, TypeOK, ghosts
<1>8. ASSUME NEW r \in Requests, ReadLimit(r) PROVE TypeOK'
  <2> DEFINE pc == IF limit = None THEN "free" ELSE "waiting"
  <2>1. limit \in Nat \cup {None} /\ pc \in {"free", "waiting"}
    BY DEF TypeOK
  <2> HIDE DEF pc
  <2>2. [req[r] EXCEPT !.pc = pc, !.limit = limit] \in Request
    BY <1>0, <2>1 DEF Request
  <2> USE DEF pc
  <2> QED
    BY <1>8, <2>2 DEF ReadLimit, TypeOK, ghosts
<1>9. ASSUME NEW r \in Requests, LockSeats(r) PROVE TypeOK'
  BY <1>9, Moved DEF LockSeats, TypeOK, ghosts
<1>10. ASSUME NEW r \in Requests, CountSeats(r) PROVE TypeOK'
  <2>1. [req[r] EXCEPT !.pc = "counted", !.overtaken = FALSE] \in Request
    BY <1>0, ZenonT(60) DEF Request
  <2>2. req' \in [Requests -> Request]
    BY <1>10, <2>1, Finished DEF CountSeats, TypeOK
  <2> QED
    BY <1>10, <2>2 DEF CountSeats, TypeOK, ghosts
<1>11. ASSUME NEW r \in Requests, CreateInvite(r) PROVE TypeOK'
  <2>1. req[r].target \in Users /\ req[r].give \in Roles
    BY <1>11 DEF CreateInvite, MaySettle, RequestInv, RequestOK, SeatOps
  <2>2. req' \in [Requests -> Request]
    BY <1>11, Finished DEF CreateInvite
  <2>3. sent' \in [Users -> Nat]
    BY <1>11, <2>1 DEF CreateInvite, TypeOK
  <2> QED
    BY <1>11, <2>1, <2>2, <2>3 DEF CreateInvite, TypeOK
<1>12. ASSUME NEW r \in Requests, CreateMembership(r) PROVE TypeOK'
  <2>1. req[r].target \in Users /\ req[r].give \in Roles
    BY <1>12 DEF CreateMembership, MaySettle, RequestInv, RequestOK, SeatOps
  <2>2. [id |-> req[r].no, role |-> req[r].give] \in Row
    BY <1>0, <2>1 DEF Request, Row
  <2>3. \A q \in Requests : [req[q] EXCEPT !.overtaken = TRUE] \in Request
    BY <1>0, ZenonT(90) DEF Request
  <2>4. req' \in [Requests -> Request]
    BY <1>12, <1>0, <2>3, IdleRequest DEF CreateMembership
  <2>5. invite' \in [Users -> [status: {"none", "pending", "accepted", "expired"}, role: Roles]]
    BY <1>12, <2>1 DEF CreateMembership, TypeOK
  <2>6. joined' \in [Users -> Nat]
    BY <1>12, <2>1 DEF CreateMembership, TypeOK
  <2> QED
    BY <1>12, <2>2, <2>4, <2>5, <2>6 DEF CreateMembership, TypeOK
<1>13. ASSUME NEW r \in Requests, AlreadyMember(r) PROVE TypeOK'
  BY <1>13, Finished DEF AlreadyMember, TypeOK, ghosts
<1>14. ASSUME ResolveDeadlock PROVE TypeOK'
  BY <1>14, Finished DEF ResolveDeadlock, TypeOK, ghosts
<1>15. ASSUME NEW u \in Users, RevokeInvite(u) \/ ExpireInvite(u) PROVE TypeOK'
  <2>1. invite' \in [Users -> [status: {"none", "pending", "accepted", "expired"}, role: Roles]]
    BY <1>15 DEF RevokeInvite, ExpireInvite, TypeOK
  <2>2. withdrawn' \in [Users -> Nat]
    BY <1>15, SMTT(30) DEF RevokeInvite, ExpireInvite, TypeOK
  <2> QED
    BY <1>15, <2>1, <2>2 DEF RevokeInvite, ExpireInvite, TypeOK
<1>16. ASSUME SetLimit PROVE TypeOK'
  BY <1>16 DEF SetLimit, TypeOK, ghosts
<1>17. ASSUME UNCHANGED vars PROVE TypeOK'
  BY <1>17 DEF vars, TypeOK
<1> QED
  BY <1>1, <1>2, <1>3, <1>4, <1>5, <1>6, <1>7, <1>8, <1>9, <1>10, <1>11, <1>12, <1>13, <1>14, <1>15, <1>16, <1>17
  DEF Next, Proceed

LEMMA RequestStep ==
  ASSUME TypeOK, RequestInv, [Next]_vars
  PROVE  RequestInv'
<1>0. \A r \in Requests : req[r] \in Request /\ RequestOK(req[r])
  BY DEF TypeOK, RequestInv
<1>a. RequestOK(Idle)
  BY DEF RequestOK, Idle
<1>b. ASSUME NEW r \in Requests, Done(r) PROVE RequestInv'
  BY <1>b, <1>0, <1>a DEF Done, RequestInv, TypeOK
<1>c. ASSUME NEW r \in Requests, NEW rows, CommitRoles(r, rows) PROVE RequestInv'
  <2>1. \A q \in Requests : RequestOK([req[q] EXCEPT !.stale = TRUE])
    BY <1>0 DEF RequestOK, Request
  <2> QED
    BY <1>c, <1>0, <1>a, <2>1 DEF CommitRoles, RequestInv
<1>d. ASSUME NEW r \in Requests, NEW q \in Request, RequestOK(q), req' = [req EXCEPT ![r] = q]
      PROVE  RequestInv'
  BY <1>d, <1>0 DEF RequestInv, TypeOK
<1>1. ASSUME NEW r \in Requests, BeginAny(r) PROVE RequestInv'
  <2>1. PICK op \in TeamOps \cup SeatOps, a \in Users \cup {None}, u \in Users, give \in Roles \cup {None} :
          /\ Begin(r, op, a, u, give)
          /\ op \in {"role", "transfer"} \cup SeatOps => give \in Roles
          /\ op \in {"role", "remove", "transfer"} => a \in Users \ {u}
    BY <1>1, Begins
  <2>2. PICK as \in Roles \cup {None} :
          /\ req' = [req EXCEPT ![r] = Begun(op, begun', a, u, give, as)]
          /\ Begun(op, begun', a, u, give, as) \in Request
    BY <2>1, BegunRequest
  <2>3. RequestOK(Begun(op, begun', a, u, give, as))
    BY <2>1 DEF RequestOK, Begun, Idle, TeamOps, SeatOps
  <2> QED
    BY <1>d, <2>2, <2>3
<1>2. ASSUME NEW r \in Requests, ReadTarget(r) PROVE RequestInv'
  <2> DEFINE seen == member[req[r].target]
  <2>1. CASE Forbidden(r)
    BY <1>2, <2>1, <1>b DEF ReadTarget
  <2>2. CASE ~Forbidden(r)
    <3>1. seen \in Row
      BY <1>0, <1>2, <2>2 DEF ReadTarget, Forbidden, RequestOK, TypeOK
    <3>2. /\ req[r].op \in {"role", "remove"} /\ seen.role = "OWNER" => req[r].as = "OWNER"
          /\ req[r].op = "deprovision" => seen.role # "OWNER"
      BY <2>2, <3>1 DEF Forbidden, RoleOf
    <3> HIDE DEF seen
    <3> DEFINE q == [req[r] EXCEPT !.pc = "read", !.seen = seen]
    <3>3. q \in Request
      BY <1>0, <3>1 DEF Request
    <3>4. RequestOK(q)
      BY <1>0, <1>2, <3>1, <3>2 DEF ReadTarget, Request, RequestOK
    <3>5. req' = [req EXCEPT ![r] = q]
      BY <1>2, <2>2 DEF ReadTarget, seen
    <3> QED
      BY <1>d, <3>3, <3>4, <3>5
  <2> QED
    BY <2>1, <2>2
<1>3. ASSUME NEW r \in Requests, ClaimInvite(r) \/ LockSeats(r) PROVE RequestInv'
  <2>1. ASSUME NEW pc \in {"claimed", "locked"}, To(r, pc), req[r].op \in SeatOps, req[r].pc # "idle"
        PROVE RequestInv'
    <3> DEFINE q == [req[r] EXCEPT !.pc = pc]
    <3>1. q \in Request /\ RequestOK(q)
      BY <1>0, <2>1 DEF Request, RequestOK
    <3> QED
      BY <1>d, <2>1, <3>1 DEF To
  <2> QED
    BY <1>0, <1>3, <2>1, <1>b DEF ClaimInvite, LockSeats, RequestOK, SeatOps
<1>4. ASSUME NEW r \in Requests, ReadLimit(r) PROVE RequestInv'
  <2> DEFINE pc == IF limit = None THEN "free" ELSE "waiting"
             q == [req[r] EXCEPT !.pc = pc, !.limit = limit]
  <2>1. limit \in Nat \cup {None} /\ pc \in {"free", "waiting"}
    BY DEF TypeOK
  <2>2. req[r].op \in SeatOps /\ req[r].pc # "idle"
    BY <1>4 DEF ReadLimit, SeatOps
  <2>3. req' = [req EXCEPT ![r] = q]
    BY <1>4 DEF ReadLimit
  <2> HIDE DEF pc
  <2>4. q \in Request /\ RequestOK(q)
    BY <1>0, <2>1, <2>2, ZenonT(90) DEF Request, RequestOK
  <2> QED
    BY <1>d, <2>3, <2>4
<1>5. ASSUME NEW r \in Requests, CountSeats(r) PROVE RequestInv'
  <2> DEFINE q == [req[r] EXCEPT !.pc = "counted", !.overtaken = FALSE]
  <2>1. q \in Request /\ RequestOK(q)
    BY <1>0, <1>5, ZenonT(90) DEF CountSeats, Request, RequestOK
  <2>2. Done(r) \/ req' = [req EXCEPT ![r] = q]
    BY <1>5 DEF CountSeats
  <2> HIDE DEF q
  <2> QED
    BY <1>b, <1>d, <2>1, <2>2
<1>6. ASSUME NEW r \in Requests, CreateMembership(r) PROVE RequestInv'
  <2>1. \A q \in Requests : RequestOK([req[q] EXCEPT !.overtaken = TRUE])
    BY <1>0 DEF RequestOK, Request
  <2> QED
    BY <1>6, <1>0, <1>a, <2>1 DEF CreateMembership, RequestInv
<1>7. ASSUME NEW r \in Requests, UpdateMemberRole(r) \/ RemoveMember(r) \/ TransferOwnership(r)
      PROVE  RequestInv'
  BY <1>7, <1>c DEF UpdateMemberRole, RemoveMember, TransferOwnership
<1>8. ASSUME NEW r \in Requests, ChangeFails(r) \/ CreateInvite(r) \/ AlreadyMember(r) PROVE RequestInv'
  BY <1>8, <1>b DEF ChangeFails, CreateInvite, AlreadyMember
<1>9. ASSUME ResolveDeadlock PROVE RequestInv'
  BY <1>9, <1>b DEF ResolveDeadlock
<1>10. ASSUME UNCHANGED req PROVE RequestInv'
  BY <1>10 DEF RequestInv
<1> QED
  BY <1>1, <1>2, <1>3, <1>4, <1>5, <1>6, <1>7, <1>8, <1>9, <1>10
  DEF Next, Proceed, vars, RevokeInvite, ExpireInvite, SetLimit
-----------------------------------------------------------------------------
(* Seats. *)

LEMMA MembersFinite ==
  ASSUME TypeOK
  PROVE  IsFiniteSet(Members) /\ Cardinality(Members) \in Nat
BY FS_Subset, FS_CardinalityType DEF Members

\* A change of roles makes nobody a member.
LEMMA RolesAmongMembers ==
  ASSUME TypeOK, RequestInv, NEW r \in Requests,
         UpdateMemberRole(r) \/ RemoveMember(r) \/ TransferOwnership(r)
  PROVE  Members' \subseteq Members
<1>1. \A u \in Users \ {req[r].target, req[r].actor} : member'[u] = member[u]
  BY DEF UpdateMemberRole, RemoveMember, TransferOwnership, CommitRoles, TypeOK
<1>2. req[r].target \in Members
  BY DEF UpdateMemberRole, RemoveMember, TransferOwnership, RowThere, RequestInv, RequestOK, Members
<1>3. CASE TransferOwnership(r)
  <2>1. req[r].actor \in Members
    BY <1>3 DEF TransferOwnership, Transferable, RowThere, RequestInv, RequestOK, RoleOf, Members, Roles
  <2> QED
    BY <1>1, <1>2, <2>1 DEF Members
<1>4. CASE UpdateMemberRole(r) \/ RemoveMember(r)
  <2>1. \A u \in Users \ {req[r].target} : member'[u] = member[u]
    BY <1>4 DEF UpdateMemberRole, RemoveMember, CommitRoles, TypeOK
  <2> QED
    BY <1>2, <2>1 DEF Members
<1> QED
  BY <1>3, <1>4

\* Most steps move one request to where it holds no seat and add no member.
LEMMA SeatsLeft ==
  ASSUME TypeOK, SeatInv, NEW r \in Requests,
         \A q \in Requests \ {r} : /\ req'[q].pc = req[q].pc /\ req'[q].limit = req[q].limit
                                   /\ req'[q].overtaken = req[q].overtaken,
         req'[r].pc \notin {"waiting", "locked", "counted"},
         Members' \subseteq Members
  PROVE  SeatInv'
<1>1. IsFiniteSet(Members) /\ Cardinality(Members) \in Nat
  BY MembersFinite
<1>2. Cardinality(Members') \in Nat /\ Cardinality(Members') <= Cardinality(Members)
  BY <1>1, FS_Subset, FS_CardinalityType
<1>3. \A q \in Requests : req'[q].pc \in {"waiting", "locked", "counted"} => q # r
  OBVIOUS
<1>4. ASSUME NEW q \in Requests, req'[q].pc = "counted", ~req'[q].overtaken
      PROVE  Cardinality(Members') < req'[q].limit
  BY <1>1, <1>2, <1>4 DEF SeatInv
<1>5. (Cardinality(Members))' = Cardinality(Members')
  OBVIOUS
<1> QED
  BY <1>3, <1>4, <1>5 DEF SeatInv

\* CreateMembership adds one.
LEMMA OneMore ==
  ASSUME TypeOK, RequestInv, NEW r \in Requests, CreateMembership(r)
  PROVE  Cardinality(Members') = Cardinality(Members) + 1
<1> DEFINE u == req[r].target
<1>1. u \in Users \ Members
  BY DEF CreateMembership, MaySettle, RequestInv, RequestOK, Members
<1>2. req[r].no \in Nat /\ req[r].give \in Roles
  BY DEF CreateMembership, MaySettle, RequestInv, RequestOK, TypeOK, Request, SeatOps
<1>3. [id |-> req[r].no, role |-> req[r].give] # None
  BY <1>2 DEF Row
<1>4. Members' = Members \cup {u}
  BY <1>1, <1>3 DEF CreateMembership, Members, TypeOK
<1> QED
  BY <1>1, <1>4, MembersFinite, FS_AddElement

LEMMA SeatStep ==
  ASSUME TypeOK, RequestInv, SeatInv, [Next]_vars
  PROVE  SeatInv'
<1>0. req \in [Requests -> Request]
  BY DEF TypeOK
<1>a. UNCHANGED member => Members' = Members
  BY DEF Members
<1>b. ASSUME NEW r \in Requests, Done(r), UNCHANGED member PROVE SeatInv'
  BY <1>b, <1>0, <1>a, SeatsLeft DEF Done, Idle
<1>1. ASSUME NEW r \in Requests, BeginAny(r) PROVE SeatInv'
  <2>1. PICK op \in TeamOps \cup SeatOps, a \in Users \cup {None}, u \in Users, give \in Roles \cup {None} :
          Begin(r, op, a, u, give)
    BY <1>1, Begins
  <2>2. PICK as \in Roles \cup {None} : req' = [req EXCEPT ![r] = Begun(op, begun', a, u, give, as)]
    BY <2>1, BegunRequest
  <2>3. UNCHANGED member
    BY <2>1 DEF Begin
  <2> QED
    BY <2>2, <2>3, <1>0, <1>a, SeatsLeft DEF Begun, Idle
<1>2. ASSUME NEW r \in Requests, UpdateMemberRole(r) \/ RemoveMember(r) \/ TransferOwnership(r)
      PROVE  SeatInv'
  <2>1. \A q \in Requests : req[q] \in Request
    BY <1>0
  <2>2. /\ \A q \in Requests \ {r} : /\ req'[q].pc = req[q].pc /\ req'[q].limit = req[q].limit
                                     /\ req'[q].overtaken = req[q].overtaken
        /\ req'[r].pc = "idle"
    BY <1>2, <2>1 DEF UpdateMemberRole, RemoveMember, TransferOwnership, CommitRoles, Idle, Request
  <2> QED
    BY <1>2, <2>2, RolesAmongMembers, SeatsLeft
<1>3. ASSUME NEW r \in Requests, ReadTarget(r) PROVE SeatInv'
  BY <1>3, <1>0, <1>a, <1>b, SeatsLeft DEF ReadTarget, Request
<1>4. ASSUME NEW r \in Requests, ClaimInvite(r) PROVE SeatInv'
  BY <1>4, <1>0, <1>a, <1>b, SeatsLeft DEF ClaimInvite, To, Request
<1>5. ASSUME NEW r \in Requests, ReadLimit(r) PROVE SeatInv'
  <2>1. limit \in Nat \cup {None}
    BY DEF TypeOK
  <2> QED
    BY <1>5, <2>1, <1>0, <1>a DEF ReadLimit, SeatInv, Request
<1>6. ASSUME NEW r \in Requests, LockSeats(r) PROVE SeatInv'
  BY <1>6, <1>0, <1>a DEF LockSeats, SeatLockFree, To, SeatInv, Request
<1>7. ASSUME NEW r \in Requests, CountSeats(r) PROVE SeatInv'
  <2>1. CASE Taken(r) >= req[r].limit
    BY <1>7, <2>1, <1>b DEF CountSeats
  <2>2. CASE ~(Taken(r) >= req[r].limit)
    <3>1. Cardinality(Members) \in Nat /\ Cardinality(Members) <= Taken(r)
      <4> DEFINE pending == {u \in Users \ {req[r].target} : invite[u].status = "pending"}
      <4>1. Cardinality(pending) \in Nat
        BY FS_Subset, FS_CardinalityType
      <4> QED
        BY <4>1, MembersFinite DEF Taken
    <3>2. Taken(r) \in Int /\ req[r].limit \in Nat
      <4> DEFINE pending == {u \in Users \ {req[r].target} : invite[u].status = "pending"}
      <4>1. Cardinality(pending) \in Nat
        BY FS_Subset, FS_CardinalityType
      <4> QED
        BY <4>1, <1>7, MembersFinite DEF Taken, CountSeats, SeatInv
    <3>3. Cardinality(Members) < req[r].limit
      BY <2>2, <3>1, <3>2
    <3>4. /\ req' = [req EXCEPT ![r].pc = "counted", ![r].overtaken = FALSE]
          /\ Members' = Members
      BY <1>7, <2>2, <1>a DEF CountSeats
    <3>5. req[r].pc = "locked"
      BY <1>7 DEF CountSeats
    <3> QED
      BY <3>2, <3>3, <3>4, <3>5, <1>0 DEF SeatInv, Request
  <2> QED
    BY <2>1, <2>2
<1>8. ASSUME NEW r \in Requests, CreateMembership(r) PROVE SeatInv'
  <2>1. \A q \in Requests : req[q] \in Request
    BY <1>0
  <2>2. /\ req'[r].pc = "idle"
        /\ \A q \in Requests \ {r} : /\ req'[q].pc = req[q].pc /\ req'[q].limit = req[q].limit
                                     /\ req[q].pc = "counted" /\ req[r].pc = "free" => req'[q].overtaken
    BY <1>8, <2>1 DEF CreateMembership, Idle, Request
  <2>3. req[r].pc \in {"counted", "free"}
    BY <1>8 DEF CreateMembership, MaySettle
  <2> QED
    BY <2>2, <2>3 DEF SeatInv
<1>9. ASSUME NEW r \in Requests, ChangeFails(r) \/ CreateInvite(r) \/ AlreadyMember(r) PROVE SeatInv'
  BY <1>9, <1>b DEF ChangeFails, CreateInvite, AlreadyMember
<1>10. ASSUME ResolveDeadlock PROVE SeatInv'
  BY <1>10, <1>b DEF ResolveDeadlock
<1>11. ASSUME UNCHANGED <<member, req>> PROVE SeatInv'
  BY <1>11, <1>a DEF SeatInv
<1> QED
  BY <1>1, <1>2, <1>3, <1>4, <1>5, <1>6, <1>7, <1>8, <1>9, <1>10, <1>11
  DEF Next, Proceed, vars, RevokeInvite, ExpireInvite, SetLimit

\* A join that counted a seat takes one below the limit it read.
LEMMA SeatThere ==
  ASSUME TypeOK, RequestInv, SeatInv, [Next]_vars
  PROVE  \A r \in Requests : SeatTaken(r) => Cardinality(Members') <= req[r].limit
<1> SUFFICES ASSUME NEW r \in Requests, SeatTaken(r)
             PROVE  Cardinality(Members') <= req[r].limit
  OBVIOUS
<1>0. /\ \A q \in Requests : req[q] \in Request
      /\ req[r].pc = "counted" /\ req'[r].pc = "idle" /\ req[r].target \in Users
  BY DEF TypeOK, SeatTaken, RequestInv, RequestOK
<1>1. ASSUME NEW q \in Requests, CreateMembership(q) PROVE q = r
  BY <1>0, <1>1 DEF CreateMembership, Request
<1>2. ASSUME NEW q \in Requests, UpdateMemberRole(q) \/ RemoveMember(q) \/ TransferOwnership(q) PROVE FALSE
  <2>1. req[r].target \notin Members /\ req[r].target \in Members'
    BY <1>0 DEF SeatTaken, Members
  <2> QED
    BY <1>2, <2>1, RolesAmongMembers
<1>3. ~UNCHANGED member
  BY DEF SeatTaken
<1>4. CreateMembership(r)
  <2>1. ASSUME NEW q \in Requests, BeginAny(q) PROVE UNCHANGED member
    BY <2>1, Begins DEF Begin
  <2> QED
    BY <1>1, <1>2, <1>3, <2>1 DEF Next, Proceed, vars, ReadTarget, ChangeFails, ClaimInvite, ReadLimit,
       LockSeats, CountSeats, CreateInvite, AlreadyMember, ResolveDeadlock, RevokeInvite, ExpireInvite, SetLimit
<1>5. Cardinality(Members) < req[r].limit /\ req[r].limit \in Nat
  BY <1>0 DEF SeatTaken, SeatInv
<1> QED
  BY <1>4, <1>5, OneMore, MembersFinite
-----------------------------------------------------------------------------
(* Invites. *)

\* Most steps leave the invites alone and let no request hold one it did not hold.
LEMMA InvitesLeft ==
  ASSUME TypeOK, InviteInv, UNCHANGED <<invite, sent, joined, withdrawn>>,
         \A q \in Requests, u \in Users : Holds(q, u)' => Holds(q, u)
  PROVE  InviteInv'
<1>1. \A u \in Users : Usable(u)' => Usable(u)
  BY DEF Usable, InviteFree
<1>2. \A u \in Users : sent[u] \in Nat /\ joined[u] \in Nat /\ withdrawn[u] \in Nat
  BY DEF TypeOK
<1> QED
  BY <1>1, <1>2 DEF InviteInv

LEMMA InviteStep ==
  ASSUME TypeOK, RequestInv, InviteInv, [Next]_vars
  PROVE  InviteInv'
<1>0. /\ req \in [Requests -> Request]
      /\ \A q \in Requests : req[q] \in Request
      /\ \A u \in Users : sent[u] \in Nat /\ joined[u] \in Nat /\ withdrawn[u] \in Nat
      /\ sent \in [Users -> Nat] /\ joined \in [Users -> Nat] /\ withdrawn \in [Users -> Nat]
      /\ invite \in [Users -> [status: {"none", "pending", "accepted", "expired"}, role: Roles]]
  BY DEF TypeOK
<1>a. ASSUME NEW r \in Requests, Done(r)
      PROVE  \A q \in Requests, u \in Users : Holds(q, u)' <=> q # r /\ Holds(q, u)
  BY <1>a, <1>0 DEF Done, Idle, Holds
<1>b. ASSUME NEW r \in Requests, Done(r), UNCHANGED <<invite, sent, joined, withdrawn>> PROVE InviteInv'
  BY <1>a, <1>b, InvitesLeft
<1>1. ASSUME NEW r \in Requests, BeginAny(r) PROVE InviteInv'
  <2>1. PICK op \in TeamOps \cup SeatOps, a \in Users \cup {None}, u \in Users, give \in Roles \cup {None} :
          Begin(r, op, a, u, give)
    BY <1>1, Begins
  <2>2. PICK as \in Roles \cup {None} : req' = [req EXCEPT ![r] = Begun(op, begun', a, u, give, as)]
    BY <2>1, BegunRequest
  <2>3. UNCHANGED <<invite, sent, joined, withdrawn>>
    BY <2>1 DEF Begin, ghosts
  <2>4. \A q \in Requests, v \in Users : Holds(q, v)' => Holds(q, v)
    BY <2>2, <1>0 DEF Begun, Idle, Holds
  <2> QED
    BY <2>3, <2>4, InvitesLeft
<1>2. ASSUME NEW r \in Requests, UpdateMemberRole(r) \/ RemoveMember(r) \/ TransferOwnership(r)
      PROVE  InviteInv'
  <2>1. \A q \in Requests, u \in Users : Holds(q, u)' => Holds(q, u)
    BY <1>2, <1>0 DEF UpdateMemberRole, RemoveMember, TransferOwnership, CommitRoles, Idle, Request, Holds
  <2> QED
    BY <1>2, <2>1, InvitesLeft DEF UpdateMemberRole, RemoveMember, TransferOwnership, CommitRoles, ghosts
<1>3. ASSUME NEW r \in Requests, ReadTarget(r) PROVE InviteInv'
  <2>1. \A q \in Requests, u \in Users : Holds(q, u)' => Holds(q, u)
    BY <1>3, <1>0, <1>a DEF ReadTarget, Request, Holds
  <2> QED
    BY <1>3, <2>1, InvitesLeft DEF ReadTarget, ghosts
<1>4. ASSUME NEW r \in Requests, ReadLimit(r) \/ LockSeats(r) PROVE InviteInv'
  <2>1. \A q \in Requests, u \in Users : Holds(q, u)' => Holds(q, u)
    BY <1>4, <1>0 DEF ReadLimit, LockSeats, To, Request, Holds
  <2> QED
    BY <1>4, <2>1, InvitesLeft DEF ReadLimit, LockSeats, ghosts
<1>5. ASSUME NEW r \in Requests, CountSeats(r) PROVE InviteInv'
  <2>1. \A q \in Requests, u \in Users : Holds(q, u)' => Holds(q, u)
    BY <1>5, <1>0, <1>a DEF CountSeats, Request, Holds
  <2> QED
    BY <1>5, <2>1, InvitesLeft DEF CountSeats, ghosts
<1>6. ASSUME NEW r \in Requests, ClaimInvite(r) PROVE InviteInv'
  <2> DEFINE u == req[r].target
  <2>0. UNCHANGED <<invite, sent, joined, withdrawn>> /\ InviteFree(u)
    BY <1>6 DEF ClaimInvite, ghosts
  <2>1. CASE Done(r)
    BY <2>0, <2>1, <1>b
  <2>2. CASE ~Done(r)
    <3>1. invite[u].status = "pending" /\ To(r, "claimed")
      BY <1>6, <2>2 DEF ClaimInvite
    <3>2. \A q \in Requests, v \in Users : Holds(q, v)' => Holds(q, v) \/ (q = r /\ v = u)
      BY <3>1, <1>0 DEF To, Request, Holds
    <3>3. \A v \in Users : Usable(v)' => Usable(v)
      BY <2>0, <3>1, <3>2 DEF Usable, InviteFree
    <3>4. \A q \in Requests : ~Holds(q, u)
      BY <2>0 DEF InviteFree
    <3> QED
      BY <2>0, <3>2, <3>3, <3>4, <1>0 DEF InviteInv
  <2> QED
    BY <2>1, <2>2
<1>7. ASSUME NEW r \in Requests, CreateInvite(r) PROVE InviteInv'
  <2> DEFINE u == req[r].target
  <2>1. /\ u \in Users /\ InviteFree(u)
        /\ \A q \in Requests, v \in Users : Holds(q, v)' => Holds(q, v)
    BY <1>7, <1>a DEF CreateInvite, MaySettle, RequestInv, RequestOK
  <2>2. /\ joined' = joined /\ withdrawn' = withdrawn
        /\ sent' = [sent EXCEPT ![u] = IF invite[u].status = "pending" THEN @ ELSE @ + 1]
        /\ \A v \in Users \ {u} : invite'[v] = invite[v]
    BY <1>7, <1>0 DEF CreateInvite
  <2>3. Usable(u) <=> invite[u].status = "pending"
    BY <2>1 DEF Usable
  <2>4. \A v \in Users \ {u} : Usable(v)' => Usable(v)
    BY <2>1, <2>2 DEF Usable, InviteFree
  <2> QED
    BY <2>1, <2>2, <2>3, <2>4, <1>0 DEF InviteInv
<1>8. ASSUME NEW r \in Requests, CreateMembership(r) PROVE InviteInv'
  <2>1. \A q \in Requests, v \in Users : Holds(q, v)' <=> q # r /\ Holds(q, v)
    BY <1>8, <1>0 DEF CreateMembership, Idle, Request, Holds
  <2>2. CASE req[r].op = "accept"
    <3>1. PICK u \in Users : u = req[r].target /\ Holds(r, u)
      BY <1>8, <2>2 DEF CreateMembership, MaySettle, RequestInv, RequestOK, Holds
    <3>2. /\ sent' = sent /\ withdrawn' = withdrawn
          /\ joined' = [joined EXCEPT ![u] = @ + 1]
          /\ \A v \in Users \ {u} : invite'[v] = invite[v]
          /\ invite'[u].status = "accepted"
      BY <1>8, <2>2, <3>1, <1>0 DEF CreateMembership
    <3>3. Usable(u) /\ ~Usable(u)'
      <4>1. \A q \in Requests : ~Holds(q, u)'
        BY <2>1, <3>1 DEF InviteInv
      <4> QED
        BY <3>1, <3>2, <4>1 DEF Usable, InviteFree
    <3>4. \A v \in Users \ {u} : Usable(v)' => Usable(v)
      BY <2>1, <3>2 DEF Usable, InviteFree
    <3>5. joined'[u] = joined[u] + 1 /\ \A v \in Users \ {u} : joined'[v] = joined[v]
      BY <3>1, <3>2, <1>0
    <3>6. joined'[u] + withdrawn'[u] <= sent'[u]
      BY <3>1, <3>2, <3>3, <3>5, <1>0 DEF InviteInv
    <3>7. ASSUME NEW v \in Users \ {u}
          PROVE  joined'[v] + withdrawn'[v] + (IF Usable(v)' THEN 1 ELSE 0) <= sent'[v]
      BY <3>2, <3>4, <3>5, <1>0 DEF InviteInv
    <3> QED
      BY <2>1, <3>3, <3>6, <3>7, <1>0, <3>1, <3>2, <3>5 DEF InviteInv
  <2>3. CASE req[r].op # "accept"
    BY <1>8, <2>1, <2>3, InvitesLeft DEF CreateMembership
  <2> QED
    BY <2>2, <2>3
<1>9. ASSUME NEW r \in Requests, ChangeFails(r) \/ AlreadyMember(r) PROVE InviteInv'
  BY <1>9, <1>b DEF ChangeFails, AlreadyMember, ghosts
<1>10. ASSUME ResolveDeadlock PROVE InviteInv'
  BY <1>10, <1>b DEF ResolveDeadlock, ghosts
<1>11. ASSUME NEW u \in Users, RevokeInvite(u) \/ ExpireInvite(u) PROVE InviteInv'
  <2>1. \A q \in Requests, v \in Users : Holds(q, v)' <=> Holds(q, v)
    BY <1>11 DEF RevokeInvite, ExpireInvite, Holds
  <2>2. /\ sent' = sent /\ joined' = joined
        /\ \A v \in Users \ {u} : invite'[v] = invite[v] /\ withdrawn'[v] = withdrawn[v]
        /\ invite'[u].status # "pending"
    BY <1>11, <1>0 DEF RevokeInvite, ExpireInvite
  <2>3. withdrawn'[u] = withdrawn[u] + (IF Usable(u) /\ ~Usable(u)' THEN 1 ELSE 0)
    BY <1>11, <2>1, <2>2, <1>0 DEF RevokeInvite, ExpireInvite, Usable, InviteFree
  <2>4. Usable(u)' => Usable(u)
    BY <2>1, <2>2 DEF Usable, InviteFree
  <2>5. \A v \in Users \ {u} : Usable(v)' <=> Usable(v)
    BY <2>1, <2>2 DEF Usable, InviteFree
  <2> QED
    BY <2>1, <2>2, <2>3, <2>4, <2>5, <1>0 DEF InviteInv
<1>12. ASSUME UNCHANGED <<req, invite, sent, joined, withdrawn>> PROVE InviteInv'
  BY <1>12, InvitesLeft DEF Holds
<1> QED
  BY <1>1, <1>2, <1>3, <1>4, <1>5, <1>6, <1>7, <1>8, <1>9, <1>10, <1>11, <1>12
  DEF Next, Proceed, vars, SetLimit, ghosts
-----------------------------------------------------------------------------
(* Owners. *)

\* Most steps leave every member's row as it was and let no request begin or read.
LEMMA RolesLeft ==
  ASSUME TypeOK, RequestInv, RoleInv,
         \A u \in Members : member'[u] = member[u],
         \A q \in Requests : req'[q].pc \in {"begun", "read"} =>
           req'[q] = req[q] \/ \E b \in BOOLEAN : req'[q] = [req[q] EXCEPT !.overtaken = b]
  PROVE  RoleInv'
<1> SUFFICES ASSUME NEW q \in Requests, req'[q].pc \in {"begun", "read"}, ~req'[q].stale
             PROVE  RoleOK(req[q])'
  BY DEF RoleInv, RoleOK
<1>0. req[q] \in Request /\ RequestOK(req[q]) /\ RoleOK(req[q])
  BY DEF TypeOK, RequestInv, RoleInv
<1>1. /\ req'[q].pc = req[q].pc /\ req'[q].stale = req[q].stale /\ req'[q].op = req[q].op
      /\ req'[q].as = req[q].as /\ req'[q].actor = req[q].actor /\ req'[q].target = req[q].target
      /\ req'[q].seen = req[q].seen
  BY <1>0 DEF Request
<1>2. \A u \in Users : RoleOf(u) = "OWNER" => RoleOf(u)' = "OWNER"
  BY DEF RoleOf, Members, Roles
<1>3. Owners \subseteq Owners'
  BY <1>2 DEF Owners
<1>4. req[q].op = "delete" => Owners' \ {req[q].target} # {}
  BY <1>0, <1>1, <1>3 DEF RoleOK
<1>5. req[q].pc = "read" => member'[req[q].target] = req[q].seen
  BY <1>0, <1>1 DEF RoleOK, RequestOK, Members
<1>6. req[q].op \in {"role", "remove", "transfer"} /\ req[q].as = "OWNER" => RoleOf(req[q].actor)' = "OWNER"
  BY <1>0, <1>1, <1>2 DEF RoleOK, RequestOK
<1> QED
  BY <1>1, <1>4, <1>5, <1>6 DEF RoleOK

LEMMA RoleStep ==
  ASSUME TypeOK, RequestInv, RoleInv, [Next]_vars
  PROVE  RoleInv'
<1>0. /\ req \in [Requests -> Request]
      /\ \A q \in Requests : req[q] \in Request
  BY DEF TypeOK
<1>b. ASSUME NEW r \in Requests, Done(r), UNCHANGED member PROVE RoleInv'
  <2>1. \A q \in Requests : req'[q].pc \in {"begun", "read"} => req'[q] = req[q]
    BY <1>b, <1>0 DEF Done, Idle
  <2> QED
    BY <1>b, <2>1, RolesLeft
<1>1. ASSUME NEW r \in Requests, BeginAny(r) PROVE RoleInv'
  <2>1. PICK op \in TeamOps \cup SeatOps, a \in Users \cup {None}, u \in Users, give \in Roles \cup {None} :
          /\ Begin(r, op, a, u, give)
          /\ op \in {"role", "remove", "transfer"} => a \in Users \ {u}
          /\ op = "delete" => Owners \ {u} # {}
    BY <1>1, Begins
  <2>2. PICK as \in Roles \cup {None} : /\ a # None => as = RoleOf(a)
                                        /\ req' = [req EXCEPT ![r] = Begun(op, begun', a, u, give, as)]
    BY <2>1, BegunRequest
  <2>3. UNCHANGED member
    BY <2>1 DEF Begin
  <2>4. \A v \in Users : RoleOf(v)' = RoleOf(v)
    BY <2>3 DEF RoleOf
  <2>5. Owners' = Owners
    BY <2>4 DEF Owners
  <2>6. /\ req'[r].op = op /\ req'[r].target = u /\ req'[r].actor = a /\ req'[r].as = as /\ req'[r].pc = "begun"
    BY <2>2, <1>0 DEF Begun, Idle
  <2>7. \A q \in Requests \ {r} : req'[q] = req[q]
    BY <2>2, <1>0
  <2>8. ASSUME NEW q \in Requests \ {r}, req[q].pc \in {"begun", "read"},
               req[q].op \in {"role", "remove", "transfer"}
        PROVE  req[q].actor \in Users
    BY <2>8 DEF RequestInv, RequestOK
  <2>9. op \in {"role", "remove", "transfer"} => a # None
    BY <2>1
  <2>10. RoleOK(req[r])'
    BY <2>1, <2>2, <2>4, <2>5, <2>6, <2>9 DEF RoleOK
  <2>11. ASSUME NEW q \in Requests \ {r} PROVE RoleOK(req[q])'
    BY <2>3, <2>4, <2>5, <2>7, <2>8, <2>11 DEF RoleInv, RoleOK
  <2> QED
    BY <2>10, <2>11 DEF RoleInv
<1>2. ASSUME NEW r \in Requests, ReadTarget(r) PROVE RoleInv'
  <2>1. CASE Forbidden(r)
    BY <1>2, <2>1, <1>b DEF ReadTarget
  <2>2. CASE ~Forbidden(r)
    <3>1. /\ UNCHANGED member /\ req[r].pc = "begun"
          /\ req' = [req EXCEPT ![r].pc = "read", ![r].seen = member[req[r].target]]
      BY <1>2, <2>2 DEF ReadTarget
    <3>2. \A v : RoleOf(v)' = RoleOf(v)
      BY <3>1 DEF RoleOf
    <3>3. Owners' = Owners
      BY <3>2 DEF Owners
    <3>4. /\ req'[r].op = req[r].op /\ req'[r].target = req[r].target /\ req'[r].actor = req[r].actor
          /\ req'[r].as = req[r].as /\ req'[r].stale = req[r].stale
          /\ req'[r].seen = member[req[r].target]
      BY <3>1, <1>0 DEF Request
    <3>5. \A q \in Requests \ {r} : req'[q] = req[q]
      BY <3>1, <1>0
    <3>6. ASSUME NEW q \in Requests \ {r} PROVE RoleOK(req[q])'
      BY <3>1, <3>2, <3>3, <3>5 DEF RoleInv, RoleOK
    <3>7. RoleOK(req[r])'
      BY <3>1, <3>2, <3>3, <3>4 DEF RoleInv, RoleOK
    <3> QED
      BY <3>6, <3>7 DEF RoleInv
  <2> QED
    BY <2>1, <2>2
<1>3. ASSUME NEW r \in Requests, UpdateMemberRole(r) \/ RemoveMember(r) \/ TransferOwnership(r)
      PROVE  RoleInv'
  <2>1. \A q \in Requests : req'[q].pc = "idle" \/ req'[q].stale
    BY <1>3, <1>0 DEF UpdateMemberRole, RemoveMember, TransferOwnership, CommitRoles, Idle, Request
  <2> QED
    BY <2>1 DEF RoleInv, RoleOK
<1>4. ASSUME NEW r \in Requests, ClaimInvite(r) \/ ReadLimit(r) \/ LockSeats(r) \/ CountSeats(r) PROVE RoleInv'
  <2>1. UNCHANGED member
    BY <1>4 DEF ClaimInvite, ReadLimit, LockSeats, CountSeats
  <2>2. CASE Done(r)
    BY <2>1, <2>2, <1>b
  <2>3. CASE ~Done(r)
    <3>1. \A q \in Requests \ {r} : req'[q] = req[q]
      BY <1>4, <2>3, <1>0 DEF ClaimInvite, ReadLimit, LockSeats, CountSeats, To
    <3>2. req'[r].pc \notin {"begun", "read"}
      BY <1>4, <2>3, <1>0 DEF ClaimInvite, ReadLimit, LockSeats, CountSeats, To, Request
    <3> QED
      BY <2>1, <3>1, <3>2, RolesLeft
  <2> QED
    BY <2>2, <2>3
<1>5. ASSUME NEW r \in Requests, CreateMembership(r) PROVE RoleInv'
  <2>1. \A u \in Members : member'[u] = member[u]
    BY <1>5 DEF CreateMembership, Members, TypeOK
  <2>2. \A q \in Requests : req'[q].pc \in {"begun", "read"} =>
           req'[q] = req[q] \/ req'[q] = [req[q] EXCEPT !.overtaken = TRUE]
    BY <1>5, <1>0 DEF CreateMembership, Idle
  <2> QED
    BY <2>1, <2>2, RolesLeft
<1>6. ASSUME NEW r \in Requests, ChangeFails(r) \/ CreateInvite(r) \/ AlreadyMember(r) PROVE RoleInv'
  BY <1>6, <1>b DEF ChangeFails, CreateInvite, AlreadyMember
<1>7. ASSUME ResolveDeadlock PROVE RoleInv'
  BY <1>7, <1>b DEF ResolveDeadlock
<1>8. ASSUME UNCHANGED <<req, member>> PROVE RoleInv'
  BY <1>8, RolesLeft
<1> QED
  BY <1>1, <1>2, <1>3, <1>4, <1>5, <1>6, <1>7, <1>8
  DEF Next, Proceed, vars, RevokeInvite, ExpireInvite, SetLimit

\* The owners only vanish when a request that is no transfer commits what it decided on
\* roles that have changed since.
LEMMA OwnerStep ==
  ASSUME TypeOK, RequestInv, RoleInv, [Next]_vars, Owners # {}, Owners' = {}
  PROVE  \E r \in Requests : req[r].op # "transfer" /\ req[r].stale /\ req'[r].pc = "idle"
<1>0. /\ req \in [Requests -> Request]
      /\ \A q \in Requests : req[q] \in Request
  BY DEF TypeOK
<1>1. ASSUME \A u \in Members : member'[u] = member[u] PROVE FALSE
  BY <1>1 DEF Owners, RoleOf, Members, Roles
<1>2. ASSUME NEW r \in Requests, BeginAny(r) PROVE FALSE
  BY <1>1, <1>2, Begins DEF Begin
<1>3. ASSUME NEW r \in Requests, CreateMembership(r) PROVE FALSE
  BY <1>1, <1>3 DEF CreateMembership, Members, TypeOK
<1>4. PICK r \in Requests : UpdateMemberRole(r) \/ RemoveMember(r) \/ TransferOwnership(r)
  BY <1>1, <1>2, <1>3 DEF Next, Proceed, vars, ReadTarget, ChangeFails, ClaimInvite, ReadLimit, LockSeats,
     CountSeats, CreateInvite, AlreadyMember, ResolveDeadlock, RevokeInvite, ExpireInvite, SetLimit
<1>5. /\ req'[r].pc = "idle" /\ req[r].pc = "read" /\ req[r].target \in Users
      /\ RequestOK(req[r]) /\ RoleOK(req[r])
      /\ req[r].op \in {"role", "remove", "transfer"} => req[r].actor \in Users \ {req[r].target}
  BY <1>4, <1>0 DEF UpdateMemberRole, RemoveMember, TransferOwnership, RowThere, CommitRoles, Idle,
     RequestInv, RequestOK, RoleInv
<1>6. ASSUME NEW u \in Users, member'[u] = member[u], RoleOf(u) = "OWNER" PROVE FALSE
  BY <1>6 DEF Owners, RoleOf
<1>7. CASE TransferOwnership(r)
  <2>1. PICK u \in Users : u = req[r].target
    BY <1>5
  <2>2. member[u] \in Row /\ req[r].actor # u
    BY <1>5, <1>7, <2>1 DEF TransferOwnership, RowThere, TypeOK
  <2>3. member'[u] = [member[u] EXCEPT !.role = "OWNER"]
    BY <1>5, <1>7, <2>1, <2>2 DEF TransferOwnership, CommitRoles, TypeOK
  <2>4. member'[u].role = "OWNER" /\ member'[u] \in Row
    BY <2>2, <2>3 DEF Row, Roles
  <2> QED
    BY <2>4 DEF Owners, RoleOf
<1>8. CASE UpdateMemberRole(r) \/ RemoveMember(r)
  <2>1. \A u \in Users \ {req[r].target} : member'[u] = member[u]
    BY <1>8 DEF UpdateMemberRole, RemoveMember, CommitRoles, TypeOK
  <2>2. Owners = {req[r].target}
    BY <1>6, <2>1 DEF Owners
  <2>3. SUFFICES ASSUME ~req[r].stale PROVE FALSE
    BY <1>5, <1>8 DEF UpdateMemberRole, RemoveMember
  <2>4. req[r].seen.role = "OWNER"
    BY <1>5, <2>2, <2>3 DEF RoleOK, Owners, RoleOf, Roles
  <2>5. req[r].op \in {"role", "remove", "delete"}
    BY <1>5, <1>8, <2>4 DEF UpdateMemberRole, RemoveMember, RequestOK
  <2>6. CASE req[r].op = "delete"
    BY <1>5, <2>2, <2>3, <2>6 DEF RoleOK
  <2>7. CASE req[r].op \in {"role", "remove"}
    BY <1>5, <2>2, <2>3, <2>4, <2>7 DEF RoleOK, RequestOK, Owners
  <2> QED
    BY <2>5, <2>6, <2>7
<1> QED
  BY <1>4, <1>7, <1>8
-----------------------------------------------------------------------------
(* Memberships: the theorems. *)

LEMMA InitInv == Init => IndInv
<1> SUFFICES ASSUME Init PROVE IndInv
  OBVIOUS
<1>1. TypeOK
  BY IdleRequest DEF Init, TypeOK, Row, Roles
<1>2. RequestInv /\ RoleInv
  BY DEF Init, Idle, RequestInv, RequestOK, RoleInv, RoleOK
<1>3. SeatInv
  BY DEF Init, Idle, SeatInv
<1>4. InviteInv
  BY DEF Init, Idle, InviteInv, Usable, InviteFree, Holds
<1> QED
  BY <1>1, <1>2, <1>3, <1>4 DEF IndInv

\* The inductive invariant holds of every behaviour.
THEOREM Invariance == Spec => []IndInv
<1>1. IndInv /\ [Next]_vars => IndInv'
  BY TypeStep, RequestStep, SeatStep, InviteStep, RoleStep DEF IndInv
<1> QED
  BY InitInv, <1>1, PTL DEF Spec

\* Every membership, invite and request stays of its type.
THEOREM TypeCorrect == Spec => []TypeOK
<1>1. IndInv => TypeOK
  BY DEF IndInv
<1> QED
  BY Invariance, <1>1, PTL

\* Each invite sent brings one person in at most, and none once it was revoked or has
\* expired, however many requests race on it.
THEOREM InvitesOnce == Spec => []InviteOnce
<1>1. IndInv => InviteOnce
  <2> SUFFICES ASSUME IndInv, NEW u \in Users PROVE joined[u] + withdrawn[u] <= sent[u]
    BY DEF InviteOnce
  <2>1. sent[u] \in Nat /\ joined[u] \in Nat /\ withdrawn[u] \in Nat
    BY DEF IndInv, TypeOK
  <2> QED
    BY <2>1 DEF IndInv, InviteInv
<1> QED
  BY Invariance, <1>1, PTL

\* A join that counted under the seat lock never brings the members above the limit it read.
THEOREM SeatsNotOversold == Spec => NoOversell
<1>1. IndInv /\ [Next]_vars =>
        [\A r \in Requests : SeatTaken(r) => Cardinality(Members') <= req[r].limit]_vars
  BY SeatThere DEF IndInv
<1> QED
  BY Invariance, <1>1, PTL DEF Spec, NoOversell

\* The last owner only goes when requests overlap, and never by a transfer.
THEOREM OwnerStays == Spec => OwnerKept
<1>1. IndInv /\ [Next]_vars =>
        [Owners # {} /\ Owners' = {} =>
           \E r \in Requests : req[r].op # "transfer" /\ req[r].stale /\ req'[r].pc = "idle"]_vars
  BY OwnerStep DEF IndInv
<1> QED
  BY Invariance, <1>1, PTL DEF Spec, OwnerKept
-----------------------------------------------------------------------------
(* The first n members of a finite set of numbers: what a pass reads. *)

HIDE ConstantsAssumption

LEMMA LeastMember ==
  ASSUME NEW S \in SUBSET Nat, S # {}
  PROVE  \E m \in S : \A k \in S : m <= k
<1> DEFINE R == {ss \in Nat \X Nat : ss[1] < ss[2]}
<1>1. IsWellFoundedOn(R, Nat)
  BY NatLessThanWellFounded DEF OpToRel
<1>2. PICK m \in S : \A k \in S : <<k, m>> \notin R
  <2> HIDE DEF R
  <2> QED
    BY <1>1, WFMin
<1>3. ASSUME NEW k \in S PROVE m <= k
  <2>1. k \in Nat /\ m \in Nat /\ <<k, m>> \notin R
    BY <1>2
  <2>2. k < m => <<k, m>> \in R
    BY <2>1
  <2> QED
    BY <2>1, <2>2
<1> QED
  BY <1>3

\* The highest is the least that bounds them all.
LEMMA HighestMember ==
  ASSUME NEW N \in Nat, NEW S \in SUBSET (1..N), S # {}
  PROVE  \E m \in S : \A k \in S : k <= m
<1> DEFINE B == {b \in Nat : \A k \in S : k <= b}
<1>1. N \in B
  OBVIOUS
<1>2. PICK m \in B : \A b \in B : m <= b
  <2> HIDE DEF B
  <2>1. B \in SUBSET Nat
    BY DEF B
  <2> QED
    BY <1>1, <2>1, LeastMember
<1>3. m \in S
  <2> SUFFICES ASSUME m \notin S PROVE FALSE
    OBVIOUS
  <2>1. \A k \in S : k <= m - 1
    BY <1>2
  <2>2. m - 1 \in Nat
    <3>1. PICK k \in S : TRUE
      OBVIOUS
    <3>2. k \in 1..N /\ m \in Nat
      BY <1>2
    <3> QED
      BY <2>1, <3>2
  <2>3. m - 1 \in B
    BY <2>1, <2>2
  <2> QED
    BY <1>2, <2>3
<1> QED
  BY <1>2, <1>3

Rank(S, i) == Cardinality({j \in S : j < i})
First(S, n) == {i \in S : Rank(S, i) < n}

LEMMA Ranks ==
  ASSUME NEW N \in Nat, NEW S \in SUBSET (1..N)
  PROVE  /\ IsFiniteSet(S)
         /\ \A i \in S : Rank(S, i) \in Nat
         /\ \A i, j \in S : i <= j => Rank(S, i) <= Rank(S, j)
<1>1. IsFiniteSet(S)
  <2>1. IsFiniteSet(1..N)
    BY FS_Interval
  <2> QED
    BY <2>1, FS_Subset
<1>2. ASSUME NEW i \in S
      PROVE  IsFiniteSet({j \in S : j < i}) /\ Rank(S, i) \in Nat
  BY <1>1, FS_Subset, FS_CardinalityType DEF Rank
<1>3. ASSUME NEW i \in S, NEW j \in S, i <= j
      PROVE  Rank(S, i) <= Rank(S, j)
  <2>1. {k \in S : k < i} \in SUBSET {k \in S : k < j}
    <3> SUFFICES ASSUME NEW k \in S, k < i PROVE k < j
      OBVIOUS
    <3>1. k \in Nat /\ i \in Nat /\ j \in Nat
      OBVIOUS
    <3> QED
      BY <3>1, <1>3
  <2> QED
    BY <1>2, <2>1, FS_Subset DEF Rank
<1> QED
  BY <1>1, <1>2, <1>3

\* Fewer than n are all of them.
LEMMA FirstOfFew ==
  ASSUME NEW N \in Nat, NEW S \in SUBSET (1..N), NEW n \in Nat \ {0}, Cardinality(First(S, n)) # n
  PROVE  First(S, n) = S
<1> SUFFICES ASSUME S \ First(S, n) # {} PROVE FALSE
  BY DEF First
<1>0. S \in SUBSET Nat /\ First(S, n) \in SUBSET (1..N) /\ IsFiniteSet(First(S, n))
  <2>1. First(S, n) \in SUBSET S
    BY DEF First
  <2> QED
    <3>1. IsFiniteSet(S)
      BY Ranks
    <3>2. IsFiniteSet(First(S, n))
      BY <2>1, <3>1, FS_Subset
    <3>3. S \in SUBSET Nat
      OBVIOUS
    <3>4. First(S, n) \in SUBSET (1..N)
      BY <2>1
    <3> QED
      BY <3>2, <3>3, <3>4
<1>1. PICK i \in S \ First(S, n) : \A k \in S \ First(S, n) : i <= k
  <2>1. S \ First(S, n) \in SUBSET Nat
    BY <1>0
  <2> QED
    BY <2>1, LeastMember
<1>2. Rank(S, i) \in Nat /\ Rank(S, i) >= n
  <2>1. i \in S /\ ~(Rank(S, i) < n)
    BY <1>1 DEF First
  <2>2. Rank(S, i) \in Nat
    BY <2>1, Ranks
  <2> QED
    BY <2>1, <2>2
<1>3. First(S, n) = {j \in S : j < i}
  <2>1. ASSUME NEW j \in First(S, n) PROVE j \in S /\ j < i
    <3>1. j \in S /\ Rank(S, j) < n /\ Rank(S, j) \in Nat
      BY Ranks DEF First
    <3>2. i <= j => Rank(S, i) <= Rank(S, j)
      BY <3>1, Ranks
    <3> QED
      BY <3>1, <3>2, <1>0, <1>2
  <2>2. ASSUME NEW j \in S, j < i PROVE j \in First(S, n)
    BY <2>2, <1>0, <1>1
  <2> QED
    BY <2>1, <2>2
<1>4. Cardinality(First(S, n)) = Rank(S, i)
  BY <1>3 DEF Rank
<1>5. PICK m \in First(S, n) : \A k \in First(S, n) : k <= m
  <2>1. First(S, n) # {}
    BY <1>0, <1>2, <1>4, FS_EmptySet
  <2> QED
    BY <1>0, <2>1, HighestMember
<1>6. First(S, n) = {j \in S : j < m} \cup {m}
  <2>1. m \in S /\ m < i
    BY <1>3
  <2>2. ASSUME NEW j \in First(S, n) PROVE j \in {k \in S : k < m} \cup {m}
    BY <2>1, <2>2, <1>0, <1>3, <1>5
  <2>3. ASSUME NEW j \in S, j < m PROVE j \in First(S, n)
    BY <2>1, <2>3, <1>0, <1>3
  <2> QED
    BY <2>2, <2>3, <1>5
<1>7. Cardinality(First(S, n)) = Rank(S, m) + 1
  <2>0. {j \in S : j < m} \in SUBSET S /\ m \in Nat
    BY <1>0
  <2>1. IsFiniteSet({j \in S : j < m}) /\ m \notin {j \in S : j < m}
    <3>1. IsFiniteSet(S)
      BY Ranks
    <3> QED
      BY <2>0, <3>1, FS_Subset
  <2> HIDE DEF First
  <2>2. Cardinality({j \in S : j < m} \cup {m}) = Cardinality({j \in S : j < m}) + 1
    BY <2>1, FS_AddElement
  <2> QED
    BY <1>6, <2>2 DEF Rank
<1>8. Rank(S, m) < n /\ Rank(S, m) \in Nat
  BY Ranks DEF First
<1> QED
  BY <1>2, <1>4, <1>7, <1>8
-----------------------------------------------------------------------------
(* Metering: the invariant. *)

\* What finished by then, and counts, is with Stripe or too old; what finishes from now
\* on finishes later.
Due(i, time) == Meter!Counts(i) /\ finishedAt[i] <= time
Covered(time) ==
  /\ time \in Int
  /\ time <= start \/ time < clock
  /\ \A i \in Meter!Runs : Due(i, time) => i \in reported \cup aged

\* Runs are numbered as they finish, and one that is settled is visible.
RunsInv ==
  /\ Len(finishedAt) <= MaxRuns
  /\ \A i, j \in Meter!Runs : i <= j => finishedAt[i] <= finishedAt[j]
  /\ \A i \in Meter!Runs : finishedAt[i] <= clock
  /\ \A i \in Meter!Runs \ committed : clock < finishedAt[i] + Settle

\* The row, and the webhook's copy of it.
CursorInv ==
  /\ cursor = None <=> start = None
  /\ cursor # None => Covered(cursor)
  /\ webhook.pc = "read" => IF webhook.seen = None THEN start = None ELSE start # None /\ Covered(webhook.seen)

\* Whatever a pass still writes is covered; what it has not sent, it has in hand.
InHand(q, i) == i \in reported \cup aged \cup q.todo
SendingOK(q) ==
  /\ q.todo # {} /\ q.todo \subseteq Meter!Runs
  /\ \A k \in q.todo, i \in Meter!Runs : Meter!Counts(i) /\ i <= k => InHand(q, i)
  /\ q.full => Covered(q.next)
  /\ ~q.full => /\ q.next < clock
                /\ \A i \in Meter!Runs : Due(i, q.next) => InHand(q, i)
PassOK(q) == q.pc # "idle" =>
  /\ start # None
  /\ q.now <= clock
  /\ Covered(q.seen)
  /\ q.pc = "sending" => SendingOK(q)
  /\ q.pc = "saving" => Covered(q.next)
PassesInv == \A p \in Passes : PassOK(pass[p])

MeterInv == Meter!TypeOK /\ RunsInv /\ CursorInv /\ PassesInv
-----------------------------------------------------------------------------
(* Metering: the steps. *)

LEMMA MeterConstants ==
  /\ BatchSize \in Nat \ {0} /\ Settle \in Nat \ {0} /\ MaxAge \in Nat \ {0}
  /\ MaxRuns \in Nat /\ LastFinish \in Nat /\ MaxEvents \in Nat /\ MaxFaults \in Nat
  /\ None \notin Int
BY InstanceAssumption DEF Meter!MeteringAssumption

\* Nothing that is covered is uncovered: time passes, runs finish now, and what has
\* reached Stripe stays there.
Moves ==
  /\ clock' \in Nat /\ clock <= clock' /\ start' = start
  /\ finishedAt' \in Seq(Nat) /\ Len(finishedAt) <= Len(finishedAt')
  /\ \A i \in Meter!Runs : finishedAt'[i] = finishedAt[i]
  /\ \A i \in DOMAIN finishedAt' \ Meter!Runs : finishedAt'[i] = clock
  /\ reported \subseteq reported' /\ aged \subseteq aged'

LEMMA CoveredStays ==
  ASSUME Meter!TypeOK, Moves, start # None, NEW time, Covered(time)
  PROVE  /\ time \in Int
         /\ time <= start' \/ time < clock'
         /\ \A i \in DOMAIN finishedAt' :
              start' # None /\ start' < finishedAt'[i] /\ finishedAt'[i] <= time => i \in reported' \cup aged'
<1>1. time \in Int /\ start \in Int /\ clock \in Int /\ clock' \in Int
  BY DEF Covered, Moves, Meter!TypeOK, Meter!Time
<1>2. time <= start' \/ time < clock'
  BY <1>1 DEF Covered, Moves
<1>3. ASSUME NEW i \in DOMAIN finishedAt', start' < finishedAt'[i], finishedAt'[i] <= time
      PROVE  i \in reported' \cup aged'
  <2>1. CASE i \in Meter!Runs
    BY <1>3, <2>1 DEF Covered, Due, Moves, Meter!Counts
  <2>2. CASE i \notin Meter!Runs
    BY <1>1, <1>3, <2>2 DEF Covered, Moves
  <2> QED
    BY <2>1, <2>2
<1> QED
  BY <1>1, <1>2, <1>3

LEMMA CoveredKept ==
  ASSUME Meter!TypeOK, Moves, start # None
  PROVE  \A time \in Int : Covered(time) => Covered(time)'
BY CoveredStays DEF Covered, Due, Meter!Counts, Meter!Runs

\* A pass that does not move stays as it should be.
LEMMA PassKept ==
  ASSUME Meter!TypeOK, Moves, NEW p \in Passes, PassOK(pass[p]), pass'[p] = pass[p]
  PROVE  PassOK(pass[p])'
<1> SUFFICES ASSUME pass[p].pc # "idle" PROVE PassOK(pass[p])'
  BY DEF PassOK
<1> DEFINE q == pass[p]
<1>0. q \in Meter!Pass /\ q' = q
  BY DEF Meter!TypeOK
<1>1. q.now \in Int /\ q.next \in Int /\ q.seen \in Int /\ q.full \in BOOLEAN
  BY <1>0 DEF Meter!Pass, Meter!Time
<1>2. start' # None /\ q.now <= clock' /\ start # None /\ start \in Int
  BY <1>1 DEF PassOK, Moves, Meter!TypeOK, Meter!Time
<1>3. \A time \in Int : Covered(time) => Covered(time)'
  BY <1>2, CoveredKept
<1>4. Covered(q.seen)'
  BY <1>0, <1>1, <1>3 DEF PassOK
<1>5. CASE q.pc = "sending"
  <2>0. SendingOK(q)
    BY <1>5 DEF PassOK
  <2>1. q.todo # {} /\ q.todo \subseteq DOMAIN finishedAt'
    BY <2>0 DEF SendingOK, Moves, Meter!TypeOK, Meter!Runs
  <2>2. ASSUME NEW k \in q.todo, NEW i \in DOMAIN finishedAt', start' < finishedAt'[i], i <= k
        PROVE  i \in reported' \cup aged' \cup q.todo
    <3>1. i \in Meter!Runs
      BY <2>0, <2>2 DEF SendingOK, Moves, Meter!TypeOK, Meter!Runs
    <3> QED
      BY <1>2, <2>0, <2>2, <3>1 DEF SendingOK, InHand, Meter!Counts, Moves
  <2>3. q.full => Covered(q.next)'
    BY <1>0, <1>1, <1>3, <2>0 DEF SendingOK
  <2>4. ~q.full => q.next < clock'
    BY <1>1, <2>0 DEF SendingOK, Moves, Meter!TypeOK
  <2>5. ASSUME ~q.full, NEW i \in DOMAIN finishedAt', start' < finishedAt'[i], finishedAt'[i] <= q.next
        PROVE  i \in reported' \cup aged' \cup q.todo
    <3>1. i \in Meter!Runs
      BY <1>1, <2>0, <2>5 DEF SendingOK, Moves, Meter!TypeOK
    <3> QED
      BY <1>2, <2>0, <2>5, <3>1 DEF SendingOK, InHand, Due, Meter!Counts, Moves
  <2> QED
    BY <1>0, <1>2, <1>4, <1>5, <2>1, <2>2, <2>3, <2>4, <2>5
    DEF PassOK, SendingOK, InHand, Due, Meter!Counts, Meter!Runs
<1>6. CASE q.pc = "saving"
  BY <1>0, <1>1, <1>2, <1>3, <1>4, <1>6 DEF PassOK
<1>7. CASE q.pc \notin {"sending", "saving"}
  BY <1>0, <1>1, <1>2, <1>3, <1>4, <1>7 DEF PassOK
<1> QED
  BY <1>5, <1>6, <1>7

LEMMA CursorKept ==
  ASSUME Meter!TypeOK, CursorInv, Moves, UNCHANGED <<cursor, webhook>>
  PROVE  CursorInv'
<1>1. cursor # None => cursor \in Int /\ start # None
  BY DEF Meter!TypeOK, Meter!Time, CursorInv
<1>2. webhook.pc = "read" /\ webhook.seen # None => webhook.seen \in Int /\ start # None
  BY DEF Meter!TypeOK, Meter!Time, CursorInv
<1>3. cursor # None => Covered(cursor)'
  BY <1>1, CoveredKept DEF CursorInv
<1>4. webhook.pc = "read" /\ webhook.seen # None => Covered(webhook.seen)'
  BY <1>2, CoveredKept DEF CursorInv
<1>5. start' = start
  BY DEF Moves
<1> QED
  BY <1>3, <1>4, <1>5 DEF CursorInv

\* One pass moves.
LEMMA PassesKept ==
  ASSUME Meter!TypeOK, PassesInv, Moves, NEW p \in Passes, NEW q \in Meter!Pass, PassOK(q)',
         pass' = [pass EXCEPT ![p] = q]
  PROVE  PassesInv' /\ pass' \in [Passes -> Meter!Pass]
<1>1. pass \in [Passes -> Meter!Pass]
  BY DEF Meter!TypeOK
<1>2. ASSUME NEW g \in Passes PROVE PassOK(pass[g])'
  <2>1. CASE g = p
    BY <1>1, <2>1
  <2>2. CASE g # p
    BY <1>1, <2>2, PassKept DEF PassesInv
  <2> QED
    BY <2>1, <2>2
<1> QED
  BY <1>1, <1>2 DEF PassesInv

\* No pass moves.
LEMMA PassesStay ==
  ASSUME Meter!TypeOK, PassesInv, Moves, UNCHANGED pass
  PROVE  PassesInv'
BY PassKept DEF PassesInv

LEMMA FinishRunStep ==
  ASSUME MeterInv, Meter!FinishRun
  PROVE  MeterInv'
<1>0. Meter!TypeOK /\ RunsInv /\ CursorInv /\ PassesInv
  BY DEF MeterInv
<1>1. /\ finishedAt \in Seq(Nat) /\ clock \in Nat /\ Len(finishedAt) \in Nat
      /\ finishedAt' = Append(finishedAt, clock) /\ finishedAt' \in Seq(Nat)
      /\ Len(finishedAt') = Len(finishedAt) + 1 /\ Len(finishedAt) < MaxRuns
      /\ DOMAIN finishedAt = 1..Len(finishedAt) /\ DOMAIN finishedAt' = 1..(Len(finishedAt) + 1)
      /\ \A i \in Meter!Runs : finishedAt'[i] = finishedAt[i] /\ i \in DOMAIN finishedAt'
      /\ finishedAt'[Len(finishedAt) + 1] = clock
  BY <1>0 DEF Meter!FinishRun, Meter!TypeOK, Meter!Runs
<1>2. UNCHANGED <<clock, committed, cursor, start, reported, aged, pass, webhook, events, meterFaults>>
  BY DEF Meter!FinishRun
<1>3. Meter!TypeOK'
  BY <1>0, <1>1, <1>2 DEF Meter!TypeOK, Meter!Runs
<1>4. \A i \in DOMAIN finishedAt' : i \in Meter!Runs \/ i = Len(finishedAt) + 1
  BY <1>1 DEF Meter!Runs
<1>5. Moves
  BY <1>1, <1>2, <1>4 DEF Moves
<1>6. RunsInv'
  <2>1. Len(finishedAt') <= MaxRuns
    BY <1>1, MeterConstants
  <2>2. ASSUME NEW i \in DOMAIN finishedAt', NEW j \in DOMAIN finishedAt', i <= j
        PROVE  finishedAt'[i] <= finishedAt'[j]
    <3>1. CASE i \in Meter!Runs /\ j \in Meter!Runs
      BY <1>0, <1>1, <2>2, <3>1 DEF RunsInv
    <3>2. CASE j = Len(finishedAt) + 1 /\ i \in Meter!Runs
      BY <1>0, <1>1, <3>2 DEF RunsInv
    <3>3. CASE i = Len(finishedAt) + 1
      <4>1. j = i
        BY <1>1, <2>2, <3>3
      <4> QED
        BY <1>1, <3>3, <4>1
    <3> QED
      BY <1>4, <3>1, <3>2, <3>3
  <2>3. ASSUME NEW i \in DOMAIN finishedAt' PROVE finishedAt'[i] <= clock'
    BY <1>0, <1>1, <1>2, <1>4 DEF RunsInv
  <2>4. ASSUME NEW i \in DOMAIN finishedAt' \ committed PROVE clock < finishedAt'[i] + Settle
    BY <1>0, <1>1, <1>4, MeterConstants DEF RunsInv
  <2> QED
    BY <1>2, <2>1, <2>2, <2>3, <2>4 DEF RunsInv, Meter!Runs
<1> QED
  BY <1>0, <1>2, <1>3, <1>5, <1>6, CursorKept, PassesStay DEF MeterInv

LEMMA CommitStep ==
  ASSUME MeterInv, Meter!Commit
  PROVE  MeterInv'
<1>0. Meter!TypeOK /\ RunsInv /\ CursorInv /\ PassesInv
  BY DEF MeterInv
<1>1. PICK i \in Meter!Runs \ committed : Meter!CommitRun(i)
  BY DEF Meter!Commit
<1>2. /\ committed' = committed \cup {i}
      /\ UNCHANGED <<clock, finishedAt, cursor, start, reported, aged, pass, webhook, events, meterFaults>>
  BY <1>1 DEF Meter!CommitRun
<1>3. Meter!TypeOK' /\ RunsInv'
  BY <1>0, <1>2 DEF Meter!TypeOK, Meter!Runs, RunsInv
<1>4. Moves
  BY <1>0, <1>2 DEF Moves, Meter!TypeOK, Meter!Runs
<1> QED
  BY <1>0, <1>2, <1>3, <1>4, CursorKept, PassesStay DEF MeterInv

LEMMA TickStep ==
  ASSUME MeterInv, Meter!Tick
  PROVE  MeterInv'
<1>0. Meter!TypeOK /\ RunsInv /\ CursorInv /\ PassesInv
  BY DEF MeterInv
<1>1. /\ clock' = clock + 1 /\ clock \in Nat
      /\ \A i \in Meter!Runs \ committed : clock + 1 < finishedAt[i] + Settle
      /\ UNCHANGED <<finishedAt, committed, cursor, start, reported, aged, pass, webhook, events, meterFaults>>
  BY <1>0 DEF Meter!Tick, Meter!TypeOK, Meter!usage
<1>2. Meter!TypeOK'
  BY <1>0, <1>1 DEF Meter!TypeOK, Meter!Runs
<1>3. \A i \in Meter!Runs : finishedAt[i] \in Nat
  BY <1>0 DEF Meter!TypeOK, Meter!Runs
<1>4. RunsInv'
  BY <1>0, <1>1, <1>3 DEF RunsInv, Meter!Runs
<1>5. Moves
  BY <1>0, <1>1 DEF Moves, Meter!TypeOK, Meter!Runs
<1> QED
  BY <1>0, <1>1, <1>2, <1>4, <1>5, CursorKept, PassesStay DEF MeterInv

LEMMA ReadRowStep ==
  ASSUME MeterInv, Meter!ReadRow
  PROVE  MeterInv'
<1>0. Meter!TypeOK /\ RunsInv /\ CursorInv /\ PassesInv
  BY DEF MeterInv
<1>1. /\ webhook' = [pc |-> "read", seen |-> cursor, now |-> clock]
      /\ events < MaxEvents /\ events' = events + 1
      /\ UNCHANGED <<clock, finishedAt, committed, cursor, start, reported, aged, pass, meterFaults>>
  BY DEF Meter!ReadRow, Meter!usage
<1>2. Meter!TypeOK'
  BY <1>0, <1>1, MeterConstants DEF Meter!TypeOK, Meter!Runs, Meter!Time
<1>3. RunsInv'
  BY <1>0, <1>1 DEF RunsInv, Meter!Runs
<1>4. Moves
  BY <1>0, <1>1 DEF Moves, Meter!TypeOK, Meter!Runs
<1>5. CursorInv'
  <2>1. cursor # None => Covered(cursor)'
    BY <1>0, <1>1 DEF CursorInv, Covered, Due, Meter!Counts, Meter!Runs
  <2> QED
    BY <1>0, <1>1, <2>1 DEF CursorInv
<1> QED
  BY <1>0, <1>1, <1>2, <1>3, <1>4, <1>5, PassesStay DEF MeterInv

LEMMA WriteRowStep ==
  ASSUME MeterInv, Meter!WriteRow
  PROVE  MeterInv'
<1>0. Meter!TypeOK /\ RunsInv /\ CursorInv /\ PassesInv
  BY DEF MeterInv
<1>1. /\ webhook.pc = "read" /\ webhook' = Meter!IdleWebhook
      /\ cursor' = IF webhook.seen = None THEN webhook.now ELSE webhook.seen
      /\ start' = IF start = None THEN cursor' ELSE start
      /\ UNCHANGED <<clock, finishedAt, committed, reported, aged, pass, events, meterFaults>>
  BY DEF Meter!WriteRow, Meter!usage, Meter!Kept
<1>2. webhook.now \in Int /\ webhook.seen \in Int \cup {None} /\ None \notin Int
  BY <1>0, MeterConstants DEF Meter!TypeOK, Meter!Time
<1>3. cursor' \in Int /\ start' \in Int
  BY <1>0, <1>1, <1>2 DEF Meter!TypeOK, Meter!Time
<1>4. Meter!TypeOK'
  BY <1>0, <1>1, <1>3 DEF Meter!TypeOK, Meter!Runs, Meter!Time, Meter!IdleWebhook
<1>5. RunsInv'
  BY <1>0, <1>1 DEF RunsInv, Meter!Runs
<1>6. CursorInv' /\ PassesInv'
  <2>1. CASE start = None
    <3>1. cursor' = start' /\ \A i \in DOMAIN finishedAt : ~(start' < finishedAt[i] /\ finishedAt[i] <= start')
      BY <1>0, <1>1, <1>3, <2>1 DEF Meter!TypeOK
    <3>2. Covered(cursor)'
      BY <1>1, <1>3, <3>1 DEF Covered, Due, Meter!Counts, Meter!Runs
    <3>3. PassesInv'
      BY <1>0, <1>1, <2>1 DEF PassesInv, PassOK
    <3> QED
      BY <1>1, <1>2, <1>3, <3>2, <3>3 DEF CursorInv, Meter!IdleWebhook
  <2>2. CASE start # None
    <3>1. start' = start /\ webhook.seen # None /\ cursor' = webhook.seen /\ Covered(webhook.seen)
      BY <1>0, <1>1, <2>2 DEF CursorInv
    <3>2. Moves
      BY <1>0, <1>1, <3>1 DEF Moves, Meter!TypeOK, Meter!Runs
    <3>3. Covered(cursor)'
      BY <1>1, <3>1 DEF Covered, Due, Meter!Counts, Meter!Runs
    <3>4. PassesInv'
      BY <1>0, <1>1, <3>2, PassesStay
    <3> QED
      BY <1>1, <1>2, <1>3, <3>3, <3>4 DEF CursorInv, Meter!IdleWebhook
  <2> QED
    BY <2>1, <2>2
<1> QED
  BY <1>4, <1>5, <1>6 DEF MeterInv

\* What a step of one pass leaves alone, and what follows when the cursor is among it.
PassStep ==
  /\ UNCHANGED <<clock, finishedAt, committed, start, webhook, events>>
  /\ reported \subseteq reported' /\ reported' \subseteq Meter!Runs
  /\ aged \subseteq aged' /\ aged' \subseteq Meter!Runs
  /\ meterFaults' \in 0..MaxFaults
  /\ cursor' # cursor => start # None /\ Covered(cursor')

LEMMA PassSteps ==
  ASSUME MeterInv, PassStep, NEW p \in Passes, NEW q \in Meter!Pass, PassOK(q)',
         pass' = [pass EXCEPT ![p] = q]
  PROVE  MeterInv'
<1>0. Meter!TypeOK /\ RunsInv /\ CursorInv /\ PassesInv
  BY DEF MeterInv
<1>1. Moves
  BY <1>0 DEF PassStep, Moves, Meter!TypeOK, Meter!Runs
<1>2. PassesInv' /\ pass' \in [Passes -> Meter!Pass]
  BY <1>0, <1>1, PassesKept
<1>3. cursor' \in Meter!Time \cup {None}
  BY <1>0 DEF PassStep, Meter!TypeOK, Meter!Time, Covered
<1>4. Meter!TypeOK' /\ RunsInv'
  BY <1>0, <1>2, <1>3 DEF PassStep, Meter!TypeOK, Meter!Runs, RunsInv
<1>5. CursorInv'
  <2>1. CASE cursor' = cursor
    BY <1>0, <1>1, <2>1, CursorKept DEF PassStep
  <2>2. CASE cursor' # cursor
    <3>1. start # None /\ cursor' \in Int /\ cursor' # None /\ Covered(cursor')
      BY <2>2, MeterConstants DEF PassStep, Covered
    <3>2. Covered(cursor)'
      BY <1>0, <1>1, <3>1, CoveredStays DEF Covered, Due, Meter!Counts, Meter!Runs
    <3>3. webhook.pc = "read" /\ webhook.seen # None => Covered(webhook.seen)'
      <4>1. webhook.pc = "read" /\ webhook.seen # None => webhook.seen \in Int
        BY <1>0 DEF Meter!TypeOK, Meter!Time
      <4> QED
        BY <1>0, <1>1, <3>1, <4>1, CoveredKept DEF CursorInv, PassStep
    <3> QED
      BY <1>0, <3>1, <3>2, <3>3 DEF PassStep, CursorInv
  <2> QED
    BY <2>1, <2>2
<1> QED
  BY <1>2, <1>4, <1>5 DEF MeterInv

LEMMA IdlePassOK == Meter!IdlePass \in Meter!Pass /\ PassOK(Meter!IdlePass)'
BY DEF Meter!IdlePass, Meter!Pass, Meter!Time, PassOK

LEMMA ChooseAccountStep ==
  ASSUME MeterInv, NEW p \in Passes, Meter!ChooseAccount(p)
  PROVE  MeterInv'
<1> DEFINE q == [Meter!IdlePass EXCEPT !.pc = "chosen", !.now = clock, !.seen = cursor]
<1>0. Meter!TypeOK /\ CursorInv
  BY DEF MeterInv
<1>1. /\ pass' = [pass EXCEPT ![p] = q] /\ cursor # None
      /\ UNCHANGED <<clock, finishedAt, committed, cursor, start, reported, aged, webhook, events, meterFaults>>
  BY DEF Meter!ChooseAccount, Meter!usage
<1>2. q \in Meter!Pass /\ q.pc = "chosen" /\ q.now = clock /\ q.seen = cursor
  <2>1. clock \in Int /\ cursor \in Int
    BY <1>0, <1>1 DEF Meter!Time, Meter!TypeOK
  <2>2. Meter!IdlePass \in Meter!Pass
    BY IdlePassOK
  <2> QED
    BY <2>1, <2>2 DEF Meter!Pass, Meter!Time
<1>3. PassStep
  BY <1>0, <1>1 DEF PassStep, Meter!TypeOK
<1>4. Covered(cursor)' /\ start' # None
  BY <1>0, <1>1 DEF CursorInv, Covered, Due, Meter!Counts, Meter!Runs
<1>5. PassOK(q)'
  <2> HIDE DEF q
  <2>1. q' = q
    BY <1>1 DEF q, Meter!IdlePass
  <2> QED
    BY <1>0, <1>1, <1>2, <1>4, <2>1 DEF PassOK, Meter!TypeOK
<1> QED
  BY <1>1, <1>2, <1>3, <1>5, PassSteps

LEMMA SameCardinality ==
  ASSUME NEW S
  PROVE  Meter!Cardinality(S) = Cardinality(S)
BY DEF Cardinality, Meter!Cardinality, IsFiniteSet, Meter!IsFiniteSet

LEMMA BatchIsFirst ==
  ASSUME NEW after, NEW until, NEW n
  PROVE  Meter!Batch(after, until, n)
           = First({i \in committed : after < finishedAt[i] /\ finishedAt[i] <= until}, n)
<1> DEFINE S == {i \in committed : after < finishedAt[i] /\ finishedAt[i] <= until}
<1>1. Meter!Batch(after, until, n) = {i \in S : Meter!Cardinality({j \in S : j < i}) < n}
  BY DEF Meter!Batch
<1> HIDE DEF S
<1>2. First(S, n) = {i \in S : Meter!Cardinality({j \in S : j < i}) < n}
  BY SameCardinality DEF First, Rank
<1> QED
  BY <1>1, <1>2 DEF S

LEMMA ReadRunsStep ==
  ASSUME MeterInv, NEW p \in Passes, Meter!ReadRuns(p)
  PROVE  MeterInv'
<1> DEFINE o == pass[p]
           until == o.now - Settle
           S == {i \in committed : o.seen < finishedAt[i] /\ finishedAt[i] <= until}
           batch == First(S, BatchSize)
           full == Cardinality(batch) = BatchSize
           q == [o EXCEPT !.pc = IF batch = {} THEN "saving" ELSE "sending", !.todo = batch,
                          !.full = full, !.next = IF full THEN o.seen ELSE until]
<1>0. Meter!TypeOK /\ RunsInv /\ PassesInv
  BY DEF MeterInv
<1>1. Meter!Batch(o.seen, Meter!Settled(o.now), BatchSize) = batch
  <2>1. Meter!Settled(o.now) = until
    BY DEF Meter!Settled
  <2> HIDE DEF o, until
  <2>2. Meter!Batch(o.seen, until, BatchSize) = batch
    BY BatchIsFirst
  <2> QED
    BY <2>1, <2>2
<1>2. /\ pass' = [pass EXCEPT ![p] = q] /\ o.pc = "chosen"
      /\ UNCHANGED <<clock, finishedAt, committed, cursor, start, reported, aged, webhook, events, meterFaults>>
  <2> HIDE DEF batch
  <2>1. Meter!Cardinality(batch) = Cardinality(batch)
    BY SameCardinality
  <2> QED
    BY <1>1, <2>1 DEF Meter!ReadRuns, Meter!usage, Meter!Settled
<1>3. /\ o \in Meter!Pass /\ start # None /\ Covered(o.seen) /\ o.now <= clock
      /\ start \in Int /\ o.now \in Int /\ o.seen \in Int /\ until \in Int /\ clock \in Nat
      /\ until < clock
  <2>1. o \in Meter!Pass /\ start \in Int \cup {None} /\ clock \in Nat
    BY <1>0 DEF Meter!TypeOK, Meter!Time
  <2>2. start # None /\ Covered(o.seen) /\ o.now <= clock
    BY <1>0, <1>2 DEF PassesInv, PassOK
  <2> HIDE DEF o
  <2>3. o.now \in Int /\ o.seen \in Int
    BY <2>1 DEF Meter!Time, Meter!Pass
  <2> QED
    BY <2>1, <2>2, <2>3, MeterConstants
<1>4. /\ Meter!Runs = 1..Len(finishedAt) /\ Len(finishedAt) \in Nat /\ Len(finishedAt) <= MaxRuns
      /\ S \in SUBSET Meter!Runs /\ batch \in SUBSET S
      /\ \A i \in Meter!Runs : finishedAt[i] \in Nat
  BY <1>0 DEF Meter!TypeOK, Meter!Runs, RunsInv, First
<1>5. q \in Meter!Pass /\ batch \subseteq Meter!Runs
  <2> HIDE DEF batch
  <2>1. batch \subseteq Meter!Runs /\ batch \subseteq 1..MaxRuns
    BY <1>4, MeterConstants
  <2> QED
    BY <1>3, <2>1 DEF Meter!Pass, Meter!Time
<1>6. PassStep
  BY <1>0, <1>2 DEF PassStep, Meter!TypeOK
\* What is due by then, counts and is not with Stripe, was read.
<1>7. ASSUME NEW i \in Meter!Runs, Due(i, until), ~(i \in reported \cup aged) PROVE i \in S
  <2>1. o.seen < finishedAt[i]
    BY <1>3, <1>4, <1>7 DEF Covered, Due
  <2>2. i \in committed
    BY <1>0, <1>3, <1>4, <1>7, MeterConstants DEF RunsInv, Due
  <2> QED
    BY <1>7, <2>1, <2>2 DEF Due
<1>8. ~full => batch = S
  <2> HIDE DEF S
  <2> QED
    BY <1>4, MeterConstants, FirstOfFew
<1>9. ~full => \A i \in Meter!Runs : Due(i, until) => i \in reported \cup aged \cup batch
  BY <1>7, <1>8
<1>10. ASSUME NEW k \in batch, NEW i \in Meter!Runs, Meter!Counts(i), i <= k
       PROVE  i \in reported \cup aged \cup batch
  <2>1. k \in S /\ k \in Meter!Runs /\ finishedAt[i] <= finishedAt[k] /\ finishedAt[k] <= until
    BY <1>0, <1>4, <1>10 DEF RunsInv
  <2>2. Due(i, until)
    BY <1>3, <1>4, <1>10, <2>1 DEF Due
  <2>3. CASE i \in S
    <3> HIDE DEF S
    <3>1. Rank(S, i) <= Rank(S, k) /\ Rank(S, i) \in Nat /\ Rank(S, k) \in Nat
      BY <1>4, <1>10, <2>1, <2>3, Ranks
    <3>2. Rank(S, k) < BatchSize
      BY DEF First
    <3> QED
      BY <2>3, <3>1, <3>2, MeterConstants DEF First
  <2> QED
    BY <1>7, <2>2, <2>3
<1> HIDE DEF batch, full
\* What the pass is then, whatever becomes of the variables.
<1>11. PICK z \in Meter!Pass :
         /\ z = q /\ z.todo = batch /\ z.now = o.now /\ z.seen = o.seen /\ z.full = full
         /\ z.next = (IF full THEN o.seen ELSE until)
         /\ z.pc = (IF batch = {} THEN "saving" ELSE "sending")
  BY <1>3, <1>5 DEF Meter!Pass
<1>12. batch = {} => ~full
  BY FS_EmptySet, MeterConstants DEF full
<1>13. Covered(z.seen)'
  BY <1>2, <1>3, <1>11 DEF Covered, Due, Meter!Counts, Meter!Runs
<1>14. batch = {} => Covered(z.next)'
  BY <1>2, <1>3, <1>9, <1>11, <1>12 DEF Covered, Due, Meter!Counts, Meter!Runs
<1>15. ASSUME batch # {} PROVE SendingOK(z)'
  <2>1. z.full => Covered(z.next)'
    BY <1>11, <1>13
  <2>2. ~z.full => z.next < clock'
    BY <1>2, <1>3, <1>11
  <2> QED
    BY <1>2, <1>5, <1>9, <1>10, <1>11, <1>15, <2>1, <2>2 DEF SendingOK, InHand, Due, Meter!Counts, Meter!Runs
<1>16. PassOK(z)'
  <2>1. start' # None /\ z.now <= clock'
    BY <1>2, <1>3, <1>11
  <2>2. z.pc = "sending" => SendingOK(z)'
    BY <1>11, <1>15
  <2>3. z.pc = "saving" => Covered(z.next)'
    BY <1>11, <1>14
  <2> QED
    BY <1>13, <2>1, <2>2, <2>3 DEF PassOK
<1> QED
  BY <1>2, <1>6, <1>11, <1>16, PassSteps

\* One run of the batch less: what the pass goes on with, or saves when it was the last.
LEMMA SentOK ==
  ASSUME MeterInv, PassStep, NEW p \in Passes, pass[p].pc = "sending", NEW i \in pass[p].todo,
         \A j \in pass[p].todo : i <= j,
         i \in reported' \cup aged', pass' = Meter!Sent(p, i)
  PROVE  MeterInv'
<1> DEFINE o == pass[p]
           time == finishedAt[i] - 1
           q == [o EXCEPT !.todo = o.todo \ {i},
                          !.pc = IF o.todo = {i} THEN "saving" ELSE "sending",
                          !.next = IF o.full THEN time ELSE o.next]
<1>0. Meter!TypeOK /\ RunsInv /\ PassesInv
  BY DEF MeterInv
<1>1. /\ o \in Meter!Pass /\ start # None /\ start \in Int /\ clock \in Nat
      /\ Covered(o.seen) /\ o.now <= clock /\ SendingOK(o)
  BY <1>0 DEF Meter!TypeOK, Meter!Time, PassesInv, PassOK
<1>2. /\ o.now \in Int /\ o.seen \in Int /\ o.next \in Int /\ o.full \in BOOLEAN /\ o.todo \in SUBSET (1..MaxRuns)
  BY <1>1 DEF Meter!Pass, Meter!Time
<1>3. /\ Meter!Runs = 1..Len(finishedAt) /\ Len(finishedAt) \in Nat
      /\ i \in Meter!Runs /\ o.todo \subseteq Meter!Runs
      /\ \A j \in Meter!Runs : finishedAt[j] \in Nat
  BY <1>0, <1>1 DEF Meter!TypeOK, Meter!Runs, SendingOK
<1>4. time \in Int /\ time < clock
  BY <1>0, <1>1, <1>3 DEF RunsInv
<1>5. pass' = [pass EXCEPT ![p] = q]
  <2>1. pass \in [Passes -> Meter!Pass]
    BY <1>0 DEF Meter!TypeOK
  <2>2. [pass EXCEPT ![p].todo = @ \ {i},
                     ![p].pc = IF pass[p].todo = {i} THEN "saving" ELSE "sending",
                     ![p].next = IF pass[p].full THEN time ELSE @] = [pass EXCEPT ![p] = q]
    BY <2>1
  <2> QED
    BY <2>2 DEF Meter!Sent, Meter!Before
<1>6. PICK z \in Meter!Pass :
        /\ z = q /\ z.todo = o.todo \ {i} /\ z.now = o.now /\ z.seen = o.seen /\ z.full = o.full
        /\ z.next = (IF o.full THEN time ELSE o.next)
        /\ z.pc = (IF o.todo = {i} THEN "saving" ELSE "sending")
  <2>1. o.todo \ {i} \in SUBSET (1..MaxRuns)
    BY <1>2
  <2> HIDE DEF o, time
  <2>2. q \in Meter!Pass
    BY <1>1, <1>2, <1>4, <2>1 DEF Meter!Pass, Meter!Time
  <2> QED
    BY <1>1, <2>2 DEF Meter!Pass
<1> HIDE DEF q
<1>7. ASSUME NEW j \in Meter!Runs, InHand(o, j) PROVE j \in reported' \cup aged' \cup z.todo
  BY <1>6, <1>7 DEF InHand, PassStep
\* Every run before this one is with Stripe or too old.
<1>8. ASSUME NEW j \in Meter!Runs, Due(j, time) PROVE j \in reported' \cup aged'
  <2>1. j < i
    <3>1. finishedAt[j] < finishedAt[i]
      BY <1>3, <1>8 DEF Due
    <3> QED
      BY <1>0, <1>3, <3>1 DEF RunsInv
  <2>2. InHand(o, j)
    BY <1>1, <1>3, <1>8, <2>1 DEF SendingOK, Due
  <2>3. j \notin o.todo
    BY <1>3, <2>1
  <2> QED
    BY <2>2, <2>3 DEF InHand, PassStep
<1>9. o.full => Covered(z.next)'
  BY <1>4, <1>6, <1>8 DEF PassStep, Covered, Due, Meter!Counts, Meter!Runs
<1>10. Covered(z.seen)'
  BY <1>1, <1>6 DEF PassStep, Covered, Due, Meter!Counts, Meter!Runs
<1>11. ASSUME ~o.full PROVE /\ z.next < clock'
                            /\ \A j \in Meter!Runs : Due(j, z.next) => j \in reported' \cup aged' \cup z.todo
  BY <1>1, <1>6, <1>7, <1>11 DEF SendingOK, PassStep
<1>12. ASSUME o.todo # {i} PROVE SendingOK(z)'
  <2>1. z.todo # {} /\ z.todo \subseteq Meter!Runs
    BY <1>3, <1>6, <1>12
  <2>2. \A k \in z.todo, j \in Meter!Runs : Meter!Counts(j) /\ j <= k => j \in reported' \cup aged' \cup z.todo
    BY <1>1, <1>6, <1>7 DEF SendingOK
  <2> QED
    BY <1>6, <1>9, <1>11, <2>1, <2>2 DEF PassStep, SendingOK, InHand, Due, Meter!Counts, Meter!Runs
<1>13. ASSUME o.todo = {i} PROVE Covered(z.next)'
  <2>1. ASSUME ~o.full PROVE Covered(z.next)'
    <3>1. z.todo = {} /\ z.next \in Int
      BY <1>2, <1>6, <1>13, <2>1
    <3> QED
      BY <1>11, <2>1, <3>1 DEF PassStep, Covered, Due, Meter!Counts, Meter!Runs
  <2> QED
    BY <1>9, <2>1
<1>14. PassOK(z)'
  <2>1. start' # None /\ z.now <= clock'
    BY <1>1, <1>6 DEF PassStep
  <2>2. z.pc = "sending" => SendingOK(z)'
    BY <1>6, <1>12
  <2>3. z.pc = "saving" => Covered(z.next)'
    BY <1>6, <1>13
  <2> QED
    BY <1>10, <2>1, <2>2, <2>3 DEF PassOK
<1> QED
  BY <1>5, <1>6, <1>14, PassSteps

\* A run refused: the pass stops short of it.
LEMMA FailedOK ==
  ASSUME MeterInv, PassStep, NEW p \in Passes, pass[p].pc = "sending", NEW i \in pass[p].todo,
         \A j \in pass[p].todo : i <= j, pass' = Meter!Failed(p, i)
  PROVE  MeterInv'
<1> DEFINE o == pass[p]
           time == finishedAt[i] - 1
           q == [o EXCEPT !.todo = {}, !.pc = "saving", !.next = time]
<1>0. Meter!TypeOK /\ RunsInv /\ PassesInv
  BY DEF MeterInv
<1>1. /\ o \in Meter!Pass /\ start # None /\ start \in Int /\ clock \in Nat
      /\ Covered(o.seen) /\ o.now <= clock /\ SendingOK(o)
  BY <1>0 DEF Meter!TypeOK, Meter!Time, PassesInv, PassOK
<1>3. /\ Meter!Runs = 1..Len(finishedAt) /\ Len(finishedAt) \in Nat
      /\ i \in Meter!Runs /\ o.todo \subseteq Meter!Runs
      /\ \A j \in Meter!Runs : finishedAt[j] \in Nat
  BY <1>0, <1>1 DEF Meter!TypeOK, Meter!Runs, SendingOK
<1>4. time \in Int /\ time < clock
  BY <1>0, <1>1, <1>3 DEF RunsInv
<1>5. pass' = [pass EXCEPT ![p] = q]
  <2>1. pass \in [Passes -> Meter!Pass]
    BY <1>0 DEF Meter!TypeOK
  <2>2. [pass EXCEPT ![p].todo = {}, ![p].pc = "saving", ![p].next = time] = [pass EXCEPT ![p] = q]
    BY <2>1
  <2> QED
    BY <2>2 DEF Meter!Failed, Meter!Before
<1>6. PICK z \in Meter!Pass : z = q /\ z.now = o.now /\ z.seen = o.seen /\ z.next = time /\ z.pc = "saving"
  <2>1. {} \in SUBSET (1..MaxRuns)
    OBVIOUS
  <2> HIDE DEF o, time
  <2>2. q \in Meter!Pass
    BY <1>1, <1>4, <2>1 DEF Meter!Pass, Meter!Time
  <2> QED
    BY <1>1, <2>2 DEF Meter!Pass
<1> HIDE DEF q
<1>8. ASSUME NEW j \in Meter!Runs, Due(j, time) PROVE j \in reported \cup aged
  <2>1. j < i
    <3>1. finishedAt[j] < finishedAt[i]
      BY <1>3, <1>8 DEF Due
    <3> QED
      BY <1>0, <1>3, <3>1 DEF RunsInv
  <2>2. InHand(o, j)
    BY <1>1, <1>3, <1>8, <2>1 DEF SendingOK, Due
  <2>3. j \notin o.todo
    BY <1>3, <2>1
  <2> QED
    BY <2>2, <2>3 DEF InHand
<1>9. Covered(z.next)'
  BY <1>4, <1>6, <1>8 DEF PassStep, Covered, Due, Meter!Counts, Meter!Runs
<1>10. Covered(z.seen)'
  BY <1>1, <1>6 DEF PassStep, Covered, Due, Meter!Counts, Meter!Runs
<1>11. PassOK(z)'
  BY <1>1, <1>6, <1>9, <1>10 DEF PassOK, PassStep
<1> QED
  BY <1>5, <1>6, <1>11, PassSteps

LEMMA ReportUsageStep ==
  ASSUME MeterInv, NEW p \in Passes, Meter!ReportUsage(p)
  PROVE  MeterInv'
<1>1. PICK i \in pass[p].todo :
        /\ pass[p].pc = "sending" /\ \A j \in pass[p].todo : i <= j
        /\ \/ aged' = aged \cup {i} /\ pass' = Meter!Sent(p, i) /\ UNCHANGED <<reported, meterFaults>>
           \/ reported' = reported \cup {i} /\ pass' = Meter!Sent(p, i) /\ UNCHANGED <<aged, meterFaults>>
           \/ UNCHANGED <<reported, aged>> /\ pass' = Meter!Failed(p, i) /\ Meter!FaultHappens
           \/ reported' = reported \cup {i} /\ pass' = Meter!Failed(p, i) /\ Meter!FaultHappens /\ UNCHANGED aged
        /\ UNCHANGED <<clock, finishedAt, committed, cursor, start, webhook, events>>
  BY DEF Meter!ReportUsage, Meter!usage
<1>2. i \in Meter!Runs /\ reported \subseteq Meter!Runs /\ aged \subseteq Meter!Runs
  BY <1>1 DEF MeterInv, Meter!TypeOK, PassesInv, PassOK, SendingOK
<1>3. meterFaults' \in 0..MaxFaults
  BY <1>1, MeterConstants DEF MeterInv, Meter!TypeOK, Meter!FaultHappens
<1>4. PassStep
  BY <1>1, <1>2, <1>3 DEF PassStep
<1>5. CASE pass' = Meter!Sent(p, i) /\ i \in reported' \cup aged'
  BY <1>1, <1>4, <1>5, SentOK
<1>6. CASE pass' = Meter!Failed(p, i)
  BY <1>1, <1>4, <1>6, FailedOK
<1> QED
  BY <1>1, <1>5, <1>6

LEMMA SaveCursorStep ==
  ASSUME MeterInv, NEW p \in Passes, Meter!SaveCursor(p)
  PROVE  MeterInv'
<1>1. /\ pass[p].pc = "saving" /\ pass' = [pass EXCEPT ![p] = Meter!IdlePass]
      /\ cursor' = cursor \/ cursor' = pass[p].next
      /\ UNCHANGED <<clock, finishedAt, committed, start, reported, aged, webhook, events, meterFaults>>
  BY DEF Meter!SaveCursor, Meter!usage
<1>2. PassStep
  BY <1>1 DEF PassStep, MeterInv, Meter!TypeOK, PassesInv, PassOK
<1> QED
  BY <1>1, <1>2, IdlePassOK, PassSteps

LEMMA CrashStep ==
  ASSUME MeterInv, NEW p \in Passes, Meter!Crash(p)
  PROVE  MeterInv'
<1>1. /\ pass' = [pass EXCEPT ![p] = Meter!IdlePass] /\ Meter!FaultHappens
      /\ UNCHANGED <<clock, finishedAt, committed, cursor, start, reported, aged, webhook, events>>
  BY DEF Meter!Crash, Meter!usage
<1>2. PassStep
  BY <1>1, MeterConstants DEF PassStep, MeterInv, Meter!TypeOK, Meter!FaultHappens
<1> QED
  BY <1>1, <1>2, IdlePassOK, PassSteps

LEMMA MeterInit ==
  ASSUME Meter!Init
  PROVE  MeterInv
<1>0. /\ clock = 0 /\ finishedAt = << >> /\ committed = {} /\ cursor \in {None, 0} /\ start = cursor
      /\ reported = {} /\ aged = {} /\ pass = [p \in Passes |-> Meter!IdlePass]
      /\ webhook = Meter!IdleWebhook /\ events = 0 /\ meterFaults = 0
  BY DEF Meter!Init
<1>1. Meter!Runs = {} /\ finishedAt \in Seq(Nat) /\ Len(finishedAt) = 0
  BY <1>0 DEF Meter!Runs
<1>2. Meter!TypeOK
  BY <1>0, <1>1, MeterConstants, IdlePassOK DEF Meter!TypeOK, Meter!IdleWebhook, Meter!Time
<1>3. RunsInv
  BY <1>1, MeterConstants DEF RunsInv
<1>4. CursorInv
  BY <1>0, <1>1, MeterConstants DEF CursorInv, Covered, Meter!IdleWebhook
<1>5. PassesInv
  BY <1>0 DEF PassesInv, PassOK, Meter!IdlePass
<1> QED
  BY <1>2, <1>3, <1>4, <1>5 DEF MeterInv

LEMMA MeterStep ==
  ASSUME MeterInv, Meter!Next \/ UNCHANGED metering
  PROVE  MeterInv'
<1>1. CASE UNCHANGED metering
  <2>0. Meter!TypeOK /\ RunsInv /\ CursorInv /\ PassesInv
    BY DEF MeterInv
  <2>1. UNCHANGED <<clock, finishedAt, committed, cursor, start, reported, aged, pass, webhook, events, meterFaults>>
    BY <1>1 DEF metering
  <2>2. Meter!TypeOK' /\ RunsInv'
    BY <2>0, <2>1 DEF Meter!TypeOK, Meter!Runs, RunsInv
  <2>3. Moves
    BY <2>0, <2>1 DEF Moves, Meter!TypeOK, Meter!Runs
  <2> QED
    BY <2>0, <2>1, <2>2, <2>3, CursorKept, PassesStay DEF MeterInv
<1>2. CASE Meter!Next
  BY <1>2, FinishRunStep, CommitStep, TickStep, ReadRowStep, WriteRowStep, ChooseAccountStep,
     ReadRunsStep, ReportUsageStep, SaveCursorStep, CrashStep DEF Meter!Next, Meter!Report
<1> QED
  BY <1>1, <1>2
-----------------------------------------------------------------------------
(* Billing: the invariant. *)

\* The last event about a subscription was handled.
Told(s) == sub[s] # None /\ sub[s].version \in recorded

EventsInv ==
  /\ \A n \in Stripe!Events : event[n] # None =>
       /\ \A m \in 1..(n - 1) : event[m] # None
       /\ sub[event[n]] # None /\ n <= sub[event[n]].version
  /\ \A s \in Subs : sub[s] # None => event[sub[s].version] = s
  /\ \A e \in recorded : event[e] # None
  /\ ~doubled => \A s, t \in Subs : Stripe!IsLive(s) /\ Stripe!IsLive(t) => s = t

\* What a handler knows of its subscription is at least as new as its event; that it was
\* not overtaken means nothing was stored since it read.
HandlerOK(q) == q.pc # "idle" =>
  LET id == event[q.event] IN
  /\ q.event \in Stripe!Events /\ id \in Subs
  /\ q.snapshot \in Stripe!Sub /\ q.event <= q.snapshot.version
  /\ q.snapshot.version <= sub[id].version
  /\ q.snapshot.version = sub[id].version => q.snapshot = sub[id]
  /\ q.pc = "open" => q.event \notin recorded
  /\ ~q.overtaken =>
       /\ Told(id) => q.snapshot = sub[id]
       /\ ~doubled /\ q.snapshot.status \in Stripe!LIVE =>
            \A s \in Subs \ {id} : Stripe!IsLive(s) => ~Told(s)
       /\ q.pc = "open" /\ account # None => q.before = Stripe!Read
HandlersInv ==
  /\ \A h \in Handlers : HandlerOK(handler[h])
  /\ \A g, h \in Handlers : handler[g].pc = "open" /\ handler[h].pc = "open"
                            /\ handler[g].event = handler[h].event => g = h

\* The row says what its subscription's last event said, and shows the live one.
AccountInv == ~raced /\ ~doubled /\ account # None =>
  /\ account.id # None => sub[account.id] # None /\ (Told(account.id) => account.version = sub[account.id].version)
  /\ \A s \in Subs : Stripe!IsLive(s) /\ Told(s) => account.id = s

AppliedInv == \A e \in Stripe!Events : applied[e] <= 1 /\ (applied[e] = 1 => e \in recorded)

BillingInv == Stripe!TypeOK /\ EventsInv /\ HandlersInv /\ AccountInv /\ AppliedInv
-----------------------------------------------------------------------------
(* Billing: the steps. *)

LEMMA BillingConstants ==
  /\ MaxChanges \in Nat /\ MaxFaults \in Nat
  /\ None \notin Subs /\ None \notin Nat
  /\ None \notin Stripe!Sub /\ None \notin Stripe!Row /\ None \notin Stripe!Before
BY InstanceAssumption DEF Stripe!BillingAssumption

\* Stripe moves one subscription on and makes the event about it.
LEMMA TurnStep ==
  ASSUME BillingInv, NEW s \in Subs, NEW status \in Stripe!Statuses, Stripe!Turn(s, status),
         UNCHANGED <<recorded, account, handler, faults, applied, raced>>, sessions' \in Nat
  PROVE  BillingInv'
<1>0. Stripe!TypeOK /\ EventsInv /\ HandlersInv /\ AccountInv /\ AppliedInv
  BY DEF BillingInv
<1>1. PICK n \in Stripe!Events :
        /\ event[n] = None /\ \A m \in 1..(n - 1) : event[m] # None
        /\ sub' = [sub EXCEPT ![s] = [status |-> status, version |-> n]]
        /\ event' = [event EXCEPT ![n] = s]
        /\ doubled' = (doubled \/ \E t \in Subs \ {s} : Stripe!IsLive(t) /\ status \in Stripe!LIVE)
  BY DEF Stripe!Turn
<1>2. Stripe!Events = 1..MaxChanges /\ MaxChanges \in Nat /\ n \in Nat
  BY BillingConstants DEF Stripe!Events
<1>3. [status |-> status, version |-> n] \in Stripe!Sub
  BY DEF Stripe!Sub
<1>4. /\ sub'[s] = [status |-> status, version |-> n] /\ \A t \in Subs \ {s} : sub'[t] = sub[t]
      /\ event'[n] = s /\ \A m \in Stripe!Events \ {n} : event'[m] = event[m]
      /\ sub'[s] # None /\ sub'[s].version = n /\ sub'[s].status = status
  BY <1>0, <1>1, <1>3, BillingConstants DEF Stripe!TypeOK
<1>5. doubled' \in BOOLEAN /\ (doubled => doubled')
  BY <1>0, <1>1 DEF Stripe!TypeOK
<1>6. Stripe!TypeOK'
  BY <1>0, <1>1, <1>3, <1>5 DEF Stripe!TypeOK
<1>7. \A m \in Stripe!Events : event[m] # None => m < n
  BY <1>0, <1>1, <1>2 DEF EventsInv
<1>8. \A t \in Subs : sub[t] # None => sub[t].version \in Stripe!Events /\ sub[t].version < n
  <2>1. \A t \in Subs : sub[t] # None => sub[t].version \in Stripe!Events
    BY <1>0 DEF Stripe!TypeOK, Stripe!Sub
  <2> QED
    BY <1>0, <1>7, <2>1, BillingConstants DEF EventsInv
<1>9. n \notin recorded
  BY <1>0, <1>1 DEF EventsInv
\* The turned subscription's last event is new to everybody.
<1>10. ~Told(s)' /\ \A t \in Subs \ {s} : Told(t)' <=> Told(t)
  BY <1>4, <1>9 DEF Told
<1>11. \A t \in Subs \ {s} : Stripe!IsLive(t)' <=> Stripe!IsLive(t)
  BY <1>4 DEF Stripe!IsLive
<1>12. EventsInv'
  <2>1. ASSUME NEW m \in Stripe!Events, event'[m] # None
        PROVE  /\ \A k \in 1..(m - 1) : event'[k] # None
               /\ sub'[event'[m]] # None /\ m <= sub'[event'[m]].version
    <3>1. CASE m = n
      <4>1. \A k \in 1..(n - 1) : k \in Stripe!Events \ {n}
        BY <1>2
      <4> QED
        BY <1>1, <1>2, <1>4, <3>1, <4>1
    <3>2. CASE m # n
      <4>1. event[m] # None /\ event'[m] = event[m] /\ m < n /\ event[m] \in Subs
        BY <1>0, <1>4, <1>7, <2>1, <3>2 DEF Stripe!TypeOK
      <4>2. \A k \in 1..(m - 1) : event'[k] # None
        <5>1. \A k \in 1..(m - 1) : k \in Stripe!Events \ {n} /\ k \in 1..(n - 1)
          BY <1>2, <4>1
        <5> QED
          BY <1>1, <1>4, <5>1
      <4>3. CASE event[m] = s
        BY <1>2, <1>4, <4>1, <4>2, <4>3
      <4>4. CASE event[m] # s
        BY <1>0, <1>4, <4>1, <4>2, <4>4 DEF EventsInv
      <4> QED
        BY <4>3, <4>4
    <3> QED
      BY <3>1, <3>2
  <2>2. ASSUME NEW t \in Subs, sub'[t] # None PROVE event'[sub'[t].version] = t
    BY <1>0, <1>2, <1>4, <1>8, <2>2 DEF EventsInv
  <2>3. ASSUME NEW e \in recorded PROVE event'[e] # None
    BY <1>0, <1>4, <1>9 DEF EventsInv, Stripe!TypeOK
  <2>4. ASSUME ~doubled', NEW t \in Subs, NEW u \in Subs, Stripe!IsLive(t)', Stripe!IsLive(u)'
        PROVE  t = u
    <3>1. CASE t # s /\ u # s
      BY <1>0, <1>5, <1>11, <2>4, <3>1 DEF EventsInv
    <3>0. Stripe!IsLive(s)' => \A v \in Subs \ {s} : ~Stripe!IsLive(v)
      <4>1. Stripe!IsLive(s)' => status \in Stripe!LIVE
        BY <1>4 DEF Stripe!IsLive
      <4> QED
        BY <1>1, <2>4, <4>1
    <3>2. CASE t = s /\ u # s
      BY <1>11, <2>4, <3>0, <3>2
    <3>3. CASE u = s /\ t # s
      BY <1>11, <2>4, <3>0, <3>3
    <3> QED
      BY <3>1, <3>2, <3>3
  <2>5. UNCHANGED recorded
    OBVIOUS
  <2> QED
    BY <2>1, <2>2, <2>3, <2>4, <2>5 DEF EventsInv
<1>13. ASSUME NEW h \in Handlers PROVE HandlerOK(handler[h])'
  <2> SUFFICES ASSUME handler[h].pc # "idle" PROVE HandlerOK(handler[h])'
    BY DEF HandlerOK
  <2> DEFINE q == handler[h]
             id == event[q.event]
  <2>1. HandlerOK(q) /\ q' = q /\ q \in Stripe!Handler
    BY <1>0 DEF HandlersInv, Stripe!TypeOK
  <2>2. q.event \in Stripe!Events /\ id \in Subs /\ event'[q.event] = id
    <3>1. q.event \in Stripe!Events /\ id \in Subs
      BY <2>1 DEF HandlerOK
    <3>2. q.event # n
      BY <1>1, <3>1, BillingConstants
    <3> QED
      BY <1>4, <3>1, <3>2
  <2>3. /\ q.snapshot \in Stripe!Sub /\ q.event <= q.snapshot.version
        /\ q.snapshot.version <= sub[id].version /\ sub[id] # None
    BY <1>0, <2>1, <2>2, BillingConstants DEF HandlerOK, EventsInv
  <2>4. q.snapshot.version <= sub'[id].version
        /\ (q.snapshot.version = sub'[id].version => q.snapshot = sub'[id])
    <3>1. q.snapshot.version \in Nat /\ sub[id].version \in Nat
      BY <1>2, <1>8, <2>2, <2>3 DEF Stripe!Sub
    <3>2. CASE id = s
      BY <1>2, <1>4, <1>8, <2>2, <2>3, <3>1, <3>2
    <3>3. CASE id # s
      BY <1>4, <2>1, <2>2, <2>3, <3>3 DEF HandlerOK
    <3> QED
      BY <3>2, <3>3
  <2>5. Told(id)' => Told(id) /\ sub'[id] = sub[id]
    BY <1>4, <1>10, <2>2
  <2>6. ASSUME NEW t \in Subs \ {id}, Stripe!IsLive(t)', Told(t)' PROVE t # s /\ Stripe!IsLive(t) /\ Told(t)
    BY <1>10, <1>11, <2>6
  <2>7. Stripe!Read' = Stripe!Read
    BY DEF Stripe!Read
  <2>8. ASSUME ~q.overtaken
        PROVE  /\ (event'[q.event] = id /\ sub'[id] # None /\ sub'[id].version \in recorded => q.snapshot = sub'[id])
               /\ ~doubled' /\ q.snapshot.status \in Stripe!LIVE =>
                    \A t \in Subs \ {id} : Stripe!IsLive(t)' => ~Told(t)'
               /\ q.pc = "open" /\ account # None => q.before = Stripe!Read
    BY <1>5, <2>1, <2>5, <2>6, <2>8 DEF HandlerOK, Told
  <2> HIDE DEF q, id
  <2> QED
    BY <2>1, <2>2, <2>3, <2>4, <2>7, <2>8 DEF HandlerOK, Told, q
<1>14. HandlersInv'
  BY <1>0, <1>13 DEF HandlersInv
<1>15. AccountInv'
  <2> SUFFICES ASSUME ~raced, ~doubled', account # None
               PROVE  /\ account.id # None => sub'[account.id] # None
                                              /\ (Told(account.id)' => account.version = sub'[account.id].version)
                      /\ \A t \in Subs : Stripe!IsLive(t)' /\ Told(t)' => account.id = t
    BY DEF AccountInv
  <2>1. account.id # None => account.id \in Subs
    BY <1>0 DEF Stripe!TypeOK, Stripe!Row
  <2>2. /\ account.id # None => sub[account.id] # None /\ (Told(account.id) => account.version = sub[account.id].version)
        /\ \A t \in Subs : Stripe!IsLive(t) /\ Told(t) => account.id = t
    BY <1>0, <1>5 DEF AccountInv
  <2>3. \A t \in Subs : Stripe!IsLive(t)' /\ Told(t)' => account.id = t
    BY <1>10, <1>11, <2>2
  <2>4. CASE account.id = s
    BY <1>4, <1>9, <2>3, <2>4 DEF Told
  <2>5. CASE account.id # s
    BY <1>4, <2>1, <2>2, <2>3, <2>5 DEF Told
  <2> QED
    BY <2>4, <2>5
<1>16. AppliedInv'
  BY <1>0 DEF AppliedInv
<1> QED
  BY <1>6, <1>12, <1>14, <1>15, <1>16 DEF BillingInv

LEMMA StripeStep ==
  ASSUME BillingInv, NEW s \in Subs, Stripe!CompleteCheckout(s) \/ Stripe!Change(s)
  PROVE  BillingInv'
<1>0. sessions \in Nat
  BY DEF BillingInv, Stripe!TypeOK
<1>1. CASE Stripe!CompleteCheckout(s)
  <2>1. PICK status \in {"incomplete", "active"} : Stripe!Turn(s, status)
    BY <1>1 DEF Stripe!CompleteCheckout
  <2>2. UNCHANGED <<recorded, account, handler, faults, applied, raced>> /\ sessions' \in Nat
    BY <1>0, <1>1 DEF Stripe!CompleteCheckout
  <2>3. status \in Stripe!Statuses
    BY DEF Stripe!Statuses
  <2> QED
    BY <2>1, <2>2, <2>3, TurnStep
<1>2. CASE Stripe!Change(s)
  <2>1. sub[s].status \in Stripe!Statuses
    BY <1>2 DEF BillingInv, Stripe!TypeOK, Stripe!Change, Stripe!Sub
  <2>2. PICK status \in Stripe!Turns[sub[s].status] : Stripe!Turn(s, status)
    BY <1>2 DEF Stripe!Change
  <2>3. UNCHANGED <<recorded, account, handler, sessions, faults, applied, raced>>
    BY <1>2 DEF Stripe!Change
  <2>4. status \in Stripe!Statuses
    BY <2>1, <2>2 DEF Stripe!Statuses, Stripe!Turns
  <2> QED
    BY <1>0, <2>2, <2>3, <2>4, TurnStep
<1> QED
  BY <1>1, <1>2

\* One handler becomes z: what the others know is not touched.
LEMMA HandlersKept ==
  ASSUME HandlersInv, handler \in [Handlers -> Stripe!Handler], UNCHANGED <<sub, event, recorded, doubled, account>>,
         NEW h \in Handlers, NEW z \in Stripe!Handler, handler' = [handler EXCEPT ![h] = z],
         HandlerOK(z), z.pc = "open" => \A g \in Handlers \ {h} : ~(handler[g].pc = "open" /\ handler[g].event = z.event)
  PROVE  HandlersInv' /\ handler' \in [Handlers -> Stripe!Handler]
<1>1. handler'[h] = z /\ \A g \in Handlers \ {h} : handler'[g] = handler[g]
  OBVIOUS
<1>2. \A g \in Handlers : HandlerOK(handler'[g])
  BY <1>1 DEF HandlersInv
<1>3. \A g \in Handlers : HandlerOK(handler[g])'
  BY <1>2 DEF HandlerOK, Told, Stripe!IsLive, Stripe!Read
<1>4. \A f, g \in Handlers : handler'[f].pc = "open" /\ handler'[g].pc = "open"
                             /\ handler'[f].event = handler'[g].event => f = g
  BY <1>1 DEF HandlersInv
<1> QED
  BY <1>3, <1>4 DEF HandlersInv

\* Nothing but one handler changes.
HandlerStep == UNCHANGED <<sub, event, recorded, doubled, account, sessions, applied, raced>>

LEMMA HandlerSteps ==
  ASSUME BillingInv, HandlerStep, faults' \in 0..MaxFaults,
         NEW h \in Handlers, NEW z \in Stripe!Handler, handler' = [handler EXCEPT ![h] = z],
         HandlerOK(z), z.pc = "open" => \A g \in Handlers \ {h} : ~(handler[g].pc = "open" /\ handler[g].event = z.event)
  PROVE  BillingInv'
<1>0. Stripe!TypeOK /\ EventsInv /\ HandlersInv /\ AccountInv /\ AppliedInv
  BY DEF BillingInv
<1>1. UNCHANGED <<sub, event, recorded, doubled, account, sessions, applied, raced>>
  BY DEF HandlerStep
<1>2. HandlersInv' /\ handler' \in [Handlers -> Stripe!Handler]
  BY <1>0, <1>1, HandlersKept DEF Stripe!TypeOK
<1>3. Stripe!TypeOK'
  BY <1>0, <1>1, <1>2 DEF Stripe!TypeOK
<1>4. EventsInv' /\ AccountInv' /\ AppliedInv'
  BY <1>0, <1>1 DEF EventsInv, AccountInv, AppliedInv, Told, Stripe!IsLive
<1> QED
  BY <1>2, <1>3, <1>4 DEF BillingInv

LEMMA IdleHandler == Stripe!Idle \in Stripe!Handler /\ Stripe!Idle.pc = "idle" /\ HandlerOK(Stripe!Idle)
BY DEF Stripe!Idle, Stripe!Handler, HandlerOK

LEMMA RetrieveStep ==
  ASSUME BillingInv, NEW h \in Handlers, Stripe!RetrieveSubscription(h)
  PROVE  BillingInv'
<1>0. Stripe!TypeOK /\ EventsInv
  BY DEF BillingInv
<1>1. PICK e \in Stripe!Events :
        /\ event[e] # None
        /\ handler' = [handler EXCEPT ![h] =
             [Stripe!Idle EXCEPT !.pc = "retrieved", !.event = e, !.snapshot = sub[event[e]]]]
        /\ UNCHANGED <<sub, event, doubled, recorded, account, sessions, faults, applied, raced>>
  BY DEF Stripe!RetrieveSubscription, Stripe!Pending, Stripe!stripe
<1>2. event[e] \in Subs /\ sub[event[e]] \in Stripe!Sub /\ e <= sub[event[e]].version
  BY <1>0, <1>1 DEF Stripe!TypeOK, EventsInv
<1>3. PICK z \in Stripe!Handler :
        /\ handler' = [handler EXCEPT ![h] = z]
        /\ z.pc = "retrieved" /\ z.event = e /\ z.snapshot = sub[event[e]] /\ ~z.overtaken
  <2> DEFINE z == [Stripe!Idle EXCEPT !.pc = "retrieved", !.event = e, !.snapshot = sub[event[e]]]
  <2>1. z \in Stripe!Handler
    BY <1>2, IdleHandler DEF Stripe!Handler
  <2>2. z.pc = "retrieved" /\ z.event = e /\ z.snapshot = sub[event[e]] /\ ~z.overtaken
    BY DEF Stripe!Idle
  <2> QED
    BY <1>1, <2>1, <2>2
<1>4. z.snapshot.status \in Stripe!LIVE => Stripe!IsLive(event[e])
  BY <1>2, <1>3, BillingConstants DEF Stripe!IsLive
<1>5. ~doubled /\ z.snapshot.status \in Stripe!LIVE => \A s \in Subs \ {event[e]} : ~Stripe!IsLive(s)
  BY <1>0, <1>2, <1>4 DEF EventsInv
<1>6. sub[event[e]].version <= sub[event[e]].version
  BY <1>2 DEF Stripe!Sub, Stripe!Events
<1>7. HandlerOK(z)
  BY <1>1, <1>2, <1>3, <1>5, <1>6 DEF HandlerOK
<1> QED
  BY <1>0, <1>1, <1>3, <1>7, HandlerSteps DEF HandlerStep, Stripe!TypeOK

LEMMA ReadType == Stripe!TypeOK => Stripe!Read \in Stripe!Before \cup {None}
BY DEF Stripe!TypeOK, Stripe!Read, Stripe!Row, Stripe!Before

LEMMA OpenStep ==
  ASSUME BillingInv, NEW h \in Handlers, Stripe!OpenTransaction(h)
  PROVE  BillingInv'
<1>0. Stripe!TypeOK /\ HandlersInv
  BY DEF BillingInv
<1>1. /\ handler[h].pc = "retrieved"
      /\ \A g \in Handlers \ {h} : ~(handler[g].pc = "open" /\ handler[g].event = handler[h].event)
      /\ HandlerStep /\ faults' \in 0..MaxFaults
  BY <1>0 DEF Stripe!OpenTransaction, Stripe!stripe, HandlerStep, Stripe!TypeOK
<1>2. CASE handler[h].event \in recorded
  <2>1. handler' = [handler EXCEPT ![h] = Stripe!Idle]
    BY <1>2 DEF Stripe!OpenTransaction
  <2> QED
    BY <1>1, <2>1, IdleHandler, HandlerSteps
<1>3. CASE handler[h].event \notin recorded
  <2>0. handler[h] \in Stripe!Handler /\ handler \in [Handlers -> Stripe!Handler]
        /\ Stripe!Read \in Stripe!Before \cup {None}
    BY <1>0, ReadType DEF Stripe!TypeOK
  <2>1. PICK z \in Stripe!Handler :
          /\ handler' = [handler EXCEPT ![h] = z]
          /\ z.pc = "open" /\ z.before = Stripe!Read /\ z.event = handler[h].event
          /\ z.snapshot = handler[h].snapshot /\ z.overtaken = handler[h].overtaken
    <3> DEFINE z == [handler[h] EXCEPT !.pc = "open", !.before = Stripe!Read]
    <3>1. handler' = [handler EXCEPT ![h] = z]
      BY <1>3, <2>0 DEF Stripe!OpenTransaction
    <3>2. z \in Stripe!Handler
      BY <2>0 DEF Stripe!Handler
    <3>3. /\ z.pc = "open" /\ z.before = Stripe!Read /\ z.event = handler[h].event
          /\ z.snapshot = handler[h].snapshot /\ z.overtaken = handler[h].overtaken
      BY <2>0 DEF Stripe!Handler
    <3> QED
      BY <3>1, <3>2, <3>3
  <2>2. HandlerOK(z)
    BY <1>0, <1>1, <1>3, <2>1 DEF HandlersInv, HandlerOK
  <2> QED
    BY <1>1, <2>1, <2>2, HandlerSteps
<1> QED
  BY <1>2, <1>3

LEMMA FailStep ==
  ASSUME BillingInv, NEW h \in Handlers, Stripe!Fail(h)
  PROVE  BillingInv'
<1>1. handler' = [handler EXCEPT ![h] = Stripe!Idle] /\ HandlerStep
  BY DEF Stripe!Fail, Stripe!stripe, HandlerStep
<1>2. faults' \in 0..MaxFaults
  BY BillingConstants DEF Stripe!Fail, BillingInv, Stripe!TypeOK
<1> QED
  BY <1>1, <1>2, IdleHandler, HandlerSteps

LEMMA CompanyStep ==
  ASSUME BillingInv, Stripe!StartCheckout \/ Stripe!DeleteCompany
  PROVE  BillingInv'
<1>0. Stripe!TypeOK /\ EventsInv /\ HandlersInv /\ AccountInv /\ AppliedInv
  BY DEF BillingInv
<1>1. /\ UNCHANGED <<sub, event, doubled, recorded, handler, faults, applied, raced>>
      /\ sessions' \in Nat /\ account' \in {account, None}
  BY <1>0 DEF Stripe!StartCheckout, Stripe!DeleteCompany, Stripe!stripe, Stripe!TypeOK
<1>2. Stripe!TypeOK'
  BY <1>0, <1>1 DEF Stripe!TypeOK
<1>3. EventsInv' /\ AppliedInv'
  BY <1>0, <1>1 DEF EventsInv, AppliedInv, Stripe!IsLive
<1>4. AccountInv'
  BY <1>0, <1>1 DEF AccountInv, Told, Stripe!IsLive
<1>5. HandlersInv'
  <2>1. ASSUME NEW h \in Handlers PROVE HandlerOK(handler[h])'
    <3>1. HandlerOK(handler[h])
      BY <1>0 DEF HandlersInv
    <3>2. account' # None => Stripe!Read' = Stripe!Read /\ account # None
      BY <1>1 DEF Stripe!Read
    <3> QED
      BY <1>1, <3>1, <3>2 DEF HandlerOK, Told, Stripe!IsLive
  <2> QED
    BY <1>0, <1>1, <2>1 DEF HandlersInv
<1> QED
  BY <1>2, <1>3, <1>4, <1>5 DEF BillingInv

\* A transaction commits: its event counts as handled, and whoever else had read is overtaken.
LEMMA ApplyStep ==
  ASSUME BillingInv, NEW h \in Handlers, Stripe!Apply(h)
  PROVE  BillingInv'
<1> DEFINE q == handler[h]
           id == event[q.event]
           applies == ~(q.before = None \/ Stripe!Ignored(q.before, q.snapshot, id))
<1>0. Stripe!TypeOK /\ EventsInv /\ HandlersInv /\ AccountInv /\ AppliedInv
  BY DEF BillingInv
<1>1. /\ q.pc = "open" /\ ~Stripe!Orphaned(h)
      /\ recorded' = recorded \cup {q.event} /\ raced' = (raced \/ q.overtaken)
      /\ handler' = [g \in Handlers |-> IF g = h THEN Stripe!Idle
                                        ELSE [handler[g] EXCEPT !.overtaken = @ \/ handler[g].snapshot # None]]
      /\ ~applies => UNCHANGED <<account, applied>>
      /\ applies => /\ account' = [comped |-> FALSE, status |-> q.snapshot.status, id |-> id,
                                   version |-> q.snapshot.version,
                                   pastDueSince |-> Stripe!PastDueSince(q.before, q.snapshot, q.event)]
                    /\ applied' = [applied EXCEPT ![q.event] = @ + 1]
      /\ UNCHANGED <<sub, event, doubled, sessions, faults>>
  BY DEF Stripe!Apply, Stripe!stripe
<1>2. q \in Stripe!Handler /\ HandlerOK(q) /\ handler \in [Handlers -> Stripe!Handler]
  BY <1>0 DEF Stripe!TypeOK, HandlersInv
<1>3. /\ q.event \in Stripe!Events /\ id \in Subs /\ q.snapshot \in Stripe!Sub /\ q.event <= q.snapshot.version
      /\ q.snapshot.version <= sub[id].version /\ (q.snapshot.version = sub[id].version => q.snapshot = sub[id])
      /\ q.event \notin recorded
      /\ sub[id] # None /\ sub[id] \in Stripe!Sub
  BY <1>0, <1>1, <1>2, BillingConstants DEF HandlerOK, EventsInv, Stripe!TypeOK
<1>4. Stripe!Events = 1..MaxChanges /\ Stripe!Events \subseteq Nat /\ q.event \in Nat
      /\ q.snapshot.version \in Nat /\ sub[id].version \in Nat
  BY <1>3, BillingConstants DEF Stripe!Events, Stripe!Sub
<1> HIDE DEF applies
\* The event was the last about its subscription: the handler has read it as it is.
<1>5. q.event = sub[id].version => q.snapshot = sub[id]
  BY <1>3, <1>4
<1>6. /\ applied' \in [Stripe!Events -> Nat] /\ AppliedInv'
  <2>1. applied \in [Stripe!Events -> Nat] /\ applied[q.event] \in Nat /\ applied[q.event] <= 1
        /\ applied[q.event] # 1
    BY <1>0, <1>3 DEF Stripe!TypeOK, AppliedInv
  <2>2. applied[q.event] = 0
    BY <2>1
  <2>3. applied' = applied \/ applied' = [applied EXCEPT ![q.event] = 1]
    BY <1>1, <2>2
  <2> QED
    BY <1>0, <1>1, <1>3, <2>1, <2>3 DEF AppliedInv
<1>7. q.before \in Stripe!Before \cup {None}
  BY <1>2 DEF Stripe!Handler
<1>8. account' \in Stripe!Row \cup {None}
  <2>1. CASE applies
    <3>1. q.before \in Stripe!Before
      BY <1>7, <2>1 DEF applies
    <3>2. Stripe!PastDueSince(q.before, q.snapshot, q.event) \in Stripe!Events \cup {None}
      BY <1>3, <3>1 DEF Stripe!PastDueSince, Stripe!Before
    <3>3. q.snapshot.status \in Stripe!Statuses /\ q.snapshot.version \in 0..MaxChanges
      BY <1>3, BillingConstants DEF Stripe!Sub, Stripe!Events
    <3>4. PICK no \in BOOLEAN : no = FALSE
      OBVIOUS
    <3>5. account' = [comped |-> no, status |-> q.snapshot.status, id |-> id, version |-> q.snapshot.version,
                      pastDueSince |-> Stripe!PastDueSince(q.before, q.snapshot, q.event)]
      BY <1>1, <2>1, <3>4
    <3> QED
      BY <1>3, <3>2, <3>3, <3>5 DEF Stripe!Row
  <2>2. CASE ~applies
    BY <1>0, <1>1, <2>2 DEF Stripe!TypeOK
  <2> QED
    BY <2>1, <2>2
\* The others.
<1>9. ASSUME NEW g \in Handlers \ {h}
      PROVE  /\ handler'[g] \in Stripe!Handler
             /\ handler'[g].pc = handler[g].pc /\ handler'[g].event = handler[g].event
             /\ handler'[g].snapshot = handler[g].snapshot
             /\ handler[g].pc # "idle" => handler'[g].overtaken
  <2>1. handler[g] \in Stripe!Handler /\ HandlerOK(handler[g])
    BY <1>0 DEF Stripe!TypeOK, HandlersInv
  <2>2. PICK b \in BOOLEAN : b = (handler[g].overtaken \/ handler[g].snapshot # None)
    OBVIOUS
  <2>3. handler'[g] = [handler[g] EXCEPT !.overtaken = b]
    BY <1>1, <2>2
  <2>4. handler[g].pc # "idle" => b
    BY <2>1, <2>2, BillingConstants DEF HandlerOK
  <2> QED
    BY <2>1, <2>3, <2>4 DEF Stripe!Handler
<1>10. handler'[h] = Stripe!Idle /\ handler' \in [Handlers -> Stripe!Handler]
  BY <1>1, <1>9, IdleHandler
<1>11. Stripe!TypeOK'
  BY <1>0, <1>1, <1>3, <1>6, <1>8, <1>10 DEF Stripe!TypeOK
<1>12. EventsInv'
  BY <1>0, <1>1, <1>3, BillingConstants DEF EventsInv, Stripe!IsLive
<1>13. HandlersInv'
  <2>1. ASSUME NEW g \in Handlers PROVE HandlerOK(handler[g])'
    <3>1. CASE g = h
      BY <1>10, <3>1, IdleHandler DEF HandlerOK
    <3>2. CASE g # h /\ handler[g].pc # "idle"
      <4>1. HandlerOK(handler[g])
        BY <1>0 DEF HandlersInv
      <4>2. handler[g].pc = "open" => handler[g].event # q.event
        BY <1>0, <1>1, <3>2 DEF HandlersInv
      <4> QED
        BY <1>1, <1>9, <3>2, <4>1, <4>2, SMTT(60) DEF HandlerOK
    <3>3. CASE g # h /\ handler[g].pc = "idle"
      BY <1>9, <3>3 DEF HandlerOK
    <3> QED
      BY <3>1, <3>2, <3>3
  <2>2. ASSUME NEW f \in Handlers, NEW g \in Handlers, handler'[f].pc = "open", handler'[g].pc = "open",
               handler'[f].event = handler'[g].event
        PROVE  f = g
    <3>1. f # h /\ g # h
      BY <1>10, <2>2, IdleHandler
    <3> QED
      BY <1>0, <1>9, <2>2, <3>1 DEF HandlersInv
  <2> QED
    BY <2>1, <2>2 DEF HandlersInv
\* What the row shows, when nobody has overtaken the handler.
<1>14. AccountInv'
  <2> SUFFICES ASSUME ~raced', ~doubled', account' # None
               PROVE  /\ account'.id # None => sub'[account'.id] # None
                            /\ (sub'[account'.id].version \in recorded' => account'.version = sub'[account'.id].version)
                      /\ \A s \in Subs : Stripe!IsLive(s)' /\ Told(s)' => account'.id = s
    BY DEF AccountInv, Told
  <2>1. ~raced /\ ~q.overtaken /\ ~doubled
    BY <1>1
  <2>2. account # None
    <3>1. ASSUME account = None PROVE FALSE
      <4>1. q.before = None
        BY <1>1, <3>1 DEF Stripe!Orphaned
      <4> QED
        BY <1>1, <3>1, <4>1 DEF applies
    <3> QED
      BY <3>1
  <2>3. q.before = [id |-> account.id, pastDueSince |-> account.pastDueSince] /\ q.before # None
        /\ q.before.id = account.id
    <3>1. q.before = Stripe!Read
      BY <1>1, <1>2, <2>1, <2>2 DEF HandlerOK
    <3>2. Stripe!Read \in Stripe!Before
      BY <1>0, <2>2 DEF Stripe!TypeOK, Stripe!Read, Stripe!Row, Stripe!Before
    <3> QED
      BY <2>2, <3>1, <3>2, BillingConstants DEF Stripe!Read
  <2>4. /\ Told(id) => q.snapshot = sub[id]
        /\ q.snapshot.status \in Stripe!LIVE => \A s \in Subs \ {id} : Stripe!IsLive(s) => ~Told(s)
    BY <1>1, <1>2, <2>1 DEF HandlerOK
  <2>5. /\ account.id # None => sub[account.id] # None /\ (Told(account.id) => account.version = sub[account.id].version)
        /\ \A s \in Subs : Stripe!IsLive(s) /\ Told(s) => account.id = s
    BY <1>0, <2>1, <2>2 DEF AccountInv
  <2>6. \A s \in Subs : Stripe!IsLive(s)' <=> Stripe!IsLive(s)
    BY <1>1 DEF Stripe!IsLive
  <2>7. ASSUME NEW s \in Subs \ {id}, Told(s)' PROVE Told(s)
    <3>1. sub[s] # None /\ event[sub[s].version] = s
      BY <1>0, <1>1, <2>7 DEF Told, EventsInv
    <3> QED
      BY <1>1, <2>7, <3>1 DEF Told
  <2>8. sub[id].version \in recorded' => q.snapshot = sub[id]
    BY <1>1, <1>3, <1>5, <2>4 DEF Told
  <2>9. account.id \in Subs \cup {None}
    BY <1>0, <2>2 DEF Stripe!TypeOK, Stripe!Row
  <2>10. CASE ~applies
    <3>1. account.id # None /\ account.id # id /\ q.snapshot.status \notin Stripe!LIVE /\ account' = account
      BY <1>1, <2>3, <2>10 DEF applies, Stripe!Ignored
    <3>2. account.id \in Subs \ {id}
      BY <2>9, <3>1
    <3>3. sub[account.id] # None /\ (sub[account.id].version \in recorded' => Told(account.id))
      BY <1>1, <2>5, <2>7, <3>1, <3>2 DEF Told
    <3>4. ASSUME NEW s \in Subs, Stripe!IsLive(s), Told(s)' PROVE account.id = s
      <4>1. s # id
        BY <1>1, <2>8, <3>1, <3>4 DEF Stripe!IsLive, Told
      <4> QED
        BY <2>5, <2>7, <3>4, <4>1
    <3> QED
      BY <1>1, <2>5, <2>6, <3>1, <3>3, <3>4
  <2>11. CASE applies
    <3>1. account'.id = id /\ account'.version = q.snapshot.version
      BY <1>1, <2>11
    <3>2. sub[id].version \in recorded' => account'.version = sub[id].version
      BY <2>8, <3>1
    <3>3. ASSUME NEW s \in Subs, Stripe!IsLive(s), Told(s)', s # id PROVE FALSE
      <4>1. Told(s) /\ account.id = s
        BY <2>5, <2>7, <3>3
      <4>2. q.snapshot.status \in Stripe!LIVE
        BY <2>3, <2>11, <3>3, <4>1, BillingConstants DEF applies, Stripe!Ignored
      <4> QED
        BY <2>4, <3>3, <4>1, <4>2
    <3> QED
      BY <1>1, <1>3, <2>6, <3>1, <3>2, <3>3
  <2> QED
    BY <2>10, <2>11
<1> QED
  BY <1>6, <1>11, <1>12, <1>13, <1>14 DEF BillingInv

LEMMA BillingInit ==
  ASSUME Stripe!Init
  PROVE  BillingInv
<1>0. /\ sub = [s \in Subs |-> None] /\ event = [e \in Stripe!Events |-> None] /\ recorded = {}
      /\ handler = [h \in Handlers |-> Stripe!Idle] /\ sessions = 0 /\ faults = 0
      /\ applied = [e \in Stripe!Events |-> 0] /\ raced = FALSE /\ doubled = FALSE
  BY DEF Stripe!Init
<1>1. /\ account \in Stripe!Row /\ account.id = None
  <2>1. PICK comped \in BOOLEAN : account = [Stripe!NoSubscription EXCEPT !.comped = comped]
    BY DEF Stripe!Init
  <2>2. Stripe!NoSubscription \in Stripe!Row
    BY BillingConstants DEF Stripe!NoSubscription, Stripe!Row
  <2>3. account \in Stripe!Row
    BY <2>1, <2>2 DEF Stripe!Row
  <2> QED
    BY <2>1, <2>3 DEF Stripe!NoSubscription
<1>2. Stripe!TypeOK
  <2>1. applied \in [Stripe!Events -> Nat] /\ sessions \in Nat /\ faults \in 0..MaxFaults
    BY <1>0, BillingConstants
  <2>3. raced \in BOOLEAN /\ doubled \in BOOLEAN
    BY <1>0
  <2>2. /\ sub \in [Subs -> Stripe!Sub \cup {None}] /\ event \in [Stripe!Events -> Subs \cup {None}]
        /\ recorded \subseteq Stripe!Events /\ handler \in [Handlers -> Stripe!Handler]
    BY <1>0, IdleHandler
  <2> QED
    BY <1>1, <2>1, <2>2, <2>3 DEF Stripe!TypeOK
<1>3. EventsInv /\ AppliedInv
  BY <1>0 DEF EventsInv, AppliedInv, Stripe!IsLive
<1>4. HandlersInv
  BY <1>0, IdleHandler DEF HandlersInv
<1>5. AccountInv
  BY <1>0, <1>1 DEF AccountInv, Told
<1> QED
  BY <1>2, <1>3, <1>4, <1>5 DEF BillingInv

LEMMA BillingStep ==
  ASSUME BillingInv, Stripe!Next \/ UNCHANGED billing
  PROVE  BillingInv'
<1>1. CASE UNCHANGED billing
  BY <1>1 DEF billing, BillingInv, Stripe!TypeOK, EventsInv, HandlersInv, HandlerOK, AccountInv, AppliedInv,
     Told, Stripe!IsLive, Stripe!Read
<1>2. CASE Stripe!Next
  BY <1>2, StripeStep, CompanyStep, RetrieveStep, OpenStep, ApplyStep, FailStep
  DEF Stripe!Next, Stripe!Stripe, Stripe!Handle
<1> QED
  BY <1>1, <1>2

\* A handler nobody has overtaken knows since when the row is past due.
LEMMA GraceStep ==
  ASSUME BillingInv, Stripe!Next \/ UNCHANGED billing, account # None, account' # None,
         account.pastDueSince # None, account'.pastDueSince # None
  PROVE  account'.pastDueSince = account.pastDueSince \/ raced'
<1> SUFFICES ASSUME account' # account, ~raced' PROVE account'.pastDueSince = account.pastDueSince
  OBVIOUS
<1>1. PICK h \in Handlers : Stripe!Apply(h)
  BY DEF billing, Stripe!Next, Stripe!Stripe, Stripe!CompleteCheckout, Stripe!Change, Stripe!StartCheckout,
     Stripe!DeleteCompany, Stripe!RetrieveSubscription, Stripe!Handle, Stripe!OpenTransaction, Stripe!Fail
<1> DEFINE q == handler[h]
<1>2. /\ q.pc = "open" /\ ~q.overtaken
      /\ account'.pastDueSince = Stripe!PastDueSince(q.before, q.snapshot, q.event)
  <2>1. q.pc = "open" /\ raced' = (raced \/ q.overtaken)
    BY <1>1 DEF Stripe!Apply
  <2>2. account' = [comped |-> FALSE, status |-> q.snapshot.status, id |-> event[q.event],
                    version |-> q.snapshot.version,
                    pastDueSince |-> Stripe!PastDueSince(q.before, q.snapshot, q.event)]
    BY <1>1 DEF Stripe!Apply
  <2> QED
    BY <2>1, <2>2
<1>3. HandlerOK(q) /\ account \in Stripe!Row
  BY DEF BillingInv, HandlersInv, Stripe!TypeOK
<1>4. q.before = Stripe!Read
  BY <1>2, <1>3 DEF HandlerOK
<1>5. q.before.pastDueSince = account.pastDueSince
  BY <1>4 DEF Stripe!Read
<1> QED
  BY <1>2, <1>5 DEF Stripe!PastDueSince
-----------------------------------------------------------------------------
(* The theorems about the three together. *)

\* Whatever is the subject, each of the others stays as it started.
LEMMA CompanyInit == MCInit => BillingInv /\ MeterInv
BY BillingInit, MeterInit DEF MCInit

LEMMA CompanySteps ==
  ASSUME [MCNext]_MCVars
  PROVE  /\ Stripe!Next \/ UNCHANGED billing
         /\ Meter!Next \/ UNCHANGED metering
<1>1. Stripe!Next \/ UNCHANGED billing
  BY DEF MCNext, MCVars, Team, Paying, Metered, Stripe!Next, Stripe!Stripe, Stripe!Handle
<1>2. Meter!Next \/ UNCHANGED metering
  BY DEF MCNext, MCVars, Team, Paying, Metered, Meter!Next, Meter!Report
<1> QED
  BY <1>1, <1>2

LEMMA CompanyInvariance == MCSpec => [](BillingInv /\ MeterInv)
<1>1. BillingInv /\ MeterInv /\ [MCNext]_MCVars => (BillingInv /\ MeterInv)'
  BY CompanySteps, BillingStep, MeterStep
<1> QED
  BY CompanyInit, <1>1, PTL DEF MCSpec

\* Late, repeated and reordered Stripe events leave the latest subscription in the row,
\* and each has its effect once, however many handlers work on them.
THEOREM LatestIsStored == MCSpec => []LatestStored
<1>1. BillingInv => LatestStored
  <2> SUFFICES ASSUME BillingInv PROVE Stripe!LatestStored /\ Stripe!AppliedOnce
    BY DEF LatestStored
  <2>1. Stripe!AppliedOnce
    BY DEF BillingInv, AppliedInv, Stripe!AppliedOnce
  <2>2. ASSUME Stripe!Quiet, NEW s \in Subs, sub[s] # None PROVE Told(s)
    <3>1. sub[s].version \in Stripe!Events /\ event[sub[s].version] = s
      BY <2>2 DEF BillingInv, Stripe!TypeOK, Stripe!Sub, EventsInv
    <3> QED
      BY <2>2, <3>1, BillingConstants DEF Stripe!Quiet, Stripe!Pending, Told
  <2>3. account # None => account.id \in Subs \cup {None}
    BY DEF BillingInv, Stripe!TypeOK, Stripe!Row
  <2>4. Stripe!LatestStored
    BY <2>2, <2>3 DEF BillingInv, AccountInv, Stripe!LatestStored, Stripe!IsLive
  <2> QED
    BY <2>1, <2>4
<1> QED
  BY CompanyInvariance, <1>1, PTL

\* The grace period of a row that stays past due starts once, unless a handler writes
\* what it read before another's transaction.
THEOREM GraceRunsOn == MCSpec => GraceRuns
<1>1. BillingInv /\ [MCNext]_MCVars =>
        [account # None /\ account' # None /\ account.pastDueSince # None /\ account'.pastDueSince # None
           => account'.pastDueSince = account.pastDueSince \/ raced']_billing
  BY CompanySteps, GraceStep
<1>2. MCSpec => [][account # None /\ account' # None /\ account.pastDueSince # None
                   /\ account'.pastDueSince # None
                     => account'.pastDueSince = account.pastDueSince \/ raced']_billing
  BY CompanyInvariance, <1>1, PTL DEF MCSpec
<1> QED
  BY <1>2 DEF GraceRuns, Stripe!GraceRuns, Stripe!vars, billing

\* However the passes and the webhook overlap and write over each other, the cursor
\* never lies past a run that counts and Stripe has not got, but for its age.
THEOREM UsageNotSkipped == MCSpec => []NothingSkipped
<1>1. MeterInv => NothingSkipped
  BY DEF MeterInv, CursorInv, Covered, Due, NothingSkipped, Meter!NothingSkipped
<1> QED
  BY CompanyInvariance, <1>1, PTL
=============================================================================
