----------------------------- MODULE Memberships -----------------------------
(***************************************************************************)
(* Who belongs to one workspace and as what (services/team.ts,             *)
(* auth/workspaces.ts, auth/tokens.ts, billing/seats.ts, sso/login.ts,     *)
(* sso/directory.ts, account deletion).  Requests and directory events run *)
(* at once; each reads its caller's role before its transaction, its       *)
(* target's inside it, and writes in a later statement.  Joining takes a   *)
(* seat under an advisory lock, an invite is claimed by a conditional      *)
(* update that holds its row until the commit.                             *)
(***************************************************************************)
EXTENDS Integers, FiniteSets

CONSTANTS
  Users,
  Founder,         \* who created the workspace
  Requests,        \* requests and directory events under way
  Operations,      \* the kinds of them this instance lets happen
  Limits,          \* the seat limits billing may set; None is no limit
  MaxRequests,     \* bound: requests begun
  None             \* SQL NULL

VARIABLES
  member,   \* Membership rows: their id and role, None if absent
  invite,   \* CompanyInvite rows, one per address
  limit,    \* seatLimit of the billing account
  req,      \* the requests
  begun,    \* how many requests were begun
  sent,     \* how often each person was invited, not counting replaced invites
  joined,   \* how often each person joined by an invite
  withdrawn \* how often an invite nobody had claimed was revoked or expired

vars == <<member, invite, limit, req, begun, sent, joined, withdrawn>>
ghosts == <<sent, joined, withdrawn>>

Roles == {"OWNER", "ADMIN", "MEMBER"}
Row == [id: Nat, role: Roles]

TeamOps == {"role", "remove", "transfer", "deprovision", "delete"}
SeatOps == {"invite", "accept", "join"}

ASSUME ConstantsAssumption ==
  /\ Founder \in Users
  /\ IsFiniteSet(Users)
  /\ Operations \subseteq TeamOps \cup SeatOps
  /\ Limits \subseteq Nat \cup {None}
  /\ MaxRequests \in Nat
  /\ None \notin Nat \cup Users \cup Row \cup Roles

Request == [op: TeamOps \cup SeatOps \cup {None},
            no: Nat,                    \* the id of the row it may create
            pc: {"idle", "begun", "read", "claimed", "waiting", "locked", "counted", "free"},
            actor: Users \cup {None}, target: Users \cup {None},
            as: Roles \cup {None},      \* the caller's role, as the guards read it
            give: Roles \cup {None},    \* the role to give
            seen: Row \cup {None},      \* the target's row, as the transaction read it
            limit: Nat \cup {None},     \* the seat limit it read
            overtaken: BOOLEAN,         \* a join without a limit committed since it counted
            stale: BOOLEAN]             \* some role changed since it began

Idle == [op |-> None, no |-> 0, pc |-> "idle", actor |-> None, target |-> None, as |-> None, give |-> None,
         seen |-> None, limit |-> None, overtaken |-> FALSE, stale |-> FALSE]

TypeOK ==
  /\ member \in [Users -> Row \cup {None}]
  /\ invite \in [Users -> [status: {"none", "pending", "accepted", "expired"}, role: Roles]]
  /\ limit \in Limits
  /\ req \in [Requests -> Request]
  /\ begun \in Nat
  /\ sent \in [Users -> Nat]
  /\ joined \in [Users -> Nat]
  /\ withdrawn \in [Users -> Nat]

Members == {u \in Users : member[u] # None}
RoleOf(u) == IF member[u] = None THEN None ELSE member[u].role
Owners == {u \in Users : RoleOf(u) = "OWNER"}
CanAdmin(role) == role \in {"OWNER", "ADMIN"}

\* createWorkspace
Init ==
  /\ member = [u \in Users |-> IF u = Founder THEN [id |-> 0, role |-> "OWNER"] ELSE None]
  /\ invite = [u \in Users |-> [status |-> "none", role |-> "MEMBER"]]
  /\ limit \in Limits
  /\ req = [r \in Requests |-> Idle]
  /\ begun = 0
  /\ sent = [u \in Users |-> 0]
  /\ joined = [u \in Users |-> 0]
  /\ withdrawn = [u \in Users |-> 0]

To(r, pc) == req' = [req EXCEPT ![r].pc = pc]
Done(r) == req' = [req EXCEPT ![r] = Idle]
-----------------------------------------------------------------------------
(* A request begins: the guards and the checks before its transaction.      *)

Begin(r, op, actor, target, give) ==
  /\ req[r].pc = "idle"
  /\ op \in Operations
  /\ begun < MaxRequests
  /\ begun' = begun + 1
  /\ req' = [req EXCEPT ![r] = [Idle EXCEPT !.op = op, !.no = begun', !.pc = "begun", !.actor = actor,
               !.target = target, !.give = give, !.as = IF actor = None THEN None ELSE RoleOf(actor)]]
  /\ UNCHANGED <<member, invite, limit, ghosts>>

\* updateMemberRole: not one's own role, and only an owner makes owners.
BeginRole(r) == \E a \in Members, u \in Users, role \in Roles :
  /\ u # a
  /\ CanAdmin(RoleOf(a))
  /\ role = "OWNER" => RoleOf(a) = "OWNER"
  /\ Begin(r, "role", a, u, role)

\* removeMember
BeginRemove(r) == \E a \in Members, u \in Users :
  u # a /\ CanAdmin(RoleOf(a)) /\ Begin(r, "remove", a, u, None)

\* transferOwnership: give is what the outgoing owner stays as.
BeginTransfer(r) == \E a \in Owners, u \in Users, stayAs \in Roles \ {"OWNER"} :
  u # a /\ Begin(r, "transfer", a, u, stayAs)

\* A directory event that deactivates or deletes a person; it has no actor.
BeginDeprovision(r) == \E u \in Users : Begin(r, "deprovision", None, u, None)

\* deleteAccountAction: another owner must be there to inherit the person's data.
BeginDelete(r) == \E a \in Members : Owners \ {a} # {} /\ Begin(r, "delete", a, a, None)

\* inviteMember, for somebody who is not a member yet.
BeginInvite(r) == \E a \in Members, u \in Users \ Members, role \in Roles \ {"OWNER"} :
  CanAdmin(RoleOf(a)) /\ Begin(r, "invite", a, u, role)

\* acceptInvite and registration through an invite: the role is read here.
BeginAccept(r) == \E u \in Users :
  invite[u].status = "pending" /\ Begin(r, "accept", u, u, invite[u].role)

\* Auto-join at a single sign-on, or a directory event that adds a person.
BeginJoin(r) == \E u \in Users \ Members : Begin(r, "join", None, u, "MEMBER")
-----------------------------------------------------------------------------
(* Changes of roles: the transaction reads the target and decides ...       *)

\* mutant: a directory event removes whoever it names
Forbidden_DirectoryTrusted(r) ==
  LET q == req[r] IN
  \/ member[q.target] = None
  \/ q.op \in {"role", "remove"} /\ RoleOf(q.target) = "OWNER" /\ q.as # "OWNER"
  \/ q.op = "transfer" /\ RoleOf(q.target) = "OWNER"

Forbidden(r) ==
  LET q == req[r] IN
  \/ member[q.target] = None
  \/ q.op \in {"role", "remove"} /\ RoleOf(q.target) = "OWNER" /\ q.as # "OWNER"
  \/ q.op \in {"transfer", "deprovision"} /\ RoleOf(q.target) = "OWNER"

ReadTarget(r) ==
  /\ req[r].pc = "begun"
  /\ req[r].op \in TeamOps
  /\ IF Forbidden(r) THEN Done(r)
     ELSE req' = [req EXCEPT ![r].pc = "read", ![r].seen = member[req[r].target]]
  /\ UNCHANGED <<member, invite, limit, begun, ghosts>>

\* ... and writes in a later statement, by the row's id.
RowThere(r) == req[r].pc = "read" /\ member[req[r].target] # None
               /\ member[req[r].target].id = req[r].seen.id

\* Every other request under way has read roles that are no longer true.
CommitRoles(r, rows) ==
  /\ member' = rows
  /\ req' = [q \in Requests |-> IF q = r THEN Idle
                                ELSE IF req[q].pc = "idle" THEN req[q]
                                ELSE [req[q] EXCEPT !.stale = TRUE]]
  /\ UNCHANGED <<invite, limit, begun, ghosts>>

UpdateMemberRole(r) ==
  /\ req[r].op = "role"
  /\ RowThere(r)
  /\ CommitRoles(r, [member EXCEPT ![req[r].target].role = req[r].give])

\* The membership goes, with the sessions that have the workspace open.
RemoveMember(r) ==
  /\ req[r].op \in {"remove", "deprovision", "delete"}
  /\ RowThere(r)
  /\ CommitRoles(r, [member EXCEPT ![req[r].target] = None])

\* Both updates are conditional on the roles read.
Transferable(r) == /\ member[req[r].target].role = req[r].seen.role
                   /\ RoleOf(req[r].actor) = "OWNER"

TransferOwnership(r) ==
  /\ req[r].op = "transfer"
  /\ RowThere(r)
  /\ Transferable(r)
  /\ CommitRoles(r, [member EXCEPT ![req[r].target].role = "OWNER", ![req[r].actor].role = req[r].give])

\* The row is gone, or a condition no longer holds: everything is rolled back.
ChangeFails(r) ==
  /\ req[r].pc = "read"
  /\ req[r].op \in TeamOps
  /\ RowThere(r) => req[r].op = "transfer" /\ ~Transferable(r)
  /\ Done(r)
  /\ UNCHANGED <<member, invite, limit, begun, ghosts>>
-----------------------------------------------------------------------------
(* Joining and inviting.                                                    *)

\* Requests that hold the row of u's invite until their transaction ends.
Holds(r, u) == /\ req[r].op = "accept"
               /\ req[r].target = u
               /\ req[r].pc \in {"claimed", "waiting", "locked", "counted", "free"}
InviteFree(u) == \A r \in Requests : ~Holds(r, u)

\* mutant: the claim does not ask whether the invite is still pending
ClaimInvite_Unconditional(r) ==
  /\ req[r].op = "accept"
  /\ req[r].pc = "begun"
  /\ InviteFree(req[r].target)
  /\ IF member[req[r].target] # None THEN Done(r) ELSE To(r, "claimed")
  /\ UNCHANGED <<member, invite, limit, begun, ghosts>>

\* claimInvite, a conditional update, and the check that the person is no member yet.
ClaimInvite(r) ==
  /\ req[r].op = "accept"
  /\ req[r].pc = "begun"
  /\ InviteFree(req[r].target)
  /\ IF invite[req[r].target].status # "pending" \/ member[req[r].target] # None
     THEN Done(r) ELSE To(r, "claimed")
  /\ UNCHANGED <<member, invite, limit, begun, ghosts>>

\* assertSeatAvailable: the limit is read before the lock is asked for.
ReadLimit(r) ==
  /\ \/ req[r].op \in {"invite", "join"} /\ req[r].pc = "begun"
     \/ req[r].op = "accept" /\ req[r].pc = "claimed"
  /\ req' = [req EXCEPT ![r].pc = IF limit = None THEN "free" ELSE "waiting", ![r].limit = limit]
  /\ UNCHANGED <<member, invite, limit, begun, ghosts>>

\* mutant: no advisory lock
SeatLockFree_NoLock == TRUE

SeatLockFree == \A r \in Requests : req[r].pc \notin {"locked", "counted"}

LockSeats(r) ==
  /\ req[r].pc = "waiting"
  /\ SeatLockFree
  /\ To(r, "locked")
  /\ UNCHANGED <<member, invite, limit, begun, ghosts>>

\* An invite counts the others that are pending; they hold a seat too.
Taken(r) == Cardinality(Members) +
  (IF req[r].op = "invite"
   THEN Cardinality({u \in Users \ {req[r].target} : invite[u].status = "pending"}) ELSE 0)

\* mutant: a join waits for a seat to become free
CountSeats_Waits(r) ==
  /\ req[r].pc = "locked"
  /\ Taken(r) < req[r].limit
  /\ req' = [req EXCEPT ![r].pc = "counted", ![r].overtaken = FALSE]
  /\ UNCHANGED <<member, invite, limit, begun, ghosts>>

CountSeats(r) ==
  /\ req[r].pc = "locked"
  /\ IF Taken(r) >= req[r].limit THEN Done(r)
     ELSE req' = [req EXCEPT ![r].pc = "counted", ![r].overtaken = FALSE]
  /\ UNCHANGED <<member, invite, limit, begun, ghosts>>

MaySettle(r) == req[r].pc \in {"counted", "free"}

\* createCompanyInvite: an upsert that makes any earlier invite usable again.
CreateInvite(r) ==
  /\ req[r].op = "invite"
  /\ MaySettle(r)
  /\ InviteFree(req[r].target)
  /\ invite' = [invite EXCEPT ![req[r].target] = [status |-> "pending", role |-> req[r].give]]
  /\ sent' = [sent EXCEPT ![req[r].target] =
                           IF invite[req[r].target].status = "pending" THEN @ ELSE @ + 1]
  /\ Done(r)
  /\ UNCHANGED <<member, limit, begun, joined, withdrawn>>

\* A join that found no limit does not queue: whoever has counted counted without it.
CreateMembership(r) ==
  /\ req[r].op \in {"accept", "join"}
  /\ MaySettle(r)
  /\ member[req[r].target] = None
  /\ member' = [member EXCEPT ![req[r].target] = [id |-> req[r].no, role |-> req[r].give]]
  /\ req' = [q \in Requests |-> IF q = r THEN Idle
                                ELSE IF req[q].pc = "counted" /\ req[r].pc = "free"
                                     THEN [req[q] EXCEPT !.overtaken = TRUE] ELSE req[q]]
  /\ IF req[r].op = "accept"
     THEN /\ invite' = [invite EXCEPT ![req[r].target].status = "accepted"]
          /\ joined' = [joined EXCEPT ![req[r].target] = @ + 1]
     ELSE UNCHANGED <<invite, joined>>
  /\ UNCHANGED <<limit, begun, sent, withdrawn>>

\* The person became a member meanwhile: the unique key refuses a second row.
AlreadyMember(r) ==
  /\ req[r].op \in {"accept", "join"}
  /\ MaySettle(r)
  /\ member[req[r].target] # None
  /\ Done(r)
  /\ UNCHANGED <<member, invite, limit, begun, ghosts>>

\* Accepting takes the invite's row and then the seat lock, inviting the seat lock
\* and then the row: Postgres ends one of two that wait for each other.
Deadlocked(r, q) == /\ req[r].op = "accept" /\ req[r].pc = "waiting"
                    /\ req[q].op = "invite" /\ req[q].pc = "counted"
                    /\ req[r].target = req[q].target

ResolveDeadlock == \E r, q \in Requests :
  /\ Deadlocked(r, q)
  /\ Done(r) \/ Done(q)
  /\ UNCHANGED <<member, invite, limit, begun, ghosts>>

\* revokeInvite waits for a claim to commit and deletes the row all the same.
RevokeInvite(u) ==
  /\ invite[u].status # "none"
  /\ InviteFree(u)
  /\ invite' = [invite EXCEPT ![u].status = "none"]
  /\ withdrawn' = IF invite[u].status = "pending" THEN [withdrawn EXCEPT ![u] = @ + 1] ELSE withdrawn
  /\ UNCHANGED <<member, limit, req, begun, sent, joined>>

\* An invite that was claimed in time is accepted, though it expires before the commit.
ExpireInvite(u) ==
  /\ invite[u].status = "pending"
  /\ invite' = [invite EXCEPT ![u].status = "expired"]
  /\ withdrawn' = IF InviteFree(u) THEN [withdrawn EXCEPT ![u] = @ + 1] ELSE withdrawn
  /\ UNCHANGED <<member, limit, req, begun, sent, joined>>

\* The subscription's seats change, or the plan does.
SetLimit ==
  /\ limit' \in Limits \ {limit}
  /\ UNCHANGED <<member, invite, req, begun, ghosts>>
-----------------------------------------------------------------------------
BeginAny(r) ==
  \/ BeginRole(r) \/ BeginRemove(r) \/ BeginTransfer(r) \/ BeginDeprovision(r)
  \/ BeginDelete(r) \/ BeginInvite(r) \/ BeginAccept(r) \/ BeginJoin(r)

Proceed(r) ==
  \/ ReadTarget(r) \/ UpdateMemberRole(r) \/ RemoveMember(r) \/ TransferOwnership(r) \/ ChangeFails(r)
  \/ ClaimInvite(r) \/ ReadLimit(r) \/ LockSeats(r) \/ CountSeats(r)
  \/ CreateInvite(r) \/ CreateMembership(r) \/ AlreadyMember(r)

Next ==
  \/ \E r \in Requests : BeginAny(r) \/ Proceed(r)
  \/ ResolveDeadlock
  \/ \E u \in Users : RevokeInvite(u) \/ ExpireInvite(u)
  \/ SetLimit

Spec == Init /\ [][Next]_vars

(* Fairness.  The statements of a request follow each other. *)
FairSpec == Spec /\ WF_vars(ResolveDeadlock) /\ \A r \in Requests : WF_vars(Proceed(r))
-----------------------------------------------------------------------------
(* Properties. *)

\* "Two of them can't both take the last seat": a join that counted under the lock
\* never brings the members above the limit it read, whatever else is committed
\* between its count and its own commit, but for joins that found no limit.
SeatTaken(r) == req[r].pc = "counted" /\ ~req[r].overtaken /\ member[req[r].target] = None
                /\ member'[req[r].target] # None /\ req'[r].pc = "idle"
NoOversell == [][\A r \in Requests : SeatTaken(r) => Cardinality(Members') <= req[r].limit]_vars

\* When requests race on one invite exactly one claims it: each invite sent brings
\* one person in at most, and none once it was revoked or has expired.
InviteOnce == \A u \in Users : joined[u] + withdrawn[u] <= sent[u]

\* No sequence of role changes, transfers, removals, directory events and account
\* deletions takes the last owner away, but for requests that overlap: one commits
\* what it decided on roles that have changed since.  A transfer never does.
OwnerKept == [][Owners # {} /\ Owners' = {} =>
  \E r \in Requests : req[r].op # "transfer" /\ req[r].stale /\ req'[r].pc = "idle"]_vars

\* Every request comes to its end, those that wait for each other too.
RequestsFinish == \A r \in Requests : req[r].pc # "idle" ~> req[r].pc = "idle"

=============================================================================
