---------------------------- MODULE Organizations ----------------------------
(***************************************************************************)
(* Membership of one organization (services/organization_service.py,       *)
(* services/rbac.py, repositories/organization_repository.py).             *)
(*                                                                         *)
(* A request is one READ COMMITTED transaction without row locks: it reads *)
(* the actor's membership, then the target's, then counts the owners, and  *)
(* writes by primary key what it decided on those reads.  Each read and    *)
(* the write with its commit is a step.  A row that the session holds is   *)
(* not reloaded, so a request on the actor's own membership keeps the role *)
(* it authorized with.                                                     *)
(*                                                                         *)
(* The name and the slug of the organization are left out.                 *)
(***************************************************************************)
EXTENDS Naturals, FiniteSets

CONSTANTS
  Users,
  MaxRows,      \* bound on the membership rows ever inserted
  Requests      \* requests on the members that may be in flight together

ASSUME RowsAssumption == MaxRows \in Nat

VARIABLES
  org,          \* "absent", "active" or "deleted" (deleted_at)
  member,       \* the id of the user's organization_members row, None if none
  role,         \* organization_members.role by row id ("viewer" if no such row)
  nextRow,      \* the next row id
  req           \* the requests' transactions

orgVars == <<org, member, role, nextRow>>
vars == <<orgVars, req>>

OrgRole == {"owner", "admin", "member", "viewer"}

Rows == 1..MaxRows
None == 0

(* rbac.py ROLE_PERMISSIONS, for the permissions these operations ask for *)
ROLE_PERMISSIONS ==
  [owner  |-> {"organization.update", "organization.delete", "member.manage"},
   admin  |-> {"organization.update", "member.manage"},
   member |-> {},
   viewer |-> {}]

Idle == [pc |-> "idle"]
AuthorizedTxn == [pc : {"authorized", "deleting"}, actorRow : Rows, actorRole : OrgRole]
AddTxn == [pc : {"adding"}, target : Users, new : OrgRole]
UpdateTxn ==
  [pc : {"counting", "updating"}, actorRole : OrgRole,
   row : Rows, seen : OrgRole, new : OrgRole]
RemoveTxn ==
  [pc : {"countingRemove", "removing"}, actorRole : OrgRole, row : Rows, seen : OrgRole]
Txn == {Idle} \cup AuthorizedTxn \cup AddTxn \cup UpdateTxn \cup RemoveTxn

OrgTypeOK ==
  /\ org \in {"absent", "active", "deleted"}
  /\ member \in [Users -> Rows \cup {None}]
  /\ role \in [Rows -> OrgRole]
  /\ nextRow \in 1..(MaxRows + 1)
TypeOK == OrgTypeOK /\ req \in [Requests -> Txn]

OrgInit ==
  /\ org = "absent"
  /\ member = [u \in Users |-> None]
  /\ role = [w \in Rows |-> "viewer"]
  /\ nextRow = 1
Init == OrgInit /\ req = [r \in Requests |-> Idle]

-----------------------------------------------------------------------------
(* Helpers                                                                 *)

IsMember(u) == member[u] # None
Owner(u) == IsMember(u) /\ role[member[u]] = "owner"

(* Slips a change of this code could make, for the runs to reject: a count *)
(* that accepts the final owner, anyone assigning owners.                  *)
AnyOwners == \E u \in Users : Owner(u)
AssignsAnything(actorRole, new) == TRUE

(* require_permission: the organization is not deleted, the user is a      *)
(* member and the member's role has the permission.                        *)
HasPermission(u, p) ==
  /\ org = "active"
  /\ IsMember(u)
  /\ p \in ROLE_PERMISSIONS[role[member[u]]]

(* count_owners > 1 *)
SeveralOwners == \E u, v \in Users : u # v /\ Owner(u) /\ Owner(v)

(* Only owners may assign the owner role. *)
MayAssign(actorRole, new) == new = "owner" => actorRole = "owner"

(* _ensure_can_manage_target: admins cannot modify owners *)
MayManage(actorRole, seen) == actorRole = "admin" => seen # "owner"

(* orgs.add_member: a row with a new id; uq_org_member is the guard *)
AddMember(row, user, new) ==
  /\ member' = [member EXCEPT ![user] = row]
  /\ role' = [role EXCEPT ![row] = new]
  /\ nextRow' = row + 1

Present(row) == \E u \in Users : member[u] = row

(* The target row as the session of the actor sees it: the actor's own row *)
(* is in the identity map since it was authorized.                         *)
SeenRole(r, t) ==
  IF member[t] = req[r].actorRow THEN req[r].actorRole ELSE role[member[t]]

To(r, txn) == req' = [req EXCEPT ![r] = txn]
End(r) == To(r, Idle)

-----------------------------------------------------------------------------
(* create: the organization and its first owner in one transaction *)
Create(u) ==
  /\ org = "absent"
  /\ nextRow \in Rows
  /\ org' = "active"
  /\ AddMember(nextRow, u, "owner")
  /\ UNCHANGED req

Authorize(r, u) ==
  /\ req[r] = Idle
  /\ HasPermission(u, "member.manage")
  /\ To(r, [pc |-> "authorized", actorRow |-> member[u], actorRole |-> role[member[u]]])
  /\ UNCHANGED orgVars

-----------------------------------------------------------------------------
(* add_member *)

CheckAdd(r, t, new) ==
  /\ req[r].pc = "authorized"
  /\ MayAssign(req[r].actorRole, new)
  /\ ~IsMember(t)
  /\ To(r, [pc |-> "adding", target |-> t, new |-> new])
  /\ UNCHANGED orgVars

CommitAdd(r) ==
  /\ req[r].pc = "adding"
  /\ nextRow \in Rows
  /\ ~IsMember(req[r].target)
  /\ AddMember(nextRow, req[r].target, req[r].new)
  /\ End(r)
  /\ UNCHANGED org

-----------------------------------------------------------------------------
(* update_member: demoting an owner counts the owners first *)

CheckUpdate(r, t, new) ==
  LET seen == SeenRole(r, t)
      a == req[r].actorRole
  IN /\ req[r].pc = "authorized"
     /\ IsMember(t)
     /\ MayManage(a, seen)
     /\ MayAssign(a, new)
     /\ To(r, [pc |-> IF seen = "owner" /\ new # "owner" THEN "counting" ELSE "updating",
               actorRole |-> a, row |-> member[t], seen |-> seen, new |-> new])
     /\ UNCHANGED orgVars

CountForUpdate(r) ==
  /\ req[r].pc = "counting"
  /\ SeveralOwners
  /\ To(r, [req[r] EXCEPT !.pc = "updating"])
  /\ UNCHANGED orgVars

(* UPDATE ... WHERE id: no row, no commit (StaleDataError); a role equal   *)
(* to the loaded one is not written.                                       *)
CommitUpdate(r) ==
  /\ req[r].pc = "updating"
  /\ Present(req[r].row)
  /\ role' = IF req[r].new = req[r].seen THEN role
             ELSE [role EXCEPT ![req[r].row] = req[r].new]
  /\ End(r)
  /\ UNCHANGED <<org, member, nextRow>>

-----------------------------------------------------------------------------
(* remove_member: removing an owner counts the owners first *)

CheckRemove(r, t) ==
  LET seen == SeenRole(r, t)
      a == req[r].actorRole
  IN /\ req[r].pc = "authorized"
     /\ IsMember(t)
     /\ MayManage(a, seen)
     /\ To(r, [pc |-> IF seen = "owner" THEN "countingRemove" ELSE "removing",
               actorRole |-> a, row |-> member[t], seen |-> seen])
     /\ UNCHANGED orgVars

CountForRemove(r) ==
  /\ req[r].pc = "countingRemove"
  /\ SeveralOwners
  /\ To(r, [req[r] EXCEPT !.pc = "removing"])
  /\ UNCHANGED orgVars

(* DELETE ... WHERE id: of a row already gone it deletes nothing *)
CommitRemove(r) ==
  /\ req[r].pc = "removing"
  /\ member' = [u \in Users |-> IF member[u] = req[r].row THEN None ELSE member[u]]
  /\ role' = [role EXCEPT ![req[r].row] = "viewer"]
  /\ End(r)
  /\ UNCHANGED <<org, nextRow>>

-----------------------------------------------------------------------------
(* delete *)

AuthorizeDelete(r, u) ==
  /\ req[r] = Idle
  /\ HasPermission(u, "organization.delete")
  /\ To(r, [pc |-> "deleting", actorRow |-> member[u], actorRole |-> role[member[u]]])
  /\ UNCHANGED orgVars

CommitDelete(r) ==
  /\ req[r].pc = "deleting"
  /\ org' = "deleted"
  /\ End(r)
  /\ UNCHANGED <<member, role, nextRow>>

(* get_db rolls back: a refused check, a constraint, a failed audit event *)
Rollback(r) ==
  /\ req[r].pc # "idle"
  /\ End(r)
  /\ UNCHANGED orgVars

OrgNext ==
  \/ \E u \in Users : Create(u)
  \/ \E r \in Requests :
       \/ CommitAdd(r)
       \/ CountForUpdate(r) \/ CommitUpdate(r)
       \/ CountForRemove(r) \/ CommitRemove(r)
       \/ CommitDelete(r)
       \/ Rollback(r)
       \/ \E u \in Users : Authorize(r, u) \/ CheckRemove(r, u) \/ AuthorizeDelete(r, u)
       \/ \E u \in Users, new \in OrgRole : CheckAdd(r, u, new) \/ CheckUpdate(r, u, new)

Spec == Init /\ [][OrgNext]_vars

-----------------------------------------------------------------------------
(* Properties                                                              *)

(* docs/rbac.md "Owner protection: Business rules prevent removing or      *)
(* demoting the last owner": an organization has an owner, however its     *)
(* members are promoted, demoted and removed.  One request at a time keeps *)
(* it; two that both count before either writes do not.                    *)
OwnerRemains == org # "absent" => \E u \in Users : Owner(u)

(* A request may still write the owner role, or an owner stands behind it. *)
OwnerRequest(r) ==
  \/ req[r].pc \in {"authorized", "counting", "updating"} /\ req[r].actorRole = "owner"
  \/ req[r].pc = "adding" /\ req[r].new = "owner"
Orphaned ==
  /\ org # "absent"
  /\ \A u \in Users : ~Owner(u)
  /\ \A r \in Requests : ~OwnerRequest(r)

(* Only owners make owners: an organization that has lost its last owner,  *)
(* and has no owner's request in flight, never gets an owner again.  No    *)
(* sequence of requests of admins amounts to a promotion to owner.         *)
OnlyOwnersMakeOwners == [][Orphaned => Orphaned']_vars
=============================================================================
