-------------------------- MODULE InvitationsProofs --------------------------
(* TLAPS proofs about Invitations, composed with the membership requests:  *)
(* for every number of users, rows, invitations, links and requests in     *)
(* flight, an invitation is used once and by its current link, no sequence *)
(* of invitations gives an ownerless organization an owner, and one keeps  *)
(* its owner while the requests of its members do not overlap.             *)
EXTENDS MCWorkspace, TLAPS

(* The membership requests by themselves *)

(* A transaction has the fields its pc says. *)
LEMMA TxnShapes ==
  ASSUME NEW x \in Txn
  PROVE  /\ x.pc \in {"authorized", "deleting"} => x \in AuthorizedTxn
         /\ x.pc = "adding" => x \in AddTxn
         /\ x.pc \in {"counting", "updating"} => x \in UpdateTxn
         /\ x.pc \in {"countingRemove", "removing"} => x \in RemoveTxn
BY DEF Txn, AuthorizedTxn, AddTxn, UpdateTxn, RemoveTxn, Idle

LEMMA TxnFields ==
  ASSUME TypeOK, NEW r \in Requests
  PROVE  /\ req[r].pc = "authorized" => req[r].actorRole \in OrgRole
         /\ req[r].pc = "adding" => req[r].target \in Users /\ req[r].new \in OrgRole
         /\ req[r].pc \in {"counting", "updating"} =>
              req[r].row \in Rows /\ req[r].new \in OrgRole
         /\ req[r].pc \in {"countingRemove", "removing"} => req[r].row \in Rows
BY TxnShapes DEF TypeOK, AuthorizedTxn, AddTxn, UpdateTxn, RemoveTxn

LEMMA InitType == Init => TypeOK
BY RowsAssumption DEF Init, OrgInit, TypeOK, OrgTypeOK, Rows, None, OrgRole, Txn

LEMMA TypeStep == TypeOK /\ [OrgNext]_vars => TypeOK'
<1> SUFFICES ASSUME TypeOK, [OrgNext]_vars PROVE TypeOK'
  OBVIOUS
<1> USE RowsAssumption DEF TypeOK, OrgTypeOK, Rows, None, orgVars
<1>a. \A r \in Requests :
         /\ req[r].pc = "authorized" => req[r].actorRole \in OrgRole
         /\ req[r].pc = "adding" => req[r].target \in Users /\ req[r].new \in OrgRole
         /\ req[r].pc \in {"counting", "updating"} =>
              req[r].row \in Rows /\ req[r].new \in OrgRole
         /\ req[r].pc \in {"countingRemove", "removing"} => req[r].row \in Rows
  BY TxnFields
<1>b. Idle \in Txn
  BY DEF Txn
<1>c. \A u \in Users : IsMember(u) => member[u] \in 1..MaxRows /\ role[member[u]] \in OrgRole
  BY DEF IsMember
<1>d. \A r \in Requests, x \in Txn : To(r, x) => req' \in [Requests -> Txn]
  BY DEF To
<1>1. ASSUME NEW u \in Users, Create(u) PROVE TypeOK'
  BY <1>1 DEF Create, AddMember, OrgRole
<1>2. ASSUME NEW r \in Requests, NEW u \in Users, Authorize(r, u) \/ AuthorizeDelete(r, u)
      PROVE  TypeOK'
  <2>1. IsMember(u)
    BY <1>2 DEF Authorize, AuthorizeDelete, HasPermission
  <2>2. \A pc \in {"authorized", "deleting"} :
          [pc |-> pc, actorRow |-> member[u], actorRole |-> role[member[u]]] \in Txn
    BY <2>1, <1>c DEF Txn, AuthorizedTxn
  <2> QED BY <1>2, <2>2, <1>d DEF Authorize, AuthorizeDelete
<1>3. ASSUME NEW r \in Requests, NEW t \in Users, NEW new \in OrgRole, CheckAdd(r, t, new)
      PROVE  TypeOK'
  <2>1. [pc |-> "adding", target |-> t, new |-> new] \in Txn
    BY DEF Txn, AddTxn
  <2> QED BY <1>3, <2>1, <1>d DEF CheckAdd
<1>4. ASSUME NEW r \in Requests, CommitAdd(r) PROVE TypeOK'
  <2>1. org' = org /\ member' \in [Users -> Rows \cup {None}]
        /\ role' \in [Rows -> OrgRole] /\ nextRow' \in 1..(MaxRows + 1)
    BY <1>4, <1>a DEF CommitAdd, AddMember
  <2>2. req' \in [Requests -> Txn]
    BY <1>4, <1>b, <1>d DEF CommitAdd, End
  <2> QED BY <2>1, <2>2
<1>5. ASSUME NEW r \in Requests, NEW t \in Users, NEW new \in OrgRole, CheckUpdate(r, t, new)
      PROVE  TypeOK'
  <2>1. SeenRole(r, t) \in OrgRole
    BY <1>5, <1>a, <1>c DEF CheckUpdate, SeenRole
  <2>2. \A pc \in {"counting", "updating"} :
          [pc |-> pc, actorRole |-> req[r].actorRole, row |-> member[t],
           seen |-> SeenRole(r, t), new |-> new] \in Txn
    BY <1>5, <2>1, <1>a, <1>c DEF CheckUpdate, Txn, UpdateTxn
  <2>3. req' \in [Requests -> Txn]
    BY <1>5, <2>2, <1>d DEF CheckUpdate
  <2> QED BY <1>5, <2>3 DEF CheckUpdate
<1>6. ASSUME NEW r \in Requests, CountForUpdate(r) PROVE TypeOK'
  <2>1. req[r] \in UpdateTxn
    BY <1>6, TxnShapes DEF CountForUpdate
  <2>2. [req[r] EXCEPT !.pc = "updating"] \in Txn
    BY <2>1 DEF Txn, UpdateTxn
  <2> QED BY <1>6, <2>2, <1>d DEF CountForUpdate
<1>7. ASSUME NEW r \in Requests, CommitUpdate(r) PROVE TypeOK'
  <2>1. role' \in [Rows -> OrgRole]
    BY <1>7, <1>a DEF CommitUpdate
  <2>2. req' \in [Requests -> Txn]
    BY <1>7, <1>b, <1>d DEF CommitUpdate, End
  <2> QED BY <1>7, <2>1, <2>2 DEF CommitUpdate
<1>8. ASSUME NEW r \in Requests, NEW t \in Users, CheckRemove(r, t) PROVE TypeOK'
  <2>1. SeenRole(r, t) \in OrgRole
    BY <1>8, <1>a, <1>c DEF CheckRemove, SeenRole
  <2>2. \A pc \in {"countingRemove", "removing"} :
          [pc |-> pc, actorRole |-> req[r].actorRole, row |-> member[t],
           seen |-> SeenRole(r, t)] \in Txn
    BY <1>8, <2>1, <1>a, <1>c DEF CheckRemove, Txn, RemoveTxn
  <2>3. req' \in [Requests -> Txn]
    BY <1>8, <2>2, <1>d DEF CheckRemove
  <2> QED BY <1>8, <2>3 DEF CheckRemove
<1>9. ASSUME NEW r \in Requests, CountForRemove(r) PROVE TypeOK'
  <2>1. req[r] \in RemoveTxn
    BY <1>9, TxnShapes DEF CountForRemove
  <2>2. [req[r] EXCEPT !.pc = "removing"] \in Txn
    BY <2>1 DEF Txn, RemoveTxn
  <2> QED BY <1>9, <2>2, <1>d DEF CountForRemove
<1>10. ASSUME NEW r \in Requests, CommitRemove(r) \/ CommitDelete(r) \/ Rollback(r)
       PROVE  TypeOK'
  <2>1. req' \in [Requests -> Txn]
    BY <1>10, <1>b, <1>d DEF CommitRemove, CommitDelete, Rollback, End
  <2>2. role' \in [Rows -> OrgRole]
    BY <1>10 DEF CommitRemove, CommitDelete, Rollback, OrgRole
  <2> QED BY <1>10, <2>1, <2>2 DEF CommitRemove, CommitDelete, Rollback
<1>11. CASE UNCHANGED vars
  BY <1>11 DEF vars
<1> QED
  BY <1>1, <1>2, <1>3, <1>4, <1>5, <1>6, <1>7, <1>8, <1>9, <1>10, <1>11 DEF OrgNext

(* Every variable of the membership model keeps its type. *)
THEOREM TypeCorrect == Spec => []TypeOK
BY InitType, TypeStep, PTL DEF Spec

-----------------------------------------------------------------------------
(* Only owners make owners.  The check of the request's role is several    *)
(* steps old when it writes; the invariant remembers it.                   *)

GrantIsAuthorized ==
  \A r \in Requests :
    req[r].pc \in {"counting", "updating"} /\ req[r].new = "owner"
      => req[r].actorRole = "owner"

LEMMA GrantStep == TypeOK /\ GrantIsAuthorized /\ [OrgNext]_vars => GrantIsAuthorized'
<1> SUFFICES ASSUME TypeOK, GrantIsAuthorized, [OrgNext]_vars, NEW q \in Requests,
                    req'[q].pc \in {"counting", "updating"}, req'[q].new = "owner"
             PROVE  req'[q].actorRole = "owner"
  BY DEF GrantIsAuthorized
<1> USE DEF TypeOK, GrantIsAuthorized
<1>1. CASE req'[q] = req[q]
  BY <1>1
<1>2. ASSUME NEW t \in Users, NEW new \in OrgRole, CheckUpdate(q, t, new)
      PROVE  req'[q].actorRole = "owner"
  BY <1>2 DEF CheckUpdate, To, MayAssign
<1>3. CASE CountForUpdate(q)
  <2>1. req[q] \in UpdateTxn
    BY <1>3, TxnShapes DEF CountForUpdate
  <2>2. req[q].pc = "counting" /\ req'[q] = [req[q] EXCEPT !.pc = "updating"]
    BY <1>3 DEF CountForUpdate, To
  <2>3. req'[q].actorRole = req[q].actorRole /\ req'[q].new = req[q].new
    BY <2>1, <2>2 DEF UpdateTxn
  <2> QED BY <2>2, <2>3
<1>4. CASE /\ \A t \in Users, new \in OrgRole : ~CheckUpdate(q, t, new)
           /\ ~CountForUpdate(q)
  <2>1. req'[q] = req[q] \/ req'[q].pc \notin {"counting", "updating"}
    <3>1. ASSUME NEW r \in Requests,
                 \/ CommitAdd(r) \/ CommitUpdate(r) \/ CommitRemove(r)
                 \/ CommitDelete(r) \/ Rollback(r)
          PROVE  <2>1!:
      BY <3>1 DEF CommitAdd, CommitUpdate, CommitRemove, CommitDelete, Rollback, End, To, Idle
    <3>2. ASSUME NEW r \in Requests, NEW t \in Users,
                 \/ Authorize(r, t) \/ AuthorizeDelete(r, t) \/ CheckRemove(r, t)
                 \/ \E new \in OrgRole : CheckAdd(r, t, new)
          PROVE  <2>1!:
      BY <3>2 DEF Authorize, AuthorizeDelete, CheckRemove, CheckAdd, To
    <3>3. ASSUME NEW r \in Requests, CountForRemove(r) PROVE <2>1!:
      <4>1. req[r] \in RemoveTxn
        BY <3>3, TxnShapes DEF CountForRemove
      <4>2. [req[r] EXCEPT !.pc = "removing"].pc = "removing"
        BY <4>1 DEF RemoveTxn
      <4> QED BY <3>3, <4>2 DEF CountForRemove, To
    <3>4. ASSUME NEW r \in Requests, r # q,
                 \/ CountForUpdate(r)
                 \/ \E t \in Users, new \in OrgRole : CheckUpdate(r, t, new)
          PROVE  <2>1!:
      BY <3>4 DEF CheckUpdate, CountForUpdate, To
    <3>5. CASE UNCHANGED vars \/ \E u \in Users : Create(u)
      BY <3>5 DEF vars, Create
    <3> QED BY <3>1, <3>2, <3>3, <3>4, <3>5, <1>4 DEF OrgNext
  <2> QED BY <2>1
<1> QED BY <1>2, <1>3, <1>4

LEMMA Granting == Spec => [](TypeOK /\ GrantIsAuthorized)
<1>1. Init => GrantIsAuthorized
  BY DEF Init, GrantIsAuthorized, Idle
<1> QED BY InitType, TypeStep, <1>1, GrantStep, PTL DEF Spec

(* The steps of an organization without owners leave it without.           *)
LEMMA OrphanedStep ==
  ASSUME TypeOK, GrantIsAuthorized, [OrgNext]_vars, Orphaned
  PROVE  Orphaned'
<1> USE DEF TypeOK, OrgTypeOK, Orphaned, Owner, IsMember, orgVars
<1>1. ASSUME NEW r \in Requests, NEW u \in Users, Authorize(r, u) \/ AuthorizeDelete(r, u)
      PROVE  Orphaned'
  BY <1>1 DEF Authorize, AuthorizeDelete, HasPermission, To, OwnerRequest
<1>2. ASSUME NEW r \in Requests, NEW t \in Users, NEW new \in OrgRole, CheckAdd(r, t, new)
      PROVE  Orphaned'
  BY <1>2 DEF CheckAdd, MayAssign, To, OwnerRequest
<1>3. ASSUME NEW r \in Requests, CommitAdd(r) PROVE Orphaned'
  <2>1. req[r].target \in Users /\ req[r].new # "owner"
    BY <1>3, TxnFields DEF CommitAdd, OwnerRequest
  <2>2. \A u \in Users : ~Owner(u)'
    BY <1>3, <2>1, RowsAssumption DEF CommitAdd, AddMember, Rows, None
  <2> QED BY <1>3, <2>2 DEF CommitAdd, End, To, OwnerRequest, Idle
<1>4. ASSUME NEW r \in Requests, NEW t \in Users, NEW new \in OrgRole,
             CheckUpdate(r, t, new)
      PROVE  Orphaned'
  BY <1>4 DEF CheckUpdate, To, OwnerRequest
<1>5. ASSUME NEW r \in Requests, CommitUpdate(r) PROVE Orphaned'
  <2>1. req[r].row \in Rows /\ req[r].new # "owner"
    BY <1>5, TxnFields DEF CommitUpdate, OwnerRequest, GrantIsAuthorized
  <2>2. \A u \in Users : ~Owner(u)'
    BY <1>5, <2>1 DEF CommitUpdate
  <2> QED BY <1>5, <2>2 DEF CommitUpdate, End, To, OwnerRequest, Idle
<1>6. ASSUME NEW r \in Requests, NEW t \in Users, CheckRemove(r, t) PROVE Orphaned'
  BY <1>6 DEF CheckRemove, To, OwnerRequest
<1>7. ASSUME NEW r \in Requests, CountForUpdate(r) \/ CountForRemove(r) PROVE Orphaned'
  BY <1>7 DEF CountForUpdate, CountForRemove, SeveralOwners
<1>8. ASSUME NEW r \in Requests, CommitRemove(r) \/ CommitDelete(r) \/ Rollback(r)
      PROVE  Orphaned'
  BY <1>8 DEF CommitRemove, CommitDelete, Rollback, End, To, OwnerRequest, Idle
<1>9. ASSUME NEW u \in Users, Create(u) PROVE Orphaned'
  BY <1>9 DEF Create
<1>10. CASE UNCHANGED vars
  BY <1>10 DEF vars, OwnerRequest
<1> QED BY <1>1, <1>2, <1>3, <1>4, <1>5, <1>6, <1>7, <1>8, <1>9, <1>10 DEF OrgNext

(* A promotion to owner needs an owner when it is authorized: no sequence  *)
(* of requests, however they overlap, gives an ownerless organization an   *)
(* owner.                                                                  *)
THEOREM OwnersComeFromOwners == Spec => OnlyOwnersMakeOwners
<1>1. TypeOK /\ GrantIsAuthorized /\ [OrgNext]_vars => [Orphaned => Orphaned']_vars
  BY OrphanedStep
<1> QED BY Granting, <1>1, PTL DEF Spec, OnlyOwnersMakeOwners

-----------------------------------------------------------------------------
(* One request at a time.  What it read is still so when it writes: the    *)
(* role it saw, and the second owner it counted.                           *)

RowsAreDistinct ==
  /\ \A u, v \in Users : member[u] = member[v] /\ IsMember(u) => u = v
  /\ \A u \in Users : member[u] < nextRow

SeenIsCurrent ==
  \A r \in Requests :
    /\ req[r].pc = "authorized" => role[req[r].actorRow] = req[r].actorRole
    /\ req[r].pc \in {"counting", "updating", "countingRemove", "removing"}
         => role[req[r].row] = req[r].seen
    /\ req[r].pc = "counting" => req[r].seen = "owner" /\ req[r].new # "owner"
    /\ req[r].pc = "updating" /\ req[r].seen = "owner" /\ req[r].new # "owner"
         => SeveralOwners
    /\ req[r].pc = "removing" /\ req[r].seen = "owner" => SeveralOwners

AbsentIsQuiet == org = "absent" => \A r \in Requests : req[r] = Idle

Sequential ==
  TypeOK /\ OwnerRemains /\ RowsAreDistinct /\ SeenIsCurrent /\ AbsentIsQuiet

LEMMA SequentialInit == Init => Sequential
<1> SUFFICES ASSUME Init PROVE Sequential
  OBVIOUS
<1>1. TypeOK
  BY InitType
<1>2. OwnerRemains /\ RowsAreDistinct /\ SeenIsCurrent /\ AbsentIsQuiet
  BY DEF Init, OrgInit, OwnerRemains, RowsAreDistinct, IsMember, None, SeenIsCurrent,
         Idle, AbsentIsQuiet
<1> QED BY <1>1, <1>2 DEF Sequential

(* At most one membership request is in flight. *)
OneRequest == \A q, r \in Requests : req[q] # Idle /\ req[r] # Idle => q = r

LEMMA SequentialStep ==
  ASSUME OneRequest, OneRequest', Sequential, [OrgNext]_vars
  PROVE  Sequential'
<1> USE DEF Sequential, orgVars, IsMember, Owner, None
<1>o. \A q, r \in Requests : req[r].pc # "idle" /\ q # r => req[q] = Idle
  BY DEF OneRequest, Idle
<1>t. TypeOK'
  BY TypeStep
<1>r. \A r \in Requests :
        req[r] # Idle => org # "absent" /\ \E u \in Users : Owner(u)
  BY DEF AbsentIsQuiet, OwnerRemains
(* A step that writes nothing keeps all but what is said of its request. *)
<1>q. ASSUME UNCHANGED orgVars, SeenIsCurrent', org = "absent" => req' = req
      PROVE  Sequential'
  BY <1>q, <1>t DEF OwnerRemains, RowsAreDistinct, AbsentIsQuiet
(* A step that ends the one request needs no more of what was seen. *)
<1>e. ASSUME NEW r \in Requests, req[r].pc # "idle", End(r)
      PROVE  SeenIsCurrent' /\ AbsentIsQuiet'
  <2>1. \A q \in Requests : req'[q] = Idle
    BY <1>e, <1>o DEF End, To, TypeOK
  <2> QED BY <2>1 DEF SeenIsCurrent, AbsentIsQuiet, Idle
<1>1. ASSUME NEW u \in Users, Create(u) PROVE Sequential'
  <2>1. \A r \in Requests : req'[r] = Idle
    BY <1>1 DEF Create, AbsentIsQuiet
  <2>2. SeenIsCurrent' /\ AbsentIsQuiet'
    BY <2>1 DEF SeenIsCurrent, AbsentIsQuiet, Idle
  <2>3. OwnerRemains' /\ RowsAreDistinct'
    BY <1>1, RowsAssumption
       DEF Create, AddMember, OwnerRemains, RowsAreDistinct, TypeOK, OrgTypeOK, Rows
  <2> QED BY <1>t, <2>2, <2>3
<1>2. ASSUME NEW r \in Requests, NEW u \in Users, Authorize(r, u) \/ AuthorizeDelete(r, u)
      PROVE  Sequential'
  <2>1. SeenIsCurrent'
    BY <1>2 DEF Authorize, AuthorizeDelete, To, TypeOK, SeenIsCurrent, SeveralOwners
  <2> QED BY <1>2, <2>1, <1>q DEF Authorize, AuthorizeDelete, HasPermission
<1>3. ASSUME NEW r \in Requests, NEW t \in Users, NEW new \in OrgRole, CheckAdd(r, t, new)
      PROVE  Sequential'
  <2>1. SeenIsCurrent'
    BY <1>3 DEF CheckAdd, To, TypeOK, SeenIsCurrent, SeveralOwners
  <2> QED BY <1>3, <2>1, <1>q, <1>r DEF CheckAdd, Idle
<1>4. ASSUME NEW r \in Requests, CommitAdd(r) PROVE Sequential'
  <2>1. req[r].target \in Users /\ req[r] # Idle
    BY <1>4, TxnFields DEF CommitAdd, Idle
  <2>2. PICK u \in Users : Owner(u)
    BY <1>r, <2>1
  <2>3. u # req[r].target /\ member[u] # nextRow
    BY <1>4, <2>2, RowsAssumption
       DEF CommitAdd, RowsAreDistinct, TypeOK, OrgTypeOK, Rows
  <2>4. Owner(u)'
    BY <1>4, <2>2, <2>3 DEF CommitAdd, AddMember, TypeOK, OrgTypeOK
  <2>5. RowsAreDistinct'
    BY <1>4, <2>1, RowsAssumption
       DEF CommitAdd, AddMember, RowsAreDistinct, TypeOK, OrgTypeOK, Rows
  <2> QED BY <1>4, <2>4, <2>5, <1>t, <1>e DEF CommitAdd, OwnerRemains
<1>5. ASSUME NEW r \in Requests, NEW t \in Users, NEW new \in OrgRole,
             CheckUpdate(r, t, new) \/ CheckRemove(r, t)
      PROVE  Sequential'
  <2>1. role[member[t]] = SeenRole(r, t)
    BY <1>5 DEF CheckUpdate, CheckRemove, SeenRole, SeenIsCurrent
  <2>2. \A q \in Requests : q # r => req'[q] = Idle
    BY <1>5, <1>o DEF CheckUpdate, CheckRemove, To, TypeOK
  <2>3. SeenIsCurrent'
    BY <1>5, <2>1, <2>2 DEF CheckUpdate, CheckRemove, To, TypeOK, SeenIsCurrent, Idle
  <2> QED BY <1>5, <2>3, <1>q, <1>r DEF CheckUpdate, CheckRemove, Idle
<1>6. ASSUME NEW r \in Requests, CountForUpdate(r) PROVE Sequential'
  <2>1. req[r] \in UpdateTxn
    BY <1>6, TxnShapes DEF CountForUpdate, TypeOK
  <2>2. req'[r] = [req[r] EXCEPT !.pc = "updating"]
    BY <1>6 DEF CountForUpdate, To, TypeOK
  <2>3. /\ req'[r].pc = "updating" /\ req'[r].row = req[r].row
        /\ req'[r].seen = req[r].seen /\ req'[r].new = req[r].new
    BY <2>1, <2>2 DEF UpdateTxn
  <2>4. \A q \in Requests : q # r => req'[q] = Idle
    BY <1>6, <1>o DEF CountForUpdate, To, TypeOK
  <2>5. SeenIsCurrent'
    BY <1>6, <2>3, <2>4 DEF CountForUpdate, SeenIsCurrent, SeveralOwners, Idle
  <2> QED BY <1>6, <2>5, <1>q, <1>r DEF CountForUpdate, Idle
<1>7. ASSUME NEW r \in Requests, CommitUpdate(r) PROVE Sequential'
  <2>1. /\ req[r].row \in Rows
        /\ role[req[r].row] = req[r].seen
        /\ req[r].seen = "owner" /\ req[r].new # "owner" => SeveralOwners
    BY <1>7, TxnFields DEF CommitUpdate, SeenIsCurrent
  <2>2. \E u \in Users : Owner(u) /\ (member[u] # req[r].row \/ req[r].new = "owner")
    <3>1. CASE req[r].seen = "owner" /\ req[r].new # "owner"
      BY <2>1, <3>1 DEF SeveralOwners, RowsAreDistinct
    <3>2. CASE ~(req[r].seen = "owner" /\ req[r].new # "owner")
      BY <1>7, <2>1, <3>2, <1>r DEF CommitUpdate, Idle
    <3> QED BY <3>1, <3>2
  <2>3. \E u \in Users : Owner(u)'
    BY <1>7, <2>1, <2>2 DEF CommitUpdate, TypeOK, OrgTypeOK
  <2> QED BY <1>7, <2>3, <1>t, <1>e DEF CommitUpdate, OwnerRemains, RowsAreDistinct
<1>8. ASSUME NEW r \in Requests, CountForRemove(r) PROVE Sequential'
  <2>1. req[r] \in RemoveTxn
    BY <1>8, TxnShapes DEF CountForRemove, TypeOK
  <2>2. req'[r] = [req[r] EXCEPT !.pc = "removing"]
    BY <1>8 DEF CountForRemove, To, TypeOK
  <2>3. /\ req'[r].pc = "removing" /\ req'[r].row = req[r].row
        /\ req'[r].seen = req[r].seen
    BY <2>1, <2>2 DEF RemoveTxn
  <2>4. \A q \in Requests : q # r => req'[q] = Idle
    BY <1>8, <1>o DEF CountForRemove, To, TypeOK
  <2>5. SeenIsCurrent'
    BY <1>8, <2>3, <2>4 DEF CountForRemove, SeenIsCurrent, SeveralOwners, Idle
  <2> QED BY <1>8, <2>5, <1>q, <1>r DEF CountForRemove, Idle
<1>9. ASSUME NEW r \in Requests, CommitRemove(r) PROVE Sequential'
  <2>1. /\ role[req[r].row] = req[r].seen
        /\ req[r].seen = "owner" => SeveralOwners
    BY <1>9 DEF CommitRemove, SeenIsCurrent
  <2>2. \E u \in Users : Owner(u) /\ member[u] # req[r].row
    <3>1. CASE req[r].seen = "owner"
      BY <2>1, <3>1 DEF SeveralOwners, RowsAreDistinct
    <3>2. CASE req[r].seen # "owner"
      BY <1>9, <2>1, <3>2, <1>r DEF CommitRemove, Idle
    <3> QED BY <3>1, <3>2
  <2>3. \E u \in Users : Owner(u)'
    BY <1>9, <2>2 DEF CommitRemove
  <2>4. RowsAreDistinct'
    BY <1>9, RowsAssumption DEF CommitRemove, RowsAreDistinct, TypeOK, OrgTypeOK
  <2> QED BY <1>9, <2>3, <2>4, <1>t, <1>e DEF CommitRemove, OwnerRemains
<1>10. ASSUME NEW r \in Requests, CommitDelete(r) \/ Rollback(r) PROVE Sequential'
  <2>1. \E u \in Users : Owner(u)' \/ org' = "absent"
    BY <1>10, <1>r DEF CommitDelete, Rollback, Idle
  <2> QED BY <1>10, <2>1, <1>t, <1>e DEF CommitDelete, Rollback, OwnerRemains, RowsAreDistinct
<1>11. CASE UNCHANGED vars
  <2>1. SeenIsCurrent'
    BY <1>11 DEF vars, SeenIsCurrent, SeveralOwners
  <2> QED BY <1>11, <2>1, <1>q DEF vars
<1>12. ASSUME NEW r \in Requests, NEW t \in Users, CheckRemove(r, t) PROVE Sequential'
  <2>1. "owner" \in OrgRole
    BY DEF OrgRole
  <2> QED BY <1>12, <2>1, <1>5
<1> QED
  BY <1>1, <1>2, <1>3, <1>4, <1>5, <1>6, <1>7, <1>8, <1>9, <1>10, <1>11, <1>12 DEF OrgNext

(* Owner protection holds when requests do not overlap: an organization    *)
(* never loses its last owner, with any number of users and promotions.    *)
THEOREM SequentialOwnerProtection ==
  ASSUME \A q, r \in Requests : q = r
  PROVE  Spec => []OwnerRemains
<1>1. OneRequest /\ OneRequest'
  BY DEF OneRequest
<1>2. Sequential /\ [OrgNext]_vars => Sequential'
  BY <1>1, SequentialStep
<1>3. Sequential => OwnerRemains
  BY DEF Sequential
<1> QED BY SequentialInit, <1>2, <1>3, PTL DEF Spec

-----------------------------------------------------------------------------
(* With the invitations *)

(* An invitation request has the fields its pc says. *)
LEMMA HandlerFields ==
  ASSUME InvTypeOK, NEW h \in Handlers
  PROVE  /\ hnd[h].pc = "authorized" => hnd[h].actorRole \in OrgRole
         /\ hnd[h].pc = "inserting" =>
              /\ hnd[h].user \in Users /\ hnd[h].role \in OrgRole
              /\ hnd[h].token \in MailTokens
         /\ hnd[h].pc \in {"resending", "accepting"} =>
              hnd[h].id \in Invitees /\ hnd[h].token \in MailTokens
         /\ hnd[h].pc = "revoking" => hnd[h].id \in Invitees
BY DEF InvTypeOK, InvTxn, InviteTxn, InsertTxn, ResendTxn, RevokeTxn, AcceptTxn, Idle

(* The rows that exist are the first ones, and a request to change one     *)
(* names one that exists.                                                  *)
RowsExist ==
  /\ \A i \in Invitees : (inv[i] = Absent) <=> (i >= nextInv)
  /\ \A h \in Handlers :
       hnd[h].pc \in {"resending", "revoking", "accepting"} => hnd[h].id < nextInv

(* The row lock: one acceptance at a time, of a pending invitation by the  *)
(* link it has.                                                            *)
AcceptsPending ==
  /\ \A h \in Handlers : hnd[h].pc = "accepting" =>
       Pending(hnd[h].id) /\ inv[hnd[h].id].token = hnd[h].token
  /\ \A g, h \in Handlers :
       hnd[g].pc = "accepting" /\ hnd[h].pc = "accepting" /\ hnd[g].id = hnd[h].id => g = h

(* A pending invitation, or one that was never made, has made no member.   *)
PendingUnjoined ==
  \A i \in Invitees :
    joins[i] <= 1 /\ (Pending(i) \/ inv[i] = Absent => joins[i] = 0)

InvIInv == InvTypeOK /\ RowsExist /\ AcceptsPending /\ PendingUnjoined

LEMMA InvIInit == InvInit => InvIInv
<1> SUFFICES ASSUME InvInit PROVE InvIInv
  OBVIOUS
<1> USE DEF InvInit, NoInvitations
<1>1. TypeOK
  BY InitType
<1>2. InvTypeOK
  BY <1>1, InvitationsAssumption DEF InvTypeOK, Invitees, MailTokens, Invitation, InvTxn
<1>3. RowsExist /\ AcceptsPending /\ PendingUnjoined
  BY DEF RowsExist, AcceptsPending, PendingUnjoined, Invitees, Idle
<1> QED BY <1>2, <1>3 DEF InvIInv

(* Membership requests leave the invitations alone. *)
LEMMA MemberStep ==
  ASSUME InvIInv, [OrgNext]_vars, UNCHANGED invVars
  PROVE  InvIInv'
<1>1. TypeOK'
  BY TypeStep DEF InvIInv, InvTypeOK
<1> QED
  BY <1>1 DEF InvIInv, InvTypeOK, invVars, invRows, RowsExist, AcceptsPending,
     PendingUnjoined, Pending

(* A step that changes no row and begins no acceptance. *)
LEMMA HandlerStep ==
  ASSUME InvIInv, NEW h \in Handlers, NEW x \in InvTxn, HndTo(h, x),
         x.pc # "accepting",
         x.pc \in {"resending", "revoking"} => x.id < nextInv,
         nextToken' \in 1..(MaxTokens + 1), UNCHANGED <<vars, invRows>>
  PROVE  InvIInv'
<1> USE DEF InvIInv, invRows
<1>1. TypeOK'
  BY DEF InvTypeOK, vars, orgVars, TypeOK, OrgTypeOK
<1>2. InvTypeOK'
  BY <1>1 DEF InvTypeOK, HndTo
<1>3. RowsExist' /\ AcceptsPending'
  BY DEF HndTo, InvTypeOK, RowsExist, AcceptsPending, Pending
<1>4. PendingUnjoined'
  BY DEF PendingUnjoined, Pending
<1> QED BY <1>2, <1>3, <1>4

(* A step that rewrites one unlocked row, which was pending or stays       *)
(* settled, and may end the request that did it.                           *)
LEMMA RowStep ==
  ASSUME InvIInv, NEW i \in Invitees, NEW new \in Invitation,
         inv[i] # Absent, new # Absent, ~LockedInvitation(i),
         new.status = "pending" => Pending(i),
         inv' = [inv EXCEPT ![i] = new], lapsed' \in SUBSET Invitees,
         hnd' = hnd \/ \E h \in Handlers : HndEnd(h),
         UNCHANGED <<vars, joins, nextInv, nextToken>>
  PROVE  InvIInv'
<1> USE DEF InvIInv
<1>1. TypeOK'
  BY DEF InvTypeOK, vars, orgVars, TypeOK, OrgTypeOK
<1>2. hnd' \in [Handlers -> InvTxn]
  BY DEF InvTypeOK, HndEnd, HndTo, InvTxn
<1>3. InvTypeOK'
  BY <1>1, <1>2 DEF InvTypeOK
<1>4. \A h \in Handlers : hnd'[h] = hnd[h] \/ hnd'[h].pc = "idle"
  BY DEF HndEnd, HndTo, InvTypeOK, Idle
<1>5. RowsExist'
  BY <1>4 DEF RowsExist, InvTypeOK
<1>6. AcceptsPending'
  BY <1>4, HandlerFields DEF AcceptsPending, InvTypeOK, LockedInvitation, Pending
<1>7. PendingUnjoined'
  BY DEF PendingUnjoined, InvTypeOK, Pending
<1> QED BY <1>3, <1>5, <1>6, <1>7

LEMMA InvIStep == InvIInv /\ [Next]_allVars => InvIInv'
<1> SUFFICES ASSUME InvIInv, [Next]_allVars PROVE InvIInv'
  OBVIOUS
<1>t. InvTypeOK
  BY DEF InvIInv
<1>a. \A i \in Invitees : inv[i] # Absent =>
        inv[i] \in [status : InvitationStatus, user : Users, role : OrgRole, token : MailTokens]
  BY <1>t DEF InvTypeOK, Invitation
<1>p. \A i \in Invitees : Pending(i) => inv[i] # Absent /\ i < nextInv
  BY <1>t, InvitationsAssumption
     DEF InvIInv, RowsExist, Pending, Absent, InvTypeOK, Invitees
<1>w. \A i \in Invitees, s \in InvitationStatus :
        inv[i] # Absent =>
          /\ [inv[i] EXCEPT !.status = s] \in Invitation \ {Absent}
          /\ [inv[i] EXCEPT !.status = s].status = s
  BY <1>a DEF Invitation, Absent, InvitationStatus
<1>1. ASSUME NEW h \in Handlers, NEW u \in Users, AuthorizeInvite(h, u) PROVE InvIInv'
  <2>1. role[member[u]] \in OrgRole
    BY <1>1, <1>t, RowsAssumption
       DEF AuthorizeInvite, HasPermission, IsMember, InvTypeOK, TypeOK, OrgTypeOK, Rows, None
  <2>2. [pc |-> "authorized", actorRole |-> role[member[u]]] \in InvTxn
    BY <2>1 DEF InvTxn, InviteTxn
  <2> QED BY <1>1, <1>t, <2>2, HandlerStep DEF AuthorizeInvite, InvTypeOK
<1>2. ASSUME NEW h \in Handlers, NEW t \in Users, NEW new \in OrgRole, CheckInvite(h, t, new)
      PROVE  InvIInv'
  <2>1. [pc |-> "inserting", user |-> t, role |-> new, token |-> nextToken] \in InvTxn
    BY <1>2 DEF CheckInvite, InvTxn, InsertTxn
  <2>2. nextToken' \in 1..(MaxTokens + 1)
    BY <1>2, InvitationsAssumption DEF CheckInvite, MailTokens
  <2> QED BY <1>2, <2>1, <2>2, HandlerStep DEF CheckInvite
<1>3. ASSUME NEW h \in Handlers, CommitInvite(h) PROVE InvIInv'
  <2> DEFINE new == [status |-> "pending", user |-> hnd[h].user, role |-> hnd[h].role,
                     token |-> hnd[h].token]
  <2>1. nextInv \in Invitees /\ inv[nextInv] = Absent
    BY <1>3, <1>t, InvitationsAssumption DEF CommitInvite, InvIInv, RowsExist, Invitees
  <2>2. new \in Invitation /\ new # Absent /\ new.status = "pending"
    BY <1>3, <1>t, HandlerFields DEF CommitInvite, Invitation, InvitationStatus, Absent
  <2>3. /\ inv' = [inv EXCEPT ![nextInv] = new] /\ nextInv' = nextInv + 1
        /\ UNCHANGED <<vars, lapsed, joins, nextToken>>
        /\ hnd' = [hnd EXCEPT ![h] = Idle]
    BY <1>3 DEF CommitInvite, HndEnd, HndTo
  <2> HIDE DEF new
  <2>4. TypeOK'
    BY <1>t, <2>3 DEF InvTypeOK, vars, orgVars, TypeOK, OrgTypeOK
  <2>5. InvTypeOK'
    BY <1>t, <2>1, <2>2, <2>3, <2>4, InvitationsAssumption DEF InvTypeOK, Invitees, InvTxn
  <2>6. RowsExist'
    BY <1>t, <2>1, <2>2, <2>3, HandlerFields, InvitationsAssumption
       DEF InvIInv, RowsExist, InvTypeOK, Invitees, Idle
  <2>7. \A g \in Handlers : hnd[g].pc = "accepting" => hnd[g].id # nextInv
    BY <1>t, <2>1, HandlerFields DEF InvIInv, AcceptsPending, Pending, Absent
  <2>8. AcceptsPending'
    BY <1>t, <2>3, <2>7, HandlerFields DEF InvIInv, AcceptsPending, InvTypeOK, Pending, Idle
  <2>9. PendingUnjoined'
    BY <1>t, <2>1, <2>3 DEF InvIInv, PendingUnjoined, InvTypeOK, Pending
  <2> QED BY <2>5, <2>6, <2>8, <2>9 DEF InvIInv
<1>4. ASSUME NEW h \in Handlers, NEW i \in Invitees, ReadForResend(h, i) PROVE InvIInv'
  <2>1. [pc |-> "resending", id |-> i, token |-> nextToken] \in InvTxn
    BY <1>4 DEF ReadForResend, InvTxn, ResendTxn
  <2>2. nextToken' \in 1..(MaxTokens + 1)
    BY <1>4, InvitationsAssumption DEF ReadForResend, MailTokens
  <2> QED BY <1>4, <1>p, <2>1, <2>2, HandlerStep DEF ReadForResend
<1>5. ASSUME NEW h \in Handlers, NEW i \in Invitees, ReadForInvRevoke(h, i) PROVE InvIInv'
  <2>1. [pc |-> "revoking", id |-> i] \in InvTxn
    BY <1>5 DEF ReadForInvRevoke, InvTxn, RevokeTxn
  <2> QED BY <1>5, <1>t, <1>p, <2>1, HandlerStep DEF ReadForInvRevoke, InvTypeOK
<1>6. ASSUME NEW h \in Handlers, CommitResend(h) PROVE InvIInv'
  <2> DEFINE i == hnd[h].id
             new == [inv[i] EXCEPT !.token = hnd[h].token]
  <2>1. i \in Invitees /\ hnd[h].token \in MailTokens /\ i < nextInv
    BY <1>6, <1>t, HandlerFields DEF CommitResend, InvIInv, RowsExist
  <2>2. inv[i] # Absent
    BY <2>1, <1>t, InvitationsAssumption DEF InvIInv, RowsExist, InvTypeOK, Invitees
  <2>3. new \in Invitation /\ new # Absent /\ new.status = inv[i].status
    BY <1>a, <2>1, <2>2 DEF Invitation, Absent, InvitationStatus
  <2>4. inv' = [inv EXCEPT ![i] = new]
    BY <1>6, <1>t, <2>1 DEF CommitResend, Refresh, InvTypeOK
  <2>5. lapsed' \in SUBSET Invitees
    BY <1>6, <1>t DEF CommitResend, InvTypeOK
  <2> HIDE DEF i, new
  <2>6. ~LockedInvitation(i)
    BY <1>6 DEF CommitResend, i
  <2> QED BY <1>6, <2>1, <2>2, <2>3, <2>4, <2>5, <2>6, RowStep DEF CommitResend, Pending
<1>7. ASSUME NEW h \in Handlers, CommitInvRevoke(h) PROVE InvIInv'
  <2> DEFINE i == hnd[h].id
             new == [inv[i] EXCEPT !.status = "revoked"]
  <2>1. i \in Invitees /\ i < nextInv
    BY <1>7, <1>t, HandlerFields DEF CommitInvRevoke, InvIInv, RowsExist
  <2>2. inv[i] # Absent
    BY <2>1, <1>t, InvitationsAssumption DEF InvIInv, RowsExist, InvTypeOK, Invitees
  <2>3. new \in Invitation /\ new # Absent /\ new.status = "revoked"
    BY <1>w, <2>1, <2>2 DEF InvitationStatus
  <2>4. inv' = [inv EXCEPT ![i] = new]
    BY <1>7, <1>t, <2>1 DEF CommitInvRevoke, InvTypeOK
  <2> HIDE DEF i, new
  <2>5. ~LockedInvitation(i) /\ lapsed' \in SUBSET Invitees
    BY <1>7, <1>t DEF CommitInvRevoke, InvTypeOK, i
  <2> QED BY <1>7, <2>1, <2>2, <2>3, <2>4, <2>5, RowStep DEF CommitInvRevoke
<1>8. ASSUME NEW h \in Handlers, NEW i \in Invitees, NEW k \in MailTokens,
             LockForAccept(h, i, k)
      PROVE  InvIInv'
  <2> DEFINE x == [pc |-> "accepting", id |-> i, token |-> k]
  <2>1. x \in InvTxn
    BY DEF InvTxn, AcceptTxn
  <2>2. /\ hnd' = [hnd EXCEPT ![h] = x] /\ UNCHANGED <<vars, invRows, nextToken>>
        /\ Pending(i) /\ inv[i].token = k /\ ~LockedInvitation(i)
    BY <1>8 DEF LockForAccept, HndTo, Redeemable
  <2>3. TypeOK'
    BY <1>t, <2>2 DEF InvTypeOK, vars, orgVars, TypeOK, OrgTypeOK
  <2>4. InvTypeOK'
    BY <1>t, <2>1, <2>2, <2>3 DEF InvTypeOK, invRows
  <2>5. RowsExist'
    BY <1>t, <1>p, <2>2 DEF InvIInv, RowsExist, InvTypeOK, invRows
  <2>6. AcceptsPending'
    BY <1>t, <2>2 DEF InvIInv, AcceptsPending, InvTypeOK, invRows, LockedInvitation, Pending
  <2>7. PendingUnjoined'
    BY <2>2 DEF InvIInv, PendingUnjoined, invRows, Pending
  <2> QED BY <2>4, <2>5, <2>6, <2>7 DEF InvIInv
<1>9. ASSUME NEW h \in Handlers, CommitAccept(h) PROVE InvIInv'
  <2> DEFINE i == hnd[h].id
             new == [inv[i] EXCEPT !.status = "accepted"]
  <2>1. i \in Invitees /\ Pending(i) /\ inv[i] # Absent
    BY <1>9, <1>t, <1>p, HandlerFields DEF CommitAccept, InvIInv, AcceptsPending
  <2>2. new \in Invitation /\ new # Absent /\ new.status = "accepted"
    BY <1>w, <2>1 DEF InvitationStatus
  <2>3. /\ inv' = [inv EXCEPT ![i] = new] /\ joins' = [joins EXCEPT ![i] = @ + 1]
        /\ hnd' = [hnd EXCEPT ![h] = Idle]
        /\ UNCHANGED <<org, req, lapsed, nextInv, nextToken>>
    BY <1>9, <1>t, <2>1 DEF CommitAccept, Accepted, HndEnd, HndTo, InvTypeOK
  <2>4. TypeOK'
    <3>1. nextRow \in Rows /\ AddMember(nextRow, inv[i].user, inv[i].role)
      BY <1>9 DEF CommitAccept
    <3>2. inv[i].user \in Users /\ inv[i].role \in OrgRole
      BY <1>a, <2>1
    <3> HIDE DEF i, new
    <3> QED
      BY <1>t, <2>3, <3>1, <3>2, RowsAssumption
         DEF AddMember, InvTypeOK, TypeOK, OrgTypeOK, Rows
  <2>5. joins[i] = 0
    BY <2>1 DEF InvIInv, PendingUnjoined
  <2>6. \A g \in Handlers : g # h => ~(hnd[g].pc = "accepting" /\ hnd[g].id = i)
    BY <1>9 DEF CommitAccept, InvIInv, AcceptsPending
  <2> HIDE DEF i, new
  <2>7. InvTypeOK'
    BY <1>t, <2>1, <2>2, <2>3, <2>4 DEF InvTypeOK, InvTxn
  <2>8. RowsExist'
    BY <1>t, <2>1, <2>2, <2>3 DEF InvIInv, RowsExist, InvTypeOK, Idle
  <2>9. AcceptsPending'
    BY <1>t, <2>3, <2>6, HandlerFields DEF InvIInv, AcceptsPending, InvTypeOK, Pending, Idle
  <2>10. PendingUnjoined'
    BY <1>t, <2>1, <2>2, <2>3, <2>5 DEF InvIInv, PendingUnjoined, InvTypeOK, Pending
  <2> QED BY <2>7, <2>8, <2>9, <2>10 DEF InvIInv
<1>10. ASSUME NEW i \in Invitees, NEW k \in MailTokens, Decline(i, k) \/ RefuseLapsed(i, k)
       PROVE  InvIInv'
  <2>1. PICK s \in {"declined", "expired"} : inv' = [inv EXCEPT ![i].status = s]
    BY <1>10 DEF Decline, RefuseLapsed
  <2> DEFINE new == [inv[i] EXCEPT !.status = s]
  <2>2. inv[i] # Absent
    BY <1>10, <1>p DEF Decline, RefuseLapsed, Redeemable
  <2>3. new \in Invitation /\ new # Absent /\ new.status = s
    BY <1>w, <2>2 DEF InvitationStatus
  <2>4. inv' = [inv EXCEPT ![i] = new]
    BY <2>1, <1>t DEF InvTypeOK
  <2> HIDE DEF new
  <2> QED BY <1>10, <1>t, <2>2, <2>3, <2>4, RowStep DEF Decline, RefuseLapsed, InvTypeOK
<1>11. ASSUME NEW i \in Invitees, Lapse(i) PROVE InvIInv'
  <2>1. TypeOK'
    BY <1>11, <1>t DEF Lapse, InvTypeOK, vars, orgVars, TypeOK, OrgTypeOK
  <2>2. InvTypeOK'
    BY <1>11, <1>t, <2>1 DEF Lapse, InvTypeOK
  <2> QED
    BY <1>11, <2>2 DEF Lapse, InvIInv, RowsExist, AcceptsPending, PendingUnjoined, Pending
<1>12. ASSUME NEW h \in Handlers, HndRollback(h) PROVE InvIInv'
  <2>1. Idle \in InvTxn /\ Idle.pc = "idle"
    BY DEF InvTxn, Idle
  <2> QED BY <1>12, <1>t, <2>1, HandlerStep DEF HndRollback, HndEnd, InvTypeOK
<1>13. CASE OrgNext /\ UNCHANGED invVars
  BY <1>13, MemberStep
<1>14. CASE UNCHANGED allVars
  BY <1>14, MemberStep DEF allVars
<1> QED
  BY <1>1, <1>2, <1>3, <1>4, <1>5, <1>6, <1>7, <1>8, <1>9, <1>10, <1>11, <1>12, <1>13, <1>14
     DEF Next, InvNext

LEMMA Inviting == InvSpec => []InvIInv
BY InvIInit, InvIStep, PTL DEF InvSpec

(* Every variable of the invitation model keeps its type. *)
THEOREM InvitationTypeCorrect == InvSpec => []InvTypeOK
<1>1. InvIInv => InvTypeOK
  BY DEF InvIInv
<1> QED BY Inviting, <1>1, PTL

(* An invitation makes one member at most, however its link is resent,     *)
(* revoked, opened twice at once or opened again by a member who left.     *)
THEOREM InvitationUsedOnce == InvSpec => []SingleUse
<1>1. InvIInv => SingleUse
  BY DEF InvIInv, PendingUnjoined, SingleUse
<1> QED BY Inviting, <1>1, PTL

(* Who joins holds the link that was sent last, of an invitation that is   *)
(* still open: no resend or revocation commits under an acceptance.        *)
THEOREM CurrentLinkJoins == InvSpec => JoinsByCurrentLink
<1>1. InvIInv => \A h \in Handlers : hnd[h].pc = "accepting" =>
                   Pending(hnd[h].id) /\ inv[hnd[h].id].token = hnd[h].token
  BY DEF InvIInv, AcceptsPending
<1>2. InvIInv /\ [Next]_allVars =>
        [\A h \in Handlers :
           hnd[h].pc = "accepting" /\ joins' # joins /\ hnd'[h] = Idle
             => Pending(hnd[h].id) /\ inv[hnd[h].id].token = hnd[h].token]_allVars
  BY <1>1
<1> QED BY Inviting, <1>2, PTL DEF InvSpec, JoinsByCurrentLink

-----------------------------------------------------------------------------
(* Only owners make owners, invitations included: an invitation that would *)
(* make one was written by a request authorized as an owner.               *)

LEMMA GrantingInvites == InvSpec => [](InvIInv /\ GrantIsAuthorized)
<1>1. InvInit => GrantIsAuthorized
  BY DEF InvInit, Init, GrantIsAuthorized, Idle
<1>2. InvIInv /\ GrantIsAuthorized /\ [Next]_allVars => GrantIsAuthorized'
  <2> SUFFICES ASSUME InvIInv, GrantIsAuthorized, [Next]_allVars PROVE GrantIsAuthorized'
    OBVIOUS
  <2>1. CASE [OrgNext]_vars
    BY <2>1, GrantStep DEF InvIInv, InvTypeOK
  <2>2. CASE InvNext
    <3>1. req' = req
      BY <2>2 DEF InvNext, AuthorizeInvite, CheckInvite, CommitInvite, ReadForResend,
         CommitResend, ReadForInvRevoke, CommitInvRevoke, LockForAccept, CommitAccept,
         Decline, RefuseLapsed, Lapse, HndRollback, vars
    <3> QED BY <3>1 DEF GrantIsAuthorized
  <2> QED BY <2>1, <2>2 DEF Next, allVars
<1> QED BY InvIInit, InvIStep, <1>1, <1>2, PTL DEF InvSpec

LEMMA ClosedStep ==
  ASSUME InvIInv, GrantIsAuthorized, [Next]_allVars, Orphaned, ~OwnerInvited
  PROVE  Orphaned' /\ ~OwnerInvited'
<1>t. InvTypeOK
  BY DEF InvIInv
<1>a. \A i \in Invitees : inv[i] # Absent =>
        inv[i] \in [status : InvitationStatus, user : Users, role : OrgRole, token : MailTokens]
  BY <1>t DEF InvTypeOK, Invitation
<1>1. CASE [OrgNext]_vars /\ UNCHANGED invVars
  <2>1. Orphaned'
    BY <1>1, <1>t, OrphanedStep DEF InvTypeOK
  <2>2. ~OwnerInvited'
    BY <1>1 DEF OwnerInvited, invVars, invRows, Pending
  <2> QED BY <2>1, <2>2
(* Steps that leave the memberships alone. *)
<1>m. ASSUME UNCHANGED vars PROVE Orphaned'
  BY <1>m DEF vars, orgVars, Orphaned, Owner, IsMember, OwnerRequest
<1>2. ASSUME NEW h \in Handlers, NEW u \in Users, AuthorizeInvite(h, u)
      PROVE  Orphaned' /\ ~OwnerInvited'
  <2>1. role[member[u]] # "owner"
    BY <1>2 DEF AuthorizeInvite, HasPermission, Orphaned, Owner
  <2> QED
    BY <1>2, <1>m, <1>t, <2>1
       DEF AuthorizeInvite, HndTo, OwnerInvited, invRows, Pending, InvTypeOK
<1>3. ASSUME NEW h \in Handlers, NEW t \in Users, NEW new \in OrgRole, CheckInvite(h, t, new)
      PROVE  Orphaned' /\ ~OwnerInvited'
  <2>1. new # "owner"
    BY <1>3 DEF CheckInvite, MayAssign, OwnerInvited
  <2> QED
    BY <1>3, <1>m, <1>t, <2>1
       DEF CheckInvite, HndTo, OwnerInvited, invRows, Pending, InvTypeOK
<1>4. ASSUME NEW h \in Handlers, CommitInvite(h) PROVE Orphaned' /\ ~OwnerInvited'
  <2>1. hnd[h].role # "owner"
    BY <1>4 DEF CommitInvite, OwnerInvited
  <2> QED
    BY <1>4, <1>m, <1>t, <2>1
       DEF CommitInvite, HndEnd, HndTo, OwnerInvited, Pending, InvTypeOK, Idle
<1>5. ASSUME NEW h \in Handlers,
             \/ \E i \in Invitees : ReadForResend(h, i) \/ ReadForInvRevoke(h, i)
             \/ \E i \in Invitees, k \in MailTokens : LockForAccept(h, i, k)
             \/ HndRollback(h)
      PROVE  Orphaned' /\ ~OwnerInvited'
  BY <1>5, <1>m, <1>t
     DEF ReadForResend, ReadForInvRevoke, LockForAccept, HndRollback, HndEnd, HndTo,
         OwnerInvited, invRows, Pending, InvTypeOK, Idle
(* A row that is rewritten keeps its role and does not become pending. *)
<1>6. ASSUME NEW h \in Handlers, CommitResend(h) PROVE Orphaned' /\ ~OwnerInvited'
  <2>1. hnd[h].id \in Invitees /\ inv[hnd[h].id] # Absent
    BY <1>6, <1>t, HandlerFields, InvitationsAssumption
       DEF CommitResend, InvIInv, RowsExist, InvTypeOK, Invitees
  <2>2. /\ inv'[hnd[h].id].status = inv[hnd[h].id].status
        /\ inv'[hnd[h].id].role = inv[hnd[h].id].role
    BY <1>6, <1>a, <1>t, <2>1 DEF CommitResend, Refresh, InvTypeOK
  <2>3. \A i \in Invitees : i # hnd[h].id => inv'[i] = inv[i]
    BY <1>6, <1>t DEF CommitResend, Refresh, InvTypeOK
  <2> QED
    BY <1>6, <1>m, <1>t, <2>1, <2>2, <2>3
       DEF CommitResend, HndEnd, HndTo, OwnerInvited, Pending, InvTypeOK, Idle
<1>7. ASSUME NEW h \in Handlers, CommitInvRevoke(h) PROVE Orphaned' /\ ~OwnerInvited'
  <2>1. hnd[h].id \in Invitees /\ inv[hnd[h].id] # Absent
    BY <1>7, <1>t, HandlerFields, InvitationsAssumption
       DEF CommitInvRevoke, InvIInv, RowsExist, InvTypeOK, Invitees
  <2>2. inv'[hnd[h].id].status = "revoked"
    BY <1>7, <1>a, <1>t, <2>1 DEF CommitInvRevoke, InvTypeOK
  <2>3. \A i \in Invitees : i # hnd[h].id => inv'[i] = inv[i]
    BY <1>7, <1>t DEF CommitInvRevoke, InvTypeOK
  <2> QED
    BY <1>7, <1>m, <1>t, <2>1, <2>2, <2>3
       DEF CommitInvRevoke, HndEnd, HndTo, OwnerInvited, Pending, InvTypeOK, Idle
<1>8. ASSUME NEW h \in Handlers, CommitAccept(h) PROVE Orphaned' /\ ~OwnerInvited'
  <2> DEFINE i == hnd[h].id
  <2>1. i \in Invitees /\ Pending(i)
    BY <1>8, <1>t, HandlerFields DEF CommitAccept, InvIInv, AcceptsPending
  <2>2. inv[i].role # "owner" /\ inv[i] # Absent
    BY <2>1 DEF OwnerInvited, Pending, Absent
  <2>3. inv[i].user \in Users
    BY <1>a, <2>1, <2>2
  <2>4. nextRow \in Rows /\ AddMember(nextRow, inv[i].user, inv[i].role) /\ org' = org /\ req' = req
    BY <1>8 DEF CommitAccept
  <2>5. inv'[i].status = "accepted" /\ \A j \in Invitees : j # i => inv'[j] = inv[j]
    BY <1>8, <1>a, <1>t, <2>1, <2>2 DEF CommitAccept, Accepted, InvTypeOK
  <2>6. ~OwnerInvited'
    BY <1>8, <1>t, <2>1, <2>5
       DEF CommitAccept, HndEnd, HndTo, OwnerInvited, Pending, InvTypeOK, Idle
  <2> HIDE DEF i
  <2>7. \A u \in Users : ~Owner(u)'
    BY <1>t, <2>2, <2>3, <2>4, RowsAssumption
       DEF AddMember, Orphaned, Owner, IsMember, InvTypeOK, TypeOK, OrgTypeOK, Rows, None
  <2> QED BY <2>4, <2>6, <2>7 DEF Orphaned, OwnerRequest
<1>9. ASSUME NEW i \in Invitees, NEW k \in MailTokens, Decline(i, k) \/ RefuseLapsed(i, k)
      PROVE  Orphaned' /\ ~OwnerInvited'
  <2>1. inv[i] # Absent
    BY <1>9 DEF Decline, RefuseLapsed, Redeemable, Pending, Absent
  <2>2. inv'[i].status # "pending" /\ \A j \in Invitees : j # i => inv'[j] = inv[j]
    BY <1>9, <1>a, <1>t, <2>1 DEF Decline, RefuseLapsed, InvTypeOK
  <2> QED BY <1>9, <1>m, <1>t, <2>2 DEF Decline, RefuseLapsed, OwnerInvited, Pending, InvTypeOK
<1>10. ASSUME NEW i \in Invitees, Lapse(i) PROVE Orphaned' /\ ~OwnerInvited'
  BY <1>10, <1>m DEF Lapse, OwnerInvited, Pending
<1>11. CASE UNCHANGED allVars
  BY <1>11, <1>1 DEF allVars
<1> QED
  BY <1>1, <1>2, <1>3, <1>4, <1>5, <1>6, <1>7, <1>8, <1>9, <1>10, <1>11 DEF Next, InvNext

(* An organization without an owner, with no owner's request under way and *)
(* no open invitation to become one, never has an owner again.             *)
THEOREM OwnersAreInvitedByOwners == InvSpec => OwnersComeFromOwnersOrInvitations
<1>1. InvIInv /\ GrantIsAuthorized /\ [Next]_allVars =>
        [Orphaned /\ ~OwnerInvited => (Orphaned /\ ~OwnerInvited)']_allVars
  BY ClosedStep
<1> QED BY GrantingInvites, <1>1, PTL DEF InvSpec, OwnersComeFromOwnersOrInvitations

-----------------------------------------------------------------------------
(* Owner protection among invitations: the requests of members come one at *)
(* a time, the invitation requests as they like.                           *)

(* The rows that requests have read were there when they read them: a row  *)
(* that an acceptance writes is a new one.                                 *)
RowsBelow ==
  \A r \in Requests :
    /\ req[r].pc = "authorized" => req[r].actorRow < nextRow
    /\ req[r].pc \in {"counting", "updating", "countingRemove", "removing"}
         => req[r].row < nextRow

LEMMA BelowStep ==
  ASSUME TypeOK, RowsAreDistinct, RowsBelow, [OrgNext]_vars
  PROVE  RowsBelow'
<1> USE DEF RowsAreDistinct
<1>n. nextRow \in Nat
  BY RowsAssumption DEF TypeOK, OrgTypeOK
<1>f. ASSUME NEW r \in Requests
      PROVE  /\ req[r].pc = "authorized" => req[r].actorRow \in Rows
             /\ req[r].pc \in {"counting", "updating", "countingRemove", "removing"} =>
                  req[r].row \in Rows
  BY TxnShapes DEF TypeOK, AuthorizedTxn, UpdateTxn, RemoveTxn
(* A step of one request that leaves the rows alone. *)
<1>k. ASSUME NEW r \in Requests, NEW x, To(r, x), UNCHANGED nextRow,
             x.pc = "authorized" => x.actorRow < nextRow,
             x.pc \in {"counting", "updating", "countingRemove", "removing"}
               => x.row < nextRow
      PROVE  RowsBelow'
  BY <1>k DEF To, RowsBelow, TypeOK
<1>i. ASSUME NEW r \in Requests, End(r), UNCHANGED nextRow PROVE RowsBelow'
  BY <1>i DEF End, To, RowsBelow, TypeOK, Idle
<1>1. ASSUME NEW u \in Users, Create(u) PROVE RowsBelow'
  BY <1>1, <1>n, <1>f DEF Create, AddMember, RowsBelow, Rows
<1>2. ASSUME NEW r \in Requests, NEW u \in Users, Authorize(r, u) \/ AuthorizeDelete(r, u)
      PROVE  RowsBelow'
  BY <1>2, <1>k DEF Authorize, AuthorizeDelete, orgVars
<1>3. ASSUME NEW r \in Requests, NEW t \in Users, NEW new \in OrgRole, CheckAdd(r, t, new)
      PROVE  RowsBelow'
  BY <1>3, <1>k DEF CheckAdd, orgVars
<1>4. ASSUME NEW r \in Requests, CommitAdd(r) PROVE RowsBelow'
  BY <1>4, <1>n, <1>f
     DEF CommitAdd, AddMember, End, To, RowsBelow, Rows, TypeOK, Idle
<1>5. ASSUME NEW r \in Requests, NEW t \in Users, NEW new \in OrgRole,
             CheckUpdate(r, t, new)
      PROVE  RowsBelow'
  BY <1>5, <1>k DEF CheckUpdate, orgVars
<1>6. ASSUME NEW r \in Requests, NEW t \in Users, CheckRemove(r, t) PROVE RowsBelow'
  BY <1>6, <1>k DEF CheckRemove, orgVars
<1>7. ASSUME NEW r \in Requests, CountForUpdate(r) PROVE RowsBelow'
  <2>1. req[r] \in UpdateTxn
    BY <1>7, TxnShapes DEF CountForUpdate, TypeOK
  <2>2. LET x == [req[r] EXCEPT !.pc = "updating"]
        IN  x.pc = "updating" /\ x.row = req[r].row
    BY <2>1 DEF UpdateTxn
  <2> QED BY <1>7, <2>2, <1>k DEF CountForUpdate, orgVars, RowsBelow
<1>8. ASSUME NEW r \in Requests, CountForRemove(r) PROVE RowsBelow'
  <2>1. req[r] \in RemoveTxn
    BY <1>8, TxnShapes DEF CountForRemove, TypeOK
  <2>2. LET x == [req[r] EXCEPT !.pc = "removing"]
        IN  x.pc = "removing" /\ x.row = req[r].row
    BY <2>1 DEF RemoveTxn
  <2> QED BY <1>8, <2>2, <1>k DEF CountForRemove, orgVars, RowsBelow
<1>9. ASSUME NEW r \in Requests,
             CommitUpdate(r) \/ CommitRemove(r) \/ CommitDelete(r) \/ Rollback(r)
      PROVE  RowsBelow'
  BY <1>9, <1>i DEF CommitUpdate, CommitRemove, CommitDelete, Rollback, orgVars
<1>10. CASE UNCHANGED vars
  BY <1>10 DEF vars, orgVars, RowsBelow
<1> QED BY <1>1, <1>2, <1>3, <1>4, <1>5, <1>6, <1>7, <1>8, <1>9, <1>10 DEF OrgNext

(* An invitation request leaves the memberships alone, or adds a member on *)
(* a new row.                                                              *)
LEMMA JoinOrNothing ==
  ASSUME InvIInv, InvNext
  PROVE  \/ UNCHANGED vars
         \/ \E u \in Users, new \in OrgRole :
              /\ nextRow \in Rows /\ ~IsMember(u) /\ AddMember(nextRow, u, new)
              /\ UNCHANGED <<org, req>>
<1>1. ASSUME NEW h \in Handlers, CommitAccept(h)
      PROVE  \E u \in Users, new \in OrgRole :
               /\ nextRow \in Rows /\ ~IsMember(u) /\ AddMember(nextRow, u, new)
               /\ UNCHANGED <<org, req>>
  <2> DEFINE i == hnd[h].id
  <2>1. i \in Invitees /\ Pending(i)
    BY <1>1, HandlerFields DEF CommitAccept, InvIInv, AcceptsPending
  <2>2. inv[i].user \in Users /\ inv[i].role \in OrgRole
    BY <2>1 DEF InvIInv, InvTypeOK, Invitation, Pending, Absent
  <2>3. /\ nextRow \in Rows /\ ~IsMember(inv[i].user)
        /\ AddMember(nextRow, inv[i].user, inv[i].role)
        /\ UNCHANGED <<org, req>>
    BY <1>1 DEF CommitAccept
  <2> QED BY <2>2, <2>3
<1>2. CASE \A h \in Handlers : ~CommitAccept(h)
  BY <1>2 DEF InvNext, AuthorizeInvite, CheckInvite, CommitInvite, ReadForResend,
     CommitResend, ReadForInvRevoke, CommitInvRevoke, LockForAccept,
     Decline, RefuseLapsed, Lapse, HndRollback
<1> QED BY <1>1, <1>2

LEMMA JoinKeepsOwners ==
  ASSUME InvIInv, Sequential, RowsBelow, InvNext
  PROVE  Sequential' /\ RowsBelow'
<1> USE DEF Sequential
<1>t. TypeOK'
  BY InvIStep DEF InvIInv, InvTypeOK, Next
<1>1. CASE UNCHANGED vars
  <2>1. OwnerRemains' /\ RowsAreDistinct' /\ AbsentIsQuiet' /\ RowsBelow'
    BY <1>1 DEF vars, orgVars, OwnerRemains, Owner, IsMember, RowsAreDistinct, AbsentIsQuiet,
       RowsBelow
  <2>2. SeenIsCurrent'
    BY <1>1 DEF vars, orgVars, SeenIsCurrent, SeveralOwners, Owner, IsMember
  <2> QED BY <1>t, <2>1, <2>2
<1>2. ASSUME NEW u \in Users, NEW new \in OrgRole, nextRow \in Rows, ~IsMember(u),
             AddMember(nextRow, u, new), UNCHANGED <<org, req>>
      PROVE  Sequential' /\ RowsBelow'
  <2>1. /\ member' = [member EXCEPT ![u] = nextRow]
        /\ role' = [role EXCEPT ![nextRow] = new]
        /\ nextRow' = nextRow + 1 /\ nextRow \in Nat
    BY <1>2, RowsAssumption DEF AddMember, Rows
  (* Who was an owner stays one. *)
  <2>2. \A v \in Users : Owner(v) => Owner(v)'
    BY <1>2, <2>1 DEF Owner, IsMember, RowsAreDistinct, TypeOK, OrgTypeOK
  <2>3. SeveralOwners => SeveralOwners'
    BY <2>2 DEF SeveralOwners
  (* The rows that were read stay as they were. *)
  <2>4. \A w \in Rows : w < nextRow => role'[w] = role[w]
    BY <2>1 DEF TypeOK, OrgTypeOK
  <2>f. ASSUME NEW r \in Requests
        PROVE  /\ req[r].pc = "authorized" => req[r].actorRow \in Rows
               /\ req[r].pc \in {"counting", "updating", "countingRemove", "removing"} =>
                    req[r].row \in Rows
    BY TxnShapes DEF TypeOK, AuthorizedTxn, UpdateTxn, RemoveTxn
  <2>5. OwnerRemains' /\ AbsentIsQuiet'
    BY <1>2, <2>2 DEF OwnerRemains, AbsentIsQuiet
  <2>6. RowsAreDistinct'
    BY <1>2, <2>1 DEF RowsAreDistinct, IsMember, TypeOK, OrgTypeOK, Rows, None
  <2>7. RowsBelow'
    BY <1>2, <2>1, <2>f DEF RowsBelow, Rows
  <2>8. SeenIsCurrent'
    BY <1>2, <2>3, <2>4, <2>f DEF SeenIsCurrent, RowsBelow
  <2> QED BY <1>t, <2>5, <2>6, <2>7, <2>8
<1> QED BY <1>1, <1>2, JoinOrNothing

AloneIInv == OneRequest /\ Sequential /\ RowsBelow /\ InvIInv

LEMMA AloneInit == InvInit => AloneIInv
<1> SUFFICES ASSUME InvInit PROVE AloneIInv
  OBVIOUS
<1>1. OneRequest /\ RowsBelow
  BY DEF InvInit, Init, OneRequest, RowsBelow, Idle
<1> QED BY <1>1, SequentialInit, InvIInit DEF InvInit, AloneIInv

LEMMA AloneStep ==
  ASSUME AloneIInv, OneRequest', [Next]_allVars
  PROVE  AloneIInv'
<1> USE DEF AloneIInv
<1>1. CASE [OrgNext]_vars /\ UNCHANGED invVars
  <2>1. Sequential'
    BY <1>1, SequentialStep
  <2>2. RowsBelow'
    BY <1>1, BelowStep DEF Sequential
  <2> QED BY <1>1, <2>1, <2>2, MemberStep
<1>2. CASE InvNext
  BY <1>2, JoinKeepsOwners, InvIStep DEF Next
<1> QED BY <1>1, <1>2 DEF allVars, Next

(* An organization keeps an owner when the requests of its members come    *)
(* one at a time, however many invitations are made, resent, revoked and   *)
(* accepted meanwhile: an acceptance between the count of the owners and   *)
(* the write that relies on it takes no owner away.                        *)
THEOREM OwnersRemainAmongInvitations ==
  ASSUME \A q, r \in Requests : q = r
  PROVE  InvSpec => []OwnerRemains
<1>1. OneRequest'
  BY DEF OneRequest
<1>2. AloneIInv /\ [Next]_allVars => AloneIInv'
  BY <1>1, AloneStep
<1>3. AloneIInv => OwnerRemains
  BY DEF AloneIInv, Sequential
<1> QED BY AloneInit, <1>2, <1>3, PTL DEF InvSpec

(* With the history of the runs                                            *)
OwnedIInv == overlapped \/ AloneIInv

LEMMA OwnedInit == WorkspaceInit => OwnedIInv
BY AloneInit DEF WorkspaceInit, OwnedIInv

LEMMA OwnedStep == OwnedIInv /\ [WorkspaceNext]_workspaceVars => OwnedIInv'
<1> SUFFICES ASSUME OwnedIInv, [WorkspaceNext]_workspaceVars, ~overlapped'
             PROVE  AloneIInv'
  BY DEF OwnedIInv
<1>a. ASSUME overlapped PROVE FALSE
  <2>1. CASE WorkspaceNext
    <3>1. overlapped' = (overlapped \/ Overlap')
      BY <2>1 DEF WorkspaceNext
    <3> QED BY <1>a, <3>1
  <2>2. CASE UNCHANGED workspaceVars
    <3>1. overlapped' = overlapped
      BY <2>2 DEF workspaceVars
    <3> QED BY <1>a, <3>1
  <2> QED BY <2>1, <2>2
<1>1. AloneIInv
  BY <1>a DEF OwnedIInv
<1>2. OneRequest'
  BY <1>1 DEF WorkspaceNext, workspaceVars, allVars, vars, Overlap, OneRequest, AloneIInv
<1>3. [Next]_allVars
  BY DEF WorkspaceNext, workspaceVars, Next
<1> QED BY <1>1, <1>2, <1>3, AloneStep

(* An organization keeps an owner as long as no two membership requests    *)
(* have been in flight together, however many invitations are made, resent,*)
(* revoked and accepted meanwhile.                                         *)
THEOREM OwnersRemainAlone == WorkspaceSpec => []OwnerRemainsAlone
<1>1. OwnedIInv => OwnerRemainsAlone
  BY DEF OwnedIInv, AloneIInv, Sequential, OwnerRemainsAlone
<1> QED BY OwnedInit, OwnedStep, <1>1, PTL DEF WorkspaceSpec
=============================================================================
