----------------------------- MODULE Invitations -----------------------------
(***************************************************************************)
(* Invitations to the organization (services/invitation_service.py,        *)
(* repositories/organization_invitation_repository.py), composed with the  *)
(* membership requests of Organizations.                                   *)
(*                                                                         *)
(* An invitation names the e-mail of one user and carries the hash of one  *)
(* token; resending replaces it.  Tokens are numbered in the order they    *)
(* are mailed, which is before the transaction that stores them commits.   *)
(* accept and decline lock the row they find by the token's hash; resend   *)
(* and revoke read it without a lock and write by primary key.             *)
(***************************************************************************)
EXTENDS Organizations

CONSTANTS
  MaxInvitations, \* bound on the invitations ever created
  MaxTokens,      \* bound on the tokens ever mailed
  Handlers        \* invitation requests that may be in flight together

ASSUME InvitationsAssumption == MaxInvitations \in Nat /\ MaxTokens \in Nat

VARIABLES
  inv,          \* organization_invitations by id
  lapsed,       \* invitations whose expires_at has passed
  joins,        \* how many memberships each invitation has made
  nextInv,      \* the next invitation id
  nextToken,    \* the next token
  hnd           \* the invitation requests' transactions

invRows == <<inv, lapsed, joins, nextInv>>
invVars == <<invRows, nextToken, hnd>>
allVars == <<vars, invVars>>

Invitees == 1..MaxInvitations
MailTokens == 1..MaxTokens

InvitationStatus == {"pending", "accepted", "declined", "revoked", "expired"}
Absent == [status |-> "absent"]
Invitation ==
  {Absent} \cup [status : InvitationStatus, user : Users, role : OrgRole, token : MailTokens]

InviteTxn == [pc : {"authorized"}, actorRole : OrgRole]
InsertTxn == [pc : {"inserting"}, user : Users, role : OrgRole, token : MailTokens]
ResendTxn == [pc : {"resending"}, id : Invitees, token : MailTokens]
RevokeTxn == [pc : {"revoking"}, id : Invitees]
AcceptTxn == [pc : {"accepting"}, id : Invitees, token : MailTokens]
InvTxn == {Idle} \cup InviteTxn \cup InsertTxn \cup ResendTxn \cup RevokeTxn \cup AcceptTxn

InvTypeOK ==
  /\ TypeOK
  /\ inv \in [Invitees -> Invitation]
  /\ lapsed \subseteq Invitees
  /\ joins \in [Invitees -> Nat]
  /\ nextInv \in 1..(MaxInvitations + 1)
  /\ nextToken \in 1..(MaxTokens + 1)
  /\ hnd \in [Handlers -> InvTxn]

NoInvitations ==
  /\ inv = [i \in Invitees |-> Absent]
  /\ lapsed = {}
  /\ joins = [i \in Invitees |-> 0]
  /\ nextInv = 1
  /\ nextToken = 1
  /\ hnd = [h \in Handlers |-> Idle]
InvInit == Init /\ NoInvitations

-----------------------------------------------------------------------------
(* Helpers                                                                 *)

Pending(i) == inv[i].status = "pending"

(* SELECT ... FOR UPDATE: an accept holds its row until it ends.  (Without *)
(* the lock: a slip for the runs to reject.)                               *)
NoInvitationLock(i) == FALSE
LockedInvitation(i) == \E h \in Handlers : hnd[h].pc = "accepting" /\ hnd[h].id = i

(* get_active_pending: one row or none; two raise MultipleResultsFound     *)
ActivePending(u) == {i \in Invitees : Pending(i) /\ inv[i].user = u /\ i \notin lapsed}

(* get_by_hash_for_update, and the tests of accept and decline on the row  *)
Redeemable(i, k) == Pending(i) /\ inv[i].token = k

(* A slip a change of this code could make, for the runs to reject: an     *)
(* acceptance that leaves the invitation pending.                          *)
StatusKept(i) == inv

(* update_token *)
Refresh(i, k) == [inv EXCEPT ![i].token = k]

(* invitation.status = ACCEPTED *)
Accepted(i) == [inv EXCEPT ![i].status = "accepted"]

HndTo(h, txn) == hnd' = [hnd EXCEPT ![h] = txn]
HndEnd(h) == HndTo(h, Idle)

-----------------------------------------------------------------------------
(* create *)

AuthorizeInvite(h, u) ==
  /\ hnd[h] = Idle
  /\ HasPermission(u, "member.manage")
  /\ HndTo(h, [pc |-> "authorized", actorRole |-> role[member[u]]])
  /\ UNCHANGED <<vars, invRows, nextToken>>

(* The invitation is mailed before its row is committed. *)
CheckInvite(h, t, new) ==
  /\ hnd[h].pc = "authorized"
  /\ MayAssign(hnd[h].actorRole, new)
  /\ org = "active"
  /\ ~IsMember(t)
  /\ ActivePending(t) = {}
  /\ nextToken \in MailTokens
  /\ HndTo(h, [pc |-> "inserting", user |-> t, role |-> new, token |-> nextToken])
  /\ nextToken' = nextToken + 1
  /\ UNCHANGED <<vars, invRows>>

CommitInvite(h) ==
  /\ hnd[h].pc = "inserting"
  /\ nextInv \in Invitees
  /\ inv' = [inv EXCEPT ![nextInv] =
       [status |-> "pending", user |-> hnd[h].user, role |-> hnd[h].role,
        token |-> hnd[h].token]]
  /\ nextInv' = nextInv + 1
  /\ HndEnd(h)
  /\ UNCHANGED <<vars, lapsed, joins, nextToken>>

-----------------------------------------------------------------------------
(* resend and revoke: the permission and the row are read, then the row is *)
(* written whatever it has become.                                         *)

ReadForResend(h, i) ==
  /\ hnd[h] = Idle
  /\ \E u \in Users : HasPermission(u, "member.manage")
  /\ Pending(i)
  /\ nextToken \in MailTokens
  /\ HndTo(h, [pc |-> "resending", id |-> i, token |-> nextToken])
  /\ nextToken' = nextToken + 1
  /\ UNCHANGED <<vars, invRows>>

CommitResend(h) ==
  /\ hnd[h].pc = "resending"
  /\ ~LockedInvitation(hnd[h].id)
  /\ inv' = Refresh(hnd[h].id, hnd[h].token)
  /\ lapsed' = lapsed \ {hnd[h].id}
  /\ HndEnd(h)
  /\ UNCHANGED <<vars, joins, nextInv, nextToken>>

ReadForInvRevoke(h, i) ==
  /\ hnd[h] = Idle
  /\ \E u \in Users : HasPermission(u, "member.manage")
  /\ Pending(i)
  /\ HndTo(h, [pc |-> "revoking", id |-> i])
  /\ UNCHANGED <<vars, invRows, nextToken>>

CommitInvRevoke(h) ==
  /\ hnd[h].pc = "revoking"
  /\ ~LockedInvitation(hnd[h].id)
  /\ inv' = [inv EXCEPT ![hnd[h].id].status = "revoked"]
  /\ HndEnd(h)
  /\ UNCHANGED <<vars, lapsed, joins, nextInv, nextToken>>

-----------------------------------------------------------------------------
(* accept: the row is locked; the e-mail must be the account's, and the    *)
(* account no member.  The organization itself is not looked at.           *)

LockForAccept(h, i, k) ==
  /\ hnd[h] = Idle
  /\ Redeemable(i, k)
  /\ ~LockedInvitation(i)
  /\ i \notin lapsed
  /\ ~IsMember(inv[i].user)
  /\ HndTo(h, [pc |-> "accepting", id |-> i, token |-> k])
  /\ UNCHANGED <<vars, invRows, nextToken>>

CommitAccept(h) ==
  LET i == hnd[h].id
  IN /\ hnd[h].pc = "accepting"
     /\ nextRow \in Rows
     /\ ~IsMember(inv[i].user)
     /\ AddMember(nextRow, inv[i].user, inv[i].role)
     /\ inv' = Accepted(i)
     /\ joins' = [joins EXCEPT ![i] = @ + 1]
     /\ HndEnd(h)
     /\ UNCHANGED <<org, req, lapsed, nextInv, nextToken>>

(* decline: one locked read and write *)
Decline(i, k) ==
  /\ Redeemable(i, k)
  /\ ~LockedInvitation(i)
  /\ i \notin lapsed
  /\ inv' = [inv EXCEPT ![i].status = "declined"]
  /\ UNCHANGED <<vars, lapsed, joins, nextInv, nextToken, hnd>>

(* accept or decline after expires_at: EXPIRED is committed before the     *)
(* error is raised.                                                        *)
RefuseLapsed(i, k) ==
  /\ Redeemable(i, k)
  /\ ~LockedInvitation(i)
  /\ i \in lapsed
  /\ inv' = [inv EXCEPT ![i].status = "expired"]
  /\ UNCHANGED <<vars, lapsed, joins, nextInv, nextToken, hnd>>

Lapse(i) ==
  /\ Pending(i) /\ i \notin lapsed
  /\ lapsed' = lapsed \cup {i}
  /\ UNCHANGED <<vars, inv, joins, nextInv, nextToken, hnd>>

HndRollback(h) ==
  /\ hnd[h].pc # "idle"
  /\ HndEnd(h)
  /\ UNCHANGED <<vars, invRows, nextToken>>

InvNext ==
  \/ \E h \in Handlers :
       \/ CommitInvite(h) \/ CommitResend(h) \/ CommitInvRevoke(h) \/ CommitAccept(h)
       \/ HndRollback(h)
       \/ \E u \in Users : AuthorizeInvite(h, u)
       \/ \E u \in Users, new \in OrgRole : CheckInvite(h, u, new)
       \/ \E i \in Invitees : ReadForResend(h, i) \/ ReadForInvRevoke(h, i)
       \/ \E i \in Invitees, k \in MailTokens : LockForAccept(h, i, k)
  \/ \E i \in Invitees, k \in MailTokens : Decline(i, k) \/ RefuseLapsed(i, k)
  \/ \E i \in Invitees : Lapse(i)

Next == InvNext \/ (OrgNext /\ UNCHANGED invVars)

InvSpec == InvInit /\ [][Next]_allVars

-----------------------------------------------------------------------------
(* Properties                                                              *)

(* An invitation makes one member at most, also when the member leaves and *)
(* the link is opened again, or a revocation overwrites the acceptance.    *)
SingleUse == \A i \in Invitees : joins[i] <= 1

(* A member joins by the link the invitation was last sent with, and no    *)
(* revocation or expiry commits while the acceptance is under way.         *)
JoinsByCurrentLink ==
  [][\A h \in Handlers :
       hnd[h].pc = "accepting" /\ joins' # joins /\ hnd'[h] = Idle
         => Pending(hnd[h].id) /\ inv[hnd[h].id].token = hnd[h].token]_allVars

(* Only owners make owners, invitations included: an organization without  *)
(* an owner, with no owner's request in flight and no open invitation to   *)
(* become one, never has an owner again.                                   *)
OwnerInvited ==
  \/ \E i \in Invitees : Pending(i) /\ inv[i].role = "owner"
  \/ \E h \in Handlers : \/ hnd[h].pc = "authorized" /\ hnd[h].actorRole = "owner"
                         \/ hnd[h].pc = "inserting" /\ hnd[h].role = "owner"
OwnersComeFromOwnersOrInvitations ==
  [][Orphaned /\ ~OwnerInvited => (Orphaned /\ ~OwnerInvited)']_allVars
=============================================================================
