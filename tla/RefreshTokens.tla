---------------------------- MODULE RefreshTokens ----------------------------
(***************************************************************************)
(* Refresh-token families (services/auth_service.py,                       *)
(* repositories/refresh_token_repository.py): login, rotation with reuse   *)
(* detection, logout, session revocation, logout-all and the revocations   *)
(* of a password change or reset.                                          *)
(*                                                                         *)
(* Each request is one READ COMMITTED transaction; get_db commits it, or   *)
(* rolls it back when the handler raises.  The variables below `txn' are   *)
(* the committed refresh_tokens table of one user.  Tokens are numbered in *)
(* the order they are created; a login's token names its family.           *)
(* Decoding, hashes and the user record are taken as valid: a token that   *)
(* fails those checks changes nothing.                                     *)
(***************************************************************************)
EXTENDS Naturals, FiniteSets

CONSTANTS
  MaxTokens,    \* bound on the tokens ever created
  Requests      \* requests that may be in flight together

ASSUME TokensAssumption == MaxTokens \in Nat

VARIABLES
  family,       \* family_id, 0 until the row is committed
  used,         \* tokens with used_at
  revoked,      \* tokens with revoked_at
  replacedBy,   \* replaced_by_token_id, 0 for none
  expired,      \* tokens whose expires_at has passed
  reused,       \* families for which reuse was detected and audited
  nextToken,    \* the next token id
  txn           \* the requests' transactions

rows == <<family, used, revoked, replacedBy>>
vars == <<rows, expired, reused, nextToken, txn>>

Tokens == 1..MaxTokens
None == 0

Idle == [pc |-> "idle"]
IssueTxn  == [pc : {"issuing"}, new : Tokens]
RotateTxn == [pc : {"rotating"}, token : Tokens, new : Tokens]
ReuseTxn  == [pc : {"reused"}, token : Tokens]
RevokeTxn == [pc : {"revoking"}, token : Tokens]
KeepTxn   == [pc : {"keeping"}, keep : Tokens \cup {None}]
SweepTxn  == [pc : {"sweeping"}, targets : SUBSET Tokens, keep : Tokens \cup {None},
              holdsUser : BOOLEAN]
Txn == {Idle} \cup IssueTxn \cup RotateTxn \cup ReuseTxn \cup RevokeTxn
              \cup KeepTxn \cup SweepTxn

TypeOK ==
  /\ family \in [Tokens -> Tokens \cup {None}]
  /\ used \subseteq Tokens
  /\ revoked \subseteq Tokens
  /\ replacedBy \in [Tokens -> Tokens \cup {None}]
  /\ expired \subseteq Tokens
  /\ reused \subseteq Tokens
  /\ nextToken \in 1..(MaxTokens + 1)
  /\ txn \in [Requests -> Txn]

Init ==
  /\ family = [t \in Tokens |-> None]
  /\ used = {}
  /\ revoked = {}
  /\ replacedBy = [t \in Tokens |-> None]
  /\ expired = {}
  /\ reused = {}
  /\ nextToken = 1
  /\ txn = [r \in Requests |-> Idle]

-----------------------------------------------------------------------------
Committed(t) == family[t] # None
Live(t) == Committed(t) /\ t \notin used /\ t \notin revoked

Rotating(r, t) == txn[r].pc = "rotating" /\ txn[r].token = t
Reusing(r, t) == txn[r].pc = "reused" /\ txn[r].token = t

(* Slips a change of this code could make, for the runs to reject: SELECT  *)
(* without FOR UPDATE, a test of used_at only, a successor that is not     *)
(* linked.                                                                 *)
NoRowLock(t) == FALSE
UsableIfUnused(t) == t \notin used
LinkForgotten(r) == replacedBy

(* SELECT ... FOR UPDATE: a refresh holds its token's row until it ends.   *)
Locked(t) == \E r \in Requests : Rotating(r, t) \/ Reusing(r, t)

(* refresh: neither used_at nor revoked_at is set *)
Usable(t) == t \notin used /\ t \notin revoked

(* An UPDATE waits for the rows that a refresh has locked. *)
CanUpdate(S) == \A t \in S : ~Locked(t)

(* token_record.replaced_by_token_id = new_record.id *)
LinkSuccessor(r) == [replacedBy EXCEPT ![txn[r].token] = txn[r].new]

(* The password changes write the users row and hold its lock to the end.  *)
HoldsUser(r) == \/ txn[r].pc = "keeping"
                \/ txn[r].pc = "sweeping" /\ txn[r].holdsUser

End(r) == txn' = [txn EXCEPT ![r] = Idle]

-----------------------------------------------------------------------------
(* Login: _issue_token_pair starts a family *)

Login(r) ==
  /\ txn[r] = Idle
  /\ nextToken \in Tokens
  /\ txn' = [txn EXCEPT ![r] = [pc |-> "issuing", new |-> nextToken]]
  /\ nextToken' = nextToken + 1
  /\ UNCHANGED <<rows, expired, reused>>

CommitLogin(r) ==
  /\ txn[r].pc = "issuing"
  /\ family' = [family EXCEPT ![txn[r].new] = txn[r].new]
  /\ End(r)
  /\ UNCHANGED <<used, revoked, replacedBy, expired, reused, nextToken>>

-----------------------------------------------------------------------------
(* Refresh: any token ever handed out may be presented, any number of      *)
(* times.  An unknown or expired one is refused and changes nothing.       *)

LockForRotation(r, t) ==
  /\ txn[r] = Idle
  /\ Committed(t) /\ Usable(t) /\ t \notin expired
  /\ ~Locked(t)
  /\ nextToken \in Tokens
  /\ txn' = [txn EXCEPT ![r] = [pc |-> "rotating", token |-> t, new |-> nextToken]]
  /\ nextToken' = nextToken + 1
  /\ UNCHANGED <<rows, expired, reused>>

CommitRotation(r) ==
  /\ txn[r].pc = "rotating"
  /\ used' = used \cup {txn[r].token}
  /\ replacedBy' = LinkSuccessor(r)
  /\ family' = [family EXCEPT ![txn[r].new] = family[txn[r].token]]
  /\ End(r)
  /\ UNCHANGED <<revoked, expired, reused, nextToken>>

(* Reuse: revoke_family and the audit event run in this transaction.       *)
DetectReuse(r, t) ==
  /\ txn[r] = Idle
  /\ Committed(t) /\ ~Usable(t)
  /\ ~Locked(t)
  /\ reused' = reused \cup {family[t]}
  /\ txn' = [txn EXCEPT ![r] = [pc |-> "reused", token |-> t]]
  /\ UNCHANGED <<rows, expired, nextToken>>

(* ... which UnauthorizedError then rolls back. *)
RejectReuse(r) ==
  /\ txn[r].pc = "reused"
  /\ End(r)
  /\ UNCHANGED <<rows, expired, reused, nextToken>>

-----------------------------------------------------------------------------
(* Logout and session revocation: the row is read without a lock; a        *)
(* revoked one is left alone.                                              *)

ReadForRevoke(r, t) ==
  /\ txn[r] = Idle
  /\ Committed(t) /\ t \notin revoked
  /\ txn' = [txn EXCEPT ![r] = [pc |-> "revoking", token |-> t]]
  /\ UNCHANGED <<rows, expired, reused, nextToken>>

CommitRevoke(r) ==
  /\ txn[r].pc = "revoking"
  /\ CanUpdate({txn[r].token})
  /\ revoked' = revoked \cup {txn[r].token}
  /\ End(r)
  /\ UNCHANGED <<family, used, replacedBy, expired, reused, nextToken>>

-----------------------------------------------------------------------------
(* Revocation of all tokens: logout-all, password reset, e-mail change and *)
(* password change.  The UPDATE sees the rows committed when it starts.    *)

(* change_password keeps the presented token if it is not revoked (it may  *)
(* be used); reset_password and confirm_email_change keep none.            *)
WriteUser(r, keep) ==
  /\ txn[r] = Idle
  /\ \A q \in Requests : ~HoldsUser(q)
  /\ keep # None => Committed(keep) /\ keep \notin revoked
  /\ txn' = [txn EXCEPT ![r] = [pc |-> "keeping", keep |-> keep]]
  /\ UNCHANGED <<rows, expired, reused, nextToken>>

Sweep(r, kept, holdsUser) ==
  /\ txn' = [txn EXCEPT ![r] =
       [pc |-> "sweeping", keep |-> kept, holdsUser |-> holdsUser,
        targets |-> {t \in Tokens : Committed(t) /\ t \notin revoked /\ t # kept}]]
  /\ UNCHANGED <<rows, expired, reused, nextToken>>

SweepAll(r)       == txn[r] = Idle /\ Sweep(r, None, FALSE)
SweepAllButKept(r) == txn[r].pc = "keeping" /\ Sweep(r, txn[r].keep, TRUE)

CommitSweep(r) ==
  /\ txn[r].pc = "sweeping"
  /\ CanUpdate(txn[r].targets)
  /\ revoked' = revoked \cup txn[r].targets
  /\ End(r)
  /\ UNCHANGED <<family, used, replacedBy, expired, reused, nextToken>>

-----------------------------------------------------------------------------
Expire(t) ==
  /\ Committed(t) /\ t \notin expired
  /\ expired' = expired \cup {t}
  /\ UNCHANGED <<rows, reused, nextToken, txn>>

(* get_db's rollback: nothing of the transaction remains *)
Rollback(r) ==
  /\ txn[r].pc # "idle"
  /\ End(r)
  /\ UNCHANGED <<rows, expired, reused, nextToken>>

Next ==
  \/ \E r \in Requests :
       \/ Login(r) \/ CommitLogin(r)
       \/ CommitRotation(r) \/ RejectReuse(r)
       \/ CommitRevoke(r)
       \/ SweepAll(r) \/ SweepAllButKept(r) \/ CommitSweep(r)
       \/ Rollback(r)
       \/ \E t \in Tokens : LockForRotation(r, t) \/ DetectReuse(r, t) \/ ReadForRevoke(r, t)
       \/ \E t \in Tokens \cup {None} : WriteUser(r, t)
  \/ \E t \in Tokens : Expire(t)

Spec == Init /\ [][Next]_vars

-----------------------------------------------------------------------------
(* Properties                                                              *)

(* At most one token of a family can still be rotated: of any number of    *)
(* concurrent refreshes with one token, one succeeds.                      *)
OneLiveToken ==
  \A t, u \in Tokens : Live(t) /\ Live(u) /\ family[t] = family[u] => t = u

(* A used token leads to its one successor in the same family, so the      *)
(* session list and the audit trail can follow a session.                  *)
RotationChain ==
  /\ \A t \in used : /\ replacedBy[t] > t
                     /\ family[replacedBy[t]] = family[t]
  /\ \A t, u \in used : replacedBy[t] = replacedBy[u] => t = u

(* A logout that commits first wins: no revoked token is ever rotated, and *)
(* a logout waits for a rotation it arrives during.                        *)
RevokedNeverRotates ==
  [][\A t \in Tokens : t \in revoked \ used => t \notin used']_vars

(* A family without a live token, and without a rotation that already      *)
(* holds one, never comes back: logging out, or using a session up, is     *)
(* final for every replay of its old tokens.                               *)
Dead(f) ==
  /\ Committed(f)
  /\ \A t \in Tokens : family[t] = f => ~Live(t)
  /\ \A r \in Requests, t \in Tokens : Rotating(r, t) => family[t] # f
DeadFamiliesStayDead == [][\A f \in Tokens : Dead(f) => Dead(f)']_vars

(* The transactions implement the atomic token families of TokenFamilies:  *)
(* a commit is one login, one rotation or one revocation.                  *)
Families == INSTANCE TokenFamilies
IsTokenFamilies == Families!TokensSpec

-----------------------------------------------------------------------------
(* What the repository says, and the code does not do                      *)

(* docs/authentication.md:53 "the entire family is revoked": once the      *)
(* request that detected reuse has ended, no token of its family is live.  *)
ReuseRevokesFamily ==
  \A f \in reused :
    \/ \E r \in Requests, t \in Tokens : Reusing(r, t) /\ family[t] = f
    \/ \A t \in Tokens : family[t] = f => ~Live(t)
=============================================================================
