----------------------- MODULE SessionsArtifactsProofs -----------------------
(* TLAPS proofs about RefreshTokens and Artifacts, the two components that *)
(* serialise requests by a row lock: their invariants and action           *)
(* properties, that RefreshTokens implements TokenFamilies and Artifacts   *)
(* implements DocumentHistory, for every number of tokens, texts, versions *)
(* and concurrent requests.                                                *)
EXTENDS RefreshTokens, Artifacts, SequenceTheorems, TLAPS

(***************************************************************************)
(* Refresh tokens.                                                         *)
(***************************************************************************)

Issuing(r, t) == txn[r].pc \in {"issuing", "rotating"} /\ txn[r].new = t

(* A token is inserted by one transaction, and is not committed before. *)
NewIsOwned ==
  /\ \A r \in Requests, t \in Tokens : Issuing(r, t) => ~Committed(t) /\ t < nextToken
  /\ \A q, r \in Requests, t \in Tokens : Issuing(q, t) /\ Issuing(r, t) => q = r

FreshIsUncommitted == \A t \in Tokens : t >= nextToken => ~Committed(t)

(* The row lock: a token is rotated by one request, and stays live for it. *)
RotationHoldsLiveToken ==
  /\ \A r \in Requests, t \in Tokens : Rotating(r, t) => Live(t) /\ t < txn[r].new
  /\ \A q, r \in Requests, t \in Tokens : Rotating(q, t) /\ Rotating(r, t) => q = r

FamilyIsRooted == \A t \in Tokens : Committed(t) => Committed(family[t])

UsedIsLinked ==
  \A t \in used : /\ Committed(t)
                  /\ replacedBy[t] \in Tokens
                  /\ Committed(replacedBy[t])

Parts ==
  /\ OneLiveToken
  /\ RotationChain
  /\ NewIsOwned
  /\ FreshIsUncommitted
  /\ RotationHoldsLiveToken
  /\ FamilyIsRooted
  /\ UsedIsLinked
IInv == TypeOK /\ Parts

-----------------------------------------------------------------------------
LEMMA InitIInv == Init => IInv
BY TokensAssumption
   DEF Init, IInv, Parts, TypeOK, Tokens, None, Txn, Idle, OneLiveToken, RotationChain,
       NewIsOwned, Issuing, FreshIsUncommitted, RotationHoldsLiveToken, Rotating,
       FamilyIsRooted, UsedIsLinked, Committed, Live

(* A transaction has the fields its pc says. *)
LEMMA TxnShapes ==
  ASSUME NEW x \in Txn
  PROVE  /\ x.pc = "issuing" => x \in IssueTxn
         /\ x.pc = "rotating" => x \in RotateTxn
         /\ x.pc = "reused" => x \in ReuseTxn
         /\ x.pc = "revoking" => x \in RevokeTxn
         /\ x.pc = "keeping" => x \in KeepTxn
         /\ x.pc = "sweeping" => x \in SweepTxn
BY DEF Txn, IssueTxn, RotateTxn, ReuseTxn, RevokeTxn, KeepTxn, SweepTxn, Idle

LEMMA TxnFields ==
  ASSUME TypeOK, NEW r \in Requests
  PROVE  /\ txn[r].pc \in {"issuing", "rotating"} => txn[r].new \in Tokens
         /\ txn[r].pc \in {"rotating", "reused", "revoking"} => txn[r].token \in Tokens
         /\ txn[r].pc = "keeping" => txn[r].keep \in Tokens \cup {None}
         /\ txn[r].pc = "sweeping" => txn[r].targets \subseteq Tokens
BY TxnShapes DEF TypeOK, IssueTxn, RotateTxn, ReuseTxn, RevokeTxn, KeepTxn, SweepTxn

LEMMA TypeStep == TypeOK /\ [Next]_vars => TypeOK'
<1> SUFFICES ASSUME TypeOK, [Next]_vars PROVE TypeOK'
  OBVIOUS
<1> USE TokensAssumption DEF TypeOK, Tokens, None, rows
<1>a. \A r \in Requests :
         /\ txn[r].pc \in {"issuing", "rotating"} => txn[r].new \in Tokens
         /\ txn[r].pc \in {"rotating", "reused", "revoking"} => txn[r].token \in Tokens
         /\ txn[r].pc = "keeping" => txn[r].keep \in Tokens \cup {None}
         /\ txn[r].pc = "sweeping" => txn[r].targets \subseteq Tokens
  BY TxnFields
<1>b. Idle \in Txn
  BY DEF Txn
<1>1. ASSUME NEW r \in Requests, Login(r) PROVE TypeOK'
  <2>1. [pc |-> "issuing", new |-> nextToken] \in Txn
    BY <1>1 DEF Login, Txn, IssueTxn
  <2> QED BY <1>1, <2>1 DEF Login
<1>2. ASSUME NEW r \in Requests, CommitLogin(r) PROVE TypeOK'
  BY <1>2, <1>a, <1>b DEF CommitLogin, End
<1>3. ASSUME NEW r \in Requests, CommitRotation(r) PROVE TypeOK'
  <2>1. txn[r].new \in Tokens /\ txn[r].token \in Tokens
    BY <1>3, <1>a DEF CommitRotation
  <2>2. /\ used' \subseteq Tokens
        /\ replacedBy' \in [Tokens -> Tokens \cup {None}]
        /\ family' \in [Tokens -> Tokens \cup {None}]
    BY <1>3, <2>1 DEF CommitRotation, LinkSuccessor
  <2> QED BY <1>3, <1>b, <2>2 DEF CommitRotation, End
<1>4. ASSUME NEW r \in Requests, RejectReuse(r) PROVE TypeOK'
  BY <1>4, <1>b DEF RejectReuse, End
<1>5. ASSUME NEW r \in Requests, CommitRevoke(r) PROVE TypeOK'
  BY <1>5, <1>a, <1>b DEF CommitRevoke, End
<1>6. ASSUME NEW r \in Requests, SweepAll(r) \/ SweepAllButKept(r) PROVE TypeOK'
  <2>1. ASSUME NEW k \in Tokens \cup {None}, NEW h \in BOOLEAN, Sweep(r, k, h)
        PROVE  TypeOK'
    <3>1. [pc |-> "sweeping", keep |-> k, holdsUser |-> h,
           targets |-> {t \in Tokens : Committed(t) /\ t \notin revoked /\ t # k}] \in Txn
      BY DEF Txn, SweepTxn
    <3> QED BY <2>1, <3>1 DEF Sweep
  <2> QED BY <1>6, <1>a, <2>1 DEF SweepAll, SweepAllButKept
<1>7. ASSUME NEW r \in Requests, CommitSweep(r) PROVE TypeOK'
  BY <1>7, <1>a, <1>b DEF CommitSweep, End
<1>8. ASSUME NEW r \in Requests, Rollback(r) PROVE TypeOK'
  BY <1>8, <1>b DEF Rollback, End
<1>9. ASSUME NEW r \in Requests, NEW t \in Tokens, LockForRotation(r, t) PROVE TypeOK'
  <2>1. [pc |-> "rotating", token |-> t, new |-> nextToken] \in Txn
    BY <1>9 DEF LockForRotation, Txn, RotateTxn
  <2> QED BY <1>9, <2>1 DEF LockForRotation
<1>10. ASSUME NEW r \in Requests, NEW t \in Tokens, DetectReuse(r, t) PROVE TypeOK'
  <2>1. [pc |-> "reused", token |-> t] \in Txn
    BY DEF Txn, ReuseTxn
  <2>2. reused' \subseteq Tokens
    BY <1>10 DEF DetectReuse, Committed
  <2> QED BY <1>10, <2>1, <2>2 DEF DetectReuse
<1>11. ASSUME NEW r \in Requests, NEW t \in Tokens, ReadForRevoke(r, t) PROVE TypeOK'
  <2>1. [pc |-> "revoking", token |-> t] \in Txn
    BY DEF Txn, RevokeTxn
  <2> QED BY <1>11, <2>1 DEF ReadForRevoke
<1>12. ASSUME NEW r \in Requests, NEW t \in Tokens \cup {None}, WriteUser(r, t) PROVE TypeOK'
  <2>1. [pc |-> "keeping", keep |-> t] \in Txn
    BY DEF Txn, KeepTxn
  <2> QED BY <1>12, <2>1 DEF WriteUser
<1>13. ASSUME NEW t \in Tokens, Expire(t) PROVE TypeOK'
  BY <1>13 DEF Expire
<1>14. CASE UNCHANGED vars
  BY <1>14 DEF vars
<1> QED
  BY <1>1, <1>2, <1>3, <1>4, <1>5, <1>6, <1>7, <1>8, <1>9, <1>10, <1>11, <1>12, <1>13,
     <1>14 DEF Next

-----------------------------------------------------------------------------
(* A step that inserts no token, marks none used and locks none for        *)
(* rotation, and revokes none that is locked, keeps the invariant.         *)
LEMMA QuietStep ==
  ASSUME TypeOK, Parts,
         family' = family, used' = used, replacedBy' = replacedBy,
         nextToken' = nextToken,
         revoked \subseteq revoked',
         \A r \in Requests, t \in Tokens : Issuing(r, t)' => Issuing(r, t),
         \A r \in Requests, t \in Tokens :
           Rotating(r, t)' => /\ Rotating(r, t)
                              /\ txn'[r].new = txn[r].new
                              /\ t \in revoked' => t \in revoked
  PROVE  Parts'
<1> USE DEF Parts, Committed, Live
<1>1. OneLiveToken'
  BY DEF OneLiveToken
<1>2. RotationChain'
  BY DEF RotationChain
<1>3. NewIsOwned'
  BY DEF NewIsOwned
<1>4. FreshIsUncommitted'
  BY DEF FreshIsUncommitted
<1>5. RotationHoldsLiveToken'
  BY DEF RotationHoldsLiveToken
<1>6. FamilyIsRooted' /\ UsedIsLinked'
  BY DEF FamilyIsRooted, UsedIsLinked
<1> QED BY <1>1, <1>2, <1>3, <1>4, <1>5, <1>6

LEMMA LoginStep ==
  ASSUME TypeOK, Parts, NEW r \in Requests, Login(r)
  PROVE  Parts'
<1> USE DEF Parts, Committed, Live, Login, rows, None, Tokens
<1>1. \A q \in Requests, t \in Tokens :
        /\ Issuing(q, t)' => Issuing(q, t) \/ (q = r /\ t = nextToken)
        /\ Rotating(q, t)' => Rotating(q, t) /\ txn'[q].new = txn[q].new
  BY DEF TypeOK, Issuing, Rotating
<1>2. nextToken' > nextToken /\ family[nextToken] = 0
  BY TokensAssumption DEF TypeOK, FreshIsUncommitted
<1>3. NewIsOwned'
  BY <1>1, <1>2 DEF TypeOK, NewIsOwned
<1>4. OneLiveToken' /\ RotationChain' /\ FamilyIsRooted' /\ UsedIsLinked'
  BY DEF OneLiveToken, RotationChain, FamilyIsRooted, UsedIsLinked
<1>5. FreshIsUncommitted' /\ RotationHoldsLiveToken'
  BY <1>1, <1>2 DEF TypeOK, FreshIsUncommitted, RotationHoldsLiveToken
<1> QED BY <1>3, <1>4, <1>5

LEMMA CommitLoginStep ==
  ASSUME TypeOK, Parts, NEW r \in Requests, CommitLogin(r)
  PROVE  Parts'
<1> DEFINE n == txn[r].new
<1> USE DEF Parts, Committed, Live, None
<1>1. n \in Tokens /\ Issuing(r, n)
  BY TxnFields DEF CommitLogin, Issuing
<1>2. family[n] = 0 /\ n < nextToken /\ n \notin used
  BY <1>1 DEF NewIsOwned, UsedIsLinked
<1>3. /\ family' = [family EXCEPT ![n] = n]
      /\ used' = used /\ revoked' = revoked /\ replacedBy' = replacedBy
      /\ nextToken' = nextToken
      /\ n # 0
  BY <1>1 DEF CommitLogin, Tokens
<1>4. \A q \in Requests, t \in Tokens :
        /\ Issuing(q, t)' => Issuing(q, t) /\ q # r
        /\ Rotating(q, t)' => Rotating(q, t) /\ q # r /\ txn'[q].new = txn[q].new
  BY DEF TypeOK, CommitLogin, End, Idle, Issuing, Rotating
<1>5. \A t \in Tokens : family[t] # n
  BY <1>2, <1>3 DEF FamilyIsRooted
<1>6. OneLiveToken'
  BY <1>1, <1>3, <1>5 DEF TypeOK, OneLiveToken
<1>7. RotationChain' /\ UsedIsLinked'
  BY <1>1, <1>2, <1>3 DEF TypeOK, RotationChain, UsedIsLinked
<1>8. NewIsOwned'
  BY <1>1, <1>3, <1>4 DEF TypeOK, NewIsOwned
<1>9. FreshIsUncommitted'
  BY <1>1, <1>2, <1>3 DEF TypeOK, FreshIsUncommitted, Tokens
<1>10. RotationHoldsLiveToken'
  BY <1>1, <1>2, <1>3, <1>4 DEF TypeOK, RotationHoldsLiveToken
<1>11. FamilyIsRooted'
  BY <1>1, <1>3, <1>5 DEF TypeOK, FamilyIsRooted
<1> QED BY <1>6, <1>7, <1>8, <1>9, <1>10, <1>11

LEMMA LockStep ==
  ASSUME TypeOK, Parts, NEW r \in Requests, NEW t \in Tokens, LockForRotation(r, t)
  PROVE  Parts'
<1> USE DEF Parts, Committed, Live, LockForRotation, rows, None, Tokens
<1>1. \A q \in Requests, u \in Tokens :
        /\ Issuing(q, u)' => Issuing(q, u) \/ (q = r /\ u = nextToken)
        /\ Rotating(q, u)' => \/ Rotating(q, u) /\ q # r /\ txn'[q].new = txn[q].new
                              \/ q = r /\ u = t /\ txn'[q].new = nextToken
  BY DEF TypeOK, Issuing, Rotating, Idle
<1>2. nextToken' > nextToken /\ family[nextToken] = 0
  BY TokensAssumption DEF TypeOK, FreshIsUncommitted
<1>3. t < nextToken /\ Live(t) /\ \A q \in Requests : ~Rotating(q, t)
  BY DEF TypeOK, FreshIsUncommitted, Locked, Usable
<1>4. NewIsOwned'
  BY <1>1, <1>2 DEF TypeOK, NewIsOwned
<1>5. OneLiveToken' /\ RotationChain' /\ FamilyIsRooted' /\ UsedIsLinked'
  BY DEF OneLiveToken, RotationChain, FamilyIsRooted, UsedIsLinked
<1>6. FreshIsUncommitted'
  BY <1>2 DEF TypeOK, FreshIsUncommitted
<1>7. RotationHoldsLiveToken'
  BY <1>1, <1>3 DEF TypeOK, RotationHoldsLiveToken
<1> QED BY <1>4, <1>5, <1>6, <1>7

LEMMA CommitRotationStep ==
  ASSUME TypeOK, Parts, NEW r \in Requests, CommitRotation(r)
  PROVE  Parts'
<1> DEFINE n == txn[r].new
           o == txn[r].token
<1> USE DEF Parts, Committed, Live, None
<1>1. n \in Tokens /\ o \in Tokens /\ Issuing(r, n) /\ Rotating(r, o)
  BY TxnFields DEF CommitRotation, Issuing, Rotating
<1>2. /\ family[n] = 0 /\ n < nextToken /\ n \notin used
      /\ family[o] # 0 /\ o \notin used /\ o \notin revoked /\ o < n
  BY <1>1 DEF NewIsOwned, UsedIsLinked, RotationHoldsLiveToken
<1>3. /\ family' = [family EXCEPT ![n] = family[o]]
      /\ used' = used \cup {o}
      /\ replacedBy' = [replacedBy EXCEPT ![o] = n]
      /\ revoked' = revoked /\ nextToken' = nextToken
      /\ n # 0
  BY <1>1 DEF CommitRotation, LinkSuccessor, Tokens
<1>4. \A q \in Requests, t \in Tokens :
        /\ Issuing(q, t)' => Issuing(q, t) /\ q # r
        /\ Rotating(q, t)' => Rotating(q, t) /\ q # r /\ txn'[q].new = txn[q].new
  BY DEF TypeOK, CommitRotation, End, Idle, Issuing, Rotating
<1>5. \A t \in Tokens : family[t] # n
  BY <1>2, <1>3 DEF FamilyIsRooted
<1>6. OneLiveToken'
  BY <1>1, <1>2, <1>3 DEF TypeOK, OneLiveToken
<1>7. RotationChain'
  <2>1. \A t \in used : replacedBy[t] # n /\ t # n
    BY <1>2 DEF UsedIsLinked
  <2>2. \A t \in used' : /\ t = o => replacedBy'[t] = n
                         /\ t # o => t \in used /\ replacedBy'[t] = replacedBy[t]
    BY <1>1, <1>3 DEF TypeOK
  <2>3. \A t \in used : family'[t] = family[t] /\ family'[replacedBy[t]] = family[replacedBy[t]]
    BY <1>3, <2>1 DEF TypeOK, UsedIsLinked
  <2>4. family'[n] = family[o] /\ family'[o] = family[o] /\ n > o
    BY <1>1, <1>2, <1>3 DEF TypeOK, Tokens
  <2> QED BY <2>1, <2>2, <2>3, <2>4 DEF RotationChain
<1>8. NewIsOwned'
  BY <1>1, <1>3, <1>4 DEF TypeOK, NewIsOwned
<1>9. FreshIsUncommitted'
  BY <1>1, <1>2, <1>3 DEF TypeOK, FreshIsUncommitted, Tokens
<1>10. RotationHoldsLiveToken'
  BY <1>1, <1>2, <1>3, <1>4 DEF TypeOK, RotationHoldsLiveToken
<1>11. FamilyIsRooted' /\ UsedIsLinked'
  BY <1>1, <1>2, <1>3, <1>5 DEF TypeOK, FamilyIsRooted, UsedIsLinked
<1> QED BY <1>6, <1>7, <1>8, <1>9, <1>10, <1>11

LEMMA PartsStep == TypeOK /\ Parts /\ [Next]_vars => Parts'
<1> SUFFICES ASSUME TypeOK, Parts, [Next]_vars PROVE Parts'
  OBVIOUS
<1>1. ASSUME NEW r \in Requests,
             RejectReuse(r) \/ CommitRevoke(r) \/ CommitSweep(r) \/ Rollback(r)
      PROVE  Parts'
  <2>1. /\ txn' = [txn EXCEPT ![r] = Idle]
        /\ <<family, used, replacedBy, nextToken>>' = <<family, used, replacedBy, nextToken>>
    BY <1>1 DEF RejectReuse, CommitRevoke, CommitSweep, Rollback, End, rows
  <2>2. \A q \in Requests, t \in Tokens :
          /\ Issuing(q, t)' => Issuing(q, t)
          /\ Rotating(q, t)' => Rotating(q, t) /\ txn'[q].new = txn[q].new
    BY <2>1 DEF TypeOK, Idle, Issuing, Rotating
  <2>3. /\ revoked \subseteq revoked'
        /\ \A q \in Requests, t \in Tokens :
             Rotating(q, t) /\ t \in revoked' => t \in revoked
    BY <1>1 DEF RejectReuse, CommitRevoke, CommitSweep, Rollback, rows, CanUpdate, Locked
  <2> QED BY <2>1, <2>2, <2>3, QuietStep
<1>2. ASSUME NEW r \in Requests,
             \/ SweepAll(r) \/ SweepAllButKept(r)
             \/ \E t \in Tokens : DetectReuse(r, t) \/ ReadForRevoke(r, t)
             \/ \E t \in Tokens \cup {None} : WriteUser(r, t)
      PROVE  Parts'
  <2>1. /\ txn' = [txn EXCEPT ![r] = txn'[r]]
        /\ txn'[r].pc \in {"reused", "revoking", "keeping", "sweeping"}
        /\ <<rows, nextToken>>' = <<rows, nextToken>>
    <3>1. CASE SweepAll(r) \/ SweepAllButKept(r)
      BY <3>1 DEF TypeOK, SweepAll, SweepAllButKept, Sweep, rows
    <3>2. ASSUME NEW t \in Tokens, DetectReuse(r, t) \/ ReadForRevoke(r, t)
          PROVE  <2>1!:
      BY <3>2 DEF TypeOK, DetectReuse, ReadForRevoke, rows
    <3>3. ASSUME NEW t \in Tokens \cup {None}, WriteUser(r, t) PROVE <2>1!:
      BY <3>3 DEF TypeOK, WriteUser, rows
    <3> QED BY <1>2, <3>1, <3>2, <3>3
  <2>2. \A q \in Requests, t \in Tokens :
          /\ Issuing(q, t)' => Issuing(q, t)
          /\ Rotating(q, t)' => Rotating(q, t) /\ txn'[q].new = txn[q].new
    BY <2>1 DEF TypeOK, Issuing, Rotating
  <2> QED BY <2>1, <2>2, QuietStep DEF rows
<1>3. ASSUME \/ \E t \in Tokens : Expire(t)
             \/ UNCHANGED vars
      PROVE  Parts'
  <2>1. /\ txn' = txn
        /\ <<rows, nextToken>>' = <<rows, nextToken>>
    BY <1>3 DEF Expire, vars
  <2> QED BY <2>1, QuietStep DEF rows, Issuing, Rotating
<1> QED
  BY <1>1, <1>2, <1>3, LoginStep, CommitLoginStep, LockStep, CommitRotationStep DEF Next

LEMMA Invariance == Spec => []IInv
<1>1. IInv /\ [Next]_vars => IInv'
  BY TypeStep, PartsStep DEF IInv
<1> QED BY InitIInv, <1>1, PTL DEF Spec

-----------------------------------------------------------------------------
(* Every variable of the token model keeps its type. *)
THEOREM TypeCorrect == Spec => []TypeOK
BY Invariance, PTL DEF IInv

(* Rotation under the row lock (get_by_jti_for_update) never leaves a      *)
(* family two tokens that could both be rotated.                           *)
THEOREM SingleLiveToken == Spec => []OneLiveToken
BY Invariance, PTL DEF IInv, Parts

(* used_at and replaced_by_token_id agree: a used token leads to its one   *)
(* successor, in its own family.                                           *)
THEOREM ChainCorrect == Spec => []RotationChain
BY Invariance, PTL DEF IInv, Parts

(* A token whose revocation has committed is not rotated afterwards,       *)
(* although logout reads it without a lock.                                *)
THEOREM RevocationIsFinal == Spec => RevokedNeverRotates
<1>1. IInv /\ [Next]_vars => [\A t \in Tokens : t \in revoked \ used => t \notin used']_vars
  <2> SUFFICES ASSUME IInv, Next, NEW t \in Tokens, t \in revoked, t \notin used
               PROVE  t \notin used'
    BY DEF vars
  <2>1. ASSUME NEW r \in Requests, CommitRotation(r) PROVE t \notin used'
    <3>1. Rotating(r, txn[r].token) /\ txn[r].token \in Tokens
      BY <2>1, TxnFields DEF IInv, CommitRotation, Rotating
    <3> QED BY <2>1, <3>1 DEF IInv, Parts, RotationHoldsLiveToken, Live, CommitRotation
  <2>2. CASE \A r \in Requests : ~CommitRotation(r)
    <3>1. used' = used
      BY <2>2 DEF Next, Login, CommitLogin, RejectReuse, CommitRevoke, SweepAll,
            SweepAllButKept, Sweep, CommitSweep, Rollback, LockForRotation, DetectReuse,
            ReadForRevoke, WriteUser, Expire, rows
    <3> QED BY <3>1
  <2> QED BY <2>1, <2>2
<1> QED BY Invariance, <1>1, PTL DEF Spec, RevokedNeverRotates

(* A session that has ended (every token of its family used or revoked, no *)
(* rotation holding one) stays ended: refresh extends live families only,  *)
(* and a login starts a family of its own.                                 *)
THEOREM EndedSessionsStayEnded == Spec => DeadFamiliesStayDead
<1>1. IInv /\ [Next]_vars => [\A f \in Tokens : Dead(f) => Dead(f)']_vars
  <2> SUFFICES ASSUME IInv, Next, NEW f \in Tokens, Dead(f) PROVE Dead(f)'
    BY DEF vars
  <2> USE DEF Committed, Live, None
  <2>a. f \in Tokens /\ family[f] # 0 /\ f # 0
    BY DEF Dead, Tokens
  <2>1. ASSUME NEW r \in Requests, CommitLogin(r) PROVE Dead(f)'
    <3> DEFINE n == txn[r].new
    <3>1. n \in Tokens /\ family[n] = 0 /\ n # f
      BY <2>1, <2>a, TxnFields DEF IInv, Parts, CommitLogin, NewIsOwned, Issuing
    <3>2. /\ family' = [family EXCEPT ![n] = n] /\ used' = used /\ revoked' = revoked
          /\ \A q \in Requests, t \in Tokens : Rotating(q, t)' => Rotating(q, t)
      BY <2>1 DEF IInv, TypeOK, CommitLogin, End, Rotating, Idle
    <3>3. \A q \in Requests, t \in Tokens : Rotating(q, t) => family[t] # 0
      BY DEF IInv, Parts, RotationHoldsLiveToken
    <3> QED BY <2>a, <3>1, <3>2, <3>3 DEF Dead, IInv, TypeOK
  <2>2. ASSUME NEW r \in Requests, CommitRotation(r) PROVE Dead(f)'
    <3> DEFINE n == txn[r].new
               o == txn[r].token
    <3>1. n \in Tokens /\ o \in Tokens /\ family[n] = 0 /\ Rotating(r, o)
      BY <2>2, TxnFields DEF IInv, Parts, CommitRotation, NewIsOwned, Issuing, Rotating
    <3>2. family[o] # f
      BY <3>1 DEF Dead
    <3>3. /\ family' = [family EXCEPT ![n] = family[o]] /\ used \subseteq used'
          /\ revoked' = revoked
          /\ \A q \in Requests, t \in Tokens : Rotating(q, t)' => Rotating(q, t)
      BY <2>2 DEF IInv, TypeOK, CommitRotation, End, Rotating, Idle
    <3>4. \A q \in Requests, t \in Tokens : Rotating(q, t) => family[t] # 0
      BY DEF IInv, Parts, RotationHoldsLiveToken
    <3> QED BY <2>a, <3>1, <3>2, <3>3, <3>4 DEF Dead, IInv, TypeOK
  <2>3. ASSUME NEW r \in Requests, NEW t \in Tokens, LockForRotation(r, t) PROVE Dead(f)'
    <3>1. family[t] # f
      BY <2>3 DEF LockForRotation, Usable, Dead
    <3>2. /\ <<family, used, revoked>>' = <<family, used, revoked>>
          /\ \A q \in Requests, u \in Tokens : Rotating(q, u)' => Rotating(q, u) \/ u = t
      BY <2>3 DEF IInv, TypeOK, LockForRotation, rows, Rotating
    <3> QED BY <3>1, <3>2 DEF Dead
  <2>4. ASSUME NEW r \in Requests, NEW t \in Tokens,
               \/ Login(r) \/ RejectReuse(r) \/ CommitRevoke(r) \/ CommitSweep(r)
               \/ Rollback(r) \/ DetectReuse(r, t) \/ ReadForRevoke(r, t)
        PROVE  Dead(f)'
    <3>1. /\ family' = family /\ used' = used /\ revoked \subseteq revoked'
          /\ \A q \in Requests, u \in Tokens : Rotating(q, u)' => Rotating(q, u)
      BY <2>4 DEF IInv, TypeOK, Login, RejectReuse, CommitRevoke, CommitSweep, Rollback,
            DetectReuse, ReadForRevoke, End, rows, Rotating, Idle
    <3> QED BY <3>1 DEF Dead
  <2>5. ASSUME NEW r \in Requests, NEW t \in Tokens \cup {None},
               SweepAll(r) \/ SweepAllButKept(r) \/ WriteUser(r, t)
        PROVE  Dead(f)'
    <3>1. /\ <<family, used, revoked>>' = <<family, used, revoked>>
          /\ \A q \in Requests, u \in Tokens : Rotating(q, u)' => Rotating(q, u)
      BY <2>5 DEF IInv, TypeOK, SweepAll, SweepAllButKept, Sweep, WriteUser, rows, Rotating
    <3> QED BY <3>1 DEF Dead
  <2>6. ASSUME NEW t \in Tokens, Expire(t) PROVE Dead(f)'
    BY <2>6 DEF Expire, rows, Dead, Rotating
  <2> QED BY <2>1, <2>2, <2>3, <2>4, <2>5, <2>6, <2>a DEF Next
<1> QED BY Invariance, <1>1, PTL DEF Spec, DeadFamiliesStayDead

-----------------------------------------------------------------------------
(* What a revocation is about to write was committed when it was read, and *)
(* no row is ever deleted.                                                 *)
Targeted(r) == CASE txn[r].pc = "revoking" -> {txn[r].token}
                 [] txn[r].pc = "sweeping" -> txn[r].targets
                 [] OTHER -> {}
TargetsAreCommitted == \A r \in Requests : \A t \in Targeted(r) : Committed(t)

LEMMA TargetsStep == IInv /\ TargetsAreCommitted /\ [Next]_vars => TargetsAreCommitted'
<1> SUFFICES ASSUME IInv, TargetsAreCommitted, [Next]_vars PROVE TargetsAreCommitted'
  OBVIOUS
<1> USE DEF TargetsAreCommitted, Targeted, Committed, None
<1>a. /\ family \in [Tokens -> Tokens \cup {None}] /\ 0 \notin Tokens
      /\ \A r \in Requests : Targeted(r) \subseteq Tokens
  BY TxnFields DEF IInv, TypeOK, Tokens
<1>1. ASSUME \A q \in Requests : txn'[q].pc \in {"revoking", "sweeping"} => txn'[q] = txn[q],
             \A t \in Tokens : family[t] # 0 => family'[t] # 0
      PROVE  TargetsAreCommitted'
  <2>1. \A q \in Requests : Targeted(q)' \subseteq Targeted(q)
    BY <1>1
  <2> QED BY <1>1, <1>a, <2>1
<1>2. ASSUME NEW r \in Requests,
             \/ Login(r) \/ CommitLogin(r) \/ CommitRotation(r) \/ RejectReuse(r)
             \/ CommitRevoke(r) \/ CommitSweep(r) \/ Rollback(r)
      PROVE  TargetsAreCommitted'
  <2>1. \A t \in Tokens : family[t] # 0 => family'[t] # 0
    <3>1. CASE CommitRotation(r)
      <4>1. family[txn[r].token] # 0
        BY <3>1, TxnFields DEF CommitRotation, IInv, Parts, RotationHoldsLiveToken, Rotating, Live
      <4> QED BY <3>1, <4>1, <1>a DEF CommitRotation
    <3>2. CASE CommitLogin(r)
      <4>1. txn[r].new \in Tokens
        BY <3>2, TxnFields DEF CommitLogin, IInv
      <4> QED BY <3>2, <4>1, <1>a DEF CommitLogin
    <3>3. CASE ~CommitRotation(r) /\ ~CommitLogin(r)
      BY <1>2, <3>3 DEF Login, RejectReuse, CommitRevoke, CommitSweep, Rollback, rows
    <3> QED BY <3>1, <3>2, <3>3
  <2>2. \A q \in Requests : txn'[q].pc \in {"revoking", "sweeping"} => txn'[q] = txn[q]
    BY <1>2 DEF Login, CommitLogin, CommitRotation, RejectReuse, CommitRevoke, CommitSweep,
                Rollback, End, Idle, IInv, TypeOK
  <2> QED BY <1>1, <2>1, <2>2
<1>3. ASSUME NEW r \in Requests, NEW t \in Tokens,
             LockForRotation(r, t) \/ DetectReuse(r, t)
      PROVE  TargetsAreCommitted'
  <2>1. \A q \in Requests : txn'[q].pc \in {"revoking", "sweeping"} => txn'[q] = txn[q]
    BY <1>3 DEF LockForRotation, DetectReuse, IInv, TypeOK
  <2>2. family' = family
    BY <1>3 DEF LockForRotation, DetectReuse, rows
  <2> QED BY <1>1, <2>1, <2>2
<1>4. ASSUME NEW r \in Requests, NEW t \in Tokens, ReadForRevoke(r, t) PROVE TargetsAreCommitted'
  <2>1. \A q \in Requests : Targeted(q)' = IF q = r THEN {t} ELSE Targeted(q)
    BY <1>4 DEF ReadForRevoke, IInv, TypeOK
  <2> QED BY <1>4, <2>1 DEF ReadForRevoke, rows
<1>5. ASSUME NEW r \in Requests, NEW k, NEW h, Sweep(r, k, h) PROVE TargetsAreCommitted'
  <2> DEFINE S == {t \in Tokens : Committed(t) /\ t \notin revoked /\ t # k}
  <2>1. \A q \in Requests : Targeted(q)' = IF q = r THEN S ELSE Targeted(q)
    BY <1>5 DEF Sweep, IInv, TypeOK
  <2>2. family' = family
    BY <1>5 DEF Sweep, rows
  <2> QED BY <2>1, <2>2
<1>6. ASSUME NEW r \in Requests, SweepAll(r) \/ SweepAllButKept(r) PROVE TargetsAreCommitted'
  BY <1>5, <1>6 DEF SweepAll, SweepAllButKept
<1>7. ASSUME NEW r \in Requests, NEW t \in Tokens \cup {None}, WriteUser(r, t)
      PROVE  TargetsAreCommitted'
  <2>1. \A q \in Requests : txn'[q].pc \in {"revoking", "sweeping"} => txn'[q] = txn[q]
    BY <1>7 DEF WriteUser, IInv, TypeOK
  <2>2. family' = family
    BY <1>7 DEF WriteUser, rows
  <2> QED BY <1>1, <2>1, <2>2
<1>8. CASE (\E t \in Tokens : Expire(t)) \/ UNCHANGED vars
  <2>1. txn' = txn /\ family' = family
    BY <1>8 DEF Expire, vars, rows
  <2> QED BY <2>1
<1> QED BY <1>2, <1>3, <1>4, <1>6, <1>7, <1>8 DEF Next

(* A commit is one login, one rotation or one revocation; every other step *)
(* changes nothing that a client sees.                                     *)
LEMMA FamiliesStep ==
  IInv /\ TargetsAreCommitted /\ [Next]_vars => [Families!TokensNext]_(Families!tokenVars)
<1> SUFFICES ASSUME IInv, TargetsAreCommitted, Next
             PROVE  Families!TokensNext \/ UNCHANGED <<family, used, revoked>>
  BY DEF vars, rows, Families!tokenVars
<1> USE DEF Families!Tokens, Families!Committed, Families!Live, Families!None
<1>1. ASSUME NEW r \in Requests, CommitLogin(r) PROVE Families!TokensNext
  <2>1. txn[r].new \in Tokens /\ ~Committed(txn[r].new)
    BY <1>1, TxnFields DEF CommitLogin, IInv, Parts, NewIsOwned, Issuing
  <2>2. Families!Issue(txn[r].new)
    BY <1>1, <2>1 DEF CommitLogin, Families!Issue, Committed, None
  <2> QED BY <2>1, <2>2 DEF Families!TokensNext, Tokens
<1>2. ASSUME NEW r \in Requests, CommitRotation(r) PROVE Families!TokensNext
  <2> DEFINE n == txn[r].new
             o == txn[r].token
  <2>1. n \in Tokens /\ ~Committed(n) /\ o \in Tokens /\ Live(o)
    BY <1>2, TxnFields DEF CommitRotation, IInv, Parts, NewIsOwned, Issuing, RotationHoldsLiveToken,
                           Rotating
  <2>2. Families!Rotate(o, n)
    BY <1>2, <2>1 DEF CommitRotation, Families!Rotate, Committed, Live, None
  <2> QED BY <2>1, <2>2 DEF Families!TokensNext, Tokens
<1>3. ASSUME NEW r \in Requests, CommitRevoke(r) \/ CommitSweep(r) PROVE Families!TokensNext
  <2> DEFINE S == Targeted(r)
  <2>1. S \subseteq Tokens /\ \A t \in S : Committed(t)
    BY TxnFields DEF IInv, Targeted, TargetsAreCommitted
  <2>2. revoked' = revoked \cup S /\ UNCHANGED <<family, used>>
    BY <1>3 DEF CommitRevoke, CommitSweep, Targeted
  <2> HIDE DEF S
  <2>3. Families!Revoke(S)
    BY <2>1, <2>2 DEF Families!Revoke, Committed, None
  <2> QED BY <2>1, <2>3 DEF Families!TokensNext, Tokens
<1>4. ASSUME NEW r \in Requests, NEW t \in Tokens \cup {None},
             \/ Login(r) \/ RejectReuse(r) \/ Rollback(r) \/ SweepAll(r) \/ SweepAllButKept(r)
             \/ LockForRotation(r, t) \/ DetectReuse(r, t) \/ ReadForRevoke(r, t)
             \/ WriteUser(r, t)
      PROVE  UNCHANGED <<family, used, revoked>>
  BY <1>4 DEF Login, RejectReuse, Rollback, SweepAll, SweepAllButKept, Sweep, LockForRotation,
              DetectReuse, ReadForRevoke, WriteUser, rows
<1>5. ASSUME NEW t \in Tokens, Expire(t) PROVE UNCHANGED <<family, used, revoked>>
  BY <1>5 DEF Expire, rows
<1> QED BY <1>1, <1>2, <1>3, <1>4, <1>5 DEF Next

(* The concurrent transactions of auth_service.py implement the families   *)
(* of TokenFamilies: to its clients every login, rotation and revocation   *)
(* happens at once, at its commit.                                         *)
THEOREM RefreshTokensImplementFamilies == Spec => IsTokenFamilies
<1>1. Init => Families!TokensInit /\ TargetsAreCommitted
  BY DEF Init, Idle, Families!TokensInit, Families!Tokens, Families!None, Tokens, None,
         TargetsAreCommitted, Targeted
<1> QED BY Invariance, TargetsStep, FamiliesStep, <1>1, PTL DEF Spec, IsTokenFamilies, Families!TokensSpec

(***************************************************************************)
(* Artifacts: numbers never collide, the content column is the current     *)
(* version, deletion is final, and the artifact is a document with a       *)
(* history that only grows.                                                *)
(***************************************************************************)

(* One request holds the lock of a live artifact; before the artifact      *)
(* exists there is no request.                                             *)
LockInv ==
  /\ artifact = "absent" => \A r \in Editors : edit[r] = AtRest
  /\ \A r \in Editors : Holds(r) => artifact = "live"
  /\ \A q, r \in Editors : Holds(q) /\ Holds(r) => q = r

(* What a request has decided under the lock still fits the versions: the  *)
(* number to insert is the next one, the number to show is the latest one  *)
(* with its text.                                                          *)
PlanInv ==
  \A r \in Editors :
    /\ edit[r].pc = "inserting" => NextNumber(edit[r].number)
    /\ edit[r].pc = "pointing" =>
         edit[r].number \in DOMAIN versions /\ LatestWith(edit[r].text, edit[r].number)

(* An artifact that does not exist has no content; its versions are a      *)
(* sequence and the content is the current one.                            *)
HistoryInv ==
  /\ versions \in Seq(Contents)
  /\ artifact = "absent" => current = 0 /\ content = Blank
  /\ ContentIsCurrentVersion

ArtifactIInv == ArtifactTypeOK /\ LockInv /\ PlanInv /\ HistoryInv

-----------------------------------------------------------------------------
(* Lemmas about the helpers *)

LEMMA EditShapes ==
  ASSUME NEW x \in Edits
  PROVE  /\ x.pc = "adding" => x.text \in Contents
         /\ x.pc = "restoring" => x.source \in Numbers
         /\ x.pc \in {"pointing", "inserting"} => x.number \in Numbers /\ x.text \in Contents
         /\ x.pc = "archiving" => x.to \in BOOLEAN
BY DEF Edits, AddTxn, RestoreTxn, WriteTxn, ArchiveTxn, DeleteTxn, AtRest

LEMMA EditKinds ==
  /\ AtRest \in Edits /\ [pc |-> "deleting"] \in Edits
  /\ AddTxn \cup RestoreTxn \cup ArchiveTxn \subseteq Edits
  /\ \A pc \in {"pointing", "inserting"}, n \in Numbers, c \in Contents :
       [pc |-> pc, number |-> n, text |-> c] \in Edits
BY DEF Edits, AddTxn, RestoreTxn, WriteTxn, ArchiveTxn, DeleteTxn, AtRest

(* The next number of a sequence of versions is its length plus one. *)
LEMMA NextIsLength ==
  ASSUME versions \in Seq(Contents), NEW n \in Nat, NextNumber(n)
  PROVE  n = Len(versions) + 1
<1>1. DOMAIN versions = 1..Len(versions) /\ Len(versions) \in Nat
  OBVIOUS
<1>2. CASE n = 1 /\ DOMAIN versions = {}
  <2>1. Len(versions) = 0
    BY <1>1, <1>2, 1 \in 1..Len(versions) \/ Len(versions) = 0
  <2> QED BY <2>1, <1>2
<1>3. CASE n - 1 \in DOMAIN versions /\ \A k \in DOMAIN versions : k < n
  <2>1. Len(versions) \in DOMAIN versions
    BY <1>1, <1>3
  <2> QED BY <1>1, <1>3, <2>1
<1> QED BY <1>2, <1>3 DEF NextNumber

(* Inserting the next number appends. *)
LEMMA InsertAppends ==
  ASSUME versions \in Seq(Contents), NEW c \in Contents,
         InsertVersion(Len(versions) + 1, c)
  PROVE  /\ versions' = Append(versions, c)
         /\ versions' \in Seq(Contents)
         /\ DOMAIN versions' = DOMAIN versions \cup {Len(versions) + 1}
         /\ versions'[Len(versions) + 1] = c
<1> DEFINE n == Len(versions) + 1
<1>1. /\ Len(versions) \in Nat /\ DOMAIN versions = 1..Len(versions)
      /\ versions \in [1..Len(versions) -> Contents]
  BY LenProperties
<1>2. DOMAIN versions \cup {n} = 1..n
  BY <1>1
<1>3. versions' = [k \in 1..n |-> IF k = n THEN c ELSE versions[k]]
  BY <1>2 DEF InsertVersion
<1>4. versions' \in [1..n -> Contents]
  BY <1>1, <1>3
<1>5. versions' \in Seq(Contents) /\ Len(versions') = n
  BY <1>1, <1>4
<1>6. /\ Append(versions, c) \in Seq(Contents) /\ Len(Append(versions, c)) = n
      /\ \A k \in 1..Len(versions) : Append(versions, c)[k] = versions[k]
      /\ Append(versions, c)[n] = c
  BY AppendProperties
<1>7. \A k \in 1..n : versions'[k] = Append(versions, c)[k]
  BY <1>1, <1>3, <1>6
<1>8. versions' = Append(versions, c)
  BY <1>5, <1>6, <1>7, SeqEqual
<1> QED BY <1>1, <1>2, <1>3, <1>5, <1>8

-----------------------------------------------------------------------------
(* The invariant *)

LEMMA ArtifactInitInv == ArtifactInit => ArtifactIInv
<1> SUFFICES ASSUME ArtifactInit PROVE ArtifactIInv
  OBVIOUS
<1>1. versions \in Seq(Contents) /\ DOMAIN versions = {}
  BY EmptySeq, LenProperties DEF ArtifactInit
<1>2. \A r \in Editors : edit[r] = AtRest
  BY DEF ArtifactInit
<1>3. ArtifactTypeOK
  BY <1>1, EditKinds, VersionsAssumption DEF ArtifactInit, ArtifactTypeOK, Numbers
<1>4. LockInv /\ PlanInv
  BY <1>2 DEF LockInv, PlanInv, Holds, AtRest
<1>5. HistoryInv
  BY <1>1 DEF ArtifactInit, HistoryInv, ContentIsCurrentVersion
<1> QED BY <1>3, <1>4, <1>5 DEF ArtifactIInv

LEMMA ArtifactTypeStep == ArtifactTypeOK /\ [ArtifactNext]_artifactVars => ArtifactTypeOK'
<1> SUFFICES ASSUME ArtifactTypeOK, [ArtifactNext]_artifactVars PROVE ArtifactTypeOK'
  OBVIOUS
<1> USE DEF ArtifactTypeOK, rowVars
<1>a. \A r \in Editors, x \in Edits : To(r, x) => edit' \in [Editors -> Edits]
  BY DEF To
<1>b. \A r \in Editors : Finish(r) => edit' \in [Editors -> Edits]
  BY <1>a, EditKinds DEF Finish
<1>1. ASSUME NEW c \in Contents, Create(c) \/ Generate(c) PROVE ArtifactTypeOK'
  BY <1>1, VersionsAssumption DEF Create, Generate, InsertVersion, Numbers
<1>2. ASSUME NEW r \in Editors, NEW t \in AddTxn \cup RestoreTxn \cup ArchiveTxn, Lock(r, t)
      PROVE  ArtifactTypeOK'
  BY <1>2, <1>a, EditKinds DEF Lock
<1>3. ASSUME NEW r \in Editors, NEW n \in Numbers, FoundByHash(r, n) PROVE ArtifactTypeOK'
  <2>1. (IF current = n THEN AtRest ELSE [pc |-> "pointing", number |-> n, text |-> versions[n]]) \in Edits
    BY <1>3, EditKinds DEF FoundByHash
  <2> QED BY <1>3, <2>1, <1>a DEF FoundByHash
<1>4. ASSUME NEW r \in Editors, NEW n \in Numbers, NewByHash(r, n) PROVE ArtifactTypeOK'
  <2>1. [pc |-> "inserting", number |-> n, text |-> edit[r].text] \in Edits
    BY <1>4, EditKinds, EditShapes DEF NewByHash
  <2> QED BY <1>4, <2>1, <1>a DEF NewByHash
<1>5. ASSUME NEW r \in Editors, NEW n \in Numbers, ReadSource(r, n) PROVE ArtifactTypeOK'
  <2>1. [pc |-> "inserting", number |-> n, text |-> versions[edit[r].source]] \in Edits
    BY <1>5, EditKinds DEF ReadSource
  <2> QED BY <1>5, <2>1, <1>a DEF ReadSource
<1>6. ASSUME NEW r \in Editors, CommitPoint(r) PROVE ArtifactTypeOK'
  BY <1>6, <1>b, EditShapes DEF CommitPoint, ShowVersion
<1>7. ASSUME NEW r \in Editors, CommitInsert(r) PROVE ArtifactTypeOK'
  BY <1>7, <1>b, EditShapes DEF CommitInsert, ShowVersion, InsertVersion
<1>8. ASSUME NEW r \in Editors, CommitArchive(r) PROVE ArtifactTypeOK'
  BY <1>8, <1>b, EditShapes DEF CommitArchive
<1>9. ASSUME NEW r \in Editors, ReadForDelete(r) PROVE ArtifactTypeOK'
  BY <1>9, <1>a, EditKinds DEF ReadForDelete
<1>10. ASSUME NEW r \in Editors, CommitDelete(r) \/ RollbackEdit(r) PROVE ArtifactTypeOK'
  BY <1>10, <1>b DEF CommitDelete, RollbackEdit
<1>11. CASE UNCHANGED artifactVars
  BY <1>11 DEF artifactVars
<1> QED BY <1>1, <1>2, <1>3, <1>4, <1>5, <1>6, <1>7, <1>8, <1>9, <1>10, <1>11 DEF ArtifactNext

(* A step of one request leaves the other transactions alone. *)
LEMMA ToOne ==
  ASSUME ArtifactTypeOK, NEW r \in Editors, NEW x, To(r, x)
  PROVE  edit'[r] = x /\ \A q \in Editors \ {r} : edit'[q] = edit[q]
BY DEF ArtifactTypeOK, To

LEMMA ArtifactLockStep == ArtifactTypeOK /\ LockInv /\ [ArtifactNext]_artifactVars => LockInv'
<1> SUFFICES ASSUME ArtifactTypeOK, LockInv, [ArtifactNext]_artifactVars PROVE LockInv'
  OBVIOUS
<1> USE DEF LockInv, Holds, rowVars
<1>a. \A r \in Editors : Finish(r) => edit'[r] = AtRest /\ \A q \in Editors \ {r} : edit'[q] = edit[q]
  BY ToOne DEF Finish
<1>1. ASSUME NEW c \in Contents, Create(c) \/ Generate(c) PROVE LockInv'
  BY <1>1 DEF Create, Generate
<1>2. ASSUME NEW r \in Editors, NEW t \in AddTxn \cup RestoreTxn \cup ArchiveTxn, Lock(r, t)
      PROVE  LockInv'
  <2>1. edit'[r] = t /\ \A q \in Editors \ {r} : edit'[q] = edit[q]
    BY <1>2, ToOne DEF Lock
  <2> QED BY <1>2, <2>1 DEF Lock, Lockable, LockFree
<1>3. ASSUME NEW r \in Editors, NEW n \in Numbers,
             FoundByHash(r, n) \/ NewByHash(r, n) \/ ReadSource(r, n)
      PROVE  LockInv'
  <2>1. Holds(r) /\ artifact' = artifact
    BY <1>3 DEF FoundByHash, NewByHash, ReadSource
  <2>2. \A q \in Editors \ {r} : edit'[q] = edit[q]
    BY <1>3, ToOne DEF FoundByHash, NewByHash, ReadSource
  <2> QED BY <2>1, <2>2
<1>4. ASSUME NEW r \in Editors, CommitPoint(r) \/ CommitInsert(r) \/ CommitArchive(r)
      PROVE  LockInv'
  BY <1>4, <1>a DEF CommitPoint, CommitInsert, CommitArchive, ShowVersion, AtRest
<1>5. ASSUME NEW r \in Editors, ReadForDelete(r) PROVE LockInv'
  <2>1. edit'[r].pc = "deleting" /\ \A q \in Editors \ {r} : edit'[q] = edit[q]
    BY <1>5, ToOne DEF ReadForDelete
  <2> QED BY <1>5, <2>1 DEF ReadForDelete
<1>6. ASSUME NEW r \in Editors, CommitDelete(r) PROVE LockInv'
  BY <1>6, <1>a DEF CommitDelete, LockFree, AtRest
<1>7. ASSUME NEW r \in Editors, RollbackEdit(r) PROVE LockInv'
  BY <1>7, <1>a DEF RollbackEdit, AtRest
<1>8. CASE UNCHANGED artifactVars
  BY <1>8 DEF artifactVars
<1> QED BY <1>1, <1>2, <1>3, <1>4, <1>5, <1>6, <1>7, <1>8 DEF ArtifactNext

LEMMA PlanStep == ArtifactTypeOK /\ LockInv /\ PlanInv /\ [ArtifactNext]_artifactVars => PlanInv'
<1> SUFFICES ASSUME ArtifactTypeOK, LockInv, PlanInv, [ArtifactNext]_artifactVars PROVE PlanInv'
  OBVIOUS
<1> DEFINE Fits(r) ==
      /\ edit[r].pc = "inserting" => NextNumber(edit[r].number)
      /\ edit[r].pc = "pointing" =>
           edit[r].number \in DOMAIN versions /\ LatestWith(edit[r].text, edit[r].number)
(* A transaction that a step does not touch fits unless the versions change. *)
<1>a. ASSUME versions' = versions, NEW q \in Editors, edit'[q] = edit[q] PROVE Fits(q)'
  BY <1>a DEF PlanInv, NextNumber, LatestWith
<1>b. ASSUME NEW q \in Editors, edit'[q].pc \notin {"inserting", "pointing"} PROVE Fits(q)'
  BY <1>b
<1>c. \A r \in Editors : Finish(r) => edit'[r] = AtRest /\ \A q \in Editors \ {r} : edit'[q] = edit[q]
  BY ToOne DEF Finish
<1>1. ASSUME NEW c \in Contents, Create(c) \/ Generate(c) PROVE PlanInv'
  <2>1. \A q \in Editors : edit'[q] = edit[q] /\ ~Holds(q)
    BY <1>1 DEF Create, Generate, LockInv
  <2> QED BY <2>1, <1>b DEF PlanInv, Holds
<1>2. ASSUME NEW r \in Editors, NEW t \in AddTxn \cup RestoreTxn \cup ArchiveTxn, Lock(r, t)
      PROVE  PlanInv'
  <2>1. edit'[r] = t /\ \A q \in Editors \ {r} : edit'[q] = edit[q]
    BY <1>2, ToOne DEF Lock
  <2>2. t.pc \notin {"inserting", "pointing"}
    BY DEF AddTxn, RestoreTxn, ArchiveTxn
  <2> QED BY <1>2, <2>1, <2>2, <1>a, <1>b DEF Lock, PlanInv
<1>3. ASSUME NEW r \in Editors, NEW n \in Numbers, FoundByHash(r, n) PROVE PlanInv'
  <2>1. /\ edit'[r] = IF current = n THEN AtRest
                     ELSE [pc |-> "pointing", number |-> n, text |-> versions[n]]
        /\ \A q \in Editors \ {r} : edit'[q] = edit[q]
    BY <1>3, ToOne DEF FoundByHash
  <2>2. versions' = versions /\ n \in DOMAIN versions /\ LatestWith(versions[n], n)
    BY <1>3 DEF FoundByHash, LatestWith
  <2>3. Fits(r)'
    BY <2>1, <2>2 DEF LatestWith, AtRest
  <2> QED BY <2>1, <2>2, <2>3, <1>a DEF PlanInv
<1>4. ASSUME NEW r \in Editors, NEW n \in Numbers, NewByHash(r, n) \/ ReadSource(r, n)
      PROVE  PlanInv'
  <2>1. edit'[r].pc = "inserting" /\ edit'[r].number = n
    BY <1>4, ToOne DEF NewByHash, ReadSource
  <2>2. \A q \in Editors \ {r} : edit'[q] = edit[q]
    BY <1>4, ToOne DEF NewByHash, ReadSource
  <2>3. versions' = versions /\ NextNumber(n)
    BY <1>4 DEF NewByHash, ReadSource
  <2>4. Fits(r)'
    BY <2>1, <2>3 DEF NextNumber
  <2> QED BY <2>2, <2>3, <2>4, <1>a DEF PlanInv
<1>5. ASSUME NEW r \in Editors, CommitPoint(r) \/ CommitArchive(r) \/ CommitDelete(r) \/ RollbackEdit(r)
      PROVE  PlanInv'
  <2>1. versions' = versions /\ edit'[r] = AtRest /\ \A q \in Editors \ {r} : edit'[q] = edit[q]
    BY <1>5, <1>c DEF CommitPoint, CommitArchive, CommitDelete, RollbackEdit
  <2> QED BY <2>1, <1>a, <1>b DEF PlanInv, AtRest
<1>6. ASSUME NEW r \in Editors, CommitInsert(r) PROVE PlanInv'
  <2>1. edit'[r] = AtRest /\ \A q \in Editors \ {r} : edit'[q] = edit[q]
    BY <1>6, <1>c DEF CommitInsert
  <2>2. \A q \in Editors \ {r} : ~Holds(q)
    BY <1>6 DEF CommitInsert, LockInv, Holds
  <2> QED BY <2>1, <2>2, <1>b DEF PlanInv, AtRest, Holds
<1>7. ASSUME NEW r \in Editors, ReadForDelete(r) PROVE PlanInv'
  <2>1. edit'[r].pc = "deleting" /\ \A q \in Editors \ {r} : edit'[q] = edit[q]
    BY <1>7, ToOne DEF ReadForDelete
  <2> QED BY <1>7, <2>1, <1>a, <1>b DEF ReadForDelete, PlanInv
<1>8. CASE UNCHANGED artifactVars
  BY <1>8, <1>a DEF artifactVars, PlanInv
<1> QED BY <1>1, <1>2, <1>3, <1>4, <1>5, <1>6, <1>7, <1>8 DEF ArtifactNext

(* What the two inserting steps do to the versions. *)
LEMMA CreateAppends ==
  ASSUME ArtifactIInv, NEW c \in Contents, Create(c)
  PROVE  /\ versions = <<>> /\ versions' = <<c>> /\ versions' \in Seq(Contents)
         /\ DOMAIN versions' = {1} /\ versions'[1] = c
<1>1. versions \in Seq(Contents) /\ DOMAIN versions = {}
  BY DEF ArtifactIInv, HistoryInv, ContentIsCurrentVersion, Create
<1>2. versions = <<>> /\ Len(versions) = 0
  BY <1>1, EmptySeq
<1>3. InsertVersion(Len(versions) + 1, c)
  BY <1>2 DEF Create
<1>4. versions' = Append(versions, c) /\ versions' \in Seq(Contents)
      /\ DOMAIN versions' = DOMAIN versions \cup {1} /\ versions'[1] = c
  BY <1>1, <1>2, <1>3, InsertAppends
<1> QED BY <1>1, <1>2, <1>4

LEMMA CommitAppends ==
  ASSUME ArtifactIInv, NEW r \in Editors, CommitInsert(r)
  PROVE  /\ edit[r].text \in Contents
         /\ edit[r].number = Len(versions) + 1
         /\ versions' = Append(versions, edit[r].text)
         /\ versions' \in Seq(Contents)
         /\ edit[r].number \in DOMAIN versions'
         /\ versions'[edit[r].number] = edit[r].text
<1>1. /\ versions \in Seq(Contents) /\ NextNumber(edit[r].number)
      /\ edit[r].number \in Numbers /\ edit[r].text \in Contents
  BY EditShapes DEF ArtifactIInv, HistoryInv, PlanInv, ArtifactTypeOK, CommitInsert
<1>2. edit[r].number = Len(versions) + 1
  BY <1>1, NextIsLength DEF Numbers
<1>3. InsertVersion(Len(versions) + 1, edit[r].text)
  BY <1>2 DEF CommitInsert
<1> QED BY <1>1, <1>2, <1>3, InsertAppends

LEMMA HistoryStep == ArtifactIInv /\ [ArtifactNext]_artifactVars => HistoryInv'
<1> SUFFICES ASSUME ArtifactIInv, [ArtifactNext]_artifactVars PROVE HistoryInv'
  OBVIOUS
<1> USE DEF HistoryInv, ContentIsCurrentVersion, rowVars
<1>a. HistoryInv /\ PlanInv /\ LockInv /\ ArtifactTypeOK
  BY DEF ArtifactIInv
<1>b. UNCHANGED <<rowVars, versions>> => HistoryInv'
  BY <1>a
<1>1. ASSUME NEW c \in Contents, Create(c) PROVE HistoryInv'
  BY <1>1, CreateAppends DEF Create
<1>2. ASSUME NEW c \in Contents, Generate(c) PROVE HistoryInv'
  BY <1>2, <1>a DEF Generate
<1>3. ASSUME NEW r \in Editors, CommitPoint(r) PROVE HistoryInv'
  <2>1. /\ edit[r].number \in DOMAIN versions /\ versions[edit[r].number] = edit[r].text
        /\ edit[r].number \in Numbers /\ artifact = "live"
    BY <1>3, <1>a, EditShapes DEF CommitPoint, PlanInv, LatestWith, LockInv, Holds, ArtifactTypeOK
  <2> QED BY <1>3, <1>a, <2>1 DEF CommitPoint, ShowVersion, Numbers
<1>4. ASSUME NEW r \in Editors, CommitInsert(r) PROVE HistoryInv'
  <2>1. edit[r].number \in Numbers /\ artifact = "live"
    BY <1>4, <1>a, EditShapes DEF CommitInsert, LockInv, Holds, ArtifactTypeOK
  <2> QED BY <1>4, <2>1, CommitAppends DEF CommitInsert, ShowVersion, Numbers
<1>5. ASSUME NEW r \in Editors, CommitArchive(r) \/ CommitDelete(r) PROVE HistoryInv'
  BY <1>5, <1>a DEF CommitArchive, CommitDelete
<1>6. ASSUME NEW r \in Editors, NEW t, Lock(r, t) PROVE HistoryInv'
  BY <1>6, <1>b DEF Lock
<1>7. ASSUME NEW r \in Editors, NEW n \in Numbers,
             FoundByHash(r, n) \/ NewByHash(r, n) \/ ReadSource(r, n)
      PROVE  HistoryInv'
  BY <1>7, <1>b DEF FoundByHash, NewByHash, ReadSource
<1>8. ASSUME NEW r \in Editors, ReadForDelete(r) \/ RollbackEdit(r) PROVE HistoryInv'
  BY <1>8, <1>b DEF ReadForDelete, RollbackEdit
<1>9. CASE UNCHANGED artifactVars
  BY <1>9, <1>b DEF artifactVars
<1> QED BY <1>1, <1>2, <1>3, <1>4, <1>5, <1>6, <1>7, <1>8, <1>9 DEF ArtifactNext

LEMMA ArtifactInvStep == ArtifactIInv /\ [ArtifactNext]_artifactVars => ArtifactIInv'
BY ArtifactTypeStep, ArtifactLockStep, PlanStep, HistoryStep DEF ArtifactIInv

LEMMA ArtifactInvariance == ArtifactSpec => []ArtifactIInv
<1>1. ArtifactInit => ArtifactIInv
  BY ArtifactInitInv
<1>2. ArtifactIInv /\ [ArtifactNext]_artifactVars => ArtifactIInv'
  BY ArtifactInvStep
<1> QED BY <1>1, <1>2, PTL DEF ArtifactSpec

-----------------------------------------------------------------------------
(* Theorems                                                                *)

(* Every variable of the version model keeps its type. *)
THEOREM ArtifactTypeCorrect == ArtifactSpec => []ArtifactTypeOK
<1>1. ArtifactIInv => ArtifactTypeOK
  BY DEF ArtifactIInv
<1> QED BY <1>1, ArtifactInvariance, PTL

(* add_version and restore_version never insert a number that the artifact *)
(* already has, however many of them overlap.                              *)
THEOREM NoCollision == ArtifactSpec => []NumbersNeverCollide
<1>1. ArtifactIInv => NumbersNeverCollide
  <2> SUFFICES ASSUME ArtifactIInv, NEW r \in Editors, edit[r].pc = "inserting"
               PROVE  edit[r].number \notin DOMAIN versions
    BY DEF NumbersNeverCollide
  <2>1. versions \in Seq(Contents) /\ NextNumber(edit[r].number) /\ edit[r].number \in Numbers
    BY EditShapes DEF ArtifactIInv, HistoryInv, PlanInv, ArtifactTypeOK
  <2>2. edit[r].number = Len(versions) + 1
    BY <2>1, NextIsLength DEF Numbers
  <2> QED BY <2>1, <2>2, LenProperties
<1> QED BY <1>1, ArtifactInvariance, PTL

(* The content column of an artifact is the text of its current version. *)
THEOREM CurrentContent == ArtifactSpec => []ContentIsCurrentVersion
<1>1. ArtifactIInv => ContentIsCurrentVersion
  BY DEF ArtifactIInv, HistoryInv
<1> QED BY <1>1, ArtifactInvariance, PTL

(* No request changes the versions, the content or the archive flag of an  *)
(* artifact whose deletion has committed.                                  *)
THEOREM DeletedForGood == ArtifactSpec => DeletionIsFinal
<1>1. ArtifactIInv /\ [ArtifactNext]_artifactVars => [artifact = "deleted" => UNCHANGED <<rowVars, versions>>]_artifactVars
  <2> SUFFICES ASSUME ArtifactIInv, ArtifactNext, artifact = "deleted" PROVE UNCHANGED <<rowVars, versions>>
    BY DEF artifactVars
  <2>1. \A r \in Editors : ~Holds(r)
    BY DEF ArtifactIInv, LockInv
  <2>2. \A r \in Editors : ~CommitPoint(r) /\ ~CommitInsert(r) /\ ~CommitArchive(r)
    BY <2>1 DEF Holds, CommitPoint, CommitInsert, CommitArchive
  <2>3. \A c \in Contents : ~Create(c) /\ ~Generate(c)
    BY DEF Create, Generate
  <2>4. ASSUME NEW r \in Editors, CommitDelete(r) PROVE UNCHANGED <<rowVars, versions>>
    BY <2>4 DEF CommitDelete, rowVars
  <2> QED BY <2>2, <2>3, <2>4
       DEF ArtifactNext, Lock, FoundByHash, NewByHash, ReadSource, ReadForDelete, RollbackEdit
<1> QED BY <1>1, ArtifactInvariance, PTL DEF ArtifactSpec, DeletionIsFinal

(* Every step of the requests is a step of the one-editor document or      *)
(* leaves the document as it is.                                           *)
THEOREM ArtifactIsADocument == ArtifactSpec => IsADocument
<1>1. ArtifactInit => Document!Init
  BY DEF ArtifactInit, Document!Init
<1>2. ArtifactIInv /\ [ArtifactNext]_artifactVars => [Document!Next]_(Document!docVars)
  <2> SUFFICES ASSUME ArtifactIInv, [ArtifactNext]_artifactVars PROVE Document!Next \/ UNCHANGED Document!docVars
    OBVIOUS
  <2> USE DEF rowVars
  <2>a. versions \in Seq(Contents) /\ DOMAIN versions = 1..Len(versions)
    BY LenProperties DEF ArtifactIInv, HistoryInv
  <2>b. UNCHANGED <<rowVars, versions>> => UNCHANGED Document!docVars
    BY DEF Document!docVars
  <2>1. ASSUME NEW c \in Contents, Create(c) \/ Generate(c) PROVE Document!Start(c)
    <3>1. CASE Create(c)
      BY <3>1, CreateAppends DEF Create, Document!Start
    <3>2. CASE Generate(c)
      BY <3>2 DEF Generate, Document!Start
    <3> QED BY <2>1, <3>1, <3>2
  <2>2. ASSUME NEW r \in Editors, CommitPoint(r)
        PROVE  \E n \in 1..Len(versions) : Document!Resubmit(n)
    <3>1. /\ edit[r].number \in DOMAIN versions /\ LatestWith(edit[r].text, edit[r].number)
          /\ artifact = "live"
      BY <2>2 DEF CommitPoint, ArtifactIInv, PlanInv, LockInv, Holds
    <3>2. Document!Latest(edit[r].number) /\ versions[edit[r].number] = edit[r].text
      BY <2>a, <3>1 DEF LatestWith, Document!Latest
    <3>3. Document!Resubmit(edit[r].number)
      BY <2>2, <3>1, <3>2 DEF CommitPoint, ShowVersion, Document!Resubmit, Document!Show
    <3> QED BY <2>a, <3>1, <3>3
  <2>3. ASSUME NEW r \in Editors, CommitInsert(r) PROVE Document!Next
    <3> DEFINE c == edit[r].text
    <3>1. artifact = "live"
      BY <2>3 DEF CommitInsert, ArtifactIInv, LockInv, Holds
    <3>2. c \in Contents /\ versions' = Append(versions, c)
          /\ Document!Show(Len(versions) + 1, c)
      BY <2>3, <3>1, CommitAppends DEF CommitInsert, ShowVersion, Document!Show
    <3>3. CASE \E n \in 1..Len(versions) : versions[n] = c
      BY <3>2, <3>3 DEF Document!RestoreEntry, Document!Next
    <3>4. CASE \A n \in 1..Len(versions) : versions[n] # c
      BY <3>2, <3>4 DEF Document!Submit, Document!Next
    <3> QED BY <3>3, <3>4
  <2>4. ASSUME NEW r \in Editors, CommitArchive(r) PROVE UNCHANGED Document!docVars
    BY <2>4 DEF CommitArchive, Document!docVars
  <2>5. ASSUME NEW r \in Editors, CommitDelete(r)
        PROVE  Document!Remove \/ UNCHANGED Document!docVars
    BY <2>5 DEF CommitDelete, ArtifactIInv, ArtifactTypeOK, LockInv, AtRest, Document!Remove, Document!docVars
  <2>6. ASSUME NEW r \in Editors, NEW t, Lock(r, t) PROVE UNCHANGED Document!docVars
    BY <2>6, <2>b DEF Lock
  <2>7. ASSUME NEW r \in Editors, NEW n \in Numbers,
               FoundByHash(r, n) \/ NewByHash(r, n) \/ ReadSource(r, n)
        PROVE  UNCHANGED Document!docVars
    BY <2>7, <2>b DEF FoundByHash, NewByHash, ReadSource
  <2>8. ASSUME NEW r \in Editors, ReadForDelete(r) \/ RollbackEdit(r)
        PROVE  UNCHANGED Document!docVars
    BY <2>8, <2>b DEF ReadForDelete, RollbackEdit
  <2>9. CASE UNCHANGED artifactVars
    BY <2>9, <2>b DEF artifactVars
  <2> QED BY <2>1, <2>2, <2>3, <2>4, <2>5, <2>6, <2>7, <2>8, <2>9 DEF ArtifactNext, Document!Next
<1> QED BY <1>1, <1>2, ArtifactInvariance, PTL DEF ArtifactSpec, IsADocument, Document!Spec
=============================================================================
