---------------------------- MODULE TokenFamilies ----------------------------
(***************************************************************************)
(* What refresh-token families promise their clients: a login starts a     *)
(* family, a rotation replaces the family's one live token by one that     *)
(* never existed before, and a revocation is final.  RefreshTokens, with   *)
(* its transactions and row locks, implements it; BrowserSession uses it   *)
(* as the token service its route handlers call.                           *)
(***************************************************************************)
EXTENDS Naturals

CONSTANT MaxTokens    \* bound on the tokens ever created

VARIABLES
  family,       \* family of a token, 0 before it exists
  used,         \* tokens that were rotated
  revoked       \* tokens that were revoked

tokenVars == <<family, used, revoked>>

Tokens == 1..MaxTokens
None == 0

TokensInit ==
  /\ family = [t \in Tokens |-> None]
  /\ used = {}
  /\ revoked = {}

Committed(t) == family[t] # None
Live(t) == Committed(t) /\ t \notin used /\ t \notin revoked

(* login: a token that names its own family *)
Issue(t) ==
  /\ ~Committed(t)
  /\ family' = [family EXCEPT ![t] = t]
  /\ UNCHANGED <<used, revoked>>

(* refresh: the successor joins the family as its token is used up *)
Rotate(t, new) ==
  /\ Live(t) /\ ~Committed(new)
  /\ family' = [family EXCEPT ![new] = family[t]]
  /\ used' = used \cup {t}
  /\ UNCHANGED revoked

(* logout, session revocation, the sweeps of logout-all and of a password  *)
(* change *)
Revoke(S) ==
  /\ \A t \in S : Committed(t)
  /\ revoked' = revoked \cup S
  /\ UNCHANGED <<family, used>>

TokensNext ==
  \/ \E t \in Tokens : Issue(t) \/ \E new \in Tokens : Rotate(t, new)
  \/ \E S \in SUBSET Tokens : Revoke(S)

TokensSpec == TokensInit /\ [][TokensNext]_tokenVars
=============================================================================
