------------------------- MODULE BrowserSessionProofs -------------------------
(* TLAPS proofs about BrowserSession: for every number of tabs, of requests *)
(* in flight and of tokens, the cookies of an idle browser are never spent, *)
(* and signing out and changing the password end the sessions they should. *)
EXTENDS BrowserSession, TLAPS

LEMMA Marks ==
  /\ Keep \notin Tokens /\ Keep # Clear /\ None \notin Tokens
  /\ Clear = None /\ Keep # None
BY SessionAssumption DEF Keep, Clear, None, Tokens

-----------------------------------------------------------------------------
(* What the helpers build                                                  *)

Cookies == [access : Tokens \cup {None}, refresh : Tokens \cup {None}]

LEMMA NewCallShape ==
  ASSUME NEW j \in Cookies, NEW kind \in Kinds, NEW b \in Tabs,
         NEW target \in Tokens \cup {None}, NEW goTo \in Pages \cup {"stay"}
  PROVE  LET d == NewCall(j, kind, b, target, goTo)
         IN  /\ d \in Call
             /\ d.kind = kind /\ d.tab = b /\ d.pc = "sent"
             /\ d.refresh = j.refresh /\ d.set = Keep
BY DEF NewCall, Call, Cookies

LEMMA SetCookiesShape ==
  ASSUME NEW j \in Cookies, NEW set \in Tokens \cup {Clear, Keep}
  PROVE  /\ SetCookies(j, set) \in Cookies
         /\ SetCookies(j, set).refresh = IF set = Keep THEN j.refresh ELSE set
         /\ SetCookies(j, set).access = IF set = Keep THEN j.access ELSE set
BY Marks DEF SetCookies, Cookies

LEMMA RoutedShape ==
  ASSUME NEW path \in Pages, NEW j
  PROVE  Routed(path, j) \in Pages
BY DEF Routed, Pages

LEMMA AnswerShape ==
  ASSUME NEW c \in Call, NEW ok \in BOOLEAN, NEW set \in Tokens \cup {Clear, Keep}
  PROVE  /\ Answer(c, ok, set) \in Call
         /\ Answer(c, ok, set).kind = c.kind /\ Answer(c, ok, set).tab = c.tab
         /\ Answer(c, ok, set).pc = "answered" /\ Answer(c, ok, set).ok = ok
         /\ Answer(c, ok, set).set = set /\ Answer(c, ok, set).refresh = None
<1> DEFINE first == [c EXCEPT !.pc = "answered", !.ok = ok, !.set = set]
           last == [first EXCEPT !.access = None, !.refresh = None, !.target = None]
<1>1. /\ first \in Call /\ first.kind = c.kind /\ first.tab = c.tab
      /\ first.pc = "answered" /\ first.ok = ok /\ first.set = set
  BY DEF Call
<1>2. Answer(c, ok, set) = last
  BY DEF Answer
<1> HIDE DEF first
<1>3. /\ last \in Call /\ last.kind = first.kind /\ last.tab = first.tab
      /\ last.pc = first.pc /\ last.ok = first.ok /\ last.set = first.set
      /\ last.refresh = None
  BY <1>1 DEF Call
<1> QED BY <1>1, <1>2, <1>3

(* What a refresh makes of the call it was made for *)
LEMMA AgainShape ==
  ASSUME NEW c \in Call, NEW new \in Tokens
  PROVE  LET again == [c EXCEPT !.access = new, !.set = new]
             other == [again EXCEPT !.pc = "retrying"]
             me    == [again EXCEPT !.refresh = new,
                                    !.pc = IF c.access = None THEN "sent" ELSE "retrying"]
         IN  /\ other \in Call /\ other.kind = c.kind /\ other.set = new
             /\ other.refresh = c.refresh /\ other.pc = "retrying"
             /\ other.target = c.target /\ me.target = c.target
             /\ me \in Call /\ me.kind = c.kind /\ me.set = new
             /\ me.refresh = new /\ me.pc \in {"sent", "retrying"}
<1> DEFINE again == [c EXCEPT !.access = new, !.set = new]
           other == [again EXCEPT !.pc = "retrying"]
           pc == IF c.access = None THEN "sent" ELSE "retrying"
           me == [again EXCEPT !.refresh = new, !.pc = pc]
<1>1. /\ again \in Call /\ again.kind = c.kind /\ again.set = new
      /\ again.refresh = c.refresh /\ again.target = c.target
  BY DEF Call
<1>2. pc \in {"sent", "retrying"}
  OBVIOUS
<1> HIDE DEF again, pc
<1>3. /\ other \in Call /\ other.kind = c.kind /\ other.set = new
      /\ other.refresh = c.refresh /\ other.pc = "retrying" /\ other.target = c.target
  BY <1>1 DEF Call
<1>4. /\ me \in Call /\ me.kind = c.kind /\ me.set = new
      /\ me.refresh = new /\ me.pc = pc /\ me.target = c.target
  BY <1>1, <1>2 DEF Call
<1> QED BY <1>2, <1>3, <1>4 DEF again, pc

-----------------------------------------------------------------------------
(* The invariant.  Tokens are issued in order, and a family has one token  *)
(* that was not rotated.                                                   *)

InOrder == \E n \in 0..MaxTokens : \A t \in Tokens : Committed(t) <=> t <= n

FamilyInv ==
  /\ \A t \in used : Committed(t)
  /\ \A t \in Tokens : Committed(t) => Committed(family[t])
  /\ \A t, u \in Tokens :
       Committed(t) /\ t \notin used /\ u \notin used /\ family[u] = family[t] => u = t

(* What the jar and the requests carry was issued. *)
Known ==
  /\ jar.refresh # None => Committed(jar.refresh)
  /\ \A s \in Slots : Busy(s) /\ calls[s].refresh # None => Committed(calls[s].refresh)

(* How far a request got says what its response will set.                  *)
CallShape(c, spent) ==
  /\ c.pc = "sent" /\ c.kind # "me" => c.set = Keep
  /\ c.pc = "retrying" => c.set # Keep /\ c.kind \in Proxied \cup {"me"}
  /\ c.pc = "retrying" /\ c.kind # "me" => c.refresh \in spent
  /\ c.pc = "answered" => c.refresh = None
  /\ c.pc # "answered" /\ c.kind = "revoke" => c.target # None
  /\ c.pc = "answered" /\ c.kind \in SignOuts => c.set = Clear
Shapes == \A s \in Slots : Busy(s) => CallShape(calls[s], used)

(* The pair of a response is unused, and nobody has it but that response   *)
(* and the request it answers.                                             *)
Fresh ==
  \A s \in Slots : Busy(s) /\ calls[s].set \in Tokens =>
    /\ Committed(calls[s].set) /\ calls[s].set \notin used
    /\ calls[s].set # jar.refresh
    /\ \A q \in Slots : q # s /\ Busy(q) =>
         calls[q].set # calls[s].set /\ calls[q].refresh # calls[s].set

(* A spent token in the jar is about to be replaced.                       *)
Carried ==
  "lost" \notin trouble /\ jar.refresh \in used
    => \E s \in Slots : Busy(s) /\ calls[s].set # Keep

(* Requests that do not overlap act on the jar's own token.                *)
Alone ==
  "overlap" \notin trouble =>
    \A s \in Slots : Busy(s) =>
      /\ \A q \in Slots : Busy(q) => q = s
      /\ calls[s].pc = "sent" /\ calls[s].set = Keep => calls[s].refresh = jar.refresh

(* What an answered logout and an answered password change leave behind    *)
Ended ==
  trouble = {} =>
    \A s \in Slots :
      Busy(s) /\ calls[s].pc = "answered" /\ calls[s].kind \in {"logout", "signOut"} =>
        jar.refresh = None \/ jar.refresh \in revoked \ used
Swapped ==
  "overlap" \notin trouble =>
    \A s \in Slots :
      Busy(s) /\ calls[s].pc = "answered" /\ calls[s].kind = "password" /\ calls[s].ok =>
        \A t \in Tokens : Live(t) => t = SetCookies(jar, calls[s].set).refresh

BaseInv == TypeOK /\ InOrder /\ FamilyInv /\ Known /\ Shapes
SessionIInv == BaseInv /\ Fresh /\ Carried /\ Alone /\ Ended /\ Swapped

LEMMA CallTypes ==
  ASSUME TypeOK, NEW s \in Slots, Busy(s)
  PROVE  /\ calls[s] \in Call
         /\ calls[s].kind \in Kinds /\ calls[s].tab \in Tabs
         /\ calls[s].pc \in {"sent", "retrying", "answered"}
         /\ calls[s].refresh \in Tokens \cup {None}
         /\ calls[s].set \in Tokens \cup {Clear, Keep} /\ calls[s].ok \in BOOLEAN
         /\ calls[s].goTo \in Pages \cup {"stay"}
         /\ calls[s].target \in Tokens \cup {None}
<1>1. calls[s] \in Call
  BY DEF TypeOK, Busy
<1> QED BY <1>1 DEF Call

LEMMA CallsAreBusy == \A c \in Call : c # Idle
BY DEF Call, Idle, Kinds, Proxied, SignOuts

LEMMA SessionInit == Init => SessionIInv
<1> SUFFICES ASSUME Init PROVE SessionIInv
  OBVIOUS
<1> USE DEF Init, TokensInit
<1>1. TypeOK
  BY SessionAssumption DEF TypeOK, Pages
<1>2. \A s \in Slots : ~Busy(s)
  BY DEF Busy
<1>3. \A t \in Tokens : ~Committed(t)
  BY DEF Committed, None
<1>4. InOrder
  BY <1>3, SessionAssumption DEF InOrder, Tokens
<1>5. FamilyInv
  BY <1>3 DEF FamilyInv
<1>6. Known /\ Shapes /\ Fresh /\ Alone /\ Ended /\ Swapped
  BY <1>2 DEF Known, Shapes, CallShape, Fresh, Alone, Ended, Swapped
<1>7. Carried
  BY DEF Carried
<1> QED BY <1>1, <1>4, <1>5, <1>6, <1>7 DEF SessionIInv, BaseInv

-----------------------------------------------------------------------------
(* The tokens                                                              *)

(* The next token is one, and was never issued.                            *)
LEMMA NextIsFree ==
  ASSUME InOrder, TokensLeft
  PROVE  /\ NextToken \in Tokens /\ ~Committed(NextToken)
         /\ \A u \in 1..(NextToken - 1) : Committed(u)
<1>1. PICK n \in 0..MaxTokens : \A t \in Tokens : Committed(t) <=> t <= n
  BY DEF InOrder
<1>2. n + 1 \in Tokens
  BY <1>1, SessionAssumption DEF TokensLeft, Tokens
<1>3. ~Committed(n + 1) /\ \A u \in 1..((n + 1) - 1) : Committed(u)
  BY <1>1, <1>2, SessionAssumption DEF Tokens
<1> QED BY <1>2, <1>3 DEF NextToken

LEMMA Grows ==
  ASSUME TypeOK, InOrder, TokensLeft, NEW f \in Tokens,
         family' = [family EXCEPT ![NextToken] = f]
  PROVE  /\ InOrder' /\ family' \in [Tokens -> Tokens \cup {None}]
         /\ \A t \in Tokens : Committed(t)' <=> Committed(t) \/ t = NextToken
<1>1. /\ NextToken \in Tokens /\ ~Committed(NextToken)
      /\ \A u \in 1..(NextToken - 1) : Committed(u)
  BY NextIsFree
<1>2. family' \in [Tokens -> Tokens \cup {None}]
  BY DEF TypeOK
<1>3. \A t \in Tokens : Committed(t)' <=> Committed(t) \/ t = NextToken
  BY <1>1, Marks DEF Committed, TypeOK
<1>4. PICK n \in 0..MaxTokens : \A t \in Tokens : Committed(t) <=> t <= n
  BY DEF InOrder
<1>5. NextToken = n + 1
  BY <1>1, <1>4, SessionAssumption DEF Tokens
<1>6. n + 1 \in 0..MaxTokens /\ \A t \in Tokens : Committed(t)' <=> t <= n + 1
  BY <1>1, <1>3, <1>4, <1>5, SessionAssumption DEF Tokens
<1> QED BY <1>2, <1>3, <1>6 DEF InOrder

LEMMA IssueKeeps ==
  ASSUME TypeOK, InOrder, FamilyInv, TokensLeft, Issue(NextToken)
  PROVE  /\ InOrder' /\ FamilyInv' /\ family' \in [Tokens -> Tokens \cup {None}]
         /\ \A t \in Tokens : Committed(t)' <=> Committed(t) \/ t = NextToken
         /\ UNCHANGED <<used, revoked>>
<1>1. /\ NextToken \in Tokens /\ ~Committed(NextToken)
  BY NextIsFree
<1>2. family' = [family EXCEPT ![NextToken] = NextToken] /\ UNCHANGED <<used, revoked>>
  BY DEF Issue
<1>3. /\ InOrder' /\ family' \in [Tokens -> Tokens \cup {None}]
      /\ \A t \in Tokens : Committed(t)' <=> Committed(t) \/ t = NextToken
  BY <1>1, <1>2, Grows
<1>4. FamilyInv'
  BY <1>1, <1>2, <1>3, Marks DEF FamilyInv, TypeOK, Committed
<1> QED BY <1>2, <1>3, <1>4

LEMMA RotateKeeps ==
  ASSUME TypeOK, InOrder, FamilyInv, TokensLeft, NEW t \in Tokens, Rotate(t, NextToken)
  PROVE  /\ InOrder' /\ FamilyInv' /\ family' \in [Tokens -> Tokens \cup {None}]
         /\ \A u \in Tokens : Committed(u)' <=> Committed(u) \/ u = NextToken
         /\ used' = used \cup {t} /\ revoked' = revoked
<1>1. NextToken \in Tokens /\ ~Committed(NextToken)
  BY NextIsFree
<1>2. /\ family' = [family EXCEPT ![NextToken] = family[t]] /\ used' = used \cup {t}
      /\ revoked' = revoked /\ Committed(t) /\ t \notin used
  BY DEF Rotate, Live
<1>3. family[t] \in Tokens
  BY <1>2 DEF Committed, TypeOK
<1>4. /\ InOrder' /\ family' \in [Tokens -> Tokens \cup {None}]
      /\ \A u \in Tokens : Committed(u)' <=> Committed(u) \/ u = NextToken
  BY <1>1, <1>2, <1>3, Grows
<1>5. NextToken # t /\ NextToken \notin used
  BY <1>1, <1>2 DEF FamilyInv
<1>6. \A u \in Tokens : family'[u] = IF u = NextToken THEN family[t] ELSE family[u]
  BY <1>1, <1>2 DEF TypeOK
<1>7. \A u \in used' : Committed(u)'
  BY <1>2, <1>4 DEF FamilyInv, TypeOK
<1>8. \A u \in Tokens : Committed(u)' => Committed(family[u])'
  <2> SUFFICES ASSUME NEW u \in Tokens, Committed(u)' PROVE Committed(family[u])'
    OBVIOUS
  <2>1. CASE u = NextToken
    <3>1. family'[u] = family[t] /\ Committed(family[t])
      BY <1>2, <1>6, <2>1 DEF FamilyInv
    <3>2. family'[family[t]] # None
      BY <1>3, <1>4, <3>1 DEF Committed
    <3> QED BY <3>1, <3>2 DEF Committed
  <2>2. CASE u # NextToken
    <3>1. family'[u] = family[u] /\ Committed(u)
      BY <1>4, <1>6, <2>2
    <3>2. Committed(family[u]) /\ family[u] \in Tokens
      BY <3>1 DEF FamilyInv, Committed, TypeOK
    <3>3. family'[family[u]] # None
      BY <1>4, <3>2 DEF Committed
    <3> QED BY <3>1, <3>3 DEF Committed
  <2> QED BY <2>1, <2>2
<1>9. \A u, v \in Tokens :
        Committed(u)' /\ u \notin used' /\ v \notin used' /\ family'[v] = family'[u] => v = u
  <2> SUFFICES ASSUME NEW u \in Tokens, NEW v \in Tokens, Committed(u)', u \notin used',
                      v \notin used', family'[v] = family'[u]
               PROVE  v = u
    OBVIOUS
  <2>1. u \notin used /\ v \notin used /\ u # t /\ v # t
    BY <1>2
  <2>2. CASE u # NextToken /\ v # NextToken
    BY <1>4, <1>6, <2>1, <2>2 DEF FamilyInv
  <2>3. CASE u # NextToken /\ v = NextToken
    BY <1>2, <1>4, <1>6, <2>1, <2>3 DEF FamilyInv
  <2>4. CASE u = NextToken /\ v # NextToken
    BY <1>2, <1>6, <2>1, <2>4 DEF FamilyInv
  <2> QED BY <2>2, <2>3, <2>4
<1>10. FamilyInv'
  BY <1>7, <1>8, <1>9 DEF FamilyInv
<1> QED BY <1>2, <1>4, <1>10

-----------------------------------------------------------------------------
(* What a handler does to its request and to the tokens                    *)

(* It answers, the rotations as they were;                                 *)
Kept(c, d) ==
  /\ UNCHANGED <<family, used>> /\ revoked \subseteq revoked' /\ revoked' \subseteq Tokens
  /\ d.pc = "answered" /\ d.refresh = None /\ d.set \in {c.set, Clear}
  /\ c.kind \in SignOuts => d.set = Clear
(* a refresh rotates the request's token, and the pair goes into the       *)
(* response, or is lost with an answer that clears the cookies;            *)
Rotated(c, d) ==
  /\ TokensLeft /\ c.refresh \in Tokens /\ Rotate(c.refresh, NextToken)
  /\ c.kind \in Proxied \cup {"me"}
  /\ \/ d.pc = "answered" /\ ~d.ok /\ d.refresh = None /\ d.set = Clear
     \/ d.pc = "retrying" /\ d.refresh = c.refresh /\ d.set = NextToken
     \/ /\ c.kind = "me" /\ d.pc \in {"sent", "retrying"}
        /\ d.refresh = NextToken /\ d.set = NextToken
(* a login is given a new pair.                                            *)
Issued(c, d) ==
  /\ c.kind = "login" /\ TokensLeft /\ Issue(NextToken)
  /\ d.pc = "answered" /\ d.refresh = None /\ d.set = NextToken

HandleEffect(s, d) ==
  /\ calls' = [calls EXCEPT ![s] = d]
  /\ d.kind = calls[s].kind
  /\ calls[s].pc # "answered"
  /\ d.pc # "answered" => d.target = calls[s].target
  /\ UNCHANGED <<lapsed, jar, shown, at, told>>
  /\ trouble' = trouble \/ trouble' = trouble \cup {"failed"}
  /\ Kept(calls[s], d) \/ Rotated(calls[s], d) \/ Issued(calls[s], d)
  (* What logout and the password change do to the tokens                  *)
  /\ calls[s].kind \in {"logout", "signOut"} /\ "failed" \notin trouble'
       => revoked' = revoked \cup SignedOut(calls[s])
  /\ calls[s].kind = "password" /\ d.pc = "answered" /\ d.ok
       => revoked' = revoked \cup Swept(calls[s]) /\ d.set = calls[s].set

LEMMA HandleShape ==
  ASSUME BaseInv, NEW s \in Slots, Handle(s)
  PROVE  \E d \in Call : HandleEffect(s, d)
<1> DEFINE c == calls[s]
<1>b. Busy(s)
  BY DEF Handle
<1>t. /\ c \in Call /\ c.refresh \in Tokens \cup {None} /\ c.kind \in Kinds
      /\ c.set \in Tokens \cup {Clear, Keep}
      /\ revoked \subseteq Tokens
  BY <1>b, CallTypes DEF BaseInv, TypeOK
<1>h. /\ c.pc = "sent" /\ c.kind # "me" => c.set = Keep
      /\ c.pc = "retrying" => c.kind \in Proxied \cup {"me"}
  BY <1>b DEF BaseInv, Shapes, CallShape
<1>k. \A ok \in BOOLEAN, set \in Tokens \cup {Clear, Keep} :
        /\ Answer(c, ok, set) \in Call
        /\ Answer(c, ok, set).kind = c.kind
        /\ Answer(c, ok, set).pc = "answered" /\ Answer(c, ok, set).ok = ok
        /\ Answer(c, ok, set).set = set /\ Answer(c, ok, set).refresh = None
  BY <1>t, AnswerShape
<1>m. Clear \in Tokens \cup {Clear, Keep} /\ Keep \in Tokens \cup {Clear, Keep}
  OBVIOUS
<1>p. "password" \in Proxied /\ "me" \notin Proxied \cup SignOuts
      /\ "login" \notin Proxied \cup SignOuts \cup {"me"}
      /\ \A k \in SignOuts : k \notin Proxied \cup {"me"}
      /\ "logout" \in SignOuts /\ "signOut" \in SignOuts
  BY DEF Proxied, SignOuts
<1>q. \A k \in Proxied \cup {"me"} : k \notin SignOuts /\ k \notin {"logout", "signOut"}
  BY DEF Proxied, SignOuts
<1>1. CASE Serve(s)
  <2> DEFINE good == Answer(c, TRUE, c.set)
             bad == Answer(c, FALSE, c.set)
  <2>1. /\ c.kind \in Proxied \cup {"me"} /\ c.pc # "answered"
        /\ UNCHANGED <<lapsed, jar, shown, at, told>>
    BY <1>1 DEF Serve
  <2>2. CASE Revoke(RevokedBy(c)) /\ Step(s, good) /\ UNCHANGED trouble
    <3>1. /\ UNCHANGED <<family, used>> /\ revoked' = revoked \cup RevokedBy(c)
      BY <2>2 DEF Revoke
    <3>2. RevokedBy(c) \subseteq Tokens
      <4>1. CASE c.kind = "password"
        BY <4>1 DEF RevokedBy, Swept
      <4>2. CASE c.kind = "revoke"
        <5>1. c.target \in Tokens \cup {None} /\ family \in [Tokens -> Tokens \cup {None}]
          BY <1>b, CallTypes DEF BaseInv, TypeOK
        <5>2. c.target # None
          BY <1>b, <2>1, <4>2 DEF BaseInv, Shapes, CallShape
        <5> QED BY <4>2, <5>1, <5>2 DEF RevokedBy
      <4>3. CASE c.kind \notin {"password", "revoke"}
        BY <4>3 DEF RevokedBy
      <4> QED BY <4>1, <4>2, <4>3
    <3>3. c.kind = "password" => RevokedBy(c) = Swept(c)
      BY DEF RevokedBy
    <3> HIDE DEF c
    <3>4. Kept(c, good)
      BY <1>k, <1>t, <1>p, <2>1, <3>1, <3>2 DEF Kept
    <3>5. good \in Call /\ good.kind = c.kind /\ good.pc = "answered" /\ good.set = c.set
      BY <1>k, <1>t
    <3>6. c.kind \notin {"logout", "signOut"}
      BY <1>q, <2>1
    <3> HIDE DEF good
    <3>7. HandleEffect(s, good)
      BY <2>1, <2>2, <3>1, <3>3, <3>4, <3>5, <3>6 DEF HandleEffect, Step, c
    <3> QED BY <3>5, <3>7
  <2>3. CASE Step(s, bad) /\ trouble' = trouble \cup {"failed"} /\ UNCHANGED tokenVars
    <3> HIDE DEF c
    <3>1. Kept(c, bad) /\ bad \in Call /\ bad.kind = c.kind /\ ~bad.ok
          /\ bad.pc = "answered"
      BY <1>k, <1>t, <1>p, <2>1, <2>3 DEF Kept, tokenVars
    <3>2. c.kind \notin {"logout", "signOut"}
      BY <1>q, <2>1
    <3>3. HandleEffect(s, bad)
      BY <2>1, <2>3, <3>1, <3>2 DEF HandleEffect, Step, c
    <3> QED BY <3>1, <3>3
  <2> QED BY <1>1, <2>2, <2>3 DEF Serve
<1>2. CASE NothingToRefresh(s)
  <2> DEFINE d == Answer(c, FALSE, IF c.kind = "me" THEN c.set ELSE Clear)
  <2>1. /\ c.kind \in Proxied \cup {"me"} /\ c.pc # "answered" /\ Step(s, d)
        /\ UNCHANGED <<tokenVars, lapsed, jar, shown, at, told, trouble>>
    BY <1>2 DEF NothingToRefresh, Rejected
  <2>2. c.kind \notin SignOuts /\ c.kind \notin {"logout", "signOut"}
    BY <1>q, <2>1
  <2> HIDE DEF c
  <2>3. d \in Call /\ d.kind = c.kind /\ ~d.ok /\ d.pc = "answered" /\ Kept(c, d)
    BY <1>k, <1>t, <1>m, <2>1, <2>2 DEF Kept, tokenVars
  <2> HIDE DEF d
  <2>4. HandleEffect(s, d)
    BY <2>1, <2>2, <2>3 DEF HandleEffect, Step, c
  <2> QED BY <2>3, <2>4
<1>3. CASE Refreshed(s)
  <2> DEFINE again == [c EXCEPT !.access = NextToken, !.set = NextToken]
             other == [again EXCEPT !.pc = "retrying"]
             me == [again EXCEPT !.refresh = NextToken,
                                 !.pc = IF c.access = None THEN "sent" ELSE "retrying"]
             d == IF c.kind # "me" THEN other ELSE me
  <2>1. /\ c.kind \in Proxied \cup {"me"} /\ c.pc # "answered" /\ Step(s, d)
        /\ c.refresh \in Tokens /\ TokensLeft /\ Rotate(c.refresh, NextToken)
        /\ UNCHANGED <<lapsed, jar, shown, at, told, trouble>>
    BY <1>3, <1>t DEF Refreshed, Rejected
  <2>2. c.kind \notin {"logout", "signOut"}
    BY <1>q, <2>1
  <2>3. NextToken \in Tokens
    BY <2>1, NextIsFree DEF BaseInv
  <2>4. /\ other \in Call /\ other.kind = c.kind /\ other.set = NextToken
        /\ other.refresh = c.refresh /\ other.pc = "retrying"
        /\ other.target = c.target /\ me.target = c.target
        /\ me \in Call /\ me.kind = c.kind /\ me.set = NextToken
        /\ me.refresh = NextToken /\ me.pc \in {"sent", "retrying"}
    BY <1>t, <2>3, AgainShape
  <2> HIDE DEF c, other, me
  <2>5. d \in Call /\ d.kind = c.kind /\ d.target = c.target /\ d.pc # "answered"
        /\ Rotated(c, d)
    BY <2>1, <2>4 DEF Rotated
  <2> HIDE DEF d
  <2>6. HandleEffect(s, d)
    BY <2>1, <2>2, <2>5 DEF HandleEffect, Step, c
  <2> QED BY <2>5, <2>6
<1>4. CASE RefreshFailed(s)
  <2> DEFINE d == Answer(c, FALSE, Clear)
  <2>1. /\ c.kind \in Proxied \cup {"me"} /\ c.pc # "answered" /\ Step(s, d)
        /\ c.refresh \in Tokens
        /\ UNCHANGED <<lapsed, jar, shown, at, told>>
        /\ trouble' = trouble \/ trouble' = trouble \cup {"failed"}
        /\ UNCHANGED tokenVars \/ (TokensLeft /\ Rotate(c.refresh, NextToken))
    BY <1>4, <1>t DEF RefreshFailed, Rejected
  <2>2. c.kind \notin SignOuts /\ c.kind \notin {"logout", "signOut"}
    BY <1>q, <2>1
  <2> HIDE DEF c
  <2>3. d \in Call /\ d.kind = c.kind /\ ~d.ok
        /\ d.pc = "answered" /\ d.refresh = None /\ d.set = Clear
    BY <1>k, <1>m
  <2>4. Kept(c, d) \/ Rotated(c, d)
    BY <1>t, <2>1, <2>2, <2>3 DEF Kept, Rotated, tokenVars
  <2> HIDE DEF d
  <2>5. HandleEffect(s, d)
    BY <2>1, <2>2, <2>3, <2>4 DEF HandleEffect, Step, c
  <2> QED BY <2>3, <2>5
<1>5. CASE RefusedAgain(s)
  <2> DEFINE d == Answer(c, FALSE, c.set)
  <2>1. /\ c.kind \in Proxied \cup {"me"} /\ c.pc # "answered" /\ Step(s, d)
        /\ UNCHANGED <<tokenVars, lapsed, jar, shown, at, told, trouble>>
    BY <1>5, <1>h DEF RefusedAgain
  <2>2. c.kind \notin SignOuts /\ c.kind \notin {"logout", "signOut"}
    BY <1>q, <2>1
  <2> HIDE DEF c
  <2>3. d \in Call /\ d.kind = c.kind /\ ~d.ok /\ d.pc = "answered" /\ Kept(c, d)
    BY <1>k, <1>t, <2>1, <2>2 DEF Kept, tokenVars
  <2> HIDE DEF d
  <2>4. HandleEffect(s, d)
    BY <2>1, <2>2, <2>3 DEF HandleEffect, Step, c
  <2> QED BY <2>3, <2>4
<1>6. CASE ServeLogin(s)
  <2> DEFINE good == Answer(c, TRUE, NextToken)
             bad == Answer(c, FALSE, Keep)
  <2>1. /\ c.kind = "login" /\ c.pc # "answered" /\ c.set = Keep
        /\ UNCHANGED <<lapsed, jar, shown, at, told, trouble>>
        /\ \/ TokensLeft /\ Issue(NextToken) /\ Step(s, good)
           \/ UNCHANGED tokenVars /\ Step(s, bad)
    BY <1>6, <1>h DEF ServeLogin
  <2>2. c.kind \notin SignOuts /\ c.kind \notin {"logout", "signOut", "password"}
    BY <1>p, <2>1
  <2>3. TokensLeft => NextToken \in Tokens
    BY NextIsFree DEF BaseInv
  <2> HIDE DEF c
  <2>4. CASE TokensLeft /\ Issue(NextToken) /\ Step(s, good)
    <3>1. good \in Call /\ good.kind = c.kind /\ good.pc = "answered" /\ Issued(c, good)
      BY <1>k, <2>1, <2>3, <2>4 DEF Issued
    <3> HIDE DEF good
    <3>2. HandleEffect(s, good)
      BY <2>1, <2>2, <2>4, <3>1 DEF HandleEffect, Step, c
    <3> QED BY <3>1, <3>2
  <2>5. CASE UNCHANGED tokenVars /\ Step(s, bad)
    <3>1. bad \in Call /\ bad.kind = c.kind /\ bad.pc = "answered" /\ Kept(c, bad)
      BY <1>k, <1>m, <1>t, <2>1, <2>2, <2>5 DEF Kept, tokenVars
    <3> HIDE DEF bad
    <3>2. HandleEffect(s, bad)
      BY <2>1, <2>2, <2>5, <3>1 DEF HandleEffect, Step, c
    <3> QED BY <3>1, <3>2
  <2> QED BY <2>1, <2>4, <2>5
<1>7. CASE ServeSignOut(s)
  <2> DEFINE d == Answer(c, TRUE, Clear)
  <2>1. /\ c.kind \in SignOuts /\ c.pc # "answered" /\ Step(s, d)
        /\ UNCHANGED <<lapsed, jar, shown, at, told>>
        /\ \/ Revoke(SignedOut(c)) /\ UNCHANGED trouble
           \/ UNCHANGED tokenVars /\ trouble' = trouble \cup {"failed"}
    BY <1>7 DEF ServeSignOut
  <2>2. c.kind # "password"
    BY <1>p, <2>1
  <2>3. SignedOut(c) \subseteq Tokens
    BY <1>t DEF SignedOut
  <2> HIDE DEF c
  <2>4. /\ UNCHANGED <<family, used>> /\ revoked \subseteq revoked' /\ revoked' \subseteq Tokens
        /\ trouble' = trouble \/ trouble' = trouble \cup {"failed"}
        /\ "failed" \notin trouble' => revoked' = revoked \cup SignedOut(c)
    BY <1>t, <2>1, <2>3 DEF Revoke, tokenVars
  <2>5. d \in Call /\ d.kind = c.kind /\ d.pc = "answered" /\ Kept(c, d)
    BY <1>k, <1>m, <2>4 DEF Kept
  <2> HIDE DEF d
  <2>6. HandleEffect(s, d)
    BY <2>1, <2>2, <2>4, <2>5 DEF HandleEffect, Step, c
  <2> QED BY <2>5, <2>6
<1> QED BY <1>1, <1>2, <1>3, <1>4, <1>5, <1>6, <1>7 DEF Handle

-----------------------------------------------------------------------------
(* What the other steps do                                                 *)

PageTypes ==
  /\ lapsed \in 0..MaxTokens /\ shown \in [Tabs -> BOOLEAN]
  /\ at \in [Tabs -> Pages] /\ told \subseteq Tabs

(* A request is sent with the cookies of the jar.                          *)
SendEffect(s, d) ==
  /\ ~Busy(s) /\ calls' = [calls EXCEPT ![s] = d]
  /\ UNCHANGED <<tokenVars, jar>>
  /\ d.pc = "sent" /\ d.set = Keep /\ d.refresh = jar.refresh
  /\ d.kind = "revoke" => d.target # None
  /\ trouble' = IF \E q \in Slots : Busy(q) THEN trouble \cup {"overlap"}
                ELSE trouble \cap {"lost"}

(* A response is taken or lost, and the page may go on with another call.  *)
TakeEffect(s, d) ==
  /\ Busy(s) /\ calls[s].pc = "answered" /\ calls' = [calls EXCEPT ![s] = d]
  /\ UNCHANGED tokenVars
  /\ \/ jar' = SetCookies(jar, calls[s].set) /\ trouble' = trouble
     \/ jar' = jar /\ trouble' = trouble \cup {"lost"}
  /\ d # Idle =>
       d \in Call /\ d.kind = "me" /\ d.pc = "sent" /\ d.set = Keep /\ d.refresh = jar'.refresh

(* Nothing that matters to the refresh token happens.                      *)
OtherEffect ==
  /\ UNCHANGED <<tokenVars, calls, trouble>>
  /\ jar' \in Cookies /\ jar'.refresh = jar.refresh

LEMMA SendShape ==
  ASSUME BaseInv, NEW s \in Slots, NEW b \in Tabs, NEW kind \in Kinds,
         NEW target \in Tokens \cup {None}, NEW goTo \in Pages \cup {"stay"},
         Send(s, NewCall(jar, kind, b, target, goTo)), kind = "revoke" => target # None,
         UNCHANGED <<tokenVars, jar>>
  PROVE  \E d \in Call : SendEffect(s, d)
<1> DEFINE d == NewCall(jar, kind, b, target, goTo)
<1>1. jar \in Cookies
  BY DEF BaseInv, TypeOK, Cookies
<1>2. /\ d \in Call /\ d.kind = kind /\ d.pc = "sent" /\ d.refresh = jar.refresh
      /\ d.set = Keep
  BY <1>1, NewCallShape
<1>3. d.target = target
  BY DEF NewCall
<1> HIDE DEF d
<1>4. Send(s, d)
  BY DEF d
<1>5. SendEffect(s, d)
  BY <1>2, <1>3, <1>4 DEF Send, SendEffect
<1> QED BY <1>2, <1>5

LEMMA SendSteps ==
  ASSUME BaseInv, NEW s \in Slots, NEW b \in Tabs,
         \/ SendApi(s, b) \/ SendLogin(s, b)
         \/ \E path \in Pages : Load(s, b, path)
         \/ \E kind \in Kinds : SendFromMenu(s, b, kind)
         \/ \E t \in Tokens, isCurrent \in BOOLEAN : SendRevoke(s, b, t, isCurrent)
  PROVE  PageTypes' /\ \E d \in Call : SendEffect(s, d)
<1>k. /\ "api" \in Kinds /\ "login" \in Kinds /\ "me" \in Kinds /\ "revoke" \in Kinds
      /\ "stay" \in Pages \cup {"stay"} /\ "login" \in Pages \cup {"stay"}
      /\ None \in Tokens \cup {None}
  BY DEF Kinds, Proxied, Pages
<1>t. PageTypes
  BY DEF BaseInv, TypeOK, PageTypes
<1>1. CASE SendApi(s, b)
  <2>1. Send(s, NewCall(jar, "api", b, None, "stay")) /\ UNCHANGED <<tokenVars, jar>>
        /\ UNCHANGED <<lapsed, shown, at, told>>
    BY <1>1 DEF SendApi
  <2> QED BY <2>1, <1>k, <1>t, SendShape DEF PageTypes
<1>2. CASE SendLogin(s, b)
  <2>1. Send(s, NewCall(jar, "login", b, None, "stay")) /\ UNCHANGED <<tokenVars, jar>>
        /\ UNCHANGED <<lapsed, shown, at, told>>
    BY <1>2 DEF SendLogin
  <2> QED BY <2>1, <1>k, <1>t, SendShape DEF PageTypes
<1>3. ASSUME NEW path \in Pages, Load(s, b, path)
      PROVE  PageTypes' /\ \E d \in Call : SendEffect(s, d)
  <2>1. /\ at' = [at EXCEPT ![b] = Routed(path, jar)] /\ shown' = [shown EXCEPT ![b] = FALSE]
        /\ told' = told \ {b} /\ UNCHANGED <<tokenVars, jar>> /\ lapsed' = lapsed
        /\ Send(s, NewCall(jar, "me", b, None, "stay"))
    BY <1>3 DEF Load, Me
  <2>2. Routed(path, jar) \in Pages
    BY RoutedShape
  <2>3. PageTypes'
    BY <1>t, <2>1, <2>2 DEF PageTypes
  <2> QED BY <2>1, <2>3, <1>k, SendShape
<1>4. ASSUME NEW kind \in Kinds, SendFromMenu(s, b, kind)
      PROVE  PageTypes' /\ \E d \in Call : SendEffect(s, d)
  <2>1. Send(s, NewCall(jar, kind, b, None, "stay")) /\ UNCHANGED <<tokenVars, jar>>
        /\ UNCHANGED <<lapsed, shown, at, told>> /\ kind # "revoke"
    BY <1>4 DEF SendFromMenu, SignOuts
  <2> QED BY <2>1, <1>k, <1>t, SendShape DEF PageTypes
<1>5. ASSUME NEW t \in Tokens, NEW isCurrent \in BOOLEAN, SendRevoke(s, b, t, isCurrent)
      PROVE  PageTypes' /\ \E d \in Call : SendEffect(s, d)
  <2> DEFINE goTo == IF isCurrent THEN "login" ELSE "stay"
  <2>1. Send(s, NewCall(jar, "revoke", b, t, goTo)) /\ UNCHANGED <<tokenVars, jar>>
        /\ UNCHANGED <<lapsed, shown, at, told>>
    BY <1>5 DEF SendRevoke
  <2>2. goTo \in Pages \cup {"stay"} /\ t # None /\ t \in Tokens \cup {None}
    BY <1>k, Marks
  <2> HIDE DEF goTo
  <2>3. \E d \in Call : SendEffect(s, d)
    BY <2>1, <2>2, <1>k, SendShape
  <2> QED BY <2>1, <2>3, <1>t DEF PageTypes
<1> QED BY <1>1, <1>2, <1>3, <1>4, <1>5

LEMMA TakeShape ==
  ASSUME BaseInv, NEW s \in Slots, Busy(s), NEW ok \in BOOLEAN, NEW j \in Cookies,
         Take(s, ok, j)
  PROVE  /\ PageTypes' /\ calls[s].pc = "answered" /\ UNCHANGED tokenVars /\ jar' = j
         /\ \E d \in {Idle} \cup Call :
              /\ calls' = [calls EXCEPT ![s] = d]
              /\ d # Idle =>
                   /\ d.kind = "me" /\ d.pc = "sent" /\ d.set = Keep
                   /\ d.refresh = j.refresh
<1> DEFINE c == calls[s]
<1>t. PageTypes
  BY DEF BaseInv, TypeOK, PageTypes
<1>c. c.tab \in Tabs /\ c.goTo \in Pages \cup {"stay"}
  BY CallTypes DEF BaseInv
<1>m. \A goTo \in Pages :
        LET d == Me(j, c.tab, goTo)
        IN  d \in Call /\ d.kind = "me" /\ d.pc = "sent" /\ d.set = Keep /\ d.refresh = j.refresh
  <2>1. "me" \in Kinds /\ None \in Tokens \cup {None}
    BY DEF Kinds
  <2> QED BY <1>c, <2>1, NewCallShape DEF Me
<1>1. c.pc = "answered" /\ UNCHANGED <<tokenVars, lapsed>> /\ jar' = j
  BY DEF Take
<1>2. CASE TakeUser(s, c, ok, j)
  <2>1. c.goTo # "stay" => Routed(c.goTo, j) \in Pages
    BY <1>c, RoutedShape
  <2> HIDE DEF c
  <2>2. PageTypes'
    BY <1>t, <1>c, <1>1, <1>2, <2>1 DEF PageTypes, TakeUser
  <2> QED BY <1>1, <1>2, <2>2 DEF TakeUser, c
<1>3. CASE TakeLogout(s, c, j)
  <2>1. Routed("login", j) \in Pages
    BY RoutedShape DEF Pages
  <2> HIDE DEF c
  <2>2. PageTypes'
    BY <1>t, <1>c, <1>1, <1>3, <2>1 DEF PageTypes, TakeLogout
  <2> QED BY <1>1, <1>3, <2>2 DEF TakeLogout, c
<1>4. CASE TakeOther(s, c, ok, j)
  <2>1. FollowUp(c, ok, j) = Idle \/ \E goTo \in Pages : FollowUp(c, ok, j) = Me(j, c.tab, goTo)
    <3> HIDE DEF c
    <3> QED BY DEF FollowUp, Pages
  <2>2. PageTypes'
    BY <1>t, <1>1, <1>4 DEF PageTypes, TakeOther
  <2>3. calls' = [calls EXCEPT ![s] = FollowUp(c, ok, j)]
    BY <1>4 DEF TakeOther
  <2>4. PICK d : d = FollowUp(c, ok, j)
    OBVIOUS
  <2>5. d = Idle \/ (d \in Call /\ d.kind = "me" /\ d.pc = "sent" /\ d.set = Keep
                     /\ d.refresh = j.refresh)
    BY <1>m, <2>1, <2>4
  <2> HIDE DEF c
  <2> QED BY <1>1, <2>2, <2>3, <2>4, <2>5 DEF c
<1> QED BY <1>2, <1>3, <1>4 DEF Take

LEMMA TakeSteps ==
  ASSUME BaseInv, NEW s \in Slots, Deliver(s) \/ Lose(s)
  PROVE  PageTypes' /\ jar' \in Cookies /\ \E d \in {Idle} \cup Call : TakeEffect(s, d)
<1>b. Busy(s)
  BY DEF Deliver, Lose
<1>1. jar \in Cookies /\ calls[s].set \in Tokens \cup {Clear, Keep} /\ calls[s].ok \in BOOLEAN
  BY <1>b, CallTypes DEF BaseInv, TypeOK, Cookies
<1>2. SetCookies(jar, calls[s].set) \in Cookies
  BY <1>1, SetCookiesShape
<1>3. CASE Deliver(s)
  <2>1. Take(s, calls[s].ok, SetCookies(jar, calls[s].set)) /\ trouble' = trouble
    BY <1>3 DEF Deliver
  <2>2. PICK j \in Cookies : j = SetCookies(jar, calls[s].set)
    BY <1>2
  <2>3. Take(s, calls[s].ok, j)
    BY <2>1, <2>2
  <2>4. /\ PageTypes' /\ calls[s].pc = "answered" /\ UNCHANGED tokenVars /\ jar' = j
        /\ \E d \in {Idle} \cup Call :
              /\ calls' = [calls EXCEPT ![s] = d]
              /\ d # Idle =>
                   /\ d.kind = "me" /\ d.pc = "sent" /\ d.set = Keep
                   /\ d.refresh = j.refresh
    BY <1>b, <1>1, <2>3, TakeShape
  <2>5. PICK d \in {Idle} \cup Call :
          /\ calls' = [calls EXCEPT ![s] = d]
          /\ d # Idle => d.kind = "me" /\ d.pc = "sent" /\ d.set = Keep /\ d.refresh = j.refresh
    BY <2>4
  <2>6. TakeEffect(s, d)
    BY <1>b, <2>1, <2>2, <2>4, <2>5 DEF TakeEffect
  <2> QED BY <2>4, <2>6
<1>4. CASE Lose(s)
  <2>1. Take(s, FALSE, jar) /\ trouble' = trouble \cup {"lost"}
    BY <1>4 DEF Lose
  <2>2. PICK j \in Cookies : j = jar
    BY <1>1
  <2>3. Take(s, FALSE, j) /\ FALSE \in BOOLEAN
    BY <2>1, <2>2
  <2>4. /\ PageTypes' /\ calls[s].pc = "answered" /\ UNCHANGED tokenVars /\ jar' = j
        /\ \E d \in {Idle} \cup Call :
              /\ calls' = [calls EXCEPT ![s] = d]
              /\ d # Idle =>
                   /\ d.kind = "me" /\ d.pc = "sent" /\ d.set = Keep
                   /\ d.refresh = j.refresh
    BY <1>b, <2>3, TakeShape
  <2>5. PICK d \in {Idle} \cup Call :
          /\ calls' = [calls EXCEPT ![s] = d]
          /\ d # Idle => d.kind = "me" /\ d.pc = "sent" /\ d.set = Keep /\ d.refresh = j.refresh
    BY <2>4
  <2>6. TakeEffect(s, d)
    BY <1>b, <2>1, <2>2, <2>4, <2>5 DEF TakeEffect
  <2> QED BY <2>4, <2>6
<1> QED BY <1>3, <1>4

LEMMA OtherSteps ==
  ASSUME BaseInv,
         Lapse \/ DropAccessCookie \/ (\E b \in Tabs : HearLogout(b)) \/ UNCHANGED vars
  PROVE  PageTypes' /\ OtherEffect
<1>t. PageTypes /\ jar \in Cookies
  BY DEF BaseInv, TypeOK, PageTypes, Cookies
<1>1. CASE Lapse
  BY <1>t, <1>1, SessionAssumption DEF Lapse, PageTypes, OtherEffect
<1>2. CASE DropAccessCookie
  BY <1>t, <1>2 DEF DropAccessCookie, PageTypes, OtherEffect, Cookies
<1>3. ASSUME NEW b \in Tabs, HearLogout(b) PROVE PageTypes' /\ OtherEffect
  <2>1. Routed("login", jar) \in Pages
    BY RoutedShape DEF Pages
  <2> QED BY <1>t, <1>3, <2>1 DEF HearLogout, PageTypes, OtherEffect
<1>4. CASE UNCHANGED vars
  BY <1>t, <1>4 DEF vars, sessionVars, PageTypes, OtherEffect
<1> QED BY <1>1, <1>2, <1>3, <1>4

-----------------------------------------------------------------------------
(* Each kind of step keeps the invariant.                                  *)

LEMMA CallsNext ==
  ASSUME TypeOK, NEW s \in Slots, NEW d \in {Idle} \cup Call,
         calls' = [calls EXCEPT ![s] = d]
  PROVE  /\ calls' \in [Slots -> {Idle} \cup Call]
         /\ calls'[s] = d /\ (Busy(s)' <=> d # Idle)
         /\ \A q \in Slots : q # s => calls'[q] = calls[q] /\ (Busy(q)' <=> Busy(q))
BY DEF TypeOK, Busy

LEMMA TypeNext ==
  ASSUME PageTypes', jar' \in Cookies, calls' \in [Slots -> {Idle} \cup Call],
         family' \in [Tokens -> Tokens \cup {None}], used' \subseteq Tokens,
         revoked' \subseteq Tokens, trouble' \subseteq {"overlap", "lost", "failed"}
  PROVE  TypeOK'
BY DEF TypeOK, PageTypes, Cookies

LEMMA TokensStay ==
  ASSUME BaseInv, UNCHANGED tokenVars
  PROVE  /\ InOrder' /\ FamilyInv'
         /\ family' \in [Tokens -> Tokens \cup {None}] /\ used' \subseteq Tokens
         /\ revoked' \subseteq Tokens
         /\ \A t : (Committed(t)' <=> Committed(t)) /\ (Live(t)' <=> Live(t))
BY DEF BaseInv, TypeOK, tokenVars, InOrder, FamilyInv, Committed, Live

LEMMA OtherKeeps ==
  ASSUME SessionIInv, PageTypes', OtherEffect
  PROVE  SessionIInv'
<1>1. BaseInv /\ UNCHANGED <<tokenVars, calls, trouble>> /\ jar'.refresh = jar.refresh
      /\ jar \in Cookies /\ jar' \in Cookies
  BY DEF SessionIInv, BaseInv, TypeOK, Cookies, OtherEffect
<1>2. /\ InOrder' /\ FamilyInv'
      /\ family' \in [Tokens -> Tokens \cup {None}] /\ used' \subseteq Tokens
      /\ revoked' \subseteq Tokens
      /\ \A t : (Committed(t)' <=> Committed(t)) /\ (Live(t)' <=> Live(t))
  BY <1>1, TokensStay
<1>3. /\ calls' = calls /\ used' = used /\ revoked' = revoked /\ trouble' = trouble
      /\ \A s \in Slots : Busy(s)' <=> Busy(s)
  BY <1>1 DEF tokenVars, Busy
<1>4. TypeOK'
  BY <1>1, <1>2, <1>3, TypeNext DEF BaseInv, TypeOK
<1>5. Known' /\ Shapes' /\ Fresh' /\ Carried' /\ Alone'
  BY <1>1, <1>2, <1>3 DEF SessionIInv, BaseInv, Known, Shapes, CallShape, Fresh, Carried, Alone
<1>6. Ended'
  BY <1>1, <1>3 DEF SessionIInv, Ended
<1>7. \A s \in Slots : Busy(s) =>
        SetCookies(jar', calls[s].set).refresh = SetCookies(jar, calls[s].set).refresh
  <2>1. \A s \in Slots : Busy(s) => calls[s].set \in Tokens \cup {Clear, Keep}
    BY <1>1, CallTypes DEF BaseInv
  <2> QED BY <1>1, <2>1, SetCookiesShape
<1>8. Swapped'
  BY <1>2, <1>3, <1>7 DEF SessionIInv, Swapped
<1> QED BY <1>2, <1>4, <1>5, <1>6, <1>8 DEF SessionIInv, BaseInv

LEMMA SendKeeps ==
  ASSUME SessionIInv, PageTypes', NEW s \in Slots, NEW d \in Call, SendEffect(s, d)
  PROVE  SessionIInv'
<1>1. /\ BaseInv /\ UNCHANGED tokenVars /\ jar' = jar /\ jar \in Cookies
      /\ used' = used /\ revoked' = revoked
  BY DEF SessionIInv, BaseInv, TypeOK, Cookies, SendEffect, tokenVars
<1>2. /\ InOrder' /\ FamilyInv'
      /\ family' \in [Tokens -> Tokens \cup {None}] /\ used' \subseteq Tokens
      /\ revoked' \subseteq Tokens
      /\ \A t : (Committed(t)' <=> Committed(t)) /\ (Live(t)' <=> Live(t))
  BY <1>1, TokensStay
<1>3. /\ calls' \in [Slots -> {Idle} \cup Call]
      /\ calls'[s] = d /\ Busy(s)' /\ ~Busy(s)
      /\ \A q \in Slots : q # s => calls'[q] = calls[q] /\ (Busy(q)' <=> Busy(q))
  BY <1>1, CallsNext, CallsAreBusy DEF BaseInv, SendEffect
<1>4. /\ trouble' \subseteq {"overlap", "lost", "failed"}
      /\ "lost" \in trouble' <=> "lost" \in trouble
      /\ "overlap" \notin trouble' => \A q \in Slots : ~Busy(q)
  BY <1>1 DEF SendEffect, BaseInv, TypeOK
<1>5. d.pc = "sent" /\ d.set = Keep /\ d.refresh = jar.refresh
      /\ (d.kind = "revoke" => d.target # None)
  BY DEF SendEffect
<1>6. TypeOK'
  BY <1>1, <1>2, <1>3, <1>4, TypeNext
<1>7. Known'
  BY <1>1, <1>2, <1>3, <1>5 DEF BaseInv, Known
<1>8. Shapes'
  <2>1. ASSUME NEW q \in Slots, Busy(q)', q # s
        PROVE  CallShape(calls'[q], used')
    BY <1>1, <1>3, <2>1 DEF BaseInv, Shapes, CallShape
  <2> QED BY <1>3, <1>5, <2>1 DEF Shapes, CallShape
<1>9. Fresh'
  BY <1>1, <1>2, <1>3, <1>5, Marks DEF SessionIInv, Fresh
<1>10. Carried'
  BY <1>1, <1>3, <1>4 DEF SessionIInv, Carried
<1>11. Alone'
  BY <1>1, <1>3, <1>4, <1>5 DEF Alone
<1>12. Ended' /\ Swapped'
  BY <1>3, <1>4, <1>5 DEF Ended, Swapped
<1> QED
  BY <1>2, <1>6, <1>7, <1>8, <1>9, <1>10, <1>11, <1>12 DEF SessionIInv, BaseInv

LEMMA TakeKeeps ==
  ASSUME SessionIInv, PageTypes', jar' \in Cookies,
         NEW s \in Slots, NEW d \in {Idle} \cup Call, TakeEffect(s, d)
  PROVE  SessionIInv'
<1> DEFINE c == calls[s]
<1>1. /\ BaseInv /\ UNCHANGED tokenVars /\ jar \in Cookies /\ Busy(s)
      /\ used' = used /\ revoked' = revoked
  BY DEF SessionIInv, BaseInv, TypeOK, Cookies, TakeEffect, tokenVars
<1>2. /\ InOrder' /\ FamilyInv'
      /\ family' \in [Tokens -> Tokens \cup {None}] /\ used' \subseteq Tokens
      /\ revoked' \subseteq Tokens
      /\ \A t : (Committed(t)' <=> Committed(t)) /\ (Live(t)' <=> Live(t))
  BY <1>1, TokensStay
<1>3. /\ calls' \in [Slots -> {Idle} \cup Call]
      /\ calls'[s] = d /\ (Busy(s)' <=> d # Idle)
      /\ \A q \in Slots : q # s => calls'[q] = calls[q] /\ (Busy(q)' <=> Busy(q))
  BY <1>1, CallsNext DEF BaseInv, TakeEffect
<1>4. /\ trouble \subseteq trouble' /\ trouble' \subseteq {"overlap", "lost", "failed"}
      /\ "overlap" \in trouble' <=> "overlap" \in trouble
  BY <1>1 DEF TakeEffect, BaseInv, TypeOK
<1>5. d # Idle => /\ d.kind = "me" /\ d.pc = "sent" /\ d.set = Keep
                  /\ d.refresh = jar'.refresh
  BY DEF TakeEffect
<1>s. c.set \in Tokens \cup {Clear, Keep}
  BY <1>1, CallTypes DEF BaseInv
<1>j. \/ jar'.refresh = jar.refresh /\ (c.set = Keep \/ "lost" \in trouble')
      \/ jar'.refresh = c.set /\ c.set \in Tokens \cup {None}
  <2>1. CASE jar' = SetCookies(jar, c.set)
    <3>1. jar'.refresh = IF c.set = Keep THEN jar.refresh ELSE c.set
      BY <1>1, <1>s, <2>1, SetCookiesShape
    <3> QED BY <1>s, <3>1, Marks
  <2>2. CASE jar' = jar /\ trouble' = trouble \cup {"lost"}
    BY <2>2
  <2> QED BY <2>1, <2>2 DEF TakeEffect
<1> HIDE DEF c
<1>6. TypeOK'
  BY <1>1, <1>2, <1>3, <1>4, TypeNext
<1>f. c.set \in Tokens => /\ Committed(c.set) /\ c.set \notin used /\ c.set # jar.refresh
                          /\ \A q \in Slots : q # s /\ Busy(q) =>
                               calls[q].set # c.set /\ calls[q].refresh # c.set
  BY <1>1 DEF SessionIInv, Fresh, c
<1>7. jar'.refresh # None => Committed(jar'.refresh)
  BY <1>1, <1>j, <1>f DEF BaseInv, Known
<1>8. Known'
  <2>1. (jar.refresh # None => Committed(jar.refresh))'
    BY <1>2, <1>7
  <2> QED BY <1>1, <1>2, <1>3, <1>5, <2>1 DEF BaseInv, Known
<1>9. Shapes'
  <2>1. ASSUME NEW q \in Slots, Busy(q)', q # s
        PROVE  CallShape(calls'[q], used')
    BY <1>1, <1>3, <2>1 DEF BaseInv, Shapes, CallShape
  <2> QED BY <1>3, <1>5, <2>1 DEF Shapes, CallShape
<1>10. Fresh'
  <2>1. ASSUME NEW q \in Slots, Busy(q)', calls'[q].set \in Tokens
        PROVE  /\ q # s /\ Busy(q) /\ calls'[q] = calls[q]
               /\ Committed(calls[q].set) /\ calls[q].set \notin used
               /\ calls[q].set # jar.refresh /\ calls[q].set # c.set
               /\ \A r \in Slots : r # q /\ Busy(r) =>
                    calls[r].set # calls[q].set /\ calls[r].refresh # calls[q].set
    BY <1>1, <1>3, <1>5, <2>1, Marks DEF SessionIInv, Fresh, c
  <2>2. ASSUME NEW q \in Slots, Busy(q)', calls'[q].set \in Tokens
        PROVE  calls'[q].set # jar'.refresh
    BY <1>j, <2>1, <2>2
  <2>3. ASSUME NEW q \in Slots, Busy(q)', calls'[q].set \in Tokens,
               NEW r \in Slots, r # q, Busy(r)'
        PROVE  calls'[r].set # calls'[q].set /\ calls'[r].refresh # calls'[q].set
    BY <1>3, <1>5, <2>1, <2>2, <2>3, Marks
  <2>4. ASSUME NEW q \in Slots, Busy(q)', calls'[q].set \in Tokens
        PROVE  Committed(calls[q].set)' /\ calls'[q].set \notin used'
    <3>1. calls'[q].set \in Tokens /\ Committed(calls[q].set) /\ calls[q].set = calls'[q].set
      BY <2>1, <2>4
    <3>2. family'[calls'[q].set] # None
      BY <1>2, <3>1 DEF Committed
    <3> QED BY <1>1, <2>1, <2>4, <3>2 DEF Committed
  <2> QED BY <2>2, <2>3, <2>4 DEF Fresh
<1>11. Carried'
  <2> SUFFICES ASSUME "lost" \notin trouble', jar'.refresh \in used
               PROVE  \E q \in Slots : Busy(q)' /\ calls'[q].set # Keep
    BY <1>1 DEF Carried
  <2>1. None \notin used
    BY <1>1, Marks DEF BaseInv, TypeOK
  <2>2. jar'.refresh = jar.refresh /\ c.set = Keep
    BY <1>j, <1>f, <2>1
  <2>3. PICK q \in Slots : Busy(q) /\ calls[q].set # Keep
    BY <1>4, <2>2 DEF SessionIInv, Carried
  <2>4. q # s
    BY <2>2, <2>3 DEF c
  <2> QED BY <1>3, <2>3, <2>4
<1>12. "overlap" \notin trouble' => \A q \in Slots : Busy(q)' => q = s
  BY <1>1, <1>3, <1>4 DEF SessionIInv, Alone
<1>13. Alone'
  BY <1>3, <1>5, <1>12 DEF Alone
<1>14. Ended' /\ Swapped'
  <2>1. "overlap" \notin trouble' =>
          \A q \in Slots : Busy(q)' => calls'[q].pc # "answered"
    BY <1>3, <1>5, <1>12
  <2>2. Ended'
    BY <2>1 DEF Ended
  <2>3. Swapped'
    BY <2>1 DEF Swapped
  <2> QED BY <2>2, <2>3
<1> QED
  BY <1>2, <1>6, <1>8, <1>9, <1>10, <1>11, <1>13, <1>14 DEF SessionIInv, BaseInv

(* What a handler does to the tokens keeps what is said of them.           *)
LEMMA HandleTokens ==
  ASSUME BaseInv, NEW s \in Slots, NEW d \in Call, Busy(s), HandleEffect(s, d)
  PROVE  /\ InOrder' /\ FamilyInv' /\ family' \in [Tokens -> Tokens \cup {None}]
         /\ used' \subseteq Tokens /\ revoked' \subseteq Tokens
         /\ \A t \in Tokens : Committed(t) => Committed(t)'
         /\ \A t \in used' \ used : t = calls[s].refresh /\ d.set # Keep
         /\ used \subseteq used'
         (* the response's pair is the one it had, or a new one            *)
         /\ \/ d.set \in {Clear, Keep}
            \/ d.set = calls[s].set /\ UNCHANGED used
            \/ d.set \in Tokens /\ ~Committed(d.set) /\ Committed(d.set)'
         /\ \/ d.refresh \in {None, calls[s].refresh}
            \/ d.refresh = d.set
         /\ calls[s].set # Keep => d.set # Keep
<1> DEFINE c == calls[s]
<1>1. /\ TypeOK /\ InOrder /\ FamilyInv
      /\ c.set \in Tokens \cup {Clear, Keep} /\ c.refresh \in Tokens \cup {None}
  BY CallTypes DEF BaseInv
<1>2. CASE Kept(c, d)
  <2>1. UNCHANGED <<family, used>> /\ revoked' \subseteq Tokens /\ d.refresh = None
        /\ d.set \in {c.set, Clear}
    BY <1>2 DEF Kept
  <2>2. InOrder' /\ FamilyInv' /\ \A t : Committed(t)' <=> Committed(t)
    BY <1>1, <2>1 DEF InOrder, FamilyInv, Committed
  <2>3. family' \in [Tokens -> Tokens \cup {None}] /\ used' \subseteq Tokens
    BY <1>1, <2>1 DEF TypeOK
  <2> QED BY <1>1, <2>1, <2>2, <2>3, Marks
<1>3. CASE Rotated(c, d)
  <2>1. /\ TokensLeft /\ c.refresh \in Tokens /\ Rotate(c.refresh, NextToken)
        /\ \/ d.refresh = None /\ d.set = Clear
           \/ d.refresh = c.refresh /\ d.set = NextToken
           \/ d.refresh = NextToken /\ d.set = NextToken
    BY <1>3 DEF Rotated
  <2>2. NextToken \in Tokens /\ ~Committed(NextToken)
    BY <1>1, <2>1, NextIsFree
  <2>3. /\ InOrder' /\ FamilyInv' /\ family' \in [Tokens -> Tokens \cup {None}]
        /\ \A u \in Tokens : Committed(u)' <=> Committed(u) \/ u = NextToken
        /\ used' = used \cup {c.refresh} /\ revoked' = revoked
    <3>1. PICK t \in Tokens : t = c.refresh
      BY <2>1
    <3>2. Rotate(t, NextToken)
      BY <2>1, <3>1
    <3> QED BY <1>1, <2>1, <3>1, <3>2, RotateKeeps
  <2>4. PICK n \in Tokens : n = NextToken
    BY <2>2
  <2>5. ~Committed(n) /\ Committed(n)'
    <3>1. family'[n] # None
      BY <2>3, <2>4 DEF Committed
    <3> QED BY <2>2, <2>4, <3>1 DEF Committed
  <2>6. d.set # Keep /\ (d.set = Clear \/ d.set = n)
    BY <2>1, <2>4, Marks
  <2>7. \/ d.set \in {Clear, Keep}
        \/ d.set \in Tokens /\ ~Committed(d.set) /\ Committed(d.set)'
    BY <2>5, <2>6
  <2>8. used' \subseteq Tokens /\ revoked' \subseteq Tokens
    BY <1>1, <2>1, <2>3 DEF TypeOK
  <2>9. d.refresh \in {None, c.refresh} \/ d.refresh = d.set
    BY <2>1
  <2> QED BY <2>3, <2>6, <2>7, <2>8, <2>9
<1>4. CASE Issued(c, d)
  <2>1. /\ TokensLeft /\ Issue(NextToken) /\ d.refresh = None /\ d.set = NextToken
    BY <1>4 DEF Issued
  <2>2. NextToken \in Tokens /\ ~Committed(NextToken)
    BY <1>1, <2>1, NextIsFree
  <2>3. /\ InOrder' /\ FamilyInv' /\ family' \in [Tokens -> Tokens \cup {None}]
        /\ \A t \in Tokens : Committed(t)' <=> Committed(t) \/ t = NextToken
        /\ UNCHANGED <<used, revoked>>
    BY <1>1, <2>1, IssueKeeps
  <2>4. PICK n \in Tokens : n = NextToken
    BY <2>2
  <2>5. ~Committed(n) /\ Committed(n)'
    <3>1. family'[n] # None
      BY <2>3, <2>4 DEF Committed
    <3> QED BY <2>2, <2>4, <3>1 DEF Committed
  <2>6. d.set = n /\ d.set # Keep
    BY <2>1, <2>4, Marks
  <2>7. d.set \in Tokens /\ ~Committed(d.set) /\ Committed(d.set)'
    BY <2>5, <2>6
  <2>8. used' \subseteq Tokens /\ revoked' \subseteq Tokens
    BY <1>1, <2>3 DEF TypeOK
  <2> QED BY <2>1, <2>3, <2>6, <2>7, <2>8
<1> QED BY <1>2, <1>3, <1>4 DEF HandleEffect

LEMMA HandleShapes ==
  ASSUME BaseInv, NEW s \in Slots, NEW d \in Call, Busy(s), HandleEffect(s, d)
  PROVE  /\ d.pc = "sent" /\ d.kind # "me" => d.set = Keep
         /\ d.pc = "sent" => d.set # Keep
         /\ d.pc = "retrying" => d.set # Keep /\ d.kind \in Proxied \cup {"me"}
         /\ d.pc = "retrying" /\ d.kind # "me" => d.refresh \in used'
         /\ d.pc = "answered" => d.refresh = None
         /\ d.pc = "answered" /\ d.kind \in SignOuts => d.set = Clear
<1> DEFINE c == calls[s]
<1>1. d.kind = c.kind
  BY DEF HandleEffect
<1>2. CASE Kept(c, d)
  BY <1>1, <1>2 DEF Kept
<1>3. CASE Rotated(c, d)
  <2>1. TokensLeft => NextToken \in Tokens
    BY NextIsFree DEF BaseInv
  <2>2. NextToken # Keep /\ c.refresh \in used'
    BY <1>3, <2>1, Marks DEF Rotated, Rotate
  <2>3. c.kind \notin SignOuts
    BY <1>3 DEF Rotated, Proxied, SignOuts
  <2> HIDE DEF c
  <2> QED BY <1>1, <1>3, <2>2, <2>3 DEF Rotated
<1>4. CASE Issued(c, d)
  <2>1. c.kind \notin SignOuts
    BY <1>4 DEF Issued, SignOuts
  <2> HIDE DEF c
  <2> QED BY <1>1, <1>4, <2>1 DEF Issued
<1> QED BY <1>2, <1>3, <1>4 DEF HandleEffect

LEMMA HandleKeeps ==
  ASSUME SessionIInv, NEW s \in Slots, NEW d \in Call, Busy(s), HandleEffect(s, d)
  PROVE  SessionIInv'
<1> DEFINE c == calls[s]
<1>1. /\ BaseInv /\ jar' = jar /\ jar \in Cookies /\ PageTypes'
      /\ calls' = [calls EXCEPT ![s] = d] /\ d.kind = c.kind
      /\ trouble \subseteq trouble' /\ trouble' \subseteq {"overlap", "lost", "failed"}
      /\ "overlap" \in trouble' => "overlap" \in trouble
      /\ "lost" \in trouble' => "lost" \in trouble
  BY DEF SessionIInv, BaseInv, TypeOK, Cookies, PageTypes, HandleEffect
<1>2. /\ InOrder' /\ FamilyInv' /\ family' \in [Tokens -> Tokens \cup {None}]
      /\ used' \subseteq Tokens /\ revoked' \subseteq Tokens
      /\ \A t \in Tokens : Committed(t) => Committed(t)'
      /\ \A t \in used' \ used : t = c.refresh /\ d.set # Keep
      /\ used \subseteq used'
      /\ \/ d.set \in {Clear, Keep}
         \/ d.set = c.set /\ UNCHANGED used
         \/ d.set \in Tokens /\ ~Committed(d.set) /\ Committed(d.set)'
      /\ \/ d.refresh \in {None, c.refresh}
         \/ d.refresh = d.set
      /\ c.set # Keep => d.set # Keep
  BY <1>1, HandleTokens
<1>3. /\ calls' \in [Slots -> {Idle} \cup Call]
      /\ calls'[s] = d /\ Busy(s)'
      /\ \A q \in Slots : q # s => calls'[q] = calls[q] /\ (Busy(q)' <=> Busy(q))
  BY <1>1, CallsNext, CallsAreBusy DEF BaseInv
<1>4. TypeOK'
  BY <1>1, <1>2, <1>3, TypeNext
<1>g. \A t \in Tokens : Committed(t) => family'[t] # None
  BY <1>2 DEF Committed
<1>5. /\ \A q \in Slots : Busy(q) => calls[q].refresh \in Tokens \cup {None}
                                     /\ calls[q].set \in Tokens \cup {Clear, Keep}
      /\ jar.refresh \in Tokens \cup {None}
  BY <1>1, CallTypes DEF BaseInv, Cookies
<1>d. d.refresh \in Tokens \cup {None} /\ d.set \in Tokens \cup {Clear, Keep}
  BY DEF Call
<1>6. Known'
  <2>1. (jar.refresh # None => Committed(jar.refresh))'
    BY <1>1, <1>5, <1>g DEF BaseInv, Known, Committed
  <2>2. \A q \in Slots : Busy(q) /\ calls[q].refresh # None =>
          calls[q].refresh \in Tokens /\ family'[calls[q].refresh] # None
    BY <1>1, <1>5, <1>g DEF BaseInv, Known
  <2>3. d.refresh # None => family'[d.refresh] # None
    <3>1. CASE d.refresh \in {None, c.refresh}
      BY <2>2, <3>1
    <3>2. CASE d.refresh = d.set /\ d.refresh # None
      <4>1. d.set \in Tokens
        BY <1>d, <3>2, Marks
      <4>2. d.set # Clear /\ d.set # Keep
        BY <4>1, Marks
      <4>3. CASE d.set = c.set /\ UNCHANGED used
        <5>1. Committed(c.set)
          BY <4>1, <4>3 DEF SessionIInv, Fresh
        <5> QED BY <1>g, <3>2, <4>1, <4>3, <5>1
      <4>4. CASE Committed(d.set)'
        BY <3>2, <4>4 DEF Committed
      <4> QED BY <1>2, <4>2, <4>3, <4>4
    <3> QED BY <1>2, <3>1, <3>2
  <2>4. ASSUME NEW q \in Slots, Busy(q)', calls'[q].refresh # None
        PROVE  family'[calls'[q].refresh] # None
    <3>1. CASE q = s
      BY <1>3, <2>3, <2>4, <3>1
    <3>2. CASE q # s
      BY <1>3, <2>2, <2>4, <3>2
    <3> QED BY <3>1, <3>2
  <2>5. ASSUME NEW q \in Slots PROVE (Busy(q) /\ calls[q].refresh # None => Committed(calls[q].refresh))'
    BY <2>4 DEF Committed
  <2> QED BY <2>1, <2>5 DEF Known
<1>7. Shapes'
  <2>1. ASSUME NEW q \in Slots, Busy(q)', q # s
        PROVE  CallShape(calls'[q], used')
    BY <1>1, <1>2, <1>3, <2>1 DEF BaseInv, Shapes, CallShape
  <2>2. d.pc # "answered" /\ d.kind = "revoke" => d.target # None
    BY <1>1 DEF HandleEffect, BaseInv, Shapes, CallShape
  <2>3. /\ d.pc = "sent" /\ d.kind # "me" => d.set = Keep
        /\ d.pc = "retrying" => d.set # Keep /\ d.kind \in Proxied \cup {"me"}
        /\ d.pc = "retrying" /\ d.kind # "me" => d.refresh \in used'
        /\ d.pc = "answered" => d.refresh = None
        /\ d.pc = "answered" /\ d.kind \in SignOuts => d.set = Clear
    BY <1>1, HandleShapes
  <2> QED BY <1>3, <2>1, <2>2, <2>3 DEF Shapes, CallShape
<1>8. Fresh'
  (* A pair that another request is bringing was not the one rotated.      *)
  <2>1. ASSUME NEW q \in Slots, q # s, Busy(q), calls[q].set \in Tokens
        PROVE  /\ Committed(calls[q].set) /\ calls[q].set \notin used'
               /\ calls[q].set # d.set /\ calls[q].set # d.refresh
               /\ calls[q].set # jar.refresh
    <3>1. /\ Committed(calls[q].set) /\ calls[q].set \notin used
          /\ calls[q].set # jar.refresh
          /\ calls[q].set # c.set /\ calls[q].set # c.refresh
      BY <2>1 DEF SessionIInv, Fresh
    <3>2. calls[q].set \notin used'
      BY <1>2, <3>1
    <3>3. calls[q].set # d.set
      BY <1>2, <2>1, <3>1, Marks
    <3> QED BY <1>2, <2>1, <3>1, <3>2, <3>3, Marks
  <2>2. ASSUME d.set \in Tokens
        PROVE  /\ family'[d.set] # None /\ d.set \notin used' /\ d.set # jar.refresh
               /\ \A q \in Slots : q # s /\ Busy(q) =>
                    calls[q].set # d.set /\ calls[q].refresh # d.set
    <3>0. d.set # Clear /\ d.set # Keep
      BY <2>2, Marks
    <3>1. CASE d.set = c.set /\ UNCHANGED used
      <4>1. /\ Committed(d.set) /\ d.set \notin used /\ d.set # jar.refresh
            /\ \A q \in Slots : q # s /\ Busy(q) =>
                    calls[q].set # d.set /\ calls[q].refresh # d.set
        BY <2>2, <3>1 DEF SessionIInv, Fresh
      <4> QED BY <1>g, <2>2, <3>1, <4>1
    <3>2. CASE ~Committed(d.set) /\ Committed(d.set)'
      <4>1. family'[d.set] # None
        BY <3>2 DEF Committed
      <4>2. d.set \notin used
        BY <1>1, <3>2 DEF BaseInv, FamilyInv
      <4>3. d.set # c.refresh /\ d.set # jar.refresh
        BY <1>1, <2>2, <3>2, Marks DEF BaseInv, Known
      <4>4. d.set \notin used'
        BY <1>2, <4>2, <4>3
      <4>5. \A q \in Slots : q # s /\ Busy(q) =>
                    calls[q].set # d.set /\ calls[q].refresh # d.set
        BY <1>1, <2>1, <2>2, <3>2, Marks DEF BaseInv, Known
      <4> QED BY <4>1, <4>3, <4>4, <4>5
    <3> QED BY <1>2, <3>0, <3>1, <3>2
  <2>3. ASSUME NEW q \in Slots, Busy(q)', calls'[q].set \in Tokens
        PROVE  /\ family'[calls'[q].set] # None /\ calls'[q].set \notin used'
               /\ calls'[q].set # jar.refresh
               /\ \A r \in Slots : r # q /\ Busy(r)' =>
                    calls'[r].set # calls'[q].set /\ calls'[r].refresh # calls'[q].set
    <3>1. CASE q = s
      BY <1>3, <2>2, <2>3, <3>1
    <3>2. CASE q # s
      <4>1. Busy(q) /\ calls'[q] = calls[q] /\ calls[q].set \in Tokens
        BY <1>3, <2>3, <3>2
      <4>2. family'[calls[q].set] # None
        BY <1>g, <2>1, <3>2, <4>1
      <4>3. \A r \in Slots : r # q /\ Busy(r) =>
              calls[r].set # calls[q].set /\ calls[r].refresh # calls[q].set
        BY <4>1 DEF SessionIInv, Fresh
      <4> QED BY <1>3, <2>1, <3>2, <4>1, <4>2, <4>3
    <3> QED BY <3>1, <3>2
  <2>4. ASSUME NEW q \in Slots
        PROVE (Busy(q) /\ calls[q].set \in Tokens =>
                /\ Committed(calls[q].set) /\ calls[q].set \notin used
                /\ calls[q].set # jar.refresh
                /\ \A r \in Slots : r # q /\ Busy(r) =>
                     calls[r].set # calls[q].set /\ calls[r].refresh # calls[q].set)'
    BY <1>1, <2>3 DEF Committed
  <2> QED BY <2>4 DEF Fresh
<1>9. Carried'
  <2> SUFFICES ASSUME "lost" \notin trouble', jar.refresh \in used'
               PROVE  \E q \in Slots : Busy(q)' /\ calls'[q].set # Keep
    BY <1>1 DEF Carried
  <2>1. CASE jar.refresh \in used
    <3>1. PICK q \in Slots : Busy(q) /\ calls[q].set # Keep
      BY <1>1, <2>1 DEF SessionIInv, Carried
    <3> QED BY <1>2, <1>3, <3>1
  <2>2. CASE jar.refresh \notin used
    BY <1>2, <1>3, <2>2
  <2> QED BY <2>1, <2>2
<1>10. "overlap" \notin trouble' => \A q \in Slots : Busy(q)' => q = s
  BY <1>1, <1>3 DEF SessionIInv, Alone
<1>11. Alone'
  <2>1. d.pc = "sent" => d.set # Keep
    BY <1>1, HandleShapes
  <2> QED BY <1>3, <1>10, <2>1 DEF Alone
<1>a. "overlap" \notin trouble' => \A q \in Slots : Busy(q) => q = s
  BY <1>1 DEF SessionIInv, Alone
<1>12. Ended'
  <2> SUFFICES ASSUME trouble' = {}, d.pc = "answered", c.kind \in {"logout", "signOut"}
               PROVE  jar.refresh = None \/ jar.refresh \in revoked' \ used'
    BY <1>1, <1>3, <1>10 DEF Ended
  <2>1. /\ revoked' = revoked \cup SignedOut(c) /\ c.pc # "answered"
        /\ "lost" \notin trouble /\ "overlap" \notin trouble
    BY <1>1 DEF HandleEffect
  <2>2. c.kind \notin Proxied \cup {"me"} /\ c.kind # "me" /\ c.kind # "login"
    BY DEF Proxied
  <2>3. c.pc = "sent" /\ c.set = Keep
    BY <1>1, <2>1, <2>2, CallTypes DEF BaseInv, Shapes, CallShape
  <2>4. c.refresh = jar.refresh
    BY <2>1, <2>3 DEF SessionIInv, Alone
  <2>5. jar.refresh # None => jar.refresh \in revoked'
    BY <2>1, <2>4 DEF SignedOut
  <2>6. jar.refresh \notin used
    BY <1>1, <1>a, <2>1, <2>3 DEF SessionIInv, Carried
  <2>7. UNCHANGED used
    BY <2>2 DEF HandleEffect, Kept, Rotated, Issued
  <2> QED BY <2>5, <2>6, <2>7
<1>13. Swapped'
  <2> SUFFICES ASSUME "overlap" \notin trouble', d.pc = "answered", c.kind = "password", d.ok,
                      NEW t \in Tokens, Live(t)'
               PROVE  t = SetCookies(jar, d.set).refresh
    BY <1>1, <1>3, <1>10 DEF Swapped
  <2>1. revoked' = revoked \cup Swept(c) /\ c.pc # "answered" /\ "overlap" \notin trouble
    BY <1>1 DEF HandleEffect
  <2>2. Kept(c, d)
    BY DEF HandleEffect, Rotated, Issued
  <2>3. UNCHANGED <<family, used>> /\ d.set \in {c.set, Clear}
    BY <2>2 DEF Kept
  <2>4. Committed(t) /\ t \notin used /\ t \notin revoked /\ t \notin Swept(c)
    BY <2>1, <2>3 DEF Live, Committed
  <2>5. t = c.refresh
    BY <2>4 DEF Swept
  <2>6. c.pc = "sent" /\ c.set = Keep
    <3>1. c.pc # "retrying"
      BY <1>1, <2>4, <2>5 DEF BaseInv, Shapes, CallShape
    <3> QED BY <1>1, <2>1, <3>1, CallTypes DEF BaseInv, Shapes, CallShape
  <2>7. t = jar.refresh
    BY <2>1, <2>5, <2>6 DEF SessionIInv, Alone
  <2>8. d.set = c.set
    BY <1>1 DEF HandleEffect
  <2> QED BY <2>6, <2>7, <2>8 DEF SetCookies
<1> QED
  BY <1>2, <1>4, <1>6, <1>7, <1>8, <1>9, <1>11, <1>12, <1>13 DEF SessionIInv, BaseInv

LEMMA SessionStep == SessionIInv /\ [Next]_vars => SessionIInv'
<1> SUFFICES ASSUME SessionIInv, [Next]_vars PROVE SessionIInv'
  OBVIOUS
<1>b. BaseInv
  BY DEF SessionIInv
<1>1. ASSUME NEW s \in Slots, Handle(s) PROVE SessionIInv'
  <2>1. PICK d \in Call : HandleEffect(s, d)
    BY <1>b, <1>1, HandleShape
  <2>2. Busy(s)
    BY <1>1 DEF Handle
  <2> QED BY <2>1, <2>2, HandleKeeps
<1>2. ASSUME NEW s \in Slots, Deliver(s) \/ Lose(s) PROVE SessionIInv'
  <2>1. PageTypes' /\ jar' \in Cookies /\ \E d \in {Idle} \cup Call : TakeEffect(s, d)
    BY <1>b, <1>2, TakeSteps
  <2> QED BY <2>1, TakeKeeps
<1>3. ASSUME NEW s \in Slots, NEW b \in Tabs,
             \/ SendApi(s, b) \/ SendLogin(s, b)
             \/ \E path \in Pages : Load(s, b, path)
             \/ \E kind \in Kinds : SendFromMenu(s, b, kind)
             \/ \E t \in Tokens, isCurrent \in BOOLEAN : SendRevoke(s, b, t, isCurrent)
      PROVE  SessionIInv'
  <2>1. PageTypes' /\ \E d \in Call : SendEffect(s, d)
    BY <1>b, <1>3, SendSteps
  <2> QED BY <2>1, SendKeeps
<1>4. ASSUME Lapse \/ DropAccessCookie \/ (\E b \in Tabs : HearLogout(b)) \/ UNCHANGED vars
      PROVE  SessionIInv'
  <2>1. PageTypes' /\ OtherEffect
    BY <1>b, <1>4, OtherSteps
  <2> QED BY <2>1, OtherKeeps
<1> QED BY <1>1, <1>2, <1>3, <1>4 DEF Next

LEMMA Browsing == Spec => []SessionIInv
BY SessionInit, SessionStep, PTL DEF Spec

-----------------------------------------------------------------------------
(* What the invariant gives                                                *)

(* Every variable keeps its type: a request in flight is a call, and sets  *)
(* a pair of cookies, clears both or leaves them.                          *)
THEOREM SessionTypeCorrect == Spec => []TypeOK
<1>1. SessionIInv => TypeOK
  BY DEF SessionIInv, BaseInv
<1> QED BY Browsing, <1>1, PTL

(* However many tabs refresh at once, an idle browser holds a refresh      *)
(* token that was not rotated: whoever rotated the jar's token brings its  *)
(* successor, and no later response puts a spent one back.                 *)
THEOREM IdleJarIsUnspent == Spec => []JarNeverUsed
<1>1. SessionIInv => JarNeverUsed
  BY DEF SessionIInv, Carried, Quiet, JarNeverUsed
<1> QED BY Browsing, <1>1, PTL

(* Signing out without trouble clears both cookies, routes the tab to the  *)
(* sign-in page and leaves no token of the session's family to rotate.     *)
THEOREM SigningOutEndsTheSession == Spec => LogoutEndsSession
<1>1. SessionIInv /\ [Next]_vars =>
        [\A s \in Slots :
           Deliver(s) /\ calls[s].kind \in {"logout", "signOut"} /\ trouble = {}
           => /\ jar' = [access |-> None, refresh |-> None]
              /\ calls[s].kind = "logout" => at'[calls[s].tab] = "login"
              /\ \A t \in Tokens :
                   jar.refresh # None /\ family[t] = family[jar.refresh] => ~Live(t)]_vars
  <2> SUFFICES ASSUME SessionIInv, NEW s \in Slots, Deliver(s), trouble = {},
                      calls[s].kind \in {"logout", "signOut"}
               PROVE  /\ jar' = [access |-> None, refresh |-> None]
                      /\ calls[s].kind = "logout" => at'[calls[s].tab] = "login"
                      /\ \A t \in Tokens :
                           jar.refresh # None /\ family[t] = family[jar.refresh] => ~Live(t)
    OBVIOUS
  <2>1. BaseInv /\ Busy(s) /\ calls[s].tab \in Tabs /\ at \in [Tabs -> Pages]
    BY CallTypes DEF SessionIInv, BaseInv, TypeOK, Deliver
  <2>2. calls[s].kind \in SignOuts
    BY DEF SignOuts
  <2>3. /\ calls[s].pc = "answered" /\ jar' = SetCookies(jar, calls[s].set)
        /\ calls[s].kind = "logout" => TakeLogout(s, calls[s], SetCookies(jar, calls[s].set))
    BY DEF Deliver, Take
  <2>4. calls[s].set = Clear
    BY <2>1, <2>2, <2>3 DEF BaseInv, Shapes, CallShape
  <2>5. SetCookies(jar, calls[s].set) = [access |-> None, refresh |-> None]
    BY <2>4, Marks DEF SetCookies
  <2>6. calls[s].kind = "logout" => at'[calls[s].tab] = "login"
    BY <2>1, <2>3, <2>5 DEF TakeLogout, Routed
  <2>7. ASSUME NEW t \in Tokens, jar.refresh # None, family[t] = family[jar.refresh]
        PROVE  ~Live(t)
    <3>1. jar.refresh \in revoked \ used
      BY <2>1, <2>3, <2>7 DEF SessionIInv, Ended
    <3>2. jar.refresh \in Tokens /\ Committed(jar.refresh)
      BY <2>1, <2>7 DEF BaseInv, TypeOK, Known
    <3>3. t \notin used => t = jar.refresh
      BY <2>1, <2>7, <3>1, <3>2 DEF BaseInv, FamilyInv
    <3> QED BY <3>1, <3>3 DEF Live
  <2> QED BY <2>3, <2>5, <2>6, <2>7
<1> QED BY Browsing, <1>1, PTL DEF Spec, LogoutEndsSession

(* When a password change that overlapped no other request has succeeded,  *)
(* the only token left to rotate is the one this browser holds.            *)
THEOREM PasswordChangeSignsOthersOut == Spec => PasswordChangeEndsOthers
<1>1. SessionIInv /\ [Next]_vars =>
        [\A s \in Slots :
           Deliver(s) /\ calls[s].kind = "password" /\ calls[s].ok /\ "overlap" \notin trouble
           => \A t \in Tokens : Live(t) => t = jar'.refresh]_vars
  <2> SUFFICES ASSUME SessionIInv, NEW s \in Slots, Deliver(s), calls[s].kind = "password",
                      calls[s].ok, "overlap" \notin trouble, NEW t \in Tokens, Live(t)
               PROVE  t = jar'.refresh
    OBVIOUS
  <2>1. Busy(s) /\ calls[s].pc = "answered" /\ jar' = SetCookies(jar, calls[s].set)
    BY DEF Deliver, Take
  <2> QED BY <2>1 DEF SessionIInv, Swapped
<1> QED BY Browsing, <1>1, PTL DEF Spec, PasswordChangeEndsOthers

(* A password change that did not have to refresh leaves this browser's    *)
(* own token live.                                                         *)
THEOREM PasswordChangeSparesThis == Spec => PasswordChangeKeepsThis
<1>1. SessionIInv /\ [Next]_vars =>
        [\A s \in Slots :
           Serve(s) /\ calls[s].kind = "password" /\ calls[s].set = Keep
           /\ "overlap" \notin trouble /\ Live(jar.refresh) => Live(jar.refresh)']_vars
  <2> SUFFICES ASSUME SessionIInv, NEW s \in Slots, Serve(s), calls[s].kind = "password",
                      calls[s].set = Keep, "overlap" \notin trouble, Live(jar.refresh)
               PROVE  Live(jar.refresh)'
    OBVIOUS
  <2>1. Busy(s)
    BY DEF Busy, Idle
  <2>2. calls[s].pc = "sent"
    BY <2>1 DEF Serve, SessionIInv, BaseInv, Shapes, CallShape
  <2>3. calls[s].refresh = jar.refresh /\ jar' = jar
    BY <2>1, <2>2 DEF SessionIInv, Alone, Serve
  <2>4. jar.refresh \notin Swept(calls[s])
    BY <2>3 DEF Swept, Live
  <2>5. RevokedBy(calls[s]) = Swept(calls[s])
    BY DEF RevokedBy
  <2>6. UNCHANGED <<family, used>> /\ revoked' \subseteq revoked \cup Swept(calls[s])
    BY <2>5 DEF Serve, Revoke, tokenVars
  <2> QED BY <2>3, <2>4, <2>6 DEF Live, Committed
<1> QED BY Browsing, <1>1, PTL DEF Spec, PasswordChangeKeepsThis
=============================================================================
