--------------------------- MODULE BrowserSession ---------------------------
(***************************************************************************)
(* The session of one browser: its two HTTP-only cookies, the route        *)
(* handlers of the Next.js server that read and write them (/api/bff/...,  *)
(* /api/auth/...), the tabs' auth provider and sign-in, sign-out and       *)
(* security pages, over the token service of TokenFamilies.                *)
(*                                                                         *)
(* A request carries the cookies the jar held when it was sent; what its   *)
(* handler sets or clears reaches the jar with the response.  The access   *)
(* token issued together with refresh token t is also called t.            *)
(***************************************************************************)
EXTENDS TokenFamilies, FiniteSets

CONSTANTS
  Tabs,         \* the browser's tabs
  Slots         \* requests that may be in flight together

ASSUME SessionAssumption == MaxTokens \in Nat

VARIABLES
  lapsed,       \* access tokens 1..lapsed are past their exp: all live equally long
  jar,          \* the cookies ada_access and ada_refresh
  calls,        \* the requests in flight
  shown,        \* tabs whose auth provider holds a user
  at,           \* the kind of page a tab is on
  told,         \* tabs with an undelivered `ada-logout' storage event
  trouble       \* history: a "lost" response; since requests were last idle,
                \* an "overlap" of requests, a "failed" upstream call

sessionVars == <<lapsed, jar, calls, shown, at, told, trouble>>
vars == <<tokenVars, sessionVars>>

Clear == None                 \* clearAuthCookies
Keep == MaxTokens + 1         \* a response without Set-Cookie
Pages == {"app", "login"}     \* PROTECTED_PREFIXES and AUTH_PAGES

Proxied == {"api", "password", "revoke"}
SignOuts == {"logout", "signOut", "signOutAll"}
Kinds == Proxied \cup SignOuts \cup {"me", "login"}

Idle == [kind |-> "idle"]
Call == [kind : Kinds, tab : Tabs, pc : {"sent", "retrying", "answered"},
         access : Tokens \cup {None}, refresh : Tokens \cup {None},
         set : Tokens \cup {Clear, Keep}, ok : BOOLEAN,
         target : Tokens \cup {None}, goTo : Pages \cup {"stay"}]

TypeOK ==
  /\ family \in [Tokens -> Tokens \cup {None}]
  /\ used \subseteq Tokens /\ revoked \subseteq Tokens /\ lapsed \in 0..MaxTokens
  /\ jar \in [access : Tokens \cup {None}, refresh : Tokens \cup {None}]
  /\ calls \in [Slots -> {Idle} \cup Call]
  /\ shown \in [Tabs -> BOOLEAN]
  /\ at \in [Tabs -> Pages]
  /\ told \subseteq Tabs
  /\ trouble \subseteq {"overlap", "lost", "failed"}

Init ==
  /\ TokensInit
  /\ lapsed = 0
  /\ jar = [access |-> None, refresh |-> None]
  /\ calls = [s \in Slots |-> Idle]
  /\ shown = [b \in Tabs |-> FALSE]
  /\ at = [b \in Tabs |-> "login"]
  /\ told = {}
  /\ trouble = {}

-----------------------------------------------------------------------------
(* Slips a change of this code could make, for the runs to reject: only    *)
(* the access cookie written, a logout that reads the cookie after         *)
(* clearing it, a password change that revokes nothing or gets no          *)
(* X-Refresh-Token.                                                        *)
AccessOnly(j, set) ==
  IF set = Keep THEN j
  ELSE [access |-> set, refresh |-> IF set = Clear \/ j.refresh = None THEN set ELSE j.refresh]
ReadAfterClear(c) == {}
SweepNothing(c) == {}
SweepAll(c) == {t \in Tokens : Committed(t)}

(* middleware: a protected page wants either cookie, a sign-in page no     *)
(* access cookie.                                                          *)
Routed(path, j) ==
  IF path = "app" /\ j.access = None /\ j.refresh = None THEN "login"
  ELSE IF path = "login" /\ j.access # None THEN "app"
  ELSE path

(* setAuthCookies writes the pair, clearAuthCookies removes both *)
SetCookies(j, set) == IF set = Keep THEN j ELSE [access |-> set, refresh |-> set]

NewCall(j, kind, b, target, goTo) ==
  [kind |-> kind, tab |-> b, pc |-> "sent", access |-> j.access, refresh |-> j.refresh,
   set |-> Keep, ok |-> FALSE, target |-> target, goTo |-> goTo]

(* fetchCurrentUser, for refreshUser or the provider's first effect *)
Me(j, b, goTo) == NewCall(j, "me", b, None, goTo)

Busy(s) == calls[s] # Idle
NextToken == CHOOSE t \in Tokens : ~Committed(t) /\ \A u \in 1..(t - 1) : Committed(u)
TokensLeft == \E t \in Tokens : ~Committed(t)

Authorized(c) == c.access > lapsed

Send(s, call) ==
  /\ ~Busy(s)
  /\ calls' = [calls EXCEPT ![s] = call]
  /\ trouble' = IF \E q \in Slots : Busy(q) THEN trouble \cup {"overlap"}
                ELSE trouble \cap {"lost"}

-----------------------------------------------------------------------------
(* The tabs send requests                                                  *)

(* apiFetch through the BFF, from any page of the application; the session *)
(* list and send-verification go through proxyAuthenticatedAuth, which      *)
(* treats the cookies alike.                                               *)
SendApi(s, b) ==
  /\ at[b] = "app"
  /\ Send(s, NewCall(jar, "api", b, None, "stay"))
  /\ UNCHANGED <<tokenVars, lapsed, jar, shown, at, told>>

(* loginRequest from the form on /login *)
SendLogin(s, b) ==
  /\ at[b] = "login"
  /\ \A q \in Slots : Busy(q) => calls[q].tab # b      \* isSubmitting, for the chain
  /\ Send(s, NewCall(jar, "login", b, None, "stay"))
  /\ UNCHANGED <<tokenVars, lapsed, jar, shown, at, told>>

(* A full page load: the middleware, then AuthProvider's first effect.     *)
(* (Bound: a tab with requests in flight is not reloaded.)                 *)
Load(s, b, path) ==
  /\ \A q \in Slots : Busy(q) => calls[q].tab # b
  /\ at' = [at EXCEPT ![b] = Routed(path, jar)]
  /\ shown' = [shown EXCEPT ![b] = FALSE]
  /\ told' = told \ {b}
  /\ Send(s, Me(jar, b, "stay"))
  /\ UNCHANGED <<tokenVars, lapsed, jar>>

(* Log out in the user menu; Sign out, Sign out all and Change password on  *)
(* the security page                                                       *)
SendFromMenu(s, b, kind) ==
  /\ at[b] = "app"
  /\ kind \in SignOuts \cup {"password"}
  /\ \A q \in Slots : Busy(q) /\ calls[q].tab = b => calls[q].kind # kind
  /\ Send(s, NewCall(jar, kind, b, None, "stay"))
  /\ UNCHANGED <<tokenVars, lapsed, jar, shown, at, told>>

(* confirmRevokeSession, any row of the list.  pendingRevoke.is_current is *)
(* what an earlier answer said of the row: a list that had to refresh      *)
(* marked the token it rotated, so either value is possible.               *)
SendRevoke(s, b, t, isCurrent) ==
  /\ at[b] = "app"
  /\ Committed(t)
  /\ \A q \in Slots : Busy(q) => calls[q].kind # "revoke"
  /\ Send(s, NewCall(jar, "revoke", b, t, IF isCurrent THEN "login" ELSE "stay"))
  /\ UNCHANGED <<tokenVars, lapsed, jar, shown, at, told>>

-----------------------------------------------------------------------------
(* The route handlers                                                      *)

Step(s, fields) == calls' = [calls EXCEPT ![s] = fields]

(* A response carries its status and its Set-Cookie *)
Answer(c, ok, set) ==
  [c EXCEPT !.pc = "answered", !.ok = ok, !.set = set,
            !.access = None, !.refresh = None, !.target = None]

(* change_password keeps the token of X-Refresh-Token unless it is         *)
(* revoked; the retry after a refresh still sends the one read first.      *)
Swept(c) ==
  {t \in Tokens : Committed(t) /\ ~(t = c.refresh /\ t \notin revoked)}

RevokedBy(c) ==
  CASE c.kind = "password" -> Swept(c)
    [] c.kind = "revoke"   -> {c.target}
    [] OTHER               -> {}

(* The backend accepts the access token: it does the operation, or fails   *)
(* with a status other than 401.                                           *)
Serve(s) ==
  LET c == calls[s] IN
  /\ c.kind \in Proxied \cup {"me"} /\ c.pc \in {"sent", "retrying"}
  /\ Authorized(c)
  /\ \/ Revoke(RevokedBy(c)) /\ Step(s, Answer(c, TRUE, c.set)) /\ UNCHANGED trouble
     \/ /\ Step(s, Answer(c, FALSE, c.set))
        /\ trouble' = trouble \cup {"failed"}
        /\ UNCHANGED tokenVars
  /\ UNCHANGED <<lapsed, jar, shown, at, told>>

(* 401: refresh once.  change_password also answers 401 to a wrong current *)
(* password.                                                               *)
Rejected(c) ==
  /\ c.kind \in Proxied \cup {"me"} /\ c.pc = "sent"
  /\ ~Authorized(c) \/ c.kind = "password"

(* tryRefreshTokens without a refresh cookie: the proxies clear both       *)
(* cookies, getCurrentUser leaves them.                                    *)
NothingToRefresh(s) ==
  LET c == calls[s] IN
  /\ Rejected(c) /\ c.refresh = None
  /\ Step(s, Answer(c, FALSE, IF c.kind = "me" THEN c.set ELSE Clear))
  /\ UNCHANGED <<tokenVars, lapsed, jar, shown, at, told, trouble>>

(* The pair goes into the response's cookies and the request is sent       *)
(* again.  getCurrentUser without an access cookie refreshes before its    *)
(* first attempt, and may refresh again after it with the new cookie.      *)
Refreshed(s) ==
  LET c == calls[s]
      new == NextToken
      again == [c EXCEPT !.access = new, !.set = new]
  IN
  /\ Rejected(c) /\ c.refresh # None
  /\ TokensLeft
  /\ Rotate(c.refresh, new)
  /\ Step(s, IF c.kind # "me" THEN [again EXCEPT !.pc = "retrying"]
             ELSE [again EXCEPT !.refresh = new,
                                !.pc = IF c.access = None THEN "sent" ELSE "retrying"])
  /\ UNCHANGED <<lapsed, jar, shown, at, told, trouble>>

(* The refresh is refused (the token was used or revoked), or fails, with  *)
(* or without the rotation committed: both cookies are cleared.            *)
RefreshFailed(s) ==
  LET c == calls[s] IN
  /\ Rejected(c) /\ c.refresh # None
  /\ Step(s, Answer(c, FALSE, Clear))
  /\ \/ ~Live(c.refresh) /\ UNCHANGED <<tokenVars, trouble>>
     \/ /\ Live(c.refresh)
        /\ \/ UNCHANGED tokenVars
           \/ TokensLeft /\ Rotate(c.refresh, NextToken)
        /\ trouble' = trouble \cup {"failed"}
  /\ UNCHANGED <<lapsed, jar, shown, at, told>>

(* A second 401, after the refresh, is passed on. *)
RefusedAgain(s) ==
  LET c == calls[s] IN
  /\ c.pc = "retrying"
  /\ ~Authorized(c) \/ c.kind = "password"
  /\ Step(s, Answer(c, FALSE, c.set))
  /\ UNCHANGED <<tokenVars, lapsed, jar, shown, at, told, trouble>>

(* /api/auth/login *)
ServeLogin(s) ==
  LET c == calls[s] IN
  /\ c.kind = "login" /\ c.pc = "sent"
  /\ \/ TokensLeft /\ Issue(NextToken) /\ Step(s, Answer(c, TRUE, NextToken))
     \/ UNCHANGED tokenVars /\ Step(s, Answer(c, FALSE, Keep))
  /\ UNCHANGED <<lapsed, jar, shown, at, told, trouble>>

(* /api/auth/logout revokes the refresh cookie's token, /logout-all every  *)
(* token if the access token is good; both clear the cookies and report    *)
(* success whatever the backend answered.                                  *)
SignedOut(c) ==
  IF c.kind = "signOutAll" THEN {t \in Tokens : Committed(t) /\ Authorized(c)}
  ELSE IF c.refresh = None THEN {} ELSE {c.refresh}

ServeSignOut(s) ==
  LET c == calls[s] IN
  /\ c.kind \in SignOuts /\ c.pc = "sent"
  /\ \/ Revoke(SignedOut(c)) /\ UNCHANGED trouble
     \/ UNCHANGED tokenVars /\ trouble' = trouble \cup {"failed"}
  /\ Step(s, Answer(c, TRUE, Clear))
  /\ UNCHANGED <<lapsed, jar, shown, at, told>>

-----------------------------------------------------------------------------
(* The response reaches the tab, or is lost (closed tab, timeout, network) *)

(* setUser from fetchCurrentUser; then router.push or router.replace *)
TakeUser(s, c, ok, j) ==
  /\ shown' = [shown EXCEPT ![c.tab] = ok]
  /\ at' = IF c.goTo = "stay" THEN at ELSE [at EXCEPT ![c.tab] = Routed(c.goTo, j)]
  /\ calls' = [calls EXCEPT ![s] = Idle]
  /\ UNCHANGED told

(* AuthProvider.logout: setUser(null), the storage event, /login *)
TakeLogout(s, c, j) ==
  /\ shown' = [shown EXCEPT ![c.tab] = FALSE]
  /\ at' = [at EXCEPT ![c.tab] = Routed("login", j)]
  /\ told' = told \cup (Tabs \ {c.tab})
  /\ calls' = [calls EXCEPT ![s] = Idle]

(* The page's await continues: refreshUser follows a login, a sign-out and *)
(* the revocation of the session marked current.                           *)
FollowUp(c, ok, j) ==
  IF ~ok THEN Idle
  ELSE CASE c.kind = "login" -> Me(j, c.tab, "app")
         [] c.kind \in {"signOut", "signOutAll"} -> Me(j, c.tab, "login")
         [] c.kind = "revoke" /\ c.goTo = "login" -> Me(j, c.tab, "login")
         [] OTHER -> Idle

TakeOther(s, c, ok, j) ==
  /\ calls' = [calls EXCEPT ![s] = FollowUp(c, ok, j)]
  /\ UNCHANGED <<shown, at, told>>

Take(s, ok, j) ==
  LET c == calls[s] IN
  /\ c.kind # "idle" /\ c.pc = "answered"
  /\ jar' = j
  /\ CASE c.kind = "me"     -> TakeUser(s, c, ok, j)
       [] c.kind = "logout" -> TakeLogout(s, c, j)
       [] OTHER             -> TakeOther(s, c, ok, j)
  /\ UNCHANGED <<tokenVars, lapsed>>

Deliver(s) ==
  /\ Busy(s) /\ Take(s, calls[s].ok, SetCookies(jar, calls[s].set))
  /\ UNCHANGED trouble

(* The response does not arrive, or its handler threw after the refresh    *)
(* and the answer carries no Set-Cookie.                                   *)
Lose(s) ==
  /\ Busy(s) /\ Take(s, FALSE, jar)
  /\ trouble' = trouble \cup {"lost"}

(* The storage listener of the other tabs *)
HearLogout(b) ==
  /\ b \in told
  /\ told' = told \ {b}
  /\ shown' = [shown EXCEPT ![b] = FALSE]
  /\ at' = [at EXCEPT ![b] = Routed("login", jar)]
  /\ UNCHANGED <<tokenVars, lapsed, jar, calls, trouble>>

-----------------------------------------------------------------------------
(* An access token lapses; its cookie's max-age runs out after it.         *)

Lapse ==
  /\ lapsed < MaxTokens /\ Committed(lapsed + 1)
  /\ lapsed' = lapsed + 1
  /\ UNCHANGED <<tokenVars, jar, calls, shown, at, told, trouble>>

DropAccessCookie ==
  /\ jar.access \in 1..lapsed
  /\ jar' = [jar EXCEPT !.access = None]
  /\ UNCHANGED <<tokenVars, lapsed, calls, shown, at, told, trouble>>

Handle(s) ==
  Busy(s) /\ (\/ Serve(s) \/ NothingToRefresh(s) \/ Refreshed(s) \/ RefreshFailed(s)
              \/ RefusedAgain(s) \/ ServeLogin(s) \/ ServeSignOut(s))

Next ==
  \/ \E s \in Slots :
       \/ Handle(s) \/ Deliver(s) \/ Lose(s)
       \/ \E b \in Tabs :
            \/ SendApi(s, b) \/ SendLogin(s, b)
            \/ \E path \in Pages : Load(s, b, path)
            \/ \E kind \in Kinds : SendFromMenu(s, b, kind)
            \/ \E t \in Tokens, isCurrent \in BOOLEAN : SendRevoke(s, b, t, isCurrent)
  \/ \E b \in Tabs : HearLogout(b)
  \/ Lapse
  \/ DropAccessCookie

Spec == Init /\ [][Next]_vars


-----------------------------------------------------------------------------
(* Properties                                                              *)

(* However requests overlap, an idle browser never keeps a refresh token   *)
(* that was rotated, as the next refresh with it would sign it out: each   *)
(* rotation's pair reaches the jar, unless a response was lost.  A retry   *)
(* that throws after its refresh (bff/[...path]/route.ts:182,              *)
(* upstream.ts:161) is answered without the Set-Cookie: it is one of the   *)
(* lost responses.                                                         *)
Quiet == \A s \in Slots : ~Busy(s)
JarNeverUsed == Quiet /\ "lost" \notin trouble => jar.refresh \notin used

(* Signing out (user menu, security page) ends the session it was asked    *)
(* for, on both sides: the cookies are gone, no token of their family can  *)
(* be rotated and the middleware does not send the tab back, unless        *)
(* requests overlapped, a response was lost or the backend failed.         *)
LogoutEndsSession ==
  [][\A s \in Slots :
       Deliver(s) /\ calls[s].kind \in {"logout", "signOut"} /\ trouble = {}
       => /\ jar' = [access |-> None, refresh |-> None]
          /\ calls[s].kind = "logout" => at'[calls[s].tab] = "login"
          /\ \A t \in Tokens :
               jar.refresh # None /\ family[t] = family[jar.refresh] => ~Live(t)]_vars

(* A password change signs out every other session, and this one stays     *)
(* signed in when the change itself did not have to refresh (when it did,  *)
(* its retry names the rotated token, and the new one is revoked).         *)
PasswordChangeEndsOthers ==
  [][\A s \in Slots :
       Deliver(s) /\ calls[s].kind = "password" /\ calls[s].ok /\ "overlap" \notin trouble
       => \A t \in Tokens : Live(t) => t = jar'.refresh]_vars
PasswordChangeKeepsThis ==
  [][\A s \in Slots :
       Serve(s) /\ calls[s].kind = "password" /\ calls[s].set = Keep
       /\ "overlap" \notin trouble /\ Live(jar.refresh) => Live(jar.refresh)']_vars
=============================================================================
