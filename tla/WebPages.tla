------------------------------ MODULE WebPages ------------------------------
(***************************************************************************)
(* A screen of the web interface against the backend: the cached answers   *)
(* it shows, the user's role as it knows it, its controls and dialogs, and *)
(* the calls they start.  The user comes and goes, other people write and  *)
(* change the user's role, requests are lost.                              *)
(*                                                                         *)
(* Two queries are followed: one that the operation writes ("data", a      *)
(* number that grows with every write) and the members of the organization *)
(* ("role", where useOrgRole finds the user).  The cache and its rules are *)
(* those of React Query as providers/query-provider.tsx sets it up.        *)
(***************************************************************************)
EXTENDS Naturals, FiniteSets, WebScreens

CONSTANTS
  Scenarios,    \* [screen, ops, query]
  MaxMoves      \* calls, returns and reads again of the user, and what others do

VARIABLES
  scenario,   \* what this behaviour is about
  place,      \* the user is at the "screen" or "elsewhere"
  visit,      \* how many times the screen has been mounted
  server,     \* [data, role] in the database; role "none": not a member
  cache,      \* <<>> or the value, for "data" and "role"
  stale,      \* invalidated, for each
  fetch,      \* the request on its way, for each
  dialog,     \* <<>> or the open dialog
  calls,      \* mutations, in the order they were sent
  promised,   \* the write of the user's that "data" has been told of
  moves       \* how many of the moves have been made

pageVars == <<scenario, place, visit, server, cache, stale, fetch, dialog, calls, promised, moves>>

Keys == {"data", "role"}
Idle == [step |-> "idle", known |-> "unknown", value |-> <<>>]

Here == Screens[scenario.screen]
Query(k) == IF k = "data" THEN scenario.query ELSE "memberList"

(* useOrgRole *)
RoleIn(c) == IF c.role = <<>> THEN "unknown" ELSE Head(c.role)
Shown(gate, c) == gate = "none" \/ can(RoleIn(c), gate)

(* The query is read where the user is: by the screen, or by another one   *)
(* if not by this.  The sidebar always reads the role.                     *)
Active(k, at) ==
  \/ k = "role"
  \/ (at = "screen") <=> (scenario.query \in DOMAIN Here.reads)

(* enabled *)
Enabled(k, at, c) ==
  /\ Active(k, at)
  /\ k = "data" /\ at = "screen" => Shown(Here.reads[scenario.query], c)

Ask(c) == [step |-> "asked", known |-> RoleIn(c), value |-> <<>>]

(* The requests that a screen sends by itself: for what is missing or old  *)
Requests(at, c, old, f) ==
  [k \in Keys |->
     IF Enabled(k, at, c) /\ f[k].step = "idle" /\ (c[k] = <<>> \/ old[k]) THEN Ask(c) ELSE f[k]]

(* Every behaviour is cut after MaxMoves. *)
Move == moves < MaxMoves /\ moves' = moves + 1

PageInit ==
  /\ scenario \in Scenarios
  /\ place = "elsewhere" /\ visit = 0
  /\ server \in [data : {0}, role : Roles]
  /\ cache = [k \in Keys |-> <<>>]
  /\ stale = [k \in Keys |-> FALSE]
  /\ fetch = [k \in Keys |-> Idle]
  /\ dialog = <<>>
  /\ calls = <<>>
  /\ promised = 0
  /\ moves = 0

-----------------------------------------------------------------------------
(* The cache                                                               *)

(* Slips a change of this code could make, for the run to reject: a        *)
(* request on its way is not given up, and (below) a pending call does not *)
(* disable its button.                                                     *)
ToldWithoutRestart(names) ==
  LET told == {k \in Keys : Told(names, Query(k))}
  IN [stale |-> [k \in Keys |-> stale[k] \/ k \in told],
      fetch |-> [k \in Keys |-> IF k \in told /\ Enabled(k, place, cache) /\ fetch[k].step = "idle"
                                THEN Ask(cache) ELSE fetch[k]]]

(* invalidateQueries: what is told is old; what is also read here is asked *)
(* for again, and a request on its way is given up if there is an answer   *)
(* to show meanwhile.                                                      *)
AfterTelling(names) ==
  LET told == {k \in Keys : Told(names, Query(k))}
  IN [stale |-> [k \in Keys |-> stale[k] \/ k \in told],
      fetch |-> [k \in Keys |-> IF /\ k \in told /\ Enabled(k, place, cache)
                                   /\ cache[k] # <<>> \/ fetch[k].step \in {"idle", "failed"}
                                THEN Ask(cache) ELSE fetch[k]]]

(* The backend answers a query, or refuses it. *)
ServeQuery(k) ==
  /\ fetch[k].step = "asked"
  /\ fetch' = [fetch EXCEPT ![k] = IF Permits(server.role, ReadNeeds[Query(k)])
                                   THEN [@ EXCEPT !.step = "answered", !.value = <<server[k]>>]
                                   ELSE [@ EXCEPT !.step = "refused"]]
  /\ UNCHANGED <<scenario, place, visit, server, cache, stale, dialog, calls, promised, moves>>

(* An answer arrives; a role may let the screen ask for more. *)
TakeAnswer(k) ==
  /\ fetch[k].step = "answered"
  /\ cache' = [cache EXCEPT ![k] = fetch[k].value]
  /\ stale' = [stale EXCEPT ![k] = FALSE]
  /\ fetch' = Requests(place, cache', stale', [fetch EXCEPT ![k] = Idle])
  /\ UNCHANGED <<scenario, place, visit, server, dialog, calls, promised, moves>>

(* A refusal, or a request that is lost more often than it is retried: the *)
(* screen shows an error, and keeps what it had.  (A role that is not      *)
(* answered stays what it was, as it does while the answer is on its way.) *)
FailQuery(k) ==
  /\ fetch[k].step = "refused" \/ (k = "data" /\ fetch[k].step = "asked")
  /\ stale' = [stale EXCEPT ![k] = TRUE]
  /\ fetch' = [fetch EXCEPT ![k] = [Idle EXCEPT !.step = "failed"]]
  /\ UNCHANGED <<scenario, place, visit, server, cache, dialog, calls, promised, moves>>

(* Retry, or the window is focused again with an answer older than its     *)
(* staleTime.                                                              *)
AskAgain(k) ==
  /\ Enabled(k, place, cache) /\ fetch[k].step \in {"idle", "failed"}
  /\ Move
  /\ fetch' = [fetch EXCEPT ![k] = Ask(cache)]
  /\ UNCHANGED <<scenario, place, visit, server, cache, stale, dialog, calls, promised>>

-----------------------------------------------------------------------------
(* The screen                                                              *)

(* The user comes to the screen, or goes elsewhere. *)
Come ==
  /\ place = "elsewhere"
  /\ IF visit = 0 THEN UNCHANGED moves ELSE Move
  /\ place' = "screen" /\ visit' = visit + 1
  /\ fetch' = Requests("screen", cache, stale,
                       [k \in Keys |-> IF fetch[k].step = "failed" THEN Idle ELSE fetch[k]])
  /\ UNCHANGED <<scenario, server, cache, stale, dialog, calls, promised>>

Go ==
  /\ place = "screen"
  /\ place' = "elsewhere"
  /\ dialog' = <<>>
  /\ fetch' = Requests("elsewhere", cache, stale,
                       [k \in Keys |-> IF fetch[k].step = "failed" THEN Idle ELSE fetch[k]])
  /\ UNCHANGED <<scenario, visit, server, cache, stale, calls, promised, moves>>

(* isPending of the mutations of the screen as it is mounted now *)
NeverPending(ops) == FALSE
Pending(ops) ==
  \E i \in DOMAIN calls :
     calls[i].visit = visit /\ calls[i].op \in ops /\ calls[i].step \in {"sent", "done", "refused"}

(* A screen shows its controls once its query has been answered. *)
Loaded ==
  scenario.query \in DOMAIN Here.reads => cache.data # <<>> /\ fetch.data.step # "failed"

Usable(c) == c.op \in scenario.ops /\ Loaded /\ Shown(c.gate, cache)

Send(c, known, opening) ==
  /\ Move
  /\ ~Pending(c.busy)
  /\ calls' = Append(calls, [op |-> c.op, step |-> "sent", known |-> known, visit |-> visit,
                             opening |-> opening, wrote |-> 0])

Press(c) ==
  /\ place = "screen" /\ Usable(c)
  /\ IF c.dialog
     THEN /\ dialog = <<>>
          /\ dialog' = <<[control |-> c, known |-> RoleIn(cache), opening |-> Len(calls) + 1]>>
          /\ UNCHANGED <<calls, moves>>
     ELSE Send(c, RoleIn(cache), 0) /\ UNCHANGED dialog
  /\ UNCHANGED <<scenario, place, visit, server, cache, stale, fetch, promised>>

(* The button of the dialog; an error on the screen hides the dialog. *)
Submit ==
  /\ dialog # <<>> /\ Loaded
  /\ Send(Head(dialog).control, Head(dialog).known, Head(dialog).opening)
  /\ UNCHANGED <<scenario, place, visit, server, cache, stale, fetch, dialog, promised>>

(* Escape closes a dialog whose call is pending, too. *)
Cancel ==
  /\ dialog # <<>>
  /\ dialog' = <<>>
  /\ UNCHANGED <<scenario, place, visit, server, cache, stale, fetch, calls, promised, moves>>

(* The backend does what it is asked to, or refuses.  A change of a member *)
(* may be of the user itself.                                              *)
ServeCall(i) ==
  LET op == calls[i].op
      writes == scenario.query \in Writes[op]
  IN /\ calls[i].step = "sent"
     /\ IF \A part \in Asks(op) : Permits(server.role, Needs[part])
        THEN /\ server' \in [data : {IF writes THEN server.data + 1 ELSE server.data},
                             role : CASE op = "updateMember" -> {server.role, "member"}
                                      [] op = "removeMember" -> {server.role, "none"}
                                      [] OTHER -> {server.role}]
             /\ calls' = [calls EXCEPT ![i].step = "done",
                                       ![i].wrote = IF writes THEN server.data + 1 ELSE 0]
        ELSE /\ calls' = [calls EXCEPT ![i].step = "refused"]
             /\ UNCHANGED server
     /\ UNCHANGED <<scenario, place, visit, cache, stale, fetch, dialog, promised, moves>>

(* A success arrives: onSuccess of the hook, wherever the user is, then    *)
(* the handler of the screen that sent it, which closes the dialog that is *)
(* open by now, or leaves.  Only a query whose last answer could be taken  *)
(* for a new one owes the user the write: one that has an answer, and no   *)
(* request on its way that nothing restarts.  invalidateQueries restarts   *)
(* what is enabled: not what no screen waits for, nor what the role of its *)
(* reader, gone since it was sent, would not send any more.                *)
TakeDone(i) ==
  LET call == calls[i]
      end == IF call.visit = visit /\ place = "screen" THEN Here.ends[call.op] ELSE "stays"
      after == AfterTelling(Tells[call.op])
      owes == /\ cache.data # <<>>
              /\ Enabled("data", place, cache) \/ fetch.data.step \notin {"asked", "answered"}
  IN /\ call.step = "done"
     /\ calls' = [calls EXCEPT ![i].step = "over"]
     /\ promised' = IF owes /\ call.wrote > promised THEN call.wrote ELSE promised
     /\ dialog' = IF end = "stays" THEN dialog ELSE <<>>
     /\ place' = IF end = "leaves" THEN "elsewhere" ELSE place
     /\ stale' = after.stale
     /\ fetch' = IF end = "leaves" THEN Requests(place', cache, stale', after.fetch) ELSE after.fetch
     /\ UNCHANGED <<scenario, visit, server, cache, moves>>

(* A refusal arrives, or no answer does: a message. *)
TakeError(i) ==
  /\ calls[i].step \in {"sent", "refused", "done"}
  /\ calls' = [calls EXCEPT ![i].step = IF @ = "refused" THEN "denied" ELSE "lost"]
  /\ UNCHANGED <<scenario, place, visit, server, cache, stale, fetch, dialog, promised, moves>>

-----------------------------------------------------------------------------
(* Other people *)

WriteElsewhere ==
  /\ Move
  /\ server' = [server EXCEPT !.data = @ + 1]
  /\ UNCHANGED <<scenario, place, visit, cache, stale, fetch, dialog, calls, promised>>

ChangeRole ==
  /\ Move
  /\ \E r \in Roles \cup {"none"} : r # server.role /\ server' = [server EXCEPT !.role = r]
  /\ UNCHANGED <<scenario, place, visit, cache, stale, fetch, dialog, calls, promised>>

PageNext ==
  \/ \E k \in Keys : ServeQuery(k) \/ TakeAnswer(k) \/ FailQuery(k) \/ AskAgain(k)
  \/ Come \/ Go \/ Submit \/ Cancel
  \/ \E c \in Here.controls : Press(c)
  \/ \E i \in DOMAIN calls : ServeCall(i) \/ TakeDone(i) \/ TakeError(i)
  \/ WriteElsewhere \/ ChangeRole

-----------------------------------------------------------------------------
(* Properties                                                              *)

Values(k) == IF k = "data" THEN 0..MaxMoves ELSE Roles \cup {"none"}
Known == Roles \cup {"none", "unknown"}

(* The type invariant.  No query is ahead of the database, and the user is *)
(* owed only what was written.                                             *)
PagesTypeOK ==
  /\ scenario \in Scenarios
  /\ place \in {"screen", "elsewhere"} /\ visit \in 0..MaxMoves + 1 /\ moves \in 0..MaxMoves
  /\ \A k \in Keys :
       /\ server[k] \in Values(k)
       /\ cache[k] = <<>> \/ Head(cache[k]) \in Values(k)
       /\ stale[k] \in BOOLEAN
       /\ fetch[k].step \in {"idle", "asked", "answered", "refused", "failed"}
       /\ fetch[k].known \in Known
       /\ (fetch[k].step = "answered") <=> (fetch[k].value # <<>>)
  /\ Len(dialog) <= 1 /\ (dialog # <<>> => place = "screen")
  /\ \A i \in DOMAIN calls :
       /\ calls[i].op \in scenario.ops /\ calls[i].known \in Known
       /\ calls[i].step \in {"sent", "done", "refused", "over", "denied", "lost"}
       /\ calls[i].visit \in 1..visit /\ calls[i].wrote <= server.data
  /\ cache.data # <<>> => Head(cache.data) <= server.data
  /\ promised <= server.data

(* Mutations that change what a query answers and do not tell it: a new    *)
(* version of an artifact and the list with its current number, a rule and *)
(* the list with the version of its pack, an answer to an invitation.      *)
Untold ==
  {<<op, "artifactList">> : op \in {"createVersion", "restoreVersion"}}
  \cup {<<op, "packList">> : op \in {"createPolicyRule", "updatePolicyRule", "deletePolicyRule"}}
  \cup {<<"acceptInvitation", q>> : q \in {"organizationList", "memberList", "invitationList"}}
  \cup {<<"declineInvitation", "invitationList">>}

(* query-keys.ts and the onSuccess of the hooks: what a screen shows as    *)
(* current includes every write whose success the user was told of, in     *)
(* whatever order answers arrive and wherever the user went meanwhile.     *)
OwnWritesShown ==
  /\ \A op \in scenario.ops : <<op, scenario.query>> \notin Untold
  /\ cache.data # <<>> /\ ~stale.data /\ fetch.data.step = "idle"
  => Head(cache.data) >= promised

(* What the interface offers to a role that the backend refuses: the form  *)
(* of an organization sends its slug always, which takes an owner, as the  *)
(* providers do; tags and the archive have no gate; invitations are read   *)
(* before the role is looked at.                                           *)
Unforeseen(name, role) ==
  \/ name \in {"updateOrganization", "patchOrgConfig", "patchOrgRouting", "orgConfigs", "orgRouting"}
       /\ role = "admin"
  \/ name \in {"addArtifactTag", "removeArtifactTag", "archiveArtifact"} /\ role = "viewer"
  \/ name = "invitationList" /\ role \in {"member", "viewer"}

(* permissions/rbac.ts against services/rbac.py: the backend refuses what  *)
(* the interface offered only if the role has changed since it was looked  *)
(* up, or is in the list above, or the user is no member.                  *)
News(name, known) ==
  \/ known # server.role /\ known # "unknown"
  \/ Unforeseen(name, server.role)
  \/ server.role = "none"

RefusalIsNews ==
  /\ \A i \in DOMAIN calls :
       calls[i].step = "sent" /\ calls'[i].step = "refused" => News(calls[i].op, calls[i].known)
  /\ \A k \in Keys :
       fetch[k].step = "asked" /\ fetch'[k].step = "refused" /\ place = "screen"
         => News(Query(k), fetch[k].known)
RefusalsAreNews == [][RefusalIsNews]_pageVars

(* An opened dialog does its operation once: it is sent again only after   *)
(* an answer that said no, or that never came.                             *)
SentOnce ==
  \A i, j \in DOMAIN calls :
    i < j /\ calls[i].opening = calls[j].opening /\ calls[i].opening # 0
      => calls[i].step \in {"denied", "lost"}
=============================================================================
