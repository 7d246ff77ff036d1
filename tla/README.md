# A TLA+ verification project for the AI-Powered DevOps Assistant

The repository is a web application: a FastAPI backend (`src/backend/app`) with
PostgreSQL, Redis and Celery workers, and a Next.js frontend (`src/frontend`)
whose server proxies to it and whose pages run in the browser. This directory
holds TLA+ models of the parts of both whose correctness depends on the order of
steps, TLC instances that check them, and TLAPS proofs that hold for every value
of the constants. `PROJECT.json` is the machine-readable index: which definition
stands for which lines, what each run checks, which change of the code each
property rejects, the hazards, the findings and the theorems.

## 1. Inventory

Every API request runs in one database session and one transaction, opened,
committed or rolled back by `get_db` (`core/database.py`), at PostgreSQL's READ
COMMITTED. Sessions do not expire their rows on commit and do not autoflush:
a row read once is not read again, and an UPDATE writes the changed columns
by id, whatever has happened to the row since. Most of what can go wrong in
the backend follows from these two facts. In the browser everything is one
thread, but every call is a gap: what a handler, an effect or a cache entry was
computed from may have changed when its answer arrives.

| Component | State | Operations | Interacts with | Hard behaviour | Modelled by |
|---|---|---|---|---|---|
| Background tasks (`task_service`, `log_analyzer`, `workers/tasks`) | `background_tasks` and `log_analyses` rows, messages on the broker, revoked ids | enqueue with idempotency key, cancel, run, fail, retry, mark, clean up | broker and worker | message before commit, cancel against verdict, retries, lost workers | `BackgroundTasks` |
| Sessions: refresh tokens (`auth_service`) | `refresh_tokens` rows linked into families, the user row | login, refresh, reuse detection, logout, logout of all, password change, deactivation | every authenticated request | concurrent rotation, reuse, sweeps against rotations | `RefreshTokens`, `TokenFamilies` |
| Browser session (`app/api`, `lib/auth`, `middleware.ts`, auth provider) | two cookies, requests in flight, the tabs | proxy with one refresh on 401, login, logout of one and of all, password change, session revocation, routing of pages | sessions | requests that refresh with one cookie, responses that arrive late or never, several tabs | `BrowserSession` |
| One-time e-mail tokens (password reset, verification, e-mail change) | token rows with `used_at`, the pages of the mailed links | issue, use, expire, open, try again | sessions | two working links, two uses at once, lost answers | `EmailTokens` |
| Organizations (`organization_service`, `rbac`) | membership rows with a role, the organization | create, add, change role, remove, leave, delete | invitations, authorization of everything else | stale authorization, owner counts without locks | `Organizations` |
| Invitations (`invitation_service`) | `organization_invitations` rows and their token hash | invite, resend, revoke, accept, decline, expire | organizations, e-mail | old links, settled invitations, blind writes | `Invitations` |
| Artifacts and versions (`artifact_service`) | the artifact row (content, current version, deleted, archived) and version rows | create, add version, restore, archive, delete, generate | generators | version numbers, deduplication, two copies of the content | `Artifacts`, `DocumentHistory` |
| Streamed chat (`chat_service`) | the queue between two asyncio tasks, the message rows | prepare, produce, consume, disconnect, cancel, persist | LLM gateway, HTTP server | disconnection at any step, cancellation inside a commit | `ChatStream` |
| The chat page (`use-streaming-chat`, `chat-workspace`, `lib/sse`) | the visible run, its token buffer, drafts, the query of the conversation | ask, stop, retry, open, delete, read chunks, flush | streamed chat | a delayed flush against the final event, streams that end early, late loads, chunks cut anywhere | `ChatClient`, `SseParser` |
| LLM gateway (`gateway`, `provider_service`, `provider_circuit_breaker`, `usage_quota_service`) | breaker data in Redis and in each process, usage events, provider configuration | admit, route, call, record, fall back, charge | Redis, providers, chat and generators | lost updates, Redis out of reach, quota checked before it is charged | `LlmGateway` |
| Screens of the web interface (organizations, members, artifacts, tags, policies, providers, usage, tasks, audit, settings) | the query cache, the role, open dialogs, calls in flight | read, mutate, invalidate, come and go | every API | answers older than a write, changed roles, double submission | `WebApi`, `WebScreens`, `WebPages` |
| Edit forms | cached answer, draft, patch | open, type, submit, refill | the query cache | refetches under a draft, submissions from old forms | `WebForms` |
| Paged lists, the address of the artifact list | page, filter, workspace; history entries | filter, turn, switch workspace; navigate | query cache, router | a page index that outlives its list; two copies of one state | `WebLists`, `ArtifactsUrl` |
| Generators, security review, policy evaluation | the form, its save options, the request, the outcome | tick, switch, submit, save, evaluate | artifacts, policy packs | options copied before the workspace or the role changes | `WebGenerators` |
| Log analysis page | submissions, the polled task, the result shown | paste, upload, queue, poll, switch workspace | background tasks | answers in any order write one result | `WebLogs` |
| Rate limiter (`core/rate_limit`) | a sorted set in Redis | count and admit | every request | one atomic script; members collide in one millisecond | no |
| Onboarding, dashboard, audit log, e-mail delivery, JWT, headers, metrics, migrations | | | | flags, aggregates, I/O, conversions | no |

What makes each component correct, in words:

* **Tasks.** One run of a task at a time; a verdict (succeeded or failed) appears
  only when nothing carries the task any more and agrees with its analysis; a
  cancel that every actor could see stays; a delivered task settles.
* **Sessions.** A family has at most one live refresh token; tokens form a chain;
  a revoked token is never rotated; a family that has ended does not come back;
  seen from outside every login, rotation and revocation happens at once.
* **Browser session.** An idle browser never holds a rotated token; a sign-out ends
  the session on both sides; a password change ends all others and keeps this one.
* **E-mail tokens.** A link works once, only the last one works, and its page
  tells the truth.
* **Organizations.** Owners come from owners; an organization does not lose its
  last owner (it does under overlap: a finding).
* **Invitations.** A link makes one member, and who joins holds the current link of a
  pending invitation.
* **Artifacts.** Version numbers never collide; the content column is the current
  version's; a deletion is final; together, an artifact is a document whose history
  only grows.
* **Chat.** Only whole answers are persisted; `completed` is sent only for what is
  persisted; a client that stays is told the end; the page shows as an answer only what a
  reload would show, never stays busy, and reads a stream the same however it is cut.
* **Gateway.** Circuits open only for failures and can recover; the quota is
  overshot by no more than the requests in flight.
* **Web interface.** A screen that calls its data current shows the user's own writes;
  a dialog sends its operation once; a refusal is news, not a wrong gate; forms do not
  undo their user's own edits; a list that says it is empty is; the artifact list is
  what its address says; what a generator made was saved and judged as asked; the
  analysis shown is that of the last log.

## 2. Plan

Modules in the order they were written, most important behaviour first. All of these
are done:

1. `BackgroundTasks`.
2. `RefreshTokens`.
3. `Organizations`; `Invitations` EXTENDS it, so that invitations and membership
   requests interleave on the same rows; `InvitationsProofs` is about both.
4. `DocumentHistory` (abstract), `Artifacts` (detailed, implements it by
   `INSTANCE DocumentHistory WITH`). `SessionsArtifactsProofs` is about it and
   `RefreshTokens`.
5. `ChatStream`.
6. `LlmGateway`; `TasksGatewayProofs` is about it and `BackgroundTasks`.
7. `TokenFamilies` (abstract), which `RefreshTokens` implements and `BrowserSession`
   EXTENDS: the browser is checked against what the token service promises, and the
   token service is proved to keep it. `BrowserSessionProofs`.
8. `ChatClient` EXTENDS `ChatStream`: the page with the stream it reads; `SseParser`
   is the text between them. `ChatProofs` is about the stream and the page, `SseProofs`
   about the text.
9. `EmailTokens`, `EmailTokensProofs`.
10. The web interface: `WebApi` (tables of keys, roles and operations), `WebScreens`
    (tables of screens), `WebPages` (what one screen does with them); then `WebForms`,
    `WebLists`, `ArtifactsUrl`, `WebGenerators` and `WebLogs`. `WebProofs` is about all of
    them, as `MCWeb` runs them.

What could follow: an abstract specification of the chat page (a conversation that
grows by whole exchanges) which `ChatClient` implements; the same for `BrowserSession`
(a session that one sign-out ends); what the two owners of `orgs_last_owner_race` would
need, a lock or a recount, as a variant of `Organizations` that is proved to keep an
owner; several streams in one conversation, and the routing of the gateway while
administrators write.

The runs are few and each asks a distinct question. Components that share no state but
need the same instance sizes share a run: a behaviour is about one of them and the
variables of the other stay as they began (`MCTasksGateway`'s `scene`,
`MCSessionsArtifacts`' `table`, `MCWorkspace`'s `cast`, `MCWeb`'s `machine`,
`MCBrowserSession`'s `room`).

## 3. The modules

### BackgroundTasks

`status` and `analysis` are the committed columns. A request (`req`) or a worker
(`worker`) holds what it has read (`seen`) and flushed in its own record.
`CreateTask`, `Publish`, `CommitEnqueue` are `enqueue_async`; `ReadForCancel`,
`FlushCancel`, `CommitCancel` are `cancel_task`; `Receive` to `Succeed`, `Retry` and
the orphan steps are the Celery task; `CleanupExpiredTasks` is the cleanup. They follow
the order in which the code reads, sends, flushes and commits. The message leaves before the
commit, as `enqueue_async` sends it. The broker delivers once: Celery acknowledges a
message when it is taken (`task_acks_late` keeps its default), and a retry is published by
the worker itself, up to `celery_max_retries`. Redis' redelivery after its
visibility timeout is left out: the hard time limit of a task (600 s) is far below it
(3600 s) and a worker prefetches one message. `SoftTimeLimitExceeded` is not a path
of its own: the inner `except Exception` of the task takes it like any other
failure. Cleanup deletes what is old enough, and nothing in flight is.

### RefreshTokens

One transaction for each request. `FOR UPDATE` is a lock held to the end
of the transaction; the bulk UPDATE of a revocation picks the rows that were committed
when it started and waits for locked ones. The reuse path revokes the family and
records an audit event and then raises, which rolls both back. The lock on the user
row that password changes take serialises them. Access tokens are stateless; the
browser's are in `BrowserSession`.

### TokenFamilies and BrowserSession

`TokenFamilies` has three actions, each a commit of `RefreshTokens`: issue, rotate,
revoke a set. In `BrowserSession` a call carries the cookies the jar held when it was
sent; its handler (`app/api/bff`, `app/api/auth`, `upstream.ts`) answers, refreshes once
on a 401 and retries, or gives up, and what it sets or clears reaches the jar with the
response, which may be lost. A retry that throws after a successful refresh
(`app/api/bff/[...path]/route.ts:182`, `upstream.ts:161`) drops the `Set-Cookie` with
the exception; the model reaches that as a lost response, so wherever a property excepts
"a response was lost" this case is meant too. `lapsed` is the clock: access tokens live equally long, so
the older ones are past their end. Beside the jar, a tab has the user its auth provider
shows, the page it is on (`middleware.ts` sends it by the cookies) and a storage event
that tells it of a sign-out elsewhere. `trouble` is a history variable: whether requests
have overlapped, a response was lost or the backend failed, which is what the
properties except.

### EmailTokens

A request for a link selects what is unused, marks it, inserts the new token, mails it
and commits, in separate steps; `CommitIssue` makes its writes visible at once. A use
locks the token's row (`get_by_hash_for_update`), tests it and commits or rolls back.
`purpose` tells the three kinds apart: a verified user gets no further link, and the
address of an e-mail change may be taken meanwhile. `overlapped`, `opened` and
`applied` are history. What a use does to the sessions is `WriteUser` and `SweepAll` of
`RefreshTokens`.

### Organizations and Invitations

Reading the actor's row, reading the target's row, counting owners, and writing with
the commit are separate steps; nothing is locked. An UPDATE of a row that is gone
fails, a DELETE of one does nothing. Names and slugs are left out: they decide nothing
here. `Invitations` adds the invitation rows, their links (`resend` replaces the
link), expiry, which is committed before the request raises, and acceptance, which
locks the row by the hash of its token. `resend` and `revoke` read without a lock and
write blindly. The mail leaves before the commit.

### DocumentHistory and Artifacts

`DocumentHistory` is what an artifact promises: a history of texts that only grows, a
current text that is one of them, and an end. `Artifacts` has the row lock of
`add_version`, `restore_version` and archiving, the check of `deleted_at` after the
wait, the numbering by the maximum, deduplication by content hash (which points the
artifact back to an existing version), the restore that always appends, and the
deletion that reads without the lock and waits for it with its UPDATE. `Generate` is
a generator that was not asked to save: an artifact without any version.

### ChatStream

The generator (`iter_stream_events`) and the task it creates (`produce_tokens`) share
an unbounded queue. A cancelled task does nothing but its `CancelledError` handler; a
COMMIT that was already sent may still take effect, a flush that was not committed
does not. The server cancels the response of a client that is gone (`Interrupt`) in
addition to the check between events. `ProviderEnds` is `[DONE]` and also the end of
the body, which the code does not tell apart.

### ChatClient and SseParser

`ChatClient` EXTENDS `ChatStream`: the user asks up to `MaxRuns` questions, each a
stream of its own, and `persisted` keeps every conversation. The page reads the
events of a chunk in one step (`Read`) with the render and effects that follow,
collects tokens in a buffer that a timer flushes, keeps drafts until the query of the
conversation has loaded, and is mounted anew by every change of address but
`history.replaceState`. The user stops, retries, opens and deletes conversations; the
network may fail.
`SseParser` is the text below that: a body of symbols that arrives in chunks of any
length, `parse-sse.ts` with its `buffer` and `fields`, the validation of `chat-stream.ts`,
and the loop of `readChatSseBody`. Each loop of the code (`Cut` and `Through` for
`consumeCompleteLines`, `Hear` for the events of a chunk) is a function of the number of
its rounds. `ParsedAsWhole` compares the parser with `EventsOf`, a definition without
state: a text is cut at its line feeds, its lines at the blank ones, and each block says
what its lines say together. `ReadAsSent` compares what the page has heard with the frames
of the backend (`Frame` is `encode_sse`, `TextOf` the answer of `iter_stream_events`).

### LlmGateway

A step ends where a request awaits Redis, the database or the provider: `is_open` is
two reads and perhaps a write, `_save` writes the process's memory and then Redis,
`record_*` loads, computes and saves. `_load` falls back to the memory of the process
when Redis cannot be reached or has no key. A stream never tells the breaker how it
ended. The quota is a number of requests; the usage event commits with the answer. The
rows of administrators (provider switches, routing policy) are fixed during a
behaviour and are one of `Configs`. The token limits and the monthly window work like
the one limit that is modelled and are left out.

### The web interface

`WebApi` and `WebScreens` hold no state: they are the tables of the frontend, each row
translated from the code it maps to. `WebApi` has the query keys, what each mutation
writes in the backend and which keys its `onSuccess` invalidates, the roles and
permissions on both sides and what each operation needs; `WebScreens` has, for each
screen, the queries it reads and under which gate, its controls and dialogs, what
disables them, and what a handler does afterwards.

* `WebPages` runs one screen against a server: one query that the operations write
  (`data`, a number that grows with every write) and the members, from which the role is
  read. The cache follows React Query as `query-provider.tsx` configures it: invalidation
  asks again for the queries that the screen reads, giving up a request on its
  way; the others are read again when a screen that reads them is mounted. Others
  write and change the user's role.
* `WebForms` is a form over a record with a required and an optional field: filled
  from the cache, typed in, sent as a patch of the fields its code sends, refilled when
  its data changes. `FormTable` says which forms close, stay or wait, and what a blank
  field does.
* `WebLists` is a paged list: page, filter (at once or debounced) and workspace make
  the key of the query; rows come and go.
* `ArtifactsUrl` is the artifact list with its address: local state, a debounced search,
  a frame callback that copies the address, navigations that arrive later, and the
  browser's history.
* `WebGenerators` is a generator or the review: the options (save, validate, packs) that
  are copied when ticked, the workspace and role that change, the call, what the
  backend saves and evaluates.
* `WebLogs` is the log page: synchronous, uploaded and queued analyses, polls, and
  the one result they write.

`MCWeb` instantiates these six, `SseParser` and `EmailTokens`; a behaviour is about one of
them. What the code is known to allow is an explicit set or disjunct in the property
(`Untold`, `Unforeseen`, the cases of `EmptyMeansNone` and so on) with a comment; section
7 lists them in words.

## 4. The runs

| Run | Module | What it shows | Distinct states |
|---|---|---|---|
| `tasks_and_gateway` | `MCTasksGateway` | 2 tasks, 2 requests, 2 workers, 1 key, 1 retry, aborts and lost workers: one run at a time, no verdict while carried, verdict and analysis agree, a seen cancel sticks, verdicts are final but for a cancel that read the task before. 2 calls, 2 processes, 2 providers, a fault: breaker and quota | 5 274 812 |
| `tasks_live` | `MCBackgroundTasks` | no aborts, one worker: `DeliveredTasksSettle` under fairness | 239 558 |
| `tasks_publish_before_commit` | `MCBackgroundTasks` | violation: the worker looks for rows that are not committed yet | counterexample |
| `tasks_cancel_lost` | `MCBackgroundTasks` | violation: a committed cancel overwritten by a verdict | counterexample |
| `sessions_and_artifacts` | `MCSessionsArtifacts` | 3 requests on up to 3 tokens: one live token, chain, refinement of `TokenFamilies`. 3 requests, 3 texts, 5 versions: numbers, refinement of `DocumentHistory` | 1 374 548 |
| `tokens_reuse_not_revoked` | `MCRefreshTokens` | violation: a reuse leaves the family's live token live | counterexample |
| `workspace` | `MCWorkspace` | 3 users, 3 rows, 2 membership requests: the last owner stays as long as requests have not overlapped. 1 invitation with 2 links, 2 handlers and a membership request: single use, only the current link joins, owners come from owners or their invitations | 1 934 564 |
| `orgs_last_owner_race` | `MCOrganizations` | violation: two overlapping removals leave no owner | counterexample |
| `chat` | `MCChatClient` | 2 questions, 2 chunks, all interruptions of stream, page and network: the safety and liveness of the stream and of the page that shows it | 470 581 |
| `browser_session` | `MCBrowserSession` | overlapping requests of one tab on 2 token pairs, single requests on 3 pairs, single requests of 2 tabs: cookies against tokens | 833 450 |
| `web` | `MCWeb` | the eight machines of the web interface: 13 properties | 2 649 485 |
| `web_empty_packs_ignored` | `MCWeb` | violation: no pack ticked means no evaluation, not all packs | counterexample |

The passing runs fire every action. `CHECK_DEADLOCK FALSE` stands where the modelled
system may stop: all tasks and tokens used up, an artifact deleted, a page left idle.

### Why the bounds are enough

* Two tasks let one be cleaned up or found by its key while another runs; one retry
  gives two runs of one task; two workers let both want one message.
* Three tokens are a login and two rotations, so that the oldest is two generations
  behind; three requests are a rotation, a reuse and a revocation at once.
* Three users on three rows: two owners who race and a third who is neither, and rows
  that leave and come back. The behaviours with invitations have one membership request
  at a time and two users, so the organization without an owner that two overlapping
  requests can reach is one of their initial states (`OrphanedInit`).
* Three texts make a version that differs from both the current and the deduplicated
  one; five versions hold two restores of one text; three requests hold the lock, wait
  for it, and delete.
* Two chunks and two questions: a stream with none, one and more than one token in its
  queue; a stopped run and the one after it, in the same conversation or another.
  The proofs cover answers of every length and any number of questions.
* Threshold 2 needs two failures to open, three let a circuit open again after its
  recovery; two processes have different memories; one fault separates them from Redis.
  Quota 1 with two calls is the overshoot; the two configurations contain a fallback,
  a duplicate in the policy, switches of organization and platform, a caller who names
  a provider, and a default without credentials.
* In the browser two overlapping requests are what a shared cookie needs, three pairs
  are a session that is rotated twice, two tabs are one that signs out and one that
  hears of it. The three do not combine into a new case: a third pair needs no
  overlap, and tabs share nothing but the jar and the event. The proofs need neither
  bound: they are about any number of tabs, requests and pairs together.
* A screen is followed with the operations that exclude one another and one query at a
  time, over all screens and all pairs of operation and query; two moves are a write
  and a return, or a write of the user and one of somebody else. Forms have two texts to
  tell an own edit from another's; lists two workspaces, two filters and three acts;
  the address two searches, two pages and four acts; mail links two requests, two uses,
  two links and two tries.
* `SseParser` reads four bodies with every construct of the format and three answers of
  the backend, cut at every symbol; the proofs are about any body and any answer.

### Fairness

`tasks_live` assumes weak fairness of the steps of a request once it has begun and of
the workers, which Celery and the event loop run until they return; users need not
cancel, nothing needs to be retried, and no fault is assumed to end. `chat` assumes weak
fairness of the admission, of the two tasks of the stream (provider calls have timeouts,
the database answers or fails, the event loop runs what is ready), of the page reading
what has arrived and of its flush timer. Nobody has to ask, stop, open or leave, and the
network need not fail. The other runs check safety only and assume nothing.

`DeliveredTasksSettle` excepts tasks that were cancelled: a cancel that
`mark_running` overwrites is followed by the revoke, which discards the retry, and
such a task stays running for ever.

## 5. The proofs

All theorems but the refinements are of the form `Spec => []Inv` or `Spec => [][A]_vars`,
for any number of requests, workers, users, providers, links and values, from the named
assumptions on constants in the modules. Each rests on an inductive invariant that is
itself proved initial and preserved, one step for each action; TLC finds it
to hold on the instances of section 4 (that of the generators on one organization and
four steps; its sets are large).

| Module | Theorems | Inductive invariant |
|---|---|---|
| `TasksGatewayProofs` (`BackgroundTasks`) | `TypeCorrect`, `SingleRun`, `CarriedUndecided`, `VerdictsAgree`, `CancelIsRespected`, `VerdictsStay` | the type; `CarriedIsOpen`: what a message or a worker carries is undecided, not analysed and not aged; `CreatingOwns`, `FreshIsUnused`, `AbsentIsUntouched`: an id belongs to the one request that creates it until its message is out; `LoadedIsPresent`, `FailingIsNotCancelled`: whoever has loaded a row finds it committed. `OneRunPerTask` and `VerdictMatchesAnalysis` are not inductive without them: a second carrier or a half-written verdict could come from an id that two requests use |
| `TasksGatewayProofs` (`LlmGateway`) | `OpensForFailures`, `OpenCircuitsRecover`, `QuotaOvershoot`, `GatewayTypeCorrect`, `NoProviderTwice` | `StoresInv`, `RequestsInv`: every copy of breaker data, in Redis, in a process or in the hands of a request, is sound: at most as many failures as were recorded, open only at the threshold and with a time that has come, closed only below it. Saves that overtake each other lose counts, but only ever replace sound data by sound data. The quota needs the number of admitted requests on top (`CountersInv`). For the type and the fallback, `ChainOfPolicy`: what the loop over the policy computes is never empty and names no provider twice, by induction over its rounds; and `ChainSound`: a request has a provider left wherever the code takes the first one |
| `SessionsArtifactsProofs` (`RefreshTokens`) | `TypeCorrect`, `SingleLiveToken`, `ChainCorrect`, `RevocationIsFinal`, `EndedSessionsStayEnded`, `RefreshTokensImplementFamilies` | the type; `NewIsOwned`, `FreshIsUncommitted`: a new token belongs to one transaction; `RotationHoldsLiveToken`: the row lock, a token is rotated by one request and stays live for it; `FamilyIsRooted`, `UsedIsLinked`: families and links point at committed rows. `OneLiveToken` needs the lock, `RotationChain` the links. The refinement of `TokenFamilies` needs the lock too, and `TargetsAreCommitted`: a revocation writes only rows that were committed when it read them. With it, what `BrowserSession` assumes of the token service is a theorem |
| `BrowserSessionProofs` | `SessionTypeCorrect`, `IdleJarIsUnspent`, `SigningOutEndsTheSession`, `PasswordChangeSignsOthersOut`, `PasswordChangeSparesThis` | the type; `InOrder`, `FamilyInv`: tokens are issued in order and a family has one that was not rotated; `Known`, `Shapes`: what the jar and the requests carry was issued, and what a call holds follows its step; `Fresh`: the pair that a response brings is unused and only that response has it; `Carried`: a spent token in the jar is about to be replaced, which is `JarNeverUsed` for an idle browser; `Alone`: requests that do not overlap act on the jar's own token; `Ended`, `Swapped`: what an answered sign-out or password change leaves in the backend until its response is taken. For any number of tabs, slots and tokens (`SessionAssumption`), overlapping or not: the `room` of the run only bounds it |
| `InvitationsProofs` (`Organizations`) | `TypeCorrect`, `OwnersComeFromOwners`, `SequentialOwnerProtection` | the type and `GrantIsAuthorized` (a request that is about to make an owner was authorized as one) for the first two. `SequentialOwnerProtection` assumes that no two requests overlap (`Requests` has at most one member) and proves that an owner remains, from `Sequential`: rows are distinct and what the request has read is still current; with two requests it is false, which `orgs_last_owner_race` shows |
| `InvitationsProofs` (`Invitations`) | `InvitationTypeCorrect`, `InvitationUsedOnce`, `CurrentLinkJoins`, `OwnersAreInvitedByOwners`, `OwnersRemainAmongInvitations`, `OwnersRemainAlone` | the type of both modules; `RowsExist`: requests name rows that were made; `AcceptsPending`: the row lock, one acceptance at a time, of a pending invitation by the link it has; `PendingUnjoined`: what is pending has made no member. `SingleUse` is not inductive without the lock: two acceptances of one row, or one of a row that a revocation settled meanwhile, would both join. `OwnersRemainAmongInvitations` assumes one membership request at a time, as above, among any number of invitations: `Sequential` holds on because the row an acceptance writes is a new one (`RowsBelow`) and takes no owner away. `OwnersRemainAlone` is the same of any number of requests until two have overlapped, in `MCWorkspace`, whose history tells (`overlapped \/ AloneIInv`) |
| `SessionsArtifactsProofs` (`Artifacts`) | `ArtifactTypeCorrect`, `NoCollision`, `CurrentContent`, `DeletedForGood`, `ArtifactIsADocument` | type, lock, the plan of a request that holds the lock, and the history; the last theorem is the refinement of `DocumentHistory` |
| `ChatProofs` (`ChatStream`) | `TypeCorrect`, `WholeAnswersOnly`, `NoLateCommit`, `CompletedMeansPersisted` | the type, `TaskInv` (which states the two tasks can be in together) and `AnswerInv` (what the answer holds at each); for the last theorem `EventInv` on top: how many events have been sent and queued for how many chunks, and where in the queue `completed` stands |
| `ChatProofs` (`ChatClient`) | `ClientTypeCorrect`, `ShownAnswersArePersisted`, `StreamsOfThePage` | all of the above and `OrderInv`: what is sent begins with the conversation, then the tokens in order, then at most one end; `PastInv`: conversations have the number of the run that began them and are never begun again; `RunInv`: a page with a run is in the conversation of the run; `BufferInv`: shown text and buffer together are the tokens read so far; `KeptInv`: the committed message, and every answer that is shown, is in its conversation while there is one. A completed answer is shown from the buffer and never read back, so that it is what the server stored needs the order of the events, not only their number. `StreamsOfThePage` carries the stream's own theorems over to every stream of the page |
| `SseProofs` | `StreamIsRead` | `SseIInv`: buffer, fields and events of the parser are those of the text that has arrived, read in one piece (`Parsed(Arrived)`), and the page has heard those events; after the end they are those of the text with a blank line behind it (`FlushEnds`: the flush reads two more line feeds). `PushContinues` is the step: what the loops make of a text that is continued is what they make of the rest, from where they stood. From the invariant `ParsedAsWhole` follows by comparing the parser with `EventsOf` symbol by symbol (`ParsedAtOnce`), `ReadAsSent` by following the eight symbols of a frame (`FrameTable`, `FrameRead`) and then the frames of an answer (`AnswerParsed`, `HeardAll`) |
| `EmailTokensProofs` | `MailedLinksWorkOnce`, `PagesAreTrue`, `MailTypeCorrect` | `Drafts`: a drafted link is one request's and nobody has seen it; `LocksHold`: a link in use is unused, by one request, and not being replaced; `Applied`: what can still be used was not; `Unseen`: a link that a request has not seen was committed beside it, which is what leaves two that work. For the pages: `Waiting`: a page waits for a use of its own link and no other page for the same; `OpenedOnce`: what was opened once has one page, whose request is the only one; `Told`: what is done was applied, and a page says so or is about to be told. `MailTypeCorrect` adds `Counted`, for a number of tries in `Nat` |
| `WebProofs` (forms) | `AcceptedFormsShown`, `OwnEditsKept` | `FormIInv`: a submission that nobody interfered with is the record once it is served (`AcceptedInv`); what the user set last is in every answer that is not known to be old, and in the untouched fields of the form (`OwnInv`) |
| `WebProofs` (address, lists) | `ListsFollowAddress`, `EmptyListsAreEmpty` | `AddressIInv`: what is to be copied is the address, and a search that has rested is in the address or on its way there; `ListIInv`: a page but the first was turned to when the list was longer, under the filter that is shown |
| `WebProofs` (generators, logs) | `MadeAsTheFormAsked`, `ShownAnalysisIsCurrent` | `ToolIInv`: a request asks for what its form had ticked, and makes only that; `LogIInv`: what is on its way is the last submission or an upload, and was not over at a change of workspace |
| `WebProofs` (screens) | `OwnWritesAreShown`, `DialogsSendOnce`, `OffersAreGranted` | `PageIInv`: shapes; `Budget`: writes done and calls on their way together stay within the moves, which types `data`; `DialogInv`: the open dialog is of a control of the screen and has sent at most what failed; `OfferInv`: what is asked for was offered under the role known then; `PromiseInv`: what is taken for current, and an answer on its way, has every write the user is owed. Lemmas evaluate the tables of `WebApi` and `WebScreens` once: which permission each operation and each query needs, who has it, and that each control is gated by at least that much |
| `WebProofs` (mail, stream, all) | `LinksOfMailWorkOnce`, `LinkPagesAreTrue`, `AnswersAreRead`, `WebTypeCorrect` | the invariants of `EmailTokensProofs` and `SseProofs` under `MCWeb`'s instances; `WebIInv`: the machine a behaviour is about has its invariant, and only that machine moves |

Every invariant and every action property of the passing runs is stated by a theorem; what
is left to TLC is liveness. The other way round, `RevocationIsFinal`, `EndedSessionsStayEnded`,
`OwnersComeFromOwners`, `SequentialOwnerProtection`, `OwnersRemainAmongInvitations`,
`CurrentContent`, `DeletedForGood`, `OpensForFailures`, `NoProviderTwice` and the types of
the components are about properties that stand in no run: they are proved outright. The theorems of
`EmailTokensProofs` are about the definitions in `EmailTokens` that `MCWeb` instantiates;
`StreamsOfThePage` and `CompletedMeansPersisted` state the same properties, of the page's
streams and of one by itself.

`WebProofs` is about `MCWeb`'s specification, with the tables of the code as they are and
the rest arbitrary: numbers of moves, texts, rows, pages, organizations, submissions,
links and requests. What it assumes of them is named there: `BoundsAssumption` (bounds are
numbers), `FormsAssumption` and `ToolsAssumption` (forms and tools are rows of their
tables, no text is called "null"), `ListsAssumption` and `AddressAssumption` (a list opens
with one of its filters, the empty address is an address).

`StreamIsRead` is about any set of symbols `A`, any bodies over it and any answers whose
terminal event is the last one, as `iter_stream_events` leaves its loop after
`completed` and `error` (`TextsOK`); `AnswersAreRead` has `MCWeb`'s texts and answers.
Both properties are about loops over texts of any length and so need induction. The
library's induction theorems take an operator as their parameter, which the provers cannot
instantiate; `SseProofs` states induction on numbers and on sequences as facts about sets
instead (`NumberInduction`, `SequenceInduction`, from the least element of a set of numbers,
`LeastElement`), and from them that a loop has a value after every round (`LoopHasValues`).
`TasksGatewayProofs` does the same for the loop of `PolicyChain`.
`WebProofs` proves of each definition that `MCWeb`'s instance of `SseParser` and the one of
`SseProofs` are the same (`SameSymbols` to `SameEvents`), since names of two instances
are different to the provers.

What the proofs corrected. `OwnWritesShown` was false beyond the bound of its run: the
invariant could not be preserved by a mutation that succeeds while the answer of a query
is on its way and the role that showed the query's panel has been lost. The panel is gone,
so `invalidateQueries` does not repeat the request, and its old answer clears the
invalidation; with four moves instead of two TLC finds it too. `TakeDone` now says what a
write owes the user (`owes`), and section 7 lists the case. Two expressions were
rewritten without a change of meaning, since the provers know nothing of TLC's `@@`: the
tables of `WebApi` and `WebScreens` are joined by `++` and `Stored` in `ChatClient`
is a function constructor. The loops of `SseParser` and of `PolicyChain` are recursive
functions of the number of rounds, in which an induction can follow them.

Only model-checked: the liveness properties `DeliveredTasksSettle`, `ClientsAreTold` and
`RunsEnd`, which need fairness and `ENABLED`.

## 6. Findings

Five runs violate what the repository says of itself; each lists the quoted sentence in
`PROJECT.json`.

1. `tasks_publish_before_commit` - the Celery message is sent before the transaction
   that makes its rows commits (`log_analyzer.py:282` and `:295`). A fast worker finds
   nothing and drops the message; the task stays queued.
2. `tasks_cancel_lost` - `mark_succeeded` tests a status that was loaded before the LLM
   call (`task_service.py:311`), and overwrites a cancel committed since.
3. `tokens_reuse_not_revoked` - the family revocation on reuse is rolled back by the
   error that reports the reuse (`auth_service.py:178`).
4. `orgs_last_owner_race` - two owners who remove or demote each other at once both
   count two (`organization_service.py:314`).
5. `web_empty_packs_ignored` - "Leave empty to use all active packs for the
   organization" (`save-options-fields.tsx:184`), but the helper evaluates nothing when
   no pack is ticked (`generator_artifact_helper.py:50`).

## 7. Races without a run

The models reach the following behaviours, and a maintainer should know of them. No
property forbids them: where one would, it excepts them, so the property shows what
holds beside them and not that they are absent. Items 2, 6, 7, 14, 16 and 18 cite a doc
or a comment that speaks against them and have no run of their own; for the others
nothing in the repository was found that says they cannot happen.

In the backend:

1. Two overlapping requests with one `Idempotency-Key` find no task and make two
   (`task_service.py:143`: a lookup, no unique constraint). A cancel that read the task
   before its verdict writes CANCELLED over the verdict (`task_service.py:254`), and
   `mark_running` writes RUNNING over a cancel that committed after the worker loaded
   the row (`:294`), which is a second way to the outcome of finding 2.
2. Logout of all sessions: a rotation that commits while the sweep's UPDATE waits for
   its row leaves a successor the sweep did not see, and it stays live
   (`auth_service.py:269`; compare `docs/authentication.md:67`).
3. An admin's removal or demotion hits a member who was promoted to owner after the
   admin's request read the role (`organization_service.py:211`, `:213`).
4. A revocation overwrites an acceptance that committed after the revocation read the
   row: the invitation reads revoked, the user is a member
   (`invitation_service.py:201`, `:204`).
5. Two overlapping invitations of one e-mail are both active, and the next lookup, which
   expects at most one, raises (`invitation_service.py:70`, `:72`).
6. A generator that was not asked to save makes an artifact with content and no version;
   its first `add_version` replaces the content, which is then nowhere
   (`docker_generator.py:170`, `artifact_service.py:417`). Migration 002 gives older
   artifacts a version 1, and `backend/README.md:227` speaks of version history for
   generated artifacts.
7. A client that leaves, or a database connection lost, between the commit of an answer
   and the `completed` event leaves a persisted answer of a stream that reads cancelled
   or failed (`chat_service.py:232`; compare `backend/README.md:398`).
8. Circuit breaker: overlapping failures are counted once; a save of data read earlier
   closes a circuit another request has just opened, or takes back its half-open
   state; after the recovery time every caller goes through, not one probe; failing
   streams open nothing (`provider_circuit_breaker.py:90`, `:107`, `:126`,
   `llm/gateway.py:86`).
9. Routing: with every provider of the policy disabled the default is called, disabled
   or not; a provider the platform has disabled may be named by a caller; a provider of
   the chain without credentials ends the request rather than falling back
   (`provider_service.py:225`, `:264`, `llm/factory.py:45`).

In the browser and its server:

10. Session: a `Set-Cookie` that arrives after a logout signs the browser in again, and
    a late clearing signs out a new login; parallel refreshes with one cookie make one
    of them a reuse (`app/api/bff/[...path]/route.ts:68`). A password change that was
    refreshed on the way names the rotated token as the one to keep
    (`upstream.ts:119`), so this session ends too. Logout of all with a lapsed access
    token revokes nothing (`logout-all/route.ts:13`); revoking the current session
    leaves the cookies (`security-settings.tsx:401`); that page's sign-out does not tell
    the other tabs.
11. Mail links: overlapping requests leave two links that work
    (`auth_service.py:297`, `:430`, `profile_service.py:115`); a page that tries again
    after a lost answer, or is reloaded, says "failed" of a link that has worked
    (`verify-email-content.tsx:102`, `confirm-email-change-content.tsx:79`).
12. Chat: a lost first answer makes the retry begin a second conversation
    (`chat-workspace.tsx:227`); asking before the history has loaded hides it
    (`:144`); an empty answer that completes is neither shown nor reloaded.
13. Cached answers that a mutation does not tell: versions and the artifact list, rules
    and the pack list, accepted and declined invitations and every list, a generator's
    save and the artifact list, a queued analysis and the task list; audit and dashboard
    are never told. On the provider page of an organization, a request that was on its
    way when the role was lost is not repeated by a mutation's invalidation, since its
    panel is gone, and its answer, older than the write, then counts as current
    (`features/providers/hooks.ts`).
14. Gates: an admin is offered the edit of an organization and is always refused, since
    the form sends the slug (`docs/rbac.md:26` gives admins the update); the provider
    pages are open to admins and need an owner; tags and the archive have no gate;
    pending invitations are read for members who may not.
15. Forms: a blank optional field is sent as null, which most services ignore and the
    profile clears; a draft is reset when its data is refetched under it; an edit dialog
    that is opened again before the refetch takes back the edit before it.
16. Lists: a workspace switch keeps the page of the other list, and a search that rests
    after a page was turned is shown from there: an empty page without its pager.
    Address: a filter changed before the one before it has reached the address
    loses the first there, and keeps it in the list (`frontend/README.md:102` promises
    that back and forward restore the list).
17. Generators: packs ticked in one organization are sent for the next after a switch
    and refused; every pipeline is judged by the rules for GitHub Actions; a lost
    answer tried again saves a second artifact.
18. Logs: an analysis on its way at a workspace switch is still shown after it
    (`log-analyzer.tsx:162` says it is cleared); an upload counts from when its file has
    been read; a first poll that fails stops the polling.

## 8. Not modelled

* The screens, their gates and forms (`WebApi`, `WebScreens`, `WebPages`, `WebForms`)
  have one organization: what a gate by the selected workspace's role does with an
  artifact of another one is not in them. A switch of the workspace is in `WebLists`,
  `WebGenerators` and `WebLogs`.
* The rate limiter (one atomic script), onboarding and dashboard (flags that are only
  set, read-only aggregates), audit log and e-mail delivery (inserts of the caller's
  transaction, SMTP), JWT, passwords, security headers, metrics, tracing and logging
  (conversions and I/O), migrations, deployment and seed data (run once by an operator).
* Of the components that are modelled in part: names and slugs of organizations,
  names, tags and favorites of artifacts as rows of the backend (single inserts and
  deletes under unique constraints; their screens are in `WebScreens`); several streams
  in one conversation and the answer that is not streamed; administrators' writes to
  providers and routing while calls run; token limits and the monthly window of the
  quota; the text of templates, prompts, patterns, rules and checks; layout, themes,
  charts, the command palette and the rendering of markdown.

## 9. Running the checks

    tlc -workers 2 -config MCWeb.cfg MCWeb
    tlapm SessionsArtifactsProofs.tla

and likewise for the other modules; `PROJECT.json` pairs each run with its module and
configuration. `tasks_and_gateway` is the longest run, about four minutes with two
workers; the proofs of `WebProofs` take about fifteen minutes from nothing, those of `SseProofs`
about four, those of the other modules a minute or two each.
