----------------------------- MODULE ChatClient -----------------------------
(***************************************************************************)
(* The chat page of the browser (hooks/use-streaming-chat.ts,              *)
(* hooks/streaming-chat-utils.ts, components/chat), composed with the      *)
(* stream it reads (ChatStream) and the conversations the server keeps.    *)
(*                                                                         *)
(* The user asks one question after another; every question is a run with  *)
(* a stream of its own, started when the server has ended the one before.  *)
(* A run without a conversation begins one, which has the run's number.    *)
(* A chunk of the response carries one or more events, and a step of the   *)
(* page handles them all with the render and the effects that follow.  An  *)
(* aborted fetch is handled before the user's next click.  A page of       *)
(* another address is mounted anew; only history.replaceState changes the  *)
(* address of a page that stays.                                           *)
(***************************************************************************)
EXTENDS ChatStream, FiniteSets

CONSTANT MaxRuns    \* bound on the questions asked

ASSUME RunsAssumption == MaxRuns \in Nat

VARIABLES
  persisted,  \* the messages of every conversation, in order
  runs,       \* questions asked so far
  asked,      \* conversation_id of the last request, 0 for null
  status,     \* of the hook
  got,        \* events of the stream that the page has read, 0 after an abort
  buffer,     \* tokens in tokenBufferRef
  shown,      \* tokens in the hook's state
  flush,      \* a token flush is scheduled
  known,      \* conversationId in the hook's state, 0 for null
  drafts,     \* draftMessages
  page,       \* conversationId of the page, 0 on /chat
  address,    \* what usePathname gives: a conversation, or 0 for /chat
  loading,    \* the page's query of the conversation: "pending", "success" or "error"
  loaded      \* the messages the query has

hookVars == <<status, got, buffer, shown, flush, known>>
queryVars == <<loading, loaded>>
pageVars == <<drafts, page, address, queryVars>>
runVars == <<runs, asked>>
clientVars == <<hookVars, pageVars, runVars>>
chatVars == <<vars, persisted, clientVars>>

Conversations == 1..MaxRuns
Message == [role : {"user", "assistant"}, run : Conversations, text : Texts]
Question(r) == [role |-> "user", run |-> r, text |-> 0]
Answer(r, n) == [role |-> "assistant", run |-> r, text |-> n]

ClientTypeOK ==
  /\ TypeOK
  /\ DOMAIN persisted \subseteq Conversations
  /\ \A c \in DOMAIN persisted : persisted[c] \in Seq(Message)
  /\ runs \in 0..MaxRuns
  /\ asked \in 0..MaxRuns
  /\ status \in {"idle", "sending", "streaming", "completed", "error", "cancelled"}
  /\ got \in 0..Len(sent)
  /\ buffer \in Texts
  /\ shown \in Texts
  /\ flush \in BOOLEAN
  /\ known \in 0..MaxRuns
  /\ drafts \in Seq(Message)
  /\ page \in 0..MaxRuns
  /\ address \in 0..MaxRuns
  /\ loading \in {"pending", "success", "error"}
  /\ loaded \in Seq(Message)

ClientInit ==
  /\ Init
  /\ persisted = <<>>
  /\ runs = 0 /\ asked = 0
  /\ status = "idle"
  /\ got = 0 /\ buffer = 0 /\ shown = 0
  /\ flush = FALSE
  /\ known = 0
  /\ drafts = <<>>
  /\ page = 0 /\ address = 0
  /\ loading = "pending" /\ loaded = <<>>

-----------------------------------------------------------------------------
(* Helpers                                                                 *)

Busy == status \in {"sending", "streaming"}

(* The conversation of the last request on the server *)
Conversation == IF asked = 0 THEN runs ELSE asked

(* The server has nothing more to do for the last request. *)
Ended == runs = 0 \/ (consumer \in {"refused", "closed"} /\ ~Running)

(* completedAssistant: an answer without tokens is not shown. *)
CompletedAssistant ==
  IF status = "completed" /\ known # 0 /\ shown > 0 THEN {Answer(runs, shown)} ELSE {}

LocalMessages == IF drafts # <<>> THEN drafts ELSE loaded

(* Where sendMessage sends the next question *)
Target == IF page # 0 THEN page ELSE known

(* Slips a change of this code could make, for the run to reject: the last *)
(* tokens are taken from the state and not from the buffer, a stream that  *)
(* ends early leaves the page busy.                                        *)
FinalOfState(n) == shown
StayBusy == status

(* What the hook keeps of the buffer when the stream ends *)
FinalTokens(n) == n

(* onToken: a flush is scheduled unless one is. *)
ScheduleTokenFlush(n) == flush' = (flush \/ n > buffer)

(* The status of a stream that ends without completed or error *)
Incomplete == "error"

(* An abort ends the fetch; the server sees its client leave. *)
Abort == client' = IF Busy THEN "gone" ELSE client

UnchangedStream == UNCHANGED <<dbVars, providerVars, producerVars, queue, consumerVars>>

NewStream ==
  /\ client' = "connected"
  /\ question' = FALSE /\ message' = None
  /\ yielded' = 0 /\ answer' = "open"
  /\ producer' = "absent" /\ accumulated' = 0
  /\ queue' = <<>>
  /\ consumer' = "preparing" /\ stop' = FALSE /\ cancelled' = FALSE
  /\ sent' = <<>>

-----------------------------------------------------------------------------
(* The server: the stream's own steps, and what they store.  A question    *)
(* needs its conversation, and so does an answer.                          *)
Stored ==
  LET history == IF Conversation \in DOMAIN persisted THEN persisted[Conversation] ELSE <<>>
      Add(m) == persisted' = [c \in DOMAIN persisted \cup {Conversation} |->
                                IF c = Conversation THEN Append(history, m) ELSE persisted[c]]
  IN IF question' # question
       THEN (asked = 0 \/ asked \in DOMAIN persisted) /\ Add(Question(runs))
     ELSE IF message' # message
       THEN Conversation \in DOMAIN persisted /\ Add(Answer(runs, message'))
     ELSE UNCHANGED persisted

Served(A) == runs > 0 /\ A /\ Stored /\ UNCHANGED clientVars

Admission == Served(Prepare \/ Refuse)
Producing == Served(ProducerNext)
Consuming == Served(ConsumerNext)
NetworkLost == Served(Disconnect)

-----------------------------------------------------------------------------
(* The user                                                                *)

(* The thread gives way to a skeleton or to the error of the query. *)
Composing == loading # "error"
ThreadShown == Composing /\ ~(page # 0 /\ loading = "pending" /\ LocalMessages = <<>>)

(* displayMessages: an answer in progress, or stopped, is a message too. *)
Displayed == LocalMessages # <<>> \/ Busy \/ (status = "cancelled" /\ shown > 0)

(* The composer, a suggestion of an empty thread, or the retry of a failed *)
(* answer; all end in sendMessage and start.                               *)
Composer == Composing /\ ~Busy
Suggestion == ThreadShown /\ ~Displayed /\ status # "error"
Retry == ThreadShown /\ status = "error"

SendMessage ==
  /\ Composer \/ Suggestion \/ Retry
  /\ Ended
  /\ runs < MaxRuns
  /\ runs' = runs + 1
  /\ asked' = Target
  /\ drafts' = Append(LocalMessages, Question(runs + 1))
  /\ NewStream
  /\ status' = "sending"
  /\ got' = 0 /\ buffer' = 0 /\ shown' = 0
  /\ flush' = FALSE
  /\ known' = Target
  /\ UNCHANGED <<persisted, page, address, queryVars>>

Stop ==
  /\ Busy
  /\ Abort
  /\ status' = "cancelled"
  /\ got' = 0
  /\ shown' = buffer
  /\ flush' = FALSE
  /\ UnchangedStream
  /\ UNCHANGED <<persisted, buffer, known, pageVars, runVars>>

(* What a mounted page starts from *)
Fresh(c) ==
  /\ status' = "idle"
  /\ got' = 0 /\ buffer' = 0 /\ shown' = 0
  /\ flush' = FALSE
  /\ known' = 0
  /\ drafts' = <<>>
  /\ page' = c /\ address' = c
  /\ loading' = "pending" /\ loaded' = <<>>

(* A link to a conversation or to a new chat: the page that is left aborts *)
(* its stream.  A page that is already mounted stays as it is.             *)
Open(c) ==
  /\ c = 0 \/ c \in DOMAIN persisted
  /\ \/ c # page /\ Abort /\ Fresh(c)
     \/ c = page /\ c # address /\ address' = c
        /\ UNCHANGED <<client, hookVars, drafts, page, queryVars>>
  /\ UnchangedStream
  /\ UNCHANGED <<persisted, runVars>>

(* deleteMutation of the sidebar: the query of the conversation is fetched *)
(* again and fails; the page of a deleted conversation is left for /chat,  *)
(* which a page begun there already is.                                    *)
DeleteConversation(c) ==
  /\ c \in DOMAIN persisted
  /\ persisted' = [d \in DOMAIN persisted \ {c} |-> persisted[d]]
  /\ IF c # address
       THEN UNCHANGED <<client, hookVars, pageVars>>
     ELSE IF page = c
       THEN Abort /\ Fresh(0)
     ELSE address' = 0 /\ UNCHANGED <<client, hookVars, drafts, page, queryVars>>
  /\ UnchangedStream
  /\ UNCHANGED runVars

-----------------------------------------------------------------------------
(* The response                                                            *)

HookStep == UnchangedStream /\ UNCHANGED <<client, persisted, runVars>>

Opened ==
  /\ status = "sending"
  /\ consumer \notin {"preparing", "refused"} /\ client = "connected"
  /\ status' = "streaming"
  /\ HookStep
  /\ UNCHANGED <<got, buffer, shown, flush, known, pageVars>>

(* throwIfStreamHttpError, or a fetch that fails *)
HttpError ==
  /\ status = "sending"
  /\ consumer = "refused" \/ client = "gone"
  /\ status' = "error"
  /\ shown' = buffer /\ flush' = FALSE
  /\ HookStep
  /\ UNCHANGED <<got, buffer, known, pageVars>>

(* The answer that ends a run is appended to the drafts, once. *)
Commit(n) == drafts' = IF n > 0 THEN Append(drafts, Answer(runs, n)) ELSE drafts

(* Some of the next k events is e. *)
Carries(k, e) == \E i \in 1..k : sent[got + i] = e

(* The first id of a new chat goes to the address; when the run is over by *)
(* then the page of the conversation is opened.                            *)
BecomesKnown(id) == page = 0 /\ known = 0 /\ id # 0

(* A chunk with k events *)
Read(k) ==
  LET In(e) == Carries(k, e)
      n == buffer + Cardinality({i \in 1..k : sent[got + i][1] = "token"})
      id == IF In(Event("conversation")) THEN Conversation ELSE known
      new == BecomesKnown(id)
  IN /\ status = "streaming"
     /\ client = "connected"
     /\ k \in 1..(Len(sent) - got)
     /\ \/ /\ ~In(Event("completed")) /\ ~In(Event("error"))
           /\ got' = got + k
           /\ buffer' = n
           /\ ScheduleTokenFlush(n)
           /\ known' = id
           /\ address' = IF new THEN id ELSE address
           /\ UNCHANGED <<status, shown, drafts, page, queryVars>>
        \/ /\ In(Event("completed")) /\ new
           /\ Fresh(id)
        \/ /\ In(Event("completed")) /\ ~new
           /\ status' = "completed"
           /\ got' = got + k
           /\ buffer' = n /\ shown' = FinalTokens(n) /\ flush' = FALSE
           /\ known' = id
           /\ Commit(FinalTokens(n))
           /\ UNCHANGED <<page, address, queryVars>>
        \/ /\ In(Event("error"))
           /\ status' = "error"
           /\ got' = got + k
           /\ buffer' = n /\ shown' = FinalTokens(n) /\ flush' = FALSE
           /\ known' = id
           /\ UNCHANGED pageVars
     /\ HookStep

(* The body ends, or fails, before a completed or an error has been read. *)
BodyEnds ==
  /\ status = "streaming"
  /\ client = "gone" \/ (consumer = "closed" /\ got = Len(sent))
  /\ status' = Incomplete
  /\ shown' = FinalTokens(buffer) /\ flush' = FALSE
  /\ HookStep
  /\ UNCHANGED <<got, buffer, known, pageVars>>

FlushTokens ==
  /\ flush
  /\ flush' = FALSE
  /\ shown' = buffer
  /\ HookStep
  /\ UNCHANGED <<status, got, buffer, known, pageVars>>

(* The query of the page's conversation is answered, at first or again. *)
LoadConversation ==
  /\ page \in DOMAIN persisted
  /\ loading' = "success"
  /\ loaded' = persisted[page]
  /\ HookStep
  /\ UNCHANGED <<hookVars, drafts, page, address>>

LoadFails ==
  /\ page # 0
  /\ loading' = "error"
  /\ HookStep
  /\ UNCHANGED <<hookVars, drafts, page, address, loaded>>

Reading == Opened \/ HttpError \/ (\E k \in 1..(MaxChunks + 2) : Read(k)) \/ BodyEnds

ClientNext ==
  \/ Admission \/ Producing \/ Consuming \/ NetworkLost
  \/ SendMessage \/ Stop
  \/ \E c \in 0..MaxRuns : Open(c)
  \/ \E c \in Conversations : DeleteConversation(c)
  \/ Reading \/ FlushTokens \/ LoadConversation \/ LoadFails

(* The server answers, its tasks run (ChatStream), the page reads what has *)
(* arrived and its timers fire.  Nobody has to ask, stop or open anything. *)
ClientSpec ==
  /\ ClientInit /\ [][ClientNext]_chatVars
  /\ WF_chatVars(Admission) /\ WF_chatVars(Producing) /\ WF_chatVars(Consuming)
  /\ WF_chatVars(Reading) /\ WF_chatVars(FlushTokens)

-----------------------------------------------------------------------------
(* Properties                                                              *)

(* An answer that the page shows as a message is persisted in the          *)
(* conversation that the page is in, with the same text: what the page     *)
(* collected from chunks is what a reload would show, over several runs,   *)
(* retries and stops, unless the conversation has been deleted.            *)
ShownAnswersPersisted ==
  \A m \in {LocalMessages[i] : i \in DOMAIN LocalMessages} \cup CompletedAssistant :
    m.role = "assistant" =>
      \/ Target \notin DOMAIN persisted
      \/ \E i \in DOMAIN persisted[Target] : persisted[Target][i] = m

(* A run ends whatever the server, the network and the user do: the page   *)
(* does not stay busy, which would disable its composer for good.          *)
RunsEnd == Busy ~> ~Busy
=============================================================================
