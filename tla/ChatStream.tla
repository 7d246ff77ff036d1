----------------------------- MODULE ChatStream -----------------------------
(***************************************************************************)
(* One streamed chat answer (services/chat_service.py prepare_stream and   *)
(* iter_stream_events, api/routes/chat.py chat_stream).                    *)
(*                                                                         *)
(* Two asyncio tasks share a queue and the session: the response generator *)
(* (here: the consumer) sends events to the client, and the producer reads *)
(* the provider's chunks and persists the answer.  A step ends where a     *)
(* task suspends.  A cancelled task goes on with nothing but its           *)
(* CancelledError handler, though a COMMIT it has sent may still take      *)
(* effect.                                                                 *)
(*                                                                         *)
(* A text is the number of its chunks.  The queue is unbounded, heartbeats *)
(* are sent but not recorded.                                              *)
(***************************************************************************)
EXTENDS Integers, Sequences

CONSTANT MaxChunks    \* bound on the chunks of an answer

ASSUME ChunksAssumption == MaxChunks \in Nat

VARIABLES
  client,       \* "connected" or "gone"
  question,     \* the user message is committed
  message,      \* the committed assistant message, None if there is none
  yielded,      \* chunks the provider has yielded
  answer,       \* the provider's stream: "open", "ended" or "failed"
  producer,     \* where produce_tokens is
  accumulated,  \* chunks in accumulated
  queue,
  consumer,     \* where iter_stream_events is
  stop,         \* the stop event
  cancelled,    \* producer.cancel() was called
  sent          \* the events yielded to the client, without the heartbeats

dbVars == <<question, message>>
providerVars == <<yielded, answer>>
producerVars == <<producer, accumulated>>
consumerVars == <<consumer, stop, cancelled, sent>>
vars == <<client, dbVars, providerVars, producerVars, queue, consumerVars>>

None == -1
Texts == 0..MaxChunks

(* An event is <<name, number>>; the number tells the tokens apart. *)
Token(n) == <<"token", n>>
Event(name) == <<name, 0>>
Terminals == {Event("completed"), Event("error")}
Queueable ==
  {Token(n) : n \in 1..MaxChunks} \cup Terminals \cup {Event("cancelled"), Event("done")}
Sendable == {Event("conversation")} \cup {Token(n) : n \in 1..MaxChunks} \cup Terminals

TypeOK ==
  /\ client \in {"connected", "gone"}
  /\ question \in BOOLEAN
  /\ message \in Texts \cup {None}
  /\ yielded \in Texts
  /\ answer \in {"open", "ended", "failed"}
  /\ producer \in {"absent", "streaming", "checking", "flushing", "committing",
                   "committed", "over"}
  /\ accumulated \in Texts
  /\ queue \in Seq(Queueable)
  /\ consumer \in {"preparing", "refused", "opening", "starting", "looping", "waiting",
                   "leaving", "closed"}
  /\ stop \in BOOLEAN
  /\ cancelled \in BOOLEAN
  /\ sent \in Seq(Sendable)

Init ==
  /\ client = "connected"
  /\ question = FALSE
  /\ message = None
  /\ yielded = 0
  /\ answer = "open"
  /\ producer = "absent"
  /\ accumulated = 0
  /\ queue = <<>>
  /\ consumer = "preparing"
  /\ stop = FALSE
  /\ cancelled = FALSE
  /\ sent = <<>>

-----------------------------------------------------------------------------
(* Helpers                                                                 *)

Running == producer \notin {"absent", "over"}
GivenUp == stop \/ client = "gone"

(* Slips a change of this code could make, for the runs to reject: a       *)
(* failure that puts no error, no look at the client before persisting, a  *)
(* flush for a commit, a producer that is not cancelled.                   *)
OverWithoutError(e) ==
  /\ producer' = "over"
  /\ queue' = queue \o IF e = Event("error") THEN <<Event("done")>> ELSE <<e, Event("done")>>
NeverGivenUp == FALSE
FlushOnly == UNCHANGED message
StopOnly == stop' = TRUE /\ UNCHANGED cancelled

Put(events) == queue' = queue \o events

(* The final put of the producer and the "done" of its finally block *)
Over(e) == producer' = "over" /\ Put(<<e, Event("done")>>)

(* The check of produce_tokens between the provider's end and persisting *)
AbandonAnswer == GivenUp

(* commit: message, usage event and onboarding flag in one transaction *)
CommitAnswer == message' = accumulated

(* stop.set() and, unless it is over, producer.cancel() *)
StopProducer ==
  /\ stop' = TRUE
  /\ cancelled' = (cancelled \/ Running)

-----------------------------------------------------------------------------
(* prepare_stream: quota, provider and conversation are checked and the    *)
(* user message is committed before the response begins.                   *)
Prepare ==
  /\ consumer = "preparing"
  /\ question' = TRUE
  /\ consumer' = "opening"
  /\ UNCHANGED <<client, message, providerVars, producerVars, queue, stop, cancelled, sent>>

Refuse ==
  /\ consumer = "preparing"
  /\ consumer' = "refused"
  /\ UNCHANGED <<client, dbVars, providerVars, producerVars, queue, stop, cancelled, sent>>

Disconnect ==
  /\ client = "connected"
  /\ client' = "gone"
  /\ UNCHANGED <<dbVars, providerVars, producerVars, queue, consumerVars>>

-----------------------------------------------------------------------------
(* produce_tokens *)

Going(pc) == producer = pc /\ ~cancelled

(* A chunk that arrives after the client has left ends the loop. *)
Chunk ==
  /\ Going("streaming")
  /\ yielded < MaxChunks
  /\ yielded' = yielded + 1
  /\ IF GivenUp
       THEN producer' = "checking" /\ UNCHANGED <<accumulated, queue>>
       ELSE /\ accumulated' = accumulated + 1
            /\ Put(<<Token(accumulated + 1)>>)
            /\ UNCHANGED producer
  /\ UNCHANGED <<client, dbVars, answer, consumerVars>>

(* [DONE] or the end of the provider's response body *)
ProviderEnds ==
  /\ Going("streaming")
  /\ answer' = "ended"
  /\ producer' = "checking"
  /\ UNCHANGED <<client, dbVars, yielded, accumulated, queue, consumerVars>>

(* LLMProviderError: a timeout, a lost connection, a rejected request *)
ProviderFails ==
  /\ Going("streaming")
  /\ answer' = "failed"
  /\ Over(Event("error"))
  /\ UNCHANGED <<client, dbVars, yielded, accumulated, consumerVars>>

CheckClient ==
  /\ Going("checking")
  /\ IF AbandonAnswer THEN Over(Event("cancelled")) ELSE producer' = "flushing" /\ UNCHANGED queue
  /\ UNCHANGED <<client, dbVars, providerVars, accumulated, consumerVars>>

(* add_message, record_llm_usage and _mark_first_chat, then commit is sent *)
FlushAnswer ==
  /\ Going("flushing")
  /\ producer' = "committing"
  /\ UNCHANGED <<client, dbVars, providerVars, accumulated, queue, consumerVars>>

(* The database commits, whatever becomes of the task that asked for it. *)
DatabaseCommits ==
  /\ producer = "committing"
  /\ CommitAnswer
  /\ producer' = "committed"
  /\ UNCHANGED <<client, question, providerVars, accumulated, queue, consumerVars>>

(* The conversation is gone, or the connection to the database is: before  *)
(* the commit or before its answer.                                        *)
DatabaseFails ==
  /\ producer \in {"flushing", "committing", "committed"} /\ ~cancelled
  /\ Over(Event("error"))
  /\ UNCHANGED <<client, dbVars, providerVars, accumulated, consumerVars>>

Report ==
  /\ Going("committed")
  /\ Over(Event("completed"))
  /\ UNCHANGED <<client, dbVars, providerVars, accumulated, consumerVars>>

(* CancelledError at the await where the producer is; a transaction that   *)
(* is not committed is lost with its connection.                           *)
Cancelled ==
  /\ cancelled
  /\ Running
  /\ Over(Event("cancelled"))
  /\ UNCHANGED <<client, dbVars, providerVars, accumulated, consumerVars>>

ProducerNext ==
  \/ Chunk \/ ProviderEnds \/ ProviderFails
  \/ CheckClient \/ FlushAnswer \/ DatabaseCommits \/ DatabaseFails \/ Report
  \/ Cancelled

-----------------------------------------------------------------------------
(* iter_stream_events *)

Send(e) == sent' = Append(sent, e)

SendConversation ==
  /\ consumer = "opening"
  /\ Send(Event("conversation"))
  /\ consumer' = "starting"
  /\ UNCHANGED <<client, dbVars, providerVars, producerVars, queue, stop, cancelled>>

CreateProducer ==
  /\ consumer = "starting"
  /\ producer' = "streaming"
  /\ consumer' = "looping"
  /\ UNCHANGED <<client, dbVars, providerVars, accumulated, queue, stop, cancelled, sent>>

CheckDisconnected ==
  /\ consumer = "looping"
  /\ IF client = "gone"
       THEN StopProducer /\ consumer' = "leaving"
       ELSE consumer' = "waiting" /\ UNCHANGED <<stop, cancelled>>
  /\ UNCHANGED <<client, dbVars, providerVars, producerVars, queue, sent>>

(* wait_for times out on an empty queue. *)
Heartbeat ==
  /\ consumer = "waiting"
  /\ queue = <<>>
  /\ consumer' = "looping"
  /\ UNCHANGED <<client, dbVars, providerVars, producerVars, queue, stop, cancelled, sent>>

(* A token goes out and the loop goes on; completed and error go out and   *)
(* end it; done and cancelled end it.                                      *)
TakeEvent ==
  LET e == Head(queue)
  IN /\ consumer = "waiting"
     /\ queue # <<>>
     /\ queue' = Tail(queue)
     /\ IF e \in {Event("done"), Event("cancelled")} THEN UNCHANGED sent ELSE Send(e)
     /\ consumer' = IF e[1] = "token" THEN "looping" ELSE "leaving"
     /\ UNCHANGED <<client, dbVars, providerVars, producerVars, stop, cancelled>>

(* The finally block stops the producer and waits for it. *)
LeaveLoop ==
  /\ consumer = "leaving"
  /\ StopProducer
  /\ consumer' = IF Running THEN "leaving" ELSE "closed"
  /\ UNCHANGED <<client, dbVars, providerVars, producerVars, queue, sent>>

(* The server cancels the response of a client that has gone, wherever the *)
(* generator is suspended; its finally block does not wait then.           *)
Interrupt ==
  /\ client = "gone"
  /\ consumer \in {"opening", "starting", "looping", "waiting", "leaving"}
  /\ StopProducer
  /\ consumer' = "closed"
  /\ UNCHANGED <<client, dbVars, providerVars, producerVars, queue, sent>>

ConsumerNext ==
  \/ SendConversation \/ CreateProducer \/ CheckDisconnected \/ Heartbeat \/ TakeEvent
  \/ LeaveLoop \/ Interrupt

Next == Prepare \/ Refuse \/ Disconnect \/ ProducerNext \/ ConsumerNext

Spec == Init /\ [][Next]_vars

-----------------------------------------------------------------------------
(* Properties                                                              *)

(* backend/README.md "completed: Stream finished; assistant message        *)
(* persisted": a client told so finds the whole text it has received.      *)
CompletedIsPersisted ==
  \A i \in DOMAIN sent : sent[i] = Event("completed") =>
    /\ message = yielded
    /\ Len(sent) = yielded + 2

(* backend/README.md "Assistant message is saved only after successful     *)
(* completion": a committed answer has every chunk of a stream that ended  *)
(* without an error, however the client's leaving meets the producer.      *)
SavedIsWhole == message # None => answer = "ended" /\ message = yielded /\ question

(* Once the response has ended no commit is begun: only one that the       *)
(* database was already asked for may still persist the answer.            *)
NoCommitAfterwards ==
  [][consumer = "closed" /\ producer # "committing" => producer' # "committing"]_vars

(* A client that stays is told how the stream ended. *)
ClientsAreTold ==
  consumer = "opening" ~>
    \/ client = "gone"
    \/ sent # <<>> /\ sent[Len(sent)] \in Terminals
=============================================================================
