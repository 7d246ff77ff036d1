------------------------------ MODULE ChatProofs ------------------------------
(* TLAPS proofs about ChatStream and ChatClient: for answers of every      *)
(* length, only whole answers are persisted, completed is sent only for    *)
(* what is persisted, and no commit is begun after the response ended;     *)
(* and for any number of questions the page shows no answer that its       *)
(* conversation does not hold.                                             *)
EXTENDS ChatClient, SequenceTheorems, FiniteSetTheorems, TLAPS

(* Both tasks have begun in order, and a generator that has ended has      *)
(* cancelled a producer that was still running.                            *)
TaskInv ==
  /\ consumer \in {"preparing", "refused", "opening", "starting"} => producer = "absent"
  /\ consumer \notin {"preparing", "refused"} => question
  /\ producer # "absent" => question
  /\ consumer = "closed" /\ Running => cancelled

(* A producer that has not found the client gone has accumulated all it    *)
(* was given, and persists only what an ended stream has given.            *)
AnswerInv ==
  /\ producer \in {"absent", "streaming"} => answer = "open" /\ accumulated = yielded
  /\ producer = "checking" => GivenUp \/ (answer = "ended" /\ accumulated = yielded)
  /\ producer \in {"flushing", "committing", "committed"} =>
       answer = "ended" /\ accumulated = yielded
  /\ message # None =>
       producer \in {"committed", "over"} /\ answer = "ended" /\ message = yielded /\ question

IInv == TypeOK /\ TaskInv /\ AnswerInv

(* The final events of the producer are queueable. *)
LEMMA OverTyped ==
  ASSUME queue \in Seq(Queueable), NEW e \in Queueable, Over(e)
  PROVE  queue' \in Seq(Queueable) /\ producer' = "over"
<1>1. <<e, Event("done")>> \in Seq(Queueable)
  BY DEF Queueable
<1> QED BY <1>1, ConcatProperties DEF Over, Put

LEMMA EventsQueueable ==
  /\ Event("error") \in Queueable /\ Event("completed") \in Queueable
  /\ Event("cancelled") \in Queueable /\ Event("done") \in Queueable
  /\ \A n \in 1..MaxChunks : Token(n) \in Queueable
BY DEF Queueable, Terminals

(* What the consumer takes off the queue and sends on is sendable. *)
LEMMA TakeTyped ==
  ASSUME TypeOK, TakeEvent
  PROVE  queue' \in Seq(Queueable) /\ sent' \in Seq(Sendable)
<1>1. Head(queue) \in Queueable /\ Tail(queue) \in Seq(Queueable)
  BY DEF TypeOK, TakeEvent
<1>2. Head(queue) \in {Event("done"), Event("cancelled")} \/ Head(queue) \in Sendable
  BY <1>1 DEF Queueable, Sendable
<1> QED BY SMTT(30), <1>1, <1>2, AppendProperties DEF TypeOK, TakeEvent, Send

LEMMA InitInv == Init => IInv
<1> SUFFICES ASSUME Init PROVE IInv
  OBVIOUS
<1>1. TypeOK
  <2>1. queue \in Seq(Queueable) /\ sent \in Seq(Sendable)
    BY EmptySeq DEF Init
  <2>2. 0 \in Texts
    BY ChunksAssumption DEF Texts
  <2> QED BY <2>1, <2>2 DEF Init, TypeOK
<1>2. TaskInv /\ AnswerInv
  BY DEF Init, TaskInv, AnswerInv, Running
<1> QED BY <1>1, <1>2 DEF IInv

LEMMA TypeStep == IInv /\ [Next]_vars => TypeOK'
<1> SUFFICES ASSUME TypeOK, AnswerInv, [Next]_vars PROVE TypeOK'
  BY DEF IInv
<1> USE ChunksAssumption
<1> USE DEF TypeOK, dbVars, providerVars, producerVars, consumerVars
<1>1. CASE Prepare \/ Refuse \/ Disconnect
  BY <1>1 DEF Prepare, Refuse, Disconnect
<1>2. CASE Chunk
  <2>1. yielded' \in Texts /\ yielded + 1 \in 1..MaxChunks /\ accumulated = yielded
    BY <1>2 DEF Chunk, Going, Texts, AnswerInv
  <2>2. CASE GivenUp
    BY <1>2, <2>1, <2>2 DEF Chunk, Going
  <2>3. CASE ~GivenUp
    <3>1. <<Token(accumulated + 1)>> \in Seq(Queueable)
      BY <2>1, EventsQueueable
    <3>2. queue' \in Seq(Queueable)
      BY <1>2, <2>3, <3>1, ConcatProperties DEF Chunk, Put
    <3>3. accumulated' = yielded' /\ producer' = "streaming"
      BY <1>2, <2>1, <2>3 DEF Chunk, Going
    <3> QED BY <1>2, <2>1, <3>2, <3>3 DEF Chunk
  <2> QED BY <2>2, <2>3
<1>3. CASE ProviderEnds \/ FlushAnswer
  BY <1>3 DEF ProviderEnds, FlushAnswer, Going
<1>4. CASE ProviderFails \/ DatabaseFails \/ Report \/ Cancelled
  <2>1. queue' \in Seq(Queueable) /\ producer' = "over"
    BY <1>4, OverTyped, EventsQueueable DEF ProviderFails, DatabaseFails, Report, Cancelled
  <2> QED BY <1>4, <2>1 DEF ProviderFails, DatabaseFails, Report, Cancelled
<1>5. CASE CheckClient
  <2>1. queue' \in Seq(Queueable) /\ producer' \in {"over", "flushing"}
    BY <1>5, OverTyped, EventsQueueable DEF CheckClient
  <2> QED BY <1>5, <2>1 DEF CheckClient
<1>6. CASE DatabaseCommits
  BY <1>6 DEF DatabaseCommits, CommitAnswer
<1>7. CASE SendConversation
  <2>1. sent' \in Seq(Sendable)
    BY <1>7, AppendProperties DEF SendConversation, Send, Sendable
  <2> QED BY <1>7, <2>1 DEF SendConversation
<1>8. CASE CreateProducer \/ Heartbeat
  BY <1>8 DEF CreateProducer, Heartbeat
<1>9. CASE CheckDisconnected \/ LeaveLoop \/ Interrupt
  BY <1>9 DEF CheckDisconnected, LeaveLoop, Interrupt, StopProducer
<1>10. CASE TakeEvent
  BY <1>10, TakeTyped DEF TakeEvent
<1>11. CASE UNCHANGED vars
  BY <1>11 DEF vars
<1> QED BY <1>1, <1>2, <1>3, <1>4, <1>5, <1>6, <1>7, <1>8, <1>9, <1>10, <1>11
     DEF Next, ProducerNext, ConsumerNext

(* The tasks begin in order, and a response that ends cancels its producer. *)
LEMMA TaskStep == IInv /\ [Next]_vars => TaskInv'
<1> SUFFICES ASSUME TypeOK, TaskInv, [Next]_vars PROVE TaskInv'
  BY DEF IInv
<1> USE DEF TypeOK, TaskInv, Running, dbVars, providerVars, producerVars, consumerVars
<1>1. CASE Prepare \/ Refuse \/ Disconnect
  BY <1>1 DEF Prepare, Refuse, Disconnect
<1>2. CASE Chunk
  BY <1>2 DEF Chunk, Going
<1>3. CASE ProviderEnds \/ FlushAnswer
  BY <1>3 DEF ProviderEnds, FlushAnswer, Going
<1>4. CASE ProviderFails \/ DatabaseFails \/ Report \/ Cancelled
  BY <1>4 DEF ProviderFails, DatabaseFails, Report, Cancelled, Over, Going
<1>5. CASE CheckClient
  BY <1>5 DEF CheckClient, Going, Over, AbandonAnswer
<1>6. CASE DatabaseCommits
  BY <1>6 DEF DatabaseCommits, CommitAnswer
<1>7. CASE SendConversation \/ CreateProducer
  BY <1>7 DEF SendConversation, CreateProducer
<1>8. CASE CheckDisconnected \/ Heartbeat \/ TakeEvent
  BY <1>8 DEF CheckDisconnected, Heartbeat, TakeEvent, StopProducer
<1>9. CASE LeaveLoop \/ Interrupt
  BY <1>9 DEF LeaveLoop, Interrupt, StopProducer
<1>10. CASE UNCHANGED vars
  BY <1>10 DEF vars
<1> QED BY <1>1, <1>2, <1>3, <1>4, <1>5, <1>6, <1>7, <1>8, <1>9, <1>10
     DEF Next, ProducerNext, ConsumerNext

(* What is given up is never persisted, and what is persisted stays whole. *)
LEMMA AnswerStep == IInv /\ [Next]_vars => AnswerInv'
<1> SUFFICES ASSUME TypeOK, TaskInv, AnswerInv, [Next]_vars PROVE AnswerInv'
  BY DEF IInv
<1> USE DEF TypeOK, AnswerInv, GivenUp, Running, dbVars, providerVars, producerVars, consumerVars
<1>1. CASE Prepare \/ Refuse \/ Disconnect
  BY <1>1 DEF Prepare, Refuse, Disconnect
<1>2. CASE Chunk
  BY <1>2 DEF Chunk, Going
<1>3. CASE ProviderEnds \/ FlushAnswer
  BY <1>3 DEF ProviderEnds, FlushAnswer, Going
<1>4. CASE ProviderFails \/ DatabaseFails \/ Report \/ Cancelled
  BY <1>4 DEF ProviderFails, DatabaseFails, Report, Cancelled, Over, Going
<1>5. CASE CheckClient
  BY <1>5 DEF CheckClient, Going, Over, AbandonAnswer
<1>6. CASE DatabaseCommits
  BY <1>6 DEF TaskInv, DatabaseCommits, CommitAnswer
<1>7. CASE SendConversation \/ CreateProducer
  BY <1>7 DEF TaskInv, SendConversation, CreateProducer
<1>8. CASE CheckDisconnected \/ Heartbeat \/ TakeEvent
  BY <1>8 DEF CheckDisconnected, Heartbeat, TakeEvent, StopProducer
<1>9. CASE LeaveLoop \/ Interrupt
  BY <1>9 DEF LeaveLoop, Interrupt, StopProducer
<1>10. CASE UNCHANGED vars
  BY <1>10 DEF vars
<1> QED BY <1>1, <1>2, <1>3, <1>4, <1>5, <1>6, <1>7, <1>8, <1>9, <1>10
     DEF Next, ProducerNext, ConsumerNext

LEMMA Invariance == Spec => []IInv
<1>1. IInv /\ [Next]_vars => IInv'
  BY TypeStep, TaskStep, AnswerStep DEF IInv
<1> QED BY InitInv, <1>1, PTL DEF Spec

-----------------------------------------------------------------------------
(* Every state of a stream is well formed, for answers of every length:    *)
(* the queue and the events sent hold only what the tasks put there.       *)
THEOREM TypeCorrect == Spec => []TypeOK
<1>1. IInv => TypeOK
  BY DEF IInv
<1> QED BY Invariance, <1>1, PTL

(* Assistant messages are whole: the message that is persisted has every   *)
(* chunk of a stream that ended without an error, and follows a question   *)
(* that is committed, however a disconnection meets the producer.          *)
THEOREM WholeAnswersOnly == Spec => []SavedIsWhole
<1>1. IInv => SavedIsWhole
  BY DEF IInv, AnswerInv, SavedIsWhole
<1> QED BY Invariance, <1>1, PTL

LEMMA NoneBegun ==
  IInv /\ [Next]_vars =>
    (consumer = "closed" /\ producer # "committing" => producer' # "committing")
<1> SUFFICES ASSUME TaskInv, [Next]_vars, consumer = "closed", producer # "committing"
             PROVE producer' # "committing"
  BY DEF IInv
<1>1. ~FlushAnswer
  BY DEF TaskInv, Running, FlushAnswer, Going
<1> QED
  BY <1>1
     DEF Next, ProducerNext, ConsumerNext, vars, dbVars, providerVars, producerVars,
         consumerVars, Prepare, Refuse, Disconnect, Chunk, ProviderEnds, ProviderFails,
         CheckClient, DatabaseCommits, DatabaseFails, Report, Cancelled, Over,
         SendConversation, CreateProducer, CheckDisconnected, Heartbeat, TakeEvent,
         LeaveLoop, Interrupt, Going

(* A response that has ended leaves no producer that could still begin to  *)
(* commit: it is over, or cancelled at the await where it is.              *)
THEOREM NoLateCommit == Spec => NoCommitAfterwards
BY Invariance, NoneBegun, PTL DEF Spec, NoCommitAfterwards

-----------------------------------------------------------------------------
(* What was sent and what waits in the queue are one conversation event    *)
(* and the accumulated tokens in order; completed comes after the last of  *)
(* them, from a producer that has committed.                               *)

EventInv ==
  /\ consumer \in {"preparing", "refused", "opening"} =>
       sent = <<>> /\ queue = <<>> /\ accumulated = 0
  /\ consumer \in {"starting", "looping", "waiting"} =>
       /\ producer # "over" => Len(sent) + Len(queue) = accumulated + 1
       /\ \A i \in 1..Len(sent) : sent[i] # Event("completed")
       /\ \A i \in 1..Len(queue) : queue[i] = Event("completed") =>
            producer = "over" /\ message = accumulated /\ Len(sent) + i = accumulated + 2
  /\ consumer \in {"leaving", "closed"} =>
       \A i \in 1..Len(sent) : sent[i] = Event("completed") =>
         producer = "over" /\ message = accumulated /\ Len(sent) = accumulated + 2
  /\ producer = "committed" => message = accumulated

LEMMA EventsDiffer ==
  /\ \A n : Token(n) # Event("completed")
  /\ \A e \in {"error", "cancelled", "done", "conversation"} : Event(e) # Event("completed")
  /\ Event("completed")[1] # "token"
BY DEF Token, Event

(* The queue grows at its end. *)
LEMMA PutKeeps ==
  ASSUME queue \in Seq(Queueable), NEW es \in Seq(Queueable), Put(es)
  PROVE  /\ Len(queue') = Len(queue) + Len(es)
         /\ \A i \in 1..Len(queue) : queue'[i] = queue[i]
         /\ \A i \in 1..Len(es) : queue'[Len(queue) + i] = es[i]
BY ConcatProperties DEF Put

LEMMA EventInit == Init => EventInv
BY DEF Init, EventInv

LEMMA EventStep == IInv /\ EventInv /\ [Next]_vars => EventInv'
<1> SUFFICES ASSUME TypeOK, TaskInv, AnswerInv, EventInv, [Next]_vars PROVE EventInv'
  BY DEF IInv
<1> USE DEF dbVars, providerVars, producerVars, consumerVars
<1>t. queue \in Seq(Queueable) /\ sent \in Seq(Sendable) /\ accumulated \in Nat
      /\ Len(queue) \in Nat /\ Len(sent) \in Nat
  BY ChunksAssumption DEF TypeOK, Texts
(* A step of the producer that puts its final events, or none. *)
<1>f. ASSUME NEW e \in Queueable, Over(e), producer # "over",
             e = Event("completed") => message = accumulated,
             producer # "absent",
             UNCHANGED <<dbVars, accumulated, consumerVars>>
      PROVE  EventInv'
  <2> DEFINE es == <<e, Event("done")>>
  <2>1. es \in Seq(Queueable) /\ Len(es) = 2 /\ es[1] = e /\ es[2] = Event("done")
    BY EventsQueueable
  <2>2. Put(es) /\ producer' = "over"
    BY <1>f DEF Over
  <2> HIDE DEF es
  <2>3. /\ Len(queue') = Len(queue) + 2
        /\ \A i \in 1..Len(queue) : queue'[i] = queue[i]
        /\ queue'[Len(queue) + 1] = e /\ queue'[Len(queue) + 2] = Event("done")
    <3>1. /\ Len(queue') = Len(queue) + Len(es)
          /\ \A i \in 1..Len(queue) : queue'[i] = queue[i]
          /\ \A i \in 1..Len(es) : queue'[Len(queue) + i] = es[i]
      BY <1>t, <2>1, <2>2, PutKeeps
    <3>2. 1 \in 1..Len(es) /\ 2 \in 1..Len(es)
      BY <2>1
    <3> QED BY <2>1, <3>1, <3>2
  <2>4. ASSUME NEW i \in 1..Len(queue'), consumer \in {"starting", "looping", "waiting"},
               queue'[i] = Event("completed")
        PROVE  message = accumulated /\ Len(sent) + i = accumulated + 2
    <3>1. i \in 1..Len(queue) => FALSE
      BY <1>f, <2>3, <2>4 DEF EventInv
    <3>2. i = Len(queue) + 1
      BY <1>t, <2>3, <2>4, <3>1, EventsDiffer
    <3> QED BY <1>f, <1>t, <2>3, <2>4, <3>2 DEF EventInv
  <2>5. consumer \notin {"preparing", "refused", "opening"}
    BY <1>f DEF TaskInv
  <2> QED BY <1>f, <2>2, <2>4, <2>5 DEF EventInv
<1>1. CASE Prepare \/ Refuse \/ Disconnect
  BY <1>1 DEF Prepare, Refuse, Disconnect, EventInv
<1>2. CASE Chunk
  <2>1. producer = "streaming" /\ UNCHANGED <<dbVars, consumerVars>>
        /\ consumer \notin {"preparing", "refused", "opening"}
    BY <1>2 DEF Chunk, Going, TaskInv
  <2>2. CASE GivenUp
    BY <1>2, <2>1, <2>2 DEF Chunk, EventInv
  <2>3. CASE ~GivenUp
    <3> DEFINE es == <<Token(accumulated + 1)>>
    <3>1. accumulated + 1 \in 1..MaxChunks
      BY <1>2, <2>1, ChunksAssumption DEF Chunk, TypeOK, Texts, AnswerInv
    <3>2. es \in Seq(Queueable) /\ Len(es) = 1 /\ es[1] = Token(accumulated + 1)
      BY <3>1, EventsQueueable
    <3>3. Put(es) /\ accumulated' = accumulated + 1 /\ producer' = producer
      BY <1>2, <2>3 DEF Chunk
    <3> HIDE DEF es
    <3>4. /\ Len(queue') = Len(queue) + 1
          /\ \A i \in 1..Len(queue) : queue'[i] = queue[i]
          /\ queue'[Len(queue) + 1] # Event("completed")
      BY <1>t, <3>2, <3>3, PutKeeps, EventsDiffer
    <3>5. consumer \in {"starting", "looping", "waiting"} =>
            \A i \in 1..Len(queue') : queue'[i] # Event("completed")
      BY <1>t, <2>1, <3>4 DEF EventInv
    <3> QED BY <1>t, <2>1, <3>3, <3>4, <3>5 DEF EventInv
  <2> QED BY <2>2, <2>3
<1>3. CASE ProviderEnds \/ FlushAnswer
  BY <1>3 DEF ProviderEnds, FlushAnswer, Going, TaskInv, EventInv
<1>4. CASE ProviderFails \/ DatabaseFails
  BY <1>4, <1>f, EventsQueueable, EventsDiffer DEF ProviderFails, DatabaseFails, Going
<1>5. CASE Cancelled
  BY <1>5, <1>f, EventsQueueable, EventsDiffer DEF Cancelled, Running
<1>6. CASE Report
  BY <1>6, <1>f, EventsQueueable DEF Report, Going, EventInv
<1>7. CASE CheckClient
  <2>1. CASE AbandonAnswer
    BY <1>7, <2>1, <1>f, EventsQueueable, EventsDiffer DEF CheckClient, Going
  <2>2. CASE ~AbandonAnswer
    BY <1>7, <2>2 DEF CheckClient, Going, TaskInv, EventInv
  <2> QED BY <2>1, <2>2
<1>8. CASE DatabaseCommits
  BY <1>8 DEF DatabaseCommits, CommitAnswer, TaskInv, EventInv
<1>9. CASE SendConversation
  <2>1. sent' = <<Event("conversation")>> /\ consumer' = "starting" /\ queue = <<>>
        /\ accumulated = 0 /\ UNCHANGED <<queue, producerVars, dbVars>>
    BY <1>9 DEF SendConversation, Send, EventInv
  <2>2. Len(sent') = 1 /\ sent'[1] # Event("completed") /\ Len(queue') = 0
    BY <2>1, EventsDiffer
  <2> QED BY <2>1, <2>2 DEF EventInv
<1>10. CASE CreateProducer
  BY <1>10 DEF CreateProducer, TaskInv, EventInv
<1>11. CASE Heartbeat
  BY <1>11 DEF Heartbeat, EventInv
<1>12. CASE CheckDisconnected \/ LeaveLoop \/ Interrupt
  <2>1. UNCHANGED <<sent, queue, dbVars, producerVars>>
    BY <1>12 DEF CheckDisconnected, LeaveLoop, Interrupt
  <2>3. \/ consumer' \in {"leaving", "closed"}
        \/ consumer = "looping" /\ consumer' = "waiting"
    BY <1>12 DEF CheckDisconnected, LeaveLoop, Interrupt
  <2>2. \A i \in 1..Len(sent) : sent[i] = Event("completed") =>
          consumer \in {"leaving", "closed"}
    BY <1>12 DEF CheckDisconnected, LeaveLoop, Interrupt, EventInv
  <2> QED BY <1>12, <2>1, <2>2, <2>3 DEF CheckDisconnected, LeaveLoop, Interrupt, EventInv
<1>13. CASE TakeEvent
  <2> DEFINE e == Head(queue)
  <2>1. /\ consumer = "waiting" /\ Len(queue) > 0 /\ queue[1] = e
        /\ UNCHANGED <<message, accumulated, producer>>
        /\ sent' = IF e \in {Event("done"), Event("cancelled")} THEN sent ELSE Append(sent, e)
        /\ consumer' = IF e[1] = "token" THEN "looping" ELSE "leaving"
    BY <1>13, <1>t DEF TakeEvent, Send
  <2>2. /\ Len(queue') = Len(queue) - 1
        /\ \A i \in 1..Len(queue') : queue'[i] = queue[i + 1]
    BY <1>13, <1>t, <2>1 DEF TakeEvent
  <2>3. \A i \in 1..Len(sent) : sent[i] # Event("completed")
    BY <2>1 DEF EventInv
  <2>4. e = Event("completed") =>
          producer = "over" /\ message = accumulated /\ Len(sent) + 1 = accumulated + 2
    BY <1>t, <2>1 DEF EventInv
  <2> HIDE DEF e
  <2>5. CASE e \in {Event("done"), Event("cancelled")}
    <3>1. e[1] # "token"
      BY <2>5 DEF Event
    <3> QED BY <2>1, <2>3, <2>5, <3>1 DEF EventInv
  <2>6. CASE e \notin {Event("done"), Event("cancelled")}
    <3>1. Len(sent') = Len(sent) + 1 /\ sent'[Len(sent) + 1] = e
          /\ \A i \in 1..Len(sent) : sent'[i] = sent[i]
      <4>1. e \in Queueable
        BY <1>t, <2>1 DEF e
      <4>2. sent' = Append(sent, e) /\ e \in Sendable
        BY <2>1, <2>6, <4>1 DEF Queueable, Sendable
      <4> QED BY <1>t, <4>2, AppendProperties
    <3>2. CASE e[1] = "token"
      <4>1. consumer' = "looping" /\ e # Event("completed")
        BY <2>1, <3>2, EventsDiffer
      <4>2. \A i \in 1..Len(sent') : sent'[i] # Event("completed")
        BY <1>t, <2>3, <3>1, <4>1
      <4>3. \A i \in 1..Len(queue') : queue'[i] = Event("completed") =>
              producer = "over" /\ message = accumulated /\ Len(sent') + i = accumulated + 2
        BY <1>t, <2>1, <2>2, <3>1 DEF EventInv
      <4>4. producer # "over" => Len(sent') + Len(queue') = accumulated + 1
        <5>1. producer # "over" => Len(sent) + Len(queue) = accumulated + 1
          BY <2>1 DEF EventInv
        <5>2. Len(sent') = Len(sent) + 1 /\ Len(queue') = Len(queue) - 1
          BY <2>2, <3>1
        <5>3. Len(queue) \in Nat /\ Len(sent) \in Nat
          BY <1>t
        <5> QED BY <5>1, <5>2, <5>3
      <4> QED BY <2>1, <4>1, <4>2, <4>3, <4>4 DEF EventInv
    <3>3. CASE e[1] # "token"
      <4>1. consumer' = "leaving" /\ (producer = "committed" => message = accumulated)
        BY <2>1, <3>3 DEF EventInv
      <4>2. \A i \in 1..Len(sent') : sent'[i] = Event("completed") =>
              producer = "over" /\ message = accumulated /\ Len(sent') = accumulated + 2
        BY <1>t, <2>3, <2>4, <3>1
      <4> QED BY <2>1, <4>1, <4>2 DEF EventInv
    <3> QED BY <3>2, <3>3
  <2> QED BY <2>5, <2>6
<1>14. CASE UNCHANGED vars
  BY <1>14 DEF vars, EventInv
<1> QED BY <1>1, <1>2, <1>3, <1>4, <1>5, <1>6, <1>7, <1>8, <1>9, <1>10, <1>11, <1>12, <1>13, <1>14
     DEF Next, ProducerNext, ConsumerNext

LEMMA StreamTells == IInv /\ EventInv => SavedIsWhole /\ CompletedIsPersisted
<1> SUFFICES ASSUME IInv, EventInv PROVE SavedIsWhole /\ CompletedIsPersisted
  OBVIOUS
<1>1. SavedIsWhole
  BY DEF IInv, AnswerInv, SavedIsWhole
<1>2. ASSUME NEW i \in DOMAIN sent, sent[i] = Event("completed")
      PROVE  message = yielded /\ Len(sent) = yielded + 2
  <2>1. i \in 1..Len(sent)
    BY DEF IInv, TypeOK
  <2>2. message = accumulated /\ Len(sent) = accumulated + 2
    BY <1>2, <2>1 DEF EventInv, IInv, TypeOK
  <2>3. message # None
    BY <2>2, ChunksAssumption DEF IInv, TypeOK, Texts, None
  <2> QED BY <2>2, <2>3 DEF IInv, AnswerInv
<1> QED BY <1>1, <1>2 DEF CompletedIsPersisted

(* A client that reads completed has received every chunk, and the message *)
(* that is persisted has every chunk, for answers of every length and      *)
(* however the two tasks interleave.                                       *)
THEOREM CompletedMeansPersisted == Spec => []CompletedIsPersisted
<1>1. IInv /\ [Next]_vars => IInv'
  BY TypeStep, TaskStep, AnswerStep DEF IInv
<1> QED BY InitInv, EventInit, EventStep, StreamTells, <1>1, PTL DEF Spec

-----------------------------------------------------------------------------
(* What the client is sent begins with the conversation, then come the     *)
(* tokens in order and at the end, at most, completed or error.            *)
OrderInv ==
  /\ consumer \in {"preparing", "refused", "opening"} => sent = <<>> /\ queue = <<>>
  /\ consumer \in {"starting", "looping", "waiting"} =>
       /\ Len(sent) > 0
       /\ \A i \in 2..Len(sent) : sent[i] = Token(i - 1)
       /\ \A j \in 1..Len(queue) :
            queue[j] = Token(Len(sent) + j - 1) \/ queue[j][1] # "token"
  /\ Len(sent) > 0 => sent[1] = Event("conversation")
  /\ \A i \in 2..Len(sent) :
       sent[i] = Token(i - 1) \/ (i = Len(sent) /\ sent[i] \in Terminals)


LEMMA EventShape ==
  /\ \A n : Token(n)[1] = "token" /\ Token(n) \notin Terminals /\ Token(n)[2] = n
  /\ \A name : Event(name)[1] = name
  /\ Event("conversation") \notin Terminals
  /\ \A e \in Terminals : e[1] # "token"
BY DEF Token, Event, Terminals

LEMMA OrderInit == Init => OrderInv
BY DEF Init, OrderInv

LEMMA OrderStep == IInv /\ EventInv /\ OrderInv /\ [Next]_vars => OrderInv'
<1> SUFFICES ASSUME TypeOK, TaskInv, AnswerInv, EventInv, OrderInv, [Next]_vars
             PROVE  OrderInv'
  BY DEF IInv
<1> USE DEF dbVars, providerVars, producerVars, consumerVars
<1>t. queue \in Seq(Queueable) /\ sent \in Seq(Sendable) /\ accumulated \in Nat
      /\ Len(queue) \in Nat /\ Len(sent) \in Nat
  BY ChunksAssumption DEF TypeOK, Texts
(* A step that changes neither what was sent nor what waits. *)
<1>s. ASSUME UNCHANGED <<sent, queue>>, consumer' # consumer =>
               \/ consumer' \in {"leaving", "closed"}
               \/ {consumer, consumer'} \subseteq {"preparing", "refused", "opening"}
               \/ {consumer, consumer'} \subseteq {"starting", "looping", "waiting"}
      PROVE  OrderInv'
  BY <1>s DEF OrderInv
(* A step of the producer that puts its final events. *)
<1>f. ASSUME NEW e \in Queueable, Over(e), e[1] # "token", producer # "absent",
             UNCHANGED consumerVars
      PROVE  OrderInv'
  <2> DEFINE es == <<e, Event("done")>>
  <2>1. es \in Seq(Queueable) /\ Len(es) = 2 /\ es[1] = e /\ es[2] = Event("done")
    BY EventsQueueable
  <2>2. Put(es)
    BY <1>f DEF Over
  <2> HIDE DEF es
  <2>3. /\ Len(queue') = Len(queue) + Len(es)
        /\ \A i \in 1..Len(queue) : queue'[i] = queue[i]
        /\ \A i \in 1..Len(es) : queue'[Len(queue) + i] = es[i]
    BY <1>t, <2>1, <2>2, PutKeeps
  <2>4. es[1][1] # "token" /\ es[2][1] # "token"
    BY <1>f, <2>1, EventShape
  <2>5. \A j \in 1..Len(queue') : j \in 1..Len(queue) \/ queue'[j][1] # "token"
    <3> SUFFICES ASSUME NEW j \in 1..Len(queue'), j \notin 1..Len(queue)
                 PROVE  queue'[j][1] # "token"
      OBVIOUS
    <3>1. Len(queue') = Len(queue) + 2 /\ queue'[Len(queue) + 1] = es[1]
          /\ queue'[Len(queue) + 2] = es[2]
      BY <2>1, <2>3
    <3>2. j = Len(queue) + 1 \/ j = Len(queue) + 2
      BY <1>t, <3>1
    <3> QED BY <2>4, <3>1, <3>2
  <2>6. consumer \notin {"preparing", "refused", "opening"} /\ UNCHANGED <<consumer, sent>>
    BY <1>f DEF TaskInv
  <2>7. consumer \in {"starting", "looping", "waiting"} =>
          \A j \in 1..Len(queue') :
            queue'[j] = Token(Len(sent) + j - 1) \/ queue'[j][1] # "token"
    BY <1>t, <2>3, <2>5 DEF OrderInv
  <2> QED BY <2>6, <2>7 DEF OrderInv
<1>1. CASE Prepare \/ Refuse \/ Disconnect
  BY <1>1, <1>s DEF Prepare, Refuse, Disconnect
<1>2. CASE Chunk
  <2>1. producer = "streaming" /\ UNCHANGED consumerVars
        /\ consumer \notin {"preparing", "refused", "opening"}
    BY <1>2 DEF Chunk, Going, TaskInv
  <2>2. CASE GivenUp
    BY <1>2, <1>s, <2>1, <2>2 DEF Chunk
  <2>3. CASE ~GivenUp
    <3> DEFINE es == <<Token(accumulated + 1)>>
    <3>1. accumulated + 1 \in 1..MaxChunks
      BY <1>2, <2>1, ChunksAssumption DEF Chunk, TypeOK, Texts, AnswerInv
    <3>2. es \in Seq(Queueable) /\ Len(es) = 1 /\ es[1] = Token(accumulated + 1)
      BY <3>1, EventsQueueable
    <3>3. Put(es)
      BY <1>2, <2>3 DEF Chunk
    <3> HIDE DEF es
    <3>4. /\ Len(queue') = Len(queue) + 1
          /\ \A i \in 1..Len(queue) : queue'[i] = queue[i]
          /\ queue'[Len(queue) + 1] = Token(accumulated + 1)
      BY SMTT(30), <1>t, <3>2, <3>3, PutKeeps
    <3>5. consumer \in {"starting", "looping", "waiting"} =>
            Len(sent) + (Len(queue) + 1) - 1 = accumulated + 1
      BY <1>t, <2>1 DEF EventInv
    <3>6. ASSUME consumer \in {"starting", "looping", "waiting"}, NEW j \in 1..Len(queue')
          PROVE  queue'[j] = Token(Len(sent) + j - 1) \/ queue'[j][1] # "token"
      <4>1. CASE j \in 1..Len(queue)
        BY <3>4, <3>6, <4>1 DEF OrderInv
      <4>2. CASE j = Len(queue) + 1
        BY <3>4, <3>5, <3>6, <4>2
      <4> QED BY <1>t, <3>4, <4>1, <4>2
    <3> QED BY <2>1, <3>6 DEF OrderInv
  <2> QED BY <2>2, <2>3
<1>3. CASE ProviderEnds \/ FlushAnswer \/ DatabaseCommits
  BY <1>3, <1>s DEF ProviderEnds, FlushAnswer, DatabaseCommits
<1>4. CASE ProviderFails \/ DatabaseFails \/ Report \/ Cancelled
  BY <1>4, <1>f, EventsQueueable, EventShape
     DEF ProviderFails, DatabaseFails, Report, Cancelled, Going, Running
<1>5. CASE CheckClient
  <2>1. CASE AbandonAnswer
    BY <1>5, <2>1, <1>f, EventsQueueable, EventShape DEF CheckClient, Going
  <2>2. CASE ~AbandonAnswer
    BY <1>5, <2>2, <1>s DEF CheckClient
  <2> QED BY <2>1, <2>2
<1>6. CASE SendConversation
  <2>1. sent' = <<Event("conversation")>> /\ consumer' = "starting" /\ queue' = <<>>
    BY <1>6 DEF SendConversation, Send, OrderInv
  <2>2. Len(sent') = 1 /\ sent'[1] = Event("conversation") /\ Len(queue') = 0
    BY <2>1
  <2> QED BY <2>1, <2>2 DEF OrderInv
<1>7. CASE CreateProducer \/ Heartbeat
  BY <1>7, <1>s DEF CreateProducer, Heartbeat
<1>8. CASE CheckDisconnected \/ LeaveLoop \/ Interrupt
  BY <1>8, <1>s DEF CheckDisconnected, LeaveLoop, Interrupt
<1>9. CASE TakeEvent
  <2> DEFINE e == Head(queue)
  <2>1. /\ consumer = "waiting" /\ Len(queue) > 0 /\ queue[1] = e
        /\ sent' = IF e \in {Event("done"), Event("cancelled")} THEN sent ELSE Append(sent, e)
        /\ consumer' = IF e[1] = "token" THEN "looping" ELSE "leaving"
    BY <1>9, <1>t DEF TakeEvent, Send
  <2>2. /\ Len(queue') = Len(queue) - 1
        /\ \A i \in 1..Len(queue') : queue'[i] = queue[i + 1]
    BY <1>9, <1>t, <2>1 DEF TakeEvent
  <2>3. /\ Len(sent) > 0 /\ sent[1] = Event("conversation")
        /\ \A i \in 2..Len(sent) : sent[i] = Token(i - 1)
        /\ e = Token(Len(sent)) \/ e[1] # "token"
    BY <1>t, <2>1 DEF OrderInv
  <2>4. e \in Queueable
    BY <1>t, <2>1
  <2> HIDE DEF e
  <2>5. CASE e \in {Event("done"), Event("cancelled")}
    <3>1. e[1] # "token"
      BY <2>5 DEF Event
    <3> QED BY <2>1, <2>3, <2>5, <3>1 DEF OrderInv
  <2>6. CASE e \notin {Event("done"), Event("cancelled")}
    <3>1. Len(sent') = Len(sent) + 1 /\ sent'[Len(sent) + 1] = e
          /\ \A i \in 1..Len(sent) : sent'[i] = sent[i]
      <4>1. sent' = Append(sent, e) /\ e \in Sendable
        BY <2>1, <2>4, <2>6 DEF Queueable, Sendable
      <4> QED BY <1>t, <4>1, AppendProperties
    <3>2. sent'[1] = Event("conversation") /\ \A i \in 2..Len(sent) : sent'[i] = Token(i - 1)
      BY <1>t, <2>3, <3>1
    <3>3. CASE e[1] = "token"
      <4>1. consumer' = "looping" /\ e = Token(Len(sent))
        BY <2>1, <2>3, <3>3
      <4>2. \A i \in 2..Len(sent') : sent'[i] = Token(i - 1)
        BY <1>t, <3>1, <3>2, <4>1
      <4>3. \A j \in 1..Len(queue') :
              queue'[j] = Token(Len(sent') + j - 1) \/ queue'[j][1] # "token"
        <5> SUFFICES ASSUME NEW j \in 1..Len(queue')
                     PROVE  queue'[j] = Token(Len(sent') + j - 1) \/ queue'[j][1] # "token"
          OBVIOUS
        <5>1. j + 1 \in 1..Len(queue) /\ queue'[j] = queue[j + 1]
              /\ Len(sent') + j - 1 = Len(sent) + (j + 1) - 1
          BY <1>t, <2>2, <3>1
        <5> QED BY <2>1, <5>1 DEF OrderInv
      <4> QED BY <1>t, <3>1, <3>2, <4>1, <4>2, <4>3 DEF OrderInv
    <3>4. CASE e[1] # "token"
      <4>1. e \in Terminals /\ consumer' = "leaving"
        BY <2>1, <2>4, <2>6, <3>4, EventShape DEF Queueable
      <4>2. ASSUME NEW i \in 2..Len(sent')
            PROVE  sent'[i] = Token(i - 1) \/ (i = Len(sent') /\ sent'[i] \in Terminals)
        <5>1. i \in 2..Len(sent) \/ i = Len(sent) + 1
          BY <1>t, <3>1
        <5> QED BY <3>1, <3>2, <4>1, <5>1
      <4> QED BY <3>2, <4>1, <4>2 DEF OrderInv
    <3> QED BY <3>3, <3>4
  <2> QED BY <2>5, <2>6
<1>10. CASE UNCHANGED vars
  BY <1>10, <1>s DEF vars
<1> QED BY <1>1, <1>2, <1>3, <1>4, <1>5, <1>6, <1>7, <1>8, <1>9, <1>10
     DEF Next, ProducerNext, ConsumerNext

StreamInv == IInv /\ EventInv /\ OrderInv

(* Conversations have the number of the run that began them and are never  *)
(* begun again; the page and the hook know no others.                      *)
PastInv ==
  /\ runs = 0 => consumer = "preparing"
  /\ runs = 0 \/ asked < runs
  /\ \A c \in DOMAIN persisted \cup ({page, known} \ {0}) :
       c <= runs /\ (c = runs => question)

(* A page with a run is in the conversation of the run.                    *)
RunInv ==
  /\ status # "idle" =>
       \/ asked = 0 /\ page = 0 /\ known \in {0, runs} /\ runs > 0
       \/ asked # 0 /\ known = asked /\ Target = asked
  /\ status \in {"streaming", "completed"} => consumer \notin {"preparing", "refused"}
  /\ status = "streaming" /\ got > 0 => known = Conversation
  /\ status = "completed" => known = Conversation

(* The buffer has the tokens among the events that were read.              *)
BufferInv ==
  /\ status \in {"idle", "sending"} => got = 0 /\ buffer = 0
  /\ status = "streaming" =>
       /\ buffer = IF got = 0 THEN 0 ELSE got - 1
       /\ \A i \in 1..got : sent[i] \notin Terminals
  /\ status = "completed" => ~flush /\ shown = message /\ producer = "over"

Holds(store, m, c) == c \in DOMAIN store => \E i \in DOMAIN store[c] : store[c][i] = m

(* What is committed is in the conversation while there is one, and so is  *)
(* every answer that the page shows.                                       *)
KeptInv ==
  /\ message # None => Holds(persisted, Answer(runs, message), Conversation)
  /\ page = 0 => loaded = <<>>
  /\ \A i \in DOMAIN loaded : loaded[i].role = "assistant" => Holds(persisted, loaded[i], page)
  /\ \A i \in DOMAIN drafts : drafts[i].role = "assistant" =>
       Target # 0 /\ Holds(persisted, drafts[i], Target)

ClientInv == StreamInv /\ ClientTypeOK /\ PastInv /\ RunInv /\ BufferInv /\ KeptInv

(* A question starts a stream afresh; every other step of the page is a    *)
(* step of the stream or leaves it alone.                                  *)
LEMMA NewStreamInv == NewStream => StreamInv'
<1> SUFFICES ASSUME NewStream PROVE StreamInv'
  OBVIOUS
<1>1. TypeOK'
  <2>1. queue' \in Seq(Queueable) /\ sent' \in Seq(Sendable)
    BY EmptySeq DEF NewStream
  <2>2. 0 \in Texts
    BY ChunksAssumption DEF Texts
  <2> QED BY <2>1, <2>2 DEF NewStream, TypeOK
<1>2. TaskInv' /\ AnswerInv' /\ EventInv' /\ OrderInv'
  BY DEF NewStream, TaskInv, AnswerInv, Running, EventInv, OrderInv
<1> QED BY <1>1, <1>2 DEF StreamInv, IInv

LEMMA StreamInvStep == StreamInv /\ [Next]_vars => StreamInv'
BY TypeStep, TaskStep, AnswerStep, EventStep, OrderStep DEF StreamInv, IInv

Serving == Admission \/ Producing \/ Consuming \/ NetworkLost

LEMMA ServingSteps == Serving => Next /\ Stored /\ UNCHANGED clientVars /\ runs > 0
BY DEF Serving, Admission, Producing, Consuming, NetworkLost, Served, Next

LEMMA PageSteps ==
  TypeOK /\ [ClientNext]_chatVars =>
    Serving \/ SendMessage \/ UNCHANGED vars \/ Disconnect
<1> SUFFICES ASSUME TypeOK, [ClientNext]_chatVars
             PROVE  Serving \/ SendMessage \/ UNCHANGED vars \/ Disconnect
  OBVIOUS
<1> USE DEF vars, UnchangedStream
<1>1. ASSUME Abort, UnchangedStream PROVE UNCHANGED vars \/ Disconnect
  <2>1. CASE client = client'
    BY <1>1, <2>1
  <2>2. CASE client # client'
    <3>1. client' = "gone"
      BY <1>1, <2>2 DEF Abort
    <3>2. CASE client = "connected"
      BY <1>1, <3>1, <3>2 DEF Disconnect
    <3> QED BY <2>2, <3>1, <3>2 DEF TypeOK
  <2> QED BY <2>1, <2>2
<1>2. HookStep => UNCHANGED vars
  BY DEF HookStep
<1>3. CASE UNCHANGED chatVars
  BY <1>3 DEF chatVars
<1>4. CASE Stop
  BY <1>1, <1>4 DEF Stop
<1>5. ASSUME NEW c \in 0..MaxRuns, Open(c) PROVE UNCHANGED vars \/ Disconnect
  BY <1>1, <1>5 DEF Open
<1>6. ASSUME NEW c \in Conversations, DeleteConversation(c) PROVE UNCHANGED vars \/ Disconnect
  BY <1>1, <1>6 DEF DeleteConversation
<1>7. CASE Reading \/ FlushTokens \/ LoadConversation \/ LoadFails
  BY <1>2, <1>7 DEF Reading, Opened, HttpError, Read, BodyEnds, FlushTokens,
     LoadConversation, LoadFails
<1> QED BY <1>3, <1>4, <1>5, <1>6, <1>7 DEF ClientNext, Serving

LEMMA StreamUnderPage == StreamInv /\ [ClientNext]_chatVars => StreamInv'
<1>1. SendMessage => NewStream
  BY DEF SendMessage
<1>2. Disconnect => Next
  BY DEF Next
<1> QED BY <1>1, <1>2, NewStreamInv, StreamInvStep, ServingSteps, PageSteps
     DEF StreamInv, IInv

(* What a step of the stream keeps: what was sent stays sent, what began   *)
(* stays begun, and only a commit writes the message, once.                *)
LEMMA StreamGrows ==
  ASSUME StreamInv, Next
  PROVE  /\ Len(sent') >= Len(sent) /\ \A i \in 1..Len(sent) : sent'[i] = sent[i]
         /\ question => question'
         /\ consumer \notin {"preparing", "refused"} => consumer' \notin {"preparing", "refused"}
         /\ producer = "over" => producer' = "over" /\ message' = message
         /\ question' # question => ~question /\ question' /\ message' = message
         /\ message' # message => message = None
<1> USE DEF StreamInv, IInv, dbVars, providerVars, producerVars, consumerVars
<1>t. sent \in Seq(Sendable) /\ question \in BOOLEAN /\ queue \in Seq(Queueable)
  BY DEF TypeOK
<1>s. ASSUME NEW e \in Sendable, sent' = Append(sent, e)
      PROVE  Len(sent') >= Len(sent) /\ \A i \in 1..Len(sent) : sent'[i] = sent[i]
  <2>1. Len(sent') = Len(sent) + 1 /\ \A i \in 1..Len(sent) : sent'[i] = sent[i]
    BY <1>t, <1>s, AppendProperties
  <2> QED BY <1>t, <2>1
<1>u. UNCHANGED sent => Len(sent') >= Len(sent) /\ \A i \in 1..Len(sent) : sent'[i] = sent[i]
  BY <1>t
<1>1. CASE Prepare
  BY <1>1, <1>u, <1>t DEF Prepare, TaskInv, TypeOK
<1>2. CASE Refuse \/ Disconnect
  BY <1>2, <1>u DEF Refuse, Disconnect
<1>3. CASE Chunk \/ ProviderEnds \/ CheckClient \/ FlushAnswer
  BY <1>3, <1>u DEF Chunk, ProviderEnds, CheckClient, FlushAnswer, Going, Over
<1>4. CASE ProviderFails \/ DatabaseFails \/ Report \/ Cancelled
  BY <1>4, <1>u DEF ProviderFails, DatabaseFails, Report, Cancelled, Going, Over
<1>5. CASE DatabaseCommits
  BY <1>5, <1>u DEF DatabaseCommits, AnswerInv
<1>6. CASE SendConversation
  <2>1. Event("conversation") \in Sendable
    BY DEF Sendable
  <2> QED BY <1>6, <1>s, <2>1 DEF SendConversation, Send
<1>7. CASE CreateProducer
  BY <1>7, <1>u DEF CreateProducer, TaskInv
<1>8. CASE Heartbeat \/ CheckDisconnected \/ LeaveLoop \/ Interrupt
  BY <1>8, <1>u DEF Heartbeat, CheckDisconnected, LeaveLoop, Interrupt
<1>9. CASE TakeEvent
  <2>1. \/ UNCHANGED sent
        \/ \E e \in Sendable : sent' = Append(sent, e)
    <3>1. Head(queue) \in Queueable
      BY <1>9, <1>t DEF TakeEvent
    <3>2. Head(queue) \in {Event("done"), Event("cancelled")} \/ Head(queue) \in Sendable
      BY <3>1 DEF Queueable, Sendable
    <3> QED BY <1>9, <3>2 DEF TakeEvent, Send
  <2>2. UNCHANGED <<dbVars, producerVars>> /\ consumer' \in {"looping", "leaving"}
    BY <1>9 DEF TakeEvent
  <2> QED BY <1>u, <1>s, <2>1, <2>2
<1> QED BY <1>1, <1>2, <1>3, <1>4, <1>5, <1>6, <1>7, <1>8, <1>9
     DEF Next, ProducerNext, ConsumerNext

-----------------------------------------------------------------------------
(* What the server stores.                                                 *)

(* The messages of the run's conversation with one more *)
Extended(m) ==
  [c \in DOMAIN persisted \cup {Conversation} |->
     IF c = Conversation
       THEN Append(IF c \in DOMAIN persisted THEN persisted[c] ELSE <<>>, m)
     ELSE persisted[c]]

LEMMA Numbers ==
  ASSUME ClientTypeOK, PastInv
  PROVE  /\ runs \in Nat /\ asked \in Nat /\ page \in Nat /\ known \in Nat
         /\ MaxRuns \in Nat /\ MaxChunks \in Nat
         /\ runs > 0 => Conversation \in Conversations /\ Conversation \in Nat
BY RunsAssumption, ChunksAssumption DEF ClientTypeOK, PastInv, Conversation, Conversations

LEMMA ExtendedHas ==
  ASSUME ClientTypeOK, NEW m \in Message, persisted' = Extended(m)
  PROVE  /\ DOMAIN persisted' = DOMAIN persisted \cup {Conversation}
         /\ \A c \in DOMAIN persisted' : persisted'[c] \in Seq(Message)
         /\ \A c \in DOMAIN persisted : \A i \in DOMAIN persisted[c] :
              i \in DOMAIN persisted'[c] /\ persisted'[c][i] = persisted[c][i]
         /\ \E i \in DOMAIN persisted'[Conversation] : persisted'[Conversation][i] = m
<1> DEFINE h == IF Conversation \in DOMAIN persisted THEN persisted[Conversation] ELSE <<>>
<1>1. h \in Seq(Message)
  BY EmptySeq DEF ClientTypeOK
<1>2. /\ DOMAIN persisted' = DOMAIN persisted \cup {Conversation}
      /\ persisted'[Conversation] = Append(h, m)
      /\ \A c \in DOMAIN persisted \ {Conversation} : persisted'[c] = persisted[c]
  BY DEF Extended
<1>3. Conversation \in DOMAIN persisted => persisted[Conversation] = h
  OBVIOUS
<1> HIDE DEF h
<1>4. /\ Append(h, m) \in Seq(Message) /\ Len(Append(h, m)) = Len(h) + 1 /\ Len(h) \in Nat
      /\ \A i \in 1..Len(h) : Append(h, m)[i] = h[i]
      /\ Append(h, m)[Len(h) + 1] = m
  BY <1>1, AppendProperties
<1>5. DOMAIN h = 1..Len(h) /\ DOMAIN Append(h, m) = 1..(Len(h) + 1)
  BY <1>1, <1>4
<1>6. \A c \in DOMAIN persisted' : persisted'[c] \in Seq(Message)
  BY <1>2, <1>4 DEF ClientTypeOK
<1>7. ASSUME NEW c \in DOMAIN persisted, NEW i \in DOMAIN persisted[c]
      PROVE  i \in DOMAIN persisted'[c] /\ persisted'[c][i] = persisted[c][i]
  <2>1. CASE c = Conversation
    <3>1. i \in 1..Len(h) /\ persisted[c] = h /\ persisted'[c] = Append(h, m)
      BY <1>2, <1>3, <1>5, <1>7, <2>1
    <3> QED BY <1>4, <1>5, <3>1
  <2>2. CASE c # Conversation
    BY <1>2, <1>7, <2>2
  <2> QED BY <2>1, <2>2
<1>8. Len(h) + 1 \in DOMAIN persisted'[Conversation]
      /\ persisted'[Conversation][Len(h) + 1] = m
  BY <1>2, <1>4, <1>5
<1> QED BY <1>2, <1>6, <1>7, <1>8

(* The server stores the question of a run, which may begin its            *)
(* conversation, and the answer that is committed.                         *)
LEMMA ServerStores ==
  ASSUME StreamInv, StreamInv', ClientTypeOK, PastInv, Serving
  PROVE  \/ persisted' = persisted /\ message' = message
         \/ \E m \in Message :
              /\ persisted' = Extended(m)
              /\ question'
              /\ Conversation \in DOMAIN persisted \/ (Conversation = runs /\ ~question)
              /\ message' # message => m = Answer(runs, message') /\ message' # None
<1>1. Next /\ Stored /\ runs > 0
  BY ServingSteps
<1>2. /\ question' # question => ~question /\ question' /\ message' = message
      /\ message' # message => message = None
  BY <1>1, StreamGrows
<1>3. runs \in Conversations /\ 0 \in Texts
  BY <1>1, Numbers DEF ClientTypeOK, Conversations, Texts
<1>4. CASE question' # question
  <2>1. Question(runs) \in Message
    BY <1>3 DEF Question, Message
  <2>2. persisted' = Extended(Question(runs)) /\ (asked = 0 \/ asked \in DOMAIN persisted)
    BY <1>1, <1>4 DEF Stored, Extended
  <2>3. Conversation \in DOMAIN persisted \/ Conversation = runs
    BY <2>2 DEF Conversation
  <2> QED BY <1>2, <1>4, <2>1, <2>2, <2>3
<1>5. CASE question' = question /\ message' # message
  <2>1. message' \in Texts /\ question'
    BY <1>2, <1>5 DEF StreamInv, IInv, TypeOK, AnswerInv
  <2>2. Answer(runs, message') \in Message
    BY <1>3, <2>1 DEF Answer, Message
  <2>3. persisted' = Extended(Answer(runs, message')) /\ Conversation \in DOMAIN persisted
    BY <1>1, <1>5 DEF Stored, Extended
  <2> QED BY <1>2, <1>5, <2>1, <2>2, <2>3
<1>6. CASE question' = question /\ message' = message
  BY <1>1, <1>6 DEF Stored
<1> QED BY <1>4, <1>5, <1>6

LEMMA PersistedSteps ==
  [ClientNext]_chatVars =>
    \/ Serving
    \/ persisted' = persisted
    \/ \E c \in Conversations : DeleteConversation(c)
<1> SUFFICES ASSUME [ClientNext]_chatVars, ~Serving, \A c \in Conversations : ~DeleteConversation(c)
             PROVE  persisted' = persisted
  OBVIOUS
<1>1. \A c \in 0..MaxRuns : Open(c) => persisted' = persisted
  BY DEF Open
<1>2. Reading => persisted' = persisted
  BY DEF Reading, Opened, HttpError, Read, BodyEnds, HookStep
<1>3. SendMessage \/ Stop => persisted' = persisted
  BY DEF SendMessage, Stop
<1>4. FlushTokens \/ LoadConversation \/ LoadFails => persisted' = persisted
  BY DEF FlushTokens, LoadConversation, LoadFails, HookStep
<1> QED BY <1>1, <1>2, <1>3, <1>4 DEF ClientNext, Serving, chatVars

(* A conversation that is known keeps what it holds, or is deleted for     *)
(* good.                                                                   *)
LEMMA HoldsStays ==
  ASSUME StreamInv, StreamInv', ClientTypeOK, PastInv, [ClientNext]_chatVars,
         NEW m, NEW c, c = runs => question, Holds(persisted, m, c)
  PROVE  Holds(persisted', m, c)
<1>1. CASE persisted' = persisted
  BY <1>1 DEF Holds
<1>2. CASE Serving /\ persisted' # persisted
  <2>1. PICK new \in Message :
          /\ persisted' = Extended(new)
          /\ Conversation \in DOMAIN persisted \/ (Conversation = runs /\ ~question)
    BY <1>2, ServerStores
  <2>2. /\ DOMAIN persisted' = DOMAIN persisted \cup {Conversation}
        /\ \A d \in DOMAIN persisted : \A i \in DOMAIN persisted[d] :
             i \in DOMAIN persisted'[d] /\ persisted'[d][i] = persisted[d][i]
    BY <2>1, ExtendedHas
  <2>3. c \in DOMAIN persisted' => c \in DOMAIN persisted
    BY <2>1, <2>2
  <2> QED BY <2>2, <2>3 DEF Holds
<1>3. ASSUME NEW d \in Conversations, DeleteConversation(d) PROVE Holds(persisted', m, c)
  <2>1. persisted' = [e \in DOMAIN persisted \ {d} |-> persisted[e]]
    BY <1>3 DEF DeleteConversation
  <2>2. DOMAIN persisted' = DOMAIN persisted \ {d}
        /\ \A e \in DOMAIN persisted' : persisted'[e] = persisted[e]
    BY <2>1
  <2> QED BY <2>2 DEF Holds
<1> QED BY <1>1, <1>2, <1>3, PersistedSteps

-----------------------------------------------------------------------------
(* What the page reads.                                                    *)

Tokens(k) == {i \in 1..k : sent[got + i][1] = "token"}

(* Only tokens of a text are sent.                                         *)
LEMMA TokensBounded ==
  ASSUME sent \in Seq(Sendable), NEW i \in 1..Len(sent), NEW t, sent[i] = Token(t)
  PROVE  t \in Texts
<1>1. sent[i] \in Sendable /\ sent[i][1] = "token"
  BY EventShape
<1>2. sent[i] \notin {Event("conversation")} \cup Terminals
  BY <1>1, EventShape DEF Event
<1>3. PICK m \in 1..MaxChunks : sent[i] = Token(m)
  BY <1>1, <1>2 DEF Sendable
<1>4. Token(t) = Token(m) /\ Token(t)[2] = t /\ Token(m)[2] = m
  BY <1>3, EventShape
<1>5. t = m
  BY ONLY <1>4
<1> QED BY <1>5, ChunksAssumption DEF Texts

(* The events of a chunk: the first of a stream is the conversation, only  *)
(* the last event of a stream ends it, and the tokens are the others.      *)
LEMMA ChunkOfEvents ==
  ASSUME StreamInv, ClientTypeOK, BufferInv, status = "streaming",
         NEW k \in 1..(MaxChunks + 2), k \in 1..(Len(sent) - got)
  PROVE  LET n == buffer + Cardinality(Tokens(k))
         IN /\ n \in Texts
            /\ got = 0 => Carries(k, Event("conversation"))
            /\ Carries(k, Event("completed")) => n = message /\ producer = "over"
            /\ \A e \in Terminals : Carries(k, e) => sent[got + k] = e /\ got + k = Len(sent)
            /\ sent[got + k] \notin Terminals =>
                 n = got + k - 1 /\ \A i \in 1..k : sent[got + i] \notin Terminals
<1>t. /\ sent \in Seq(Sendable) /\ Len(sent) \in Nat /\ got \in Nat /\ k \in Nat /\ k > 0
      /\ got + k <= Len(sent) /\ MaxChunks \in Nat /\ Len(sent) > 0
  BY ChunksAssumption DEF StreamInv, IInv, TypeOK, ClientTypeOK
<1>1. /\ sent[1] = Event("conversation")
      /\ \A i \in 2..Len(sent) :
           sent[i] = Token(i - 1) \/ (i = Len(sent) /\ sent[i] \in Terminals)
  BY <1>t DEF StreamInv, OrderInv
<1>2. ASSUME NEW i \in 1..k
      PROVE  /\ got + i = 1 => sent[got + i] = Event("conversation")
             /\ got + i # 1 => \/ sent[got + i] = Token(got + i - 1)
                               \/ (i = k /\ got + k = Len(sent) /\ sent[got + i] \in Terminals)
  <2>1. got + i \in 1..Len(sent) /\ (got + i = Len(sent) => i = k /\ got + k = Len(sent))
    BY <1>t
  <2>2. got + i = 1 \/ got + i \in 2..Len(sent)
    BY <1>t, <2>1
  <2>3. CASE got + i = 1
    BY <1>1, <2>3
  <2>4. CASE got + i \in 2..Len(sent)
    <3>1. sent[got + i] = Token(got + i - 1)
          \/ (got + i = Len(sent) /\ sent[got + i] \in Terminals)
      <4>1. PICK j \in 2..Len(sent) : j = got + i
        BY <2>4
      <4>2. sent[j] = Token(j - 1) \/ (j = Len(sent) /\ sent[j] \in Terminals)
        BY <1>1
      <4> QED BY <1>t, <4>1, <4>2
    <3>2. got + i # 1
      BY <1>t, <2>4
    <3> QED BY <2>1, <3>1, <3>2
  <2> QED BY <2>2, <2>3, <2>4
<1>3. ASSUME NEW i \in 1..k, sent[got + i] \in Terminals
      PROVE  i = k /\ got + k = Len(sent)
  BY <1>2, <1>3, EventShape
<1>4. \A e \in Terminals : Carries(k, e) => sent[got + k] = e /\ got + k = Len(sent)
  BY <1>3 DEF Carries
<1>5. ASSUME NEW i \in 1..k
      PROVE  i \in Tokens(k) <=> got + i # 1 /\ ~(i = k /\ sent[got + k] \in Terminals)
  <2>1. CASE got + i = 1
    <3>1. sent[got + i][1] # "token"
      BY <1>2, <2>1, EventShape
    <3> QED BY <2>1, <3>1 DEF Tokens
  <2>2. CASE got + i # 1 /\ i = k /\ sent[got + k] \in Terminals
    BY <2>2, EventShape DEF Tokens
  <2>3. CASE got + i # 1 /\ ~(i = k /\ sent[got + k] \in Terminals)
    <3>1. sent[got + i] = Token(got + i - 1)
      BY <1>2, <2>3
    <3>2. sent[got + i][1] = "token"
      BY <3>1, EventShape
    <3> QED BY <2>3, <3>2 DEF Tokens
  <2> QED BY <2>1, <2>2, <2>3
<1> DEFINE first == IF got = 0 THEN 2 ELSE 1
           last == IF sent[got + k] \in Terminals THEN k - 1 ELSE k
           n == buffer + Cardinality(Tokens(k))
<1>6. Tokens(k) = first..last
  <2>1. ASSUME NEW i \in Tokens(k) PROVE i \in first..last
    <3>1. i \in 1..k
      BY DEF Tokens
    <3>2. got + i # 1 /\ ~(i = k /\ sent[got + k] \in Terminals)
      BY <1>5, <2>1, <3>1
    <3>3. got = 0 => i # 1
      BY <3>1, <3>2
    <3> QED BY <1>t, <3>1, <3>2, <3>3
  <2>2. ASSUME NEW i \in first..last PROVE i \in Tokens(k)
    <3>1. i \in 1..k
      BY <1>t
    <3>2. got + i # 1
      BY <1>t, <3>1
    <3>3. ~(i = k /\ sent[got + k] \in Terminals)
      BY <1>t
    <3> QED BY <1>5, <3>1, <3>2, <3>3
  <2> QED BY <2>1, <2>2
<1>7. got + k = 1 => sent[got + k] \notin Terminals
  BY <1>1, EventShape
<1>8. last >= first - 1
  BY <1>t, <1>7
<1>9. Cardinality(Tokens(k)) = last - first + 1
  <2>1. first \in Int /\ last \in Int
    BY <1>t
  <2>2. Cardinality(first..last) = IF first > last THEN 0 ELSE last - first + 1
    BY <2>1, FS_Interval
  <2>3. CASE first > last
    <3>1. last - first + 1 = 0
      BY <1>8, <2>1, <2>3
    <3> QED BY <1>6, <2>2, <2>3, <3>1
  <2>4. CASE ~(first > last)
    BY <1>6, <2>2, <2>4
  <2> QED BY <2>3, <2>4
<1>10. n = IF sent[got + k] \in Terminals THEN got + k - 2 ELSE got + k - 1
  <2>1. buffer = IF got = 0 THEN 0 ELSE got - 1
    BY DEF BufferInv
  <2> QED BY <1>t, <1>9, <2>1
<1> HIDE DEF first, last, n
<1>11. ASSUME sent[got + k] \notin Terminals
       PROVE  n = got + k - 1 /\ n \in Texts /\ \A i \in 1..k : sent[got + i] \notin Terminals
  <2>1. n = got + k - 1
    BY <1>10, <1>11
  <2>2. got + k - 1 \in Texts
    <3>1. CASE got + k = 1
      BY <1>t, <3>1 DEF Texts
    <3>2. CASE got + k # 1
      <4>1. got + k \in 2..Len(sent) /\ got + k \in 1..Len(sent)
        BY <1>t, <3>2
      <4>2. sent[got + k] = Token(got + k - 1)
        <5>1. PICK j \in 2..Len(sent) : j = got + k
          BY <4>1
        <5>2. sent[j] = Token(j - 1) \/ sent[j] \in Terminals
          BY <1>1
        <5> QED BY <1>t, <1>11, <5>1, <5>2
      <4> QED BY <1>t, <4>1, <4>2, TokensBounded
    <3> QED BY <3>1, <3>2
  <2>3. \A i \in 1..k : sent[got + i] \notin Terminals
    BY <1>3, <1>11
  <2> QED BY <2>1, <2>2, <2>3
<1>12. ASSUME sent[got + k] \in Terminals
       PROVE  n \in Texts
  <2>1. n = got + k - 2 /\ got + k >= 2
    BY <1>t, <1>7, <1>10, <1>12
  <2>2. CASE got + k = 2
    BY <1>t, <2>1, <2>2 DEF Texts
  <2>3. CASE got + k > 2
    <3>1. got + k - 1 \in 2..Len(sent) /\ got + k - 1 # Len(sent)
      BY <1>t, <2>3
    <3>2. sent[got + k - 1] = Token((got + k - 1) - 1)
      BY <1>1, <3>1
    <3>3. (got + k - 1) - 1 = got + k - 2
      BY <1>t
    <3> QED BY <1>t, <2>1, <3>1, <3>2, <3>3, TokensBounded
  <2> QED BY <1>t, <2>1, <2>2, <2>3
<1>13. ASSUME Carries(k, Event("completed")) PROVE n = message /\ producer = "over"
  <2>1. sent[got + k] = Event("completed") /\ got + k = Len(sent)
        /\ sent[got + k] \in Terminals
    BY <1>4, <1>13 DEF Terminals
  <2>2. n = Len(sent) - 2
    BY <1>t, <1>10, <2>1
  <2>3. Len(sent) \in 1..Len(sent) /\ sent[Len(sent)] = Event("completed")
    BY <1>t, <2>1
  <2>4. consumer \in {"leaving", "closed"}
    <3>1. consumer \notin {"starting", "looping", "waiting"}
      BY <2>3 DEF StreamInv, EventInv
    <3>2. consumer \notin {"preparing", "refused", "opening"}
      BY <1>t DEF StreamInv, OrderInv
    <3> QED BY <3>1, <3>2 DEF StreamInv, IInv, TypeOK
  <2>5. producer = "over" /\ message = accumulated /\ Len(sent) = accumulated + 2
    BY <2>3, <2>4 DEF StreamInv, EventInv
  <2>6. accumulated \in Nat
    BY <1>t DEF StreamInv, IInv, TypeOK, Texts
  <2> QED BY <1>t, <2>2, <2>5, <2>6
<1>14. got = 0 => Carries(k, Event("conversation"))
  <2>1. got = 0 => 1 \in 1..k /\ sent[got + 1] = Event("conversation")
    BY <1>t, <1>1
  <2> QED BY <2>1 DEF Carries
<1> QED BY <1>4, <1>11, <1>12, <1>13, <1>14 DEF n

PageUnchanged == UNCHANGED <<page, loading, loaded>>

(* What a chunk does to the page: it goes on, its page gives way to that   *)
(* of the conversation, the answer is complete, or it is an error.         *)
LEMMA ReadCases ==
  ASSUME ClientInv, NEW k \in 1..(MaxChunks + 2), Read(k)
  PROVE  /\ UNCHANGED <<vars, persisted, runVars>> /\ status = "streaming"
         /\ \/ /\ status' = "streaming" /\ got' = got + k /\ got' \in 0..Len(sent)
               /\ buffer' = got + k - 1 /\ buffer' \in Texts /\ flush' \in BOOLEAN
               /\ \A i \in 1..got' : sent[i] \notin Terminals
               /\ known' = Conversation /\ address' \in {address, Conversation}
               /\ PageUnchanged /\ UNCHANGED <<shown, drafts>>
            \/ Fresh(Conversation)
            \/ /\ status' = "completed" /\ got' \in 0..Len(sent)
               /\ message \in Texts /\ buffer' = message /\ shown' = message /\ flush' = FALSE
               /\ producer = "over"
               /\ page # 0 \/ known # 0
               /\ known' = Conversation
               /\ \/ UNCHANGED drafts
                  \/ drafts' = Append(drafts, Answer(runs, message))
               /\ PageUnchanged /\ UNCHANGED address
            \/ /\ status' = "error" /\ got' \in 0..Len(sent)
               /\ buffer' \in Texts /\ shown' = buffer' /\ flush' = FALSE
               /\ known' = Conversation
               /\ PageUnchanged /\ UNCHANGED <<address, drafts>>
<1> DEFINE n == buffer + Cardinality(Tokens(k))
           id == IF Carries(k, Event("conversation")) THEN Conversation ELSE known
<1>1. /\ status = "streaming" /\ k \in 1..(Len(sent) - got)
      /\ UNCHANGED <<vars, persisted, runVars>>
  BY DEF Read, HookStep, UnchangedStream, vars
<1>2. /\ n \in Texts
      /\ got = 0 => Carries(k, Event("conversation"))
      /\ Carries(k, Event("completed")) => n = message /\ producer = "over"
      /\ \A e \in Terminals : Carries(k, e) => sent[got + k] = e /\ got + k = Len(sent)
      /\ sent[got + k] \notin Terminals =>
           n = got + k - 1 /\ \A i \in 1..k : sent[got + i] \notin Terminals
  BY <1>1, ChunkOfEvents DEF ClientInv
<1>3. got \in Nat /\ Len(sent) \in Nat /\ k \in Nat /\ got + k \in 0..Len(sent)
      /\ flush \in BOOLEAN
  BY <1>1 DEF ClientInv, ClientTypeOK, TypeOK, StreamInv, IInv
<1>4. id = Conversation
  <2>1. got > 0 => known = Conversation
    BY <1>1 DEF ClientInv, RunInv
  <2> QED BY <1>2, <1>3, <2>1
<1>5. Conversation # 0
  <2>1. runs > 0 /\ runs \in Nat
    BY <1>1, Numbers DEF ClientInv, RunInv, PastInv, StreamInv
  <2> QED BY <2>1 DEF Conversation
<1>6. Tokens(k) = {i \in 1..k : sent[got + i][1] = "token"}
  BY DEF Tokens
<1> HIDE DEF id
<1>7. CASE /\ ~Carries(k, Event("completed")) /\ ~Carries(k, Event("error"))
           /\ got' = got + k
           /\ buffer' = n
           /\ ScheduleTokenFlush(n)
           /\ known' = id
           /\ address' = IF BecomesKnown(id) THEN id ELSE address
           /\ UNCHANGED <<status, shown, drafts, page, queryVars>>
  <2>1. sent[got + k] \notin Terminals
    <3>1. k \in 1..k
      BY <1>3
    <3> QED BY <1>7, <3>1 DEF Terminals, Carries
  <2>2. n = got + k - 1 /\ \A i \in 1..k : sent[got + i] \notin Terminals
    BY <1>2, <2>1
  <2>3. ASSUME NEW i \in 1..(got + k) PROVE sent[i] \notin Terminals
    <3>1. CASE i \in 1..got
      BY <1>1, <3>1 DEF ClientInv, BufferInv
    <3>2. CASE i \notin 1..got
      <4>1. PICK j \in 1..k : i = got + j
        <5>1. i - got \in 1..k /\ i = got + (i - got)
          BY <1>3, <3>2
        <5> QED BY <5>1
      <4> QED BY <2>2, <4>1
    <3> QED BY <3>1, <3>2
  <2>4. flush' \in BOOLEAN
    BY <1>7 DEF ScheduleTokenFlush
  <2> HIDE DEF n
  <2>5. /\ got' = got + k /\ buffer' = n /\ known' = Conversation
        /\ address' \in {address, Conversation} /\ PageUnchanged
        /\ UNCHANGED <<status, shown, drafts>>
    BY <1>4, <1>7 DEF PageUnchanged, queryVars
  <2> QED BY <1>1, <1>2, <1>3, <2>2, <2>3, <2>4, <2>5
<1>8. CASE Fresh(id)
  BY <1>1, <1>4, <1>8
<1>9. CASE /\ Carries(k, Event("completed")) /\ ~BecomesKnown(id)
           /\ status' = "completed"
           /\ got' = got + k
           /\ buffer' = n /\ shown' = FinalTokens(n) /\ flush' = FALSE
           /\ known' = id
           /\ Commit(FinalTokens(n))
           /\ UNCHANGED <<page, address, queryVars>>
  <2>1. n = message /\ producer = "over"
    BY <1>2, <1>9
  <2>2. page # 0 \/ known # 0
    BY <1>4, <1>5, <1>9 DEF BecomesKnown
  <2> HIDE DEF n
  <2>3. drafts' = drafts \/ drafts' = Append(drafts, Answer(runs, message))
    BY <1>9, <2>1 DEF Commit, FinalTokens
  <2> QED BY <1>1, <1>2, <1>3, <1>4, <1>9, <2>1, <2>2, <2>3
          DEF FinalTokens, PageUnchanged, queryVars
<1>10. CASE /\ Carries(k, Event("error"))
            /\ status' = "error"
            /\ got' = got + k
            /\ buffer' = n /\ shown' = FinalTokens(n) /\ flush' = FALSE
            /\ known' = id
            /\ UNCHANGED pageVars
  <2> HIDE DEF n
  <2> QED BY <1>1, <1>2, <1>3, <1>4, <1>10 DEF FinalTokens, PageUnchanged, pageVars, queryVars
<1> QED BY <1>6, <1>7, <1>8, <1>9, <1>10 DEF Read, id

-----------------------------------------------------------------------------
(* A step of the client preserves each part of its invariant.              *)

LEMMA LocalTyped ==
  ASSUME ClientTypeOK, PastInv
  PROVE  LocalMessages \in Seq(Message) /\ Target \in 0..MaxRuns /\ Target <= runs
<1>1. LocalMessages \in Seq(Message) /\ Target \in 0..MaxRuns
  BY DEF ClientTypeOK, LocalMessages, Target
<1>2. Target # 0 => Target \in DOMAIN persisted \cup ({page, known} \ {0})
  BY DEF Target
<1>3. Target # 0 => Target <= runs
  BY <1>2 DEF PastInv
<1>4. runs \in Nat
  BY Numbers
<1> QED BY <1>1, <1>3, <1>4

LEMMA ClientTypeStep ==
  ASSUME ClientInv, StreamInv', [ClientNext]_chatVars
  PROVE  ClientTypeOK'
<1> USE DEF ClientInv, ClientTypeOK, hookVars, queryVars, pageVars, runVars, clientVars
<1>t. /\ TypeOK' /\ 0 \in Texts /\ MaxRuns \in Nat /\ <<>> \in Seq(Message)
      /\ 0 \in 0..MaxRuns /\ 0 \in 0..Len(sent') /\ Len(sent') \in Nat /\ Len(sent) \in Nat
  <2>1. TypeOK'
    BY DEF StreamInv, IInv
  <2>2. Len(sent') \in Nat /\ Len(sent) \in Nat
    BY <2>1 DEF TypeOK
  <2> QED BY <2>1, <2>2, EmptySeq, ChunksAssumption, RunsAssumption DEF Texts
<1> DEFINE StoreOK == /\ DOMAIN persisted \subseteq Conversations
                      /\ \A c \in DOMAIN persisted : persisted[c] \in Seq(Message)
(* A page that is mounted anew *)
<1>m. ASSUME NEW c \in 0..MaxRuns, Fresh(c), UNCHANGED runVars, StoreOK' PROVE ClientTypeOK'
  BY <1>t, <1>m DEF Fresh
<1>u. UNCHANGED persisted => StoreOK'
  OBVIOUS
<1>1. CASE Serving
  <2>1. Next /\ UNCHANGED clientVars /\ runs > 0
    BY <1>1, ServingSteps
  <2>2. got' \in 0..Len(sent')
    <3>1. Len(sent') >= Len(sent)
      BY <2>1, StreamGrows
    <3> QED BY <1>t, <2>1, <3>1
  <2>3. StoreOK'
    <3>1. CASE UNCHANGED persisted
      BY <3>1, <1>u
    <3>2. CASE persisted' # persisted
      <4>1. PICK m \in Message : persisted' = Extended(m)
        BY <1>1, <3>2, ServerStores
      <4>2. Conversation \in Conversations
        BY <2>1, Numbers
      <4> QED BY <4>1, <4>2, ExtendedHas
    <3> QED BY <3>1, <3>2
  <2> QED BY <1>t, <2>1, <2>2, <2>3
<1>2. CASE SendMessage
  <2>1. Question(runs + 1) \in Message /\ runs + 1 \in 0..MaxRuns
    BY <1>2, <1>t DEF SendMessage, Question, Message, Conversations
  <2>2. drafts' \in Seq(Message) /\ Target \in 0..MaxRuns
    BY <1>2, <2>1, LocalTyped, AppendProperties DEF SendMessage
  <2>3. UNCHANGED persisted
    BY <1>2 DEF SendMessage
  <2> QED BY <1>2, <1>t, <1>u, <2>1, <2>2, <2>3 DEF SendMessage
<1>3. CASE Stop
  BY <1>3, <1>t, <1>u DEF Stop, UnchangedStream, consumerVars
<1>4. ASSUME NEW c \in 0..MaxRuns, Open(c) PROVE ClientTypeOK'
  <2>1. UNCHANGED <<persisted, runVars, sent>>
    BY <1>4 DEF Open, UnchangedStream, consumerVars
  <2>2. CASE Fresh(c)
    BY <1>m, <1>u, <2>1, <2>2
  <2>3. CASE address' = c /\ UNCHANGED <<hookVars, drafts, page, queryVars>>
    BY <1>t, <1>u, <2>1, <2>3
  <2> QED BY <1>4, <2>2, <2>3 DEF Open
<1>5. ASSUME NEW c \in Conversations, DeleteConversation(c) PROVE ClientTypeOK'
  <2>1. UNCHANGED <<runVars, sent>> /\ StoreOK'
    BY <1>5 DEF DeleteConversation, UnchangedStream, consumerVars
  <2>2. CASE Fresh(0)
    BY <1>m, <1>t, <2>1, <2>2
  <2>3. CASE address' \in {address, 0} /\ UNCHANGED <<hookVars, drafts, page, queryVars>>
    BY <1>t, <2>1, <2>3
  <2> QED BY <1>5, <2>2, <2>3 DEF DeleteConversation
<1>6. CASE Opened \/ HttpError \/ BodyEnds \/ FlushTokens
  <2>1. UNCHANGED <<persisted, runVars, sent>>
    BY <1>6 DEF Opened, HttpError, BodyEnds, FlushTokens, HookStep, UnchangedStream, consumerVars
  <2>2. /\ status' \in {"streaming", "error", status} /\ shown' \in Texts /\ flush' \in BOOLEAN
        /\ UNCHANGED <<got, buffer, known, pageVars>>
    BY <1>6 DEF Opened, HttpError, BodyEnds, FlushTokens, Incomplete, FinalTokens
  <2> QED BY <1>t, <1>u, <2>1, <2>2
<1>7. ASSUME NEW k \in 1..(MaxChunks + 2), Read(k) PROVE ClientTypeOK'
  <2>1. UNCHANGED <<persisted, runVars, sent>> /\ StoreOK'
    BY <1>7, <1>u, ReadCases DEF vars, consumerVars
  <2>2. runs > 0 /\ Conversation \in 0..MaxRuns
    <3>1. status = "streaming"
      BY <1>7, ReadCases
    <3>2. consumer # "preparing"
      BY <3>1 DEF RunInv
    <3>3. runs > 0
      BY <3>2, Numbers DEF PastInv
    <3> QED BY <3>3, Numbers DEF Conversations
  <2>3. CASE Fresh(Conversation)
    BY <1>m, <2>1, <2>2, <2>3
  <2>4. CASE ~Fresh(Conversation)
    <3>1. /\ status' \in {"streaming", "completed", "error"}
          /\ got' \in 0..Len(sent) /\ buffer' \in Texts /\ shown' \in Texts
          /\ flush' \in BOOLEAN /\ known' = Conversation /\ address' \in {address, Conversation}
          /\ PageUnchanged
      BY <1>7, <2>4, ReadCases
    <3>d. \/ drafts' = drafts
          \/ message \in Texts /\ drafts' = Append(drafts, Answer(runs, message))
      BY <1>7, <2>4, ReadCases
    <3>2. message \in Texts => Answer(runs, message) \in Message
      BY <1>t, <2>2, Numbers DEF Answer, Message, Conversations
    <3>3. drafts' \in Seq(Message)
      <4>1. drafts \in Seq(Message)
        OBVIOUS
      <4>2. CASE message \in Texts /\ drafts' = Append(drafts, Answer(runs, message))
        BY <4>1, <4>2, <3>2, AppendProperties
      <4> QED BY <3>d, <4>1, <4>2
    <3> QED BY <1>t, <2>1, <2>2, <3>1, <3>3 DEF PageUnchanged
  <2> QED BY <2>3, <2>4
<1>8. CASE LoadConversation \/ LoadFails
  <2>1. UNCHANGED <<persisted, runVars, sent, hookVars, drafts, page, address>>
    BY <1>8 DEF LoadConversation, LoadFails, HookStep, UnchangedStream, consumerVars
  <2>2. loading' \in {"success", "error"} /\ loaded' \in Seq(Message)
    BY <1>8 DEF LoadConversation, LoadFails
  <2> QED BY <1>t, <1>u, <2>1, <2>2
<1>9. CASE UNCHANGED chatVars
  BY <1>9, <1>t, <1>u DEF chatVars, vars, consumerVars
<1> QED BY <1>1, <1>2, <1>3, <1>4, <1>5, <1>6, <1>7, <1>8, <1>9
     DEF ClientNext, Serving, Reading

LEMMA PastStep ==
  ASSUME ClientInv, StreamInv', [ClientNext]_chatVars
  PROVE  PastInv'
<1> USE DEF ClientInv, PastInv, hookVars, queryVars, pageVars, runVars, clientVars
<1>t. runs \in Nat /\ asked \in Nat /\ page \in Nat /\ known \in Nat /\ Target \in Nat
  BY Numbers, LocalTyped
<1> DEFINE Past(c) == c <= runs /\ (c = runs => question)
(* A step that neither asks nor forgets the question *)
<1>s. ASSUME UNCHANGED <<runVars>>, question => question',
             runs = 0 => consumer' = "preparing",
             \A c \in DOMAIN persisted' : c \in DOMAIN persisted \/ (c = runs /\ question'),
             page' = 0 \/ Past(page'), known' = 0 \/ Past(known')
      PROVE  PastInv'
  <2>1. \A c \in DOMAIN persisted : Past(c)
    OBVIOUS
  <2>2. \A c \in DOMAIN persisted' : Past(c)'
    BY <1>s, <1>t, <2>1
  <2>3. (page' = 0 \/ Past(page)') /\ (known' = 0 \/ Past(known)')
    BY <1>s
  <2> QED BY <1>s, <2>2, <2>3
<1>p. (page = 0 \/ Past(page)) /\ (known = 0 \/ Past(known))
  OBVIOUS
<1>1. CASE Serving
  <2>1. Next /\ UNCHANGED clientVars /\ runs > 0
    BY <1>1, ServingSteps
  <2>2. question => question'
    BY <2>1, StreamGrows
  <2>3. \A c \in DOMAIN persisted' : c \in DOMAIN persisted \/ (c = runs /\ question')
    <3>1. CASE UNCHANGED persisted
      BY <3>1
    <3>2. CASE persisted' # persisted
      <4>1. PICK m \in Message :
              /\ persisted' = Extended(m) /\ question'
              /\ Conversation \in DOMAIN persisted \/ Conversation = runs
        BY <1>1, <3>2, ServerStores
      <4> QED BY <4>1, ExtendedHas
    <3> QED BY <3>1, <3>2
  <2> QED BY <1>s, <1>t, <1>p, <2>1, <2>2, <2>3
<1>2. CASE SendMessage
  <2>1. /\ runs' = runs + 1 /\ asked' = Target /\ known' = Target /\ Target <= runs
        /\ UNCHANGED <<persisted, page>>
    BY <1>2, LocalTyped DEF SendMessage
  <2>2. \A c \in DOMAIN persisted \cup ({page, known} \ {0}) : c <= runs
    OBVIOUS
  <2>3. \A c \in DOMAIN persisted : c \in Nat
    BY DEF ClientTypeOK, Conversations
  <2> QED BY <1>t, <2>1, <2>2, <2>3
<1>3. CASE Stop
  BY <1>3, <1>s, <1>p DEF Stop, UnchangedStream, dbVars, consumerVars
<1>4. ASSUME NEW c \in 0..MaxRuns, Open(c) PROVE PastInv'
  BY <1>4, <1>s, <1>p DEF Open, Fresh, UnchangedStream, dbVars, consumerVars
<1>5. ASSUME NEW c \in Conversations, DeleteConversation(c) PROVE PastInv'
  BY <1>5, <1>s, <1>p DEF DeleteConversation, Fresh, UnchangedStream, dbVars, consumerVars
<1>6. CASE Opened \/ HttpError \/ BodyEnds \/ FlushTokens \/ LoadConversation \/ LoadFails
  BY <1>6, <1>s, <1>p
     DEF Opened, HttpError, BodyEnds, FlushTokens, LoadConversation, LoadFails, HookStep,
         UnchangedStream, dbVars, consumerVars
<1>7. ASSUME NEW k \in 1..(MaxChunks + 2), Read(k) PROVE PastInv'
  <2>1. UNCHANGED <<vars, persisted, runVars>> /\ status = "streaming"
    BY <1>7, ReadCases
  <2>2. consumer \notin {"preparing", "refused"} /\ question
    BY <2>1 DEF RunInv, StreamInv, IInv, TaskInv
  <2>3. Past(Conversation)
    BY <1>t, <2>2 DEF Conversation
  <2>4. page' \in {page, Conversation} /\ known' \in {0, Conversation}
    BY <1>7, ReadCases DEF Fresh, PageUnchanged
  <2> QED BY <1>s, <1>p, <2>1, <2>2, <2>3, <2>4 DEF vars, dbVars, consumerVars
<1>8. CASE UNCHANGED chatVars
  BY <1>8, <1>s, <1>p DEF chatVars, vars, dbVars, consumerVars
<1> QED BY <1>1, <1>2, <1>3, <1>4, <1>5, <1>6, <1>7, <1>8
     DEF ClientNext, Serving, Reading

LEMMA RunStep ==
  ASSUME ClientInv, StreamInv', [ClientNext]_chatVars
  PROVE  RunInv'
<1> USE DEF hookVars, queryVars, pageVars, runVars, clientVars
<1>t. runs \in Nat /\ asked \in Nat /\ page \in Nat /\ known \in Nat /\ RunInv
      /\ status \in {"idle", "sending", "streaming", "completed", "error", "cancelled"}
  BY Numbers DEF ClientInv, ClientTypeOK
(* A step that stays in the run and the conversation *)
<1>s. ASSUME UNCHANGED <<runVars, page, known>>, status # "idle" \/ status' = "idle",
             consumer \notin {"preparing", "refused"} => consumer' \notin {"preparing", "refused"},
             status' \in {"streaming", "completed"} => consumer \notin {"preparing", "refused"},
             status' \in {"streaming", "completed"} /\ got' > 0 => known = Conversation,
             status' = "completed" => known = Conversation
      PROVE  RunInv'
  BY <1>t, <1>s DEF RunInv, Conversation, Target
<1>m. ASSUME NEW c, Fresh(c) PROVE RunInv'
  BY <1>m DEF Fresh, RunInv
<1>1. CASE Serving
  <2>1. Next /\ UNCHANGED clientVars
    BY <1>1, ServingSteps
  <2>2. consumer \notin {"preparing", "refused"} => consumer' \notin {"preparing", "refused"}
    BY <2>1, StreamGrows DEF ClientInv
  <2> QED BY <1>s, <1>t, <2>1, <2>2 DEF RunInv
<1>2. CASE SendMessage
  <2>1. /\ runs' = runs + 1 /\ asked' = Target /\ known' = Target /\ page' = page
        /\ status' = "sending"
    BY <1>2 DEF SendMessage
  <2> QED BY <1>t, <2>1 DEF RunInv, Target
<1>3. CASE Stop
  BY <1>3, <1>s DEF Stop, Busy, UnchangedStream, consumerVars
<1>4. ASSUME NEW c \in 0..MaxRuns, Open(c) PROVE RunInv'
  <2>1. CASE Fresh(c)
    BY <1>m, <2>1
  <2>2. CASE UNCHANGED <<hookVars, page>>
    BY <1>4, <1>s, <1>t, <2>2 DEF Open, UnchangedStream, consumerVars, RunInv
  <2> QED BY <1>4, <2>1, <2>2 DEF Open
<1>5. ASSUME NEW c \in Conversations, DeleteConversation(c) PROVE RunInv'
  <2>1. CASE Fresh(0)
    BY <1>m, <2>1
  <2>2. CASE UNCHANGED <<hookVars, page>>
    BY <1>5, <1>s, <1>t, <2>2 DEF DeleteConversation, UnchangedStream, consumerVars, RunInv
  <2> QED BY <1>5, <2>1, <2>2 DEF DeleteConversation
<1>6. CASE Opened
  <2>1. got = 0 /\ consumer' = consumer
    BY <1>6 DEF Opened, ClientInv, BufferInv, HookStep, UnchangedStream, consumerVars
  <2> QED BY <1>6, <1>s, <2>1 DEF Opened, HookStep
<1>7. CASE HttpError \/ BodyEnds
  BY <1>7, <1>s
     DEF HttpError, BodyEnds, Incomplete, HookStep, UnchangedStream, consumerVars
<1>8. CASE FlushTokens \/ LoadConversation \/ LoadFails
  BY <1>8, <1>s, <1>t
     DEF FlushTokens, LoadConversation, LoadFails, HookStep, UnchangedStream, consumerVars, RunInv
<1>9. ASSUME NEW k \in 1..(MaxChunks + 2), Read(k) PROVE RunInv'
  <2>1. CASE Fresh(Conversation)
    BY <1>m, <2>1
  <2>2. CASE ~Fresh(Conversation)
    <3>1. /\ known' = Conversation /\ PageUnchanged /\ status = "streaming"
          /\ UNCHANGED <<vars, runVars>>
      BY <1>9, <2>2, ReadCases
    <3>2. \/ asked = 0 /\ page = 0 /\ runs > 0 /\ Conversation = runs
          \/ asked # 0 /\ known = asked /\ Target = asked /\ Conversation = asked
      BY <1>t, <3>1 DEF RunInv, Conversation
    <3>3. consumer \notin {"preparing", "refused"} /\ consumer' = consumer
      BY <1>t, <3>1 DEF RunInv, vars, consumerVars
    <3>4. /\ page' = page /\ runs' = runs /\ asked' = asked /\ Conversation' = Conversation
      BY <3>1 DEF PageUnchanged, Conversation
    <3>5. asked # 0 => Target' = asked
      BY <3>1, <3>2, <3>4 DEF Target
    <3> QED BY <1>t, <3>1, <3>2, <3>3, <3>4, <3>5 DEF RunInv
  <2> QED BY <2>1, <2>2
<1>10. CASE UNCHANGED chatVars
  BY <1>10, <1>s, <1>t DEF chatVars, vars, consumerVars, RunInv
<1> QED BY <1>1, <1>2, <1>3, <1>4, <1>5, <1>6, <1>7, <1>8, <1>9, <1>10
     DEF ClientNext, Serving, Reading

LEMMA BufferStep ==
  ASSUME ClientInv, StreamInv', [ClientNext]_chatVars
  PROVE  BufferInv'
<1> USE DEF hookVars, queryVars, pageVars, runVars, clientVars
<1>t. got \in 0..Len(sent) /\ Len(sent) \in Nat /\ got \in Nat /\ BufferInv
  BY DEF ClientInv, ClientTypeOK, StreamInv, IInv, TypeOK
<1>m. ASSUME NEW c, Fresh(c) PROVE BufferInv'
  BY <1>m DEF Fresh, BufferInv
(* A step that leaves the stream and the hook alone *)
<1>u. ASSUME UNCHANGED <<hookVars, sent, producer, message>> PROVE BufferInv'
  BY <1>t, <1>u DEF BufferInv
<1>1. CASE Serving
  <2>1. Next /\ UNCHANGED clientVars
    BY <1>1, ServingSteps
  <2>2. /\ \A i \in 1..Len(sent) : sent'[i] = sent[i]
        /\ producer = "over" => producer' = "over" /\ message' = message
    BY <2>1, StreamGrows DEF ClientInv
  <2>3. \A i \in 1..got : sent'[i] = sent[i]
    BY <1>t, <2>2
  <2> QED BY <1>t, <2>1, <2>2, <2>3 DEF BufferInv
<1>2. CASE SendMessage
  BY <1>2 DEF SendMessage, BufferInv
<1>3. CASE Stop \/ HttpError \/ BodyEnds
  BY <1>3 DEF Stop, HttpError, BodyEnds, Incomplete, BufferInv
<1>4. ASSUME NEW c \in 0..MaxRuns, Open(c) PROVE BufferInv'
  BY <1>4, <1>m, <1>u DEF Open, UnchangedStream, dbVars, producerVars, consumerVars
<1>5. ASSUME NEW c \in Conversations, DeleteConversation(c) PROVE BufferInv'
  BY <1>5, <1>m, <1>u DEF DeleteConversation, UnchangedStream, dbVars, producerVars, consumerVars
<1>6. CASE Opened
  <2>1. got' = 0 /\ buffer' = 0 /\ status' = "streaming"
    BY <1>6, <1>t DEF Opened, BufferInv
  <2> QED BY <2>1 DEF BufferInv
<1>7. CASE FlushTokens
  <2>1. status # "completed" /\ UNCHANGED <<status, got, buffer, sent>>
    BY <1>7, <1>t DEF FlushTokens, BufferInv, HookStep, UnchangedStream, consumerVars
  <2> QED BY <1>t, <2>1 DEF BufferInv
<1>8. CASE LoadConversation \/ LoadFails
  BY <1>8, <1>u DEF LoadConversation, LoadFails, HookStep, UnchangedStream, dbVars,
     producerVars, consumerVars
<1>9. ASSUME NEW k \in 1..(MaxChunks + 2), Read(k) PROVE BufferInv'
  <2>1. CASE Fresh(Conversation)
    BY <1>m, <2>1
  <2>2. k \in Nat /\ k > 0
    BY ChunksAssumption
  <2>3. UNCHANGED <<sent, producer, message>>
    BY <1>9, ReadCases DEF vars, dbVars, producerVars, consumerVars
  <2>4. CASE /\ status' = "streaming" /\ got' = got + k /\ buffer' = got + k - 1
             /\ \A i \in 1..got' : sent[i] \notin Terminals
    BY <1>t, <2>2, <2>3, <2>4 DEF BufferInv
  <2>5. CASE status' = "completed" /\ shown' = message /\ flush' = FALSE /\ producer = "over"
    BY <2>3, <2>5 DEF BufferInv
  <2>6. CASE status' = "error"
    BY <2>6 DEF BufferInv
  <2> QED BY <1>9, <2>1, <2>4, <2>5, <2>6, ReadCases
<1>10. CASE UNCHANGED chatVars
  BY <1>10, <1>u DEF chatVars, vars, dbVars, producerVars, consumerVars
<1> QED BY <1>1, <1>2, <1>3, <1>4, <1>5, <1>6, <1>7, <1>8, <1>9, <1>10
     DEF ClientNext, Serving, Reading

LEMMA KeptStep ==
  ASSUME ClientInv, StreamInv', [ClientNext]_chatVars
  PROVE  KeptInv'
<1> USE DEF hookVars, queryVars, pageVars, runVars, clientVars
<1> DEFINE MessageKept == message # None => Holds(persisted, Answer(runs, message), Conversation)
           LoadedKept == /\ page = 0 => loaded = <<>>
                         /\ \A i \in DOMAIN loaded :
                              loaded[i].role = "assistant" => Holds(persisted, loaded[i], page)
           DraftsKept == \A i \in DOMAIN drafts : drafts[i].role = "assistant" =>
                           Target # 0 /\ Holds(persisted, drafts[i], Target)
<1>k. MessageKept /\ LoadedKept /\ DraftsKept
  BY DEF ClientInv, KeptInv
<1>q. MessageKept' /\ LoadedKept' /\ DraftsKept' => KeptInv'
  BY DEF KeptInv
<1>t. runs \in Nat /\ page \in Nat /\ known \in Nat
  BY Numbers DEF ClientInv
<1>h. ASSUME NEW m, NEW c, c = runs => question, Holds(persisted, m, c)
      PROVE  Holds(persisted', m, c)
  BY <1>h, HoldsStays DEF ClientInv
<1>p. (page # 0 /\ page = runs => question) /\ (Target # 0 /\ Target = runs => question)
  <2>1. page # 0 => page \in DOMAIN persisted \cup ({page, known} \ {0})
    OBVIOUS
  <2>2. Target # 0 => Target \in DOMAIN persisted \cup ({page, known} \ {0})
    BY DEF Target
  <2> QED BY <2>1, <2>2 DEF ClientInv, PastInv
<1>c. message # None => question
  BY DEF ClientInv, StreamInv, IInv, AnswerInv
<1>e. \A i \in DOMAIN << >> : FALSE
  OBVIOUS
<1>1. ASSUME UNCHANGED <<message, runVars>> PROVE MessageKept'
  BY <1>k, <1>h, <1>c, <1>1 DEF Conversation
<1>2. ASSUME UNCHANGED <<page, loaded>> PROVE LoadedKept'
  <2>1. (page' = 0 => loaded' = <<>>) /\ (DOMAIN loaded # {} => page # 0)
    BY <1>k, <1>2
  <2>2. ASSUME NEW i \in DOMAIN loaded, loaded[i].role = "assistant"
        PROVE  Holds(persisted', loaded[i], page)
    <3>1. Holds(persisted, loaded[i], page)
      BY <1>k, <2>2
    <3>2. page # 0
      BY <2>1
    <3> QED BY <1>h, <1>p, <3>1, <3>2
  <2> QED BY <1>2, <2>1, <2>2
<1>d. ASSUME NEW i \in DOMAIN drafts, drafts[i].role = "assistant"
      PROVE  Target # 0 /\ Holds(persisted', drafts[i], Target)
  <2>1. Target # 0 /\ Holds(persisted, drafts[i], Target)
    BY <1>k, <1>d
  <2> QED BY <1>h, <1>p, <2>1
<1>3. ASSUME UNCHANGED drafts, Target = 0 \/ Target' = Target PROVE DraftsKept'
  BY <1>d, <1>3
<1>m. ASSUME NEW c, Fresh(c), UNCHANGED <<message, runVars>> PROVE KeptInv'
  <2>1. drafts' = <<>> /\ loaded' = <<>>
    BY <1>m DEF Fresh
  <2>2. LoadedKept' /\ DraftsKept'
    BY <1>e, <2>1
  <2> QED BY <1>m, <1>1, <1>q, <2>2
<1>u. ASSUME UNCHANGED <<message, runVars, page, loaded, drafts, known>> PROVE KeptInv'
  <2>1. Target' = Target
    BY <1>u DEF Target
  <2> QED BY <1>u, <1>1, <1>2, <1>3, <1>q, <2>1
<1>4. CASE Serving
  <2>1. UNCHANGED clientVars
    BY <1>4, ServingSteps
  <2>2. LoadedKept' /\ DraftsKept'
    <3>1. Target' = Target
      BY <2>1 DEF Target
    <3> QED BY <1>2, <1>3, <2>1, <3>1
  <2>3. MessageKept'
    <3>1. CASE UNCHANGED message
      BY <1>1, <2>1, <3>1
    <3>2. CASE message' # message
      <4>1. PICK m \in Message : persisted' = Extended(m) /\ m = Answer(runs, message')
        BY <1>4, <3>2, ServerStores DEF ClientInv
      <4>2. \E i \in DOMAIN persisted'[Conversation] : persisted'[Conversation][i] = m
        BY <4>1, ExtendedHas DEF ClientInv
      <4>3. Conversation' = Conversation /\ runs' = runs
        BY <2>1 DEF Conversation
      <4>4. Holds(persisted', Answer(runs, message'), Conversation)
        BY <4>1, <4>2 DEF Holds
      <4> QED BY <4>3, <4>4
    <3> QED BY <3>1, <3>2
  <2> QED BY <1>q, <2>2, <2>3
<1>5. CASE SendMessage
  <2>1. /\ message' = None /\ known' = Target /\ UNCHANGED <<persisted, page, loaded>>
        /\ drafts' = Append(LocalMessages, Question(runs + 1))
    BY <1>5 DEF SendMessage, NewStream
  <2>2. Target' = Target
    BY <1>t, <2>1 DEF Target
  <2>3. ASSUME NEW i \in DOMAIN LocalMessages, LocalMessages[i].role = "assistant"
        PROVE  Target # 0 /\ Holds(persisted', LocalMessages[i], Target)
    <3>1. CASE drafts # <<>>
      BY <1>d, <2>3, <3>1 DEF LocalMessages
    <3>2. CASE drafts = <<>>
      <4>1. LocalMessages = loaded
        BY <3>2 DEF LocalMessages
      <4>2. i \in DOMAIN loaded /\ loaded[i].role = "assistant"
        BY <2>3, <4>1
      <4>3. page # 0
        BY <1>k, <4>2
      <4>4. Target = page /\ Holds(persisted, loaded[i], page)
        BY <1>k, <4>2, <4>3 DEF Target
      <4> QED BY <1>h, <1>p, <4>1, <4>3, <4>4
    <3> QED BY <3>1, <3>2
  <2>4. LocalMessages \in Seq(Message)
    BY LocalTyped DEF ClientInv
  <2>5. Question(runs + 1) \in Message
    <3>1. runs + 1 \in Conversations /\ 0 \in Texts
      BY <1>5, <1>t, ChunksAssumption, RunsAssumption DEF SendMessage, Conversations, Texts
    <3> QED BY <3>1 DEF Question, Message
  <2>6. ASSUME NEW i \in DOMAIN drafts', drafts'[i].role = "assistant"
        PROVE  Target # 0 /\ Holds(persisted', drafts'[i], Target)
    <3>1. /\ Len(drafts') = Len(LocalMessages) + 1 /\ Len(LocalMessages) \in Nat
          /\ DOMAIN drafts' = 1..Len(drafts')
          /\ \A j \in 1..Len(LocalMessages) : drafts'[j] = LocalMessages[j]
          /\ drafts'[Len(LocalMessages) + 1] = Question(runs + 1)
      BY <2>1, <2>4, <2>5, AppendProperties
    <3>2. Question(runs + 1).role # "assistant"
      BY DEF Question
    <3>3. i \in 1..Len(LocalMessages) /\ drafts'[i] = LocalMessages[i]
      BY <2>6, <3>1, <3>2
    <3>4. i \in DOMAIN LocalMessages /\ LocalMessages[i].role = "assistant"
      BY <2>4, <2>6, <3>3
    <3> QED BY <2>3, <3>3, <3>4
  <2>7. DraftsKept'
    BY <2>2, <2>6
  <2>8. LoadedKept'
    BY <1>2, <2>1
  <2> QED BY <1>q, <2>1, <2>7, <2>8
<1>6. CASE Stop \/ Opened \/ HttpError \/ BodyEnds \/ FlushTokens
  BY <1>6, <1>u
     DEF Stop, Opened, HttpError, BodyEnds, FlushTokens, HookStep, UnchangedStream, dbVars
<1>7. ASSUME NEW c \in 0..MaxRuns, Open(c) PROVE KeptInv'
  BY <1>7, <1>m, <1>u DEF Open, UnchangedStream, dbVars
<1>8. ASSUME NEW c \in Conversations, DeleteConversation(c) PROVE KeptInv'
  BY <1>8, <1>m, <1>u DEF DeleteConversation, UnchangedStream, dbVars
<1>9. ASSUME NEW k \in 1..(MaxChunks + 2), Read(k) PROVE KeptInv'
  <2>1. UNCHANGED <<vars, persisted, runVars, message>> /\ status = "streaming"
    BY <1>9, ReadCases DEF vars, dbVars
  <2>2. CASE Fresh(Conversation)
    BY <1>m, <2>1, <2>2
  <2>3. CASE ~Fresh(Conversation)
    <3>1. known' = Conversation /\ PageUnchanged
      BY <1>9, <2>3, ReadCases
    <3>2. \/ asked = 0 /\ page = 0 /\ known \in {0, runs} /\ runs > 0
          \/ asked # 0 /\ known = asked /\ Target = asked
      BY <2>1 DEF ClientInv, RunInv
    <3>3. Target' = Conversation /\ (Target = 0 \/ Target = Conversation)
      BY <3>1, <3>2 DEF Target, Conversation, PageUnchanged
    <3>4. MessageKept' /\ LoadedKept'
      BY <1>1, <1>2, <2>1, <3>1 DEF PageUnchanged
    <3>5. CASE UNCHANGED drafts
      BY <1>3, <1>q, <3>3, <3>4, <3>5
    <3>6. CASE /\ message \in Texts /\ drafts' = Append(drafts, Answer(runs, message))
      <4>1. message # None
        BY <3>6, ChunksAssumption DEF Texts, None
      <4>2. Conversation # 0 /\ Holds(persisted, Answer(runs, message), Conversation)
        BY <1>k, <1>t, <3>2, <4>1 DEF Conversation
      <4>3. runs \in 1..MaxRuns
        <5>1. runs # 0
          BY <2>1 DEF ClientInv, RunInv, PastInv
        <5> QED BY <1>t, <5>1 DEF ClientInv, ClientTypeOK
      <4>4. Answer(runs, message) \in Message /\ drafts \in Seq(Message)
        BY <3>6, <4>3 DEF ClientInv, ClientTypeOK, Answer, Message, Conversations
      <4>5. ASSUME NEW i \in DOMAIN drafts', drafts'[i].role = "assistant"
            PROVE  Conversation # 0 /\ Holds(persisted, drafts'[i], Conversation)
        <5>1. /\ Len(drafts') = Len(drafts) + 1 /\ Len(drafts) \in Nat
              /\ DOMAIN drafts' = 1..Len(drafts') /\ DOMAIN drafts = 1..Len(drafts)
              /\ \A j \in 1..Len(drafts) : drafts'[j] = drafts[j]
              /\ drafts'[Len(drafts) + 1] = Answer(runs, message)
          BY <3>6, <4>4, AppendProperties
        <5>2. CASE i = Len(drafts) + 1
          BY <4>2, <5>1, <5>2
        <5>3. CASE i \in DOMAIN drafts
          <6>1. drafts'[i] = drafts[i] /\ Target # 0 /\ Holds(persisted, drafts[i], Target)
            BY <1>k, <4>5, <5>1, <5>3
          <6> QED BY <3>3, <4>2, <6>1
        <5> QED BY <5>1, <5>2, <5>3
      <4>6. DraftsKept'
        BY <2>1, <3>3, <4>5
      <4> QED BY <1>q, <3>4, <4>6
    <3> QED BY <1>9, <2>3, <3>5, <3>6, ReadCases
  <2> QED BY <2>2, <2>3
<1>10. CASE LoadConversation
  <2>1. /\ page \in DOMAIN persisted /\ loaded' = persisted[page] /\ persisted' = persisted
        /\ UNCHANGED <<message, runVars, page, drafts, known>>
    BY <1>10 DEF LoadConversation, HookStep, UnchangedStream, dbVars
  <2>2. page # 0
    BY <2>1 DEF ClientInv, ClientTypeOK, Conversations
  <2>3. LoadedKept'
    BY <2>1, <2>2 DEF Holds
  <2>4. Target' = Target
    BY <2>1 DEF Target
  <2> QED BY <1>1, <1>3, <1>q, <2>1, <2>3, <2>4
<1>11. CASE LoadFails
  BY <1>11, <1>u DEF LoadFails, HookStep, UnchangedStream, dbVars
<1>12. CASE UNCHANGED chatVars
  BY <1>12, <1>u DEF chatVars, vars, dbVars
<1> QED BY <1>4, <1>5, <1>6, <1>7, <1>8, <1>9, <1>10, <1>11, <1>12
     DEF ClientNext, Serving, Reading

LEMMA ClientStep == ClientInv /\ [ClientNext]_chatVars => ClientInv'
<1> SUFFICES ASSUME ClientInv, [ClientNext]_chatVars PROVE ClientInv'
  OBVIOUS
<1>1. StreamInv'
  BY StreamUnderPage DEF ClientInv
<1> QED BY <1>1, ClientTypeStep, PastStep, RunStep, BufferStep, KeptStep DEF ClientInv

LEMMA ClientInitInv == ClientInit => ClientInv
<1> SUFFICES ASSUME ClientInit PROVE ClientInv
  OBVIOUS
<1>1. StreamInv
  BY InitInv, EventInit, OrderInit DEF ClientInit, StreamInv
<1>2. <<>> \in Seq(Message) /\ 0 \in Texts /\ 0 \in 0..MaxRuns /\ DOMAIN << >> = {}
  BY EmptySeq, ChunksAssumption, RunsAssumption DEF Texts
<1>3. 0 \in 0..Len(sent)
  BY DEF ClientInit, Init
<1>4. ClientTypeOK
  BY <1>1, <1>2, <1>3 DEF ClientInit, ClientTypeOK, StreamInv, IInv
<1>5. PastInv
  BY <1>2 DEF ClientInit, Init, PastInv
<1>6. RunInv /\ BufferInv
  BY DEF ClientInit, RunInv, BufferInv
<1>7. KeptInv
  BY <1>2 DEF ClientInit, Init, KeptInv
<1> QED BY <1>1, <1>4, <1>5, <1>6, <1>7 DEF ClientInv

LEMMA ClientInvariance == ClientSpec => []ClientInv
BY ClientInitInv, ClientStep, PTL DEF ClientSpec

(* The page's state is well formed over any number of questions: what the  *)
(* hook has read is at most what was sent, what it shows is a text.        *)
THEOREM ClientTypeCorrect == ClientSpec => []ClientTypeOK
<1>1. ClientInv => ClientTypeOK
  BY DEF ClientInv
<1> QED BY ClientInvariance, <1>1, PTL

(* The page shows no answer that a reload would not show: over any number  *)
(* of questions, with stops, retries, lost connections and pages that are  *)
(* left in between, an answer among the messages of the page is in the     *)
(* conversation of the page with the same text, unless that is deleted.    *)
THEOREM ShownAnswersArePersisted == ClientSpec => []ShownAnswersPersisted
<1>1. ASSUME ClientInv PROVE ShownAnswersPersisted
  <2> SUFFICES
        ASSUME NEW m \in {LocalMessages[i] : i \in DOMAIN LocalMessages}
                         \cup CompletedAssistant,
               m.role = "assistant"
        PROVE  Holds(persisted, m, Target)
    BY DEF ShownAnswersPersisted, Holds
  <2>1. CASE m \in {LocalMessages[i] : i \in DOMAIN LocalMessages}
    <3>1. PICK i \in DOMAIN LocalMessages : m = LocalMessages[i]
      BY <2>1
    <3>2. CASE drafts # <<>>
      BY <1>1, <3>1, <3>2 DEF ClientInv, KeptInv, LocalMessages
    <3>3. CASE drafts = <<>>
      <4>1. i \in DOMAIN loaded /\ m = loaded[i]
        BY <3>1, <3>3 DEF LocalMessages
      <4>2. page # 0
        BY <1>1, <4>1 DEF ClientInv, KeptInv
      <4> QED BY <1>1, <4>1, <4>2 DEF ClientInv, KeptInv, Target
    <3> QED BY <3>2, <3>3
  <2>2. CASE m \in CompletedAssistant
    <3>1. status = "completed" /\ m = Answer(runs, shown)
      BY <2>2 DEF CompletedAssistant
    <3>2. shown = message /\ message # None
      <4>1. shown = message /\ shown \in Texts
        BY <1>1, <3>1 DEF ClientInv, BufferInv, ClientTypeOK
      <4> QED BY <4>1, ChunksAssumption DEF Texts, None
    <3>3. Target = Conversation
      BY <1>1, <3>1 DEF ClientInv, RunInv, Target, Conversation
    <3> QED BY <1>1, <3>1, <3>2, <3>3 DEF ClientInv, KeptInv
  <2> QED BY <2>1, <2>2
<1> QED BY ClientInvariance, <1>1, PTL

(* What is proved of one stream holds for the streams of the page, one     *)
(* after another: whole answers only, completed means persisted, and no    *)
(* commit is begun once the response has ended.                            *)
THEOREM StreamsOfThePage ==
  ClientSpec => []SavedIsWhole /\ []CompletedIsPersisted /\ NoCommitAfterwards
<1>1. ClientInv => SavedIsWhole /\ CompletedIsPersisted
  BY StreamTells DEF ClientInv, StreamInv
<1>2. ClientInv /\ [ClientNext]_chatVars =>
        [consumer = "closed" /\ producer # "committing" => producer' # "committing"]_vars
  <2>1. SendMessage => producer' = "absent"
    BY DEF SendMessage, NewStream
  <2>2. Disconnect => Next
    BY DEF Next
  <2>3. ClientInv /\ [ClientNext]_chatVars => [Next]_vars \/ SendMessage
    BY <2>2, PageSteps, ServingSteps DEF ClientInv, StreamInv, IInv
  <2>4. ClientInv => IInv
    BY DEF ClientInv, StreamInv
  <2> QED BY <2>1, <2>3, <2>4, NoneBegun
<1> QED BY ClientInvariance, <1>1, <1>2, PTL DEF ClientSpec, NoCommitAfterwards
=============================================================================
