----------------------------- MODULE SseParser ------------------------------
(***************************************************************************)
(* The event stream of a chat answer as the browser reads it: chunks of    *)
(* any length into lines, events and chat events (lib/sse/parse-sse.ts,    *)
(* lib/sse/chat-stream.ts, readChatSseBody of                              *)
(* hooks/streaming-chat-utils.ts).                                         *)
(*                                                                         *)
(* A text is a sequence of symbols, the smallest pieces that a chunk may   *)
(* break it into: a field's name with its colon, a value, half of a JSON   *)
(* object, a carriage return, a line feed.                                 *)
(***************************************************************************)
EXTENDS Naturals, Sequences, FiniteSets

CONSTANTS
  Texts,     \* arbitrary bodies
  Answers    \* answers of the backend: sequences of event names

VARIABLES
  frames,    \* the events of the body, <<>> for an arbitrary one
  body,      \* the text of the response
  read,      \* symbols of it that have arrived
  buffer,    \* the parser's buffer: what is left of it after its lines
  fields,    \* the parser's eventName, dataLines and eventId
  emitted,   \* the events that the parser has returned
  heard,     \* tokens and the terminal event that the page has been given
  closed     \* readChatSseBody has returned

sseVars == <<frames, body, read, buffer, fields, emitted, heard, closed>>

LF == "\n"
CR == "\r"
Whole == <<"{", "}">>    \* a JSON object with the members its event needs

(* encode_sse of the backend *)
Frame(name) == <<"event:", name, LF, "data:">> \o Whole \o <<LF, LF>>

(* The frames of an answer, one after another, of eight symbols each *)
TextOf(answer) ==
  [i \in 1..8 * Len(answer) |-> Frame(answer[1 + (i - 1) \div 8])[1 + ((i - 1) % 8)]]

NoFields == [name |-> <<>>, data |-> <<>>, id |-> <<>>]

SseInit ==
  /\ \/ frames = <<>> /\ body \in Texts
     \/ frames \in Answers /\ body = TextOf(frames)
  /\ read = 0
  /\ buffer = <<>>
  /\ fields = NoFields
  /\ emitted = <<>>
  /\ heard = [tokens |-> 0, terminal |-> "none"]
  /\ closed = FALSE

-----------------------------------------------------------------------------
(* createSseParser.  A loop is a function of the number of its rounds: what *)
(* is known after that many of them.                                       *)

(* A slip a change of this code could make, for the run to reject: nothing *)
(* is flushed at the end. *)
NoFlush(left, f) == [fields |-> f, events |-> <<>>]

(* A text as its complete lines, without their line feeds, and the rest *)
Cut(text) ==
  LET after[n \in 0..Len(text)] ==
        IF n = 0 THEN [lines |-> <<>>, rest |-> <<>>]
        ELSE LET before == after[n - 1]
             IN IF text[n] = LF
                THEN [lines |-> Append(before.lines, before.rest), rest |-> <<>>]
                ELSE [lines |-> before.lines, rest |-> Append(before.rest, text[n])]
  IN after[Len(text)]

WithoutCR(line) ==
  IF line # <<>> /\ line[Len(line)] = CR THEN SubSeq(line, 1, Len(line) - 1) ELSE line

(* emitCurrent: an event without a name is a message. *)
EmitCurrent(f) ==
  [fields |-> NoFields,
   events |-> IF f = NoFields THEN <<>>
              ELSE <<[event |-> IF f.name = <<>> THEN <<"message">> ELSE f.name,
                      data |-> f.data, id |-> f.id]>>]

(* processLine *)
ProcessLine(f, line) ==
  LET Keep(g) == [fields |-> g, events |-> <<>>]
  IN CASE line = <<>> -> EmitCurrent(f)
       [] line # <<>> /\ Head(line) = "event:" -> Keep([f EXCEPT !.name = Tail(line)])
       [] line # <<>> /\ Head(line) = "data:" -> Keep([f EXCEPT !.data = Append(@, Tail(line))])
       [] line # <<>> /\ Head(line) = "id:" -> Keep([f EXCEPT !.id = <<Tail(line)>>])
       [] OTHER -> Keep(f)

(* The loop of consumeCompleteLines over the lines of its text *)
Through(f, lines) ==
  LET after[n \in 0..Len(lines)] ==
        IF n = 0 THEN [fields |-> f, events |-> <<>>]
        ELSE LET before == after[n - 1]
                 next == ProcessLine(before.fields, WithoutCR(lines[n]))
             IN [fields |-> next.fields, events |-> before.events \o next.events]
  IN after[Len(lines)]

(* consumeCompleteLines *)
Consume(f, text) ==
  LET last == Through(f, Cut(text).lines)
  IN [fields |-> last.fields, events |-> last.events, rest |-> Cut(text).rest]

(* push *)
Pushed(left, f, chunk) == Consume(f, left \o chunk)

(* flush *)
Flushed(left, f) ==
  LET lines == IF left = <<>> THEN [fields |-> f, events |-> <<>>]
               ELSE Through(f, Cut(left \o <<LF>>).lines)
      last == EmitCurrent(lines.fields)
  IN [fields |-> last.fields, events |-> lines.events \o last.events]

-----------------------------------------------------------------------------
(* parseChatSseData: what an event means to the page.  A token and a       *)
(* completed event need their members, an error does not.                  *)
ChatEvent(e) ==
  CASE e.event \in {<<"token">>, <<"completed">>} /\ e.data = <<Whole>> -> Head(e.event)
    [] e.event = <<"error">> -> "error"
    [] OTHER -> "ignored"

(* The events of a chunk, up to a terminal one; a flush looks at them all. *)
Hear(h, events, stops) ==
  LET after[n \in 0..Len(events)] ==
        IF n = 0 THEN h
        ELSE LET before == after[n - 1]
                 kind == ChatEvent(events[n])
             IN IF stops /\ before.terminal # "none" THEN before
                ELSE CASE kind = "token" -> [before EXCEPT !.tokens = @ + 1]
                       [] kind \in {"completed", "error"} -> [before EXCEPT !.terminal = kind]
                       [] OTHER -> before
  IN after[Len(events)]

(* A chunk of n symbols arrives. *)
PushChunk(n) ==
  LET next == Pushed(buffer, fields, SubSeq(body, read + 1, read + n))
  IN /\ ~closed /\ heard.terminal = "none"
     /\ read + n <= Len(body)
     /\ read' = read + n
     /\ buffer' = next.rest
     /\ fields' = next.fields
     /\ emitted' = emitted \o next.events
     /\ heard' = Hear(heard, next.events, TRUE)
     /\ UNCHANGED <<frames, body, closed>>

(* The body ends, where it should or before, or a terminal event was read. *)
CloseBody ==
  LET next == Flushed(buffer, fields)
  IN /\ ~closed
     /\ closed' = TRUE
     /\ buffer' = <<>>
     /\ fields' = next.fields
     /\ emitted' = emitted \o next.events
     /\ heard' = Hear(heard, next.events, FALSE)
     /\ UNCHANGED <<frames, body, read>>

SseNext ==
  \/ \E n \in 1..Len(body) : PushChunk(n)
  \/ CloseBody

SseSpec == SseInit /\ [][SseNext]_sseVars

-----------------------------------------------------------------------------
(* Properties                                                              *)

(* The elements of a sequence that are at some of its positions, in order *)
Chosen(s, at) ==
  LET upTo[n \in 0..Len(s)] ==
        IF n = 0 THEN <<>>
        ELSE IF n \in at THEN Append(upTo[n - 1], s[n]) ELSE upTo[n - 1]
  IN upTo[Len(s)]

(* The values of a field in the lines of an event *)
Values(block, field) ==
  Chosen([i \in DOMAIN block |-> Tail(block[i])], {i \in DOMAIN block : Head(block[i]) = field})

(* What the lines of an event say: the last name and id, all the data *)
Said(block) ==
  LET names == Values(block, "event:")
      ids == Values(block, "id:")
  IN [name |-> IF names = <<>> THEN <<>> ELSE names[Len(names)],
      data |-> Values(block, "data:"),
      id |-> IF ids = <<>> THEN <<>> ELSE <<ids[Len(ids)]>>]

EventOf(said) ==
  [event |-> IF said.name = <<>> THEN <<"message">> ELSE said.name,
   data |-> said.data, id |-> said.id]

(* The blank ones of some lines, and the lines before the n-th of them *)
Blanks(lines) == Chosen([i \in DOMAIN lines |-> i], {i \in DOMAIN lines : lines[i] = <<>>})
Block(lines, n) ==
  SubSeq(lines, IF n = 1 THEN 1 ELSE Blanks(lines)[n - 1] + 1, Blanks(lines)[n] - 1)

(* The events of some lines: one for every blank line, from the lines      *)
(* since the blank line before it, if they say anything.                   *)
EventsIn(lines) ==
  LET said == [n \in DOMAIN Blanks(lines) |-> Said(Block(lines, n))]
  IN Chosen([n \in DOMAIN said |-> EventOf(said[n])], {n \in DOMAIN said : said[n] # NoFields})

(* The events of a text read at once *)
EventsOf(text) ==
  EventsIn([i \in DOMAIN Cut(text).lines |-> WithoutCR(Cut(text).lines[i])])

(* parse-sse.ts "Incremental SSE parser for fragmented text/event-stream   *)
(* chunks. Empty lines delimit events": however a text is cut into chunks, *)
(* its events are those of the text read at once.                          *)
ParsedAsWhole ==
  LET text == SubSeq(body, 1, read)
  IN emitted = EventsOf(IF closed THEN text \o <<LF, LF>> ELSE text)

(* An answer of the backend that is cut anywhere gives the page the tokens *)
(* that arrived whole, completed only if it arrived whole, and an error    *)
(* from its name on.                                                       *)
ReadAsSent ==
  closed /\ frames # <<>> =>
    LET Arrived(i, n) == read >= 8 * (i - 1) + n
        Got(name, n) == {i \in DOMAIN frames : frames[i] = name /\ Arrived(i, n)}
    IN /\ heard.tokens = Cardinality(Got("token", 6))
       /\ heard.terminal = CASE Got("completed", 6) # {} -> "completed"
                             [] Got("error", 2) # {} -> "error"
                             [] OTHER -> "none"
=============================================================================
