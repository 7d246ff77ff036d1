------------------------------ MODULE SseProofs ------------------------------
(* TLAPS proofs about SseParser: however the text of an answer is cut into *)
(* chunks, the browser reads the events of the whole text, and from an     *)
(* answer of the backend that is cut anywhere what had arrived of it.      *)
EXTENDS SseParser, SequenceTheorems, FiniteSetTheorems, WellFoundedInduction, TLAPS

(* Induction on numbers and on sequences, each as a fact about sets *)
LEMMA LeastElement ==
  ASSUME NEW T \in SUBSET Nat, T # {}
  PROVE  \E n \in T : \A m \in T : n <= m
<1>1. PICK R : R = OpToRel(<, Nat)
  OBVIOUS
<1>2. IsWellFoundedOn(R, Nat)
  BY <1>1, NatLessThanWellFounded
<1>3. PICK n \in T : \A m \in T : <<m, n>> \notin R
  BY <1>2, WFMin
<1>4. \A m, k \in Nat : m < k => <<m, k>> \in R
  BY <1>1 DEF OpToRel
<1>5. ASSUME NEW m \in T, ~(n <= m) PROVE FALSE
  <2>1. m \in Nat /\ n \in Nat /\ m < n
    BY <1>5
  <2> QED BY <1>3, <1>4, <2>1
<1> QED BY <1>5

LEMMA NumberInduction ==
  ASSUME NEW S, 0 \in S, \A n \in Nat : n \in S => n + 1 \in S
  PROVE  Nat \subseteq S
<1> SUFFICES ASSUME Nat \ S # {} PROVE FALSE
  OBVIOUS
<1>1. PICK n \in Nat \ S : \A m \in Nat \ S : n <= m
  BY LeastElement
<1>2. n # 0 /\ n - 1 \in Nat /\ n - 1 \notin Nat \ S
  BY <1>1
<1> QED BY <1>1, <1>2

LEMMA SequenceInduction ==
  ASSUME NEW A, NEW S, <<>> \in S,
         \A t \in Seq(A), c \in A : t \in S => Append(t, c) \in S
  PROVE  Seq(A) \subseteq S
<1> DEFINE T == {n \in Nat : \A t \in Seq(A) : Len(t) = n => t \in S}
<1>1. 0 \in T
  <2>1. \A t \in Seq(A) : Len(t) = 0 => t = <<>>
    BY EmptySeq
  <2> QED BY <2>1
<1>2. ASSUME NEW n \in Nat, n \in T PROVE n + 1 \in T
  <2>1. ASSUME NEW t \in Seq(A), Len(t) = n + 1 PROVE t \in S
    <3> DEFINE front == SubSeq(t, 1, n)
    <3>1. front \in Seq(A) /\ Len(front) = n /\ \A i \in 1..n : front[i] = t[i]
      BY <2>1, SubSeqProperties
    <3>2. t[n + 1] \in A
      BY <2>1, ElementOfSeq
    <3>3. t = Append(front, t[n + 1])
      BY <2>1, <3>1, <3>2, AppendProperties, SeqEqual
    <3> QED BY <1>2, <3>1, <3>2, <3>3
  <2> QED BY <2>1
<1>3. Nat \subseteq T
  <2> HIDE DEF T
  <2> QED BY <1>1, <1>2, NumberInduction
<1>4. ASSUME NEW t \in Seq(A) PROVE t \in S
  <2>1. Len(t) \in T
    BY <1>3
  <2> QED BY <2>1
<1> QED BY <1>4

(* A loop of N rounds has a value after each of them. *)
LEMMA LoopHasValues ==
  ASSUME NEW X, NEW start \in X, NEW N \in Nat, NEW step \in [1..N -> [X -> X]]
  PROVE  \E f \in [0..N -> X] : /\ f[0] = start
                                 /\ \A n \in 1..N : f[n] = step[n][f[n - 1]]
<1> DEFINE After(k, f) == /\ f \in [0..k -> X]
                          /\ f[0] = start
                          /\ \A n \in 1..k : f[n] = step[n][f[n - 1]]
           S == {k \in Nat : k <= N => \E f : After(k, f)}
<1>1. 0 \in S
  <2> DEFINE f == [n \in 0..0 |-> start]
  <2>1. After(0, f)
    OBVIOUS
  <2> QED BY <2>1
<1>2. ASSUME NEW k \in Nat, k \in S PROVE k + 1 \in S
  <2> SUFFICES ASSUME k + 1 <= N PROVE \E g : After(k + 1, g)
    OBVIOUS
  <2>1. PICK f : After(k, f)
    BY <1>2
  <2> DEFINE g == [n \in 0..(k + 1) |-> IF n = k + 1 THEN step[k + 1][f[k]] ELSE f[n]]
  <2>2. f[k] \in X /\ step[k + 1][f[k]] \in X
    BY <2>1
  <2>3. g \in [0..(k + 1) -> X] /\ g[0] = start
    BY <2>1, <2>2
  <2>4. ASSUME NEW n \in 1..(k + 1)
        PROVE  g[n] = step[n][g[n - 1]]
    <3>1. CASE n = k + 1
      <4>1. g[n] = step[k + 1][f[k]] /\ g[n - 1] = f[k]
        BY <3>1
      <4> QED BY <3>1, <4>1
    <3>2. CASE n # k + 1
      <4>1. n \in 1..k /\ g[n] = f[n] /\ n - 1 \in 0..k /\ g[n - 1] = f[n - 1]
        BY <3>2
      <4> QED BY <2>1, <4>1
    <3> QED BY <3>1, <3>2
  <2> QED BY <2>3, <2>4
<1>3. Nat \subseteq S
  <2> HIDE DEF S
  <2> QED BY <1>1, <1>2, NumberInduction
<1>4. PICK f : After(N, f)
  BY <1>3
<1> QED BY <1>4

-----------------------------------------------------------------------------
(* The loop of Cut *)
CutOf(text) ==
  CHOOSE after : after =
    [n \in 0..Len(text) |->
       IF n = 0 THEN [lines |-> <<>>, rest |-> <<>>]
       ELSE LET before == after[n - 1]
            IN IF text[n] = LF
               THEN [lines |-> Append(before.lines, before.rest), rest |-> <<>>]
               ELSE [lines |-> before.lines, rest |-> Append(before.rest, text[n])]]

Pieces(A) == [lines : Seq(Seq(A)), rest : Seq(A)]
CutNext(before, c) ==
  IF c = LF THEN [lines |-> Append(before.lines, before.rest), rest |-> <<>>]
            ELSE [lines |-> before.lines, rest |-> Append(before.rest, c)]

LEMMA CutNextType ==
  ASSUME NEW A, NEW b \in Pieces(A), NEW c \in A
  PROVE  CutNext(b, c) \in Pieces(A)
BY DEF Pieces, CutNext

LEMMA CutLoop ==
  ASSUME NEW A, NEW text \in Seq(A)
  PROVE  /\ CutOf(text) \in [0..Len(text) -> Pieces(A)]
         /\ CutOf(text)[0] = [lines |-> <<>>, rest |-> <<>>]
         /\ \A n \in 1..Len(text) : CutOf(text)[n] = CutNext(CutOf(text)[n - 1], text[n])
<1> DEFINE N == Len(text)
           X == Pieces(A)
           start == [lines |-> <<>>, rest |-> <<>>]
           step == [n \in 1..N |-> [b \in X |-> CutNext(b, text[n])]]
           f == CutOf(text)
<1>1. N \in Nat /\ start \in X
  BY EmptySeq DEF Pieces
<1>2. step \in [1..N -> [X -> X]]
  BY CutNextType, ElementOfSeq
<1>3. PICK g \in [0..N -> X] : g[0] = start /\ \A n \in 1..N : g[n] = step[n][g[n - 1]]
  <2> HIDE DEF N, X, start, step
  <2> QED BY <1>1, <1>2, LoopHasValues, SMTT(30)
<1>4. g = [n \in 0..N |-> IF n = 0 THEN start ELSE CutNext(g[n - 1], text[n])]
  <2> HIDE DEF X, start, f, N
  <2>1. \A n \in 1..N : n - 1 \in 0..N /\ g[n] = CutNext(g[n - 1], text[n])
    BY <1>1, <1>3, SMTT(30)
  <2> QED BY <1>1, <1>3, <2>1
<1>5. f = [n \in 0..N |-> IF n = 0 THEN start ELSE CutNext(f[n - 1], text[n])]
  BY <1>4, Zenon DEF CutOf, CutNext
<1>6. \A n \in 0..N : f[n] = IF n = 0 THEN start ELSE CutNext(f[n - 1], text[n])
  <2> HIDE DEF f, start, N
  <2> QED BY <1>5
<1>7. \A n \in 0..N : f[n] \in X
  <2> DEFINE S == {n \in Nat : n \in 0..N => f[n] \in X}
  <2> HIDE DEF f, start, X
  <2>1. 0 \in S
    BY <1>1, <1>6
  <2>2. ASSUME NEW n \in Nat, n \in S PROVE n + 1 \in S
    <3> SUFFICES ASSUME n + 1 \in 0..N PROVE f[n + 1] \in X
      OBVIOUS
    <3>1. f[n] \in X /\ text[n + 1] \in A
      BY <1>1, <2>2, ElementOfSeq
    <3>2. f[n + 1] = CutNext(f[n], text[n + 1])
      BY <1>6
    <3> QED BY <3>1, <3>2, CutNextType DEF X
  <2>3. Nat \subseteq S
    <3> HIDE DEF S
    <3> QED BY <2>1, <2>2, NumberInduction
  <2> QED BY <1>1, <2>3
<1> QED
  <2> HIDE DEF f, start, X
  <2>1. f \in [0..N -> X]
    BY <1>5, <1>7
  <2> QED BY <1>1, <1>6, <2>1 DEF f, start, X

LEMMA CutType ==
  ASSUME NEW A, NEW text \in Seq(A)
  PROVE  Cut(text) \in Pieces(A) /\ Cut(<<>>) = [lines |-> <<>>, rest |-> <<>>]
<1>1. /\ Cut(text) = CutOf(text)[Len(text)] /\ Cut(<<>>) = CutOf(<<>>)[Len(<<>>)]
      /\ Len(text) \in Nat /\ Len(<<>>) = 0 /\ <<>> \in Seq(A)
  BY EmptySeq, LenProperties DEF Cut, CutOf
<1>2. CutOf(text) \in [0..Len(text) -> Pieces(A)]
  BY CutLoop
<1>3. CutOf(<<>>)[0] = [lines |-> <<>>, rest |-> <<>>]
  BY <1>1, CutLoop
<1> QED BY <1>1, <1>2, <1>3

(* Cut takes one symbol after another. *)
LEMMA CutStep ==
  ASSUME NEW A, NEW text \in Seq(A), NEW c \in A
  PROVE  Cut(Append(text, c)) = CutNext(Cut(text), c)
<1> DEFINE N == Len(text)
           more == Append(text, c)
<1>1. \A t : Cut(t) = CutOf(t)[Len(t)]
  BY DEF Cut, CutOf
<1>2. N \in Nat /\ more \in Seq(A) /\ Len(more) = N + 1 /\ more[N + 1] = c
      /\ \A n \in 1..N : more[n] = text[n]
  BY AppendProperties
<1>3. \A n \in 0..N : CutOf(more)[n] = CutOf(text)[n]
  <2> DEFINE S == {n \in Nat : n \in 0..N => CutOf(more)[n] = CutOf(text)[n]}
  <2> HIDE DEF more
  <2>1. 0 \in S
    BY <1>2, CutLoop
  <2>2. ASSUME NEW n \in Nat, n \in S PROVE n + 1 \in S
    <3> SUFFICES ASSUME n + 1 \in 0..N PROVE CutOf(more)[n + 1] = CutOf(text)[n + 1]
      OBVIOUS
    <3>1. CutOf(more)[n] = CutOf(text)[n] /\ more[n + 1] = text[n + 1]
      BY <1>2, <2>2
    <3>2. CutOf(more)[n + 1] = CutNext(CutOf(more)[n], more[n + 1])
      BY <1>2, CutLoop
    <3>3. CutOf(text)[n + 1] = CutNext(CutOf(text)[n], text[n + 1])
      BY <1>2, CutLoop
    <3> QED BY <3>1, <3>2, <3>3
  <2>3. Nat \subseteq S
    <3> HIDE DEF S
    <3> QED BY <2>1, <2>2, NumberInduction
  <2> QED BY <1>2, <2>3
<1>4. CutOf(more)[N + 1] = CutNext(CutOf(more)[N], c)
  <2> HIDE DEF more
  <2> QED BY <1>2, CutLoop
<1> QED
  <2> HIDE DEF more
  <2>1. Cut(more) = CutNext(Cut(text), c)
    BY <1>1, <1>2, <1>3, <1>4
  <2> QED BY <2>1 DEF more

-----------------------------------------------------------------------------
(* The loop of consumeCompleteLines *)
Fields(A) == [name : Seq(A), data : Seq(Seq(A)), id : Seq(Seq(A))]
Events(A) == [event : Seq(A), data : Seq(Seq(A)), id : Seq(Seq(A))]
Outcomes(A) == [fields : Fields(A), events : Seq(Events(A))]

LEMMA WithoutCRType ==
  ASSUME NEW A, NEW line \in Seq(A)
  PROVE  WithoutCR(line) \in Seq(A)
BY SubSeqProperties, LenProperties DEF WithoutCR

LEMMA EmitType ==
  ASSUME NEW A, "message" \in A, NEW f \in Fields(A)
  PROVE  EmitCurrent(f) \in Outcomes(A)
<1>1. NoFields \in Fields(A)
  BY EmptySeq DEF NoFields, Fields
<1>2. <<"message">> \in Seq(A) /\ <<>> \in Seq(Events(A))
  BY EmptySeq
<1>3. [event |-> IF f.name = <<>> THEN <<"message">> ELSE f.name, data |-> f.data, id |-> f.id]
      \in Events(A)
  BY <1>2 DEF Fields, Events
<1> QED BY <1>1, <1>2, <1>3 DEF EmitCurrent, Outcomes

LEMMA ProcessType ==
  ASSUME NEW A, "message" \in A, NEW f \in Fields(A), NEW line \in Seq(A)
  PROVE  ProcessLine(f, line) \in Outcomes(A)
<1>1. <<>> \in Seq(Events(A))
  BY EmptySeq
<1>2. CASE line = <<>>
  BY <1>2, EmitType DEF ProcessLine
<1>3. CASE line # <<>>
  <2>1. Tail(line) \in Seq(A)
    BY <1>3, HeadTailProperties
  <2>2. f.data \in Seq(Seq(A))
    BY DEF Fields
  <2>3. Append(f.data, Tail(line)) \in Seq(Seq(A)) /\ <<Tail(line)>> \in Seq(Seq(A))
    BY <2>1, <2>2, AppendProperties
  <2>4. /\ [f EXCEPT !.name = Tail(line)] \in Fields(A)
        /\ [f EXCEPT !.data = Append(@, Tail(line))] \in Fields(A)
        /\ [f EXCEPT !.id = <<Tail(line)>>] \in Fields(A)
    BY <2>1, <2>3 DEF Fields
  <2> QED BY <1>1, <1>3, <2>4 DEF ProcessLine, Outcomes
<1> QED BY <1>2, <1>3

ThroughNext(before, line) ==
  LET next == ProcessLine(before.fields, WithoutCR(line))
  IN [fields |-> next.fields, events |-> before.events \o next.events]

LEMMA ThroughNextType ==
  ASSUME NEW A, "message" \in A, NEW b \in Outcomes(A), NEW line \in Seq(A)
  PROVE  ThroughNext(b, line) \in Outcomes(A)
<1>1. ProcessLine(b.fields, WithoutCR(line)) \in Outcomes(A)
  BY WithoutCRType, ProcessType DEF Outcomes
<1> QED BY <1>1, ConcatProperties DEF Outcomes, ThroughNext

(* What a loop over lines begins with *)
ThroughTyped(A, f, lines) == "message" \in A /\ f \in Fields(A) /\ lines \in Seq(Seq(A))


ThroughOf(f, lines) ==
  CHOOSE after : after =
    [n \in 0..Len(lines) |->
       IF n = 0 THEN [fields |-> f, events |-> <<>>]
       ELSE LET before == after[n - 1]
                next == ProcessLine(before.fields, WithoutCR(lines[n]))
            IN [fields |-> next.fields, events |-> before.events \o next.events]]

ThroughLoop(A, f, lines) ==
  /\ ThroughOf(f, lines) \in [0..Len(lines) -> Outcomes(A)]
  /\ ThroughOf(f, lines)[0] = [fields |-> f, events |-> <<>>]
  /\ \A n \in 1..Len(lines) : ThroughOf(f, lines)[n] = ThroughNext(ThroughOf(f, lines)[n - 1], lines[n])

LEMMA ThroughOfValues ==
  ASSUME NEW A, NEW f, NEW lines, ThroughTyped(A, f, lines)
  PROVE  ThroughLoop(A, f, lines)
<1> DEFINE N == Len(lines)
           X == Outcomes(A)
           start == [fields |-> f, events |-> <<>>]
           step == [n \in 1..N |-> [b \in X |-> ThroughNext(b, lines[n])]]
           loop == ThroughOf(f, lines)
<1>1. N \in Nat /\ start \in X /\ \A n \in 1..N : lines[n] \in Seq(A)
  BY EmptySeq, ElementOfSeq, SMTT(30) DEF ThroughTyped, Outcomes
<1>2. \A b \in X, n \in 1..N : ThroughNext(b, lines[n]) \in X
  BY <1>1, ThroughNextType DEF ThroughTyped
<1>3. PICK g \in [0..N -> X] : g[0] = start /\ \A n \in 1..N : g[n] = step[n][g[n - 1]]
  <2>1. step \in [1..N -> [X -> X]]
    BY <1>2
  <2>2. N \in Nat /\ start \in X
    BY <1>1
  <2> HIDE DEF N, X, start, step
  <2> QED BY <2>1, <2>2, LoopHasValues
<1>4. g = [n \in 0..N |-> IF n = 0 THEN start ELSE ThroughNext(g[n - 1], lines[n])]
  <2> HIDE DEF X, start, loop, N
  <2>1. ASSUME NEW n \in 1..N
        PROVE  n - 1 \in 0..N /\ g[n] = ThroughNext(g[n - 1], lines[n])
    <3>1. n - 1 \in 0..N
      BY <1>1
    <3>2. g[n - 1] \in X
      BY <3>1, <1>3
    <3>3. g[n] = step[n][g[n - 1]]
      BY <1>3
    <3>4. \A b \in X : step[n][b] = ThroughNext(b, lines[n])
      BY Zenon
    <3> HIDE DEF step
    <3> QED BY <3>1, <3>2, <3>3, <3>4
  <2> QED BY <1>1, <1>3, <2>1
<1>5. loop = [n \in 0..N |-> IF n = 0 THEN start ELSE ThroughNext(loop[n - 1], lines[n])]
  BY <1>4, Zenon DEF ThroughOf, ThroughNext
<1>6. \A n \in 0..N : loop[n] = IF n = 0 THEN start ELSE ThroughNext(loop[n - 1], lines[n])
  <2> HIDE DEF loop, start, N
  <2> QED BY <1>5
<1>7. \A n \in 0..N : loop[n] \in X
  <2> DEFINE S == {n \in Nat : n \in 0..N => loop[n] \in X}
  <2> HIDE DEF loop, start, X
  <2>1. 0 \in S
    BY <1>1, <1>6
  <2>2. ASSUME NEW n \in Nat, n \in S PROVE n + 1 \in S
    <3> SUFFICES ASSUME n + 1 \in 0..N PROVE loop[n + 1] \in X
      OBVIOUS
    <3>1. loop[n] \in X
      BY <1>1, <2>2
    <3>2. loop[n + 1] = ThroughNext(loop[n], lines[n + 1])
      BY <1>6
    <3> QED BY <1>1, <1>2, <3>1, <3>2
  <2>3. Nat \subseteq S
    <3> HIDE DEF S
    <3> QED BY <2>1, <2>2, NumberInduction
  <2> QED BY <1>1, <2>3
<1> QED
  <2> HIDE DEF loop, start, X
  <2>1. loop \in [0..N -> X]
    BY <1>5, <1>7
  <2> QED BY <1>1, <1>6, <2>1 DEF loop, start, X, ThroughLoop

(* A loop over one line more *)
LEMMA ThroughStep ==
  ASSUME NEW A, NEW f, NEW lines, NEW line \in Seq(A), ThroughTyped(A, f, lines)
  PROVE  /\ Through(f, <<>>) = [fields |-> f, events |-> <<>>]
         /\ Through(f, lines) \in Outcomes(A)
         /\ Through(f, Append(lines, line)) = ThroughNext(Through(f, lines), line)
<1> DEFINE N == Len(lines)
           more == Append(lines, line)
<1>1. /\ Through(f, lines) = ThroughOf(f, lines)[N]
      /\ Through(f, more) = ThroughOf(f, more)[Len(more)]
      /\ Through(f, <<>>) = ThroughOf(f, <<>>)[Len(<<>>)]
  BY DEF Through, ThroughOf
<1>2. /\ N \in Nat /\ Len(more) = N + 1 /\ more[N + 1] = line /\ Len(<<>>) = 0
      /\ \A n \in 1..N : more[n] = lines[n]
      /\ ThroughTyped(A, f, lines) /\ ThroughTyped(A, f, more) /\ ThroughTyped(A, f, <<>>)
  BY AppendProperties, EmptySeq DEF ThroughTyped
<1>0. ThroughLoop(A, f, lines) /\ ThroughLoop(A, f, more) /\ ThroughLoop(A, f, <<>>)
  <2> HIDE DEF more
  <2> QED BY <1>2, ThroughOfValues
<1>3. \A n \in 0..N : ThroughOf(f, more)[n] = ThroughOf(f, lines)[n]
  <2> DEFINE S == {n \in Nat : n \in 0..N => ThroughOf(f, more)[n] = ThroughOf(f, lines)[n]}
  <2> HIDE DEF more
  <2>1. 0 \in S
    BY <1>0, <1>2 DEF ThroughLoop
  <2>2. ASSUME NEW n \in Nat, n \in S PROVE n + 1 \in S
    <3> SUFFICES ASSUME n + 1 \in 0..N PROVE ThroughOf(f, more)[n + 1] = ThroughOf(f, lines)[n + 1]
      OBVIOUS
    <3>1. ThroughOf(f, more)[n] = ThroughOf(f, lines)[n] /\ more[n + 1] = lines[n + 1]
      BY <1>2, <2>2
    <3>2. ThroughOf(f, more)[n + 1] = ThroughNext(ThroughOf(f, more)[n], more[n + 1])
      BY <1>0, <1>2 DEF ThroughLoop
    <3>3. ThroughOf(f, lines)[n + 1] = ThroughNext(ThroughOf(f, lines)[n], lines[n + 1])
      BY <1>0, <1>2 DEF ThroughLoop
    <3> QED BY <3>1, <3>2, <3>3
  <2>3. Nat \subseteq S
    <3> HIDE DEF S
    <3> QED BY <2>1, <2>2, NumberInduction
  <2> QED BY <1>2, <2>3
<1>4. ThroughOf(f, more)[N + 1] = ThroughNext(ThroughOf(f, more)[N], line)
  <2> HIDE DEF more
  <2> QED BY <1>0, <1>2 DEF ThroughLoop
<1>5. Through(f, <<>>) = [fields |-> f, events |-> <<>>]
  BY <1>0, <1>1, <1>2 DEF ThroughLoop
<1>6. Through(f, lines) \in Outcomes(A)
  BY <1>0, <1>1, <1>2 DEF ThroughLoop
<1> QED
  <2> HIDE DEF more
  <2>1. Through(f, more) = ThroughNext(Through(f, lines), line)
    BY <1>1, <1>2, <1>3, <1>4
  <2> QED BY <1>5, <1>6, <2>1 DEF more

-----------------------------------------------------------------------------
(* The loop of Chosen *)
ChosenNext(before, x, n, at) == IF n \in at THEN Append(before, x) ELSE before

LEMMA ChosenNextType ==
  ASSUME NEW A, NEW b \in Seq(A), NEW x \in A, NEW n, NEW at
  PROVE  ChosenNext(b, x, n, at) \in Seq(A)
BY AppendProperties DEF ChosenNext

(* Two choices of the first n *)
SameUpTo(n, at, more) == \A i \in 1..n : i \in at <=> i \in more

ChosenTyped(A, s) == s \in Seq(A)

ChosenOf(s, at) ==
  CHOOSE upTo : upTo =
    [n \in 0..Len(s) |->
       IF n = 0 THEN <<>>
       ELSE IF n \in at THEN Append(upTo[n - 1], s[n]) ELSE upTo[n - 1]]

ChosenLoop(A, s, at) ==
  /\ ChosenOf(s, at) \in [0..Len(s) -> Seq(A)]
  /\ ChosenOf(s, at)[0] = <<>>
  /\ \A n \in 1..Len(s) : ChosenOf(s, at)[n] = ChosenNext(ChosenOf(s, at)[n - 1], s[n], n, at)

LEMMA ChosenOfValues ==
  ASSUME NEW A, NEW s, NEW at, ChosenTyped(A, s)
  PROVE  ChosenLoop(A, s, at)
<1> DEFINE N == Len(s)
           X == Seq(A)
           start == <<>>
           step == [n \in 1..N |-> [b \in X |-> ChosenNext(b, s[n], n, at)]]
           loop == ChosenOf(s, at)
<1>1. N \in Nat /\ start \in X /\ \A n \in 1..N : s[n] \in A
  BY EmptySeq, ElementOfSeq DEF ChosenTyped
<1>2. \A b \in X, n \in 1..N : ChosenNext(b, s[n], n, at) \in X
  BY <1>1, ChosenNextType DEF ChosenTyped
<1>3. PICK g \in [0..N -> X] : g[0] = start /\ \A n \in 1..N : g[n] = step[n][g[n - 1]]
  <2>1. step \in [1..N -> [X -> X]]
    BY <1>2
  <2>2. N \in Nat /\ start \in X
    BY <1>1
  <2> HIDE DEF N, X, start, step
  <2> QED BY <2>1, <2>2, LoopHasValues
<1>4. g = [n \in 0..N |-> IF n = 0 THEN start ELSE ChosenNext(g[n - 1], s[n], n, at)]
  <2> HIDE DEF X, start, loop, N
  <2>1. ASSUME NEW n \in 1..N
        PROVE  n - 1 \in 0..N /\ g[n] = ChosenNext(g[n - 1], s[n], n, at)
    <3>1. n - 1 \in 0..N
      BY <1>1
    <3>2. g[n - 1] \in X
      BY <3>1, <1>3
    <3>3. g[n] = step[n][g[n - 1]]
      BY <1>3
    <3>4. \A b \in X : step[n][b] = ChosenNext(b, s[n], n, at)
      BY Zenon
    <3> HIDE DEF step
    <3> QED BY <3>1, <3>2, <3>3, <3>4
  <2> QED BY <1>1, <1>3, <2>1
<1>5. loop = [n \in 0..N |-> IF n = 0 THEN start ELSE ChosenNext(loop[n - 1], s[n], n, at)]
  BY <1>4, Zenon DEF ChosenOf, ChosenNext
<1>6. \A n \in 0..N : loop[n] = IF n = 0 THEN start ELSE ChosenNext(loop[n - 1], s[n], n, at)
  <2> HIDE DEF loop, start, N
  <2> QED BY <1>5
<1>7. \A n \in 0..N : loop[n] \in X
  <2> DEFINE S == {n \in Nat : n \in 0..N => loop[n] \in X}
  <2> HIDE DEF loop, start, X
  <2>1. 0 \in S
    BY <1>1, <1>6
  <2>2. ASSUME NEW n \in Nat, n \in S PROVE n + 1 \in S
    <3> SUFFICES ASSUME n + 1 \in 0..N PROVE loop[n + 1] \in X
      OBVIOUS
    <3>1. loop[n] \in X
      BY <1>1, <2>2
    <3>2. loop[n + 1] = ChosenNext(loop[n], s[n + 1], n + 1, at)
      BY <1>6
    <3> QED BY <1>1, <1>2, <3>1, <3>2
  <2>3. Nat \subseteq S
    <3> HIDE DEF S
    <3> QED BY <2>1, <2>2, NumberInduction
  <2> QED BY <1>1, <2>3
<1> QED
  <2> HIDE DEF loop, start, X
  <2>1. loop \in [0..N -> X]
    BY <1>5, <1>7
  <2> QED BY <1>1, <1>6, <2>1 DEF loop, start, X, ChosenLoop

(* One element more to choose from *)
OneMore(A, s, c, at, more) == ChosenTyped(A, s) /\ c \in A /\ SameUpTo(Len(s), at, more)

LEMMA ChosenStep ==
  ASSUME NEW A, NEW s, NEW c, NEW at, NEW more, OneMore(A, s, c, at, more)
  PROVE  /\ Chosen(<<>>, more) = <<>>
         /\ Chosen(s, at) \in Seq(A)
         /\ Chosen(Append(s, c), more) = ChosenNext(Chosen(s, at), c, Len(s) + 1, more)
<1> DEFINE N == Len(s)
           longer == Append(s, c)
<1>p. ChosenTyped(A, s) /\ c \in A /\ SameUpTo(N, at, more)
  BY DEF OneMore
<1>1. /\ Chosen(s, at) = ChosenOf(s, at)[N]
      /\ Chosen(longer, more) = ChosenOf(longer, more)[Len(longer)]
      /\ Chosen(<<>>, more) = ChosenOf(<<>>, more)[Len(<<>>)]
  BY DEF Chosen, ChosenOf
<1>2. /\ N \in Nat /\ Len(longer) = N + 1 /\ longer[N + 1] = c /\ Len(<<>>) = 0
      /\ \A n \in 1..N : longer[n] = s[n]
      /\ ChosenTyped(A, s) /\ ChosenTyped(A, longer) /\ ChosenTyped(A, <<>>)
  BY <1>p, AppendProperties, EmptySeq DEF ChosenTyped
<1>0. ChosenLoop(A, s, at) /\ ChosenLoop(A, longer, more) /\ ChosenLoop(A, <<>>, more)
  <2> HIDE DEF longer
  <2> QED BY <1>2, ChosenOfValues
<1>3. \A n \in 0..N : ChosenOf(longer, more)[n] = ChosenOf(s, at)[n]
  <2> DEFINE S == {n \in Nat : n \in 0..N => ChosenOf(longer, more)[n] = ChosenOf(s, at)[n]}
  <2> HIDE DEF longer
  <2>1. 0 \in S
    BY <1>0, <1>2 DEF ChosenLoop
  <2>2. ASSUME NEW n \in Nat, n \in S PROVE n + 1 \in S
    <3> SUFFICES ASSUME n + 1 \in 0..N PROVE ChosenOf(longer, more)[n + 1] = ChosenOf(s, at)[n + 1]
      OBVIOUS
    <3>1. ChosenOf(longer, more)[n] = ChosenOf(s, at)[n] /\ longer[n + 1] = s[n + 1]
      BY <1>2, <2>2
    <3>2. ChosenOf(longer, more)[n + 1] = ChosenNext(ChosenOf(longer, more)[n], longer[n + 1], n + 1, more)
      BY <1>0, <1>2 DEF ChosenLoop
    <3>3. ChosenOf(s, at)[n + 1] = ChosenNext(ChosenOf(s, at)[n], s[n + 1], n + 1, at)
      BY <1>0, <1>2 DEF ChosenLoop
    <3> QED BY <1>p, <1>2, <3>1, <3>2, <3>3 DEF ChosenNext, SameUpTo
  <2>3. Nat \subseteq S
    <3> HIDE DEF S
    <3> QED BY <2>1, <2>2, NumberInduction
  <2> QED BY <1>2, <2>3
<1>4. ChosenOf(longer, more)[N + 1] = ChosenNext(ChosenOf(longer, more)[N], c, N + 1, more)
  <2> HIDE DEF longer
  <2> QED BY <1>0, <1>2 DEF ChosenLoop
<1>5. Chosen(<<>>, more) = <<>>
  BY <1>0, <1>1, <1>2 DEF ChosenLoop
<1>6. Chosen(s, at) \in Seq(A)
  BY <1>0, <1>1, <1>2, SMTT(30) DEF ChosenLoop
<1> QED
  <2> HIDE DEF longer
  <2>1. Chosen(longer, more) = ChosenNext(Chosen(s, at), c, N + 1, more)
    BY <1>p, <1>1, <1>2, <1>3, <1>4 DEF ChosenNext, SameUpTo
  <2> QED BY <1>5, <1>6, <2>1 DEF longer

-----------------------------------------------------------------------------
(* The loop of Hear *)
Heard == [tokens : Nat, terminal : {"none", "completed", "error"}]

HearNext(before, e, stops) ==
  LET kind == ChatEvent(e)
  IN IF stops /\ before.terminal # "none" THEN before
     ELSE CASE kind = "token" -> [before EXCEPT !.tokens = @ + 1]
            [] kind \in {"completed", "error"} -> [before EXCEPT !.terminal = kind]
            [] OTHER -> before

LEMMA HearNextType ==
  ASSUME NEW b \in Heard, NEW e, NEW stops
  PROVE  HearNext(b, e, stops) \in Heard
BY DEF HearNext, Heard

HearTyped(A, h, events) == h \in Heard /\ events \in Seq(A)

HearOf(h, events, stops) ==
  CHOOSE after : after =
    [n \in 0..Len(events) |->
       IF n = 0 THEN h
       ELSE LET before == after[n - 1]
                kind == ChatEvent(events[n])
            IN IF stops /\ before.terminal # "none" THEN before
               ELSE CASE kind = "token" -> [before EXCEPT !.tokens = @ + 1]
                      [] kind \in {"completed", "error"} -> [before EXCEPT !.terminal = kind]
                      [] OTHER -> before]

HearLoop(h, events, stops) ==
  /\ HearOf(h, events, stops) \in [0..Len(events) -> Heard]
  /\ HearOf(h, events, stops)[0] = h
  /\ \A n \in 1..Len(events) : HearOf(h, events, stops)[n] = HearNext(HearOf(h, events, stops)[n - 1], events[n], stops)

LEMMA HearOfValues ==
  ASSUME NEW A, NEW h, NEW events, NEW stops, HearTyped(A, h, events)
  PROVE  HearLoop(h, events, stops)
<1> DEFINE N == Len(events)
           X == Heard
           start == h
           step == [n \in 1..N |-> [b \in X |-> HearNext(b, events[n], stops)]]
           loop == HearOf(h, events, stops)
<1>1. N \in Nat /\ start \in X /\ \A n \in 1..N : events[n] \in A
  BY EmptySeq, ElementOfSeq DEF HearTyped
<1>2. \A b \in X, n \in 1..N : HearNext(b, events[n], stops) \in X
  BY <1>1, HearNextType DEF HearTyped
<1>3. PICK g \in [0..N -> X] : g[0] = start /\ \A n \in 1..N : g[n] = step[n][g[n - 1]]
  <2>1. step \in [1..N -> [X -> X]]
    BY <1>2
  <2>2. N \in Nat /\ start \in X
    BY <1>1
  <2> HIDE DEF N, X, start, step
  <2> QED BY <2>1, <2>2, LoopHasValues
<1>4. g = [n \in 0..N |-> IF n = 0 THEN start ELSE HearNext(g[n - 1], events[n], stops)]
  <2> HIDE DEF X, start, loop, N
  <2>1. ASSUME NEW n \in 1..N
        PROVE  n - 1 \in 0..N /\ g[n] = HearNext(g[n - 1], events[n], stops)
    <3>1. n - 1 \in 0..N
      BY <1>1
    <3>2. g[n - 1] \in X
      BY <3>1, <1>3
    <3>3. g[n] = step[n][g[n - 1]]
      BY <1>3
    <3>4. \A b \in X : step[n][b] = HearNext(b, events[n], stops)
      BY Zenon
    <3> HIDE DEF step
    <3> QED BY <3>1, <3>2, <3>3, <3>4
  <2> QED BY <1>1, <1>3, <2>1
<1>5. loop = [n \in 0..N |-> IF n = 0 THEN start ELSE HearNext(loop[n - 1], events[n], stops)]
  BY <1>4, Zenon DEF HearOf, HearNext
<1>6. \A n \in 0..N : loop[n] = IF n = 0 THEN start ELSE HearNext(loop[n - 1], events[n], stops)
  <2> HIDE DEF loop, start, N
  <2> QED BY <1>5
<1>7. \A n \in 0..N : loop[n] \in X
  <2> DEFINE S == {n \in Nat : n \in 0..N => loop[n] \in X}
  <2> HIDE DEF loop, start, X
  <2>1. 0 \in S
    BY <1>1, <1>6
  <2>2. ASSUME NEW n \in Nat, n \in S PROVE n + 1 \in S
    <3> SUFFICES ASSUME n + 1 \in 0..N PROVE loop[n + 1] \in X
      OBVIOUS
    <3>1. loop[n] \in X
      BY <1>1, <2>2
    <3>2. loop[n + 1] = HearNext(loop[n], events[n + 1], stops)
      BY <1>6
    <3> QED BY <1>1, <1>2, <3>1, <3>2
  <2>3. Nat \subseteq S
    <3> HIDE DEF S
    <3> QED BY <2>1, <2>2, NumberInduction
  <2> QED BY <1>1, <2>3
<1> QED
  <2> HIDE DEF loop, start, X
  <2>1. loop \in [0..N -> X]
    BY <1>5, <1>7
  <2> QED BY <1>1, <1>6, <2>1 DEF loop, start, X, HearLoop

(* One event more *)
LEMMA HearStep ==
  ASSUME NEW A, NEW h, NEW events, NEW stops, NEW c \in A, HearTyped(A, h, events)
  PROVE  /\ Hear(h, <<>>, stops) = h
         /\ Hear(h, events, stops) \in Heard
         /\ Hear(h, Append(events, c), stops) = HearNext(Hear(h, events, stops), c, stops)
<1> DEFINE N == Len(events)
           more == Append(events, c)
<1>1. /\ Hear(h, events, stops) = HearOf(h, events, stops)[N]
      /\ Hear(h, more, stops) = HearOf(h, more, stops)[Len(more)]
      /\ Hear(h, <<>>, stops) = HearOf(h, <<>>, stops)[Len(<<>>)]
  BY DEF Hear, HearOf
<1>2. /\ N \in Nat /\ Len(more) = N + 1 /\ more[N + 1] = c /\ Len(<<>>) = 0
      /\ \A n \in 1..N : more[n] = events[n]
      /\ HearTyped(A, h, events) /\ HearTyped(A, h, more) /\ HearTyped(A, h, <<>>)
  BY AppendProperties, EmptySeq DEF HearTyped
<1>0. HearLoop(h, events, stops) /\ HearLoop(h, more, stops) /\ HearLoop(h, <<>>, stops)
  <2> HIDE DEF more
  <2> QED BY <1>2, HearOfValues
<1>3. \A n \in 0..N : HearOf(h, more, stops)[n] = HearOf(h, events, stops)[n]
  <2> DEFINE S == {n \in Nat : n \in 0..N => HearOf(h, more, stops)[n] = HearOf(h, events, stops)[n]}
  <2> HIDE DEF more
  <2>1. 0 \in S
    BY <1>0, <1>2 DEF HearLoop
  <2>2. ASSUME NEW n \in Nat, n \in S PROVE n + 1 \in S
    <3> SUFFICES ASSUME n + 1 \in 0..N PROVE HearOf(h, more, stops)[n + 1] = HearOf(h, events, stops)[n + 1]
      OBVIOUS
    <3>1. HearOf(h, more, stops)[n] = HearOf(h, events, stops)[n] /\ more[n + 1] = events[n + 1]
      BY <1>2, <2>2
    <3>2. HearOf(h, more, stops)[n + 1] = HearNext(HearOf(h, more, stops)[n], more[n + 1], stops)
      BY <1>0, <1>2 DEF HearLoop
    <3>3. HearOf(h, events, stops)[n + 1] = HearNext(HearOf(h, events, stops)[n], events[n + 1], stops)
      BY <1>0, <1>2 DEF HearLoop
    <3> QED BY <3>1, <3>2, <3>3
  <2>3. Nat \subseteq S
    <3> HIDE DEF S
    <3> QED BY <2>1, <2>2, NumberInduction
  <2> QED BY <1>2, <2>3, SMTT(30)
<1>4. HearOf(h, more, stops)[N + 1] = HearNext(HearOf(h, more, stops)[N], c, stops)
  <2> HIDE DEF more
  <2> QED BY <1>0, <1>2 DEF HearLoop
<1>5. Hear(h, <<>>, stops) = h
  BY <1>0, <1>1, <1>2 DEF HearLoop
<1>6. Hear(h, events, stops) \in Heard
  BY <1>0, <1>1, <1>2 DEF HearLoop
<1> QED
  <2> HIDE DEF more
  <2>1. Hear(h, more, stops) = HearNext(Hear(h, events, stops), c, stops)
    BY <1>1, <1>2, <1>3, <1>4
  <2> QED BY <1>5, <1>6, <2>1 DEF more

-----------------------------------------------------------------------------
(* The parser does not see where a text was cut. *)

(* The rest of a text has no complete line. *)
LEMMA RestHasNoLine ==
  ASSUME NEW A, NEW text \in Seq(A)
  PROVE  Cut(Cut(text).rest) = [lines |-> <<>>, rest |-> Cut(text).rest]
<1> DEFINE S == {t \in Seq(A) : Cut(Cut(t).rest) = [lines |-> <<>>, rest |-> Cut(t).rest]}
<1>1. <<>> \in Seq(A) /\ Cut(<<>>) = [lines |-> <<>>, rest |-> <<>>]
  BY EmptySeq, CutType
<1>2. <<>> \in S
  BY <1>1
<1>3. ASSUME NEW t \in Seq(A), NEW c \in A, t \in S PROVE Append(t, c) \in S
  <2> DEFINE rest == Cut(t).rest
  <2>1. rest \in Seq(A)
    BY CutType DEF Pieces
  <2>2. Cut(Append(t, c)) = CutNext(Cut(t), c)
    BY CutStep
  <2>3. Cut(Append(rest, c)) = CutNext(Cut(rest), c)
    BY <2>1, CutStep
  <2>4. Append(t, c) \in Seq(A)
    BY AppendProperties
  <2>5. CASE c = LF
    BY <1>1, <2>2, <2>4, <2>5 DEF CutNext
  <2>6. CASE c # LF
    <3>1. Cut(Append(t, c)).rest = Append(rest, c)
      BY <2>2, <2>6 DEF CutNext
    <3>2. Cut(rest) = [lines |-> <<>>, rest |-> rest]
      BY <1>3
    <3>3. Cut(Append(rest, c)) = [lines |-> <<>>, rest |-> Append(rest, c)]
      BY <2>3, <2>6, <3>2 DEF CutNext
    <3> QED BY <2>4, <3>1, <3>3
  <2> QED BY <2>5, <2>6
<1>4. Seq(A) \subseteq S
  <2> HIDE DEF S
  <2> QED BY <1>2, <1>3, SequenceInduction
<1> QED BY <1>4

(* A sequence and one element after it, after another sequence *)
LEMMA ConcatAppend ==
  ASSUME NEW A, NEW s \in Seq(A), NEW t \in Seq(A), NEW c \in A
  PROVE  s \o Append(t, c) = Append(s \o t, c)
<1>1. s \o t \in Seq(A) /\ Len(s \o t) = Len(s) + Len(t)
  BY ConcatProperties
<1>2. Append(t, c) \in Seq(A) /\ Len(Append(t, c)) = Len(t) + 1
  BY AppendProperties
<1>3. s \o Append(t, c) \in Seq(A) /\ Append(s \o t, c) \in Seq(A)
  BY <1>1, <1>2, ConcatProperties, AppendProperties
<1>4. Len(s \o Append(t, c)) = Len(Append(s \o t, c))
  BY <1>1, <1>2, ConcatProperties, AppendProperties
<1>5. ASSUME NEW i \in 1..Len(s \o Append(t, c))
      PROVE  (s \o Append(t, c))[i] = Append(s \o t, c)[i]
  <2>1. Len(s) \in Nat /\ Len(t) \in Nat /\ Len(s \o Append(t, c)) = Len(s) + Len(t) + 1
    BY <1>2, ConcatProperties
  <2>2. CASE i <= Len(s)
    BY <1>1, <1>2, <2>1, <2>2, ConcatProperties, AppendProperties
  <2>3. CASE i > Len(s) /\ i <= Len(s) + Len(t)
    BY <1>1, <1>2, <2>1, <2>3, ConcatProperties, AppendProperties
  <2>4. CASE i = Len(s) + Len(t) + 1
    BY <1>1, <1>2, <2>1, <2>4, ConcatProperties, AppendProperties
  <2> QED BY <2>1, <2>2, <2>3, <2>4
<1> QED BY <1>3, <1>4, <1>5, SeqEqual

(* Lines that come before the others *)
LinesBefore(lines, cut) == [lines |-> lines \o cut.lines, rest |-> cut.rest]

LEMMA CutNextAfter ==
  ASSUME NEW A, NEW lines \in Seq(Seq(A)), NEW far \in Pieces(A), NEW c \in A
  PROVE  CutNext(LinesBefore(lines, far), c) = LinesBefore(lines, CutNext(far, c))
<1>1. far.lines \in Seq(Seq(A)) /\ far.rest \in Seq(A)
  BY DEF Pieces
<1>2. lines \o Append(far.lines, far.rest) = Append(lines \o far.lines, far.rest)
  BY <1>1, ConcatAppend, SMTT(30)
<1>3. CASE c = LF
  BY <1>2, <1>3 DEF CutNext, LinesBefore
<1>4. CASE c # LF
  BY <1>4 DEF CutNext, LinesBefore
<1> QED BY <1>3, <1>4

(* A text is cut like what is left of a first part of it, and the others. *)
LEMMA CutConcat ==
  ASSUME NEW A, NEW text \in Seq(A), NEW chunk \in Seq(A)
  PROVE  Cut(text \o chunk) = LinesBefore(Cut(text).lines, Cut(Cut(text).rest \o chunk))
<1> DEFINE lines == Cut(text).lines
           rest == Cut(text).rest
           S == {u \in Seq(A) : Cut(text \o u) = LinesBefore(lines, Cut(rest \o u))}
<1>1. rest \in Seq(A) /\ lines \in Seq(Seq(A)) /\ Cut(text) = [lines |-> lines, rest |-> rest]
  <2>1. Cut(text) \in Pieces(A)
    BY CutType
  <2> QED BY <2>1 DEF Pieces
<1>2. <<>> \in S
  <2>1. Cut(rest) = [lines |-> <<>>, rest |-> rest]
    BY RestHasNoLine
  <2>2. text \o <<>> = text /\ rest \o <<>> = rest /\ lines \o <<>> = lines
    BY <1>1, ConcatEmptySeq
  <2> QED BY <1>1, <2>1, <2>2, EmptySeq DEF LinesBefore
<1>3. ASSUME NEW u \in Seq(A), NEW c \in A, u \in S PROVE Append(u, c) \in S
  <2> DEFINE far == Cut(rest \o u)
  <2>1. text \o Append(u, c) = Append(text \o u, c) /\ rest \o Append(u, c) = Append(rest \o u, c)
    BY <1>1, ConcatAppend, SMTT(30)
  <2>2. Cut(Append(text \o u, c)) = CutNext(Cut(text \o u), c)
    BY ConcatProperties, CutStep
  <2>3. Cut(Append(rest \o u, c)) = CutNext(far, c) /\ far \in Pieces(A)
    BY <1>1, ConcatProperties, CutStep, CutType
  <2>4. CutNext(LinesBefore(lines, far), c) = LinesBefore(lines, CutNext(far, c))
    <3>1. far \in Pieces(A) /\ lines \in Seq(Seq(A))
      BY <1>1, <2>3
    <3> HIDE DEF far, lines
    <3> QED BY <3>1, CutNextAfter
  <2>5. Append(u, c) \in Seq(A)
    BY AppendProperties
  <2>6. Cut(text \o u) = LinesBefore(lines, far)
    BY <1>3
  <2>7. Cut(text \o Append(u, c)) = LinesBefore(lines, Cut(rest \o Append(u, c)))
    <3> HIDE DEF far, lines, rest
    <3> QED BY <2>1, <2>2, <2>3, <2>4, <2>6
  <2> QED BY <2>5, <2>7
<1>4. Seq(A) \subseteq S
  <2> HIDE DEF S
  <2> QED BY <1>2, <1>3, SequenceInduction
<1> QED BY <1>4

(* Events that come before the others *)
EventsBefore(events, o) == [fields |-> o.fields, events |-> events \o o.events]

LEMMA ThroughNextAfter ==
  ASSUME NEW A, "message" \in A, NEW events \in Seq(Events(A)), NEW o \in Outcomes(A),
         NEW line \in Seq(A)
  PROVE  ThroughNext(EventsBefore(events, o), line) = EventsBefore(events, ThroughNext(o, line))
<1> DEFINE next == ProcessLine(o.fields, WithoutCR(line))
<1>1. next \in Outcomes(A)
  BY WithoutCRType, ProcessType DEF Outcomes
<1>2. o.events \in Seq(Events(A)) /\ next.events \in Seq(Events(A))
  BY <1>1 DEF Outcomes
<1>3. (events \o o.events) \o next.events = events \o (o.events \o next.events)
  <2> DEFINE B == Events(A)
             first == o.events
             second == next.events
  <2>1. events \in Seq(B) /\ first \in Seq(B) /\ second \in Seq(B)
    BY <1>2
  <2>2. (events \o first) \o second = events \o (first \o second)
    <3> HIDE DEF B, first, second
    <3> QED BY <2>1, ConcatAssociative, SMTT(30)
  <2> QED BY <2>2
<1>4. ThroughNext(EventsBefore(events, o), line) =
        [fields |-> next.fields, events |-> (events \o o.events) \o next.events]
  BY DEF ThroughNext, EventsBefore
<1>5. EventsBefore(events, ThroughNext(o, line)) =
        [fields |-> next.fields, events |-> events \o (o.events \o next.events)]
  BY DEF ThroughNext, EventsBefore
<1> QED BY <1>3, <1>4, <1>5

LEMMA ThroughType ==
  ASSUME NEW A, "message" \in A, NEW f \in Fields(A), NEW lines \in Seq(Seq(A))
  PROVE  /\ Through(f, lines) \in Outcomes(A)
         /\ Through(f, lines).fields \in Fields(A)
         /\ Through(f, lines).events \in Seq(Events(A))
         /\ Through(f, <<>>) = [fields |-> f, events |-> <<>>]
<1>1. ThroughTyped(A, f, lines) /\ <<>> \in Seq(A)
  BY EmptySeq DEF ThroughTyped
<1>2. Through(f, lines) \in Outcomes(A) /\ Through(f, <<>>) = [fields |-> f, events |-> <<>>]
  BY <1>1, ThroughStep
<1> QED BY <1>2 DEF Outcomes

(* The lines after others are read from what those left. *)
LEMMA ThroughConcat ==
  ASSUME NEW A, "message" \in A, NEW f \in Fields(A),
         NEW lines \in Seq(Seq(A)), NEW others \in Seq(Seq(A))
  PROVE  Through(f, lines \o others) =
           EventsBefore(Through(f, lines).events, Through(Through(f, lines).fields, others))
<1> DEFINE events == Through(f, lines).events
           left == Through(f, lines).fields
           S == {u \in Seq(Seq(A)) : Through(f, lines \o u) = EventsBefore(events, Through(left, u))}
<1>1. /\ events \in Seq(Events(A)) /\ left \in Fields(A)
      /\ Through(f, lines) = [fields |-> left, events |-> events]
      /\ Through(left, <<>>) = [fields |-> left, events |-> <<>>]
  <2>1. events \in Seq(Events(A)) /\ left \in Fields(A) /\ Through(f, lines) \in Outcomes(A)
    BY ThroughType
  <2>2. Through(f, lines) = [fields |-> left, events |-> events]
    BY <2>1 DEF Outcomes
  <2>3. Through(left, <<>>) = [fields |-> left, events |-> <<>>]
    <3> HIDE DEF left
    <3> QED BY <2>1, ThroughType
  <2> QED BY <2>1, <2>2, <2>3
<1>2. <<>> \in S
  <2>1. lines \o <<>> = lines /\ events \o <<>> = events /\ <<>> \in Seq(Seq(A))
    BY <1>1, ConcatEmptySeq, EmptySeq
  <2> QED BY <1>1, <2>1 DEF EventsBefore
<1>3. ASSUME NEW u \in Seq(Seq(A)), NEW line \in Seq(A), u \in S PROVE Append(u, line) \in S
  <2> DEFINE far == Through(left, u)
  <2>1. lines \o Append(u, line) = Append(lines \o u, line) /\ lines \o u \in Seq(Seq(A))
    BY ConcatAppend, ConcatProperties, SMTT(30)
  <2>2. ThroughTyped(A, f, lines \o u) /\ ThroughTyped(A, left, u)
    BY <1>1, <2>1 DEF ThroughTyped
  <2>3. Through(f, Append(lines \o u, line)) = ThroughNext(Through(f, lines \o u), line)
    <3> HIDE DEF left
    <3> QED BY <2>2, ThroughStep
  <2>4. Through(left, Append(u, line)) = ThroughNext(far, line) /\ far \in Outcomes(A)
    <3>1. ThroughTyped(A, left, u)
      BY <2>2
    <3> HIDE DEF left, events, S
    <3>2. Through(left, Append(u, line)) = ThroughNext(Through(left, u), line)
      BY <3>1, ThroughStep
    <3>3. Through(left, u) \in Outcomes(A)
      BY <3>1, ThroughStep
    <3> QED BY <3>2, <3>3
  <2>5. ThroughNext(EventsBefore(events, far), line) = EventsBefore(events, ThroughNext(far, line))
    <3>1. far \in Outcomes(A) /\ events \in Seq(Events(A))
      BY <1>1, <2>4
    <3> HIDE DEF far, events
    <3> QED BY <3>1, ThroughNextAfter
  <2>6. Append(u, line) \in Seq(Seq(A))
    BY AppendProperties
  <2>7. Through(f, lines \o u) = EventsBefore(events, far)
    BY <1>3
  <2>8. Through(f, lines \o Append(u, line)) = EventsBefore(events, Through(left, Append(u, line)))
    <3> HIDE DEF far, events, left
    <3> QED BY <2>1, <2>3, <2>4, <2>5, <2>7
  <2> QED BY <2>6, <2>8
<1>4. Seq(Seq(A)) \subseteq S
  <2> HIDE DEF S
  <2> QED BY <1>2, <1>3, SequenceInduction
<1> QED BY <1>4

(* What is parsed of a text that is read at once *)
Parsed(text) == Consume(NoFields, text)

LEMMA ParsedType ==
  ASSUME NEW A, "message" \in A, NEW text \in Seq(A)
  PROVE  /\ NoFields \in Fields(A)
         /\ Cut(text).lines \in Seq(Seq(A)) /\ Cut(text).rest \in Seq(A)
         /\ Parsed(text).fields \in Fields(A)
         /\ Parsed(text).events \in Seq(Events(A))
         /\ Parsed(text).rest = Cut(text).rest
         /\ Parsed(text).fields = Through(NoFields, Cut(text).lines).fields
         /\ Parsed(text).events = Through(NoFields, Cut(text).lines).events
<1>1. NoFields \in Fields(A)
  BY EmptySeq DEF NoFields, Fields
<1>2. Cut(text).lines \in Seq(Seq(A)) /\ Cut(text).rest \in Seq(A)
  BY CutType DEF Pieces
<1>3. /\ Parsed(text).rest = Cut(text).rest
      /\ Parsed(text).fields = Through(NoFields, Cut(text).lines).fields
      /\ Parsed(text).events = Through(NoFields, Cut(text).lines).events
  BY DEF Parsed, Consume
<1>4. /\ Through(NoFields, Cut(text).lines).fields \in Fields(A)
      /\ Through(NoFields, Cut(text).lines).events \in Seq(Events(A))
  BY <1>1, <1>2, ThroughType
<1> QED BY <1>1, <1>2, <1>3, <1>4

(* A chunk that is pushed continues the text. *)
LEMMA PushContinues ==
  ASSUME NEW A, "message" \in A, NEW text \in Seq(A), NEW chunk \in Seq(A)
  PROVE  LET next == Pushed(Parsed(text).rest, Parsed(text).fields, chunk)
         IN Parsed(text \o chunk) = [fields |-> next.fields,
                                     events |-> Parsed(text).events \o next.events,
                                     rest |-> next.rest]
<1> DEFINE rest == Cut(text).rest
           lines == Cut(text).lines
           others == Cut(rest \o chunk).lines
           before == Through(NoFields, lines)
           after == Through(before.fields, others)
<1>1. /\ NoFields \in Fields(A) /\ lines \in Seq(Seq(A)) /\ rest \in Seq(A)
      /\ Parsed(text).rest = rest /\ Parsed(text).fields = before.fields
      /\ Parsed(text).events = before.events
  BY ParsedType
<1>2. others \in Seq(Seq(A))
  <2>1. rest \o chunk \in Seq(A)
    BY <1>1, ConcatProperties
  <2> HIDE DEF rest
  <2> QED BY <2>1, CutType DEF Pieces
<1>3. /\ Cut(text \o chunk).lines = lines \o others
      /\ Cut(text \o chunk).rest = Cut(rest \o chunk).rest
  <2>1. Cut(text \o chunk) = LinesBefore(lines, Cut(rest \o chunk))
    BY CutConcat
  <2> HIDE DEF lines, rest
  <2> QED BY <2>1 DEF LinesBefore
<1>4. Through(NoFields, lines \o others) = EventsBefore(before.events, after)
  <2> HIDE DEF lines, others
  <2> QED BY <1>1, <1>2, ThroughConcat
<1>5. Parsed(text \o chunk) = [fields |-> after.fields, events |-> before.events \o after.events,
                               rest |-> Cut(rest \o chunk).rest]
  <2> HIDE DEF lines, others, before, after, rest
  <2> QED BY <1>3, <1>4 DEF Parsed, Consume, EventsBefore
<1>6. Pushed(rest, before.fields, chunk) =
        [fields |-> after.fields, events |-> after.events, rest |-> Cut(rest \o chunk).rest]
  BY DEF Pushed, Consume
<1> QED
  <2> HIDE DEF lines, others, before, after, rest
  <2> QED BY <1>1, <1>5, <1>6

(* A blank line emits what was said. *)
LEMMA BlankLine ==
  ASSUME NEW A, "message" \in A, NEW o \in Outcomes(A)
  PROVE  ThroughNext(o, <<>>) =
           [fields |-> NoFields, events |-> o.events \o EmitCurrent(o.fields).events]
<1>1. WithoutCR(<<>>) = <<>>
  BY DEF WithoutCR
<1>2. ProcessLine(o.fields, <<>>) = EmitCurrent(o.fields)
  BY DEF ProcessLine
<1>3. EmitCurrent(o.fields).fields = NoFields
  BY DEF EmitCurrent
<1> QED BY <1>1, <1>2, <1>3 DEF ThroughNext

(* The first line *)
LEMMA ThroughOne ==
  ASSUME NEW A, "message" \in A, NEW f \in Fields(A), NEW line \in Seq(A)
  PROVE  Through(f, <<line>>) = ThroughNext([fields |-> f, events |-> <<>>], line)
<1> DEFINE none == <<>>
<1>1. ThroughTyped(A, f, none) /\ Through(f, none) = [fields |-> f, events |-> <<>>]
  BY ThroughType, EmptySeq DEF ThroughTyped
<1>2. Through(f, Append(none, line)) = ThroughNext(Through(f, none), line)
  <2> HIDE DEF none
  <2> QED BY <1>1, ThroughStep
<1>3. Append(none, line) = <<line>>
  OBVIOUS
<1> HIDE DEF none
<1> QED BY <1>1, <1>2, <1>3

(* The events of a last line that does not end *)
LastLine(f, line) ==
  LET done == ProcessLine(f, WithoutCR(line))
  IN done.events \o EmitCurrent(done.fields).events

(* A flush reads the text as if it ended with a line feed and a blank line. *)
LEMMA FlushEnds ==
  ASSUME NEW A, "message" \in A, LF \in A, NEW text \in Seq(A)
  PROVE  /\ Parsed(text \o <<LF, LF>>).events =
              Parsed(text).events \o Flushed(Parsed(text).rest, Parsed(text).fields).events
         /\ Flushed(Parsed(text).rest, Parsed(text).fields).events =
              LastLine(Parsed(text).fields, Parsed(text).rest)
<1> DEFINE E == Events(A)
           lines == Cut(text).lines
           rest == Cut(text).rest
           first == Append(text, LF)
           second == Append(first, LF)
           before == Through(NoFields, lines)
           done == ProcessLine(before.fields, WithoutCR(rest))
           ended == ThroughNext(before, rest)
           last == EmitCurrent(done.fields)
<1>1. /\ NoFields \in Fields(A) /\ lines \in Seq(Seq(A)) /\ rest \in Seq(A)
      /\ Parsed(text).rest = rest /\ Parsed(text).fields = before.fields
      /\ Parsed(text).events = before.events /\ before.fields \in Fields(A)
      /\ before.events \in Seq(E) /\ before \in Outcomes(A)
  BY ParsedType, ThroughType
<1>2. /\ done \in Outcomes(A) /\ done.fields \in Fields(A) /\ done.events \in Seq(E)
      /\ last \in Outcomes(A) /\ last.events \in Seq(E)
  <2>1. done \in Outcomes(A)
    <3> HIDE DEF rest, before
    <3> QED BY <1>1, WithoutCRType, ProcessType
  <2>2. done.fields \in Fields(A) /\ done.events \in Seq(E)
    BY <2>1 DEF Outcomes
  <2>3. last \in Outcomes(A)
    <3> HIDE DEF done
    <3> QED BY <2>2, EmitType
  <2> QED BY <2>1, <2>2, <2>3 DEF Outcomes
<1>3. ended = [fields |-> done.fields, events |-> before.events \o done.events]
  BY DEF ThroughNext
<1>4. ended \in Outcomes(A)
  <2> HIDE DEF before, rest
  <2> QED BY <1>1, ThroughNextType
<1>5. text \o <<LF, LF>> = second /\ first \in Seq(A) /\ second \in Seq(A)
  <2>1. first \in Seq(A) /\ second \in Seq(A) /\ <<LF>> \in Seq(A) /\ <<LF, LF>> = Append(<<LF>>, LF)
    BY AppendProperties
  <2>2. text \o <<LF, LF>> = Append(text \o <<LF>>, LF)
    BY <2>1, ConcatAppend
  <2>3. text \o <<LF>> = Append(text, LF)
    BY AppendIsConcat
  <2> QED BY <2>1, <2>2, <2>3
<1>6. Cut(second).lines = Append(Append(lines, rest), <<>>)
  <2>1. Cut(first) = CutNext(Cut(text), LF) /\ Cut(second) = CutNext(Cut(first), LF)
    BY <1>5, CutStep
  <2> HIDE DEF first, second
  <2> QED BY <2>1 DEF CutNext
<1>7. Through(NoFields, Append(Append(lines, rest), <<>>)) = ThroughNext(ended, <<>>)
  <2>1. Append(lines, rest) \in Seq(Seq(A)) /\ <<>> \in Seq(A)
    BY <1>1, AppendProperties, EmptySeq
  <2>2. ThroughTyped(A, NoFields, lines) /\ ThroughTyped(A, NoFields, Append(lines, rest))
    BY <1>1, <2>1 DEF ThroughTyped
  <2>3. Through(NoFields, Append(lines, rest)) = ThroughNext(Through(NoFields, lines), rest)
    <3> HIDE DEF lines, rest
    <3> QED BY <1>1, <2>2, ThroughStep
  <2> DEFINE more == Append(lines, rest)
             blank == <<>>
  <2>4. Through(NoFields, Append(more, blank)) = ThroughNext(Through(NoFields, more), blank)
    <3>1. ThroughTyped(A, NoFields, more) /\ blank \in Seq(A)
      BY <2>1, <2>2
    <3> HIDE DEF more, blank
    <3> QED BY <3>1, ThroughStep
  <2> QED BY <2>3, <2>4
<1>8. Parsed(text \o <<LF, LF>>).events = (before.events \o done.events) \o last.events
  <2>1. ThroughNext(ended, <<>>) =
          [fields |-> NoFields, events |-> ended.events \o EmitCurrent(ended.fields).events]
    <3> HIDE DEF ended
    <3> QED BY <1>4, BlankLine
  <2>2. Parsed(second).events = Through(NoFields, Cut(second).lines).events
    BY DEF Parsed, Consume
  <2>3. ended.fields = done.fields /\ ended.events = before.events \o done.events
    <3> HIDE DEF ended, before, done
    <3> QED BY <1>3
  <2>4. Parsed(second).events = ThroughNext(ended, <<>>).events
    <3> HIDE DEF ended, second, lines, rest
    <3> QED BY <1>6, <1>7, <2>2, Zenon
  <2>5. ThroughNext(ended, <<>>).events = ended.events \o last.events
    <3> DEFINE all == ended.events \o EmitCurrent(ended.fields).events
    <3>1. ThroughNext(ended, <<>>) = [fields |-> NoFields, events |-> all]
      BY <2>1
    <3>2. ThroughNext(ended, <<>>).events = all
      <4> HIDE DEF all, ended
      <4> QED BY <3>1
    <3>3. EmitCurrent(ended.fields) = last
      <4> HIDE DEF ended, done
      <4> QED BY <2>3, Zenon
    <3> HIDE DEF ended, last
    <3> QED BY <3>2, <3>3, Zenon
  <2> HIDE DEF ended, second, lines, rest, done, before, last
  <2> QED BY <1>5, <2>3, <2>4, <2>5, Zenon
<1>9. Parsed(text \o <<LF, LF>>).events = before.events \o (done.events \o last.events)
  <2> DEFINE a == before.events
             b == done.events
             c == last.events
  <2>1. a \in Seq(E) /\ b \in Seq(E) /\ c \in Seq(E)
    BY <1>1, <1>2
  <2>2. (a \o b) \o c = a \o (b \o c)
    <3> HIDE DEF a, b, c, E
    <3> QED BY <2>1, ConcatAssociative, SMTT(30)
  <2> QED BY <1>8, <2>2, Zenon
<1>10. Flushed(rest, before.fields).events = done.events \o last.events
  <2>1. CASE rest = <<>>
    <3>1. done = EmitCurrent(before.fields)
      BY <2>1 DEF ProcessLine, WithoutCR
    <3>2. done.fields = NoFields /\ last.events = <<>>
      BY <3>1 DEF EmitCurrent
    <3>3. Flushed(rest, before.fields).events = <<>> \o EmitCurrent(before.fields).events
      BY <2>1 DEF Flushed
    <3>4. <<>> \o done.events = done.events /\ done.events \o <<>> = done.events
      <4> HIDE DEF done, E
      <4> QED BY <1>2, ConcatEmptySeq
    <3> HIDE DEF done, last, before, rest
    <3> QED BY <3>1, <3>2, <3>3, <3>4
  <2>2. CASE rest # <<>>
    <3>1. Cut(rest \o <<LF>>).lines = <<rest>>
      <4>1. Cut(rest) = [lines |-> <<>>, rest |-> rest]
        BY RestHasNoLine
      <4>2. rest \o <<LF>> = Append(rest, LF)
        BY <1>1, AppendIsConcat
      <4>3. Cut(Append(rest, LF)) = CutNext(Cut(rest), LF)
        BY <1>1, CutStep
      <4>4. CutNext([lines |-> <<>>, rest |-> rest], LF).lines = <<rest>>
        <5> HIDE DEF rest
        <5> QED BY DEF CutNext
      <4> HIDE DEF rest
      <4> QED BY <4>1, <4>2, <4>3, <4>4
    <3>2. Through(before.fields, <<rest>>) =
            ThroughNext([fields |-> before.fields, events |-> <<>>], rest)
      <4> HIDE DEF before, rest
      <4> QED BY <1>1, ThroughOne
    <3>3. ThroughNext([fields |-> before.fields, events |-> <<>>], rest) =
            [fields |-> done.fields, events |-> <<>> \o done.events]
      BY DEF ThroughNext
    <3>4. <<>> \o done.events = done.events
      <4> HIDE DEF done, E
      <4> QED BY <1>2, ConcatEmptySeq
    <3>5. Through(before.fields, <<rest>>) = [fields |-> done.fields, events |-> done.events]
      <4> HIDE DEF rest, before, done
      <4> QED BY <3>2, <3>3, <3>4, Zenon
    <3> DEFINE line == Through(before.fields, Cut(rest \o <<LF>>).lines)
    <3>6. Flushed(rest, before.fields).events = line.events \o EmitCurrent(line.fields).events
      BY <2>2 DEF Flushed
    <3>7. line = [fields |-> done.fields, events |-> done.events]
      <4> HIDE DEF rest, before, done
      <4> QED BY <3>1, <3>5, Zenon
    <3>8. line.fields = done.fields /\ line.events = done.events
      <4> HIDE DEF line, done
      <4> QED BY <3>7
    <3> HIDE DEF line, done, before, rest
    <3> QED BY <3>6, <3>8
  <2> QED BY <2>1, <2>2
<1>11. LastLine(before.fields, rest) = done.events \o last.events
  BY DEF LastLine
<1> QED
  <2> HIDE DEF rest, before, done, last
  <2> QED BY <1>1, <1>9, <1>10, <1>11

-----------------------------------------------------------------------------
(* The events of a text that is read at once, line after line *)

LEMMA ChosenType ==
  ASSUME NEW A, NEW s \in Seq(A), NEW at
  PROVE  Chosen(s, at) \in Seq(A) /\ Chosen(<<>>, at) = <<>>
<1> DEFINE none == <<>>
<1>1. /\ Len(s) \in Nat /\ Len(none) = 0 /\ ChosenTyped(A, s) /\ ChosenTyped(A, none)
      /\ Chosen(s, at) = ChosenOf(s, at)[Len(s)] /\ Chosen(none, at) = ChosenOf(none, at)[Len(none)]
  BY EmptySeq, LenProperties DEF ChosenTyped, Chosen, ChosenOf
<1>2. ChosenLoop(A, s, at) /\ ChosenLoop(A, none, at)
  <2> HIDE DEF none
  <2> QED BY <1>1, ChosenOfValues
<1>3. Chosen(s, at) \in Seq(A)
  BY <1>1, <1>2 DEF ChosenLoop
<1>4. Chosen(none, at) = <<>>
  <2> HIDE DEF none
  <2> QED BY <1>1, <1>2 DEF ChosenLoop
<1> QED BY <1>3, <1>4

LEMMA ChosenAppend ==
  ASSUME NEW A, NEW s, NEW c, NEW at, NEW more, OneMore(A, s, c, at, more)
  PROVE  Chosen(Append(s, c), more) = ChosenNext(Chosen(s, at), c, Len(s) + 1, more)
BY ChosenStep

BlanksGrow(lines, line) ==
  Blanks(Append(lines, line)) =
    IF line = <<>> THEN Append(Blanks(lines), Len(lines) + 1) ELSE Blanks(lines)

LEMMA BlanksAppend ==
  ASSUME NEW B, NEW lines \in Seq(B), NEW line \in B
  PROVE  /\ Blanks(lines) \in Seq(1..Len(lines))
         /\ Blanks(<<>>) = <<>>
         /\ BlanksGrow(lines, line)
<1> DEFINE N == Len(lines)
           longer == Append(lines, line)
           s == [i \in DOMAIN lines |-> i]
           at == {i \in DOMAIN lines : lines[i] = <<>>}
           more == {i \in DOMAIN longer : longer[i] = <<>>}
<1>1. N \in Nat /\ DOMAIN lines = 1..N
  BY LenProperties
<1>2. longer \in Seq(B) /\ Len(longer) = N + 1 /\ DOMAIN longer = 1..(N + 1)
      /\ longer[N + 1] = line /\ \A i \in 1..N : longer[i] = lines[i]
  BY <1>1, AppendProperties, LenProperties
<1>3. s \in Seq(1..N) /\ Len(s) = N /\ DOMAIN s = 1..N /\ \A i \in 1..N : s[i] = i
  BY <1>1, IsASeq
<1>4. Blanks(lines) = Chosen(s, at)
  BY DEF Blanks
<1>5. Blanks(lines) \in Seq(1..Len(lines))
  <2> HIDE DEF s, at
  <2> QED BY <1>3, <1>4, ChosenType
<1>6. Blanks(<<>>) = <<>>
  <2>1. Blanks(<<>>) = Chosen(<<>>, {i \in DOMAIN <<>> : (<<>>)[i] = <<>>})
    BY DEF Blanks
  <2>2. <<>> \in Seq(B)
    BY EmptySeq
  <2>3. \A x : Chosen(<<>>, x) = <<>>
    BY <2>2, ChosenType
  <2> QED BY <2>1, <2>3, Zenon
<1>7. [i \in DOMAIN longer |-> i] = Append(s, N + 1)
  <2>1. s \in Seq(Nat) /\ N + 1 \in Nat
    BY <1>1, <1>3, IsASeq
  <2>2. Append(s, N + 1) \in Seq(Nat) /\ Len(Append(s, N + 1)) = N + 1
        /\ Append(s, N + 1)[N + 1] = N + 1 /\ \A i \in 1..N : Append(s, N + 1)[i] = i
    <3> HIDE DEF s
    <3> QED BY <1>3, <2>1, AppendProperties
  <2>3. [i \in DOMAIN longer |-> i] \in Seq(Nat) /\ Len([i \in DOMAIN longer |-> i]) = N + 1
    BY <1>1, <1>2, IsASeq
  <2>4. \A i \in 1..(N + 1) : Append(s, N + 1)[i] = i
    <3> HIDE DEF s
    <3> QED BY <1>1, <2>2
  <2>5. \A i \in 1..(N + 1) : [j \in DOMAIN longer |-> j][i] = i
    BY <1>2
  <2> HIDE DEF s, longer
  <2> QED BY <2>2, <2>3, <2>4, <2>5, SeqEqual
<1>8. SameUpTo(N, at, more)
  BY <1>1, <1>2 DEF SameUpTo
<1>9. N + 1 \in more <=> line = <<>>
  BY <1>1, <1>2
<1>10. Blanks(longer) = Chosen(Append(s, N + 1), more)
  BY <1>7 DEF Blanks
<1>11. Chosen(Append(s, N + 1), more) =
         IF N + 1 \in more THEN Append(Chosen(s, at), N + 1) ELSE Chosen(s, at)
  <2>1. s \in Seq(Nat) /\ N + 1 \in Nat /\ Len(s) = N
    BY <1>1, <1>3, IsASeq
  <2> HIDE DEF s, at, more, N
  <2>2. OneMore(Nat, s, N + 1, at, more)
    BY <1>8, <2>1 DEF OneMore, ChosenTyped
  <2>3. Chosen(Append(s, N + 1), more) = ChosenNext(Chosen(s, at), N + 1, Len(s) + 1, more)
    BY <2>2, ChosenAppend
  <2> QED BY <2>1, <2>3 DEF ChosenNext
<1> QED
  <2> HIDE DEF s, at, more, longer
  <2>1. Blanks(longer) = IF line = <<>> THEN Append(Blanks(lines), N + 1) ELSE Blanks(lines)
    BY <1>4, <1>9, <1>10, <1>11
  <2> QED BY <1>5, <1>6, <2>1 DEF longer, BlanksGrow

ValuesGrow(block, line, field) ==
  Values(Append(block, line), field) =
    IF Head(line) = field THEN Append(Values(block, field), Tail(line)) ELSE Values(block, field)

LEMMA ValuesAppend ==
  ASSUME NEW B, NEW block \in Seq(B), NEW line \in B, NEW field
  PROVE  /\ Values(block, field) \in Seq({Tail(x) : x \in B})
         /\ Values(<<>>, field) = <<>>
         /\ ValuesGrow(block, line, field)
<1> DEFINE N == Len(block)
           longer == Append(block, line)
           A == {Tail(x) : x \in B}
           s == [i \in DOMAIN block |-> Tail(block[i])]
           at == {i \in DOMAIN block : Head(block[i]) = field}
           more == {i \in DOMAIN longer : Head(longer[i]) = field}
           tails == [i \in DOMAIN longer |-> Tail(longer[i])]
<1>1. N \in Nat /\ DOMAIN block = 1..N /\ \A i \in 1..N : block[i] \in B
  BY LenProperties, ElementOfSeq
<1>2. longer \in Seq(B) /\ Len(longer) = N + 1 /\ DOMAIN longer = 1..(N + 1)
      /\ longer[N + 1] = line /\ \A i \in 1..N : longer[i] = block[i]
  BY <1>1, AppendProperties, LenProperties
<1>3. s \in Seq(A) /\ Len(s) = N /\ \A i \in 1..N : s[i] = Tail(block[i])
  <2>1. \A i \in 1..N : Tail(block[i]) \in A
    BY <1>1
  <2>2. s = [i \in 1..N |-> Tail(block[i])]
    BY <1>1
  <2> HIDE DEF A
  <2> QED BY <1>1, <2>1, <2>2, IsASeq
<1>4. Tail(line) \in A
  OBVIOUS
<1>5. Values(block, field) = Chosen(s, at) /\ Values(longer, field) = Chosen(tails, more)
  BY DEF Values
<1>6. Values(block, field) \in Seq(A)
  <2> HIDE DEF s, at, A
  <2> QED BY <1>3, <1>5, ChosenType
<1>7. Values(<<>>, field) = <<>>
  <2> DEFINE none == <<>>
  <2>1. [i \in DOMAIN none |-> Tail(none[i])] = <<>>
    OBVIOUS
  <2>2. Values(none, field) = Chosen(<<>>, {i \in DOMAIN none : Head(none[i]) = field})
    BY <2>1 DEF Values
  <2>3. \A x : Chosen(<<>>, x) = <<>>
    BY EmptySeq, ChosenType
  <2> QED BY <2>2, <2>3, Zenon
<1>8. tails = Append(s, Tail(line))
  <2>1. /\ Append(s, Tail(line)) \in Seq(A) /\ Len(Append(s, Tail(line))) = N + 1
        /\ Append(s, Tail(line))[N + 1] = Tail(line)
        /\ \A i \in 1..N : Append(s, Tail(line))[i] = Tail(block[i])
    <3> HIDE DEF s, A
    <3> QED BY <1>3, <1>4, AppendProperties
  <2>2. \A i \in 1..(N + 1) : Append(s, Tail(line))[i] = Tail(longer[i])
    <3>1. ASSUME NEW i \in 1..(N + 1) PROVE Append(s, Tail(line))[i] = Tail(longer[i])
      <4>1. CASE i = N + 1
        <5> HIDE DEF s, A, longer
        <5> QED BY <4>1, <1>2, <2>1
      <4>2. CASE i \in 1..N
        <5> HIDE DEF s, A, longer
        <5> QED BY <4>2, <1>2, <2>1
      <4> QED BY <4>1, <4>2, <1>1
    <3> QED BY <3>1
  <2>3. \A i \in 1..(N + 1) : Tail(longer[i]) \in A
    <3> HIDE DEF longer
    <3> QED BY <1>2, ElementOfSeq
  <2>4. tails \in Seq(A) /\ Len(tails) = N + 1 /\ \A i \in 1..(N + 1) : tails[i] = Tail(longer[i])
    <3>1. tails = [i \in 1..(N + 1) |-> Tail(longer[i])] /\ N + 1 \in Nat
      BY <1>1, <1>2
    <3> HIDE DEF A, longer
    <3> QED BY <2>3, <3>1, IsASeq
  <2> HIDE DEF s, A, longer, tails
  <2> QED BY <2>1, <2>2, <2>4, SeqEqual
<1>9. SameUpTo(Len(s), at, more)
  <2>1. SameUpTo(N, at, more)
    BY <1>1, <1>2 DEF SameUpTo
  <2> HIDE DEF s, at, more
  <2> QED BY <1>3, <2>1
<1>10. N + 1 \in more <=> Head(line) = field
  BY <1>1, <1>2
<1>11. Chosen(Append(s, Tail(line)), more) =
         IF Len(s) + 1 \in more THEN Append(Chosen(s, at), Tail(line)) ELSE Chosen(s, at)
  <2> DEFINE t == Tail(line)
  <2> HIDE DEF s, at, more, A, t
  <2>1. OneMore(A, s, t, at, more)
    BY <1>3, <1>4, <1>9 DEF OneMore, ChosenTyped, t
  <2>2. Chosen(Append(s, t), more) = ChosenNext(Chosen(s, at), t, Len(s) + 1, more)
    BY <2>1, ChosenAppend
  <2> QED BY <2>2 DEF ChosenNext, t
<1>12. Values(longer, field) =
         IF Head(line) = field THEN Append(Values(block, field), Tail(line)) ELSE Values(block, field)
  <2> HIDE DEF s, at, more, A, longer, tails
  <2> QED BY <1>3, <1>5, <1>8, <1>10, <1>11
<1> QED BY <1>6, <1>7, <1>12 DEF ValuesGrow

(* The lines that are not blank *)
Spoken(A) == {line \in Seq(A) : line # <<>>}

LEMMA LastOfAppend ==
  ASSUME NEW S, NEW s \in Seq(S), NEW t \in S
  PROVE  Append(s, t) # <<>> /\ Append(s, t)[Len(Append(s, t))] = t
BY AppendProperties

LEMMA SaidEmpty == Said(<<>>) = NoFields
<1>1. \A field : Values(<<>>, field) = <<>>
  <2> TAKE field
  <2>1. [i \in DOMAIN <<>> |-> Tail((<<>>)[i])] = <<>>
    OBVIOUS
  <2>2. Values(<<>>, field) = Chosen(<<>>, {i \in DOMAIN <<>> : Head((<<>>)[i]) = field})
    BY <2>1 DEF Values
  <2>3. <<>> \in Seq(Nat)
    BY EmptySeq
  <2>4. \A x : Chosen(<<>>, x) = <<>>
    BY <2>3, ChosenType
  <2> QED BY <2>2, <2>4, Zenon
<1> QED BY <1>1 DEF Said, NoFields

LEMMA SaidAppend ==
  ASSUME NEW A, NEW block \in Seq(Spoken(A)), NEW line \in Spoken(A)
  PROVE  /\ Said(block) \in Fields(A)
         /\ Said(<<>>) = NoFields
         /\ Said(Append(block, line)) = ProcessLine(Said(block), line).fields
<1> DEFINE B == Spoken(A)
           T == {Tail(x) : x \in B}
           names == Values(block, "event:")
           ids == Values(block, "id:")
           parts == Values(block, "data:")
           longer == Append(block, line)
<1>1. T \subseteq Seq(A)
  <2>1. \A x \in B : x \in Seq(A) /\ x # <<>>
    BY DEF Spoken
  <2>2. \A x \in B : Tail(x) \in Seq(A)
    BY <2>1, HeadTailProperties
  <2> QED BY <2>2
<1>2. /\ names \in Seq(T) /\ ids \in Seq(T) /\ parts \in Seq(T)
      /\ \A field : Values(<<>>, field) = <<>>
      /\ Values(longer, "event:") = IF Head(line) = "event:" THEN Append(names, Tail(line)) ELSE names
      /\ Values(longer, "id:") = IF Head(line) = "id:" THEN Append(ids, Tail(line)) ELSE ids
      /\ Values(longer, "data:") = IF Head(line) = "data:" THEN Append(parts, Tail(line)) ELSE parts
  <2> HIDE DEF T
  <2>1. \A field :
          /\ Values(block, field) \in Seq(T)
          /\ Values(<<>>, field) = <<>>
          /\ Values(longer, field) =
               IF Head(line) = field THEN Append(Values(block, field), Tail(line))
                                     ELSE Values(block, field)
    <3> TAKE field
    <3> DEFINE now == Values(block, field)
               then == IF Head(line) = field THEN Append(now, Tail(line)) ELSE now
    <3>1. now \in Seq(T)
      BY ValuesAppend DEF T
    <3>2. Values(<<>>, field) = <<>>
      BY ValuesAppend, Zenon
    <3>3. Values(longer, field) = then
      <4>1. ValuesGrow(block, line, field)
        BY ValuesAppend
      <4> QED BY <4>1 DEF ValuesGrow
    <3> QED BY <3>1, <3>2, <3>3
  <2> QED BY <2>1
<1>3. Tail(line) \in T
  OBVIOUS
<1>4. Said(block) \in Fields(A)
  <2>1. names \in Seq(Seq(A)) /\ ids \in Seq(Seq(A)) /\ parts \in Seq(Seq(A))
    <3> HIDE DEF T, names, ids, parts
    <3> QED BY <1>1, <1>2
  <2>2. names # <<>> => names[Len(names)] \in Seq(A)
    <3> HIDE DEF names
    <3> QED BY <2>1
  <2>3. ids # <<>> => <<ids[Len(ids)]>> \in Seq(Seq(A))
    <3> HIDE DEF ids
    <3> QED BY <2>1
  <2>4. (IF names = <<>> THEN <<>> ELSE names[Len(names)]) \in Seq(A)
    <3> HIDE DEF names
    <3> QED BY <2>2, EmptySeq
  <2>5. (IF ids = <<>> THEN <<>> ELSE <<ids[Len(ids)]>>) \in Seq(Seq(A))
    <3> HIDE DEF ids
    <3> QED BY <2>3, EmptySeq
  <2> HIDE DEF names, ids, parts
  <2> QED BY <2>1, <2>4, <2>5 DEF Said, Fields, names, ids, parts
<1>5. Said(<<>>) = NoFields
  BY <1>2 DEF Said, NoFields
<1>6. line # <<>>
  BY DEF Spoken
<1>7. Said(longer) =
        [name |-> IF Head(line) = "event:" THEN Tail(line) ELSE Said(block).name,
         data |-> IF Head(line) = "data:" THEN Append(parts, Tail(line)) ELSE Said(block).data,
         id |-> IF Head(line) = "id:" THEN <<Tail(line)>> ELSE Said(block).id]
  <2> DEFINE t == Tail(line)
             namesNow == Values(longer, "event:")
             idsNow == Values(longer, "id:")
             partsNow == Values(longer, "data:")
  <2>1. (IF namesNow = <<>> THEN <<>> ELSE namesNow[Len(namesNow)]) =
          IF Head(line) = "event:" THEN t ELSE IF names = <<>> THEN <<>> ELSE names[Len(names)]
    <3>1. Append(names, t) # <<>> /\ Append(names, t)[Len(Append(names, t))] = t
      <4>1. names \in Seq(T) /\ t \in T
        BY <1>2, <1>3
      <4> HIDE DEF names, t, T
      <4> QED BY <4>1, LastOfAppend
    <3> HIDE DEF names, t, T
    <3> QED BY <1>2, <3>1 DEF t
  <2>2. (IF idsNow = <<>> THEN <<>> ELSE <<idsNow[Len(idsNow)]>>) =
          IF Head(line) = "id:" THEN <<t>> ELSE IF ids = <<>> THEN <<>> ELSE <<ids[Len(ids)]>>
    <3>1. Append(ids, t) # <<>> /\ Append(ids, t)[Len(Append(ids, t))] = t
      <4>1. ids \in Seq(T) /\ t \in T
        BY <1>2, <1>3
      <4> HIDE DEF ids, t, T
      <4> QED BY <4>1, LastOfAppend
    <3> HIDE DEF ids, t, T
    <3> QED BY <1>2, <3>1 DEF t
  <2>3. partsNow = IF Head(line) = "data:" THEN Append(parts, t) ELSE parts
    BY <1>2
  <2>4. Said(longer) = [name |-> IF namesNow = <<>> THEN <<>> ELSE namesNow[Len(namesNow)],
                        data |-> partsNow,
                        id |-> IF idsNow = <<>> THEN <<>> ELSE <<idsNow[Len(idsNow)]>>]
    BY DEF Said
  <2>5. Said(block) = [name |-> IF names = <<>> THEN <<>> ELSE names[Len(names)],
                       data |-> parts,
                       id |-> IF ids = <<>> THEN <<>> ELSE <<ids[Len(ids)]>>]
    BY DEF Said
  <2>6. /\ Said(block).name = IF names = <<>> THEN <<>> ELSE names[Len(names)]
        /\ Said(block).data = parts
        /\ Said(block).id = IF ids = <<>> THEN <<>> ELSE <<ids[Len(ids)]>>
    <3> HIDE DEF names, ids, parts
    <3> QED BY <2>5
  <2> HIDE DEF names, ids, parts, namesNow, idsNow, partsNow, longer
  <2> QED BY <2>1, <2>2, <2>3, <2>4, <2>6
<1>8. Said(longer) = ProcessLine(Said(block), line).fields
  <2> DEFINE f == Said(block)
             t == Tail(line)
  <2>1. /\ f = [name |-> f.name, data |-> f.data, id |-> f.id]
        /\ parts = f.data
    BY DEF Said
  <2>t. f \in Fields(A)
    BY <1>4
  <2>0. SUFFICES Said(longer) = ProcessLine(f, line).fields
    OBVIOUS
  <2>2. CASE Head(line) = "event:"
    <3>1. Said(longer) = [name |-> t, data |-> f.data, id |-> f.id]
      <4> HIDE DEF parts, longer
      <4> QED BY <2>2, <1>7
    <3>2. ProcessLine(f, line).fields = [f EXCEPT !.name = t]
      <4> HIDE DEF f
      <4> QED BY <2>2, <1>6 DEF ProcessLine
    <3> HIDE DEF f, longer, t, parts
    <3> QED BY <2>t, <2>1, <3>1, <3>2 DEF Fields
  <2>3. CASE Head(line) = "data:"
    <3>1. Said(longer) = [name |-> f.name, data |-> Append(f.data, t), id |-> f.id]
      <4> HIDE DEF parts, longer
      <4> QED BY <2>1, <2>3, <1>7
    <3>2. ProcessLine(f, line).fields = [f EXCEPT !.data = Append(@, t)]
      <4> HIDE DEF f
      <4> QED BY <2>3, <1>6 DEF ProcessLine
    <3> HIDE DEF f, longer, t, parts
    <3> QED BY <2>t, <2>1, <3>1, <3>2 DEF Fields
  <2>4. CASE Head(line) = "id:"
    <3>1. Said(longer) = [name |-> f.name, data |-> f.data, id |-> <<t>>]
      <4> HIDE DEF parts, longer
      <4> QED BY <2>4, <1>7
    <3>2. ProcessLine(f, line).fields = [f EXCEPT !.id = <<t>>]
      <4> HIDE DEF f
      <4> QED BY <2>4, <1>6 DEF ProcessLine
    <3> HIDE DEF f, longer, t, parts
    <3> QED BY <2>t, <2>1, <3>1, <3>2 DEF Fields
  <2>5. CASE Head(line) \notin {"event:", "data:", "id:"}
    <3>1. Said(longer) = [name |-> f.name, data |-> f.data, id |-> f.id]
      <4> HIDE DEF parts, longer
      <4> QED BY <2>5, <1>7
    <3>2. ProcessLine(f, line).fields = f
      <4> HIDE DEF f
      <4> QED BY <2>5, <1>6 DEF ProcessLine
    <3> HIDE DEF f, longer, t, parts
    <3> QED BY <2>t, <2>1, <3>1, <3>2 DEF Fields
  <2> QED BY <2>2, <2>3, <2>4, <2>5
<1> QED BY <1>4, <1>5, <1>8

LEMMA SubSeqOfAppend ==
  ASSUME NEW B, NEW s \in Seq(B), NEW c \in B, NEW m \in 1..(Len(s) + 1)
  PROVE  /\ \A n \in 0..Len(s) : SubSeq(Append(s, c), m, n) = SubSeq(s, m, n)
         /\ SubSeq(Append(s, c), m, Len(s) + 1) = Append(SubSeq(s, m, Len(s)), c)
<1> DEFINE N == Len(s)
           longer == Append(s, c)
<1>1. /\ N \in Nat /\ longer \in Seq(B) /\ Len(longer) = N + 1 /\ longer[N + 1] = c
      /\ \A i \in 1..N : longer[i] = s[i] /\ s[i] \in B
  BY AppendProperties, LenProperties, ElementOfSeq
<1>2. ASSUME NEW n \in 0..N
      PROVE  /\ SubSeq(longer, m, n) \in Seq(B) /\ SubSeq(s, m, n) \in Seq(B)
             /\ Len(SubSeq(longer, m, n)) = IF m <= n THEN n - m + 1 ELSE 0
             /\ Len(SubSeq(s, m, n)) = IF m <= n THEN n - m + 1 ELSE 0
             /\ \A i \in 1..n - m + 1 : SubSeq(longer, m, n)[i] = longer[m + i - 1]
             /\ \A i \in 1..n - m + 1 : SubSeq(s, m, n)[i] = s[m + i - 1]
  <2>1. m \in Int /\ n \in Int /\ \A i \in m..n : longer[i] \in B /\ s[i] \in B
    BY <1>1
  <2> HIDE DEF longer
  <2> QED BY <2>1, SubSeqProperties
<1>3. ASSUME NEW n \in 0..N PROVE SubSeq(longer, m, n) = SubSeq(s, m, n)
  <2> DEFINE a == SubSeq(longer, m, n)
             b == SubSeq(s, m, n)
  <2>1. a \in Seq(B) /\ b \in Seq(B) /\ Len(a) = Len(b)
    BY <1>2
  <2>2. \A i \in 1..Len(a) : a[i] = b[i]
    <3> SUFFICES ASSUME NEW i \in 1..Len(a) PROVE a[i] = b[i]
      OBVIOUS
    <3>1. Len(a) = IF m <= n THEN n - m + 1 ELSE 0
      BY <1>2
    <3>2. i \in 1..n - m + 1 /\ m + i - 1 \in 1..N
      <4> HIDE DEF a
      <4> QED BY <1>1, <3>1
    <3>3. a[i] = longer[m + i - 1] /\ b[i] = s[m + i - 1]
      BY <1>2, <3>2
    <3> HIDE DEF a, b, longer
    <3> QED BY <1>1, <3>2, <3>3
  <2> HIDE DEF a, b
  <2>3. a = b
    BY <2>1, <2>2, SeqEqual
  <2> QED BY <2>3 DEF a, b
<1>4. SubSeq(longer, m, N + 1) = Append(SubSeq(s, m, N), c)
  <2> DEFINE a == SubSeq(longer, m, N + 1)
             b == SubSeq(s, m, N)
  <2>1. a \in Seq(B) /\ Len(a) = N + 2 - m /\ \A i \in 1..N + 2 - m : a[i] = longer[m + i - 1]
    <3>1. m \in Int /\ N + 1 \in Int /\ m <= N + 1 /\ \A i \in m..(N + 1) : longer[i] \in B
      BY <1>1, ElementOfSeq
    <3>2. /\ a \in Seq(B) /\ Len(a) = IF m <= N + 1 THEN N + 1 - m + 1 ELSE 0
          /\ \A i \in 1..N + 1 - m + 1 : a[i] = longer[m + i - 1]
      <4> DEFINE n == N + 1
      <4>1. n \in Int /\ \A i \in m..n : longer[i] \in B
        BY <3>1
      <4> HIDE DEF longer, n
      <4>2. /\ SubSeq(longer, m, n) \in Seq(B)
            /\ Len(SubSeq(longer, m, n)) = IF m <= n THEN n - m + 1 ELSE 0
            /\ \A i \in 1..n - m + 1 : SubSeq(longer, m, n)[i] = longer[m + i - 1]
        BY <3>1, <4>1, SubSeqProperties
      <4> QED BY <4>2 DEF n
    <3>3. N + 1 - m + 1 = N + 2 - m
      BY <1>1
    <3> HIDE DEF a
    <3> QED BY <3>1, <3>2, <3>3
  <2>2. b \in Seq(B) /\ Len(b) = N + 1 - m /\ \A i \in 1..N + 1 - m : b[i] = s[m + i - 1]
    <3>1. N \in 0..N /\ N - m + 1 = N + 1 - m
      BY <1>1
    <3>2. /\ b \in Seq(B) /\ Len(b) = IF m <= N THEN N - m + 1 ELSE 0
          /\ \A i \in 1..N - m + 1 : b[i] = s[m + i - 1]
      BY <1>2, <3>1
    <3> HIDE DEF b
    <3> QED BY <1>1, <3>1, <3>2
  <2> DEFINE d == Append(b, c)
  <2>3. /\ d \in Seq(B) /\ Len(d) = N + 2 - m /\ d[N + 2 - m] = c
        /\ \A i \in 1..N + 1 - m : d[i] = s[m + i - 1]
    <3>1. d \in Seq(B) /\ Len(d) = Len(b) + 1 /\ d[Len(b) + 1] = c /\ \A i \in 1..Len(b) : d[i] = b[i]
      <4>1. b \in Seq(B)
        BY <2>2
      <4> HIDE DEF b
      <4> QED BY <4>1, AppendProperties
    <3> HIDE DEF d, b
    <3> QED BY <1>1, <2>2, <3>1
  <2>4. \A i \in 1..Len(a) : a[i] = d[i]
    <3> SUFFICES ASSUME NEW i \in 1..Len(a) PROVE a[i] = d[i]
      OBVIOUS
    <3>1. i \in 1..N + 2 - m
      <4> HIDE DEF a
      <4> QED BY <2>1
    <3>2. CASE i = N + 2 - m
      <4>1. m + i - 1 = N + 1
        BY <1>1, <3>2
      <4> HIDE DEF a, d, longer
      <4> QED BY <1>1, <2>1, <2>3, <3>1, <3>2, <4>1
    <3>3. CASE i \in 1..N + 1 - m
      <4>1. m + i - 1 \in 1..N
        BY <1>1, <3>3
      <4> HIDE DEF a, d, longer
      <4> QED BY <1>1, <2>1, <2>3, <3>1, <3>3, <4>1
    <3>4. i = N + 2 - m \/ i \in 1..N + 1 - m
      BY <1>1, <3>1
    <3> QED BY <3>2, <3>3, <3>4
  <2> HIDE DEF a, d
  <2>5. a = d
    BY <2>1, <2>3, <2>4, SeqEqual
  <2> QED BY <2>5 DEF a, d
<1> QED BY <1>3, <1>4

LEMMA SaidType ==
  ASSUME NEW A, NEW block \in Seq(Spoken(A))
  PROVE  Said(block) \in Fields(A)
<1>1. CASE block = <<>>
  <2>1. NoFields \in Fields(A)
    BY EmptySeq DEF NoFields, Fields
  <2> QED BY <1>1, <2>1, SaidEmpty
<1>2. CASE block # <<>>
  <2>1. PICK line : line \in Spoken(A)
    BY <1>2, ElementOfSeq, EmptySeq
  <2> QED BY <2>1, SaidAppend
<1> QED BY <1>1, <1>2

(* The last blank line, and the lines after it, that no event has yet *)
LastBlank(lines) == IF Blanks(lines) = <<>> THEN 0 ELSE Blanks(lines)[Len(Blanks(lines))]
OpenLines(lines) == SubSeq(lines, LastBlank(lines) + 1, Len(lines))
OpenGrow(lines, line) ==
  OpenLines(Append(lines, line)) = IF line = <<>> THEN <<>> ELSE Append(OpenLines(lines), line)

LEMMA OpenAppend ==
  ASSUME NEW B, NEW lines \in Seq(B), NEW line \in B
  PROVE  /\ LastBlank(lines) \in 0..Len(lines)
         /\ OpenLines(<<>>) = <<>>
         /\ OpenGrow(lines, line)
<1> DEFINE N == Len(lines)
           longer == Append(lines, line)
<1>1. N \in Nat /\ longer \in Seq(B) /\ Len(longer) = N + 1
  BY AppendProperties, LenProperties
<1>2. Blanks(lines) \in Seq(1..N) /\ Blanks(<<>>) = <<>> /\ BlanksGrow(lines, line)
  BY BlanksAppend
<1>3. LastBlank(lines) \in 0..N
  <2>1. Blanks(lines) # <<>> => Blanks(lines)[Len(Blanks(lines))] \in 1..N
    BY <1>2
  <2> QED BY <1>1, <2>1 DEF LastBlank
<1>4. OpenLines(<<>>) = <<>>
  BY <1>2 DEF OpenLines, LastBlank
<1>5. CASE line = <<>>
  <2>1. Blanks(longer) = Append(Blanks(lines), N + 1)
    BY <1>2, <1>5 DEF BlanksGrow
  <2>2. Blanks(longer) # <<>> /\ Blanks(longer)[Len(Blanks(longer))] = N + 1
    <3>1. Blanks(lines) \in Seq(Nat) /\ N + 1 \in Nat
      BY <1>1, <1>2
    <3> QED BY <2>1, <3>1, LastOfAppend, Zenon
  <2>3. LastBlank(longer) = N + 1
    BY <2>2 DEF LastBlank
  <2>4. OpenLines(longer) = SubSeq(longer, N + 2, N + 1)
    BY <1>1, <2>3 DEF OpenLines
  <2>5. SubSeq(longer, N + 2, N + 1) = <<>>
    BY <1>1
  <2> QED BY <1>3, <1>4, <1>5, <2>4, <2>5 DEF OpenGrow
<1>6. CASE line # <<>>
  <2>1. LastBlank(longer) = LastBlank(lines)
    BY <1>2, <1>6 DEF BlanksGrow, LastBlank
  <2> DEFINE m == LastBlank(lines) + 1
  <2>2. m \in 1..(N + 1)
    BY <1>1, <1>3
  <2>3. SubSeq(longer, m, N + 1) = Append(SubSeq(lines, m, N), line)
    <3> HIDE DEF m
    <3> QED BY <2>2, SubSeqOfAppend
  <2>4. OpenLines(longer) = SubSeq(longer, m, N + 1) /\ OpenLines(lines) = SubSeq(lines, m, N)
    BY <1>1, <2>1 DEF OpenLines
  <2>5. OpenLines(longer) = Append(OpenLines(lines), line)
    BY <2>3, <2>4, Zenon
  <2> QED BY <1>3, <1>4, <1>6, <2>5 DEF OpenGrow
<1> QED BY <1>5, <1>6

LEMMA OpenSpoken ==
  ASSUME NEW A, NEW lines \in Seq(Seq(A))
  PROVE  OpenLines(lines) \in Seq(Spoken(A))
<1> DEFINE L == Seq(A)
           S == {t \in Seq(L) : OpenLines(t) \in Seq(Spoken(A))}
<1>1. <<>> \in S
  <2>1. <<>> \in L /\ <<>> \in Seq(L) /\ <<>> \in Seq(Spoken(A))
    BY EmptySeq
  <2>2. OpenLines(<<>>) = <<>>
    <3> HIDE DEF L
    <3> QED BY <2>1, OpenAppend
  <2> QED BY <2>1, <2>2
<1>2. ASSUME NEW t \in Seq(L), NEW c \in L, t \in S PROVE Append(t, c) \in S
  <2>1. OpenGrow(t, c)
    <3> HIDE DEF L
    <3> QED BY OpenAppend
  <2>2. OpenLines(t) \in Seq(Spoken(A))
    BY <1>2
  <2>3. OpenLines(Append(t, c)) \in Seq(Spoken(A))
    <3>1. CASE c = <<>>
      BY <2>1, <3>1, EmptySeq DEF OpenGrow
    <3>2. CASE c # <<>>
      <4>1. c \in Spoken(A)
        BY <3>2 DEF Spoken
      <4>2. OpenLines(Append(t, c)) = Append(OpenLines(t), c)
        BY <2>1, <3>2 DEF OpenGrow
      <4> QED BY <2>2, <4>1, <4>2, AppendProperties
    <3> QED BY <3>1, <3>2
  <2>4. Append(t, c) \in Seq(L)
    <3> HIDE DEF L
    <3> QED BY AppendProperties
  <2> QED BY <2>3, <2>4
<1>3. Seq(L) \subseteq S
  <2> HIDE DEF S, L
  <2> QED BY <1>1, <1>2, SequenceInduction
<1> QED BY <1>3

EventsGrow(lines, line) ==
  EventsIn(Append(lines, line)) =
    IF line = <<>> /\ Said(OpenLines(lines)) # NoFields
    THEN Append(EventsIn(lines), EventOf(Said(OpenLines(lines))))
    ELSE EventsIn(lines)

LEMMA EventsAppend ==
  ASSUME NEW B, NEW lines \in Seq(B), NEW line \in B
  PROVE  EventsGrow(lines, line) /\ EventsIn(<<>>) = <<>>
<1> DEFINE N == Len(lines)
           longer == Append(lines, line)
           now == Blanks(lines)
           then == Blanks(longer)
           K == Len(now)
           SaidAt(l, n) == Said(Block(l, n))
           SayingAt(l) == {n \in DOMAIN Blanks(l) : SaidAt(l, n) # NoFields}
           AllOf(l) == [n \in DOMAIN Blanks(l) |-> EventOf(SaidAt(l, n))]
<1>1. N \in Nat /\ longer \in Seq(B) /\ Len(longer) = N + 1
  BY AppendProperties, LenProperties
<1>2. /\ now \in Seq(1..N) /\ Blanks(<<>>) = <<>> /\ BlanksGrow(lines, line)
      /\ LastBlank(lines) \in 0..N
  BY BlanksAppend, OpenAppend
<1>3. K \in Nat /\ DOMAIN now = 1..K /\ \A n \in 1..K : now[n] \in 1..N
  <2> HIDE DEF now
  <2> QED BY <1>2, LenProperties, ElementOfSeq
<1>4. \A n \in 1..K : then[n] = now[n]
  <2>1. CASE line = <<>>
    <3>1. then = Append(now, N + 1)
      BY <1>2, <2>1 DEF BlanksGrow
    <3>2. now \in Seq(Nat) /\ N + 1 \in Nat
      BY <1>1, <1>2
    <3> HIDE DEF now, then
    <3> QED BY <3>1, <3>2, AppendProperties
  <2>2. CASE line # <<>>
    BY <1>2, <2>2 DEF BlanksGrow
  <2> QED BY <2>1, <2>2
<1>5. ASSUME NEW n \in 1..K PROVE Block(longer, n) = Block(lines, n)
  <2> DEFINE m == IF n = 1 THEN 1 ELSE now[n - 1] + 1
             e == now[n] - 1
  <2>1. m \in 1..(N + 1) /\ e \in 0..N
    <3>1. n # 1 => n - 1 \in 1..K
      BY <1>3
    <3>2. now[n] \in 1..N /\ (n # 1 => now[n - 1] \in 1..N)
      <4> HIDE DEF now, K, N
      <4> QED BY <1>3, <3>1
    <3>3. m = 1 \/ (m = now[n - 1] + 1 /\ now[n - 1] \in 1..N)
      <4> HIDE DEF now
      <4> QED BY <3>2
    <3>4. m \in 1..(N + 1)
      <4> HIDE DEF now, N, m
      <4> QED BY <1>1, <3>3
    <3>5. e \in 0..N
      <4> HIDE DEF now, N
      <4> QED BY <1>1, <3>2
    <3> QED BY <3>4, <3>5
  <2>2. Block(lines, n) = SubSeq(lines, m, e)
    BY DEF Block
  <2>3. Block(longer, n) = SubSeq(longer, m, e)
    <3>1. then[n] = now[n] /\ (n # 1 => then[n - 1] = now[n - 1])
      BY <1>3, <1>4
    <3>2. Block(longer, n) = SubSeq(longer, IF n = 1 THEN 1 ELSE then[n - 1] + 1, then[n] - 1)
      BY DEF Block
    <3> HIDE DEF now, then
    <3> QED BY <3>1, <3>2
  <2>4. SubSeq(longer, m, e) = SubSeq(lines, m, e)
    <3> HIDE DEF m, e
    <3> QED BY <2>1, SubSeqOfAppend
  <2> HIDE DEF m, e, longer
  <2> QED BY <2>2, <2>3, <2>4, Zenon
<1>6. \A l : EventsIn(l) = Chosen(AllOf(l), SayingAt(l))
  <2> TAKE l
  <2> DEFINE said == [n \in DOMAIN Blanks(l) |-> Said(Block(l, n))]
  <2>1. DOMAIN said = DOMAIN Blanks(l) /\ \A n \in DOMAIN said : said[n] = SaidAt(l, n)
    OBVIOUS
  <2>2. EventsIn(l) = Chosen([n \in DOMAIN said |-> EventOf(said[n])],
                             {n \in DOMAIN said : said[n] # NoFields})
    BY DEF EventsIn
  <2>3. [n \in DOMAIN said |-> EventOf(said[n])] = AllOf(l)
    <3> HIDE DEF said, SaidAt
    <3> QED BY <2>1
  <2>4. {n \in DOMAIN said : said[n] # NoFields} = SayingAt(l)
    <3> HIDE DEF said, SaidAt
    <3> QED BY <2>1
  <2> HIDE DEF said, AllOf, SayingAt
  <2> QED BY <2>2, <2>3, <2>4
<1>7. EventsIn(<<>>) = <<>>
  <2>1. AllOf(<<>>) = <<>>
    <3>1. DOMAIN Blanks(<<>>) = {}
      BY <1>2
    <3> HIDE DEF SaidAt
    <3> QED BY <3>1
  <2>2. \A x : Chosen(<<>>, x) = <<>>
    BY EmptySeq, ChosenType
  <2> QED BY <1>6, <2>1, <2>2, Zenon
<1>8. CASE line # <<>>
  <2>1. then = now
    BY <1>2, <1>8 DEF BlanksGrow
  <2>2. DOMAIN then = 1..K /\ \A n \in 1..K : SaidAt(longer, n) = SaidAt(lines, n)
    <3>1. DOMAIN then = 1..K
      BY <1>3, <2>1
    <3>2. \A n \in 1..K : SaidAt(longer, n) = SaidAt(lines, n)
      BY <1>5
    <3> QED BY <3>1, <3>2
  <2>3. AllOf(longer) = AllOf(lines) /\ SayingAt(longer) = SayingAt(lines)
    <3> HIDE DEF SaidAt
    <3> QED BY <1>3, <2>2
  <2>4. EventsIn(longer) = EventsIn(lines)
    <3> HIDE DEF AllOf, SayingAt
    <3> QED BY <1>6, <2>3
  <2> QED BY <1>7, <1>8, <2>4 DEF EventsGrow
<1>9. CASE line = <<>>
  <2> DEFINE s == AllOf(lines)
             open == Said(OpenLines(lines))
             c == EventOf(open)
             E == {EventOf(SaidAt(longer, n)) : n \in 1..(K + 1)}
             at == SayingAt(lines)
             more == SayingAt(longer)
  <2>1. Len(then) = K + 1 /\ DOMAIN then = 1..(K + 1) /\ then[K + 1] = N + 1
    <3>1. then = Append(now, N + 1)
      BY <1>2, <1>9 DEF BlanksGrow
    <3>2. now \in Seq(Nat) /\ N + 1 \in Nat
      BY <1>1, <1>2
    <3> HIDE DEF now, then
    <3> QED BY <3>1, <3>2, AppendProperties, LenProperties
  <2>2. Block(longer, K + 1) = OpenLines(lines)
    <3> DEFINE m == LastBlank(lines) + 1
    <3>1. m = IF K + 1 = 1 THEN 1 ELSE then[K + 1 - 1] + 1
      <4>1. now = <<>> <=> K = 0
        <5> HIDE DEF now
        <5> QED BY <1>2, EmptySeq
      <4>2. K # 0 => then[K] = now[K] /\ K + 1 - 1 = K
        BY <1>3, <1>4
      <4>3. LastBlank(lines) = IF now = <<>> THEN 0 ELSE now[K]
        BY DEF LastBlank
      <4> HIDE DEF now, then
      <4> QED BY <1>3, <4>1, <4>2, <4>3
    <3> DEFINE Lo(k) == IF k = 1 THEN 1 ELSE then[k - 1] + 1
               Hi(k) == then[k] - 1
    <3>2. \A k : Block(longer, k) = SubSeq(longer, Lo(k), Hi(k))
      BY DEF Block
    <3>3. Block(longer, K + 1) = SubSeq(longer, m, N)
      <4>1. Lo(K + 1) = m
        BY <3>1
      <4>2. Hi(K + 1) = N
        <5> HIDE DEF then, K, N
        <5> QED BY <1>1, <2>1
      <4> HIDE DEF Lo, Hi, m, N, K, longer
      <4> QED BY <3>2, <4>1, <4>2
    <3>4. m \in 1..(N + 1) /\ N \in 0..N
      BY <1>1, <1>2
    <3>5. SubSeq(longer, m, N) = SubSeq(lines, m, N)
      <4> HIDE DEF m
      <4> QED BY <3>4, SubSeqOfAppend
    <3> QED BY <3>3, <3>5 DEF OpenLines
  <2>3. /\ \A n \in 1..K : SaidAt(longer, n) = SaidAt(lines, n)
        /\ SaidAt(longer, K + 1) = open
    BY <1>5, <2>2
  <2>4. s = [n \in 1..K |-> EventOf(SaidAt(lines, n))]
    <3> HIDE DEF now, SaidAt
    <3> QED BY <1>3 DEF now
  <2>5. \A n \in 1..K : EventOf(SaidAt(lines, n)) \in E
    <3>1. \A n \in 1..K : n \in 1..(K + 1)
      BY <1>3
    <3> HIDE DEF SaidAt, K
    <3> QED BY <2>3, <3>1
  <2>6. s \in Seq(E) /\ Len(s) = K /\ \A n \in 1..K : s[n] = EventOf(SaidAt(lines, n))
    <3>1. s \in Seq(E)
      <4> HIDE DEF s, SaidAt, E, K
      <4> QED BY <1>3, <2>4, <2>5, IsASeq
    <3> HIDE DEF s, SaidAt, E, K
    <3> QED BY <1>3, <2>4, <3>1
  <2>7. c \in E
    <3>1. K + 1 \in 1..(K + 1)
      BY <1>3
    <3> HIDE DEF SaidAt, K
    <3> QED BY <2>3, <3>1
  <2>8. AllOf(longer) = Append(s, c)
    <3> DEFINE a == AllOf(longer)
               b == Append(s, c)
    <3>1. b \in Seq(E) /\ Len(b) = K + 1 /\ b[K + 1] = c /\ \A n \in 1..K : b[n] = s[n]
      <4> HIDE DEF s, c, E, K
      <4> QED BY <2>6, <2>7, AppendProperties
    <3>2. a = [n \in 1..(K + 1) |-> EventOf(SaidAt(longer, n))]
      BY <2>1
    <3>3. a \in Seq(E) /\ Len(a) = K + 1 /\ \A n \in 1..(K + 1) : a[n] = EventOf(SaidAt(longer, n))
      <4>1. K + 1 \in Nat /\ \A n \in 1..(K + 1) : EventOf(SaidAt(longer, n)) \in E
        BY <1>3
      <4>2. a \in Seq(E)
        <5> HIDE DEF a, SaidAt, E, K
        <5> QED BY <3>2, <4>1, IsASeq
      <4> HIDE DEF a, SaidAt, E, K
      <4> QED BY <3>2, <4>1, <4>2
    <3>4. \A n \in 1..(K + 1) : a[n] = b[n]
      <4> SUFFICES ASSUME NEW n \in 1..(K + 1) PROVE a[n] = b[n]
        OBVIOUS
      <4>1. CASE n = K + 1
        <5> HIDE DEF a, b, SaidAt, s, E, open, K
        <5> QED BY <2>3, <3>1, <3>3, <4>1 DEF c
      <4>2. CASE n \in 1..K
        <5> HIDE DEF a, b, SaidAt, s, c, E, K
        <5> QED BY <2>3, <2>6, <3>1, <3>3, <4>2
      <4>3. n = K + 1 \/ n \in 1..K
        BY <1>3
      <4> QED BY <4>1, <4>2, <4>3
    <3> HIDE DEF a, b, E, K
    <3>5. a = b
      BY <3>1, <3>3, <3>4, SeqEqual
    <3> QED BY <3>5 DEF a, b
  <2>9. SameUpTo(K, at, more) /\ (K + 1 \in more <=> open # NoFields)
    <3>1. DOMAIN now = 1..K /\ DOMAIN then = 1..(K + 1) /\ \A n \in 1..K : n \in 1..(K + 1)
      BY <1>3, <2>1
    <3>2. \A n \in 1..K : n \in at <=> n \in more
      <4> HIDE DEF SaidAt, now, then, K
      <4> QED BY <2>3, <3>1 DEF now, then
    <3>3. K + 1 \in 1..(K + 1)
      BY <1>3
    <3>4. K + 1 \in more <=> open # NoFields
      <4> HIDE DEF SaidAt, now, then, K, open
      <4> QED BY <2>3, <3>1, <3>3 DEF now, then
    <3> HIDE DEF at, more, K, open
    <3> QED BY <3>2, <3>4 DEF SameUpTo
  <2>10. Chosen(Append(s, c), more) = ChosenNext(Chosen(s, at), c, K + 1, more)
    <3> HIDE DEF s, c, at, more, E, K
    <3>1. OneMore(E, s, c, at, more)
      BY <2>6, <2>7, <2>9 DEF OneMore, ChosenTyped
    <3> QED BY <2>6, <3>1, ChosenAppend
  <2>11. EventsIn(longer) = ChosenNext(EventsIn(lines), c, K + 1, more)
    <3>1. EventsIn(longer) = Chosen(AllOf(longer), more) /\ EventsIn(lines) = Chosen(s, at)
      BY <1>6
    <3> HIDE DEF s, c, at, more, K, AllOf
    <3> QED BY <2>8, <2>10, <3>1
  <2> HIDE DEF s, at, more, E, K, now, then, AllOf, SayingAt, SaidAt
  <2>12. EventsIn(longer) = IF open # NoFields THEN Append(EventsIn(lines), c) ELSE EventsIn(lines)
    BY <2>9, <2>11 DEF ChosenNext
  <2> QED BY <1>7, <1>9, <2>12 DEF EventsGrow
<1> QED BY <1>8, <1>9

(* The lines as processLine sees them *)
Clean(lines) == [i \in DOMAIN lines |-> WithoutCR(lines[i])]

LEMMA CleanAppend ==
  ASSUME NEW A, NEW lines \in Seq(Seq(A)), NEW line \in Seq(A)
  PROVE  /\ Clean(lines) \in Seq(Seq(A))
         /\ Clean(<<>>) = <<>>
         /\ Clean(Append(lines, line)) = Append(Clean(lines), WithoutCR(line))
<1> DEFINE L == Seq(A)
           N == Len(lines)
           longer == Append(lines, line)
           s == Clean(lines)
           c == WithoutCR(line)
           a == Clean(longer)
           b == Append(s, c)
<1>0. lines \in Seq(L) /\ line \in L /\ \A x \in L : WithoutCR(x) \in L
  BY WithoutCRType
<1>1. N \in Nat /\ DOMAIN lines = 1..N /\ \A i \in 1..N : lines[i] \in L
  <2> HIDE DEF L
  <2> QED BY <1>0, LenProperties, ElementOfSeq
<1>2. /\ longer \in Seq(L) /\ Len(longer) = N + 1 /\ DOMAIN longer = 1..(N + 1)
      /\ longer[N + 1] = line /\ \A i \in 1..N : longer[i] = lines[i]
  <2> HIDE DEF L
  <2> QED BY <1>0, <1>1, AppendProperties, LenProperties
<1>3. s \in Seq(L) /\ Len(s) = N /\ \A i \in 1..N : s[i] = WithoutCR(lines[i])
  <2>1. s = [i \in 1..N |-> WithoutCR(lines[i])]
    BY <1>1 DEF Clean
  <2>2. \A i \in 1..N : WithoutCR(lines[i]) \in L
    <3> HIDE DEF L, N
    <3> QED BY <1>0, <1>1
  <2>3. s \in Seq(L)
    <3> HIDE DEF L, s, N
    <3> QED BY <1>1, <2>1, <2>2, IsASeq
  <2> HIDE DEF L, s, N
  <2> QED BY <1>1, <2>1, <2>3
<1>4. Clean(<<>>) = <<>>
  BY DEF Clean
<1>5. /\ b \in Seq(L) /\ Len(b) = N + 1 /\ b[N + 1] = c
      /\ \A i \in 1..N : b[i] = WithoutCR(lines[i])
  <2>1. c \in L
    BY <1>0
  <2> HIDE DEF L, s, c
  <2> QED BY <1>3, <2>1, AppendProperties
<1>6. a \in Seq(L) /\ Len(a) = N + 1 /\ \A i \in 1..(N + 1) : a[i] = WithoutCR(longer[i])
  <2>1. a = [i \in 1..(N + 1) |-> WithoutCR(longer[i])]
    BY <1>2 DEF Clean
  <2>2. \A i \in 1..(N + 1) : longer[i] \in L
    <3> HIDE DEF L, longer
    <3> QED BY <1>2, ElementOfSeq
  <2>3. \A i \in 1..(N + 1) : WithoutCR(longer[i]) \in L
    <3> HIDE DEF L, longer, N
    <3> QED BY <1>0, <2>2
  <2>4. N + 1 \in Nat
    BY <1>1
  <2>5. a \in Seq(L)
    <3> HIDE DEF L, a, N, longer
    <3> QED BY <2>1, <2>3, <2>4, IsASeq, SMTT(30)
  <2> HIDE DEF L, a, N, longer
  <2> QED BY <2>1, <2>4, <2>5
<1>7. \A i \in 1..(N + 1) : a[i] = b[i]
  <2> SUFFICES ASSUME NEW i \in 1..(N + 1) PROVE a[i] = b[i]
    OBVIOUS
  <2>1. CASE i = N + 1
    <3> HIDE DEF L, a, b, longer
    <3> QED BY <1>2, <1>5, <1>6, <2>1
  <2>2. CASE i \in 1..N
    <3> HIDE DEF L, a, b, longer
    <3> QED BY <1>2, <1>5, <1>6, <2>2
  <2>3. i = N + 1 \/ i \in 1..N
    BY <1>1
  <2> QED BY <2>1, <2>2, <2>3
<1>8. a = b
  <2> HIDE DEF L, a, b
  <2> QED BY <1>5, <1>6, <1>7, SeqEqual
<1>9. Clean(lines) \in Seq(Seq(A))
  <2> HIDE DEF s
  <2> QED BY <1>3 DEF s
<1> QED BY <1>4, <1>8, <1>9

(* The parser has said and still holds what the lines say *)
AtOnce(lines) ==
  Through(NoFields, lines) =
    [fields |-> Said(OpenLines(Clean(lines))), events |-> EventsIn(Clean(lines))]

LEMMA ThroughAtOnce ==
  ASSUME NEW A, "message" \in A, NEW lines \in Seq(Seq(A))
  PROVE  AtOnce(lines)
<1> DEFINE L == Seq(A)
           S == {t \in Seq(L) : AtOnce(t)}
<1>0. NoFields \in Fields(A)
  BY EmptySeq DEF NoFields, Fields
<1>1. <<>> \in S
  <2>1. <<>> \in L /\ <<>> \in Seq(L)
    BY EmptySeq
  <2>2. Clean(<<>>) = <<>> /\ OpenLines(<<>>) = <<>> /\ EventsIn(<<>>) = <<>>
    <3>1. Clean(<<>>) = <<>>
      BY DEF Clean
    <3> HIDE DEF L
    <3> QED BY <2>1, <3>1, OpenAppend, EventsAppend
  <2>3. Said(<<>>) = NoFields
    BY <2>1, SaidEmpty
  <2>4. Through(NoFields, <<>>) = [fields |-> NoFields, events |-> <<>>]
    <3>1. ThroughTyped(A, NoFields, <<>>)
      BY <1>0, <2>1 DEF ThroughTyped
    <3> QED BY <2>1, <3>1, ThroughStep
  <2>5. AtOnce(<<>>)
    BY <2>2, <2>3, <2>4 DEF AtOnce
  <2> QED BY <2>1, <2>5
<1>2. ASSUME NEW t \in Seq(L), NEW c \in L, t \in S PROVE Append(t, c) \in S
  <2> DEFINE u == Clean(t)
             l == WithoutCR(c)
             f == Said(OpenLines(u))
             sofar == EventsIn(u)
             more == Append(t, c)
             step == ProcessLine(f, l)
  <2>1. Through(NoFields, t) = [fields |-> f, events |-> sofar]
    BY <1>2 DEF AtOnce
  <2>2. Through(NoFields, more) = ThroughNext(Through(NoFields, t), c)
    <3>1. ThroughTyped(A, NoFields, t)
      BY <1>0 DEF ThroughTyped
    <3> QED BY <3>1, ThroughStep
  <2>3. ThroughNext([fields |-> f, events |-> sofar], c) =
          [fields |-> step.fields, events |-> sofar \o step.events]
    <3> HIDE DEF f, sofar
    <3> QED BY DEF ThroughNext
  <2>4. u \in Seq(L) /\ l \in L /\ Clean(more) = Append(u, l)
    BY CleanAppend, WithoutCRType
  <2>5. OpenGrow(u, l) /\ EventsGrow(u, l)
    <3> HIDE DEF L, u, l
    <3> QED BY <2>4, OpenAppend, EventsAppend
  <2>6. OpenLines(u) \in Seq(Spoken(A))
    <3> HIDE DEF u
    <3> QED BY <2>4, OpenSpoken
  <2>7. sofar \in Seq(Events(A))
    <3>1. Through(NoFields, t) \in Outcomes(A)
      BY <1>0, ThroughType
    <3> HIDE DEF f, sofar
    <3> QED BY <2>1, <3>1 DEF Outcomes
  <2>8. Said(OpenLines(Clean(more))) = step.fields /\ EventsIn(Clean(more)) = sofar \o step.events
    <3>1. CASE l = <<>>
      <4>1. step = EmitCurrent(f)
        <5> HIDE DEF f, l
        <5> QED BY <3>1 DEF ProcessLine
      <4>2. Said(OpenLines(Clean(more))) = step.fields
        <5>1. OpenLines(Append(u, l)) = <<>>
          BY <2>5, <3>1 DEF OpenGrow
        <5>2. Said(<<>>) = NoFields
          BY SaidEmpty
        <5>3. step.fields = NoFields
          <6> HIDE DEF f, step
          <6> QED BY <4>1 DEF EmitCurrent
        <5> QED BY <2>4, <5>1, <5>2, <5>3
      <4>3. CASE f = NoFields
        <5>1. step.events = <<>>
          <6> HIDE DEF f, step
          <6> QED BY <4>1, <4>3 DEF EmitCurrent
        <5>2. EventsIn(Append(u, l)) = sofar
          BY <2>5, <4>3 DEF EventsGrow
        <5>3. sofar \o <<>> = sofar
          <6> HIDE DEF sofar
          <6> QED BY <2>7, ConcatEmptySeq
        <5> HIDE DEF sofar, u, l, step, more, f
        <5> QED BY <2>4, <4>2, <5>1, <5>2, <5>3
      <4>4. CASE f # NoFields
        <5> DEFINE e == EventOf(f)
        <5>1. step.events = <<e>>
          <6> HIDE DEF f, step
          <6> QED BY <4>1, <4>4 DEF EmitCurrent, EventOf
        <5>2. EventsIn(Append(u, l)) = Append(sofar, e)
          BY <2>5, <3>1, <4>4 DEF EventsGrow
        <5>3. Append(sofar, e) = sofar \o <<e>>
          <6>1. e \in Events(A)
            <7>1. f \in Fields(A)
              BY <2>6, SaidType
            <7>2. <<"message">> \in Seq(A)
              OBVIOUS
            <7> HIDE DEF f
            <7> QED BY <7>1, <7>2 DEF EventOf, Events, Fields
          <6> HIDE DEF sofar, e
          <6> QED BY <2>7, <6>1, AppendIsConcat
        <5> HIDE DEF sofar, u, l, step, more, f, e
        <5> QED BY <2>4, <4>2, <5>1, <5>2, <5>3
      <4> QED BY <4>3, <4>4
    <3>2. CASE l # <<>>
      <4>1. l \in Spoken(A)
        BY <2>4, <3>2 DEF Spoken
      <4>2. OpenLines(Append(u, l)) = Append(OpenLines(u), l)
        BY <2>5, <3>2 DEF OpenGrow
      <4>3. Said(Append(OpenLines(u), l)) = step.fields
        <5> DEFINE o == OpenLines(u)
        <5>1. Said(Append(o, l)) = ProcessLine(Said(o), l).fields
          <6> HIDE DEF o, l
          <6> QED BY <2>6, <4>1, SaidAppend DEF o
        <5> QED BY <5>1
      <4>4. EventsIn(Append(u, l)) = sofar
        BY <2>5, <3>2 DEF EventsGrow
      <4>5. step.events = <<>>
        <5> HIDE DEF f, l
        <5> QED BY <3>2 DEF ProcessLine
      <4>6. sofar \o <<>> = sofar
        <5> HIDE DEF sofar
        <5> QED BY <2>7, ConcatEmptySeq
      <4> HIDE DEF sofar, u, l, step, more, f
      <4> QED BY <2>4, <4>2, <4>3, <4>4, <4>5, <4>6
    <3> QED BY <3>1, <3>2
  <2>9. AtOnce(more)
    <3>1. Through(NoFields, more) = [fields |-> step.fields, events |-> sofar \o step.events]
      <4> HIDE DEF sofar, step, more, f
      <4> QED BY <2>1, <2>2, <2>3
    <3> HIDE DEF sofar, step, more
    <3> QED BY <2>8, <3>1 DEF AtOnce
  <2>10. more \in Seq(L)
    <3> HIDE DEF L
    <3> QED BY AppendProperties
  <2> QED BY <2>9, <2>10
<1>3. Seq(L) \subseteq S
  <2> HIDE DEF S, L
  <2> QED BY <1>1, <1>2, SequenceInduction
<1> QED BY <1>3

LEMMA ParsedAtOnce ==
  ASSUME NEW A, "message" \in A, NEW text \in Seq(A)
  PROVE  Parsed(text).events = EventsOf(text)
<1> DEFINE lines == Cut(text).lines
<1>1. lines \in Seq(Seq(A))
  BY CutType DEF Pieces
<1>2. AtOnce(lines)
  <2> HIDE DEF lines
  <2> QED BY <1>1, ThroughAtOnce
<1>3. Parsed(text).events = Through(NoFields, lines).events
  BY DEF Parsed, Consume
<1>4. EventsOf(text) = EventsIn(Clean(lines))
  BY DEF EventsOf, Clean
<1> HIDE DEF lines
<1> QED BY <1>2, <1>3, <1>4 DEF AtOnce

-----------------------------------------------------------------------------
(* The machine *)

ParsedNext(before, c) ==
  IF c = LF
  THEN LET next == ProcessLine(before.fields, WithoutCR(before.rest))
       IN [fields |-> next.fields, events |-> before.events \o next.events, rest |-> <<>>]
  ELSE [fields |-> before.fields, events |-> before.events, rest |-> Append(before.rest, c)]

LEMMA ParsedStep ==
  ASSUME NEW A, "message" \in A, NEW text \in Seq(A), NEW c \in A
  PROVE  /\ Parsed(<<>>) = [fields |-> NoFields, events |-> <<>>, rest |-> <<>>]
         /\ Parsed(Append(text, c)) = ParsedNext(Parsed(text), c)
<1> DEFINE lines == Cut(text).lines
           rest == Cut(text).rest
           longer == Append(text, c)
           before == Through(NoFields, lines)
<1>1. /\ NoFields \in Fields(A) /\ lines \in Seq(Seq(A)) /\ rest \in Seq(A)
      /\ Parsed(text).rest = rest /\ Parsed(text).fields = before.fields
      /\ Parsed(text).events = before.events
  BY ParsedType
<1>2. \A t : Parsed(t) = [fields |-> Through(NoFields, Cut(t).lines).fields,
                          events |-> Through(NoFields, Cut(t).lines).events, rest |-> Cut(t).rest]
  BY DEF Parsed, Consume
<1>3. Parsed(<<>>) = [fields |-> NoFields, events |-> <<>>, rest |-> <<>>]
  <2>1. Cut(<<>>).lines = <<>> /\ Cut(<<>>).rest = <<>>
    BY CutType
  <2>2. ThroughTyped(A, NoFields, <<>>)
    BY <1>1, EmptySeq DEF ThroughTyped
  <2>3. Through(NoFields, <<>>) = [fields |-> NoFields, events |-> <<>>]
    BY <1>1, ThroughType
  <2> QED BY <1>2, <2>1, <2>3
<1>4. Cut(longer) = CutNext([lines |-> lines, rest |-> rest], c)
  <2>1. Cut(longer) = CutNext(Cut(text), c)
    BY CutStep
  <2>2. Cut(text) = [lines |-> lines, rest |-> rest]
    BY CutType DEF Pieces
  <2> HIDE DEF lines, rest
  <2> QED BY <2>1, <2>2
<1>5. CASE c = LF
  <2>1. Cut(longer).lines = Append(lines, rest) /\ Cut(longer).rest = <<>>
    <3> HIDE DEF lines, rest, longer
    <3> QED BY <1>4, <1>5 DEF CutNext
  <2>2. Through(NoFields, Append(lines, rest)) = ThroughNext(before, rest)
    <3>1. ThroughTyped(A, NoFields, lines)
      BY <1>1 DEF ThroughTyped
    <3>2. rest \in Seq(A)
      BY <1>1
    <3> HIDE DEF lines, rest
    <3> QED BY <3>1, <3>2, ThroughStep
  <2> DEFINE next == ProcessLine(before.fields, WithoutCR(rest))
  <2>3. ThroughNext(before, rest) = [fields |-> next.fields, events |-> before.events \o next.events]
    <3> HIDE DEF before, rest
    <3> QED BY DEF ThroughNext
  <2>4. Parsed(longer) = [fields |-> next.fields, events |-> before.events \o next.events, rest |-> <<>>]
    <3> DEFINE far == Through(NoFields, Cut(longer).lines)
    <3>1. Parsed(longer) = [fields |-> far.fields, events |-> far.events, rest |-> Cut(longer).rest]
      BY <1>2
    <3>2. far = [fields |-> next.fields, events |-> before.events \o next.events]
      <4> HIDE DEF before, lines, rest, next, longer
      <4> QED BY <2>1, <2>2, <2>3 DEF before
    <3> HIDE DEF before, lines, rest, next, longer, far
    <3> QED BY <2>1, <3>1, <3>2
  <2>5. ParsedNext(Parsed(text), c) =
          [fields |-> next.fields, events |-> before.events \o next.events, rest |-> <<>>]
    <3> HIDE DEF before, lines, rest
    <3> QED BY <1>1, <1>5 DEF ParsedNext
  <2> QED BY <1>3, <2>4, <2>5
<1>6. CASE c # LF
  <2>1. Cut(longer).lines = lines /\ Cut(longer).rest = Append(rest, c)
    <3> HIDE DEF lines, rest, longer
    <3> QED BY <1>4, <1>6 DEF CutNext
  <2>2. Parsed(longer) = [fields |-> before.fields, events |-> before.events, rest |-> Append(rest, c)]
    <3> HIDE DEF lines, rest, longer
    <3> QED BY <1>2, <2>1
  <2>3. ParsedNext(Parsed(text), c) =
          [fields |-> before.fields, events |-> before.events, rest |-> Append(rest, c)]
    <3> HIDE DEF before, lines, rest
    <3> QED BY <1>1, <1>6 DEF ParsedNext
  <2> QED BY <1>3, <2>2, <2>3
<1> QED BY <1>5, <1>6

(* Events that are heard in two parts are heard as one. *)
HeardOn(h, events, u, stops) ==
  Hear(h, events \o u, stops) = Hear(Hear(h, events, stops), u, stops)

LEMMA HearConcat ==
  ASSUME NEW A, NEW h \in Heard, NEW events \in Seq(A), NEW others \in Seq(A), NEW stops
  PROVE  /\ HeardOn(h, events, others, stops)
         /\ Hear(h, events, stops) \in Heard
         /\ Hear(h, <<>>, stops) = h
<1> DEFINE left == Hear(h, events, stops)
           S == {u \in Seq(A) : HeardOn(h, events, u, stops)}
<1>1. \A g \in Heard, u \in Seq(A), c \in A :
        /\ Hear(g, u, stops) \in Heard
        /\ Hear(g, Append(u, c), stops) = HearNext(Hear(g, u, stops), c, stops)
  <2> TAKE g \in Heard, u \in Seq(A), c \in A
  <2>1. HearTyped(A, g, u)
    BY DEF HearTyped
  <2> QED BY <2>1, HearStep
<1>2. \A g \in Heard : Hear(g, <<>>, stops) = g
  <2> TAKE g \in Heard
  <2> DEFINE none == <<>>
  <2>1. HearTyped(Nat, g, none) /\ Len(none) = 0
    BY EmptySeq DEF HearTyped
  <2>2. HearLoop(g, none, stops)
    <3> HIDE DEF none
    <3> QED BY <2>1, HearOfValues
  <2>3. Hear(g, none, stops) = HearOf(g, none, stops)[Len(none)]
    BY DEF Hear, HearOf
  <2> HIDE DEF none
  <2>4. Hear(g, none, stops) = g
    BY <2>1, <2>2, <2>3 DEF HearLoop
  <2> QED BY <2>4 DEF none
<1>3. left \in Heard
  <2>1. CASE events = <<>>
    BY <1>2, <2>1
  <2>2. CASE events # <<>>
    <3>1. PICK c : c \in A
      BY <2>2, EmptySeq, ElementOfSeq
    <3> QED BY <1>1, <3>1
  <2> QED BY <2>1, <2>2
<1>4. <<>> \in S
  <2>1. events \o <<>> = events /\ <<>> \in Seq(A)
    BY ConcatEmptySeq, EmptySeq
  <2>2. Hear(left, <<>>, stops) = left
    <3> HIDE DEF left
    <3> QED BY <1>2, <1>3
  <2> QED BY <2>1, <2>2 DEF HeardOn
<1>5. ASSUME NEW u \in Seq(A), NEW c \in A, u \in S PROVE Append(u, c) \in S
  <2>1. events \o Append(u, c) = Append(events \o u, c) /\ events \o u \in Seq(A)
    BY ConcatAppend, ConcatProperties
  <2>2. Hear(h, Append(events \o u, c), stops) = HearNext(Hear(h, events \o u, stops), c, stops)
    BY <1>1, <2>1
  <2>3. Hear(left, Append(u, c), stops) = HearNext(Hear(left, u, stops), c, stops)
    <3> HIDE DEF left
    <3> QED BY <1>1, <1>3
  <2>4. Hear(h, events \o u, stops) = Hear(left, u, stops)
    BY <1>5 DEF HeardOn
  <2>5. Hear(h, events \o Append(u, c), stops) = Hear(left, Append(u, c), stops)
    <3> HIDE DEF left
    <3> QED BY <2>1, <2>2, <2>3, <2>4
  <2>6. Append(u, c) \in Seq(A)
    BY AppendProperties
  <2> QED BY <2>5, <2>6 DEF HeardOn
<1>6. Seq(A) \subseteq S
  <2> HIDE DEF S
  <2> QED BY <1>4, <1>5, SequenceInduction
<1> QED BY <1>2, <1>3, <1>6

LEMMA Arrives ==
  ASSUME NEW A, NEW s \in Seq(A), NEW n \in 0..Len(s), NEW m \in 0..Len(s), n <= m
  PROVE  /\ SubSeq(s, 1, n) \in Seq(A) /\ Len(SubSeq(s, 1, n)) = n
         /\ SubSeq(s, n + 1, m) \in Seq(A)
         /\ SubSeq(s, 1, m) = SubSeq(s, 1, n) \o SubSeq(s, n + 1, m)
<1> DEFINE a == SubSeq(s, 1, n)
           b == SubSeq(s, n + 1, m)
           d == SubSeq(s, 1, m)
           k == n + 1
<1>1. Len(s) \in Nat /\ \A i \in 1..Len(s) : s[i] \in A
  BY LenProperties, ElementOfSeq
<1>2. a \in Seq(A) /\ Len(a) = n /\ \A i \in 1..n : a[i] = s[i]
  <2>1. \A i \in 1..n : s[i] \in A
    BY <1>1
  <2>2. /\ a \in Seq(A) /\ Len(a) = (IF 1 <= n THEN n - 1 + 1 ELSE 0)
        /\ \A i \in 1..n - 1 + 1 : a[i] = s[1 + i - 1]
    BY <2>1, SubSeqProperties
  <2> HIDE DEF a
  <2> QED BY <1>1, <2>2
<1>3. d \in Seq(A) /\ Len(d) = m /\ \A i \in 1..m : d[i] = s[i]
  <2>1. \A i \in 1..m : s[i] \in A
    BY <1>1
  <2>2. /\ d \in Seq(A) /\ Len(d) = (IF 1 <= m THEN m - 1 + 1 ELSE 0)
        /\ \A i \in 1..m - 1 + 1 : d[i] = s[1 + i - 1]
    BY <2>1, SubSeqProperties
  <2> HIDE DEF d
  <2> QED BY <1>1, <2>2
<1>4. b \in Seq(A) /\ Len(b) = m - n /\ \A i \in 1..m - n : b[i] = s[n + i]
  <2>1. k \in Int /\ m \in Int /\ \A i \in k..m : s[i] \in A
    BY <1>1
  <2> HIDE DEF k
  <2>2. /\ SubSeq(s, k, m) \in Seq(A) /\ Len(SubSeq(s, k, m)) = (IF k <= m THEN m - k + 1 ELSE 0)
        /\ \A i \in 1..m - k + 1 : SubSeq(s, k, m)[i] = s[k + i - 1]
    BY <2>1, SubSeqProperties
  <2>3. b = SubSeq(s, k, m)
    BY DEF k
  <2>4. m - k + 1 = m - n /\ \A i \in 1..m - n : k + i - 1 = n + i
    BY <1>1 DEF k
  <2>5. Len(b) = m - n
    <3> HIDE DEF b
    <3> QED BY <1>1, <2>2, <2>3, <2>4 DEF k
  <2> HIDE DEF b
  <2> QED BY <2>2, <2>3, <2>4, <2>5
<1>5. /\ a \o b \in Seq(A) /\ Len(a \o b) = m /\ \A i \in 1..m : (a \o b)[i] = s[i]
  <2> HIDE DEF a, b
  <2>1. /\ a \o b \in Seq(A) /\ Len(a \o b) = Len(a) + Len(b)
        /\ \A i \in 1..Len(a) + Len(b) : (a \o b)[i] = IF i <= Len(a) THEN a[i] ELSE b[i - Len(a)]
    BY <1>2, <1>4, ConcatProperties
  <2>2. \A i \in 1..m : (a \o b)[i] = s[i]
    <3> TAKE i \in 1..m
    <3>1. (a \o b)[i] = IF i <= n THEN a[i] ELSE b[i - n]
      BY <1>1, <1>2, <1>4, <2>1, SMTT(30)
    <3>2. CASE i <= n
      BY <1>2, <3>1, <3>2
    <3>3. CASE i > n
      <4> DEFINE j == i - n
      <4>1. j \in 1..m - n /\ n + j = i /\ ~(i <= n)
        BY <1>1, <3>3
      <4>2. b[j] = s[n + j] /\ (a \o b)[i] = b[j]
        <5>1. (a \o b)[i] = b[j]
          BY <3>1, <4>1
        <5> HIDE DEF j
        <5> QED BY <1>4, <4>1, <5>1
      <4> HIDE DEF j
      <4> QED BY <4>1, <4>2
    <3>4. i <= n \/ i > n
      BY <1>1
    <3> QED BY <3>2, <3>3, <3>4
  <2> QED BY <1>1, <1>2, <1>4, <2>1, <2>2
<1>6. d = a \o b
  <2> DEFINE e == a \o b
  <2>1. \A i \in 1..Len(d) : d[i] = e[i]
    <3> HIDE DEF a, b, d
    <3> QED BY <1>3, <1>5
  <2>2. e \in Seq(A) /\ Len(e) = Len(d)
    BY <1>3, <1>5
  <2> HIDE DEF a, b, d, e
  <2>3. d = e
    BY <1>3, <2>1, <2>2, SeqEqual
  <2> QED BY <2>3 DEF e
<1> QED BY <1>2, <1>4, <1>6

(* What the backend sends: a terminal event is the last one *)
EventNames == {"conversation", "token", "heartbeat", "completed", "error"}
AnswerOK(answer) ==
  /\ answer \in Seq(EventNames)
  /\ \A i \in 1..(Len(answer) - 1) : answer[i] \notin {"completed", "error"}

(* A set of symbols has those of the bodies, and those of an answer. *)
Symbols == {"message", "event:", "data:", "{", "}", LF} \cup EventNames
TextsOK(A) ==
  /\ Symbols \subseteq A
  /\ Texts \subseteq Seq(A)
  /\ \A answer \in Answers : AnswerOK(answer)

Unheard == [tokens |-> 0, terminal |-> "none"]
Arrived == SubSeq(body, 1, read)
Held(p) == Flushed(p.rest, p.fields).events

(* The parser has what it would have of the text that arrived, read at     *)
(* once, and the page has heard that.                                      *)
SseIInv(A) ==
  /\ body \in Seq(A)
  /\ frames = <<>> \/ (frames \in Answers /\ body = TextOf(frames))
  /\ read \in 0..Len(body)
  /\ closed \in BOOLEAN
  /\ ~closed =>
       /\ buffer = Parsed(Arrived).rest /\ fields = Parsed(Arrived).fields
       /\ emitted = Parsed(Arrived).events
       /\ heard = Hear(Unheard, Parsed(Arrived).events, TRUE)
  /\ closed =>
       /\ emitted = Parsed(Arrived \o <<LF, LF>>).events
       /\ heard = Hear(Hear(Unheard, Parsed(Arrived).events, TRUE), Held(Parsed(Arrived)), FALSE)

LEMMA UnheardType == Unheard \in Heard
BY DEF Unheard, Heard

LEMMA SsePush ==
  ASSUME NEW CONSTANT A, TextsOK(A), SseIInv(A), NEW n \in 1..Len(body), PushChunk(n)
  PROVE  SseIInv(A)'
<1> DEFINE text == SubSeq(body, 1, read)
           chunk == SubSeq(body, read + 1, read + n)
           whole == SubSeq(body, 1, read + n)
           p == Parsed(text)
           next == Pushed(buffer, fields, chunk)
<1>1. /\ body \in Seq(A) /\ read \in 0..Len(body) /\ ~closed /\ read + n <= Len(body)
      /\ read' = read + n /\ body' = body /\ frames' = frames /\ closed' = closed
      /\ buffer' = next.rest /\ fields' = next.fields /\ emitted' = emitted \o next.events
      /\ heard' = Hear(heard, next.events, TRUE)
  BY DEF SseIInv, PushChunk
<1>2. /\ buffer = p.rest /\ fields = p.fields /\ emitted = p.events
      /\ heard = Hear(Unheard, p.events, TRUE)
  BY <1>1 DEF SseIInv, Arrived
<1>3. read + n \in 0..Len(body)
  BY <1>1, LenProperties
<1>4. /\ text \in Seq(A) /\ chunk \in Seq(A) /\ whole = text \o chunk
  <2> DEFINE m == read + n
  <2>1. m \in 0..Len(body) /\ read <= m
    BY <1>1, <1>3, LenProperties
  <2> HIDE DEF m
  <2>2. /\ SubSeq(body, 1, read) \in Seq(A) /\ SubSeq(body, read + 1, m) \in Seq(A)
        /\ SubSeq(body, 1, m) = SubSeq(body, 1, read) \o SubSeq(body, read + 1, m)
    BY <1>1, <2>1, Arrives
  <2> QED BY <2>2 DEF m
<1>5. Parsed(text \o chunk) =
        [fields |-> next.fields, events |-> p.events \o next.events, rest |-> next.rest]
  <2>1. "message" \in A
    BY DEF TextsOK, Symbols
  <2>2. LET on == Pushed(p.rest, p.fields, chunk)
        IN Parsed(text \o chunk) =
             [fields |-> on.fields, events |-> p.events \o on.events, rest |-> on.rest]
    <3> HIDE DEF text, chunk
    <3> QED BY <1>4, <2>1, PushContinues DEF p
  <2> HIDE DEF text, chunk, p
  <2> QED BY <1>2, <2>2
<1>6. /\ Parsed(whole).rest = next.rest /\ Parsed(whole).fields = next.fields
      /\ Parsed(whole).events = p.events \o next.events
  <2>1. Parsed(whole) = Parsed(text \o chunk)
    <3> HIDE DEF whole, text, chunk
    <3> QED BY <1>4
  <2> DEFINE q == Parsed(whole)
             f == next.fields
             e == p.events \o next.events
             r == next.rest
  <2>2. q = [fields |-> f, events |-> e, rest |-> r]
    <3> HIDE DEF whole, text, chunk, p, next
    <3> QED BY <1>5, <2>1, Zenon
  <2>3. q.rest = r /\ q.fields = f /\ q.events = e
    <3> HIDE DEF q, f, e, r
    <3> QED BY <2>2
  <2> QED BY <2>3
<1>7. p.events \in Seq(Events(A)) /\ next.events \in Seq(Events(A))
  <2>1. "message" \in A
    BY DEF TextsOK, Symbols
  <2>2. p.events \in Seq(Events(A)) /\ p.fields \in Fields(A) /\ p.rest \in Seq(A)
    <3>1. /\ Parsed(text).events \in Seq(Events(A)) /\ Parsed(text).fields \in Fields(A)
          /\ Cut(text).rest \in Seq(A) /\ Parsed(text).rest = Cut(text).rest
      <4> HIDE DEF text
      <4> QED BY <1>4, <2>1, ParsedType
    <3> QED BY <3>1
  <2>3. p.rest \o chunk \in Seq(A)
    <3> HIDE DEF chunk, p
    <3> QED BY <1>4, <2>2, ConcatProperties
  <2>4. next = Consume(p.fields, p.rest \o chunk)
    BY <1>2 DEF Pushed
  <2> DEFINE t == p.rest \o chunk
             lines == Cut(t).lines
  <2>5. lines \in Seq(Seq(A))
    <3> HIDE DEF t
    <3> QED BY <2>3, CutType DEF Pieces, t
  <2>6. Through(p.fields, lines).events \in Seq(Events(A))
    <3> HIDE DEF lines, p
    <3> QED BY <2>1, <2>2, <2>5, ThroughType
  <2>7. Consume(p.fields, t).events = Through(p.fields, lines).events
    BY DEF Consume
  <2> HIDE DEF t, lines, p, next
  <2> QED BY <2>2, <2>4, <2>6, <2>7 DEF t
<1>8. Hear(heard, next.events, TRUE) = Hear(Unheard, p.events \o next.events, TRUE)
  <2>1. HeardOn(Unheard, p.events, next.events, TRUE)
    <3> HIDE DEF p, next
    <3> QED BY <1>7, UnheardType, HearConcat
  <2> HIDE DEF p, next
  <2> QED BY <1>2, <2>1 DEF HeardOn
<1>9. Arrived' = whole
  BY <1>1 DEF Arrived
<1>10. /\ buffer' = Parsed(Arrived)'.rest /\ fields' = Parsed(Arrived)'.fields
       /\ emitted' = Parsed(Arrived)'.events
       /\ heard' = Hear(Unheard, Parsed(Arrived)'.events, TRUE)
  <2>1. Parsed(Arrived)' = Parsed(whole)
    BY <1>9 DEF Parsed, Consume
  <2> HIDE DEF whole, p, next
  <2> QED BY <1>1, <1>2, <1>6, <1>8, <2>1
<1> QED
  <2> HIDE DEF whole, p, next, text, chunk
  <2>1. frames' = <<>> \/ (frames' \in Answers /\ body' = TextOf(frames)')
    BY <1>1 DEF SseIInv, TextOf
  <2> QED BY <1>1, <1>3, <1>10, <2>1 DEF SseIInv

(* The symbols of an answer *)
SymbolAt(name, r) ==
  CASE r = 1 -> "event:" [] r = 2 -> name [] r = 3 -> LF [] r = 4 -> "data:"
    [] r = 5 -> "{" [] r = 6 -> "}" [] r = 7 -> LF [] OTHER -> LF

LEMMA FrameSymbols ==
  ASSUME NEW name, NEW r \in 1..8
  PROVE  Frame(name)[r] = SymbolAt(name, r)
<1> DEFINE a == <<"event:", name, LF, "data:">>
           c == <<LF, LF>>
           A == {"event:", name, LF, "data:", "{", "}"}
           b == Whole
<1>1. a \in Seq(A) /\ b \in Seq(A) /\ c \in Seq(A) /\ Len(a) = 4 /\ Len(b) = 2 /\ Len(c) = 2
  BY DEF Whole
<1>2. /\ a[1] = "event:" /\ a[2] = name /\ a[3] = LF /\ a[4] = "data:"
      /\ b[1] = "{" /\ b[2] = "}" /\ c[1] = LF /\ c[2] = LF
  BY DEF Whole
<1>3. Frame(name) = (a \o b) \o c
  BY DEF Frame
<1>4. /\ a \o b \in Seq(A) /\ Len(a \o b) = 6
      /\ \A i \in 1..6 : (a \o b)[i] = IF i <= 4 THEN a[i] ELSE b[i - 4]
  <2> HIDE DEF a, b, c, A
  <2>1. /\ a \o b \in Seq(A) /\ Len(a \o b) = Len(a) + Len(b)
        /\ \A i \in 1..Len(a) + Len(b) : (a \o b)[i] = IF i <= Len(a) THEN a[i] ELSE b[i - Len(a)]
    BY <1>1, ConcatProperties
  <2> QED BY <1>1, <2>1
<1> DEFINE d == a \o b
<1>5. \A i \in 1..6 : (d \o c)[i] = d[i]
  <2>0. d \in Seq(A) /\ Len(d) = 6
    BY <1>4
  <2> HIDE DEF a, b, c, A, d
  <2>1. \A i \in 1..Len(d) + Len(c) : (d \o c)[i] = IF i <= Len(d) THEN d[i] ELSE c[i - Len(d)]
    BY <1>1, <2>0, ConcatProperties
  <2> TAKE i \in 1..6
  <2>2. i \in 1..Len(d) + Len(c) /\ i <= Len(d)
    BY <1>1, <2>0
  <2> QED BY <2>1, <2>2
<1>6. \A i \in 1..2 : (d \o c)[6 + i] = c[i]
  <2>0. d \in Seq(A) /\ Len(d) = 6
    BY <1>4
  <2> HIDE DEF a, b, c, A, d
  <2>1. \A i \in 1..Len(d) + Len(c) : (d \o c)[i] = IF i <= Len(d) THEN d[i] ELSE c[i - Len(d)]
    BY <1>1, <2>0, ConcatProperties
  <2> TAKE i \in 1..2
  <2> DEFINE k == 6 + i
  <2>2. k \in 1..Len(d) + Len(c) /\ ~(k <= Len(d)) /\ k - Len(d) = i
    BY <1>1, <2>0
  <2>3. (d \o c)[k] = c[k - Len(d)]
    <3> HIDE DEF k
    <3> QED BY <2>1, <2>2
  <2> HIDE DEF k
  <2>4. (d \o c)[k] = c[i]
    BY <2>2, <2>3
  <2> QED BY <2>4 DEF k
<1>7. /\ d[1] = a[1] /\ d[2] = a[2] /\ d[3] = a[3] /\ d[4] = a[4]
      /\ d[5] = b[1] /\ d[6] = b[2]
  <2> HIDE DEF a, b, c, A
  <2> QED BY <1>4, SMTT(30)
<1>8. Frame(name) = d \o c
  BY <1>3
<1>9. (d \o c)[7] = c[1] /\ (d \o c)[8] = c[2]
  <2>1. 1 \in 1..2 /\ 2 \in 1..2
    OBVIOUS
  <2>2. (d \o c)[6 + 1] = c[1] /\ (d \o c)[6 + 2] = c[2]
    <3> HIDE DEF c, d
    <3> QED BY <1>6, <2>1, Zenon
  <2>3. 6 + 1 = 7 /\ 6 + 2 = 8
    OBVIOUS
  <2> HIDE DEF c, d
  <2> QED BY <2>2, <2>3
<1> DEFINE e == d \o c
<1>10. /\ e[1] = "event:" /\ e[2] = name /\ e[3] = LF /\ e[4] = "data:"
       /\ e[5] = "{" /\ e[6] = "}" /\ e[7] = LF /\ e[8] = LF
  <2>1. e[1] = d[1] /\ e[2] = d[2] /\ e[3] = d[3] /\ e[4] = d[4] /\ e[5] = d[5] /\ e[6] = d[6]
    <3>1. \A i \in 1..6 : e[i] = d[i]
      BY <1>5
    <3> HIDE DEF a, b, c, d, e, A
    <3> QED BY <3>1
  <2> HIDE DEF a, b, c, d
  <2> QED BY <1>2, <1>7, <1>9, <2>1
<1>11. r = 1 \/ r = 2 \/ r = 3 \/ r = 4 \/ r = 5 \/ r = 6 \/ r = 7 \/ r = 8
  OBVIOUS
<1>12. e[r] = SymbolAt(name, r)
  <2> HIDE DEF e
  <2> QED BY <1>10, <1>11 DEF SymbolAt
<1> HIDE DEF a, b, c, A, d
<1> QED BY <1>8, <1>12

LEMMA TextOfAt ==
  ASSUME NEW answer, AnswerOK(answer)
  PROVE  /\ Len(answer) \in Nat /\ \A i \in 1..Len(answer) : answer[i] \in EventNames
         /\ TextOf(answer) \in Seq(Symbols) /\ Len(TextOf(answer)) = 8 * Len(answer)
         /\ \A q \in 0..(Len(answer) - 1), r \in 1..8 :
              /\ 8 * q + r \in 1..(8 * Len(answer))
              /\ TextOf(answer)[8 * q + r] = SymbolAt(answer[q + 1], r)
<1> DEFINE N == Len(answer)
<1>1. N \in Nat /\ \A i \in 1..N : answer[i] \in EventNames
  BY LenProperties, ElementOfSeq DEF AnswerOK
<1>2. ASSUME NEW i \in 1..8 * N
      PROVE  /\ 1 + (i - 1) \div 8 \in 1..N /\ 1 + ((i - 1) % 8) \in 1..8
  BY <1>1
<1>3. \A name \in EventNames, r \in 1..8 : SymbolAt(name, r) \in Symbols
  BY DEF SymbolAt, Symbols
<1>4. ASSUME NEW i \in 1..8 * N
      PROVE  Frame(answer[1 + (i - 1) \div 8])[1 + ((i - 1) % 8)] \in Symbols
  <2> DEFINE q == 1 + (i - 1) \div 8
             r == 1 + ((i - 1) % 8)
  <2>1. answer[q] \in EventNames /\ r \in 1..8
    BY <1>1, <1>2
  <2> HIDE DEF q, r
  <2>2. Frame(answer[q])[r] \in Symbols
    BY <1>3, <2>1, FrameSymbols
  <2> QED BY <2>2 DEF q, r
<1>5. 8 * N \in Nat
  BY <1>1
<1>6. TextOf(answer) \in Seq(Symbols) /\ Len(TextOf(answer)) = 8 * N
  <2> DEFINE M == 8 * N
             E(i) == Frame(answer[1 + (i - 1) \div 8])[1 + ((i - 1) % 8)]
  <2>1. TextOf(answer) = [i \in 1..M |-> E(i)]
    BY DEF TextOf
  <2>2. \A i \in 1..M : E(i) \in Symbols
    BY <1>4
  <2> HIDE DEF E, M
  <2>3. M \in Nat
    BY <1>5 DEF M
  <2>4. TextOf(answer) \in Seq(Symbols)
    BY <2>1, <2>2, <2>3, IsASeq
  <2>5. Len(TextOf(answer)) = M
    BY <2>1, <2>3, <2>4
  <2> QED BY <2>4, <2>5 DEF M
<1>7. ASSUME NEW q \in 0..(N - 1), NEW r \in 1..8
      PROVE  /\ 8 * q + r \in 1..8 * N
             /\ TextOf(answer)[8 * q + r] = SymbolAt(answer[q + 1], r)
  <2> DEFINE i == 8 * q + r
  <2>1. i \in 1..8 * N /\ 1 + (i - 1) \div 8 = q + 1 /\ 1 + ((i - 1) % 8) = r
    BY <1>1
  <2>2. TextOf(answer)[i] = Frame(answer[1 + (i - 1) \div 8])[1 + ((i - 1) % 8)]
    <3> HIDE DEF i
    <3> QED BY <2>1 DEF TextOf
  <2>3. TextOf(answer)[i] = Frame(answer[q + 1])[r]
    <3> HIDE DEF i
    <3> QED BY <2>1, <2>2
  <2>4. Frame(answer[q + 1])[r] = SymbolAt(answer[q + 1], r)
    BY FrameSymbols
  <2> HIDE DEF i
  <2>5. TextOf(answer)[i] = SymbolAt(answer[q + 1], r)
    BY <2>3, <2>4
  <2> QED BY <2>1, <2>5 DEF i
<1> QED BY <1>1, <1>6, <1>7

LEMMA SseStart ==
  ASSUME NEW CONSTANT A, TextsOK(A), SseInit
  PROVE  SseIInv(A)
<1>1. body \in Seq(A) /\ (frames = <<>> \/ (frames \in Answers /\ body = TextOf(frames)))
  <2>1. CASE frames = <<>> /\ body \in Texts
    BY <2>1 DEF TextsOK
  <2>2. CASE frames \in Answers /\ body = TextOf(frames)
    <3>1. TextOf(frames) \in Seq(Symbols)
      BY <2>2, TextOfAt DEF TextsOK
    <3>2. Symbols \subseteq A
      BY DEF TextsOK
    <3> QED BY <2>2, <3>1, <3>2
  <2> QED BY <2>1, <2>2 DEF SseInit
<1>2. /\ read = 0 /\ buffer = <<>> /\ fields = NoFields /\ emitted = <<>>
      /\ heard = Unheard /\ closed = FALSE
  BY DEF SseInit, Unheard
<1>3. read \in 0..Len(body)
  BY <1>1, <1>2, LenProperties
<1>4. Arrived = <<>>
  BY <1>2 DEF Arrived
<1>5. Parsed(<<>>) = [fields |-> NoFields, events |-> <<>>, rest |-> <<>>]
  <2>1. "message" \in A /\ <<>> \in Seq(A)
    BY EmptySeq DEF TextsOK, Symbols
  <2> QED BY <2>1, ParsedStep
<1>6. Hear(Unheard, <<>>, TRUE) = Unheard
  <2>1. <<>> \in Seq(Nat)
    BY EmptySeq
  <2> QED BY <2>1, UnheardType, HearConcat
<1> DEFINE p == Parsed(Arrived)
<1>7. p = [fields |-> NoFields, events |-> <<>>, rest |-> <<>>]
  BY <1>4, <1>5
<1>8. buffer = p.rest /\ fields = p.fields /\ emitted = p.events /\ p.events = <<>>
  <2> HIDE DEF p
  <2> QED BY <1>2, <1>7
<1>9. heard = Hear(Unheard, p.events, TRUE)
  <2> HIDE DEF p
  <2> QED BY <1>2, <1>6, <1>8
<1> QED BY <1>1, <1>2, <1>3, <1>8, <1>9 DEF SseIInv

LEMMA SseClose ==
  ASSUME NEW CONSTANT A, TextsOK(A), SseIInv(A), CloseBody
  PROVE  SseIInv(A)'
<1> DEFINE text == SubSeq(body, 1, read)
           p == Parsed(text)
           next == Flushed(buffer, fields)
<1>1. /\ body \in Seq(A) /\ read \in 0..Len(body) /\ ~closed
      /\ read' = read /\ body' = body /\ frames' = frames /\ closed' = TRUE
      /\ emitted' = emitted \o next.events
      /\ heard' = Hear(heard, next.events, FALSE)
  BY DEF SseIInv, CloseBody
<1>2. /\ buffer = p.rest /\ fields = p.fields /\ emitted = p.events
      /\ heard = Hear(Unheard, p.events, TRUE)
  BY <1>1 DEF SseIInv, Arrived
<1>3. text \in Seq(A)
  BY <1>1, Arrives, LenProperties
<1>4. "message" \in A /\ LF \in A
  BY DEF TextsOK, Symbols
<1>5. Parsed(text \o <<LF, LF>>).events = p.events \o Flushed(p.rest, p.fields).events
  <2> HIDE DEF text
  <2> QED BY <1>3, <1>4, FlushEnds
<1>6. Arrived' = text /\ Parsed(Arrived)' = p /\ Parsed(Arrived \o <<LF, LF>>)' = Parsed(text \o <<LF, LF>>)
  BY <1>1 DEF Arrived, Parsed, Consume
<1>7. Held(Parsed(Arrived))' = next.events
  <2>1. Held(Parsed(Arrived))' = Held(p)
    BY <1>6 DEF Held, Flushed
  <2>2. Held(p) = Flushed(p.rest, p.fields).events
    BY DEF Held
  <2> HIDE DEF p
  <2> QED BY <1>2, <2>1, <2>2
<1>8. /\ emitted' = Parsed(Arrived \o <<LF, LF>>)'.events
      /\ heard' = Hear(Hear(Unheard, Parsed(Arrived)'.events, TRUE), Held(Parsed(Arrived))', FALSE)
  <2> HIDE DEF text, p, next
  <2> QED BY <1>1, <1>2, <1>5, <1>6, <1>7 DEF next
<1>9. frames' = <<>> \/ (frames' \in Answers /\ body' = TextOf(frames)')
  BY <1>1 DEF SseIInv, TextOf
<1> QED BY <1>1, <1>8, <1>9 DEF SseIInv

LEMMA SseStay ==
  ASSUME NEW CONSTANT A, SseIInv(A), UNCHANGED sseVars
  PROVE  SseIInv(A)'
BY DEF SseIInv, sseVars, Arrived, Held

LEMMA SseStep ==
  ASSUME NEW CONSTANT A, TextsOK(A), SseIInv(A), SseNext
  PROVE  SseIInv(A)'
<1>1. ASSUME NEW n \in 1..Len(body), PushChunk(n) PROVE SseIInv(A)'
  BY <1>1, SsePush
<1>2. ASSUME CloseBody PROVE SseIInv(A)'
  BY <1>2, SseClose
<1> QED BY <1>1, <1>2 DEF SseNext

(* However a body is cut into chunks, what the parser returns are the      *)
(* events of the text that arrived.                                        *)
LEMMA AsWhole ==
  ASSUME NEW CONSTANT A, TextsOK(A), SseIInv(A)
  PROVE  ParsedAsWhole
<1> DEFINE text == SubSeq(body, 1, read)
<1>1. body \in Seq(A) /\ read \in 0..Len(body) /\ closed \in BOOLEAN /\ Arrived = text
  BY DEF SseIInv, Arrived
<1>2. text \in Seq(A) /\ "message" \in A /\ LF \in A
  <2>1. text \in Seq(A)
    BY <1>1, Arrives, LenProperties
  <2>2. "message" \in A /\ LF \in A
    BY DEF TextsOK, Symbols
  <2> QED BY <2>1, <2>2
<1>3. text \o <<LF, LF>> \in Seq(A)
  <2>1. <<LF, LF>> \in Seq(A)
    BY <1>2
  <2> HIDE DEF text
  <2> QED BY <1>2, <2>1, ConcatProperties
<1>4. Parsed(text).events = EventsOf(text)
      /\ Parsed(text \o <<LF, LF>>).events = EventsOf(text \o <<LF, LF>>)
  <2> DEFINE ended == text \o <<LF, LF>>
  <2>1. ended \in Seq(A)
    BY <1>3
  <2> HIDE DEF text, ended
  <2>2. Parsed(text).events = EventsOf(text) /\ Parsed(ended).events = EventsOf(ended)
    BY <1>2, <2>1, ParsedAtOnce
  <2> QED BY <2>2 DEF ended
<1>5. emitted = IF closed THEN Parsed(text \o <<LF, LF>>).events ELSE Parsed(text).events
  BY <1>1 DEF SseIInv
<1>6. emitted = EventsOf(IF closed THEN text \o <<LF, LF>> ELSE text)
  <2> HIDE DEF text
  <2> QED BY <1>1, <1>4, <1>5
<1> QED BY <1>6 DEF ParsedAsWhole

-----------------------------------------------------------------------------
(* An answer, frame after frame *)

FieldsAt(name, r) ==
  [name |-> IF r < 3 THEN <<>> ELSE <<name>>, data |-> IF r < 7 THEN <<>> ELSE <<Whole>>, id |-> <<>>]
RestAt(name, r) ==
  IF r = 1 THEN <<"event:">> ELSE IF r = 2 THEN <<"event:", name>>
  ELSE IF r = 4 THEN <<"data:">> ELSE IF r = 5 THEN <<"data:", "{">>
  ELSE IF r = 6 THEN <<"data:", "{", "}">> ELSE <<>>
EventAt(name) == [event |-> <<name>>, data |-> <<Whole>>, id |-> <<>>]

(* The parser after r symbols of a frame *)
StateAt(name, r, events) ==
  [fields |-> FieldsAt(name, r), events |-> events, rest |-> RestAt(name, r)]

(* Short sequences *)
LEMMA AppendToNone ==
  ASSUME NEW a
  PROVE  Append(<<>>, a) = <<a>>
OBVIOUS

LEMMA AppendToOne ==
  ASSUME NEW a, NEW b
  PROVE  Append(<<a>>, b) = <<a, b>>
<1> DEFINE S == {a, b}
           s == <<a>>
           t == Append(s, b)
           u == <<a, b>>
<1>1. s \in Seq(S) /\ Len(s) = 1 /\ s[1] = a /\ u \in Seq(S) /\ Len(u) = 2 /\ u[1] = a /\ u[2] = b /\ b \in S
  OBVIOUS
<1>2. t \in Seq(S) /\ Len(t) = 2 /\ t[1] = a /\ t[2] = b
  <2>1. t \in Seq(S) /\ Len(t) = Len(s) + 1 /\ t[Len(s) + 1] = b /\ \A i \in 1..Len(s) : t[i] = s[i]
    <3>1. s \in Seq(S) /\ b \in S
      BY <1>1
    <3> HIDE DEF s, S
    <3> QED BY <3>1, AppendProperties
  <2> HIDE DEF s, S, t, u
  <2> QED BY <1>1, <2>1
<1>3. \A i \in 1..Len(t) : t[i] = u[i]
  <2> HIDE DEF t, u
  <2> QED BY <1>1, <1>2
<1> HIDE DEF s, t, u, S
<1>4. t = u
  BY <1>1, <1>2, <1>3, SeqEqual
<1> QED BY <1>4 DEF t, u, s

LEMMA AppendToTwo ==
  ASSUME NEW a, NEW b, NEW c
  PROVE  Append(<<a, b>>, c) = <<a, b, c>>
<1> DEFINE S == {a, b, c}
           s == <<a, b>>
           t == Append(s, c)
           u == <<a, b, c>>
<1>1. s \in Seq(S) /\ Len(s) = 2 /\ s[1] = a /\ s[2] = b
  OBVIOUS
<1>2. u \in Seq(S) /\ Len(u) = 3 /\ u[1] = a /\ u[2] = b /\ u[3] = c /\ c \in S
  OBVIOUS
<1>3. t \in Seq(S) /\ Len(t) = 3 /\ t[1] = a /\ t[2] = b /\ t[3] = c
  <2>1. t \in Seq(S) /\ Len(t) = Len(s) + 1 /\ t[Len(s) + 1] = c /\ \A i \in 1..Len(s) : t[i] = s[i]
    <3>1. s \in Seq(S) /\ c \in S
      BY <1>1, <1>2
    <3> HIDE DEF s, S
    <3> QED BY <3>1, AppendProperties
  <2> HIDE DEF s, S, t, u
  <2> QED BY <1>1, <2>1
<1>4. \A i \in 1..Len(t) : t[i] = u[i]
  <2> HIDE DEF t, u
  <2> QED BY <1>2, <1>3
<1> HIDE DEF s, t, u, S
<1>5. t = u
  BY <1>2, <1>3, <1>4, SeqEqual
<1> QED BY <1>5 DEF t, u, s

LEMMA TailOfOne ==
  ASSUME NEW a
  PROVE  Tail(<<a>>) = <<>> /\ Head(<<a>>) = a
OBVIOUS

LEMMA HeadOfTwo ==
  ASSUME NEW a, NEW b
  PROVE  Head(<<a, b>>) = a
OBVIOUS

LEMMA HeadOfThree ==
  ASSUME NEW a, NEW b, NEW c
  PROVE  Head(<<a, b, c>>) = a
OBVIOUS

LEMMA TailOfTwo ==
  ASSUME NEW a, NEW b
  PROVE  Tail(<<a, b>>) = <<b>>
<1> DEFINE s == <<a, b>>
           t == Tail(s)
           u == <<b>>
           S == {a, b}
<1>1. s \in Seq(S) /\ s # <<>> /\ Len(s) = 2 /\ s[2] = b /\ u \in Seq(S) /\ Len(u) = 1 /\ u[1] = b
  OBVIOUS
<1>2. t \in Seq(S) /\ Len(t) = 1 /\ t[1] = b
  <2>1. t \in Seq(S) /\ Len(t) = Len(s) - 1 /\ \A i \in 1..Len(t) : t[i] = s[i + 1]
    <3> HIDE DEF s, S
    <3> QED BY <1>1, HeadTailProperties
  <2>2. Len(t) = 1 /\ 1 \in 1..Len(t) /\ 1 + 1 = 2
    <3> HIDE DEF s, S, t, u
    <3> QED BY <1>1, <2>1
  <2> HIDE DEF s, S, t, u
  <2> QED BY <1>1, <2>1, <2>2
<1>3. \A i \in 1..Len(t) : t[i] = u[i]
  <2> HIDE DEF t, u
  <2> QED BY <1>1, <1>2
<1> HIDE DEF s, t, u, S
<1>4. t = u
  BY <1>1, <1>2, <1>3, SeqEqual
<1> QED BY <1>4 DEF t, u, s

LEMMA TailOfThree ==
  ASSUME NEW a, NEW b, NEW c
  PROVE  Tail(<<a, b, c>>) = <<b, c>>
<1> DEFINE s == <<a, b, c>>
           t == Tail(s)
           u == <<b, c>>
           S == {a, b, c}
<1>1. s \in Seq(S) /\ s # <<>> /\ Len(s) = 3 /\ s[2] = b /\ s[3] = c
  OBVIOUS
<1>2. u \in Seq(S) /\ Len(u) = 2 /\ u[1] = b /\ u[2] = c
  OBVIOUS
<1>3. t \in Seq(S) /\ Len(t) = 2 /\ t[1] = b /\ t[2] = c
  <2> HIDE DEF s, S
  <2> QED BY <1>1, HeadTailProperties, SMTT(30)
<1>4. \A i \in 1..Len(t) : t[i] = u[i]
  <2> HIDE DEF t, u
  <2> QED BY <1>2, <1>3
<1> HIDE DEF s, t, u, S
<1>5. t = u
  BY <1>2, <1>3, <1>4, SeqEqual
<1> QED BY <1>5 DEF t, u, s

LEMMA FrameLines ==
  ASSUME NEW name \in EventNames
  PROVE  /\ WithoutCR(<<"event:", name>>) = <<"event:", name>>
         /\ WithoutCR(<<"event:">>) = <<"event:">>
         /\ WithoutCR(<<"data:">>) = <<"data:">>
         /\ WithoutCR(<<"data:", "{">>) = <<"data:", "{">>
         /\ WithoutCR(<<"data:", "{", "}">>) = <<"data:", "{", "}">>
         /\ WithoutCR(<<>>) = <<>>
<1>1. name # CR /\ "event:" # CR /\ "data:" # CR /\ "{" # CR /\ "}" # CR
  BY DEF EventNames, CR
<1> QED BY <1>1 DEF WithoutCR

LEMMA FrameFields ==
  ASSUME NEW name \in EventNames, NEW f, f = [name |-> f.name, data |-> f.data, id |-> f.id]
  PROVE  /\ ProcessLine(f, <<"event:", name>>) =
              [fields |-> [name |-> <<name>>, data |-> f.data, id |-> f.id], events |-> <<>>]
         /\ ProcessLine(f, <<"event:">>) =
              [fields |-> [name |-> <<>>, data |-> f.data, id |-> f.id], events |-> <<>>]
         /\ ProcessLine(f, <<"data:">>) =
              [fields |-> [name |-> f.name, data |-> Append(f.data, <<>>), id |-> f.id],
               events |-> <<>>]
         /\ ProcessLine(f, <<"data:", "{">>) =
              [fields |-> [name |-> f.name, data |-> Append(f.data, <<"{">>), id |-> f.id],
               events |-> <<>>]
         /\ ProcessLine(f, <<"data:", "{", "}">>) =
              [fields |-> [name |-> f.name, data |-> Append(f.data, Whole), id |-> f.id],
               events |-> <<>>]
         /\ ProcessLine(f, <<>>) = EmitCurrent(f)
<1>1. ASSUME NEW l, l # <<>>, Head(l) = "event:"
      PROVE  ProcessLine(f, l) =
               [fields |-> [name |-> Tail(l), data |-> f.data, id |-> f.id], events |-> <<>>]
  <2>1. ProcessLine(f, l) = [fields |-> [f EXCEPT !.name = Tail(l)], events |-> <<>>]
    BY <1>1 DEF ProcessLine
  <2> DEFINE t == Tail(l)
  <2>2. [f EXCEPT !.name = t] = [name |-> t, data |-> f.data, id |-> f.id]
    <3> HIDE DEF t
    <3> QED OBVIOUS
  <2> QED BY <2>1, <2>2
<1>2. ASSUME NEW l, l # <<>>, Head(l) = "data:"
      PROVE  ProcessLine(f, l) =
               [fields |-> [name |-> f.name, data |-> Append(f.data, Tail(l)), id |-> f.id],
                events |-> <<>>]
  <2> DEFINE t == Append(f.data, Tail(l))
  <2>1. ProcessLine(f, l) = [fields |-> [f EXCEPT !.data = t], events |-> <<>>]
    BY <1>2 DEF ProcessLine
  <2>2. [f EXCEPT !.data = t] = [name |-> f.name, data |-> t, id |-> f.id]
    <3> HIDE DEF t
    <3> QED OBVIOUS
  <2> QED BY <2>1, <2>2
<1>3. ProcessLine(f, <<"event:", name>>) =
        [fields |-> [name |-> <<name>>, data |-> f.data, id |-> f.id], events |-> <<>>]
  <2> DEFINE l == <<"event:", name>>
  <2>1. l # <<>>
    OBVIOUS
  <2>2. Head(l) = "event:"
    OBVIOUS
  <2>3. Tail(l) = <<name>>
    OBVIOUS
  <2> HIDE DEF l
  <2>4. ProcessLine(f, l) =
          [fields |-> [name |-> <<name>>, data |-> f.data, id |-> f.id], events |-> <<>>]
    BY <1>1, <2>1, <2>2, <2>3
  <2> QED BY <2>4 DEF l
<1>4. ProcessLine(f, <<"event:">>) =
        [fields |-> [name |-> <<>>, data |-> f.data, id |-> f.id], events |-> <<>>]
  <2> DEFINE l == <<"event:">>
  <2>1. l # <<>>
    OBVIOUS
  <2>2. Head(l) = "event:"
    OBVIOUS
  <2>3. Tail(l) = <<>>
    OBVIOUS
  <2> HIDE DEF l
  <2>4. ProcessLine(f, l) =
          [fields |-> [name |-> <<>>, data |-> f.data, id |-> f.id], events |-> <<>>]
    BY <1>1, <2>1, <2>2, <2>3
  <2> QED BY <2>4 DEF l
<1>5. ProcessLine(f, <<"data:">>) =
        [fields |-> [name |-> f.name, data |-> Append(f.data, <<>>), id |-> f.id], events |-> <<>>]
  <2> DEFINE l == <<"data:">>
  <2>1. l # <<>>
    OBVIOUS
  <2>2. Head(l) = "data:"
    OBVIOUS
  <2>3. Tail(l) = <<>>
    OBVIOUS
  <2> HIDE DEF l
  <2>4. ProcessLine(f, l) =
          [fields |-> [name |-> f.name, data |-> Append(f.data, <<>>), id |-> f.id], events |-> <<>>]
    BY <1>2, <2>1, <2>2, <2>3
  <2> QED BY <2>4 DEF l
<1>6. ProcessLine(f, <<"data:", "{">>) =
        [fields |-> [name |-> f.name, data |-> Append(f.data, <<"{">>), id |-> f.id], events |-> <<>>]
  <2> DEFINE l == <<"data:", "{">>
  <2>1. l # <<>>
    OBVIOUS
  <2>2. Head(l) = "data:"
    OBVIOUS
  <2>3. Tail(l) = <<"{">>
    BY TailOfTwo
  <2> HIDE DEF l
  <2>4. ProcessLine(f, l) =
          [fields |-> [name |-> f.name, data |-> Append(f.data, <<"{">>), id |-> f.id], events |-> <<>>]
    BY <1>2, <2>1, <2>2, <2>3
  <2> QED BY <2>4 DEF l
<1>7. ProcessLine(f, <<"data:", "{", "}">>) =
        [fields |-> [name |-> f.name, data |-> Append(f.data, Whole), id |-> f.id], events |-> <<>>]
  <2> DEFINE l == <<"data:", "{", "}">>
  <2>1. l # <<>>
    OBVIOUS
  <2>2. Head(l) = "data:"
    OBVIOUS
  <2>3. Tail(l) = Whole
    BY TailOfThree DEF Whole
  <2> HIDE DEF l
  <2>4. ProcessLine(f, l) =
          [fields |-> [name |-> f.name, data |-> Append(f.data, Whole), id |-> f.id], events |-> <<>>]
    BY <1>2, <2>1, <2>2, <2>3
  <2> QED BY <2>4 DEF l
<1>8. ProcessLine(f, <<>>) = EmitCurrent(f)
  BY DEF ProcessLine
<1> QED BY <1>3, <1>4, <1>5, <1>6, <1>7, <1>8

(* The symbols, the rests and the fields of a frame *)
LEMMA FrameTable ==
  ASSUME NEW name
  PROVE  /\ SymbolAt(name, 1) = "event:" /\ SymbolAt(name, 2) = name /\ SymbolAt(name, 3) = LF
         /\ SymbolAt(name, 4) = "data:" /\ SymbolAt(name, 5) = "{" /\ SymbolAt(name, 6) = "}"
         /\ SymbolAt(name, 7) = LF /\ SymbolAt(name, 8) = LF
         /\ RestAt(name, 0) = <<>> /\ RestAt(name, 1) = <<"event:">>
         /\ RestAt(name, 2) = <<"event:", name>> /\ RestAt(name, 3) = <<>>
         /\ RestAt(name, 4) = <<"data:">> /\ RestAt(name, 5) = <<"data:", "{">>
         /\ RestAt(name, 6) = <<"data:", "{", "}">> /\ RestAt(name, 7) = <<>>
         /\ FieldsAt(name, 0) = NoFields /\ FieldsAt(name, 1) = NoFields
         /\ FieldsAt(name, 2) = NoFields
         /\ FieldsAt(name, 3) = [name |-> <<name>>, data |-> <<>>, id |-> <<>>]
         /\ FieldsAt(name, 4) = [name |-> <<name>>, data |-> <<>>, id |-> <<>>]
         /\ FieldsAt(name, 5) = [name |-> <<name>>, data |-> <<>>, id |-> <<>>]
         /\ FieldsAt(name, 6) = [name |-> <<name>>, data |-> <<>>, id |-> <<>>]
         /\ FieldsAt(name, 7) = [name |-> <<name>>, data |-> <<Whole>>, id |-> <<>>]
<1>1. SymbolAt(name, 1) = "event:"
  BY DEF SymbolAt
<1>2. SymbolAt(name, 2) = name
  BY DEF SymbolAt
<1>3. SymbolAt(name, 3) = LF
  BY DEF SymbolAt
<1>4. SymbolAt(name, 4) = "data:"
  BY DEF SymbolAt
<1>5. SymbolAt(name, 5) = "{"
  BY DEF SymbolAt
<1>6. SymbolAt(name, 6) = "}"
  BY DEF SymbolAt
<1>7. SymbolAt(name, 7) = LF
  BY DEF SymbolAt
<1>8. SymbolAt(name, 8) = LF
  BY DEF SymbolAt
<1>9. RestAt(name, 0) = <<>>
  BY DEF RestAt
<1>10. RestAt(name, 1) = <<"event:">>
  BY DEF RestAt
<1>11. RestAt(name, 2) = <<"event:", name>>
  BY DEF RestAt
<1>12. RestAt(name, 3) = <<>>
  BY DEF RestAt
<1>13. RestAt(name, 4) = <<"data:">>
  BY DEF RestAt
<1>14. RestAt(name, 5) = <<"data:", "{">>
  BY DEF RestAt
<1>15. RestAt(name, 6) = <<"data:", "{", "}">>
  BY DEF RestAt
<1>16. RestAt(name, 7) = <<>>
  BY DEF RestAt
<1>17. FieldsAt(name, 0) = NoFields
  BY DEF FieldsAt, NoFields
<1>18. FieldsAt(name, 1) = NoFields
  BY DEF FieldsAt, NoFields
<1>19. FieldsAt(name, 2) = NoFields
  BY DEF FieldsAt, NoFields
<1>20. FieldsAt(name, 3) = [name |-> <<name>>, data |-> <<>>, id |-> <<>>]
  BY DEF FieldsAt, NoFields
<1>21. FieldsAt(name, 4) = [name |-> <<name>>, data |-> <<>>, id |-> <<>>]
  BY DEF FieldsAt, NoFields
<1>22. FieldsAt(name, 5) = [name |-> <<name>>, data |-> <<>>, id |-> <<>>]
  BY DEF FieldsAt, NoFields
<1>23. FieldsAt(name, 6) = [name |-> <<name>>, data |-> <<>>, id |-> <<>>]
  BY DEF FieldsAt, NoFields
<1>24. FieldsAt(name, 7) = [name |-> <<name>>, data |-> <<Whole>>, id |-> <<>>]
  BY DEF FieldsAt, NoFields
<1> QED
  BY <1>1, <1>2, <1>3, <1>4, <1>5, <1>6, <1>7, <1>8, <1>9, <1>10, <1>11, <1>12,
     <1>13, <1>14, <1>15, <1>16, <1>17, <1>18, <1>19, <1>20, <1>21, <1>22, <1>23, <1>24

LEMMA NextSymbol ==
  ASSUME NEW name \in EventNames, NEW E, NEW events \in Seq(E), EventAt(name) \in E, NEW r \in 0..7
  PROVE  ParsedNext(StateAt(name, r, events), SymbolAt(name, r + 1)) =
           IF r = 7 THEN StateAt(name, 0, Append(events, EventAt(name)))
                    ELSE StateAt(name, r + 1, events)
<1> DEFINE s == StateAt(name, r, events)
           c == SymbolAt(name, r + 1)
           f == FieldsAt(name, r)
<1>1. s.fields = f /\ s.events = events /\ s.rest = RestAt(name, r)
  BY DEF StateAt
<1>2. /\ name # LF /\ "event:" # LF /\ "data:" # LF /\ "{" # LF /\ "}" # LF
  BY DEF EventNames, LF
<1>3. events \o <<>> = events
  BY ConcatEmptySeq
<1>4. f = [name |-> f.name, data |-> f.data, id |-> f.id]
  BY DEF FieldsAt
<1>5. ASSUME c # LF
      PROVE  ParsedNext(s, c) = [fields |-> f, events |-> events, rest |-> Append(RestAt(name, r), c)]
  <2> HIDE DEF s, c, f
  <2> QED BY <1>1, <1>5 DEF ParsedNext
<1>6. ASSUME NEW g, c = LF, ProcessLine(f, WithoutCR(RestAt(name, r))) = [fields |-> g, events |-> <<>>]
      PROVE  ParsedNext(s, c) = [fields |-> g, events |-> events, rest |-> <<>>]
  <2> HIDE DEF s, c, f
  <2> QED BY <1>1, <1>3, <1>6 DEF ParsedNext
<1> HIDE DEF s, c, f
<1>7. CASE r = 0
  <2>0. c = SymbolAt(name, 1) /\ RestAt(name, r) = RestAt(name, 0) /\ f = FieldsAt(name, 0)
    BY <1>7 DEF c, f
  <2>1. c = "event:" /\ RestAt(name, r) = <<>>
    BY <2>0, FrameTable
  <2>2. RestAt(name, 1) = Append(<<>>, "event:")
    <3>1. Append(<<>>, "event:") = <<"event:">>
      OBVIOUS
    <3> QED BY <3>1, FrameTable
  <2>3. FieldsAt(name, 1) = f
    BY <2>0 DEF FieldsAt
  <2>4. ParsedNext(s, c) = [fields |-> f, events |-> events, rest |-> RestAt(name, 1)]
    BY <1>2, <1>5, <2>1, <2>2
  <2>5. ParsedNext(s, c) = StateAt(name, 1, events)
    BY <2>3, <2>4 DEF StateAt
  <2> QED BY <1>7, <2>5 DEF s, c
<1>8. CASE r = 1
  <2>0. c = SymbolAt(name, 2) /\ RestAt(name, r) = RestAt(name, 1) /\ f = FieldsAt(name, 1)
    BY <1>8 DEF c, f
  <2>1. c = name /\ RestAt(name, r) = <<"event:">>
    BY <2>0, FrameTable
  <2>2. RestAt(name, 2) = Append(<<"event:">>, name)
    <3>1. Append(<<"event:">>, name) = <<"event:", name>>
      BY AppendToOne
    <3> QED BY <3>1, FrameTable
  <2>3. FieldsAt(name, 2) = f
    BY <2>0 DEF FieldsAt
  <2>4. ParsedNext(s, c) = [fields |-> f, events |-> events, rest |-> RestAt(name, 2)]
    BY <1>2, <1>5, <2>1, <2>2
  <2>5. ParsedNext(s, c) = StateAt(name, 2, events)
    BY <2>3, <2>4 DEF StateAt
  <2> QED BY <1>8, <2>5 DEF s, c
<1>9. CASE r = 3
  <2>0. c = SymbolAt(name, 4) /\ RestAt(name, r) = RestAt(name, 3) /\ f = FieldsAt(name, 3)
    BY <1>9 DEF c, f
  <2>1. c = "data:" /\ RestAt(name, r) = <<>>
    BY <2>0, FrameTable
  <2>2. RestAt(name, 4) = Append(<<>>, "data:")
    <3>1. Append(<<>>, "data:") = <<"data:">>
      OBVIOUS
    <3> QED BY <3>1, FrameTable
  <2>3. FieldsAt(name, 4) = f
    BY <2>0 DEF FieldsAt
  <2>4. ParsedNext(s, c) = [fields |-> f, events |-> events, rest |-> RestAt(name, 4)]
    BY <1>2, <1>5, <2>1, <2>2
  <2>5. ParsedNext(s, c) = StateAt(name, 4, events)
    BY <2>3, <2>4 DEF StateAt
  <2> QED BY <1>9, <2>5 DEF s, c
<1>10. CASE r = 4
  <2>0. c = SymbolAt(name, 5) /\ RestAt(name, r) = RestAt(name, 4) /\ f = FieldsAt(name, 4)
    BY <1>10 DEF c, f
  <2>1. c = "{" /\ RestAt(name, r) = <<"data:">>
    BY <2>0, FrameTable
  <2>2. RestAt(name, 5) = Append(<<"data:">>, "{")
    <3>1. Append(<<"data:">>, "{") = <<"data:", "{">>
      BY AppendToOne
    <3> QED BY <3>1, FrameTable
  <2>3. FieldsAt(name, 5) = f
    BY <2>0 DEF FieldsAt
  <2>4. ParsedNext(s, c) = [fields |-> f, events |-> events, rest |-> RestAt(name, 5)]
    BY <1>2, <1>5, <2>1, <2>2
  <2>5. ParsedNext(s, c) = StateAt(name, 5, events)
    BY <2>3, <2>4 DEF StateAt
  <2> QED BY <1>10, <2>5 DEF s, c
<1>11. CASE r = 5
  <2>0. c = SymbolAt(name, 6) /\ RestAt(name, r) = RestAt(name, 5) /\ f = FieldsAt(name, 5)
    BY <1>11 DEF c, f
  <2>1. c = "}" /\ RestAt(name, r) = <<"data:", "{">>
    BY <2>0, FrameTable
  <2>2. RestAt(name, 6) = Append(<<"data:", "{">>, "}")
    <3>1. Append(<<"data:", "{">>, "}") = <<"data:", "{", "}">>
      BY AppendToTwo
    <3> QED BY <3>1, FrameTable
  <2>3. FieldsAt(name, 6) = f
    BY <2>0 DEF FieldsAt
  <2>4. ParsedNext(s, c) = [fields |-> f, events |-> events, rest |-> RestAt(name, 6)]
    BY <1>2, <1>5, <2>1, <2>2
  <2>5. ParsedNext(s, c) = StateAt(name, 6, events)
    BY <2>3, <2>4 DEF StateAt
  <2> QED BY <1>11, <2>5 DEF s, c
<1>12. CASE r = 2
  <2>0. c = SymbolAt(name, 3) /\ RestAt(name, r) = RestAt(name, 2) /\ f = FieldsAt(name, 2)
    BY <1>12 DEF c, f
  <2>1. c = LF /\ RestAt(name, r) = <<"event:", name>>
    BY <2>0, FrameTable
  <2>2. RestAt(name, 3) = <<>>
    BY FrameTable
  <2>3. f.data = <<>> /\ f.id = <<>>
    BY <2>0 DEF FieldsAt
  <2>4. ProcessLine(f, <<"event:", name>>) =
          [fields |-> [name |-> <<name>>, data |-> f.data, id |-> f.id], events |-> <<>>]
    BY <1>4, FrameFields
  <2>5. FieldsAt(name, 3) = [name |-> <<name>>, data |-> f.data, id |-> f.id]
    BY <2>3, FrameTable
  <2>6. WithoutCR(<<"event:", name>>) = <<"event:", name>>
    BY FrameLines
  <2>7. ProcessLine(f, WithoutCR(RestAt(name, r))) = [fields |-> FieldsAt(name, 3), events |-> <<>>]
    BY <2>1, <2>4, <2>5, <2>6, Zenon
  <2>8. ParsedNext(s, c) = [fields |-> FieldsAt(name, 3), events |-> events, rest |-> <<>>]
    BY <1>6, <2>1, <2>7
  <2>9. ParsedNext(s, c) = StateAt(name, 3, events)
    BY <2>2, <2>8 DEF StateAt
  <2> QED BY <1>12, <2>9 DEF s, c
<1>13. CASE r = 6
  <2>0. c = SymbolAt(name, 7) /\ RestAt(name, r) = RestAt(name, 6) /\ f = FieldsAt(name, 6)
    BY <1>13 DEF c, f
  <2>1. c = LF /\ RestAt(name, r) = <<"data:", "{", "}">>
    BY <2>0, FrameTable
  <2>2. RestAt(name, 7) = <<>>
    BY FrameTable
  <2>3. f.name = <<name>> /\ f.data = <<>> /\ f.id = <<>>
    BY <2>0 DEF FieldsAt
  <2>4. ProcessLine(f, <<"data:", "{", "}">>) =
          [fields |-> [name |-> f.name, data |-> Append(f.data, Whole), id |-> f.id], events |-> <<>>]
    BY <1>4, FrameFields
  <2>5. FieldsAt(name, 7) = [name |-> f.name, data |-> Append(f.data, Whole), id |-> f.id]
    <3>1. Append(f.data, Whole) = <<Whole>>
      <4>1. Append(<<>>, Whole) = <<Whole>>
        OBVIOUS
      <4> QED BY <2>3, <4>1
    <3> QED BY <2>3, <3>1 DEF FieldsAt
  <2>6. WithoutCR(<<"data:", "{", "}">>) = <<"data:", "{", "}">>
    BY FrameLines
  <2>7. ProcessLine(f, WithoutCR(RestAt(name, r))) = [fields |-> FieldsAt(name, 7), events |-> <<>>]
    BY <2>1, <2>4, <2>5, <2>6, Zenon
  <2>8. ParsedNext(s, c) = [fields |-> FieldsAt(name, 7), events |-> events, rest |-> <<>>]
    BY <1>6, <2>1, <2>7
  <2>9. ParsedNext(s, c) = StateAt(name, 7, events)
    BY <2>2, <2>8 DEF StateAt
  <2> QED BY <1>13, <2>9 DEF s, c
<1>14. CASE r = 7
  <2>0. c = SymbolAt(name, 8) /\ RestAt(name, r) = RestAt(name, 7) /\ f = FieldsAt(name, 7)
    BY <1>14 DEF c, f
  <2>1. c = LF /\ RestAt(name, r) = <<>>
    BY <2>0, FrameTable
  <2>2. RestAt(name, 0) = <<>> /\ FieldsAt(name, 0) = NoFields
    BY FrameTable
  <2>3. f.name = <<name>> /\ f.data = <<Whole>> /\ f.id = <<>>
    BY <2>0 DEF FieldsAt
  <2>4. f # NoFields
    <3>1. <<name>> # <<>> /\ NoFields.name = <<>>
      BY DEF NoFields
    <3> QED BY <2>3, <3>1
  <2>5. EmitCurrent(f) = [fields |-> NoFields, events |-> <<EventAt(name)>>]
    <3>1. <<name>> # <<>>
      OBVIOUS
    <3> QED BY <2>3, <2>4, <3>1 DEF EmitCurrent, EventAt
  <2>6. WithoutCR(<<>>) = <<>> /\ ProcessLine(f, <<>>) = EmitCurrent(f)
    BY <1>4, FrameLines, FrameFields
  <2>7. ProcessLine(f, WithoutCR(RestAt(name, r))) = [fields |-> NoFields, events |-> <<EventAt(name)>>]
    BY <2>1, <2>5, <2>6, Zenon
  <2> DEFINE next == ProcessLine(s.fields, WithoutCR(s.rest))
  <2>8. next = [fields |-> NoFields, events |-> <<EventAt(name)>>]
    BY <1>1, <2>7
  <2>9. ParsedNext(s, c) = [fields |-> next.fields, events |-> events \o next.events, rest |-> <<>>]
    BY <1>1, <2>1 DEF ParsedNext
  <2>10. next.fields = NoFields /\ next.events = <<EventAt(name)>>
    <3> HIDE DEF next
    <3> QED BY <2>8
  <2>11. events \o <<EventAt(name)>> = Append(events, EventAt(name))
    <3> DEFINE e == EventAt(name)
    <3>1. e \in E
      OBVIOUS
    <3> HIDE DEF e
    <3>2. events \o <<e>> = Append(events, e)
      BY <3>1, AppendIsConcat
    <3> QED BY <3>2 DEF e
  <2>12. ParsedNext(s, c) = StateAt(name, 0, Append(events, EventAt(name)))
    <3> HIDE DEF next
    <3> QED BY <2>2, <2>9, <2>10, <2>11 DEF StateAt
  <2> QED BY <1>14, <2>12 DEF s, c
<1>15. r = 0 \/ r = 1 \/ r = 2 \/ r = 3 \/ r = 4 \/ r = 5 \/ r = 6 \/ r = 7
  OBVIOUS
<1> QED BY <1>7, <1>8, <1>9, <1>10, <1>11, <1>12, <1>13, <1>14, <1>15

(* The events of the first q frames *)
SentEvents == {EventAt(name) : name \in EventNames}
EventsSent(answer, q) == [i \in 1..q |-> EventAt(answer[i])]

LEMMA SentNext ==
  ASSUME NEW answer, AnswerOK(answer), NEW q \in 0..(Len(answer) - 1)
  PROVE  /\ EventsSent(answer, 0) = <<>>
         /\ answer[q + 1] \in EventNames /\ EventAt(answer[q + 1]) \in SentEvents
         /\ EventsSent(answer, q) \in Seq(SentEvents)
         /\ EventsSent(answer, q + 1) = Append(EventsSent(answer, q), EventAt(answer[q + 1]))
<1> DEFINE N == Len(answer)
           E == SentEvents
           s == EventsSent(answer, q)
           t == EventsSent(answer, q + 1)
           e == EventAt(answer[q + 1])
           u == Append(s, e)
<1>1. N \in Nat /\ \A i \in 1..N : answer[i] \in EventNames
  BY TextOfAt
<1>2. \A i \in 1..N : EventAt(answer[i]) \in E
  BY <1>1 DEF SentEvents
<1>3. q \in Nat /\ q + 1 \in 1..N /\ 1..q \subseteq 1..N /\ 1..(q + 1) \subseteq 1..N
  BY <1>1
<1>4. \A m \in Nat : 1..m \subseteq 1..N =>
        /\ EventsSent(answer, m) \in Seq(E) /\ Len(EventsSent(answer, m)) = m
        /\ \A i \in 1..m : EventsSent(answer, m)[i] = EventAt(answer[i])
  <2> SUFFICES ASSUME NEW m \in Nat, 1..m \subseteq 1..N
               PROVE  /\ EventsSent(answer, m) \in Seq(E) /\ Len(EventsSent(answer, m)) = m
                      /\ \A i \in 1..m : EventsSent(answer, m)[i] = EventAt(answer[i])
    OBVIOUS
  <2> DEFINE v == EventsSent(answer, m)
             F(i) == EventAt(answer[i])
  <2>1. v = [i \in 1..m |-> F(i)]
    BY DEF EventsSent
  <2>2. \A i \in 1..m : F(i) \in E
    BY <1>2
  <2>3. v \in Seq(E)
    <3> HIDE DEF v, F, E
    <3> QED BY <2>1, <2>2, IsASeq
  <2>4. Len(v) = m /\ \A i \in 1..m : v[i] = F(i)
    <3> HIDE DEF v, F, E
    <3> QED BY <2>1, <2>3
  <2> QED BY <2>3, <2>4
<1>5. EventsSent(answer, 0) = <<>>
  BY DEF EventsSent
<1>6. s \in Seq(E) /\ Len(s) = q /\ \A i \in 1..q : s[i] = EventAt(answer[i])
  BY <1>3, <1>4
<1>7. t \in Seq(E) /\ Len(t) = q + 1 /\ \A i \in 1..(q + 1) : t[i] = EventAt(answer[i])
  <2> DEFINE m == q + 1
  <2>1. m \in Nat /\ 1..m \subseteq 1..N
    BY <1>3
  <2> HIDE DEF m
  <2>2. /\ EventsSent(answer, m) \in Seq(E) /\ Len(EventsSent(answer, m)) = m
        /\ \A i \in 1..m : EventsSent(answer, m)[i] = EventAt(answer[i])
    BY <1>4, <2>1
  <2> QED BY <2>2 DEF m
<1>8. e \in E
  BY <1>2, <1>3
<1>9. u \in Seq(E) /\ Len(u) = q + 1 /\ u[q + 1] = e /\ \A i \in 1..q : u[i] = s[i]
  <2>1. s \in Seq(E) /\ e \in E
    BY <1>6, <1>8
  <2>2. u \in Seq(E) /\ Len(u) = Len(s) + 1 /\ u[Len(s) + 1] = e /\ \A i \in 1..Len(s) : u[i] = s[i]
    <3> HIDE DEF s, e, E
    <3> QED BY <2>1, AppendProperties
  <2> HIDE DEF s, e, u, E
  <2> QED BY <1>6, <2>2
<1>10. \A i \in 1..(q + 1) : t[i] = u[i]
  <2> SUFFICES ASSUME NEW i \in 1..(q + 1) PROVE t[i] = u[i]
    OBVIOUS
  <2>1. CASE i = q + 1
    <3>1. t[i] = EventAt(answer[i])
      BY <1>7
    <3>2. EventAt(answer[i]) = e
      BY <2>1
    <3> HIDE DEF e, t, u
    <3> QED BY <1>9, <2>1, <3>1, <3>2
  <2>2. CASE i \in 1..q
    <3> HIDE DEF e, t, u, s
    <3> QED BY <1>6, <1>7, <1>9, <2>2
  <2>3. i = q + 1 \/ i \in 1..q
    BY <1>3
  <2> QED BY <2>1, <2>2, <2>3
<1>11. t = u
  <2> HIDE DEF t, u, E
  <2> QED BY <1>7, <1>9, <1>10, SeqEqual
<1> QED BY <1>1, <1>3, <1>5, <1>6, <1>8, <1>11

LEMMA SymbolRead ==
  ASSUME NEW A, "message" \in A, NEW text \in Seq(A), NEW k \in 0..(Len(text) - 1)
  PROVE  Parsed(SubSeq(text, 1, k + 1)) = ParsedNext(Parsed(SubSeq(text, 1, k)), text[k + 1])
<1> DEFINE m == k + 1
           s == SubSeq(text, 1, k)
<1>1. m \in 1..Len(text) /\ m - 1 = k /\ 1 \in 1..Len(text) /\ k \in 0..Len(text) /\ k <= k
  BY LenProperties
<1>2. SubSeq(text, 1, m) = Append(s, text[m])
  <2>1. SubSeq(text, 1, m) = SubSeq(text, 1, m - 1) \o <<text[m]>>
    <3> HIDE DEF m
    <3> QED BY <1>1, SubSeqRecursiveSecond
  <2>2. s \in Seq(A) /\ text[m] \in A
    <3>1. s \in Seq(A)
      BY <1>1, Arrives
    <3> HIDE DEF m
    <3> QED BY <1>1, <3>1, ElementOfSeq
  <2>3. Append(s, text[m]) = s \o <<text[m]>>
    <3> DEFINE e == text[m]
    <3> HIDE DEF s, e
    <3> QED BY <2>2, AppendIsConcat DEF e
  <2> HIDE DEF m
  <2> QED BY <1>1, <2>1, <2>3
<1>3. s \in Seq(A) /\ text[m] \in A
  <2>1. s \in Seq(A)
    BY <1>1, Arrives
  <2> HIDE DEF m
  <2> QED BY <1>1, <2>1, ElementOfSeq
<1> DEFINE c == text[m]
<1>4. Parsed(Append(s, c)) = ParsedNext(Parsed(s), c)
  <2> HIDE DEF s, c
  <2> QED BY <1>3, ParsedStep DEF c
<1> HIDE DEF s
<1>5. Parsed(SubSeq(text, 1, m)) = ParsedNext(Parsed(s), text[m])
  BY <1>2, <1>4
<1> QED BY <1>5 DEF s

(* The parser within a frame, and after it *)
FrameReadTo(answer, q, r) ==
  Parsed(SubSeq(TextOf(answer), 1, 8 * q + r)) = StateAt(answer[q + 1], r, EventsSent(answer, q))

LEMMA FrameRead ==
  ASSUME NEW answer, AnswerOK(answer), NEW q \in 0..(Len(answer) - 1), FrameReadTo(answer, q, 0)
  PROVE  /\ \A r \in 0..7 : FrameReadTo(answer, q, r)
         /\ Parsed(SubSeq(TextOf(answer), 1, 8 * (q + 1))) =
              StateAt(answer[q + 1], 0, EventsSent(answer, q + 1))
<1> DEFINE T == TextOf(answer)
           name == answer[q + 1]
           sent == EventsSent(answer, q)
           N == Len(answer)
<1>1. /\ N \in Nat /\ T \in Seq(Symbols) /\ Len(T) = 8 * N /\ "message" \in Symbols
      /\ \A r \in 1..8 : 8 * q + r \in 1..8 * N /\ T[8 * q + r] = SymbolAt(name, r)
  BY TextOfAt DEF Symbols
<1>2. name \in EventNames /\ EventAt(name) \in SentEvents /\ sent \in Seq(SentEvents)
  BY SentNext
<1>3. ASSUME NEW r \in 0..7, FrameReadTo(answer, q, r)
      PROVE  Parsed(SubSeq(T, 1, 8 * q + (r + 1))) =
               IF r = 7 THEN StateAt(name, 0, Append(sent, EventAt(name)))
                        ELSE StateAt(name, r + 1, sent)
  <2> DEFINE k == 8 * q + r
  <2>1. k \in 0..(Len(T) - 1) /\ k + 1 = 8 * q + (r + 1) /\ r + 1 \in 1..8
    <3>1. 8 * q + (r + 1) \in 1..8 * N
      BY <1>1, SMTT(30)
    <3> HIDE DEF T
    <3> QED BY <1>1, <3>1
  <2>2. T[k + 1] = SymbolAt(name, r + 1)
    <3>1. T[8 * q + (r + 1)] = SymbolAt(name, r + 1)
      BY <1>1, <2>1
    <3> HIDE DEF T, k
    <3> QED BY <2>1, <3>1
  <2>3. Parsed(SubSeq(T, 1, k + 1)) = ParsedNext(Parsed(SubSeq(T, 1, k)), T[k + 1])
    <3>1. T \in Seq(Symbols) /\ "message" \in Symbols
      BY <1>1
    <3> HIDE DEF T, k
    <3> QED BY <2>1, <3>1, SymbolRead
  <2>4. Parsed(SubSeq(T, 1, k)) = StateAt(name, r, sent)
    BY <1>3 DEF FrameReadTo
  <2>5. ParsedNext(StateAt(name, r, sent), SymbolAt(name, r + 1)) =
          IF r = 7 THEN StateAt(name, 0, Append(sent, EventAt(name))) ELSE StateAt(name, r + 1, sent)
    <3> HIDE DEF name, sent
    <3> QED BY <1>2, NextSymbol
  <2> DEFINE j == k + 1
  <2>6. Parsed(SubSeq(T, 1, j)) =
          IF r = 7 THEN StateAt(name, 0, Append(sent, EventAt(name))) ELSE StateAt(name, r + 1, sent)
    <3> HIDE DEF T, k, name, sent
    <3> QED BY <2>2, <2>3, <2>4, <2>5
  <2>7. j = 8 * q + (r + 1)
    BY <2>1
  <2> HIDE DEF T, j, name, sent
  <2> QED BY <2>6, <2>7
<1>4. \A r \in 0..7 : FrameReadTo(answer, q, r)
  <2> DEFINE S == {r \in Nat : r \in 0..7 => FrameReadTo(answer, q, r)}
  <2>1. 0 \in S
    OBVIOUS
  <2>2. ASSUME NEW r \in Nat, r \in S PROVE r + 1 \in S
    <3> SUFFICES ASSUME r + 1 \in 0..7 PROVE FrameReadTo(answer, q, r + 1)
      OBVIOUS
    <3>1. r \in 0..7 /\ r # 7 /\ FrameReadTo(answer, q, r)
      BY <2>2
    <3> HIDE DEF T, name, sent
    <3>2. Parsed(SubSeq(T, 1, 8 * q + (r + 1))) = StateAt(name, r + 1, sent)
      BY <1>3, <3>1
    <3> QED BY <3>2 DEF FrameReadTo, T, name, sent
  <2>3. Nat \subseteq S
    <3> HIDE DEF S
    <3> QED BY <2>1, <2>2, NumberInduction
  <2> QED BY <2>3
<1>5. Parsed(SubSeq(T, 1, 8 * q + (7 + 1))) = StateAt(name, 0, Append(sent, EventAt(name)))
  <2>1. 7 \in 0..7 /\ FrameReadTo(answer, q, 7)
    BY <1>4
  <2> HIDE DEF T, name, sent
  <2> QED BY <1>3, <2>1
<1>6. EventsSent(answer, q + 1) = Append(sent, EventAt(name))
  BY SentNext
<1>7. 8 * q + (7 + 1) = 8 * (q + 1)
  OBVIOUS
<1>8. Parsed(SubSeq(T, 1, 8 * (q + 1))) = StateAt(name, 0, EventsSent(answer, q + 1))
  <2> HIDE DEF T, name, sent
  <2> QED BY <1>5, <1>6, <1>7
<1> QED BY <1>4, <1>8

LEMMA AnswerParsed ==
  ASSUME NEW answer, AnswerOK(answer)
  PROVE  /\ \A q \in 0..(Len(answer) - 1), r \in 0..7 : FrameReadTo(answer, q, r)
         /\ \A q \in 0..Len(answer) :
              Parsed(SubSeq(TextOf(answer), 1, 8 * q)) =
                [fields |-> NoFields, events |-> EventsSent(answer, q), rest |-> <<>>]
<1> DEFINE T == TextOf(answer)
           N == Len(answer)
           Between(q) == Parsed(SubSeq(T, 1, 8 * q)) =
                           [fields |-> NoFields, events |-> EventsSent(answer, q), rest |-> <<>>]
           S == {q \in Nat : q \in 0..N => Between(q)}
<1>1. N \in Nat /\ T \in Seq(Symbols) /\ "message" \in Symbols
  BY TextOfAt DEF Symbols
<1>2. \A name, e : StateAt(name, 0, e) = [fields |-> NoFields, events |-> e, rest |-> <<>>]
  BY DEF StateAt, FieldsAt, RestAt, NoFields
<1>3. ASSUME NEW q \in 0..(N - 1), Between(q)
      PROVE  Between(q + 1) /\ \A r \in 0..7 : FrameReadTo(answer, q, r)
  <2>1. FrameReadTo(answer, q, 0)
    <3>1. 8 * q + 0 = 8 * q
      BY <1>1
    <3>2. Parsed(SubSeq(T, 1, 8 * q + 0)) = StateAt(answer[q + 1], 0, EventsSent(answer, q))
      <4> HIDE DEF T
      <4> QED BY <1>2, <1>3, <3>1
    <3> QED BY <3>2 DEF FrameReadTo
  <2>2. /\ \A r \in 0..7 : FrameReadTo(answer, q, r)
        /\ Parsed(SubSeq(T, 1, 8 * (q + 1))) = StateAt(answer[q + 1], 0, EventsSent(answer, q + 1))
    BY <2>1, FrameRead
  <2>3. Between(q + 1)
    BY <1>2, <2>2
  <2> QED BY <2>2, <2>3
<1>4. 0 \in S
  <2>1. SubSeq(T, 1, 8 * 0) = <<>>
    <3>1. 8 * 0 = 0
      OBVIOUS
    <3>2. SubSeq(T, 1, 0) = <<>>
      BY <1>1
    <3> QED BY <3>1, <3>2
  <2>2. Parsed(<<>>) = [fields |-> NoFields, events |-> <<>>, rest |-> <<>>]
    BY <1>1, EmptySeq, ParsedStep
  <2>3. EventsSent(answer, 0) = <<>>
    BY DEF EventsSent
  <2> QED BY <2>1, <2>2, <2>3
<1>5. ASSUME NEW q \in Nat, q \in S PROVE q + 1 \in S
  <2> SUFFICES ASSUME q + 1 \in 0..N PROVE Between(q + 1)
    OBVIOUS
  <2>1. q \in 0..(N - 1) /\ Between(q)
    BY <1>1, <1>5
  <2> HIDE DEF Between
  <2> QED BY <1>3, <2>1
<1>6. Nat \subseteq S
  <2> HIDE DEF S
  <2> QED BY <1>4, <1>5, NumberInduction
<1>7. \A q \in 0..N : Between(q)
  BY <1>1, <1>6
<1>8. \A q \in 0..(N - 1), r \in 0..7 : FrameReadTo(answer, q, r)
  <2> TAKE q \in 0..(N - 1), r \in 0..7
  <2>1. Between(q)
    <3>1. q \in 0..N
      BY <1>1
    <3> HIDE DEF Between
    <3> QED BY <1>7, <3>1
  <2> HIDE DEF Between
  <2> QED BY <1>3, <2>1
<1> QED BY <1>7, <1>8

(* What is held after r symbols of a frame, should the body end there *)
HeldData(r) == IF r < 4 THEN <<>> ELSE IF r = 4 THEN << <<>> >> ELSE IF r = 5 THEN << <<"{">> >> ELSE <<Whole>>
HeldAt(name, r) == [event |-> <<name>>, data |-> HeldData(r), id |-> <<>>]

LEMMA EmitNamed ==
  ASSUME NEW name, NEW data
  PROVE  EmitCurrent([name |-> <<name>>, data |-> data, id |-> <<>>]).events =
           <<[event |-> <<name>>, data |-> data, id |-> <<>>]>>
<1> DEFINE f == [name |-> <<name>>, data |-> data, id |-> <<>>]
<1>1. f.name = <<name>> /\ f.data = data /\ f.id = <<>> /\ <<name>> # <<>>
  OBVIOUS
<1>2. f # NoFields
  <2>1. NoFields.name = <<>>
    BY DEF NoFields
  <2> HIDE DEF f
  <2> QED BY <1>1, <2>1
<1> HIDE DEF f
<1>3. EmitCurrent(f).events = <<[event |-> f.name, data |-> f.data, id |-> f.id]>>
  BY <1>1, <1>2 DEF EmitCurrent
<1> QED BY <1>1, <1>3 DEF f

LEMMA EmitNothing == EmitCurrent(NoFields) = [fields |-> NoFields, events |-> <<>>]
BY DEF EmitCurrent

LEMMA LastLineOf ==
  ASSUME NEW f, NEW line
  PROVE  /\ \A g : ProcessLine(f, WithoutCR(line)) = [fields |-> g, events |-> <<>>]
                     => LastLine(f, line) = <<>> \o EmitCurrent(g).events
         /\ ProcessLine(f, WithoutCR(line)) = EmitCurrent(f)
              => LastLine(f, line) = EmitCurrent(f).events \o <<>>
<1> DEFINE done == ProcessLine(f, WithoutCR(line))
<1>1. LastLine(f, line) = done.events \o EmitCurrent(done.fields).events
  BY DEF LastLine
<1>2. ASSUME NEW g, done = [fields |-> g, events |-> <<>>]
      PROVE  LastLine(f, line) = <<>> \o EmitCurrent(g).events
  <2> HIDE DEF done
  <2>1. done.events = <<>> /\ done.fields = g
    BY <1>2
  <2> QED BY <1>1, <2>1
<1>3. ASSUME done = EmitCurrent(f)
      PROVE  LastLine(f, line) = EmitCurrent(f).events \o <<>>
  <2> HIDE DEF done
  <2>1. EmitCurrent(f).fields = NoFields
    BY DEF EmitCurrent
  <2>2. EmitCurrent(done.fields).events = <<>>
    <3>1. done.fields = NoFields
      BY <1>3, <2>1
    <3> QED BY <3>1, EmitNothing
  <2> QED BY <1>1, <1>3, <2>2
<1> QED BY <1>2, <1>3

LEMMA HeldEvents ==
  ASSUME NEW name \in EventNames, NEW r \in 0..7
  PROVE  LastLine(FieldsAt(name, r), RestAt(name, r)) = IF r < 2 THEN <<>> ELSE <<HeldAt(name, r)>>
<1> DEFINE F(k) == FieldsAt(name, k)
           R(k) == RestAt(name, k)
           named(d) == [name |-> <<name>>, data |-> d, id |-> <<>>]
           one(d) == <<[event |-> <<name>>, data |-> d, id |-> <<>>]>>
<1>1. \A k : F(k) = [name |-> F(k).name, data |-> F(k).data, id |-> F(k).id]
  BY DEF FieldsAt
<1>2. \A d : EmitCurrent(named(d)).events = one(d) /\ <<>> \o one(d) = one(d) /\ one(d) \o <<>> = one(d)
  <2> TAKE d
  <2> DEFINE e == [event |-> <<name>>, data |-> d, id |-> <<>>]
  <2>1. EmitCurrent(named(d)).events = one(d)
    BY EmitNamed
  <2>2. <<>> \o <<e>> = <<e>> /\ <<e>> \o <<>> = <<e>>
    <3>1. <<e>> \in Seq({e})
      OBVIOUS
    <3> HIDE DEF e
    <3> QED BY <3>1, ConcatEmptySeq
  <2> QED BY <2>1, <2>2
<1>3. NoFields = [name |-> <<>>, data |-> <<>>, id |-> <<>>] /\ <<>> \o <<>> = <<>>
  BY DEF NoFields
<1>4. \A d, k : HeldData(k) = d => <<HeldAt(name, k)>> = one(d)
  BY DEF HeldAt
<1> HIDE DEF F, R, one
<1>5. CASE r = 0
  <2>1. WithoutCR(R(0)) = <<>> /\ F(0) = NoFields
    BY FrameLines, FrameTable DEF F, R
  <2>2. ProcessLine(F(0), <<>>) = EmitCurrent(F(0))
    BY <1>1, FrameFields
  <2>3. LastLine(F(0), R(0)) = EmitCurrent(F(0)).events \o <<>>
    BY <2>1, <2>2, LastLineOf
  <2>4. EmitCurrent(F(0)).events = <<>>
    BY <2>1, EmitNothing
  <2>5. LastLine(F(0), R(0)) = <<>>
    BY <1>3, <2>3, <2>4
  <2> QED BY <1>5, <2>5 DEF F, R
<1>6. CASE r = 1
  <2>1. WithoutCR(R(1)) = <<"event:">> /\ F(1) = NoFields
    BY FrameLines, FrameTable DEF F, R
  <2>2. ProcessLine(F(1), <<"event:">>) =
          [fields |-> [name |-> <<>>, data |-> F(1).data, id |-> F(1).id], events |-> <<>>]
    BY <1>1, FrameFields
  <2>3. F(1).data = <<>> /\ F(1).id = <<>>
    BY <1>3, <2>1
  <2>4. ProcessLine(F(1), WithoutCR(R(1))) = [fields |-> NoFields, events |-> <<>>]
    BY <1>3, <2>1, <2>2, <2>3
  <2>5. LastLine(F(1), R(1)) = <<>> \o EmitCurrent(NoFields).events
    BY <2>4, LastLineOf
  <2>6. LastLine(F(1), R(1)) = <<>>
    BY <1>3, <2>5, EmitNothing
  <2> QED BY <1>6, <2>6 DEF F, R
<1>7. CASE r = 2
  <2>1. WithoutCR(R(2)) = <<"event:", name>> /\ F(2) = NoFields
    BY FrameLines, FrameTable DEF F, R
  <2>2. ProcessLine(F(2), <<"event:", name>>) =
          [fields |-> [name |-> <<name>>, data |-> F(2).data, id |-> F(2).id], events |-> <<>>]
    BY <1>1, FrameFields
  <2>3. F(2).data = <<>> /\ F(2).id = <<>>
    BY <1>3, <2>1
  <2>4. ProcessLine(F(2), WithoutCR(R(2))) = [fields |-> named(<<>>), events |-> <<>>]
    BY <2>1, <2>2, <2>3
  <2>5. LastLine(F(2), R(2)) = <<>> \o EmitCurrent(named(<<>>)).events
    <3> DEFINE g == named(<<>>)
    <3> HIDE DEF g
    <3> QED BY <2>4, LastLineOf DEF g
  <2>6. LastLine(F(2), R(2)) = one(<<>>)
    <3> HIDE DEF named
    <3> QED BY <1>2, <2>5
  <2>7. HeldData(2) = <<>>
    BY DEF HeldData
  <2> QED BY <1>4, <1>7, <2>6, <2>7 DEF F, R
<1>8. ASSUME NEW k, NEW d, WithoutCR(R(k)) = <<>>, F(k) = named(d)
      PROVE  LastLine(F(k), R(k)) = one(d)
  <2>1. ProcessLine(F(k), <<>>) = EmitCurrent(F(k))
    BY <1>1, FrameFields
  <2>2. LastLine(F(k), R(k)) = EmitCurrent(F(k)).events \o <<>>
    BY <1>8, <2>1, LastLineOf
  <2>3. EmitCurrent(F(k)).events = one(d)
    BY <1>2, <1>8
  <2> QED BY <1>2, <2>2, <2>3
<1>9. ASSUME NEW k, NEW d, F(k) = named(<<>>),
             ProcessLine(F(k), WithoutCR(R(k))) =
               [fields |-> [name |-> F(k).name, data |-> Append(F(k).data, d), id |-> F(k).id],
                events |-> <<>>]
      PROVE  LastLine(F(k), R(k)) = one(<<d>>)
  <2>1. F(k).name = <<name>> /\ F(k).data = <<>> /\ F(k).id = <<>>
    BY <1>9
  <2>2. Append(F(k).data, d) = <<d>>
    BY <2>1, AppendToNone
  <2>3. ProcessLine(F(k), WithoutCR(R(k))) = [fields |-> named(<<d>>), events |-> <<>>]
    BY <1>9, <2>1, <2>2
  <2>4. LastLine(F(k), R(k)) = <<>> \o EmitCurrent(named(<<d>>)).events
    <3> DEFINE g == named(<<d>>)
    <3> HIDE DEF g
    <3> QED BY <2>3, LastLineOf DEF g
  <2> HIDE DEF named
  <2> QED BY <1>2, <2>4
<1>10. CASE r = 3
  <2>1. WithoutCR(R(3)) = <<>> /\ F(3) = named(<<>>)
    BY FrameLines, FrameTable DEF F, R
  <2>2. LastLine(F(3), R(3)) = one(<<>>) /\ HeldData(3) = <<>>
    BY <1>8, <2>1 DEF HeldData
  <2> QED BY <1>4, <1>10, <2>2 DEF F, R
<1>11. CASE r = 4
  <2>1. WithoutCR(R(4)) = <<"data:">> /\ F(4) = named(<<>>)
    BY FrameLines, FrameTable DEF F, R
  <2>2. ProcessLine(F(4), <<"data:">>) =
          [fields |-> [name |-> F(4).name, data |-> Append(F(4).data, <<>>), id |-> F(4).id],
           events |-> <<>>]
    BY <1>1, FrameFields
  <2>3. LastLine(F(4), R(4)) = one(<< <<>> >>)
    BY <1>9, <2>1, <2>2
  <2>4. HeldData(4) = << <<>> >>
    BY DEF HeldData
  <2> QED BY <1>4, <1>11, <2>3, <2>4 DEF F, R
<1>12. CASE r = 5
  <2>1. WithoutCR(R(5)) = <<"data:", "{">> /\ F(5) = named(<<>>)
    BY FrameLines, FrameTable DEF F, R
  <2>2. ProcessLine(F(5), <<"data:", "{">>) =
          [fields |-> [name |-> F(5).name, data |-> Append(F(5).data, <<"{">>), id |-> F(5).id],
           events |-> <<>>]
    BY <1>1, FrameFields
  <2>3. LastLine(F(5), R(5)) = one(<< <<"{">> >>)
    BY <1>9, <2>1, <2>2
  <2>4. HeldData(5) = << <<"{">> >>
    BY DEF HeldData
  <2> DEFINE d == << <<"{">> >>
  <2> HIDE DEF d
  <2>5. <<HeldAt(name, 5)>> = LastLine(F(5), R(5))
    BY <1>4, <2>3, <2>4 DEF d
  <2> QED BY <1>12, <2>5 DEF F, R
<1>13. CASE r = 6
  <2>1. WithoutCR(R(6)) = <<"data:", "{", "}">> /\ F(6) = named(<<>>)
    BY FrameLines, FrameTable DEF F, R
  <2>2. ProcessLine(F(6), <<"data:", "{", "}">>) =
          [fields |-> [name |-> F(6).name, data |-> Append(F(6).data, Whole), id |-> F(6).id],
           events |-> <<>>]
    BY <1>1, FrameFields
  <2>3. LastLine(F(6), R(6)) = one(<<Whole>>)
    BY <1>9, <2>1, <2>2
  <2>4. HeldData(6) = <<Whole>>
    BY DEF HeldData
  <2> QED BY <1>4, <1>13, <2>3, <2>4 DEF F, R
<1>14. CASE r = 7
  <2>1. WithoutCR(R(7)) = <<>> /\ F(7) = named(<<Whole>>)
    BY FrameLines, FrameTable DEF F, R
  <2>2. LastLine(F(7), R(7)) = one(<<Whole>>)
    BY <1>8, <2>1
  <2>3. HeldData(7) = <<Whole>>
    BY DEF HeldData
  <2> QED BY <1>4, <1>14, <2>2, <2>3 DEF F, R
<1>15. r = 0 \/ r = 1 \/ r = 2 \/ r = 3 \/ r = 4 \/ r = 5 \/ r = 6 \/ r = 7
  OBVIOUS
<1> QED BY <1>5, <1>6, <1>7, <1>10, <1>11, <1>12, <1>13, <1>14, <1>15

(* What the page makes of it *)
KindAt(name, r) ==
  IF name = "error" /\ r > 1 THEN "error"
  ELSE IF name \in {"token", "completed"} /\ r > 5 THEN name ELSE "ignored"

LEMMA HeldKind ==
  ASSUME NEW name \in EventNames, NEW r \in 2..8
  PROVE  ChatEvent(HeldAt(name, r)) = KindAt(name, r)
<1> DEFINE e == HeldAt(name, r)
<1>1. e.event = <<name>> /\ e.data = HeldData(r)
  BY DEF HeldAt
<1>2. Head(<<name>>) = name /\ \A other : <<name>> = <<other>> <=> name = other
  OBVIOUS
<1>3. r < 6 => HeldData(r) # <<Whole>>
  <2>1. <<>> # <<Whole>>
    OBVIOUS
  <2>2. << <<>> >> # <<Whole>>
    <3>1. <<>> # Whole
      BY DEF Whole
    <3> QED BY <3>1
  <2>3. << <<"{">> >> # <<Whole>>
    <3>1. <<"{">> # Whole
      <4> DEFINE half == <<"{">>
      <4>1. Len(half) = 1 /\ Len(Whole) = 2
        BY DEF Whole
      <4> HIDE DEF half
      <4>2. half # Whole
        BY <4>1
      <4> QED BY <4>2 DEF half
    <3> QED BY <3>1
  <2>4. r < 6 => r < 4 \/ r = 4 \/ r = 5
    OBVIOUS
  <2> QED BY <2>1, <2>2, <2>3, <2>4 DEF HeldData
<1>4. r > 5 => HeldData(r) = <<Whole>>
  <2> SUFFICES ASSUME r > 5 PROVE HeldData(r) = <<Whole>>
    OBVIOUS
  <2>1. ~(r < 4) /\ r # 4 /\ r # 5
    OBVIOUS
  <2> QED BY <2>1, Zenon DEF HeldData
<1> HIDE DEF e
<1>5. CASE name = "error"
  <2>1. e.event = <<"error">> /\ e.event # <<"token">> /\ e.event # <<"completed">>
    BY <1>1, <1>2, <1>5
  <2>2. ChatEvent(e) = "error"
    BY <2>1 DEF ChatEvent
  <2> QED BY <1>5, <2>2 DEF e, KindAt
<1>6. CASE name \in {"token", "completed"} /\ r > 5
  <2>1. e.event \in {<<"token">>, <<"completed">>} /\ e.data = <<Whole>> /\ Head(e.event) = name
    BY <1>1, <1>2, <1>4, <1>6
  <2>2. ChatEvent(e) = name
    BY <2>1 DEF ChatEvent
  <2> QED BY <1>6, <2>2 DEF e, KindAt
<1>7. CASE name \in {"token", "completed"} /\ ~(r > 5)
  <2>1. e.data # <<Whole>> /\ e.event # <<"error">>
    BY <1>1, <1>2, <1>3, <1>7
  <2>2. ChatEvent(e) = "ignored"
    BY <2>1 DEF ChatEvent
  <2> QED BY <1>7, <2>2 DEF e, KindAt
<1>8. CASE name \notin {"token", "completed", "error"}
  <2>1. e.event # <<"error">> /\ e.event # <<"token">> /\ e.event # <<"completed">>
    BY <1>1, <1>2, <1>8
  <2>2. ChatEvent(e) = "ignored"
    BY <2>1 DEF ChatEvent
  <2> QED BY <1>8, <2>2 DEF e, KindAt
<1> QED BY <1>5, <1>6, <1>7, <1>8

(* What the page has heard once q frames of an answer were read *)
Named(answer, q, name) == {i \in 1..q : answer[i] = name}
Outcome(answer, q) ==
  [tokens |-> Cardinality(Named(answer, q, "token")),
   terminal |-> IF q > 0 /\ answer[q] \in {"completed", "error"} THEN answer[q] ELSE "none"]

LEMMA NamedNext ==
  ASSUME NEW answer, NEW q \in Nat, NEW name
  PROVE  /\ Named(answer, 0, name) = {} /\ Cardinality({}) = 0
         /\ IsFiniteSet(Named(answer, q, name)) /\ Cardinality(Named(answer, q, name)) \in Nat
         /\ answer[q + 1] # name => Named(answer, q + 1, name) = Named(answer, q, name)
         /\ answer[q + 1] = name =>
              /\ Named(answer, q + 1, name) = Named(answer, q, name) \cup {q + 1}
              /\ Cardinality(Named(answer, q, name) \cup {q + 1}) =
                   Cardinality(Named(answer, q, name)) + 1
<1>1. Named(answer, 0, name) = {} /\ Cardinality({}) = 0
  BY FS_EmptySet DEF Named
<1>2. IsFiniteSet(1..q)
  BY FS_Interval
<1>3. Named(answer, q, name) \subseteq 1..q
  BY DEF Named
<1>4. IsFiniteSet(Named(answer, q, name)) /\ Cardinality(Named(answer, q, name)) \in Nat
  BY <1>2, <1>3, FS_Subset, FS_CardinalityType
<1>5. answer[q + 1] # name => Named(answer, q + 1, name) = Named(answer, q, name)
  BY DEF Named
<1>6. answer[q + 1] = name => Named(answer, q + 1, name) = Named(answer, q, name) \cup {q + 1}
  BY DEF Named
<1>7. q + 1 \notin Named(answer, q, name)
  BY <1>3
<1>8. Cardinality(Named(answer, q, name) \cup {q + 1}) = Cardinality(Named(answer, q, name)) + 1
  <2> DEFINE S == Named(answer, q, name)
             k == q + 1
  <2> HIDE DEF S, k
  <2> QED BY <1>4, <1>7, FS_AddElement DEF S, k
<1> QED BY <1>1, <1>4, <1>5, <1>6, <1>8

LEMMA OutcomeType ==
  ASSUME NEW answer, AnswerOK(answer), NEW q \in 0..Len(answer)
  PROVE  /\ Outcome(answer, q) \in Heard
         /\ Outcome(answer, 0) = Unheard
         /\ q < Len(answer) => Outcome(answer, q).terminal = "none"
<1>1. q \in Nat /\ Len(answer) \in Nat
  BY TextOfAt
<1>2. Cardinality(Named(answer, q, "token")) \in Nat
  BY <1>1, NamedNext
<1>3. Outcome(answer, q) \in Heard
  BY <1>2 DEF Outcome, Heard
<1>4. Outcome(answer, 0) = Unheard
  <2>1. Cardinality(Named(answer, 0, "token")) = 0
    BY <1>1, NamedNext
  <2>2. Outcome(answer, 0).terminal = "none"
    BY DEF Outcome
  <2>3. Outcome(answer, 0) = [tokens |-> Cardinality(Named(answer, 0, "token")), terminal |-> "none"]
    BY DEF Outcome
  <2> QED BY <2>1, <2>3 DEF Unheard
<1>5. q < Len(answer) => Outcome(answer, q).terminal = "none"
  <2> SUFFICES ASSUME q < Len(answer) PROVE Outcome(answer, q).terminal = "none"
    OBVIOUS
  <2>1. q > 0 => answer[q] \notin {"completed", "error"}
    BY <1>1 DEF AnswerOK
  <2> QED BY <2>1 DEF Outcome
<1> QED BY <1>3, <1>4, <1>5

(* One more event after q frames, of which r symbols were read *)
TokensBy(answer, q, r) ==
  Named(answer, q, "token") \cup (IF answer[q + 1] = "token" /\ r > 5 THEN {q + 1} ELSE {})
Ending(name, r) == IF name = "error" \/ (name = "completed" /\ r > 5) THEN name ELSE "none"
OutcomeBy(answer, q, r) ==
  [tokens |-> Cardinality(TokensBy(answer, q, r)), terminal |-> Ending(answer[q + 1], r)]

LEMMA HeardNext ==
  ASSUME NEW answer, AnswerOK(answer), NEW q \in 0..(Len(answer) - 1), NEW stops,
         NEW e, NEW r \in 2..8, ChatEvent(e) = KindAt(answer[q + 1], r)
  PROVE  HearNext(Outcome(answer, q), e, stops) = OutcomeBy(answer, q, r)
<1> DEFINE name == answer[q + 1]
           b == Outcome(answer, q)
           T == Named(answer, q, "token")
           n == Cardinality(T)
<1>1. q \in Nat /\ q \in 0..Len(answer) /\ q < Len(answer)
  BY TextOfAt, SMTT(30)
<1>2. b = [tokens |-> n, terminal |-> "none"]
  <2>1. b.terminal = "none"
    BY <1>1, OutcomeType
  <2> QED BY <2>1 DEF Outcome
<1>3. /\ name = "token" /\ r > 5 => Cardinality(TokensBy(answer, q, r)) = n + 1
      /\ ~(name = "token" /\ r > 5) => Cardinality(TokensBy(answer, q, r)) = n
  <2>1. name = "token" => Cardinality(T \cup {q + 1}) = n + 1
    BY <1>1, NamedNext
  <2>2. name = "token" /\ r > 5 => TokensBy(answer, q, r) = T \cup {q + 1}
    BY DEF TokensBy
  <2>3. ~(name = "token" /\ r > 5) => TokensBy(answer, q, r) = T
    BY DEF TokensBy
  <2> HIDE DEF T, name
  <2> QED BY <2>1, <2>2, <2>3
<1>4. b.tokens = n /\ b.terminal = "none"
  <2> HIDE DEF b, n
  <2> QED BY <1>2
<1>5. HearNext(b, e, stops) =
        CASE KindAt(name, r) = "token" -> [b EXCEPT !.tokens = @ + 1]
          [] KindAt(name, r) \in {"completed", "error"} -> [b EXCEPT !.terminal = KindAt(name, r)]
          [] OTHER -> b
  <2> HIDE DEF b
  <2> QED BY <1>4 DEF HearNext
<1>6. CASE name = "error"
  <2>1. KindAt(name, r) = "error"
    BY <1>6 DEF KindAt
  <2>2. HearNext(b, e, stops) = [tokens |-> n, terminal |-> "error"]
    <3> HIDE DEF b, n, name
    <3> QED BY <1>2, <1>5, <2>1
  <2>3. Ending(name, r) = "error"
    BY <1>6 DEF Ending
  <2>4. Cardinality(TokensBy(answer, q, r)) = n
    <3> HIDE DEF n
    <3> QED BY <1>3, <1>6
  <2>5. OutcomeBy(answer, q, r) = [tokens |-> n, terminal |-> "error"]
    <3> HIDE DEF n
    <3> QED BY <2>3, <2>4 DEF OutcomeBy
  <2> HIDE DEF n
  <2> QED BY <2>2, <2>5
<1>7. CASE name = "completed" /\ r > 5
  <2>1. KindAt(name, r) = "completed"
    BY <1>7 DEF KindAt
  <2>2. HearNext(b, e, stops) = [tokens |-> n, terminal |-> "completed"]
    <3> HIDE DEF b, n, name
    <3> QED BY <1>2, <1>5, <2>1
  <2>3. Ending(name, r) = "completed"
    BY <1>7 DEF Ending
  <2>4. Cardinality(TokensBy(answer, q, r)) = n
    <3> HIDE DEF n
    <3> QED BY <1>3, <1>7
  <2>5. OutcomeBy(answer, q, r) = [tokens |-> n, terminal |-> "completed"]
    <3> HIDE DEF n
    <3> QED BY <2>3, <2>4 DEF OutcomeBy
  <2> HIDE DEF n
  <2> QED BY <2>2, <2>5
<1>8. CASE name = "token" /\ r > 5
  <2>1. KindAt(name, r) = "token"
    BY <1>8 DEF KindAt
  <2>2. HearNext(b, e, stops) = [tokens |-> n + 1, terminal |-> "none"]
    <3> HIDE DEF b, n, name
    <3> QED BY <1>2, <1>4, <1>5, <2>1
  <2>3. Ending(name, r) = "none"
    BY <1>8 DEF Ending
  <2>4. Cardinality(TokensBy(answer, q, r)) = n + 1
    <3> HIDE DEF n
    <3> QED BY <1>3, <1>8
  <2>5. OutcomeBy(answer, q, r) = [tokens |-> n + 1, terminal |-> "none"]
    <3> HIDE DEF n
    <3> QED BY <2>3, <2>4 DEF OutcomeBy
  <2> HIDE DEF n
  <2> QED BY <2>2, <2>5
<1>9. CASE name # "error" /\ ~(name \in {"completed", "token"} /\ r > 5)
  <2>1. KindAt(name, r) = "ignored"
    BY <1>9 DEF KindAt
  <2>2. HearNext(b, e, stops) = [tokens |-> n, terminal |-> "none"]
    <3> HIDE DEF b, n, name
    <3> QED BY <1>2, <1>5, <2>1
  <2>3. Ending(name, r) = "none"
    BY <1>9 DEF Ending
  <2>4. Cardinality(TokensBy(answer, q, r)) = n
    <3> HIDE DEF n
    <3> QED BY <1>3, <1>9
  <2>5. OutcomeBy(answer, q, r) = [tokens |-> n, terminal |-> "none"]
    <3> HIDE DEF n
    <3> QED BY <2>3, <2>4 DEF OutcomeBy
  <2> HIDE DEF n
  <2> QED BY <2>2, <2>5
<1> QED BY <1>6, <1>7, <1>8, <1>9

LEMMA HeardSent ==
  ASSUME NEW answer, AnswerOK(answer), NEW q \in 0..Len(answer)
  PROVE  Hear(Unheard, EventsSent(answer, q), TRUE) = Outcome(answer, q)
<1> DEFINE N == Len(answer)
           Right(m) == Hear(Unheard, EventsSent(answer, m), TRUE) = Outcome(answer, m)
           S == {m \in Nat : m \in 0..N => Right(m)}
<1>1. N \in Nat
  BY TextOfAt
<1>2. Right(0)
  <2>1. EventsSent(answer, 0) = <<>>
    BY DEF EventsSent
  <2>2. <<>> \in Seq(Nat)
    BY EmptySeq
  <2>3. Hear(Unheard, <<>>, TRUE) = Unheard
    BY <2>2, UnheardType, HearConcat
  <2>4. Outcome(answer, 0) = Unheard
    BY OutcomeType
  <2> QED BY <2>1, <2>3, <2>4
<1>3. ASSUME NEW m \in 0..(N - 1), Right(m) PROVE Right(m + 1)
  <2> DEFINE name == answer[m + 1]
             e == EventAt(name)
             sent == EventsSent(answer, m)
  <2>2. /\ name \in EventNames /\ e \in SentEvents /\ sent \in Seq(SentEvents)
        /\ EventsSent(answer, m + 1) = Append(sent, e)
    BY SentNext
  <2>3. Hear(Unheard, Append(sent, e), TRUE) = HearNext(Hear(Unheard, sent, TRUE), e, TRUE)
    <3>1. HearTyped(SentEvents, Unheard, sent)
      BY <2>2, UnheardType DEF HearTyped
    <3>2. e \in SentEvents
      BY <2>2
    <3> DEFINE stops == TRUE
    <3> HIDE DEF e, sent, stops
    <3>3. Hear(Unheard, Append(sent, e), stops) = HearNext(Hear(Unheard, sent, stops), e, stops)
      BY <3>1, <3>2, HearStep
    <3> QED BY <3>3 DEF stops
  <2>4. ChatEvent(e) = KindAt(name, 8)
    <3>1. 8 \in 2..8 /\ HeldAt(name, 8) = e
      BY DEF HeldAt, HeldData, EventAt
    <3>2. name \in EventNames
      BY <2>2
    <3> HIDE DEF e, name
    <3> QED BY <3>1, <3>2, HeldKind
  <2>5. HearNext(Outcome(answer, m), e, TRUE) = OutcomeBy(answer, m, 8)
    <3>1. 8 \in 2..8
      OBVIOUS
    <3> HIDE DEF e
    <3> QED BY <2>4, <3>1, HeardNext
  <2>6. TokensBy(answer, m, 8) = Named(answer, m + 1, "token")
    <3>1. m \in Nat
      BY <1>1
    <3>2. CASE name = "token"
      <4>1. TokensBy(answer, m, 8) = Named(answer, m, "token") \cup {m + 1}
        BY <3>2 DEF TokensBy
      <4>2. Named(answer, m + 1, "token") = Named(answer, m, "token") \cup {m + 1}
        BY <3>1, <3>2 DEF Named
      <4> QED BY <4>1, <4>2
    <3>3. CASE name # "token"
      <4>1. TokensBy(answer, m, 8) = Named(answer, m, "token")
        BY <3>3 DEF TokensBy
      <4>2. Named(answer, m + 1, "token") = Named(answer, m, "token")
        BY <3>1, <3>3 DEF Named
      <4> QED BY <4>1, <4>2
    <3> QED BY <3>2, <3>3
  <2>7. Outcome(answer, m + 1) = OutcomeBy(answer, m, 8)
    <3>1. Ending(name, 8) = IF m + 1 > 0 /\ name \in {"completed", "error"} THEN name ELSE "none"
      BY DEF Ending
    <3> DEFINE k == m + 1
    <3> HIDE DEF k
    <3> QED BY <2>6, <3>1, Zenon DEF Outcome, OutcomeBy, k
  <2>8. Hear(Unheard, EventsSent(answer, m + 1), TRUE) = HearNext(Hear(Unheard, sent, TRUE), e, TRUE)
    BY <2>2, <2>3
  <2>9. Hear(Unheard, sent, TRUE) = Outcome(answer, m)
    BY <1>3
  <2> HIDE DEF name, e, sent
  <2>10. Hear(Unheard, EventsSent(answer, m + 1), TRUE) = Outcome(answer, m + 1)
    BY <2>5, <2>7, <2>8, <2>9
  <2> QED BY <2>10
<1> HIDE DEF Right
<1>4. 0 \in S
  BY <1>2
<1>5. ASSUME NEW m \in Nat, m \in S PROVE m + 1 \in S
  <2> SUFFICES ASSUME m + 1 \in 0..N PROVE Right(m + 1)
    OBVIOUS
  <2>1. m \in 0..(N - 1) /\ Right(m)
    BY <1>1, <1>5
  <2> QED BY <1>3, <2>1
<1>6. Nat \subseteq S
  <2> HIDE DEF S
  <2> QED BY <1>4, <1>5, NumberInduction
<1>7. Right(q)
  BY <1>1, <1>6
<1> QED BY <1>7 DEF Right

(* What arrived of an answer, m symbols of it *)
GotBy(answer, m, name, n) == {i \in DOMAIN answer : answer[i] = name /\ m >= 8 * (i - 1) + n}
TerminalBy(answer, m) ==
  CASE GotBy(answer, m, "completed", 6) # {} -> "completed"
    [] GotBy(answer, m, "error", 2) # {} -> "error"
    [] OTHER -> "none"
AsSent(answer, m, h) ==
  h.tokens = Cardinality(GotBy(answer, m, "token", 6)) /\ h.terminal = TerminalBy(answer, m)

LEMMA GotWithin ==
  ASSUME NEW answer, AnswerOK(answer), NEW q \in 0..(Len(answer) - 1), NEW r \in 0..7,
         NEW name, NEW n \in 1..8
  PROVE  GotBy(answer, 8 * q + r, name, n) =
           Named(answer, q, name) \cup (IF answer[q + 1] = name /\ r >= n THEN {q + 1} ELSE {})
<1> DEFINE N == Len(answer)
           m == 8 * q + r
           G == GotBy(answer, m, name, n)
           P == Named(answer, q, name)
<1>1. N \in Nat /\ q \in Nat /\ q < N /\ DOMAIN answer = 1..N
  BY TextOfAt DEF AnswerOK
<1>2. ASSUME NEW i \in 1..N
      PROVE  m >= 8 * (i - 1) + n <=> i \in 1..q \/ (i = q + 1 /\ r >= n)
  <2>1. CASE i < q + 1
    BY <1>1, <2>1
  <2>2. CASE i = q + 1
    BY <1>1, <2>2
  <2>3. CASE i > q + 1
    BY <1>1, <2>3
  <2> QED BY <1>1, <2>1, <2>2, <2>3
<1>3. \A i : i \in G <=> i \in 1..N /\ answer[i] = name /\ m >= 8 * (i - 1) + n
  BY <1>1 DEF GotBy
<1>4. \A i : i \in P <=> i \in 1..q /\ answer[i] = name
  BY DEF Named
<1>5. q + 1 \in 1..N /\ 1..q \subseteq 1..N
  BY <1>1
<1> HIDE DEF G, P, m, N
<1>6. CASE answer[q + 1] = name /\ r >= n
  <2>1. \A i : i \in G <=> i \in P \cup {q + 1}
    BY <1>2, <1>3, <1>4, <1>5, <1>6
  <2>2. G = P \cup {q + 1}
    BY <2>1
  <2> QED BY <1>6, <2>2 DEF G, P, m
<1>7. CASE ~(answer[q + 1] = name /\ r >= n)
  <2>1. \A i : i \in G <=> i \in P
    BY <1>2, <1>3, <1>4, <1>5, <1>7
  <2>2. G = P
    BY <2>1
  <2> QED BY <1>7, <2>2 DEF G, P, m
<1> QED BY <1>6, <1>7

LEMMA GotAll ==
  ASSUME NEW answer, AnswerOK(answer), NEW name, NEW n \in 1..8
  PROVE  GotBy(answer, 8 * Len(answer), name, n) = Named(answer, Len(answer), name)
<1> DEFINE N == Len(answer)
<1>1. N \in Nat /\ DOMAIN answer = 1..N
  BY TextOfAt DEF AnswerOK
<1>2. \A i \in 1..N : 8 * N >= 8 * (i - 1) + n
  BY <1>1
<1> HIDE DEF N
<1>3. GotBy(answer, 8 * N, name, n) = Named(answer, N, name)
  BY <1>1, <1>2 DEF GotBy, Named
<1> QED BY <1>3 DEF N

(* An answer that is cut within a frame *)
LEMMA SentWithin ==
  ASSUME NEW answer, AnswerOK(answer), NEW q \in 0..(Len(answer) - 1), NEW r \in 0..7,
         NEW h, h = [tokens |-> Cardinality(TokensBy(answer, q, r)),
                     terminal |-> IF r < 2 THEN "none" ELSE Ending(answer[q + 1], r)]
  PROVE  AsSent(answer, 8 * q + r, h)
<1> DEFINE name == answer[q + 1]
           m == 8 * q + r
           G(x, n) == GotBy(answer, m, x, n)
<1>0. \A x, n : n \in 1..8 =>
        G(x, n) = Named(answer, q, x) \cup (IF name = x /\ r >= n THEN {q + 1} ELSE {})
  BY GotWithin, ZenonT(30)
<1>1. G("token", 6) = TokensBy(answer, q, r)
  <2>1. r >= 6 <=> r > 5
    OBVIOUS
  <2>2. G("token", 6) = Named(answer, q, "token") \cup (IF name = "token" /\ r >= 6 THEN {q + 1} ELSE {})
    <3>1. 6 \in 1..8
      OBVIOUS
    <3> HIDE DEF G, name
    <3> QED BY <1>0, <3>1
  <2> QED BY <2>1, <2>2 DEF TokensBy
<1>2. \A x \in {"completed", "error"} : Named(answer, q, x) = {}
  <2>1. \A i \in 1..q : answer[i] \notin {"completed", "error"}
    BY TextOfAt DEF AnswerOK
  <2> QED BY <2>1 DEF Named
<1>3. ASSUME NEW x \in {"completed", "error"}, NEW n \in 1..8
      PROVE  G(x, n) # {} <=> name = x /\ r >= n
  <2>1. G(x, n) = Named(answer, q, x) \cup (IF name = x /\ r >= n THEN {q + 1} ELSE {})
    <3> HIDE DEF G, name
    <3> QED BY <1>0
  <2>2. Named(answer, q, x) = {}
    BY <1>2
  <2> HIDE DEF G, name
  <2> QED BY <2>1, <2>2
<1>4. (G("completed", 6) # {} <=> name = "completed" /\ r > 5) /\ (G("error", 2) # {} <=> name = "error" /\ r > 1)
  <2>1. (G("completed", 6) # {} <=> name = "completed" /\ r >= 6) /\ (G("error", 2) # {} <=> name = "error" /\ r >= 2)
    <3> HIDE DEF G, name
    <3> QED BY <1>3
  <2> HIDE DEF G, name
  <2> QED BY <2>1
<1>5. TerminalBy(answer, m) = IF r < 2 THEN "none" ELSE Ending(name, r)
  <2>1. TerminalBy(answer, m) = CASE G("completed", 6) # {} -> "completed"
                                  [] G("error", 2) # {} -> "error" [] OTHER -> "none"
    BY DEF TerminalBy
  <2> HIDE DEF G, name, m
  <2>2. CASE name = "completed" /\ r > 5
    <3>1. TerminalBy(answer, m) = "completed"
      BY <1>4, <2>1, <2>2
    <3>2. Ending(name, r) = "completed" /\ ~(r < 2)
      BY <2>2 DEF Ending
    <3> QED BY <3>1, <3>2
  <2>3. CASE name = "error" /\ r > 1
    <3>1. TerminalBy(answer, m) = "error"
      BY <1>4, <2>1, <2>3
    <3>2. Ending(name, r) = "error" /\ ~(r < 2)
      BY <2>3 DEF Ending
    <3> QED BY <3>1, <3>2
  <2>4. CASE ~(name = "completed" /\ r > 5) /\ ~(name = "error" /\ r > 1)
    <3>1. TerminalBy(answer, m) = "none"
      BY <1>4, <2>1, <2>4
    <3>2. r < 2 \/ Ending(name, r) = "none"
      BY <2>4 DEF Ending
    <3> QED BY <3>1, <3>2
  <2> QED BY <2>2, <2>3, <2>4
<1> DEFINE t == IF r < 2 THEN "none" ELSE Ending(name, r)
           k == Cardinality(TokensBy(answer, q, r))
<1>6. h.tokens = k /\ h.terminal = t
  <2>1. h = [tokens |-> k, terminal |-> t]
    OBVIOUS
  <2> HIDE DEF t, k
  <2> QED BY <2>1
<1>7. k = Cardinality(G("token", 6)) /\ t = TerminalBy(answer, m)
  BY <1>1, <1>5
<1> HIDE DEF t, k
<1> QED BY <1>6, <1>7 DEF AsSent

(* An answer that arrived whole *)
LEMMA SentAll ==
  ASSUME NEW answer, AnswerOK(answer)
  PROVE  AsSent(answer, 8 * Len(answer), Outcome(answer, Len(answer)))
<1> DEFINE N == Len(answer)
           m == 8 * N
           h == Outcome(answer, N)
<1>1. N \in Nat /\ \A i \in 1..(N - 1) : answer[i] \notin {"completed", "error"}
  BY TextOfAt DEF AnswerOK
<1>2. GotBy(answer, m, "token", 6) = Named(answer, N, "token")
  BY GotAll
<1>3. GotBy(answer, m, "completed", 6) = Named(answer, N, "completed")
  BY GotAll
<1>4. GotBy(answer, m, "error", 2) = Named(answer, N, "error")
  BY GotAll
<1>5. \A x \in {"completed", "error"} : Named(answer, N, x) # {} <=> N > 0 /\ answer[N] = x
  <2> TAKE x \in {"completed", "error"}
  <2>1. \A i \in 1..N : answer[i] = x => i = N
    BY <1>1
  <2>2. N > 0 => N \in 1..N
    BY <1>1
  <2> HIDE DEF N
  <2> QED BY <1>1, <2>1, <2>2 DEF Named
<1> DEFINE t == IF N > 0 /\ answer[N] \in {"completed", "error"} THEN answer[N] ELSE "none"
<1>6. TerminalBy(answer, m) = t
  <2>1. TerminalBy(answer, m) = CASE Named(answer, N, "completed") # {} -> "completed"
                                  [] Named(answer, N, "error") # {} -> "error" [] OTHER -> "none"
    <3> HIDE DEF N, m
    <3> QED BY <1>3, <1>4 DEF TerminalBy
  <2> HIDE DEF N, m
  <2> QED BY <1>5, <2>1
<1>7. h = [tokens |-> Cardinality(Named(answer, N, "token")), terminal |-> t]
  BY DEF Outcome
<1>8. h.tokens = Cardinality(Named(answer, N, "token")) /\ h.terminal = t
  <2> HIDE DEF h, t, N
  <2> QED BY <1>7
<1> HIDE DEF t, h, N, m
<1>9. AsSent(answer, m, h)
  BY <1>2, <1>6, <1>8 DEF AsSent
<1> QED BY <1>9 DEF m, h, N

(* What the page has heard of an answer that is cut after r symbols of a frame *)
LEMMA HeardWithin ==
  ASSUME NEW answer, AnswerOK(answer), NEW q \in 0..(Len(answer) - 1), NEW r \in 0..7,
         NEW p, p = Parsed(SubSeq(TextOf(answer), 1, 8 * q + r))
  PROVE  Hear(Hear(Unheard, p.events, TRUE), Held(p), FALSE) =
           [tokens |-> Cardinality(TokensBy(answer, q, r)),
            terminal |-> IF r < 2 THEN "none" ELSE Ending(answer[q + 1], r)]
<1> DEFINE T == TextOf(answer)
           m == 8 * q + r
           text == SubSeq(T, 1, m)
           name == answer[q + 1]
           sent == EventsSent(answer, q)
           h == Outcome(answer, q)
           k == Cardinality(TokensBy(answer, q, r))
<1>1. q \in 0..Len(answer) /\ q \in Nat /\ q < Len(answer) /\ name \in EventNames
  BY TextOfAt, SMTT(30)
<1>2. p = StateAt(name, r, sent)
  BY AnswerParsed DEF FrameReadTo
<1>3. p.events = sent /\ p.fields = FieldsAt(name, r) /\ p.rest = RestAt(name, r)
  <2> HIDE DEF sent, name
  <2> QED BY <1>2 DEF StateAt
<1>4. Hear(Unheard, p.events, TRUE) = h
  BY <1>1, <1>3, HeardSent
<1>5. Held(p) = IF r < 2 THEN <<>> ELSE <<HeldAt(name, r)>>
  <2>1. text \in Seq(Symbols) /\ "message" \in Symbols /\ LF \in Symbols
    <3>1. T \in Seq(Symbols) /\ Len(T) = 8 * Len(answer)
      BY TextOfAt
    <3>2. m \in 0..(8 * Len(answer))
      BY <1>1
    <3>3. m \in 0..Len(T)
      BY <3>1, <3>2
    <3>4. m <= m
      BY <3>2
    <3> HIDE DEF T, m
    <3> QED BY <3>1, <3>3, <3>4, Arrives DEF Symbols
  <2>2. p = Parsed(text)
    OBVIOUS
  <2>3. Flushed(Parsed(text).rest, Parsed(text).fields).events =
          LastLine(Parsed(text).fields, Parsed(text).rest)
    <3> HIDE DEF text
    <3> QED BY <2>1, FlushEnds
  <2>4. Held(p) = LastLine(p.fields, p.rest)
    <3> HIDE DEF text
    <3> QED BY <2>2, <2>3 DEF Held
  <2>5. LastLine(FieldsAt(name, r), RestAt(name, r)) = IF r < 2 THEN <<>> ELSE <<HeldAt(name, r)>>
    <3> HIDE DEF name
    <3> QED BY <1>1, HeldEvents
  <2> HIDE DEF text, name
  <2> QED BY <1>3, <2>4, <2>5
<1>6. h \in Heard /\ h.terminal = "none"
  BY <1>1, OutcomeType
<1>7. CASE r < 2
  <2>1. Held(p) = <<>>
    BY <1>5, <1>7
  <2>2. Hear(h, <<>>, FALSE) = h
    <3>1. <<>> \in Seq(Nat)
      BY EmptySeq
    <3> HIDE DEF h
    <3> QED BY <1>6, <3>1, HearConcat
  <2>3. h = [tokens |-> k, terminal |-> "none"]
    <3>1. TokensBy(answer, q, r) = Named(answer, q, "token")
      BY <1>7 DEF TokensBy
    <3>2. h = [tokens |-> Cardinality(Named(answer, q, "token")), terminal |-> h.terminal]
      BY DEF Outcome
    <3> HIDE DEF h
    <3> QED BY <1>6, <3>1, <3>2 DEF k
  <2> HIDE DEF h, k
  <2>4. Hear(Hear(Unheard, p.events, TRUE), Held(p), FALSE) = [tokens |-> k, terminal |-> "none"]
    BY <1>4, <2>1, <2>2, <2>3
  <2> QED BY <1>7, <2>4 DEF k
<1>8. CASE ~(r < 2)
  <2> DEFINE e == HeldAt(name, r)
  <2>1. Held(p) = <<e>> /\ r \in 2..8
    BY <1>5, <1>8
  <2>2. ChatEvent(e) = KindAt(name, r)
    <3> HIDE DEF name
    <3> QED BY <1>1, <2>1, HeldKind DEF name
  <2>3. Hear(h, <<e>>, FALSE) = HearNext(h, e, FALSE)
    <3> DEFINE stops == FALSE
               none == <<>>
               E == {e}
    <3>1. HearTyped(E, h, none) /\ e \in E
      BY <1>6, EmptySeq DEF HearTyped
    <3>2. Append(none, e) = <<e>>
      BY AppendToNone
    <3> HIDE DEF e, h, stops, E
    <3>3. Hear(h, none, stops) = h
      BY <3>1, HearStep
    <3> HIDE DEF none
    <3>4. Hear(h, Append(none, e), stops) = HearNext(Hear(h, none, stops), e, stops)
      BY <3>1, HearStep
    <3> QED BY <3>2, <3>3, <3>4 DEF stops
  <2>4. HearNext(h, e, FALSE) = OutcomeBy(answer, q, r)
    <3> DEFINE stops == FALSE
    <3> HIDE DEF e, stops
    <3>1. HearNext(Outcome(answer, q), e, stops) = OutcomeBy(answer, q, r)
      BY <2>1, <2>2, HeardNext
    <3> QED BY <3>1 DEF stops
  <2>5. OutcomeBy(answer, q, r) = [tokens |-> k, terminal |-> Ending(name, r)]
    BY DEF OutcomeBy
  <2> HIDE DEF h, k, e
  <2>6. Hear(Hear(Unheard, p.events, TRUE), Held(p), FALSE) = [tokens |-> k, terminal |-> Ending(name, r)]
    BY <1>4, <2>1, <2>3, <2>4, <2>5
  <2> QED BY <1>8, <2>6 DEF k
<1> QED BY <1>7, <1>8

LEMMA HeardAll ==
  ASSUME NEW answer, AnswerOK(answer), NEW p, p = Parsed(SubSeq(TextOf(answer), 1, 8 * Len(answer)))
  PROVE  Hear(Hear(Unheard, p.events, TRUE), Held(p), FALSE) = Outcome(answer, Len(answer))
<1> DEFINE N == Len(answer)
           sent == EventsSent(answer, N)
           h == Outcome(answer, N)
           text == SubSeq(TextOf(answer), 1, 8 * N)
<1>1. N \in Nat /\ N \in 0..N /\ "token" \in EventNames /\ 0 \in 0..7
  BY TextOfAt DEF EventNames
<1>2. p = [fields |-> NoFields, events |-> sent, rest |-> <<>>]
  <2>1. Parsed(SubSeq(TextOf(answer), 1, 8 * N)) =
          [fields |-> NoFields, events |-> EventsSent(answer, N), rest |-> <<>>]
    BY <1>1, AnswerParsed
  <2> QED BY <2>1
<1>3. p.events = sent /\ p.fields = FieldsAt("token", 0) /\ p.rest = RestAt("token", 0)
  <2>1. p.events = sent /\ p.fields = NoFields /\ p.rest = <<>>
    <3> HIDE DEF sent
    <3> QED BY <1>2
  <2> QED BY <2>1, FrameTable
<1>4. Hear(Unheard, p.events, TRUE) = h
  BY <1>1, <1>3, HeardSent
<1>5. Held(p) = <<>>
  <2>1. text \in Seq(Symbols) /\ "message" \in Symbols /\ LF \in Symbols
    <3> DEFINE T == TextOf(answer)
               m == 8 * N
    <3>1. T \in Seq(Symbols) /\ Len(T) = m
      BY TextOfAt
    <3>2. m \in 0..m /\ m <= m
      BY <1>1
    <3> HIDE DEF T, m
    <3> QED BY <3>1, <3>2, Arrives DEF Symbols, T, m
  <2>2. p = Parsed(text)
    OBVIOUS
  <2>3. Flushed(Parsed(text).rest, Parsed(text).fields).events =
          LastLine(Parsed(text).fields, Parsed(text).rest)
    <3> HIDE DEF text
    <3> QED BY <2>1, FlushEnds
  <2>4. Held(p) = LastLine(p.fields, p.rest)
    <3> HIDE DEF text
    <3> QED BY <2>2, <2>3 DEF Held
  <2>5. LastLine(FieldsAt("token", 0), RestAt("token", 0)) = <<>>
    BY <1>1, HeldEvents
  <2> HIDE DEF text
  <2> QED BY <1>3, <2>4, <2>5
<1>6. Hear(h, <<>>, FALSE) = h
  <2>1. h \in Heard
    BY <1>1, OutcomeType
  <2>2. <<>> \in Seq(Nat)
    BY EmptySeq
  <2> HIDE DEF h
  <2> QED BY <2>1, <2>2, HearConcat
<1> HIDE DEF h
<1>7. Hear(Hear(Unheard, p.events, TRUE), Held(p), FALSE) = h
  BY <1>4, <1>5, <1>6
<1> QED BY <1>7 DEF h

(* An answer that is cut anywhere is heard as it was sent. *)
LEMMA HeardAsSent ==
  ASSUME NEW answer, AnswerOK(answer), NEW m \in 0..Len(TextOf(answer)),
         NEW p, p = Parsed(SubSeq(TextOf(answer), 1, m))
  PROVE  AsSent(answer, m, Hear(Hear(Unheard, p.events, TRUE), Held(p), FALSE))
<1> DEFINE N == Len(answer)
           q == m \div 8
           r == m % 8
           h == Hear(Hear(Unheard, p.events, TRUE), Held(p), FALSE)
<1>1. N \in Nat /\ Len(TextOf(answer)) = 8 * N
  BY TextOfAt
<1>2. m \in 0..(8 * N) /\ m = 8 * q + r /\ q \in Nat /\ r \in 0..7
  BY <1>1
<1>3. CASE m = 8 * N
  <2>1. AsSent(answer, 8 * N, Outcome(answer, N))
    BY SentAll
  <2>2. p = Parsed(SubSeq(TextOf(answer), 1, 8 * N))
    BY <1>3
  <2>3. h = Outcome(answer, N)
    BY <2>2, HeardAll
  <2> HIDE DEF h, N
  <2>4. AsSent(answer, m, h)
    BY <1>3, <2>1, <2>3
  <2> QED BY <2>4 DEF h
<1>4. CASE m # 8 * N
  <2>1. q \in 0..(N - 1)
    BY <1>1, <1>2, <1>4
  <2> HIDE DEF q, r
  <2>2. p = Parsed(SubSeq(TextOf(answer), 1, 8 * q + r))
    BY <1>2
  <2>3. h = [tokens |-> Cardinality(TokensBy(answer, q, r)),
             terminal |-> IF r < 2 THEN "none" ELSE Ending(answer[q + 1], r)]
    BY <1>2, <2>1, <2>2, HeardWithin, Zenon
  <2> HIDE DEF h
  <2>4. AsSent(answer, 8 * q + r, h)
    BY <1>2, <2>1, <2>3, SentWithin
  <2>5. AsSent(answer, m, h)
    BY <1>2, <2>4
  <2> QED BY <2>5 DEF h
<1> QED BY <1>3, <1>4

LEMMA AsSentRead ==
  ASSUME NEW CONSTANT A, TextsOK(A), SseIInv(A)
  PROVE  ReadAsSent
<1> SUFFICES ASSUME closed, frames # <<>>
             PROVE  AsSent(frames, read, heard)
  BY DEF ReadAsSent, AsSent, TerminalBy, GotBy
<1>1. frames \in Answers /\ body = TextOf(frames) /\ read \in 0..Len(body)
      /\ heard = Hear(Hear(Unheard, Parsed(Arrived).events, TRUE), Held(Parsed(Arrived)), FALSE)
  BY DEF SseIInv
<1>2. AnswerOK(frames)
  BY <1>1 DEF TextsOK
<1> DEFINE p == Parsed(SubSeq(TextOf(frames), 1, read))
<1>3. Parsed(Arrived) = p
  BY <1>1 DEF Arrived
<1>4. read \in 0..Len(TextOf(frames))
  BY <1>1
<1>5. AsSent(frames, read, Hear(Hear(Unheard, p.events, TRUE), Held(p), FALSE))
  BY <1>2, <1>4, HeardAsSent
<1> HIDE DEF p
<1> QED BY <1>1, <1>3, <1>5

(* Of every text and every answer, cut into chunks in any way: the parser  *)
(* of parse-sse.ts returns the events of what arrived, and the page of     *)
(* streaming-chat-utils.ts hears of an answer what was sent of it, a       *)
(* terminal event only if it arrived.                                      *)
THEOREM StreamIsRead ==
  ASSUME NEW CONSTANT A, TextsOK(A)
  PROVE  SseSpec => [](ParsedAsWhole /\ ReadAsSent)
<1>1. SseInit => SseIInv(A)
  BY SseStart
<1>2. SseIInv(A) /\ [SseNext]_sseVars => SseIInv(A)'
  BY SseStep, SseStay
<1>3. SseIInv(A) => ParsedAsWhole /\ ReadAsSent
  BY AsWhole, AsSentRead
<1> QED BY <1>1, <1>2, <1>3, PTL DEF SseSpec
=============================================================================
