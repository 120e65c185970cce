--------------------------- MODULE StreamsProofs ---------------------------
(***************************************************************************)
(* Proofs about Streams, for any IDs, counts, buffer and number of steps,  *)
(* streams and messages: a stream keeps the promise of Channel, a short    *)
(* collection is an honest one, and no reader is left without an owner.    *)
(***************************************************************************)
EXTENDS Streams, SequenceTheorems, TLAPS

\* Where the caller is and what the step is about: a step waits for or reads a
\* stream that is in the map, and dials only when its ID is free.
Placed ==
  /\ pc \in {"idle", "closing", "closed"} => req = NoRequest
  /\ pc \notin {"take", "poll", "foreground"} => got = 0
  /\ pc \in {"lookup", "hangup", "await", "send", "take", "poll"} => req.id \in StreamIds
  /\ pc \in {"hangup", "await", "send", "take", "poll"} => conns[req.id] # NoStream
  /\ pc \in {"hangup", "await", "send"} => kind # "grpc"
  /\ pc \in {"hangup", "await"} => req.op = "connect"
  /\ pc \in {"foreground", "status"} => kind = "grpc"
  /\ pc = "dial" =>
       \/ req.op = "connect" /\ req.id \in StreamIds /\ conns[req.id] = NoStream /\ kind # "grpc"
       \/ req.op \in {"background", "foreground"} /\ kind = "grpc"
  /\ pc = "dial" /\ req.op = "foreground" => req.count # 0
  /\ pc = "foreground" => opened # 0 /\ reader[opened] = "none" /\ got < req.count

\* A stream not opened has no reader, a stream without a reader no buffer, and a
\* reader that has recorded its error is done.
Buffers ==
  /\ \A id \in StreamIds : conns[id] <= opened
  /\ \A s \in Streams :
       /\ s > opened => reader[s] = "none"
       /\ reader[s] = "none" => buffer[s] = <<>>
       /\ readErr[s] => reader[s] = "done"
       /\ Len(buffer[s]) <= seen[s]

\* ReadersOwned from the moment Close begins.
Owners ==
  /\ pc = "closed" => \A id \in StreamIds : conns[id] = NoStream
  /\ \A s \in Streams : reader[s] = "reading" =>
       /\ kind # "grpc" => \E id \in StreamIds : conns[id] = s
       /\ kind = "grpc" /\ pc \in {"closing", "closed"} => canceled[s]

\* An answer stays true until the next step begins, because the stream of a failed
\* collection is over: its reader is done or its context is cancelled.
Answers ==
  /\ answer.why # "none" =>
       pc \in {"idle", "status", "closing", "closed"} /\ answer.stream \in 1..opened
  /\ pc = "status" => answer.why # "none"
  /\ answer.status = "OK" => answer.why \in {"full", "timer"}
  /\ answer.why = "error" =>
       /\ buffer[answer.stream] = <<>>
       /\ \/ readErr[answer.stream]
          \/ /\ pc # "status" /\ kind = "grpc"
             /\ canceled[answer.stream] /\ reader[answer.stream] = "none"

\* TypeOK in two parts: the caller's and the streams'.
CallerTyped ==
  /\ kind \in Kinds
  /\ pc \in {"idle", "call", "dial", "hangup", "await", "lookup", "send", "take", "poll",
             "status", "foreground", "closing", "closed"}
  /\ steps \in 0..MaxSteps /\ got \in 0..req.count
  /\ req \in [op : {"none", "connect", "reuse", "background", "collect", "foreground", "call"},
              id : StreamIds \cup {Unnamed}, count : Counts \cup {0}]
  /\ answer \in [stream : 0..MaxStreams, why : {"none", "full", "error", "timer"},
                 status : {"none", "OK", "error"}]
StreamsTyped ==
  /\ opened \in 0..MaxStreams
  /\ conns \in [StreamIds -> 0..MaxStreams] /\ bgCounter \in 0..Len(AutoIds)
  /\ sent \in [Streams -> 0..MaxMessages] /\ seen \in [Streams -> 0..MaxMessages]
  /\ link \in [Streams -> {"up", "ended", "broken"}]
  /\ canceled \in [Streams -> BOOLEAN] /\ killed \in [Streams -> BOOLEAN]
  /\ readErr \in [Streams -> BOOLEAN] /\ reader \in [Streams -> {"none", "reading", "done"}]
  /\ buffer \in [Streams -> Seq(1..MaxMessages)]
  /\ collected \in [Streams -> Seq(1..MaxMessages)]

IInv == TypeOK /\ Placed /\ Buffers /\ Owners /\ Answers

-----------------------------------------------------------------------------
(* Sequences.                                                              *)

\* What is added to the end of the second part is added to the end.
LEMMA AppendLast ==
  ASSUME NEW S, NEW a \in Seq(S), NEW b \in Seq(S), NEW x \in S
  PROVE  a \o Append(b, x) = Append(a \o b, x)
<1>1. Append(b, x) \in Seq(S) /\ Append(a \o b, x) \in Seq(S)
  BY ConcatProperties
<1> QED BY <1>1, ConcatProperties, SeqEqual

\* A sequence is its front and the rest.
Front(b, n) == SubSeq(b, 1, n)
Rest(b, n) == SubSeq(b, n + 1, Len(b))

LEMMA FrontAndRest ==
  ASSUME NEW S, NEW b \in Seq(S), NEW n \in 0..Len(b)
  PROVE  /\ Front(b, n) \in Seq(S) /\ Len(Front(b, n)) = n
         /\ Rest(b, n) \in Seq(S) /\ Len(Rest(b, n)) = Len(b) - n
         /\ Front(b, n) \o Rest(b, n) = b
<1>1. Front(b, n) \in Seq(S) /\ Len(Front(b, n)) = n
  BY DEF Front
<1>2. Rest(b, n) \in Seq(S) /\ Len(Rest(b, n)) = Len(b) - n
  BY DEF Rest
<1>3. Front(b, n) \o Rest(b, n) = b
  <2>1. 1 \in 1..(Len(b) + 1) /\ n \in (1 - 1)..Len(b) /\ Len(b) \in n..Len(b)
    OBVIOUS
  <2> QED BY <2>1, ConcatAdjacentSubSeq, SubSeqFull DEF Front, Rest
<1> QED BY <1>1, <1>2, <1>3

\* To move the front of the second part to the first changes nothing in the whole.
Moved(a, b, n) ==
  /\ (a \o Front(b, n)) \o Rest(b, n) = a \o b
  /\ Len(a \o Front(b, n)) = Len(a) + n /\ Len(a \o b) = Len(a) + Len(b)
  /\ Len(a) \in Nat /\ Len(b) \in Nat

LEMMA FrontMoves ==
  ASSUME NEW S, NEW a \in Seq(S), NEW b \in Seq(S), NEW n \in 0..Len(b)
  PROVE  Moved(a, b, n)
<1>1. Front(b, n) \in Seq(S) /\ Rest(b, n) \in Seq(S)
  BY FrontAndRest
<1>2. Len(Front(b, n)) = n /\ Front(b, n) \o Rest(b, n) = b
  BY FrontAndRest
<1>3. (a \o Front(b, n)) \o Rest(b, n) = a \o (Front(b, n) \o Rest(b, n))
  BY <1>1, ConcatAssociative
<1>4. Len(a \o Front(b, n)) = Len(a) + Len(Front(b, n)) /\ Len(a \o b) = Len(a) + Len(b)
  BY <1>1, ConcatProperties
<1> QED BY <1>3, <1>4, <1>2, LenProperties DEF Moved

-----------------------------------------------------------------------------
(* Constants and the initial states.                                       *)

\* The bounds are numbers.
LEMMA Bounds ==
  /\ Kinds \subseteq {"ws", "grpc", "tui"} /\ Counts \subseteq Nat \ {0} /\ BufferCap \in Nat \ {0}
  /\ MaxSteps \in Nat /\ MaxStreams \in Nat /\ MaxMessages \in Nat
BY StreamsAssumption, Zenon

\* The numbers given to unnamed streams are as many as their sequence is long.
LEMMA AutoLen == Len(AutoIds) \in Nat /\ DOMAIN AutoIds = 1..Len(AutoIds)
<1>1. AutoIds \in Seq(STRING)
  BY StreamsAssumption, Zenon
<1> DEFINE T == STRING
<1>2. AutoIds \in Seq(T)
  BY <1>1
<1> HIDE DEF T
<1> QED BY <1>2, LenProperties

\* The IDs a step may name.
LEMMA IdsKnown ==
  /\ Ids \subseteq StreamIds /\ Terminal \in StreamIds
  /\ \A i \in 1..Len(AutoIds) : AutoIds[i] \in StreamIds
BY AutoLen DEF StreamIds

\* No request and no answer are of the types of requests and answers.
LEMMA NoneTyped ==
  /\ NoRequest \in [op : {"none", "connect", "reuse", "background", "collect", "foreground",
                          "call"},
                    id : StreamIds \cup {Unnamed}, count : Counts \cup {0}]
  /\ NoRequest.count = 0
  /\ NoAnswer \in [stream : 0..MaxStreams, why : {"none", "full", "error", "timer"},
                   status : {"none", "OK", "error"}]
  /\ NoAnswer.why = "none" /\ NoAnswer.status = "none"
BY Bounds DEF NoRequest, NoAnswer, NoStream

\* TypeOK is its two parts, before and after a step.
LEMMA TypeParts ==
  /\ TypeOK <=> CallerTyped /\ StreamsTyped
  /\ TypeOK' <=> CallerTyped' /\ StreamsTyped'
BY DEF TypeOK, CallerTyped, StreamsTyped

\* The messages of a stream, and how many there are.
LEMMA Messages ==
  ASSUME TypeOK, NEW s \in Streams
  PROVE  /\ buffer[s] \in Seq(1..MaxMessages) /\ Len(buffer[s]) \in Nat
         /\ collected[s] \in Seq(1..MaxMessages) /\ Len(collected[s]) \in Nat
         /\ sent[s] \in 0..MaxMessages /\ seen[s] \in 0..MaxMessages
<1>1. /\ buffer[s] \in Seq(1..MaxMessages) /\ collected[s] \in Seq(1..MaxMessages)
      /\ sent[s] \in 0..MaxMessages /\ seen[s] \in 0..MaxMessages
  BY TypeParts DEF StreamsTyped
<1> QED BY <1>1

\* What a step has and what it wants.
LEMMA WantedTyped == ASSUME TypeOK PROVE got \in 0..req.count /\ req.count \in Nat
<1>1. req.count \in Counts \cup {0} /\ got \in 0..req.count
  BY TypeParts DEF CallerTyped
<1>2. Counts \cup {0} \subseteq Nat
  BY Bounds
<1> QED BY <1>1, <1>2, Zenon

\* The executor starts with no stream and no step.
LEMMA InitInv == Init => IInv
<1> SUFFICES ASSUME Init PROVE IInv
  OBVIOUS
<1>1. TypeOK
  BY NoneTyped, Bounds DEF Init, TypeOK, NoStream, Streams
<1>2. Placed
  BY DEF Init, Placed
<1>3. Buffers
  BY Bounds DEF Init, Buffers, NoStream, Streams
<1>4. Owners
  BY DEF Init, Owners
<1>5. Answers
  BY NoneTyped DEF Init, Answers
<1> QED BY <1>1, <1>2, <1>3, <1>4, <1>5 DEF IInv

-----------------------------------------------------------------------------
(* A step of the scenario begins.                                          *)

\* A step may begin at any of the places the operations name.
LEMMA BeginStep ==
  ASSUME IInv, NEW op \in {"connect", "reuse", "background", "collect", "foreground", "call"},
         NEW id \in StreamIds \cup {Unnamed}, NEW count \in Counts \cup {0}, NEW place,
         Begin(op, id, count, place),
         \/ place \in {"hangup", "dial"} /\ op = "connect" /\ id \in StreamIds /\ kind # "grpc"
            /\ (place = "dial" <=> conns[id] = NoStream)
         \/ place = "dial" /\ op \in {"background", "foreground"} /\ kind = "grpc"
            /\ (op = "foreground" => count # 0)
         \/ place = "lookup" /\ id \in StreamIds
         \/ place = "call"
  PROVE  IInv'
<1>1. /\ req' = [op |-> op, id |-> id, count |-> count]
      /\ req'.op = op /\ req'.id = id /\ req'.count = count
  BY DEF Begin
<1>2. pc = "idle" /\ pc' = place /\ answer' = NoAnswer /\ got = 0
      /\ UNCHANGED <<kind, got, mapVars, streamVars>>
  BY DEF Begin, IInv, Placed
<1>3. TypeOK'
  <2>1. steps' \in 0..MaxSteps
    BY Bounds DEF Begin, IInv, TypeOK
  <2>2. got' \in 0..req'.count
    BY <1>1, <1>2, Bounds
  <2> QED BY <1>1, <1>2, <2>1, <2>2, NoneTyped DEF IInv, TypeOK, mapVars, streamVars
<1>4. Placed'
  BY <1>1, <1>2 DEF IInv, Placed, mapVars, streamVars
<1>5. Buffers'
  BY <1>2 DEF IInv, Buffers, mapVars, streamVars
<1>6. Owners'
  BY <1>2 DEF IInv, Owners, mapVars, streamVars
<1>7. Answers'
  BY <1>2, NoneTyped DEF Answers
<1> QED BY <1>3, <1>4, <1>5, <1>6, <1>7 DEF IInv

Begins ==
  \/ BeginConnect \/ BeginReuse \/ BeginLaunch \/ BeginInteract
  \/ BeginBackground \/ BeginCollect \/ BeginForeground \/ BeginCall

\* Every operation begins at one of them.
LEMMA BeginsStep == ASSUME IInv, Begins PROVE IInv'
<1> USE IdsKnown
<1>1. CASE BeginConnect
  BY <1>1, BeginStep DEF BeginConnect
<1>2. CASE BeginReuse
  BY <1>2, BeginStep DEF BeginReuse
<1>3. CASE BeginLaunch
  BY <1>3, BeginStep DEF BeginLaunch
<1>4. CASE BeginInteract
  BY <1>4, BeginStep DEF BeginInteract
<1>5. CASE BeginBackground
  BY <1>5, BeginStep DEF BeginBackground
<1>6. CASE BeginCollect
  BY <1>6, BeginStep DEF BeginCollect
<1>7. CASE BeginForeground
  BY <1>7, BeginStep, Bounds DEF BeginForeground
<1>8. CASE BeginCall
  BY <1>8, BeginStep DEF BeginCall
<1> QED BY <1>1, <1>2, <1>3, <1>4, <1>5, <1>6, <1>7, <1>8 DEF Begins

-----------------------------------------------------------------------------
(* The caller moves, and no stream changes.                                *)

\* A step that ends leaves no request.
LEMMA EndTyped == ASSUME IInv, EndStep PROVE got' \in 0..req'.count /\ req' = NoRequest
BY NoneTyped DEF EndStep

Moves == Call \/ StepFails \/ Lookup \/ Write \/ Tick \/ Closed

\* The steps that move the caller keep the invariant.
LEMMA MovesStep == ASSUME IInv, Moves PROVE IInv'
<1>1. OnlyMoves /\ pc \in {"call", "dial", "send", "lookup", "poll", "closing"}
  BY DEF Moves, Call, StepFails, Lookup, Write, Tick, Closed
<1>2. \/ EndStep
      \/ /\ UNCHANGED <<req, got>>
         /\ \/ pc = "lookup" /\ pc' \in {"take", "send"} /\ conns[req.id] # NoStream
               /\ (pc' = "send" => kind # "grpc")
            \/ pc \in {"send", "poll"} /\ pc' = "take"
            \/ pc = "closing" /\ pc' = "closed" /\ \A id \in StreamIds : conns[id] = NoStream
  BY DEF Moves, Call, StepFails, Lookup, Write, Tick, Closed
<1>3. TypeOK'
  BY <1>1, <1>2, EndTyped, NoneTyped DEF IInv, TypeOK, OnlyMoves, mapVars, streamVars, EndStep
<1>4. Placed'
  BY <1>1, <1>2 DEF IInv, Placed, OnlyMoves, mapVars, streamVars, EndStep
<1>5. Buffers'
  BY <1>1 DEF IInv, Buffers, OnlyMoves, mapVars, streamVars
<1>6. Owners'
  BY <1>1, <1>2 DEF IInv, Owners, OnlyMoves, mapVars, streamVars, EndStep
<1>7. Answers'
  BY <1>1, <1>2 DEF IInv, Answers, OnlyMoves, mapVars, streamVars, EndStep
<1> QED BY <1>3, <1>4, <1>5, <1>6, <1>7 DEF IInv

-----------------------------------------------------------------------------
(* Collecting.                                                             *)

\* An answer about an open stream: a WebSocket step ends, a gRPC step goes on to the
\* status.
LEMMA AnswerTyped ==
  ASSUME IInv, NEW s \in 1..opened, NEW why \in {"full", "error", "timer"}, Answer(s, why)
  PROVE  /\ answer' \in [stream : 0..MaxStreams, why : {"none", "full", "error", "timer"},
                         status : {"none", "OK", "error"}]
         /\ answer'.stream = s /\ answer'.why = why /\ answer'.status = "none"
         /\ got' = 0
         /\ \/ pc' = "status" /\ kind = "grpc" /\ UNCHANGED req
            \/ pc' = "idle" /\ kind # "grpc" /\ req' = NoRequest
<1>1. s \in 0..MaxStreams
  BY Bounds DEF IInv, TypeOK
<1> QED BY <1>1 DEF Answer, EndStep

\* Such an answer keeps the caller's types.
LEMMA AnsweredTyped ==
  ASSUME IInv, NEW s \in 1..opened, NEW why \in {"full", "error", "timer"}, Answer(s, why),
         UNCHANGED <<kind, steps>>
  PROVE  CallerTyped'
<1>1. got' = 0 /\ 0 \in 0..req.count
  BY AnswerTyped, WantedTyped DEF IInv
<1> QED BY <1>1, AnswerTyped, NoneTyped, TypeParts DEF IInv, CallerTyped

\* The stream a step is about.
LEMMA InHand ==
  ASSUME IInv, pc \in {"hangup", "await", "send", "take", "poll"}
  PROVE  conns[req.id] \in 1..opened /\ conns[req.id] \in Streams /\ req.id \in StreamIds
BY Bounds DEF IInv, TypeOK, Placed, Buffers, Streams, NoStream

\* What is taken is no more than waits and no more than is wanted.
LEMMA TakenTyped ==
  ASSUME IInv, NEW s \in Streams
  PROVE  /\ Taken(s) \in 0..Len(buffer[s]) /\ got + Taken(s) \in 0..req.count
         /\ got + Taken(s) < req.count => Taken(s) = Len(buffer[s])
<1>1. Len(buffer[s]) \in Nat
  BY Messages DEF IInv
<1>2. got \in 0..req.count /\ req.count \in Nat
  BY WantedTyped DEF IInv
<1> QED BY <1>1, <1>2 DEF Taken

\* A round of collecting keeps the invariant: what is short and failed is empty.
LEMMA TakeStep == ASSUME IInv, Take PROVE IInv'
<1> DEFINE s == conns[req.id]
           n == Taken(s)
<1>1. s \in 1..opened /\ s \in Streams /\ pc = "take"
  BY InHand DEF Take
<1>2. n \in 0..Len(buffer[s]) /\ got + n \in 0..req.count
      /\ (got + n < req.count => n = Len(buffer[s]))
  BY <1>1, TakenTyped
<1>3. UNCHANGED <<kind, steps, mapVars, sent, link, canceled, killed, reader, seen, readErr>>
  BY DEF Take
<1>4. /\ buffer' = [buffer EXCEPT ![s] = Rest(buffer[s], n)]
      /\ collected' = [collected EXCEPT ![s] = collected[s] \o Front(buffer[s], n)]
  BY DEF Take, Front, Rest
<1>5. /\ buffer[s] \in Seq(1..MaxMessages) /\ collected[s] \in Seq(1..MaxMessages)
      /\ buffer \in [Streams -> Seq(1..MaxMessages)]
      /\ collected \in [Streams -> Seq(1..MaxMessages)]
  BY <1>1 DEF IInv, TypeOK
<1>6. /\ Front(buffer[s], n) \in Seq(1..MaxMessages)
      /\ Rest(buffer[s], n) \in Seq(1..MaxMessages)
      /\ Len(Rest(buffer[s], n)) = Len(buffer[s]) - n
  <2> DEFINE T == 1..MaxMessages
  <2>1. buffer[s] \in Seq(T) /\ collected[s] \in Seq(T)
    BY <1>5
  <2> HIDE DEF T
  <2>2. /\ Front(buffer[s], n) \in Seq(T) /\ Rest(buffer[s], n) \in Seq(T)
        /\ Len(Rest(buffer[s], n)) = Len(buffer[s]) - n
    BY <1>2, <2>1, FrontAndRest
  <2> QED BY <2>2 DEF T
<1>7. \/ \E why \in {"full", "error"} :
           Answer(s, why) /\ (why = "error" => readErr[s] /\ n = Len(buffer[s]))
      \/ pc' = "poll" /\ got' = got + n /\ UNCHANGED <<req, answer>>
  BY <1>2 DEF Take
<1> HIDE DEF s, n
<1>8. TypeOK'
  <2>1. /\ buffer' \in [Streams -> Seq(1..MaxMessages)]
        /\ collected' \in [Streams -> Seq(1..MaxMessages)]
    BY <1>1, <1>4, <1>5, <1>6
  <2>2. StreamsTyped'
    BY <1>3, <2>1, TypeParts DEF IInv, StreamsTyped, mapVars
  <2>3. CallerTyped'
    <3>1. CASE \E why \in {"full", "error"} : Answer(s, why)
      BY <1>1, <1>3, <3>1, AnsweredTyped
    <3>2. CASE pc' = "poll" /\ got' = got + n /\ UNCHANGED <<req, answer>>
      BY <1>2, <1>3, <3>2, TypeParts DEF IInv, CallerTyped
    <3> QED BY <1>7, <3>1, <3>2
  <2> QED BY <2>2, <2>3, TypeParts
<1>9. Placed'
  BY <1>1, <1>3, <1>7, AnswerTyped DEF IInv, Placed, mapVars
<1>10. Buffers'
  <2>1. ASSUME NEW t \in Streams
        PROVE  Len(buffer'[t]) <= Len(buffer[t]) /\ (buffer[t] = <<>> => buffer'[t] = <<>>)
    <3>1. CASE t = s
      <4>1. buffer'[s] = Rest(buffer[s], n) /\ Len(buffer'[s]) = Len(buffer[s]) - n
        BY <1>1, <1>4, <1>5, <1>6
      <4>2. buffer[s] = <<>> => Len(buffer'[s]) = 0 /\ buffer'[s] \in Seq(1..MaxMessages)
        BY <1>2, <1>6, <4>1
      <4> QED BY <1>2, <1>5, <3>1, <4>1, <4>2, EmptySeq
    <3>2. CASE t # s
      BY <1>1, <1>4, <1>5, <3>2
    <3> QED BY <3>1, <3>2
  <2>2. \A t \in Streams : Len(buffer[t]) \in Nat /\ Len(buffer'[t]) \in Nat /\ seen[t] \in Nat
    <3>1. \A t \in Streams : buffer'[t] \in Seq(1..MaxMessages)
      BY <1>8, TypeParts DEF StreamsTyped
    <3> QED BY <3>1, Messages DEF IInv
  <2> QED BY <1>3, <2>1, <2>2 DEF IInv, Buffers, mapVars
<1>11. Owners'
  BY <1>1, <1>3, <1>7, AnswerTyped DEF IInv, Owners, mapVars
<1>12. Answers'
  <2>1. CASE \E why \in {"full", "error"} :
                Answer(s, why) /\ (why = "error" => readErr[s] /\ n = Len(buffer[s]))
    <3>1. n = Len(buffer[s]) => buffer'[s] = <<>>
      <4>1. buffer'[s] = Rest(buffer[s], n)
        BY <1>1, <1>4, <1>5
      <4> QED BY <1>6, <4>1, <1>2, EmptySeq
    <3>2. opened' = opened /\ readErr' = readErr
      BY <1>3 DEF mapVars
    <3>3. PICK why \in {"full", "error"} :
                Answer(s, why) /\ (why = "error" => readErr[s] /\ n = Len(buffer[s]))
      BY <2>1
    <3>4. /\ answer'.stream = s /\ answer'.why = why /\ answer'.status = "none"
          /\ pc' \in {"idle", "status"}
      BY <1>1, <3>3, AnswerTyped
    <3> QED BY <1>1, <3>1, <3>2, <3>3, <3>4 DEF Answers
  <2>2. CASE pc' = "poll" /\ got' = got + n /\ UNCHANGED <<req, answer>>
    BY <1>1, <2>2 DEF IInv, Answers
  <2> QED BY <1>7, <2>1, <2>2
<1> QED BY <1>8, <1>9, <1>10, <1>11, <1>12 DEF IInv

\* So does a look at the screen, and a timer.
LEMMA LookStep == ASSUME IInv, Look \/ PollTimer PROVE IInv'
<1> DEFINE s == conns[req.id]
<1>1. s \in 1..opened /\ s \in Streams /\ pc \in {"take", "poll"}
  BY InHand DEF Look, PollTimer
<1>2. UNCHANGED <<kind, steps, mapVars, streamVars>>
  BY DEF Look, PollTimer
<1>3. \/ \E why \in {"full", "timer"} : Answer(s, why)
      \/ pc' = "poll" /\ pc = "take" /\ UNCHANGED <<req, got, answer>>
  BY DEF Look, PollTimer
<1> HIDE DEF s
<1>4. TypeOK'
  <2>1. StreamsTyped'
    BY <1>2, TypeParts DEF IInv, StreamsTyped, mapVars, streamVars
  <2>2. CallerTyped'
    <3>1. CASE \E why \in {"full", "timer"} : Answer(s, why)
      BY <1>1, <1>2, <3>1, AnsweredTyped
    <3>2. CASE pc' = "poll" /\ UNCHANGED <<req, got, answer>>
      BY <1>2, <3>2, TypeParts DEF IInv, CallerTyped
    <3> QED BY <1>3, <3>1, <3>2
  <2> QED BY <2>1, <2>2, TypeParts
<1>5. Placed'
  BY <1>1, <1>2, <1>3, AnswerTyped DEF IInv, Placed, mapVars, streamVars
<1>6. Buffers'
  BY <1>2 DEF IInv, Buffers, mapVars, streamVars
<1>7. Owners'
  BY <1>1, <1>2, <1>3, AnswerTyped DEF IInv, Owners, mapVars, streamVars
<1>8. Answers'
  BY <1>1, <1>2, <1>3, AnswerTyped DEF IInv, Answers, mapVars, streamVars
<1> QED BY <1>4, <1>5, <1>6, <1>7, <1>8 DEF IInv

\* The status read under the second lock is that of the reader's error.
LEMMA StatusStep == ASSUME IInv, ReadStatus PROVE IInv'
<1>1. /\ UNCHANGED <<kind, steps, mapVars, streamVars>>
      /\ pc = "status" /\ pc' = "idle" /\ req' = NoRequest /\ got' = 0
  BY DEF ReadStatus, EndStep
<1>2. answer'.stream = answer.stream /\ answer'.why = answer.why
      /\ answer'.status = (IF readErr[answer.stream] THEN "error" ELSE "OK")
      /\ answer' \in [stream : 0..MaxStreams, why : {"none", "full", "error", "timer"},
                      status : {"none", "OK", "error"}]
  BY DEF ReadStatus, IInv, TypeOK
<1>3. TypeOK'
  BY <1>1, <1>2, NoneTyped DEF IInv, TypeOK, mapVars, streamVars
<1>4. Placed'
  BY <1>1 DEF IInv, Placed, mapVars, streamVars
<1>5. Buffers'
  BY <1>1 DEF IInv, Buffers, mapVars, streamVars
<1>6. Owners'
  BY <1>1 DEF IInv, Owners, mapVars, streamVars
<1>7. Answers'
  <2>1. answer.why \in {"full", "error", "timer"}
    BY <1>1 DEF IInv, TypeOK, Answers
  <2> QED BY <1>1, <1>2, <2>1 DEF IInv, Answers, mapVars, streamVars
<1> QED BY <1>3, <1>4, <1>5, <1>6, <1>7 DEF IInv

-----------------------------------------------------------------------------
(* Streams are hung up on, forgotten and opened.                           *)

\* To hang up cancels the stream in hand.
LEMMA HangUpStep == ASSUME IInv, HangUp PROVE IInv'
<1>1. /\ pc = "hangup" /\ pc' = "await" /\ conns[req.id] \in Streams
      /\ canceled' = [canceled EXCEPT ![conns[req.id]] = TRUE]
      /\ UNCHANGED <<kind, steps, req, got, mapVars, sent, link, killed, reader, seen, readErr,
                     buffer, collected, answer>>
  BY InHand DEF HangUp
<1>2. \A s \in Streams : canceled[s] => canceled'[s]
  BY <1>1, TypeParts DEF IInv, StreamsTyped
<1>3. TypeOK'
  <2>1. CallerTyped'
    BY <1>1, TypeParts DEF IInv, CallerTyped
  <2>2. canceled' \in [Streams -> BOOLEAN]
    BY <1>1, TypeParts DEF IInv, StreamsTyped
  <2>3. StreamsTyped'
    BY <1>1, <2>2, TypeParts DEF IInv, StreamsTyped, mapVars
  <2> QED BY <2>1, <2>3, TypeParts
<1>4. Placed'
  BY <1>1 DEF IInv, Placed, mapVars
<1>5. Buffers'
  BY <1>1 DEF IInv, Buffers, mapVars
<1>6. Owners'
  BY <1>1 DEF IInv, Owners, Placed, mapVars
<1>7. Answers'
  BY <1>1 DEF IInv, Answers
<1> QED BY <1>3, <1>4, <1>5, <1>6, <1>7 DEF IInv

\* A connection is forgotten when its reader is done, so no reader loses its owner.
LEMMA ForgetStep == ASSUME IInv, Forget PROVE IInv'
<1>1. /\ pc = "await" /\ pc' = "dial" /\ reader[conns[req.id]] = "done" /\ req.id \in StreamIds
      /\ conns' = [conns EXCEPT ![req.id] = NoStream]
      /\ UNCHANGED <<kind, steps, req, got, opened, bgCounter, streamVars, answer>>
      /\ kind # "grpc"
  BY InHand DEF Forget, ReaderGone, IInv, Placed
<1>2. conns \in [StreamIds -> 0..MaxStreams] /\ opened \in 0..MaxStreams
  BY TypeParts DEF IInv, StreamsTyped
<1>3. conns' \in [StreamIds -> 0..MaxStreams] /\ conns'[req.id] = NoStream
      /\ \A id \in StreamIds \ {req.id} : conns'[id] = conns[id]
  BY <1>1, <1>2, Bounds DEF NoStream
<1>4. TypeOK'
  <2>1. CallerTyped'
    BY <1>1, TypeParts DEF IInv, CallerTyped
  <2>2. StreamsTyped'
    BY <1>1, <1>3, TypeParts DEF IInv, StreamsTyped, streamVars
  <2> QED BY <2>1, <2>2, TypeParts
<1>5. Placed'
  <2>1. req.op = "connect"
    BY <1>1 DEF IInv, Placed
  <2> QED BY <1>1, <1>3, <2>1 DEF IInv, Placed, streamVars
<1>6. Buffers'
  BY <1>1, <1>2, <1>3, Bounds DEF IInv, Buffers, NoStream, streamVars
<1>7. Owners'
  BY <1>1, <1>3 DEF IInv, Owners, streamVars
<1>8. Answers'
  BY <1>1 DEF IInv, Answers, streamVars
<1> QED BY <1>4, <1>5, <1>6, <1>7, <1>8 DEF IInv

\* A stream that is opened is new: nothing is in its buffer and no ID names it.
LEMMA OpenStep ==
  ASSUME IInv, NEW goroutine \in {"none", "reading"}, NEW next \in {"send", "idle", "foreground"},
         Open(goroutine, next), req' \in {req, NoRequest}, next = "idle" <=> req' # req,
         \/ UNCHANGED conns /\ goroutine = "none" /\ next = "foreground"
         \/ /\ goroutine = "reading" /\ next # "foreground"
            /\ \E id \in StreamIds : conns' = [conns EXCEPT ![id] = opened + 1]
                                     /\ (next = "send" => id = req.id /\ conns[id] = NoStream),
         kind = "grpc" <=> next # "send",
         bgCounter' \in 0..Len(AutoIds), next = "foreground" => req.op = "foreground"
  PROVE  IInv'
<1>1. /\ pc = "dial" /\ pc' = next /\ got = 0 /\ opened < MaxStreams /\ opened' = opened + 1
      /\ reader' = [reader EXCEPT ![opened + 1] = goroutine]
      /\ UNCHANGED <<kind, steps, got, sent, link, canceled, killed, seen, readErr, buffer,
                     collected, answer>>
  BY DEF Open, IInv, Placed
<1>2. conns \in [StreamIds -> 0..MaxStreams] /\ opened \in 0..MaxStreams
      /\ reader \in [Streams -> {"none", "reading", "done"}]
  BY TypeParts DEF IInv, StreamsTyped
<1>3. opened + 1 \in Streams /\ opened + 1 \in 0..MaxStreams /\ opened + 1 > opened
  BY <1>1, <1>2, Bounds DEF Streams
<1>4. /\ conns' \in [StreamIds -> 0..MaxStreams]
      /\ \A id \in StreamIds : conns'[id] \in {conns[id], opened + 1}
  BY <1>2, <1>3
<1>5. /\ reader' \in [Streams -> {"none", "reading", "done"}] /\ reader'[opened + 1] = goroutine
      /\ \A s \in Streams \ {opened + 1} : reader'[s] = reader[s]
  BY <1>1, <1>2, <1>3
<1>6. reader[opened + 1] = "none" /\ buffer[opened + 1] = <<>> /\ ~readErr[opened + 1]
  BY <1>3 DEF IInv, Buffers
<1>7. TypeOK'
  <2>1. CallerTyped'
    BY <1>1, TypeParts, NoneTyped DEF IInv, CallerTyped
  <2>2. StreamsTyped'
    BY <1>1, <1>3, <1>4, <1>5, TypeParts DEF IInv, StreamsTyped
  <2> QED BY <2>1, <2>2, TypeParts
<1>8. Placed'
  <2>1. next = "send" =>
          req.id \in StreamIds /\ conns'[req.id] = opened + 1 /\ opened + 1 # NoStream
    BY <1>2, <1>3, Bounds DEF NoStream
  <2>2. next = "foreground" => got' < req'.count
    BY <1>1, WantedTyped DEF IInv, Placed
  <2>3. opened + 1 # 0 /\ (next = "foreground" => reader'[opened'] = "none")
    BY <1>1, <1>2, <1>5
  <2> QED BY <1>1, <2>1, <2>2, <2>3 DEF IInv, Placed
<1>9. Buffers'
  <2>1. \A id \in StreamIds : conns'[id] <= opened'
    BY <1>1, <1>2, <1>4 DEF IInv, Buffers
  <2>2. ASSUME NEW s \in Streams
        PROVE  /\ s > opened' => reader'[s] = "none"
               /\ reader'[s] = "none" => buffer'[s] = <<>>
               /\ readErr'[s] => reader'[s] = "done"
               /\ Len(buffer'[s]) <= seen'[s]
    <3>1. CASE s = opened + 1
      BY <1>1, <1>2, <1>3, <1>6, <3>1 DEF IInv, Buffers
    <3>2. CASE s # opened + 1
      BY <1>1, <1>2, <1>5, <3>2 DEF IInv, Buffers, Streams
    <3> QED BY <3>1, <3>2
  <2> QED BY <2>1, <2>2 DEF Buffers
<1>10. Owners'
  <2>1. ASSUME NEW s \in Streams, reader'[s] = "reading", kind # "grpc"
        PROVE  \E id \in StreamIds : conns'[id] = s
    <3>1. PICK new \in StreamIds :
            conns' = [conns EXCEPT ![new] = opened + 1] /\ conns[new] = NoStream
      BY <2>1
    <3>2. CASE s = opened + 1
      BY <1>2, <3>1, <3>2
    <3>3. CASE s # opened + 1
      <4>1. PICK id \in StreamIds : conns[id] = s
        BY <1>5, <2>1, <3>3 DEF IInv, Owners
      <4>2. s # NoStream
        BY Bounds DEF Streams, NoStream
      <4> QED BY <1>2, <3>1, <4>1, <4>2
    <3> QED BY <3>2, <3>3
  <2> QED BY <1>1, <2>1 DEF Owners
<1>11. Answers'
  <2>1. answer.why = "none"
    BY <1>1 DEF IInv, Answers
  <2> QED BY <1>1, <2>1 DEF IInv, Answers
<1> QED BY <1>7, <1>8, <1>9, <1>10, <1>11 DEF IInv

Opens == OpenConnection \/ OpenBackground \/ OpenForeground

\* The three ways to open a stream do that.
LEMMA OpensStep == ASSUME IInv, Opens PROVE IInv'
<1>1. pc = "dial" /\ bgCounter \in 0..Len(AutoIds) /\ Len(AutoIds) \in Nat
  BY AutoLen, TypeParts
     DEF Opens, OpenConnection, OpenBackground, OpenForeground, Open, IInv, StreamsTyped
<1>2. NoRequest.op = "none"
  BY DEF NoRequest
<1>3. CASE OpenConnection
  <2>1. req.id \in StreamIds /\ conns[req.id] = NoStream /\ kind # "grpc"
    BY <1>1, <1>3 DEF OpenConnection, IInv, Placed
  <2> QED BY <1>1, <1>3, <2>1, OpenStep DEF OpenConnection
<1>4. CASE OpenBackground
  <2>1. StreamId \in StreamIds /\ bgCounter' \in 0..Len(AutoIds)
    <3>1. req.id \in StreamIds \cup {Unnamed}
      BY TypeParts DEF IInv, CallerTyped
    <3> QED BY <1>1, <1>4, <3>1, IdsKnown DEF OpenBackground, StreamId
  <2>2. req' = NoRequest /\ req' # req /\ kind = "grpc"
    BY <1>1, <1>2, <1>4 DEF OpenBackground, IInv, Placed
  <2> QED BY <1>4, <2>1, <2>2, OpenStep DEF OpenBackground
<1>5. CASE OpenForeground
  BY <1>1, <1>5, OpenStep DEF OpenForeground, IInv, Placed
<1> QED BY <1>3, <1>4, <1>5 DEF Opens

-----------------------------------------------------------------------------
(* The peer, the readers and the grace period.                             *)

\* Nothing is in the caller's hands.
Untouched == UNCHANGED <<kind, pc, steps, req, got, mapVars, answer>>

\* What the peer does is seen by no one until a reader reads.
LEMMA PeerStep == ASSUME IInv, NEW s \in Streams, PeerSends(s) \/ PeerStops(s) PROVE IInv'
<1>1. Untouched /\ UNCHANGED <<canceled, killed, reader, seen, readErr, buffer, collected>>
  BY DEF PeerSends, PeerStops, Untouched
<1>2. TypeOK'
  <2>1. sent[s] \in 0..MaxMessages /\ sent \in [Streams -> 0..MaxMessages]
        /\ link \in [Streams -> {"up", "ended", "broken"}]
    BY TypeParts DEF IInv, StreamsTyped
  <2>2. sent' \in [Streams -> 0..MaxMessages] /\ link' \in [Streams -> {"up", "ended", "broken"}]
    BY <2>1, Bounds DEF PeerSends, PeerStops
  <2>3. StreamsTyped'
    BY <1>1, <2>2, TypeParts DEF IInv, StreamsTyped, Untouched, mapVars
  <2>4. CallerTyped'
    BY <1>1, TypeParts DEF IInv, CallerTyped, Untouched
  <2> QED BY <2>3, <2>4, TypeParts
<1>3. Placed'
  BY <1>1 DEF IInv, Placed, Untouched, mapVars
<1>4. Buffers'
  BY <1>1 DEF IInv, Buffers, Untouched, mapVars
<1>5. Owners'
  BY <1>1 DEF IInv, Owners, Untouched, mapVars
<1>6. Answers'
  BY <1>1 DEF IInv, Answers, Untouched, mapVars
<1> QED BY <1>2, <1>3, <1>4, <1>5, <1>6 DEF IInv

\* A kill changes only what is killed.
LEMMA GraceStep == ASSUME IInv, GraceOver PROVE IInv'
<1>1. Untouched /\ UNCHANGED <<sent, link, canceled, reader, seen, readErr, buffer, collected>>
  BY DEF GraceOver, Untouched
<1>2. TypeOK'
  <2>1. killed' \in [Streams -> BOOLEAN]
    BY TypeParts DEF IInv, StreamsTyped, GraceOver
  <2>2. StreamsTyped'
    BY <1>1, <2>1, TypeParts DEF IInv, StreamsTyped, Untouched, mapVars
  <2>3. CallerTyped'
    BY <1>1, TypeParts DEF IInv, CallerTyped, Untouched
  <2> QED BY <2>2, <2>3, TypeParts
<1>3. Placed' /\ Buffers'
  BY <1>1 DEF IInv, Placed, Buffers, Untouched, mapVars
<1>4. Owners' /\ Answers'
  BY <1>1 DEF IInv, Owners, Answers, Untouched, mapVars
<1> QED BY <1>2, <1>3, <1>4 DEF IInv

\* The next message is kept at the end or dropped.
LEMMA KeptTyped ==
  ASSUME IInv, NEW s \in Streams, ReadMessage(s)
  PROVE  /\ seen[s] + 1 \in 1..MaxMessages
         /\ Kept(s) \in Seq(1..MaxMessages) /\ Len(Kept(s)) <= seen[s] + 1
<1>1. buffer[s] \in Seq(1..MaxMessages) /\ Len(buffer[s]) \in Nat /\ seen[s] \in Nat
      /\ sent[s] \in 0..MaxMessages /\ seen[s] < sent[s]
  BY Messages, Bounds DEF IInv, ReadMessage
<1>2. Len(buffer[s]) <= seen[s]
  BY DEF IInv, Buffers
<1>3. seen[s] + 1 \in 1..MaxMessages
  BY <1>1, Bounds
<1>4. Append(buffer[s], seen[s] + 1) \in Seq(1..MaxMessages)
      /\ Len(Append(buffer[s], seen[s] + 1)) = Len(buffer[s]) + 1
  BY <1>1, <1>3
<1>5. CASE Kept(s) = buffer[s]
  BY <1>1, <1>2, <1>3, <1>5
<1>6. CASE Kept(s) = Append(buffer[s], seen[s] + 1)
  <2>1. Len(Kept(s)) = Len(buffer[s]) + 1 /\ Kept(s) \in Seq(1..MaxMessages)
    BY <1>4, <1>6
  <2> QED BY <1>1, <1>2, <1>3, <2>1
<1> QED BY <1>5, <1>6 DEF Kept

\* A message reaches the buffer of a stream that nobody has given up.
LEMMA ReadStep == ASSUME IInv, NEW s \in Streams, ReadMessage(s) PROVE IInv'
<1>1. Untouched /\ UNCHANGED <<sent, link, canceled, killed, reader, readErr, collected>>
      /\ reader[s] = "reading" /\ buffer' = [buffer EXCEPT ![s] = Kept(s)]
      /\ seen' = [seen EXCEPT ![s] = seen[s] + 1]
  BY DEF ReadMessage, Untouched
<1>2. buffer \in [Streams -> Seq(1..MaxMessages)] /\ seen \in [Streams -> 0..MaxMessages]
  BY TypeParts DEF IInv, StreamsTyped
<1>3. /\ seen[s] + 1 \in 0..MaxMessages
      /\ Kept(s) \in Seq(1..MaxMessages) /\ Len(Kept(s)) <= seen[s] + 1
  BY KeptTyped, Bounds
<1>4. TypeOK'
  <2>1. buffer' \in [Streams -> Seq(1..MaxMessages)] /\ seen' \in [Streams -> 0..MaxMessages]
    BY <1>1, <1>2, <1>3
  <2>2. StreamsTyped'
    BY <1>1, <2>1, TypeParts DEF IInv, StreamsTyped, Untouched, mapVars
  <2>3. CallerTyped'
    BY <1>1, TypeParts DEF IInv, CallerTyped, Untouched
  <2> QED BY <2>2, <2>3, TypeParts
<1>5. Placed'
  BY <1>1 DEF IInv, Placed, Untouched, mapVars
<1>6. Buffers'
  <2>1. ASSUME NEW t \in Streams
        PROVE  (reader[t] = "none" => buffer'[t] = <<>>) /\ Len(buffer'[t]) <= seen'[t]
    BY <1>1, <1>2, <1>3 DEF IInv, Buffers
  <2> QED BY <1>1, <2>1 DEF IInv, Buffers, Untouched, mapVars
<1>7. Owners'
  BY <1>1 DEF IInv, Owners, Untouched, mapVars
<1>8. Answers'
  <2>1. ASSUME answer.why = "error"
        PROVE  buffer'[answer.stream] = <<>>
    <3>1. /\ reader[answer.stream] # "reading" /\ buffer[answer.stream] = <<>>
          /\ answer.stream \in Streams
      BY <2>1, Bounds, TypeParts DEF IInv, Answers, Buffers, StreamsTyped, Streams
    <3> QED BY <1>1, <1>2, <3>1
  <2> QED BY <1>1, <2>1 DEF IInv, Answers, Untouched, mapVars
<1> QED BY <1>4, <1>5, <1>6, <1>7, <1>8 DEF IInv

\* A reader that stops records its error as it goes.
LEMMA StopStep == ASSUME IInv, NEW s \in Streams, ReaderStops(s) PROVE IInv'
<1>1. Untouched /\ UNCHANGED <<sent, link, canceled, killed, seen, buffer, collected>>
      /\ reader[s] = "reading" /\ reader' = [reader EXCEPT ![s] = "done"]
      /\ readErr' = [readErr EXCEPT ![s] = TRUE]
  BY DEF ReaderStops, Untouched
<1>2. reader \in [Streams -> {"none", "reading", "done"}] /\ readErr \in [Streams -> BOOLEAN]
  BY TypeParts DEF IInv, StreamsTyped
<1>3. /\ reader' \in [Streams -> {"none", "reading", "done"}] /\ readErr' \in [Streams -> BOOLEAN]
      /\ reader'[s] = "done" /\ readErr'[s]
      /\ \A t \in Streams \ {s} : reader'[t] = reader[t] /\ readErr'[t] = readErr[t]
  BY <1>1, <1>2
<1>4. TypeOK'
  <2>1. StreamsTyped'
    BY <1>1, <1>3, TypeParts DEF IInv, StreamsTyped, Untouched, mapVars
  <2>2. CallerTyped'
    BY <1>1, TypeParts DEF IInv, CallerTyped, Untouched
  <2> QED BY <2>1, <2>2, TypeParts
<1>5. Placed'
  <2>1. pc = "foreground" => opened \in Streams /\ opened # s
    BY <1>1, TypeParts, Bounds DEF IInv, Placed, StreamsTyped, Streams
  <2> QED BY <1>1, <1>3, <2>1 DEF IInv, Placed, Untouched, mapVars
<1>6. Buffers'
  <2>1. ASSUME NEW t \in Streams
        PROVE  /\ t > opened => reader'[t] = "none"
               /\ reader'[t] = "none" => buffer[t] = <<>>
               /\ readErr'[t] => reader'[t] = "done"
    BY <1>1, <1>3 DEF IInv, Buffers
  <2> QED BY <1>1, <2>1 DEF IInv, Buffers, Untouched, mapVars
<1>7. Owners'
  BY <1>1, <1>3 DEF IInv, Owners, Untouched, mapVars
<1>8. Answers'
  <2>1. ASSUME answer.why = "error"
        PROVE  /\ answer.stream \in Streams
               /\ readErr[answer.stream] => readErr'[answer.stream]
               /\ reader[answer.stream] = "none" => reader'[answer.stream] = "none"
    <3>1. answer.stream \in Streams
      BY <2>1, Bounds, TypeParts DEF IInv, Answers, StreamsTyped, Streams
    <3> QED BY <1>1, <1>3, <3>1
  <2> QED BY <1>1, <2>1 DEF IInv, Answers, Untouched, mapVars
<1> QED BY <1>4, <1>5, <1>6, <1>7, <1>8 DEF IInv

-----------------------------------------------------------------------------
(* Streams read by the step itself.                                        *)

\* The context of the stream is cancelled, and the answer is about it.
LEMMA ReturnTyped ==
  ASSUME IInv, pc = "foreground", NEW why \in {"full", "error", "timer"},
         NEW status \in {"OK", "error"}, Return(why, status)
  PROVE  /\ opened \in Streams /\ opened \in 1..opened
         /\ answer' \in [stream : 0..MaxStreams, why : {"none", "full", "error", "timer"},
                         status : {"none", "OK", "error"}]
         /\ answer'.stream = opened /\ answer'.why = why /\ answer'.status = status
         /\ canceled' \in [Streams -> BOOLEAN] /\ canceled'[opened]
         /\ \A s \in Streams : canceled[s] => canceled'[s]
         /\ pc' = "idle" /\ req' = NoRequest /\ got' = 0
<1>1. opened \in Streams /\ opened \in 1..opened /\ opened \in 0..MaxStreams
  <2>1. opened \in 0..MaxStreams /\ opened # 0
    BY TypeParts DEF IInv, Placed, StreamsTyped
  <2> QED BY <2>1, Bounds DEF Streams
<1>2. canceled \in [Streams -> BOOLEAN]
  BY TypeParts DEF IInv, StreamsTyped
<1> QED BY <1>1, <1>2 DEF Return, EndStep

\* A step that read its stream itself returns.
LEMMA ReturnStep ==
  ASSUME IInv, pc = "foreground", NEW why \in {"full", "error", "timer"},
         NEW status \in {"OK", "error"}, Return(why, status),
         status = "OK" => why # "error",
         UNCHANGED <<kind, steps, mapVars, sent, link, killed, reader, readErr, buffer>>,
         seen' \in [Streams -> 0..MaxMessages], \A s \in Streams : seen'[s] >= seen[s],
         collected' \in [Streams -> Seq(1..MaxMessages)]
  PROVE  IInv'
<1> USE ReturnTyped
<1>1. TypeOK'
  <2>1. StreamsTyped'
    BY TypeParts DEF IInv, StreamsTyped, mapVars
  <2>2. CallerTyped'
    BY TypeParts, NoneTyped DEF IInv, CallerTyped
  <2> QED BY <2>1, <2>2, TypeParts
<1>2. Placed'
  BY DEF Placed
<1>3. Buffers'
  <2>1. \A s \in Streams : Len(buffer[s]) \in Nat /\ seen[s] \in Nat /\ seen'[s] \in Nat
    BY Messages, Bounds DEF IInv
  <2> QED BY <2>1 DEF IInv, Buffers, mapVars
<1>4. Owners'
  BY DEF IInv, Owners, Placed
<1>5. Answers'
  <2>1. buffer[opened] = <<>> /\ reader[opened] = "none" /\ kind = "grpc"
    BY DEF IInv, Placed, Buffers
  <2> QED BY <2>1 DEF Answers, mapVars
<1> QED BY <1>1, <1>2, <1>3, <1>4, <1>5 DEF IInv

\* It has received a message, or has failed, or has waited long enough.
LEMMA ForegroundStep ==
  ASSUME IInv, ForegroundReceive \/ ForegroundFails \/ ForegroundTimer PROVE IInv'
<1>1. CASE ForegroundReceive
  <2>1. /\ pc = "foreground" /\ seen[opened] < sent[opened] /\ opened \in Streams
        /\ seen' = [seen EXCEPT ![opened] = seen[opened] + 1]
        /\ collected' = [collected EXCEPT ![opened] = Append(collected[opened], seen[opened] + 1)]
        /\ UNCHANGED <<kind, steps, mapVars, sent, link, killed, reader, readErr, buffer>>
    BY <1>1, TypeParts, Bounds DEF ForegroundReceive, IInv, Placed, StreamsTyped, Streams
  <2>2. seen \in [Streams -> 0..MaxMessages] /\ collected \in [Streams -> Seq(1..MaxMessages)]
        /\ sent[opened] \in 0..MaxMessages
    BY <2>1, TypeParts DEF IInv, StreamsTyped
  <2>3. seen[opened] + 1 \in 1..MaxMessages
    BY <2>1, <2>2, Bounds
  <2>4. seen' \in [Streams -> 0..MaxMessages] /\ (\A s \in Streams : seen'[s] >= seen[s])
        /\ collected' \in [Streams -> Seq(1..MaxMessages)]
    <3>1. Append(collected[opened], seen[opened] + 1) \in Seq(1..MaxMessages)
      BY <2>1, <2>2, <2>3
    <3>2. seen' \in [Streams -> 0..MaxMessages] /\ (\A s \in Streams : seen'[s] >= seen[s])
      BY <2>1, <2>2, <2>3, Bounds
    <3> QED BY <2>1, <2>2, <3>1, <3>2
  <2>5. CASE Return("full", "OK")
    BY <2>1, <2>4, <2>5, ReturnStep
  <2>6. CASE got + 1 # req.count /\ got' = got + 1 /\ UNCHANGED <<pc, req, canceled, answer>>
    <3>1. got' \in 0..req.count
      BY <2>6, <2>1, WantedTyped DEF IInv, Placed
    <3>2. StreamsTyped'
      BY <2>1, <2>4, <2>6, TypeParts DEF IInv, StreamsTyped, mapVars
    <3>3. CallerTyped'
      BY <2>1, <2>6, <3>1, TypeParts DEF IInv, CallerTyped
    <3>4. Placed'
      BY <2>1, <2>6, <3>1, WantedTyped DEF IInv, Placed, mapVars
    <3>5. Buffers'
      <4>1. \A s \in Streams : Len(buffer[s]) \in Nat /\ seen[s] \in Nat /\ seen'[s] \in Nat
        BY <2>4, Messages, Bounds DEF IInv
      <4> QED BY <2>1, <2>4, <4>1 DEF IInv, Buffers, mapVars
    <3>6. Owners' /\ Answers'
      BY <2>1, <2>6 DEF IInv, Owners, Answers, mapVars
    <3> QED BY <3>2, <3>3, <3>4, <3>5, <3>6, TypeParts DEF IInv
  <2> QED BY <1>1, <2>5, <2>6 DEF ForegroundReceive
<1>2. CASE ForegroundFails \/ ForegroundTimer
  <2>1. seen \in [Streams -> 0..MaxMessages] /\ collected \in [Streams -> Seq(1..MaxMessages)]
        /\ \A s \in Streams : seen[s] >= seen[s]
    BY TypeParts, Bounds DEF IInv, StreamsTyped
  <2>2. CASE ForegroundFails
    BY <2>1, <2>2, ReturnStep DEF ForegroundFails
  <2>3. CASE ForegroundTimer
    BY <2>1, <2>3, ReturnStep DEF ForegroundTimer
  <2> QED BY <1>2, <2>2, <2>3
<1> QED BY <1>1, <1>2

-----------------------------------------------------------------------------
(* Close.                                                                  *)

\* What Close begins with and what it hangs up on is cancelled; nothing else
\* changes.
LEMMA CancelStep == ASSUME IInv, BeginClose \/ \E id \in StreamIds : CloseConn(id) PROVE IInv'
<1>1. /\ pc \in {"idle", "closing"} /\ pc' = "closing" /\ (pc = "closing" => kind # "grpc")
      /\ UNCHANGED <<kind, steps, req, got, mapVars, sent, link, killed, reader, seen, readErr,
                     buffer, collected, answer>>
  BY DEF BeginClose, CloseConn
<1>2. canceled' \in [Streams -> BOOLEAN] /\ \A s \in Streams : canceled[s] => canceled'[s]
  <2>1. canceled \in [Streams -> BOOLEAN]
    BY TypeParts DEF IInv, StreamsTyped
  <2>2. CASE BeginClose
    BY <2>1, <2>2 DEF BeginClose
  <2>3. CASE \E id \in StreamIds : CloseConn(id)
    BY <2>1, <2>3 DEF CloseConn
  <2> QED BY <2>2, <2>3
<1>3. kind = "grpc" => \A s \in Streams : reader[s] = "reading" => canceled'[s]
  BY <1>1 DEF BeginClose, CloseConn
<1>4. TypeOK'
  <2>1. StreamsTyped'
    BY <1>1, <1>2, TypeParts DEF IInv, StreamsTyped, mapVars
  <2>2. CallerTyped'
    BY <1>1, TypeParts DEF IInv, CallerTyped
  <2> QED BY <2>1, <2>2, TypeParts
<1>5. Placed' /\ Buffers'
  BY <1>1 DEF IInv, Placed, Buffers, mapVars
<1>6. Owners'
  BY <1>1, <1>3 DEF IInv, Owners, mapVars
<1>7. Answers'
  <2>1. answer.why # "none" => answer.stream \in Streams
    BY TypeParts, Bounds DEF IInv, Answers, StreamsTyped, Streams
  <2> QED BY <1>1, <1>2, <2>1 DEF IInv, Answers, mapVars
<1> QED BY <1>4, <1>5, <1>6, <1>7 DEF IInv

\* Close forgets a connection whose reader is done.
LEMMA AwaitStep == ASSUME IInv, NEW id \in StreamIds, AwaitReader(id) PROVE IInv'
<1>1. /\ pc = "closing" /\ reader[conns[id]] = "done" /\ conns' = [conns EXCEPT ![id] = NoStream]
      /\ UNCHANGED <<kind, pc, steps, req, got, opened, bgCounter, streamVars, answer>>
  BY DEF AwaitReader
<1>2. conns \in [StreamIds -> 0..MaxStreams] /\ opened \in 0..MaxStreams
  BY TypeParts DEF IInv, StreamsTyped
<1>3. conns' \in [StreamIds -> 0..MaxStreams] /\ conns'[id] = NoStream
      /\ \A other \in StreamIds \ {id} : conns'[other] = conns[other]
  BY <1>1, <1>2, Bounds DEF NoStream
<1>4. TypeOK'
  <2>1. StreamsTyped'
    BY <1>1, <1>3, TypeParts DEF IInv, StreamsTyped, streamVars
  <2>2. CallerTyped'
    BY <1>1, TypeParts DEF IInv, CallerTyped
  <2> QED BY <2>1, <2>2, TypeParts
<1>5. Placed'
  BY <1>1 DEF IInv, Placed
<1>6. Buffers'
  BY <1>1, <1>2, <1>3, Bounds DEF IInv, Buffers, NoStream, streamVars
<1>7. Owners'
  BY <1>1, <1>3 DEF IInv, Owners, streamVars
<1>8. Answers'
  BY <1>1 DEF IInv, Answers, streamVars
<1> QED BY <1>4, <1>5, <1>6, <1>7, <1>8 DEF IInv

-----------------------------------------------------------------------------
(* The invariant.                                                          *)

\* The steps that leave every stream's messages alone, and the others.
Quiet ==
  \/ Begins \/ Moves \/ Look \/ PollTimer \/ ReadStatus \/ HangUp \/ Forget \/ Opens
  \/ ForegroundFails \/ ForegroundTimer \/ GraceOver
  \/ BeginClose \/ (\E id \in StreamIds : CloseConn(id) \/ AwaitReader(id))
  \/ (\E s \in Streams : PeerStops(s) \/ ReaderStops(s)) \/ Terminating
Moving ==
  \/ Take \/ ForegroundReceive
  \/ \E s \in Streams : PeerSends(s) \/ ReadMessage(s)

\* Every step is one or the other.
LEMMA Split == Next => Quiet \/ Moving
BY DEF Next, Execute, Close, Timer, Peer, Reader, Quiet, Moving, Begins, Moves, Opens

\* The invariant speaks of the variables only.
LEMMA StutterStep == ASSUME IInv, UNCHANGED vars PROVE IInv'
<1>1. TypeOK'
  BY DEF IInv, TypeOK, vars, mapVars, streamVars
<1>2. Placed' /\ Buffers'
  BY DEF IInv, Placed, Buffers, vars, mapVars, streamVars
<1>3. Owners' /\ Answers'
  BY DEF IInv, Owners, Answers, vars, mapVars, streamVars
<1> QED BY <1>1, <1>2, <1>3 DEF IInv

\* Quiet steps keep the invariant.
LEMMA QuietStep == ASSUME IInv, Quiet PROVE IInv'
<1>1. CASE Begins
  BY <1>1, BeginsStep
<1>2. CASE Moves
  BY <1>2, MovesStep
<1>3. CASE Look \/ PollTimer
  BY <1>3, LookStep
<1>4. CASE ReadStatus
  BY <1>4, StatusStep
<1>5. CASE HangUp
  BY <1>5, HangUpStep
<1>6. CASE Forget
  BY <1>6, ForgetStep
<1>7. CASE Opens
  BY <1>7, OpensStep
<1>8. CASE ForegroundFails \/ ForegroundTimer
  BY <1>8, ForegroundStep
<1>9. CASE GraceOver
  BY <1>9, GraceStep
<1>10. CASE BeginClose \/ \E id \in StreamIds : CloseConn(id)
  BY <1>10, CancelStep
<1>11. CASE \E id \in StreamIds : AwaitReader(id)
  BY <1>11, AwaitStep
<1>12. CASE \E s \in Streams : PeerStops(s)
  BY <1>12, PeerStep
<1>13. CASE \E s \in Streams : ReaderStops(s)
  BY <1>13, StopStep
<1>14. CASE Terminating
  BY <1>14, StutterStep DEF Terminating
<1> QED BY <1>1, <1>2, <1>3, <1>4, <1>5, <1>6, <1>7, <1>8, <1>9, <1>10, <1>11, <1>12, <1>13, <1>14
        DEF Quiet

\* So do all steps.
LEMMA NextInv == ASSUME IInv, [Next]_vars PROVE IInv'
<1>1. CASE Quiet
  BY <1>1, QuietStep
<1>2. CASE Take
  BY <1>2, TakeStep
<1>3. CASE ForegroundReceive
  BY <1>3, ForegroundStep
<1>4. CASE \E s \in Streams : PeerSends(s)
  BY <1>4, PeerStep
<1>5. CASE \E s \in Streams : ReadMessage(s)
  BY <1>5, ReadStep
<1>6. CASE UNCHANGED vars
  BY <1>6, StutterStep
<1> QED BY <1>1, <1>2, <1>3, <1>4, <1>5, <1>6, Split DEF Moving

\* The invariant holds throughout.
LEMMA Always == Spec => []IInv
BY InitInv, NextInv, PTL DEF Spec

\* No reader is left behind: that of a WebSocket or a terminal is the reader of a
\* connection in the map, whatever is hung up on, replaced or closed (connect, Close),
\* and when Close has returned every gRPC reader has been cancelled (bgCancel).
THEOREM Owned == Spec => []ReadersOwned
<1>1. IInv => ReadersOwned
  <2> SUFFICES ASSUME IInv PROVE ReadersOwned
    OBVIOUS
  <2>1. ASSUME NEW s \in Streams, reader[s] = "reading", pc = "closed" PROVE canceled[s]
    <3>1. s # NoStream
      BY Bounds DEF Streams, NoStream
    <3> QED BY <2>1, <3>1 DEF IInv, Owners
  <2> QED BY <2>1 DEF IInv, Owners, ReadersOwned
<1> QED BY <1>1, Always, PTL

\* A collection that comes back short has left nothing that was delivered, and its
\* stream is over; the status says so (collectBackground, receiveMessages).
THEOREM Honest == Spec => []ShortMeansOver
<1>1. IInv => ShortMeansOver
  BY DEF IInv, Answers, ShortMeansOver, Failing
<1> QED BY <1>1, Always, PTL

-----------------------------------------------------------------------------
(* The promise of Channel.                                                 *)

Promise == \A s \in Streams : [Chan(s)!Next]_(Chan(s)!vars)

\* Streams whose messages are left alone.
LEMMA QuietPromise ==
  ASSUME NEW s \in Streams, UNCHANGED <<kind, sent[s], seen[s], buffer[s], collected[s]>>
  PROVE  UNCHANGED Chan(s)!vars
BY DEF Chan!vars

\* Quiet steps leave the messages of all streams alone.
LEMMA QuietSame ==
  ASSUME IInv, Quiet \/ UNCHANGED vars
  PROVE  UNCHANGED <<kind, sent, seen, buffer, collected>>
<1>1. CASE Begins
  BY <1>1 DEF Begins, BeginConnect, BeginReuse, BeginLaunch, BeginInteract, BeginBackground,
     BeginCollect, BeginForeground, BeginCall, Begin, streamVars
<1>2. CASE Moves
  BY <1>2 DEF Moves, Call, StepFails, Lookup, Write, Tick, Closed, OnlyMoves, streamVars
<1>3. CASE Look \/ PollTimer \/ ReadStatus
  BY <1>3 DEF Look, PollTimer, ReadStatus, streamVars
<1>4. CASE HangUp \/ Forget \/ GraceOver
  BY <1>4 DEF HangUp, Forget, GraceOver, streamVars
<1>5. CASE Opens
  BY <1>5 DEF Opens, OpenConnection, OpenBackground, OpenForeground, Open
<1>6. CASE ForegroundFails \/ ForegroundTimer
  BY <1>6 DEF ForegroundFails, ForegroundTimer
<1>7. CASE BeginClose \/ \E id \in StreamIds : CloseConn(id) \/ AwaitReader(id)
  BY <1>7 DEF BeginClose, CloseConn, AwaitReader, streamVars
<1>8. CASE \E s \in Streams : PeerStops(s) \/ ReaderStops(s)
  BY <1>8 DEF PeerStops, ReaderStops
<1>9. CASE Terminating \/ UNCHANGED vars
  BY <1>9 DEF Terminating, vars, streamVars
<1> QED BY <1>1, <1>2, <1>3, <1>4, <1>5, <1>6, <1>7, <1>8, <1>9 DEF Quiet

\* A step about one stream keeps the promise of all if it keeps that one's.
LEMMA OneStream ==
  ASSUME IInv, NEW s \in Streams, [Chan(s)!Next]_(Chan(s)!vars), kind' = kind,
         \A t \in Streams \ {s} : UNCHANGED <<sent[t], seen[t], buffer[t], collected[t]>>
  PROVE  Promise
<1> SUFFICES ASSUME NEW t \in Streams, t # s PROVE UNCHANGED Chan(t)!vars
  BY DEF Promise
<1> QED BY QuietPromise

\* The peer sends on one stream.
LEMMA SendsPromise == ASSUME IInv, NEW s \in Streams, PeerSends(s) PROVE Promise
<1>1. sent[s] \in Nat /\ sent \in [Streams -> 0..MaxMessages]
  BY TypeParts, Bounds DEF IInv, StreamsTyped
<1>2. Chan(s)!Send
  BY <1>1 DEF Chan!Send, PeerSends
<1>3. \A t \in Streams \ {s} : UNCHANGED <<sent[t], seen[t], buffer[t], collected[t]>>
  BY <1>1 DEF PeerSends
<1>4. kind' = kind
  BY DEF PeerSends
<1> QED BY <1>2, <1>3, <1>4, OneStream DEF Chan!Next

\* A message is kept where the buffer has room, and the buffer of gRPC always has.
LEMMA ReadsPromise == ASSUME IInv, NEW s \in Streams, ReadMessage(s) PROVE Promise
<1>1. /\ kind' = kind /\ seen[s] < sent[s] /\ UNCHANGED <<sent, collected>>
      /\ buffer' = [buffer EXCEPT ![s] = Kept(s)] /\ seen' = [seen EXCEPT ![s] = seen[s] + 1]
  BY DEF ReadMessage
<1>2. buffer \in [Streams -> Seq(1..MaxMessages)] /\ seen \in [Streams -> 0..MaxMessages]
  BY TypeParts DEF IInv, StreamsTyped
<1>3. buffer'[s] = Kept(s) /\ seen'[s] = seen[s] + 1
      /\ \A t \in Streams \ {s} : UNCHANGED <<sent[t], seen[t], buffer[t], collected[t]>>
  BY <1>1, <1>2
<1>4. /\ buffer[s] \in Seq(1..MaxMessages) /\ collected[s] \in Seq(1..MaxMessages)
      /\ Len(buffer[s]) \in Nat /\ Len(collected[s]) \in Nat /\ seen[s] \in Nat
      /\ Len(buffer[s]) <= seen[s] /\ seen[s] < MaxMessages /\ seen[s] + 1 \in 1..MaxMessages
  BY <1>1, Messages, KeptTyped, Bounds DEF IInv, Buffers
<1> DEFINE T == 1..MaxMessages
<1>5. buffer[s] \in Seq(T) /\ collected[s] \in Seq(T) /\ seen[s] + 1 \in T
  BY <1>4
<1> HIDE DEF T
<1>6. Len(collected[s] \o buffer[s]) - Len(collected[s]) = Len(buffer[s])
  <2>1. Len(collected[s] \o buffer[s]) = Len(collected[s]) + Len(buffer[s])
    BY <1>5, ConcatProperties
  <2> QED BY <1>4, <2>1
<1>7. CASE kind # "ws" \/ Len(buffer[s]) < BufferCap
  <2>1. collected[s] \o buffer'[s] = Append(collected[s] \o buffer[s], seen[s] + 1)
    <3>1. buffer'[s] = Append(buffer[s], seen[s] + 1)
      BY <1>3, <1>7 DEF Kept
    <3>2. \A b, c \in Seq(T) : \A x \in T : c \o Append(b, x) = Append(c \o b, x)
      BY AppendLast
    <3> QED BY <1>5, <3>1, <3>2, Zenon
  <2>2. Len(buffer[s]) < IF kind = "ws" THEN BufferCap ELSE MaxMessages + 1
    BY <1>4, <1>7, Bounds
  <2>3. Chan(s)!Receive
    BY <1>1, <1>3, <1>6, <2>1, <2>2 DEF Chan!Receive
  <2> QED BY <1>1, <1>3, <2>3, OneStream DEF Chan!Next
<1>8. CASE kind = "ws" /\ ~(Len(buffer[s]) < BufferCap)
  <2>1. buffer'[s] = buffer[s] /\ Len(buffer[s]) >= BufferCap
    BY <1>3, <1>4, <1>8, Bounds DEF Kept
  <2>2. Chan(s)!Drop
    BY <1>1, <1>3, <1>6, <1>8, <2>1 DEF Chan!Drop
  <2> QED BY <1>1, <1>3, <2>2, OneStream DEF Chan!Next
<1> QED BY <1>7, <1>8

\* What is taken from the buffer is what comes next.
LEMMA TakesPromise == ASSUME IInv, Take PROVE Promise
<1>1. PICK s \in Streams : s = conns[req.id]
  BY InHand DEF Take
<1>2. PICK n \in 0..Len(buffer[s]) : n = Taken(s)
  BY TakenTyped
<1>3. /\ kind' = kind /\ UNCHANGED <<sent, seen>>
      /\ buffer' = [buffer EXCEPT ![s] = Rest(buffer[s], n)]
      /\ collected' = [collected EXCEPT ![s] = collected[s] \o Front(buffer[s], n)]
  BY <1>1, <1>2 DEF Take, Front, Rest
<1> DEFINE T == 1..MaxMessages
<1>4. buffer \in [Streams -> Seq(T)] /\ collected \in [Streams -> Seq(T)]
  BY TypeParts DEF IInv, StreamsTyped
<1> HIDE DEF T
<1>5. Moved(collected[s], buffer[s], n)
  <2>1. buffer[s] \in Seq(T) /\ collected[s] \in Seq(T)
    BY <1>4
  <2> QED BY <1>2, <2>1, FrontMoves
<1>6. /\ buffer'[s] = Rest(buffer[s], n) /\ collected'[s] = collected[s] \o Front(buffer[s], n)
      /\ \A t \in Streams \ {s} : UNCHANGED <<sent[t], seen[t], buffer[t], collected[t]>>
  BY <1>3, <1>4
<1>7. /\ collected'[s] \o buffer'[s] = collected[s] \o buffer[s]
      /\ Len(collected'[s]) = Len(collected[s]) + n /\ Len(collected[s]) \in Nat
      /\ Len(collected[s] \o buffer[s]) = Len(collected[s]) + Len(buffer[s])
      /\ Len(buffer[s]) \in Nat
  BY <1>5, <1>6 DEF Moved
<1>8. CASE n = 0
  <2>1. Len(collected'[s]) = Len(collected[s])
    BY <1>7, <1>8
  <2>2. UNCHANGED Chan(s)!vars
    BY <1>3, <1>7, <2>1 DEF Chan!vars
  <2> QED BY <1>3, <1>6, <2>2, OneStream
<1>9. CASE n # 0
  <2>1. Len(collected'[s]) \in (Len(collected[s]) + 1)..Len(collected[s] \o buffer[s])
    <3> DEFINE old == Len(collected[s])
               new == Len(collected'[s])
               all == Len(collected[s] \o buffer[s])
    <3>1. n \in Nat /\ n <= Len(buffer[s])
      BY <1>2, <1>7
    <3>2. old \in Nat /\ new = old + n /\ all = old + Len(buffer[s]) /\ Len(buffer[s]) \in Nat
      BY <1>7
    <3> HIDE DEF old, new, all
    <3>3. new \in (old + 1)..all
      BY <1>9, <3>1, <3>2
    <3> QED BY <3>3 DEF old, new, all
  <2>2. Chan(s)!Collect
    BY <1>3, <1>7, <2>1 DEF Chan!Collect
  <2>3. Chan(s)!Next
    BY <2>2 DEF Chan!Next
  <2> QED BY <1>3, <1>6, <2>3, OneStream
<1> QED BY <1>8, <1>9

\* A step that reads its stream itself leaves nothing to wait.
LEMMA PassesPromise == ASSUME IInv, ForegroundReceive PROVE Promise
<1> DEFINE T == 1..MaxMessages
<1>1. PICK s \in Streams : s = opened /\ buffer[s] = <<>>
  <2>1. pc = "foreground" /\ opened \in 0..MaxStreams /\ opened # 0
    BY TypeParts DEF ForegroundReceive, IInv, Placed, StreamsTyped
  <2> QED BY <2>1, Bounds DEF IInv, Placed, Buffers, Streams
<1>2. /\ pc = "foreground" /\ kind' = kind /\ seen[s] < sent[s] /\ UNCHANGED <<sent, buffer>>
      /\ seen' = [seen EXCEPT ![s] = seen[s] + 1]
      /\ collected' = [collected EXCEPT ![s] = Append(collected[s], seen[s] + 1)]
  BY <1>1 DEF ForegroundReceive
<1>3. seen \in [Streams -> 0..MaxMessages] /\ collected \in [Streams -> Seq(T)]
      /\ sent[s] \in 0..MaxMessages
  BY <1>1, TypeParts DEF IInv, StreamsTyped
<1>4. seen[s] + 1 \in T
  BY <1>2, <1>1, <1>3, Bounds
<1> HIDE DEF T
<1>5. seen'[s] = seen[s] + 1 /\ collected'[s] = Append(collected[s], seen[s] + 1)
      /\ \A t \in Streams \ {s} : UNCHANGED <<sent[t], seen[t], buffer[t], collected[t]>>
  BY <1>2, <1>1, <1>3
<1>6. collected[s] \in Seq(T) /\ collected'[s] \in Seq(T)
      /\ Len(collected'[s]) = Len(collected[s]) + 1
  BY <1>1, <1>3, <1>4, <1>5
<1>7. collected[s] \o buffer[s] = collected[s] /\ collected'[s] \o buffer'[s] = collected'[s]
  BY <1>2, <1>1, <1>6, ConcatEmptySeq
<1>8. Chan(s)!Pass
  BY <1>2, <1>5, <1>6, <1>7 DEF Chan!Pass
<1>9. Chan(s)!Next
  BY <1>8 DEF Chan!Next
<1> QED BY <1>2, <1>5, <1>9, OneStream

\* Every stream gives its messages to steps in the order they were sent, each once, and
\* loses one only when the buffer is full (receiveMessages, the readers of ws.go and
\* grpc.go): each step of the executors is a step of Channel for one stream, or of none.
THEOREM Implements == Spec => ImplementsChannel
<1>1. Init => \A s \in Streams : Chan(s)!Init
  BY Bounds DEF Init, Chan!Init, Streams
<1>2. IInv /\ [Next]_vars => [\A s \in Streams : [Chan(s)!Next]_(Chan(s)!vars)]_vars
  <2> SUFFICES ASSUME IInv, [Next]_vars PROVE Promise
    BY DEF Promise
  <2>1. CASE Quiet \/ UNCHANGED vars
    <3>1. UNCHANGED <<kind, sent, seen, buffer, collected>>
      BY <2>1, QuietSame
    <3> QED BY <3>1, QuietPromise DEF Promise
  <2>2. CASE Moving
    BY <2>2, TakesPromise, PassesPromise, SendsPromise, ReadsPromise DEF Moving
  <2> QED BY <2>1, <2>2, Split
<1> QED BY <1>1, <1>2, Always, PTL DEF Spec, ImplementsChannel

=============================================================================
