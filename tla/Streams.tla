------------------------------ MODULE Streams ------------------------------
(***************************************************************************)
(* The executors that keep something open between the steps of a scenario: *)
(* WSExecutor (internal/scenario/ws.go), GRPCExecutor (grpc.go) and        *)
(* TUIExecutor (tui.go), whose stream is the output of a process in a      *)
(* pseudo-terminal.  Each open stream has a reader goroutine that moves    *)
(* what arrives into a buffer under a mutex; a step collects from it by    *)
(* polling it until it has enough, the stream has failed or a timer fires. *)
(*                                                                         *)
(* They differ: a WebSocket buffer has a cap, and a connection under an ID *)
(* in use is closed and waited for before it is replaced, as the one       *)
(* process of a terminal is; a background stream of gRPC is replaced in the*)
(* map and left running.  A gRPC step may also read a stream itself,       *)
(* without a goroutine.  What a terminal shows is looked at and not taken. *)
(*                                                                         *)
(* The scenario's steps and the peer are the environment: any step may     *)
(* follow any other, and a stream may be fed, ended or broken at any time. *)
(* Streams are numbered as they are opened, their messages as they are     *)
(* sent.                                                                   *)
(***************************************************************************)
EXTENDS Integers, Sequences, FiniteSets

CONSTANTS
  Kinds,        \* executors to look at: "ws", "grpc", "tui"
  Ids,          \* the IDs a scenario may give its streams
  AutoIds,      \* the IDs of unnamed background streams: "0", "1", ...
  BufferCap,    \* wsMessageBufferCap
  MaxSteps,     \* bound: steps of the scenario
  MaxStreams,   \* bound: streams opened
  MaxMessages,  \* bound: messages sent on a stream
  Counts        \* the counts of messages a step may ask for

Terminal == "terminal"
\* A step that names no stream.
Unnamed == ""
StreamIds == Ids \cup {AutoIds[i] : i \in DOMAIN AutoIds} \cup {Terminal}
Streams == 1..MaxStreams
NoStream == 0

ASSUME StreamsAssumption ==
  /\ Kinds \subseteq {"ws", "grpc", "tui"} /\ AutoIds \in Seq(STRING)
  /\ BufferCap \in Nat \ {0} /\ MaxSteps \in Nat /\ MaxStreams \in Nat
  /\ MaxMessages \in Nat /\ Counts \subseteq Nat \ {0}

VARIABLES
  kind,       \* the executor, the same throughout
  pc,         \* where its caller is
  steps,      \* steps begun
  req,        \* the step: its operation, ID and count
  opened,     \* streams opened so far
  conns,      \* the executor's map from IDs to streams
  bgCounter,  \* unnamed background streams so far
  sent,       \* messages the peer has sent on a stream
  link,       \* "up", "ended" by the peer, or "broken"
  canceled,   \* closed or cancelled on this side; a process has been asked to end
  killed,     \* a process has been killed and its terminal closed
  reader,     \* "none", "reading" or "done"
  seen,       \* messages the reader has read
  buffer,     \* messages that wait to be collected
  readErr,    \* the reader has recorded an error
  collected,  \* messages given to steps, by stream
  got,        \* messages of this step
  answer      \* the last collection: its stream, why it ended, its status

streamVars == <<sent, link, canceled, killed, reader, seen, readErr, buffer, collected>>
mapVars == <<opened, conns, bgCounter>>
vars == <<kind, pc, steps, req, mapVars, streamVars, got, answer>>

NoRequest == [op |-> "none", id |-> Unnamed, count |-> 0]
NoAnswer == [stream |-> NoStream, why |-> "none", status |-> "none"]

Init ==
  /\ kind \in Kinds /\ pc = "idle" /\ steps = 0 /\ req = NoRequest
  /\ opened = 0 /\ conns = [id \in StreamIds |-> NoStream] /\ bgCounter = 0
  /\ sent = [s \in Streams |-> 0] /\ link = [s \in Streams |-> "up"]
  /\ canceled = [s \in Streams |-> FALSE] /\ killed = [s \in Streams |-> FALSE]
  /\ reader = [s \in Streams |-> "none"] /\ seen = [s \in Streams |-> 0]
  /\ buffer = [s \in Streams |-> <<>>] /\ readErr = [s \in Streams |-> FALSE]
  /\ collected = [s \in Streams |-> <<>>] /\ got = 0 /\ answer = NoAnswer

-----------------------------------------------------------------------------
(* A step begins and ends: Execute.                                        *)

Begin(op, id, count, place) ==
  /\ pc = "idle" /\ steps < MaxSteps /\ steps' = steps + 1
  /\ req' = [op |-> op, id |-> id, count |-> count] /\ answer' = NoAnswer
  /\ pc' = place
  /\ UNCHANGED <<kind, got, mapVars, streamVars>>

\* A WebSocket step with a URL, and one without.
BeginConnect ==
  kind = "ws" /\ \E id \in Ids, count \in Counts \cup {0} :
    Begin("connect", id, count, IF conns[id] = NoStream THEN "dial" ELSE "hangup")
BeginReuse ==
  kind = "ws" /\ \E id \in Ids, count \in Counts \cup {0} : Begin("reuse", id, count, "lookup")

\* A terminal step with a command, and one without; it may wait for a text, which
\* is that of the count-th output.
BeginLaunch ==
  kind = "tui" /\ \E count \in Counts \cup {0} :
    Begin("connect", Terminal, count, IF conns[Terminal] = NoStream THEN "dial" ELSE "hangup")
BeginInteract ==
  kind = "tui" /\ \E count \in Counts \cup {0} : Begin("reuse", Terminal, count, "lookup")

\* A gRPC step that starts a background stream, with an ID or without; one that
\* collects from such a stream; one that reads a server stream itself; a unary or
\* client-streaming call, which leaves nothing to collect.
BeginBackground ==
  kind = "grpc" /\ \E id \in Ids \cup {Unnamed} : Begin("background", id, 0, "dial")
BeginCollect ==
  kind = "grpc" /\ \E id \in StreamIds \ {Terminal}, count \in Counts : Begin("collect", id, count, "lookup")
BeginForeground ==
  kind = "grpc" /\ \E count \in Counts : Begin("foreground", Unnamed, count, "dial")
BeginCall == kind = "grpc" /\ Begin("call", Unnamed, 0, "call")

EndStep == pc' = "idle" /\ req' = NoRequest /\ got' = 0

\* Nothing but the caller's place changes.
OnlyMoves == UNCHANGED <<kind, steps, mapVars, streamVars, answer>>

\* A call that fails has its error turned into a status (buildGRPCOutput).
Call == pc = "call" /\ EndStep /\ OnlyMoves

\* The dial, the method lookup, the request or the write fails, or the ID is not
\* in the map.
StepFails ==
  /\ \/ pc \in {"dial", "send", "call"}
     \/ pc = "lookup" /\ conns[req.id] = NoStream
  /\ EndStep /\ OnlyMoves

-----------------------------------------------------------------------------
(* connect, and the streams of gRPC.                                       *)

\* A connection under this ID is closed first, a process in the terminal is sent
\* SIGTERM, and the reader is waited for.
HangUp ==
  /\ pc = "hangup" /\ pc' = "await"
  /\ canceled' = [canceled EXCEPT ![conns[req.id]] = TRUE]
  /\ UNCHANGED <<kind, steps, req, got, mapVars, sent, link, killed, reader, seen, readErr,
                 buffer, collected, answer>>

\* Seeded fault: the reader is not waited for.
ReaderGoneUnawaited == pc = "await"

ReaderGone == pc = "await" /\ reader[conns[req.id]] = "done"

Forget ==
  /\ ReaderGone /\ pc' = "dial"
  /\ conns' = [conns EXCEPT ![req.id] = NoStream]
  /\ UNCHANGED <<kind, steps, req, got, opened, bgCounter, streamVars, answer>>

\* A process that has not ended within the grace period is killed, and its terminal
\* closed.
GraceOver ==
  /\ kind = "tui" /\ pc \in {"await", "closing"}
  /\ LET s == conns[Terminal]
     IN  /\ s # NoStream /\ canceled[s] /\ ~killed[s] /\ reader[s] = "reading"
         /\ killed' = [killed EXCEPT ![s] = TRUE]
  /\ UNCHANGED <<kind, pc, steps, req, got, mapVars, sent, link, canceled, reader, seen,
                 readErr, buffer, collected, answer>>

\* A stream is opened, with a goroutine to read it or without.
Open(goroutine, next) ==
  /\ pc = "dial" /\ pc' = next
  /\ opened < MaxStreams /\ opened' = opened + 1
  /\ reader' = [reader EXCEPT ![opened + 1] = goroutine]
  /\ UNCHANGED <<kind, steps, got, sent, link, canceled, killed, seen, readErr, buffer,
                 collected, answer>>

OpenConnection ==
  /\ req.op = "connect" /\ Open("reading", "send")
  /\ conns' = [conns EXCEPT ![req.id] = opened + 1]
  /\ UNCHANGED <<req, bgCounter>>

\* streamID: the step's, or the next number.
StreamId == IF req.id = Unnamed THEN AutoIds[bgCounter + 1] ELSE req.id

\* The stream takes the place of one with its ID, which goes on.
OpenBackground ==
  /\ req.op = "background"
  /\ req.id = Unnamed => bgCounter < Len(AutoIds)
  /\ Open("reading", "idle")
  /\ conns' = [conns EXCEPT ![StreamId] = opened + 1]
  /\ bgCounter' = IF req.id = Unnamed THEN bgCounter + 1 ELSE bgCounter
  /\ req' = NoRequest

OpenForeground ==
  /\ req.op = "foreground" /\ Open("none", "foreground")
  /\ UNCHANGED <<req, conns, bgCounter>>

\* getConn, and the look into bgStreams.
Lookup ==
  /\ pc = "lookup" /\ conns[req.id] # NoStream
  /\ pc' = IF kind = "grpc" THEN "take" ELSE "send"
  /\ UNCHANGED <<req, got>> /\ OnlyMoves

\* The message of the step, if any, is written; a step may end here.
Write ==
  /\ pc = "send"
  /\ IF req.count = 0 THEN EndStep ELSE pc' = "take" /\ UNCHANGED <<req, got>>
  /\ OnlyMoves

-----------------------------------------------------------------------------
(* The peer, and the goroutines that read.                                 *)

\* What is sent when nobody reads any more is left out.
Connected(s) ==
  /\ s <= opened /\ link[s] = "up"
  /\ reader[s] = "reading" \/ (reader[s] = "none" /\ ~canceled[s])

PeerSends(s) ==
  /\ Connected(s) /\ sent[s] < MaxMessages
  /\ sent' = [sent EXCEPT ![s] = @ + 1]
  /\ UNCHANGED <<kind, pc, steps, req, got, mapVars, link, canceled, killed, reader, seen, readErr,
                 buffer, collected, answer>>

\* The peer ends the stream, or the connection breaks.
PeerStops(s) ==
  /\ Connected(s)
  /\ \E how \in {"ended", "broken"} : link' = [link EXCEPT ![s] = how]
  /\ UNCHANGED <<kind, pc, steps, req, got, mapVars, sent, canceled, killed, reader, seen, readErr,
                 buffer, collected, answer>>

\* Seeded fault: an overflowing buffer loses its oldest message.
KeptOldestLost(s) ==
  IF kind # "ws" \/ Len(buffer[s]) < BufferCap THEN Append(buffer[s], seen[s] + 1)
  ELSE Append(Tail(buffer[s]), seen[s] + 1)

\* The buffer after the next message: a WebSocket drops what its cap does not hold.
Kept(s) ==
  IF kind # "ws" \/ Len(buffer[s]) < BufferCap THEN Append(buffer[s], seen[s] + 1)
  ELSE buffer[s]

ReadMessage(s) ==
  /\ reader[s] = "reading" /\ seen[s] < sent[s]
  /\ buffer' = [buffer EXCEPT ![s] = Kept(s)]
  /\ seen' = [seen EXCEPT ![s] = @ + 1]
  /\ UNCHANGED <<kind, pc, steps, req, got, mapVars, sent, link, canceled, killed, reader, readErr,
                 collected, answer>>

\* What a read comes back with when there is no message to come: an ended stream
\* is read to its end, a broken or cancelled one may lose what is on the way.
Failing(s) ==
  \/ killed[s]
  \/ canceled[s] /\ kind # "tui"
  \/ link[s] = "broken"
  \/ link[s] = "ended" /\ seen[s] = sent[s]

ReaderStops(s) ==
  /\ reader[s] = "reading" /\ Failing(s)
  /\ reader' = [reader EXCEPT ![s] = "done"]
  /\ readErr' = [readErr EXCEPT ![s] = TRUE]
  /\ UNCHANGED <<kind, pc, steps, req, got, mapVars, sent, link, canceled, killed, seen, buffer,
                 collected, answer>>

-----------------------------------------------------------------------------
(* receiveMessages (ws.go) and collectBackground (grpc.go).                *)

\* WebSocket steps are done; gRPC goes on to read the status.
Answer(s, why) ==
  /\ answer' = [stream |-> s, why |-> why, status |-> "none"]
  /\ IF kind = "grpc" THEN pc' = "status" /\ got' = 0 /\ UNCHANGED req ELSE EndStep

Taken(s) == LET open == req.count - got
            IN  IF Len(buffer[s]) < open THEN Len(buffer[s]) ELSE open

\* Seeded fault: the error is looked at before the buffer.
TakeErrorFirst ==
  /\ pc = "take" /\ kind # "tui"
  /\ LET s == conns[req.id]
         take == IF readErr[s] THEN 0 ELSE Taken(s)
     IN  /\ collected' = [collected EXCEPT ![s] = @ \o SubSeq(buffer[s], 1, take)]
         /\ buffer' = [buffer EXCEPT ![s] = SubSeq(@, take + 1, Len(@))]
         /\ \/ got + take = req.count /\ Answer(s, "full")
            \/ got + take < req.count /\ readErr[s] /\ Answer(s, "error")
            \/ /\ got + take < req.count /\ ~readErr[s]
               /\ pc' = "poll" /\ got' = got + take /\ UNCHANGED <<req, answer>>
  /\ UNCHANGED <<kind, steps, mapVars, sent, link, canceled, killed, reader, seen, readErr>>

\* One round, under the lock: what waits is taken as far as it is wanted, and the
\* error is read.
Take ==
  /\ pc = "take" /\ kind # "tui"
  /\ LET s == conns[req.id]
         take == Taken(s)
     IN  /\ collected' = [collected EXCEPT ![s] = @ \o SubSeq(buffer[s], 1, take)]
         /\ buffer' = [buffer EXCEPT ![s] = SubSeq(@, take + 1, Len(@))]
         /\ \/ got + take = req.count /\ Answer(s, "full")
            \/ got + take < req.count /\ readErr[s] /\ Answer(s, "error")
            \/ /\ got + take < req.count /\ ~readErr[s]
               /\ pc' = "poll" /\ got' = got + take /\ UNCHANGED <<req, answer>>
  /\ UNCHANGED <<kind, steps, mapVars, sent, link, canceled, killed, reader, seen, readErr>>

\* doWaitFor: the text is on the screen until the next output writes over it.
Look ==
  /\ pc = "take" /\ kind = "tui"
  /\ IF Len(buffer[conns[req.id]]) = req.count THEN Answer(conns[req.id], "full")
     ELSE pc' = "poll" /\ UNCHANGED <<req, got, answer>>
  /\ UNCHANGED <<kind, steps, mapVars, streamVars>>

\* The ticker's tick, and the timer.
Tick == pc = "poll" /\ pc' = "take" /\ UNCHANGED <<req, got>> /\ OnlyMoves

\* Seeded fault: a timer started anew in every round, which the tick always beats.
PollTimerRestarted == FALSE

PollTimer ==
  /\ pc = "poll" /\ Answer(conns[req.id], "timer")
  /\ UNCHANGED <<kind, steps, mapVars, streamVars>>

\* The status of a background stream is read under the lock again.
ReadStatus ==
  /\ pc = "status" /\ EndStep
  /\ answer' = [answer EXCEPT !.status = IF readErr[answer.stream] THEN "error" ELSE "OK"]
  /\ UNCHANGED <<kind, steps, mapVars, streamVars>>

-----------------------------------------------------------------------------
(* receiveMessages of grpc.go: the caller reads the stream it has opened   *)
(* last; its context is cancelled when it returns.                         *)

Return(why, status) ==
  /\ answer' = [stream |-> opened, why |-> why, status |-> status]
  /\ canceled' = [canceled EXCEPT ![opened] = TRUE]
  /\ EndStep

ForegroundReceive ==
  /\ pc = "foreground" /\ seen[opened] < sent[opened]
  /\ seen' = [seen EXCEPT ![opened] = @ + 1]
  /\ collected' = [collected EXCEPT ![opened] = Append(@, seen[opened] + 1)]
  /\ IF got + 1 = req.count THEN Return("full", "OK")
     ELSE got' = got + 1 /\ UNCHANGED <<pc, req, canceled, answer>>
  /\ UNCHANGED <<kind, steps, mapVars, sent, link, killed, reader, readErr, buffer>>

\* RecvMsg fails.  That is also how a stream ends that has nothing more to send.
ForegroundFails ==
  /\ pc = "foreground" /\ Failing(opened) /\ Return("error", "error")
  /\ UNCHANGED <<kind, steps, mapVars, sent, link, killed, reader, seen, readErr, buffer,
                 collected>>

\* The receive timeout is seen between two messages; a wait for the next one ends
\* only with the timeout of the step.
ForegroundTimer ==
  /\ pc = "foreground" /\ \E status \in {"OK", "error"} : Return("timer", status)
  /\ UNCHANGED <<kind, steps, mapVars, sent, link, killed, reader, seen, readErr, buffer,
                 collected>>

-----------------------------------------------------------------------------
(* Close, after the last step.                                             *)

\* bgCancel cancels every background stream, the replaced ones too.
BeginClose ==
  /\ pc = "idle" /\ pc' = "closing"
  /\ canceled' = [s \in Streams |-> canceled[s] \/ (kind = "grpc" /\ reader[s] # "none")]
  /\ UNCHANGED <<kind, steps, req, got, mapVars, sent, link, killed, reader, seen, readErr,
                 buffer, collected, answer>>

\* A WebSocket connection is closed when the one before it is done with; a process is
\* sent SIGTERM.
CloseConn(id) ==
  /\ pc = "closing" /\ kind # "grpc" /\ conns[id] # NoStream
  /\ \A other \in StreamIds : conns[other] # NoStream => ~canceled[conns[other]]
  /\ canceled' = [canceled EXCEPT ![conns[id]] = TRUE]
  /\ UNCHANGED <<kind, pc, steps, req, got, mapVars, sent, link, killed, reader, seen, readErr,
                 buffer, collected, answer>>

\* <-done
AwaitReader(id) ==
  /\ pc = "closing" /\ conns[id] # NoStream
  /\ canceled[conns[id]] /\ reader[conns[id]] = "done"
  /\ conns' = [conns EXCEPT ![id] = NoStream]
  /\ UNCHANGED <<kind, pc, steps, req, got, opened, bgCounter, streamVars, answer>>

Closed ==
  /\ pc = "closing" /\ \A id \in StreamIds : conns[id] = NoStream
  /\ pc' = "closed"
  /\ UNCHANGED <<req, got>> /\ OnlyMoves

Terminating == pc = "closed" /\ UNCHANGED vars

-----------------------------------------------------------------------------

Execute ==
  \/ BeginConnect \/ BeginReuse \/ BeginLaunch \/ BeginInteract
  \/ BeginBackground \/ BeginCollect \/ BeginForeground \/ BeginCall \/ Call \/ StepFails
  \/ HangUp \/ Forget \/ OpenConnection \/ OpenBackground \/ OpenForeground
  \/ Lookup \/ Write \/ Take \/ Look \/ Tick \/ ReadStatus \/ ForegroundReceive \/ ForegroundFails
Close == BeginClose \/ (\E id \in StreamIds : CloseConn(id) \/ AwaitReader(id)) \/ Closed
Timer == PollTimer \/ ForegroundTimer \/ GraceOver
Peer == \E s \in Streams : PeerSends(s) \/ PeerStops(s)
Reader(s) == ReadMessage(s) \/ ReaderStops(s)

Next ==
  \/ Execute \/ Close \/ Timer \/ Peer
  \/ \E s \in Streams : Reader(s)
  \/ Terminating

\* The scenario goes on, and a reader whose stream is over finds out.  A timer that
\* has fired stays ready, so a select that comes back to it again and again takes
\* it in the end.  Nothing is assumed of the peer.
Fairness ==
  /\ WF_vars(Execute \/ Close) /\ SF_vars(Timer)
  /\ \A s \in Streams : WF_vars(Reader(s))

Spec == Init /\ [][Next]_vars /\ Fairness

-----------------------------------------------------------------------------
(* Properties.                                                             *)

\* Every variable holds a value of its kind; a step never has more messages than it
\* asked for, and starts with none.
TypeOK ==
  /\ kind \in Kinds
  /\ pc \in {"idle", "call", "dial", "hangup", "await", "lookup", "send", "take", "poll",
             "status", "foreground", "closing", "closed"}
  /\ steps \in 0..MaxSteps /\ got \in 0..req.count /\ opened \in 0..MaxStreams
  /\ req \in [op : {"none", "connect", "reuse", "background", "collect", "foreground", "call"},
              id : StreamIds \cup {Unnamed}, count : Counts \cup {0}]
  /\ conns \in [StreamIds -> 0..MaxStreams] /\ bgCounter \in 0..Len(AutoIds)
  /\ sent \in [Streams -> 0..MaxMessages] /\ seen \in [Streams -> 0..MaxMessages]
  /\ link \in [Streams -> {"up", "ended", "broken"}]
  /\ canceled \in [Streams -> BOOLEAN] /\ killed \in [Streams -> BOOLEAN]
  /\ readErr \in [Streams -> BOOLEAN] /\ reader \in [Streams -> {"none", "reading", "done"}]
  /\ buffer \in [Streams -> Seq(1..MaxMessages)]
  /\ collected \in [Streams -> Seq(1..MaxMessages)]
  /\ answer \in [stream : 0..MaxStreams, why : {"none", "full", "error", "timer"},
                 status : {"none", "OK", "error"}]

\* The promise of Channel, for each stream: in order, once, and lost only when the
\* buffer was full.
Chan(s) == INSTANCE Channel WITH
  capacity <- IF kind = "ws" THEN BufferCap ELSE MaxMessages + 1,
  sent <- sent[s], seen <- seen[s],
  received <- collected[s] \o buffer[s], collected <- Len(collected[s])
ImplementsChannel ==
  /\ \A s \in Streams : Chan(s)!Init
  /\ [][\A s \in Streams : [Chan(s)!Next]_(Chan(s)!vars)]_vars

\* A collection that comes back short has waited its time, or has all there will
\* ever be: the stream is over and nothing it delivered is left behind.  An error
\* status is the status of a stream that is over.
ShortMeansOver ==
  /\ answer.why = "error" =>
       buffer[answer.stream] = <<>> /\ (readErr[answer.stream] \/ Failing(answer.stream))
  /\ answer.status = "OK" /\ pc = "idle" => answer.why \in {"full", "timer"}

\* Every variable has its type.  The reader of a WebSocket or a terminal still at work
\* is that of a connection in the map, so that a new one never meets the old one's
\* reader; once Close has returned, every gRPC reader still at work has been cancelled.
ReadersOwned ==
  /\ TypeOK
  /\ \A s \in Streams : reader[s] = "reading" =>
       /\ kind # "grpc" => \E id \in StreamIds : conns[id] = s
       /\ pc = "closed" => canceled[s]

\* Every collection returns, every scenario can be closed, and no reader is left,
\* whatever the peer does.
AllStop == <>(pc = "closed" /\ \A s \in Streams : reader[s] # "reading")
=============================================================================
