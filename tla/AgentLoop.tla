------------------------------ MODULE AgentLoop ------------------------------
(***************************************************************************)
(* Code generation by an agent: generateAgentic gives the model tools to   *)
(* read and write the iteration's directory (internal/attractor) and calls *)
(* AgentLoop, which streams a turn, runs the tools it asks for in parallel *)
(* and sends their results back (internal/llm/anthropic.go).               *)
(*                                                                         *)
(* A file is kept twice: on disk, under its path, and in the handler's     *)
(* map, under the spelling the model used.  Handlers write the disk without*)
(* a lock and the map with one.                                            *)
(*                                                                         *)
(* The model may answer anything from Requests, the network may break any  *)
(* stream, and the disk may fail any call.  A content is the turn and the  *)
(* call it comes from, the seeded ones belonging to turn 0.                *)
(***************************************************************************)
EXTENDS Integers, Sequences, FiniteSets

CONSTANTS
  Spellings,      \* the ways the model spells its paths
  Clean,          \* Clean[s]: the path on disk a spelling stands for
  Requests,       \* the sequences of tool calls a turn may ask for
  Seeds,          \* the best files an iteration may start from
  MaxTurns,       \* AgentRequest.MaxTurns, or its default
  StreamRetries,  \* streamRetries
  Absent, Empty, Mixed, \* no file; a truncated one; one with parts of two writes
  Ok,             \* what write_file answers
  Pending         \* a result not yet there

Paths == {Clean[s] : s \in Spellings}
Ops == {"write", "read", "list", "unknown"}
Contents == (0..MaxTurns) \X Nat
Seeded == {0} \X Nat
Stored == Contents \cup {Absent, Empty, Mixed}

ASSUME AgentAssumption ==
  /\ MaxTurns \in Nat \ {0} /\ StreamRetries \in Nat
  /\ Clean \in [Spellings -> Paths]
  /\ Requests \subseteq Seq([op : Ops, path : Spellings])
  /\ \A files \in Seeds :
       /\ files \in [DOMAIN files -> Seeded]
       /\ DOMAIN files \subseteq Spellings /\ IsFiniteSet(DOMAIN files)
  /\ Absent \notin Contents \cup {Empty, Mixed}
  /\ Pending \notin [call : Nat, content : Stored \cup {Ok}, listed : SUBSET Paths]

VARIABLES
  pc,         \* "seed", "stream", "backoff", "tools", "returned" or "done"
  turn,       \* turns answered by the model
  attempt,    \* streams of this turn that broke
  works,      \* the calls of this turn
  handlers,   \* where each call's goroutine is
  results,    \* results of agentProcessToolUse
  exchanges,  \* the messages sent so far: calls and their results, by turn
  disk,       \* the iteration's directory
  files,      \* agentToolHandler.files
  response,   \* what AgentLoop returned
  outcome     \* what generateAgentic returned

loopVars == <<turn, attempt, works, exchanges>>
toolVars == <<handlers, results>>
fileVars == <<disk, files>>
endVars == <<response, outcome>>
vars == <<pc, loopVars, toolVars, fileVars, endVars>>

NoResponse == [turns |-> 0, err |-> "none"]

Init ==
  /\ pc = "seed" /\ turn = 0 /\ attempt = 0 /\ works = <<>>
  /\ handlers = <<>> /\ results = <<>> /\ exchanges = <<>>
  /\ disk = [p \in Paths |-> Absent] /\ files = <<>>
  /\ response = NoResponse /\ outcome = "none"

-----------------------------------------------------------------------------
(* generateAgentic, before the loop.                                       *)

\* writeFiles takes the map in any order, so that of two spellings of one path
\* either content may be left on disk.
WriteFiles(best) ==
  \E after \in [Paths -> {Absent} \cup {best[s] : s \in DOMAIN best}] :
    /\ disk' = after
    /\ \A p \in Paths :
         LET written == {best[s] : s \in {t \in DOMAIN best : Clean[t] = p}}
         IN  after[p] \in IF written = {} THEN {Absent} ELSE written

\* Seeded fault: the handler's map starts without the files on disk.
SeedDiskOnly ==
  /\ pc = "seed" /\ pc' = "stream"
  /\ \E best \in Seeds : WriteFiles(best)
  /\ UNCHANGED <<loopVars, toolVars, files, endVars>>

\* In patch mode the best files are written into the directory and entered in
\* the handler's map; otherwise there is nothing to seed.
Seed ==
  /\ pc = "seed" /\ pc' = "stream"
  /\ \E best \in Seeds : WriteFiles(best) /\ files' = best
  /\ UNCHANGED <<loopVars, toolVars, endVars>>

\* The client has no agent loop, or a file cannot be seeded: what is in the
\* directory then is never looked at.
SeedFails ==
  /\ pc = "seed" /\ pc' = "done" /\ outcome' = "error"
  /\ UNCHANGED <<loopVars, toolVars, fileVars, response>>

-----------------------------------------------------------------------------
(* AgentLoop and streamMessage.                                            *)

Return(turns, err) == pc' = "returned" /\ response' = [turns |-> turns, err |-> err]

\* A turn with stop reason end_turn.
EndTurn ==
  /\ pc = "stream"
  /\ turn' = turn + 1 /\ works' = <<>> /\ handlers' = <<>> /\ results' = <<>>
  /\ Return(turn + 1, "none")
  /\ UNCHANGED <<attempt, exchanges, fileVars, outcome>>

\* Any other stop reason but tool_use, max_tokens for one, ends the loop as
\* end_turn does: the calls in the turn are not looked at.
OtherStop ==
  /\ pc = "stream"
  /\ \E calls \in Requests : works' = calls
  /\ turn' = turn + 1 /\ handlers' = <<>> /\ results' = <<>>
  /\ Return(turn + 1, "none")
  /\ UNCHANGED <<attempt, exchanges, fileVars, outcome>>

\* tool_use: one goroutine for each call.
ToolUse ==
  /\ pc = "stream" /\ pc' = "tools"
  /\ \E calls \in Requests :
       /\ works' = calls
       /\ handlers' = [i \in DOMAIN calls |-> "ready"]
       /\ results' = [i \in DOMAIN calls |-> Pending]
  /\ turn' = turn + 1
  /\ UNCHANGED <<attempt, exchanges, fileVars, endVars>>

\* Seeded fault: a broken stream is retried for ever.
StreamBreaksForever ==
  /\ pc = "stream" /\ pc' = "backoff"
  /\ UNCHANGED <<loopVars, toolVars, fileVars, endVars>>

\* A transient error in mid-stream: the request is sent again after a delay.
StreamBreaks ==
  /\ pc = "stream"
  /\ \/ /\ attempt < StreamRetries /\ attempt' = attempt + 1 /\ pc' = "backoff"
        /\ UNCHANGED response
     \/ /\ attempt = StreamRetries /\ Return(turn, "stream")
        /\ UNCHANGED attempt
  /\ UNCHANGED <<turn, works, exchanges, toolVars, fileVars, outcome>>

Backoff ==
  /\ pc = "backoff" /\ pc' = "stream"
  /\ UNCHANGED <<loopVars, toolVars, fileVars, endVars>>

\* Any other error of the stream, or the context cancelled during a delay.
StreamFails ==
  /\ pc \in {"stream", "backoff"}
  /\ Return(turn, "stream")
  /\ UNCHANGED <<loopVars, toolVars, fileVars, outcome>>

-----------------------------------------------------------------------------
(* The handlers.  None of them looks at its context.                       *)

Path(i) == Clean[works[i].path]
Content(i) == <<turn, i>>

At(i, op, place) == pc = "tools" /\ works[i].op = op /\ handlers[i] = place
Goes(i, place) == handlers' = [handlers EXCEPT ![i] = place]

Result(i, content, listed) == [call |-> i, content |-> content, listed |-> listed]

\* Seeded fault: results in the order the handlers end.
EndsNext(i, content, listed) ==
  /\ Goes(i, "ended")
  /\ LET next == 1 + Cardinality({j \in DOMAIN results : results[j] # Pending})
     IN  results' = [results EXCEPT ![next] = Result(i, content, listed)]

\* results[w.idx] = result
Ends(i, content, listed) ==
  /\ Goes(i, "ended")
  /\ results' = [results EXCEPT ![i] = Result(i, content, listed)]

\* Seeded fault: a call that fails half way is made again.
HandlerFailsRetried(i) ==
  /\ pc = "tools" /\ handlers[i] \in {"ready", "opened"}
  /\ Goes(i, IF handlers[i] = "opened" THEN "ready" ELSE "failed")
  /\ UNCHANGED <<pc, loopVars, results, fileVars, endVars>>

\* An unknown tool, or input or a path that does not do, or a failure of the
\* disk: the goroutine returns an error and no result.
HandlerFails(i) ==
  /\ pc = "tools" /\ handlers[i] \in {"ready", "opened"}
  /\ Goes(i, "failed")
  /\ UNCHANGED <<pc, loopVars, results, fileVars, endVars>>

\* write_file in three steps: the file is truncated, it is written, and it is
\* entered in the map under the lock.
OpenFile(i) ==
  /\ At(i, "write", "ready") /\ Goes(i, "opened")
  /\ disk' = [disk EXCEPT ![Path(i)] = Empty]
  /\ UNCHANGED <<pc, loopVars, results, files, endVars>>

\* What another call wrote since the truncation may stick out behind.
WriteContent(i) ==
  /\ At(i, "write", "opened") /\ Goes(i, "written")
  /\ \E content \in IF disk[Path(i)] = Empty THEN {Content(i)} ELSE {Content(i), Mixed} :
       disk' = [disk EXCEPT ![Path(i)] = content]
  /\ UNCHANGED <<pc, loopVars, results, files, endVars>>

\* Seeded fault: a file may be entered in the map before it is written.
RecordFileUnwritten(i) ==
  /\ At(i, "write", "opened") \/ At(i, "write", "written")
  /\ Ends(i, Ok, {})
  /\ files' = [s \in DOMAIN files \cup {works[i].path} |->
                 IF s = works[i].path THEN Content(i) ELSE files[s]]
  /\ UNCHANGED <<pc, loopVars, disk, endVars>>

RecordFile(i) ==
  /\ At(i, "write", "written") /\ Ends(i, Ok, {})
  /\ files' = [s \in DOMAIN files \cup {works[i].path} |->
                 IF s = works[i].path THEN Content(i) ELSE files[s]]
  /\ UNCHANGED <<pc, loopVars, disk, endVars>>

\* A file that is not there is a result, not an error.
ReadFile(i) ==
  /\ At(i, "read", "ready") /\ Ends(i, disk[Path(i)], {})
  /\ UNCHANGED <<pc, loopVars, fileVars, endVars>>

ListFiles(i) ==
  /\ At(i, "list", "ready") /\ Ends(i, Ok, {p \in Paths : disk[p] # Absent})
  /\ UNCHANGED <<pc, loopVars, fileVars, endVars>>

-----------------------------------------------------------------------------
(* agentProcessToolUse after Wait, and the end of the turn.                *)

\* Seeded fault: the first error is enough to go on.
WaitedForError ==
  \/ \A i \in DOMAIN works : handlers[i] \in {"ended", "failed"}
  \/ \E i \in DOMAIN works : handlers[i] = "failed"

\* Wait returns when every goroutine has.
Waited == \A i \in DOMAIN works : handlers[i] \in {"ended", "failed"}

AnyFailed == \E i \in DOMAIN works : handlers[i] = "failed"

ToolsFail ==
  /\ pc = "tools" /\ Waited /\ AnyFailed
  /\ Return(turn, "tool")
  /\ UNCHANGED <<loopVars, toolVars, fileVars, outcome>>

MoreTurns == turn < MaxTurns

\* Calls and results are appended to the messages; the next turn is streamed,
\* unless it was the last.
ToolsEnd ==
  /\ pc = "tools" /\ Waited /\ ~AnyFailed
  /\ exchanges' = Append(exchanges, [calls |-> works, results |-> results])
  /\ attempt' = 0
  /\ IF MoreTurns
     THEN pc' = "stream" /\ UNCHANGED response
     ELSE Return(MaxTurns, "max_turns")
  /\ UNCHANGED <<turn, works, toolVars, fileVars, outcome>>

\* generateAgentic after the loop.
Generated ==
  /\ pc = "returned" /\ pc' = "done"
  /\ outcome' = IF response.err # "none" THEN "error"
                ELSE IF DOMAIN files = {} THEN "no_files" ELSE "files"
  /\ UNCHANGED <<loopVars, toolVars, fileVars, response>>

Terminating == pc = "done" /\ UNCHANGED vars

Stream == EndTurn \/ OtherStop \/ ToolUse \/ StreamBreaks \/ Backoff \/ StreamFails
Handler(i) ==
  \/ HandlerFails(i) \/ OpenFile(i) \/ WriteContent(i) \/ RecordFile(i)
  \/ ReadFile(i) \/ ListFiles(i)

Next ==
  \/ Seed \/ SeedFails
  \/ Stream
  \/ \E i \in DOMAIN works : Handler(i)
  \/ ToolsFail \/ ToolsEnd
  \/ Generated \/ Terminating

\* The goroutines are scheduled; a request and a file operation return.
Spec == Init /\ [][Next]_vars /\ WF_vars(Next)

-----------------------------------------------------------------------------
(* Properties.                                                             *)

IsResults(r) ==
  \A i \in DOMAIN r :
    \/ r[i] = Pending
    \/ r[i] \in [call : Nat, content : Stored \cup {Ok}, listed : SUBSET Paths]

\* Every variable holds a value of its kind; the loop never counts more turns
\* than it may take.
TypeOK ==
  /\ pc \in {"seed", "stream", "backoff", "tools", "returned", "done"}
  /\ turn \in 0..MaxTurns /\ attempt \in 0..StreamRetries
  /\ works \in Requests \cup {<<>>}
  /\ \A i \in DOMAIN handlers : handlers[i] \in {"ready", "opened", "written", "ended", "failed"}
  /\ IsResults(results)
  /\ \A t \in DOMAIN exchanges : exchanges[t].calls \in Requests /\ IsResults(exchanges[t].results)
  /\ disk \in [Paths -> Stored]
  /\ files \in [DOMAIN files -> Contents] /\ DOMAIN files \subseteq Spellings
  /\ response.turns \in 0..MaxTurns /\ response.err \in {"none", "stream", "tool", "max_turns"}
  /\ outcome \in {"none", "error", "no_files", "files"}

\* What the model is sent after a turn is one result for each of its calls, in
\* their order, whatever the order the handlers end in and however often the
\* turn was streamed (agentProcessToolUse's results[w.idx]).
AnswersMatchCalls ==
  /\ \A t \in DOMAIN exchanges :
       /\ DOMAIN exchanges[t].results = DOMAIN exchanges[t].calls
       /\ \A i \in DOMAIN exchanges[t].calls :
            exchanges[t].results[i] # Pending /\ exchanges[t].results[i].call = i
  /\ pc \in {"stream", "backoff"} => Len(exchanges) = turn

\* The calls of a turn that write a path, and the last turn before t with one.
WritesTo(t, p) ==
  {i \in DOMAIN exchanges[t].calls :
     exchanges[t].calls[i].op = "write" /\ Clean[exchanges[t].calls[i].path] = p}
LastWrite(t, p) ==
  LET before == {u \in 1..(t - 1) : WritesTo(u, p) # {}}
  IN  IF before = {} THEN 0 ELSE CHOOSE u \in before : \A v \in before : v <= u

\* A look at a file that no call of the same turn writes shows what the last
\* turn that wrote it left there, and a list misses none: what the model has
\* been told it wrote is there to be read (handleWriteFile, handleReadFile).
LooksSeeEarlierTurns ==
  \A t \in DOMAIN exchanges : \A i \in DOMAIN exchanges[t].calls :
    LET call == exchanges[t].calls[i]
        result == exchanges[t].results[i]
        p == Clean[call.path]
        last == LastWrite(t, p)
    IN  /\ call.op = "read" /\ WritesTo(t, p) = {} =>
             IF last = 0 THEN result.content \in {Absent} \cup Seeded
             ELSE \/ result.content \in {<<last, j>> : j \in WritesTo(last, p)}
                  \/ Cardinality(WritesTo(last, p)) > 1 /\ result.content = Mixed
        /\ call.op = "list" => \A q \in Paths : LastWrite(t, q) > 0 => q \in result.listed

\* The files generateAgentic returns are those on disk, where Docker builds
\* from, unless the model spelled one path in two ways or wrote it twice in its
\* last turn on it: then the map and the disk may differ (hashFiles and
\* bestFiles take the map).
FilesMatchDisk ==
  outcome = "files" =>
    \A p \in Paths :
      LET spelled == {s \in DOMAIN files : Clean[s] = p}
          last == LastWrite(Len(exchanges) + 1, p)
      IN  /\ spelled = {} <=> disk[p] = Absent
          /\ \A s \in spelled :
               \/ disk[p] = files[s]
               \/ Cardinality(spelled) > 1
               \/ last > 0 /\ Cardinality(WritesTo(last, p)) > 1

\* Every variable has its type, and when the loop has returned no handler is left that could still write into
\* the iteration's directory, also after an error (errgroup's Wait).
NoHandlerLeft ==
  /\ TypeOK
  /\ pc \in {"returned", "done"} =>
       \A i \in DOMAIN handlers : handlers[i] \in {"ended", "failed"}

\* The places of a turn in their order (its tools come before the next turn's stream),
\* and those of a handler.
Stage == [seed |-> 1, tools |-> 2, stream |-> 3, backoff |-> 3, returned |-> 4, done |-> 5]
Course == [ready |-> 1, opened |-> 2, written |-> 3, ended |-> 4, failed |-> 4]

\* What a step may do: it answers a turn, goes on to a later place of the one it is in,
\* breaks a stream or begins it again, or brings one handler on and no other back.
Moves ==
  \/ turn' = turn + 1 /\ turn' <= MaxTurns
  \/ turn' = turn /\ Stage[pc'] > Stage[pc]
  \/ /\ turn' = turn /\ pc = "stream" /\ pc' = "backoff"
     /\ attempt' = attempt + 1 /\ attempt' <= StreamRetries
  \/ turn' = turn /\ pc = "backoff" /\ pc' = "stream" /\ attempt' = attempt
  \/ /\ turn' = turn /\ pc' = "tools" /\ pc = "tools"
     /\ \E i \in DOMAIN handlers :
          /\ Course[handlers'[i]] > Course[handlers[i]]
          /\ handlers' = [handlers EXCEPT ![i] = handlers'[i]]

\* Why the loop ends: every step, of whatever goroutine, uses up turns, places, retries of a
\* stream or the few steps of a handler, and no turn gives back what it has used (MaxTurns,
\* streamRetries).
MovesOn == [][Moves]_vars

\* The loop ends, however the model goes on calling tools and the network
\* breaks (MaxTurns, streamRetries).
Terminates == <>(pc = "done")
=============================================================================
