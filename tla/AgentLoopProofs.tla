-------------------------- MODULE AgentLoopProofs --------------------------
(***************************************************************************)
(* Proofs that the agent loop answers each call of each turn once and in   *)
(* its place, leaves no handler behind, and keeps the files on disk and in *)
(* the handler's map together, for any files and spellings, any calls the  *)
(* model makes and any number of turns and broken streams.                 *)
(***************************************************************************)
EXTENDS AgentLoop, SequenceTheorems, FiniteSetTheorems, TLAPS

Doing == {"ready", "opened", "written"}
Over == {"ended", "failed"}
Results == [call : Nat, content : Stored \cup {Ok}, listed : SUBSET Paths]
Exchanges ==
  [calls : Requests, results : UNION {[1..n -> Results \cup {Pending}] : n \in Nat}]

\* Where the handlers are, with the calls they serve and the results they have.
Handlers ==
  /\ pc # "tools" => \A i \in DOMAIN handlers : handlers[i] \in Over
  /\ pc = "tools" =>
       /\ works \in Requests
       /\ handlers \in [DOMAIN works -> Doing \cup Over]
       /\ results \in [DOMAIN works -> Results \cup {Pending}]
       /\ \A i \in DOMAIN works :
            handlers[i] = "ended" => results[i] # Pending /\ results[i].call = i

\* How many turns have been answered.
Turns ==
  /\ exchanges \in Seq(Exchanges)
  /\ pc \in {"seed", "stream", "backoff"} => Len(exchanges) = turn /\ turn < MaxTurns
  /\ pc = "tools" => Len(exchanges) = turn - 1

Answered ==
  \A t \in DOMAIN exchanges :
    /\ DOMAIN exchanges[t].results = DOMAIN exchanges[t].calls
    /\ \A i \in DOMAIN exchanges[t].calls :
         exchanges[t].results[i] # Pending /\ exchanges[t].results[i].call = i

\* The inductive invariant.
IInv == TypeOK /\ Handlers /\ Turns /\ Answered

-----------------------------------------------------------------------------

LEMMA InitInv == Init => IInv
<1> SUFFICES ASSUME Init PROVE IInv
  OBVIOUS
<1> USE AgentAssumption DEF Init
<1>1. TypeOK
  BY DEF TypeOK, IsResults, NoResponse, Stored, Paths
<1>2. Handlers /\ Turns /\ Answered
  BY DEF Handlers, Turns, Answered
<1> QED BY <1>1, <1>2 DEF IInv

LEMMA Elements ==
  ASSUME NEW T, NEW s \in Seq(T)
  PROVE  Len(s) \in Nat /\ DOMAIN s = 1..Len(s) /\ \A i \in DOMAIN s : s[i] \in T
OBVIOUS

\* The calls of a turn are numbered, however many they are.
LEMMA Calls ==
  ASSUME NEW calls \in Requests
  PROVE  /\ calls \in Seq([op : Ops, path : Spellings])
         /\ \E n \in Nat : DOMAIN calls = 1..n
         /\ DOMAIN calls \subseteq Nat
         /\ \A i \in DOMAIN calls : calls[i] \in [op : Ops, path : Spellings]
<1>1. calls \in Seq([op : Ops, path : Spellings])
  BY AgentAssumption
<1>2. /\ Len(calls) \in Nat /\ DOMAIN calls = 1..Len(calls)
      /\ \A i \in DOMAIN calls : calls[i] \in [op : Ops, path : Spellings]
  BY <1>1, Elements
<1> QED BY <1>1, <1>2

\* Before the tools run and after they have, no handler is about.
LEMMA NoTools ==
  ASSUME IInv, pc # "tools", pc' # "tools",
         UNCHANGED <<exchanges, disk, files, outcome>>,
         \/ UNCHANGED <<handlers, results>>
         \/ handlers' = <<>> /\ results' = <<>>,
         works' \in Requests \cup {<<>>}, turn' \in 0..MaxTurns, attempt' \in 0..StreamRetries,
         pc' \in {"stream", "backoff"} =>
           pc \in {"stream", "backoff"} /\ turn' = turn /\ UNCHANGED response,
         pc' \in {"returned", "done", "stream", "backoff"},
         response'.turns \in 0..MaxTurns,
         response'.err \in {"none", "stream", "tool", "max_turns"}
  PROVE  IInv'
<1>1. TypeOK'
  BY DEF IInv, TypeOK, IsResults
<1>2. Handlers'
  BY DEF IInv, Handlers
<1>3. Turns' /\ Answered'
  BY DEF IInv, Turns, Answered
<1> QED BY <1>1, <1>2, <1>3 DEF IInv

LEMMA SeedStep == ASSUME IInv, Seed PROVE IInv'
<1>1. PICK best \in Seeds : WriteFiles(best) /\ files' = best
  BY DEF Seed
<1>2. files' \in [DOMAIN files' -> Contents] /\ DOMAIN files' \subseteq Spellings
  BY <1>1, AgentAssumption DEF Contents, Seeded
<1>3. disk' \in [Paths -> Stored]
  <2>1. \A s \in DOMAIN best : best[s] \in Contents
    BY <1>1, <1>2
  <2>2. {Absent} \cup {best[s] : s \in DOMAIN best} \subseteq Stored
    BY <2>1 DEF Stored
  <2> QED BY <1>1, <2>2 DEF WriteFiles
<1>4. TypeOK'
  BY <1>2, <1>3 DEF IInv, TypeOK, Seed, loopVars, toolVars, endVars, IsResults
<1>5. Handlers' /\ Turns' /\ Answered'
  BY DEF IInv, Handlers, Turns, Answered, Seed, loopVars, toolVars, endVars
<1> QED BY <1>4, <1>5 DEF IInv

LEMMA StreamStep == ASSUME IInv, Stream PROVE IInv'
<1> USE AgentAssumption DEF loopVars, toolVars, fileVars, endVars, Return
<1>0. turn \in 0..MaxTurns /\ attempt \in 0..StreamRetries /\ works \in Requests \cup {<<>>}
  BY DEF IInv, TypeOK
<1>1. CASE EndTurn
  <2>1. turn + 1 \in 0..MaxTurns
    BY <1>0, <1>1 DEF IInv, Turns, EndTurn
  <2> QED BY <1>0, <1>1, <2>1, NoTools DEF EndTurn
<1>2. CASE OtherStop
  <2>1. turn + 1 \in 0..MaxTurns
    BY <1>0, <1>2 DEF IInv, Turns, OtherStop
  <2> QED BY <1>0, <1>2, <2>1, NoTools DEF OtherStop
<1>3. CASE ToolUse
  <2>1. PICK calls \in Requests :
          /\ works' = calls
          /\ handlers' = [i \in DOMAIN calls |-> "ready"]
          /\ results' = [i \in DOMAIN calls |-> Pending]
    BY <1>3 DEF ToolUse
  <2>2. turn' \in 0..MaxTurns /\ turn' = turn + 1 /\ Len(exchanges) = turn
    BY <1>0, <1>3 DEF IInv, Turns, ToolUse
  <2>3. TypeOK'
    BY <1>3, <2>1, <2>2 DEF IInv, TypeOK, IsResults, ToolUse
  <2>4. Handlers'
    BY <1>3, <2>1 DEF Handlers, ToolUse, Doing
  <2>5. Turns' /\ Answered'
    BY <1>3, <2>2, <1>0 DEF IInv, Turns, Answered, ToolUse
  <2> QED BY <2>3, <2>4, <2>5 DEF IInv
<1>4. CASE StreamBreaks
  <2>1. /\ response'.turns \in 0..MaxTurns
        /\ response'.err \in {"none", "stream", "tool", "max_turns"}
    BY <1>0, <1>4 DEF StreamBreaks, IInv, TypeOK
  <2> QED BY <1>0, <1>4, <2>1, NoTools DEF StreamBreaks
<1>5. CASE Backoff
  BY <1>0, <1>5, NoTools DEF Backoff, IInv, TypeOK
<1>6. CASE StreamFails
  BY <1>0, <1>6, NoTools DEF StreamFails
<1> QED BY <1>1, <1>2, <1>3, <1>4, <1>5, <1>6 DEF Stream

\* A handler that works on a call moves itself and sets at most its own result.
LEMMA HandlerGoes ==
  ASSUME IInv, pc = "tools", NEW i \in DOMAIN works, NEW place \in Doing \cup Over,
         Goes(i, place), UNCHANGED <<pc, turn, attempt, works, exchanges, response, outcome>>,
         \/ place # "ended" /\ UNCHANGED results
         \/ \E content \in Stored \cup {Ok}, listed \in SUBSET Paths :
              results' = [results EXCEPT ![i] = Result(i, content, listed)],
         disk' \in [Paths -> Stored],
         files' \in [DOMAIN files' -> Contents], DOMAIN files' \subseteq Spellings
  PROVE  IInv'
<1>1. /\ i \in Nat /\ works' = works
      /\ handlers \in [DOMAIN works -> Doing \cup Over]
      /\ results \in [DOMAIN works -> Results \cup {Pending}]
  BY Calls DEF IInv, Handlers
<1>2. handlers' \in [DOMAIN works -> Doing \cup Over]
  BY <1>1 DEF Goes
<1>3. \A content \in Stored \cup {Ok}, listed \in SUBSET Paths :
        /\ Result(i, content, listed) \in Results
        /\ Result(i, content, listed) # Pending
        /\ Result(i, content, listed).call = i
  BY <1>1, AgentAssumption DEF Result, Results
<1>4. results' \in [DOMAIN works -> Results \cup {Pending}]
  BY <1>1, <1>3
<1>5. \A j \in DOMAIN works :
        handlers'[j] = "ended" => results'[j] # Pending /\ results'[j].call = j
  <2>1. \A j \in DOMAIN works :
          handlers[j] = "ended" => results[j] # Pending /\ results[j].call = j
    BY DEF IInv, Handlers
  <2>2. CASE place # "ended" /\ UNCHANGED results
    BY <1>1, <2>1, <2>2 DEF Goes
  <2>3. CASE \E content \in Stored \cup {Ok}, listed \in SUBSET Paths :
               results' = [results EXCEPT ![i] = Result(i, content, listed)]
    <3>1. PICK content \in Stored \cup {Ok}, listed \in SUBSET Paths :
            results' = [results EXCEPT ![i] = Result(i, content, listed)]
      BY <2>3
    <3> QED BY <1>1, <1>3, <2>1, <3>1 DEF Goes
  <2> QED BY <2>2, <2>3
<1>6. Handlers'
  BY <1>1, <1>2, <1>4, <1>5 DEF IInv, Handlers
<1>7. TypeOK'
  <2>1. IsResults(results')
    BY <1>4 DEF IsResults, Results
  <2>2. \A j \in DOMAIN handlers' : handlers'[j] \in Doing \cup Over
    BY <1>2
  <2> QED BY <2>1, <2>2 DEF IInv, TypeOK, IsResults, Doing, Over
<1>8. Turns' /\ Answered'
  BY DEF IInv, Turns, Answered
<1> QED BY <1>6, <1>7, <1>8 DEF IInv

LEMMA HandlerStep ==
  ASSUME IInv, NEW i \in DOMAIN works, Handler(i)
  PROVE  IInv'
<1> USE DEF loopVars, endVars, fileVars
<1>1. /\ pc = "tools" /\ i \in Nat /\ works[i].path \in Spellings /\ Path(i) \in Paths
  <2>1. pc = "tools"
    BY DEF Handler, HandlerFails, OpenFile, WriteContent, RecordFile, ReadFile, ListFiles, At
  <2>2. works \in Requests
    BY <2>1 DEF IInv, Handlers
  <2> QED BY <2>1, <2>2, Calls DEF Path, Paths
<1>2. /\ disk \in [Paths -> Stored] /\ Content(i) \in Contents
      /\ files \in [DOMAIN files -> Contents] /\ DOMAIN files \subseteq Spellings
  BY <1>1 DEF IInv, TypeOK, Content, Contents
<1>3. CASE HandlerFails(i)
  BY <1>1, <1>2, <1>3, HandlerGoes DEF HandlerFails, Over
<1>4. CASE OpenFile(i)
  <2>1. disk' \in [Paths -> Stored]
    BY <1>2, <1>4 DEF OpenFile, Stored
  <2> QED BY <1>1, <1>2, <1>4, <2>1, HandlerGoes DEF OpenFile, Doing
<1>5. CASE WriteContent(i)
  <2>1. disk' \in [Paths -> Stored]
    BY <1>2, <1>5 DEF WriteContent, Stored
  <2> QED BY <1>1, <1>2, <1>5, <2>1, HandlerGoes DEF WriteContent, Doing
<1>6. CASE RecordFile(i)
  <2>1. files' \in [DOMAIN files' -> Contents] /\ DOMAIN files' \subseteq Spellings
    BY <1>1, <1>2, <1>6 DEF RecordFile
  <2>2. Ok \in Stored \cup {Ok} /\ {} \in SUBSET Paths
    OBVIOUS
  <2> QED BY <1>1, <1>2, <1>6, <2>1, <2>2, HandlerGoes DEF RecordFile, Ends, Over
<1>7. CASE ReadFile(i)
  <2>1. disk[Path(i)] \in Stored \cup {Ok} /\ {} \in SUBSET Paths
    BY <1>1, <1>2
  <2> QED BY <1>1, <1>2, <1>7, <2>1, HandlerGoes DEF ReadFile, Ends, Over
<1>8. CASE ListFiles(i)
  <2>1. Ok \in Stored \cup {Ok} /\ {p \in Paths : disk[p] # Absent} \in SUBSET Paths
    OBVIOUS
  <2> QED BY <1>1, <1>2, <1>8, <2>1, HandlerGoes DEF ListFiles, Ends, Over
<1> QED BY <1>3, <1>4, <1>5, <1>6, <1>7, <1>8 DEF Handler

\* Every handler has ended: each call has its result, and goes with it.
LEMMA ToolsEndStep == ASSUME IInv, ToolsEnd PROVE IInv'
<1> USE AgentAssumption DEF loopVars, toolVars, fileVars, Return
<1> DEFINE exchange == [calls |-> works, results |-> results]
<1>1. /\ works \in Requests /\ turn \in 1..MaxTurns /\ Len(exchanges) = turn - 1
      /\ results \in [DOMAIN works -> Results \cup {Pending}]
      /\ exchanges \in Seq(Exchanges) /\ exchanges' = Append(exchanges, exchange)
  BY DEF ToolsEnd, IInv, Handlers, Turns, TypeOK
<1>2. exchange \in Exchanges
  <2>1. PICK n \in Nat : DOMAIN works = 1..n
    BY <1>1, Calls
  <2> QED BY <1>1, <2>1 DEF Exchanges
<1>3. \A i \in DOMAIN works :
        handlers[i] = "ended" /\ results[i] # Pending /\ results[i].call = i
  BY <1>1 DEF ToolsEnd, Waited, AnyFailed, IInv, Handlers
<1>4. /\ exchanges' \in Seq(Exchanges) /\ Len(exchanges') = turn /\ DOMAIN exchanges' = 1..turn
      /\ \A t \in 1..turn : exchanges'[t] = IF t = turn THEN exchange ELSE exchanges[t]
      /\ DOMAIN exchanges = 1..(turn - 1)
  BY <1>1, <1>2
<1>5. Answered'
  BY <1>1, <1>3, <1>4 DEF IInv, Answered
<1>6. Turns'
  BY <1>1, <1>4 DEF ToolsEnd, MoreTurns, Turns
<1>7. Handlers'
  BY <1>1, <1>3 DEF ToolsEnd, Handlers, IInv, Over
<1>8. TypeOK'
  <2>1. \A t \in DOMAIN exchanges' :
          exchanges'[t].calls \in Requests /\ IsResults(exchanges'[t].results)
    BY <1>1, <1>4 DEF IInv, TypeOK, IsResults
  <2> QED BY <1>1, <2>1 DEF ToolsEnd, MoreTurns, IInv, TypeOK, IsResults
<1> QED BY <1>5, <1>6, <1>7, <1>8 DEF IInv

LEMMA Inductive == ASSUME IInv, [Next]_vars PROVE IInv'
<1> USE DEF loopVars, toolVars, fileVars, endVars
<1>1. CASE SeedFails
  BY <1>1 DEF SeedFails, IInv, TypeOK, IsResults, Handlers, Turns, Answered
<1>2. CASE ToolsFail
  <2>1. pc' = "returned" /\ response' = [turns |-> turn, err |-> "tool"]
    BY <1>2 DEF ToolsFail, Return
  <2>2. TypeOK'
    BY <1>2, <2>1 DEF ToolsFail, IInv, TypeOK, IsResults
  <2>3. Handlers'
    BY <1>2, <2>1 DEF ToolsFail, Waited, IInv, Handlers, Over
  <2>4. Turns' /\ Answered'
    BY <1>2, <2>1 DEF ToolsFail, IInv, Turns, Answered
  <2> QED BY <2>2, <2>3, <2>4 DEF IInv
<1>3. CASE Generated
  BY <1>3 DEF Generated, IInv, TypeOK, IsResults, Handlers, Turns, Answered
<1>4. CASE UNCHANGED vars
  BY <1>4 DEF vars, IInv, TypeOK, IsResults, Handlers, Turns, Answered
<1> QED
  BY <1>1, <1>2, <1>3, <1>4, SeedStep, StreamStep, HandlerStep, ToolsEndStep
  DEF Next, Terminating

-----------------------------------------------------------------------------

\* Every variable holds a value of its kind, and no more turns are taken than
\* MaxTurns: the range over turns in AgentLoop.
THEOREM TypeCorrect == Spec => []TypeOK
<1>1. IInv => TypeOK
  BY DEF IInv
<1> QED BY InitInv, Inductive, <1>1, PTL DEF Spec

\* The model gets one result for each call of each turn, in the order of the
\* calls: agentProcessToolUse stores each under the index of its call.
THEOREM Answers == Spec => []AnswersMatchCalls
<1>1. IInv => AnswersMatchCalls
  BY DEF IInv, Turns, Answered, AnswersMatchCalls
<1> QED BY InitInv, Inductive, <1>1, PTL DEF Spec

\* Once the loop has returned no goroutine of a call is left to write into the
\* iteration's directory, an error of one of them included: Wait in
\* agentProcessToolUse.
THEOREM NoneLeft == Spec => []NoHandlerLeft
<1>1. IInv => NoHandlerLeft
  BY DEF IInv, Handlers, NoHandlerLeft, Over
<1> QED BY InitInv, Inductive, <1>1, PTL DEF Spec

-----------------------------------------------------------------------------
(* The files: what a call that looks at one is told, and how the handler's *)
(* map and the disk agree in the end.                                      *)

\* The turn that is streamed, or that tools run for, after the exchanges ex.
Now(ex) == Len(ex) + 1

Several(S) == \E j, k \in S : j # k

\* The calls that write path p.
Writers(calls, p) == {i \in DOMAIN calls : calls[i].op = "write" /\ Clean[calls[i].path] = p}

\* WritesTo and LastWrite, of any exchanges.
Wrote(ex, t, p) == Writers(ex[t].calls, p)
Before(ex, t, p) == {u \in 1..(t - 1) : Wrote(ex, u, p) # {}}
Latest(S) == IF S = {} THEN 0 ELSE CHOOSE u \in S : \A v \in S : v <= u
LastTurn(ex, t, p) == Latest(Before(ex, t, p))

\* What the calls of turn t that write a path may leave there between them.
Leave(t, calls) == {<<t, j>> : j \in calls} \cup {c \in {Mixed} : Several(calls)}

\* What the turns before t may have left at p.
Left(ex, t, p) ==
  IF LastTurn(ex, t, p) = 0 THEN {Absent} \cup Seeded
  ELSE Leave(LastTurn(ex, t, p), Wrote(ex, LastTurn(ex, t, p), p))

\* The map f and the disk d at p, between turns.
Spelled(f, p) == {s \in DOMAIN f : Clean[s] = p}
Agrees(ex, d, f, p) ==
  /\ Spelled(f, p) = {} <=> d[p] = Absent
  /\ \A s \in Spelled(f, p) :
       \/ d[p] = f[s]
       \/ Several(Spelled(f, p))
       \/ LET last == LastTurn(ex, Now(ex), p) IN last > 0 /\ Several(Wrote(ex, last, p))

Rests(ex, d, f, p) == d[p] \in Left(ex, Now(ex), p) /\ Agrees(ex, d, f, p)

Resting ==
  \/ pc \in {"stream", "backoff"}
  \/ pc = "returned" /\ response.err = "none"
  \/ outcome = "files"

Past == \A t \in 1..Now(exchanges), p \in Paths : LastTurn(exchanges, t, p) \in 0..(t - 1)

Rest ==
  /\ pc = "seed" => exchanges = <<>>
  /\ pc # "done" => outcome = "none"
  /\ Resting => \A p \in Paths : Rests(exchanges, disk, files, p)
  /\ IsFiniteSet(DOMAIN files)

\* Path p while the calls w run, with the handlers at h: the writers of p go
\* through disk and map in step.
Runs(w, h, ex, d, f, p) ==
  /\ Writers(w, p) = {} => Rests(ex, d, f, p)
  /\ LastTurn(ex, Now(ex), p) > 0 => d[p] # Absent
  /\ \A i \in Writers(w, p) : Writers(w, p) = {i} /\ h[i] = "opened" => d[p] = Empty
  /\ Writers(w, p) # {} /\ (\A i \in Writers(w, p) : h[i] \in {"written", "ended"}) =>
       d[p] \in Leave(Now(ex), Writers(w, p))
  /\ \A i \in Writers(w, p) :
       h[i] = "ended" =>
         /\ w[i].path \in DOMAIN f
         /\ Writers(w, p) = {i} => f[w[i].path] = <<Now(ex), i>>

Running == pc = "tools" => \A p \in Paths : Runs(works, handlers, exchanges, disk, files, p)

\* What a call of turn t sees, with the writers of its path in its own turn.
Sees(ex, t, call, writers, result) ==
  /\ call.op = "read" /\ writers = {} => result.content \in Left(ex, t, Clean[call.path])
  /\ call.op = "list" => \A q \in Paths : LastTurn(ex, t, q) > 0 => q \in result.listed

Looking ==
  pc = "tools" =>
    \A i \in DOMAIN works :
      handlers[i] = "ended" =>
        Sees(exchanges, Now(exchanges), works[i], Writers(works, Path(i)), results[i])

Seen ==
  \A t \in DOMAIN exchanges : \A i \in DOMAIN exchanges[t].calls :
    LET call == exchanges[t].calls[i]
    IN  Sees(exchanges, t, call, Wrote(exchanges, t, Clean[call.path]), exchanges[t].results[i])

\* The inductive invariant, together with IInv.
FilesInv == Past /\ Rest /\ Running /\ Looking /\ Seen

-----------------------------------------------------------------------------
(* The past of a turn.                                                     *)

\* The last of a turn's own past comes before the turn.
LEMMA Earlier ==
  ASSUME NEW n \in Nat \ {0}, NEW t \in 1..n, NEW u \in 0..(t - 1)
  PROVE  u # 0 => u \in 1..(n - 1)
OBVIOUS

\* more continues ex with one exchange, the n-th, whose calls are given.
Continues(ex, more, n, calls) ==
  /\ n \in Nat \ {0}
  /\ \A t \in 1..(n - 1) : more[t] = ex[t]
  /\ more[n].calls = calls
  /\ \A t \in 1..n, p \in Paths : LastTurn(ex, t, p) \in 0..(t - 1)

\* What was before the exchange is as it was, and at a path it writes it is
\* the last to have done so.
Continued(ex, more, n, calls) ==
  /\ \A t \in 1..(n + 1), p \in Paths : LastTurn(more, t, p) \in 0..(t - 1)
  /\ \A t \in 1..(n - 1), p \in Paths : Wrote(more, t, p) = Wrote(ex, t, p)
  /\ \A p \in Paths : Wrote(more, n, p) = Writers(calls, p)
  /\ \A t \in 1..n, p \in Paths :
       LastTurn(more, t, p) = LastTurn(ex, t, p) /\ Left(more, t, p) = Left(ex, t, p)
  /\ \A p \in Paths :
       /\ Writers(calls, p) = {} =>
            /\ LastTurn(more, n + 1, p) = LastTurn(ex, n, p)
            /\ Left(more, n + 1, p) = Left(ex, n, p)
       /\ Writers(calls, p) # {} =>
            /\ LastTurn(more, n + 1, p) = n
            /\ Left(more, n + 1, p) = Leave(n, Writers(calls, p))

LEMMA MorePast ==
  ASSUME NEW ex, NEW more, NEW n, NEW calls, Continues(ex, more, n, calls)
  PROVE  Continued(ex, more, n, calls)
<1> n \in Nat \ {0}
  BY DEF Continues
<1> \A t \in 1..n, p \in Paths : LastTurn(ex, t, p) \in 0..(t - 1)
  BY DEF Continues
<1>1. /\ \A t \in 1..(n - 1), p \in Paths : Wrote(more, t, p) = Wrote(ex, t, p)
      /\ \A p \in Paths : Wrote(more, n, p) = Writers(calls, p)
  BY DEF Wrote, Continues
<1>2. \A t \in 1..n, p \in Paths : LastTurn(more, t, p) = LastTurn(ex, t, p)
  <2> SUFFICES ASSUME NEW t \in 1..n, NEW p \in Paths
               PROVE  LastTurn(more, t, p) = LastTurn(ex, t, p)
    OBVIOUS
  <2>1. Before(more, t, p) = Before(ex, t, p)
    <3>1. 1..(t - 1) \subseteq 1..(n - 1)
      OBVIOUS
    <3> QED BY <1>1, <3>1 DEF Before
  <2> QED BY <2>1 DEF LastTurn
<1>3. ASSUME NEW p \in Paths, Writers(calls, p) = {}
      PROVE  LastTurn(more, n + 1, p) = LastTurn(ex, n, p)
  <2>1. (n + 1) - 1 = n /\ \A u \in 1..n : u = n \/ u \in 1..(n - 1)
    OBVIOUS
  <2>2. 1..(n - 1) \subseteq 1..n
    OBVIOUS
  <2>3. /\ Before(more, n + 1, p) = {u \in 1..n : Wrote(more, u, p) # {}}
        /\ Before(ex, n, p) = {u \in 1..(n - 1) : Wrote(ex, u, p) # {}}
    BY <2>1 DEF Before
  <2>4. Wrote(more, n, p) = {} /\ \A u \in 1..(n - 1) : Wrote(more, u, p) = Wrote(ex, u, p)
    BY <1>1, <1>3
  <2>5. ASSUME NEW u
        PROVE  u \in 1..n /\ Wrote(more, u, p) # {} <=> u \in 1..(n - 1) /\ Wrote(ex, u, p) # {}
    <3>1. CASE u \in 1..(n - 1)
      BY <2>2, <2>4, <3>1
    <3>2. CASE u \notin 1..(n - 1)
      BY <2>1, <2>4, <3>2
    <3> QED BY <3>1, <3>2
  <2>6. Before(more, n + 1, p) = Before(ex, n, p)
    <3>1. \A u : u \in Before(more, n + 1, p) <=> u \in 1..n /\ Wrote(more, u, p) # {}
      BY <2>3, Zenon
    <3>2. \A u : u \in Before(ex, n, p) <=> u \in 1..(n - 1) /\ Wrote(ex, u, p) # {}
      BY <2>3, Zenon
    <3>3. \A u : u \in Before(more, n + 1, p) <=> u \in Before(ex, n, p)
      BY <2>5, <3>1, <3>2, Zenon
    <3>4. /\ Before(more, n + 1, p) \subseteq Before(ex, n, p)
          /\ Before(ex, n, p) \subseteq Before(more, n + 1, p)
      BY <3>3, Zenon
    <3> QED BY <3>4
  <2> QED BY <2>6 DEF LastTurn
<1>4. ASSUME NEW p \in Paths, Writers(calls, p) # {}
      PROVE  LastTurn(more, n + 1, p) = n
  <2>1. n \in Before(more, n + 1, p) /\ \A v \in Before(more, n + 1, p) : v <= n /\ v \in Nat
    BY <1>1, <1>4 DEF Before
  <2>2. Latest(Before(more, n + 1, p)) = n
    <3> DEFINE S == Before(more, n + 1, p)
    <3> HIDE DEF S
    <3> QED BY <2>1 DEF Latest, S
  <2> QED BY <2>2 DEF LastTurn
<1>5. \A t \in 1..(n + 1), p \in Paths : LastTurn(more, t, p) \in 0..(t - 1)
  <2> SUFFICES ASSUME NEW t \in 1..(n + 1), NEW p \in Paths
               PROVE  LastTurn(more, t, p) \in 0..(t - 1)
    OBVIOUS
  <2>1. CASE t = n + 1
    <3>1. LastTurn(ex, n, p) \in 0..(n - 1)
      OBVIOUS
    <3>2. LastTurn(more, n + 1, p) \in {LastTurn(ex, n, p), n}
      BY <1>3, <1>4
    <3> QED BY <2>1, <3>1, <3>2
  <2>2. CASE t # n + 1
    <3>1. t \in 1..n
      BY <2>2
    <3> QED BY <1>2, <3>1
  <2> QED BY <2>1, <2>2
<1>6. ASSUME NEW t \in 1..n, NEW p \in Paths
      PROVE  /\ LastTurn(ex, t, p) # 0 =>
                  Wrote(more, LastTurn(ex, t, p), p) = Wrote(ex, LastTurn(ex, t, p), p)
  <2>1. LastTurn(ex, t, p) # 0 => LastTurn(ex, t, p) \in 1..(n - 1)
    BY Earlier
  <2> QED BY <1>1, <2>1
<1>7. \A t \in 1..n, p \in Paths : Left(more, t, p) = Left(ex, t, p)
  BY <1>2, <1>6 DEF Left
<1>8. ASSUME NEW p \in Paths, Writers(calls, p) = {}
      PROVE  Left(more, n + 1, p) = Left(ex, n, p)
  <2>1. n \in 1..n
    OBVIOUS
  <2> QED BY <1>3, <1>6, <1>8, <2>1 DEF Left
<1>9. ASSUME NEW p \in Paths, Writers(calls, p) # {}
      PROVE  Left(more, n + 1, p) = Leave(n, Writers(calls, p))
  BY <1>1, <1>4, <1>9 DEF Left
<1> QED BY <1>1, <1>2, <1>3, <1>4, <1>5, <1>7, <1>8, <1>9 DEF Continued
-----------------------------------------------------------------------------
(* The steps.                                                              *)

LEMMA FilesInit == Init => FilesInv
<1> SUFFICES ASSUME Init PROVE FilesInv
  OBVIOUS
<1>1. exchanges = <<>> /\ Now(exchanges) = 1
  BY DEF Init, Now
<1>2. \A p \in Paths : LastTurn(exchanges, 1, p) = 0
  BY DEF LastTurn, Latest, Before
<1>3. Past
  BY <1>1, <1>2 DEF Past
<1>4. IsFiniteSet(DOMAIN files)
  <2>1. DOMAIN files = {}
    BY DEF Init
  <2> QED BY <2>1, FS_EmptySet
<1>5. Rest /\ Running /\ Looking /\ Seen
  BY <1>1, <1>4 DEF Init, Rest, Resting, Running, Looking, Seen
<1> QED BY <1>3, <1>5 DEF FilesInv

\* Steps that leave messages and files alone, and start no tools.
LEMMA Quiet ==
  ASSUME FilesInv, UNCHANGED <<exchanges, disk, files>>, pc' \notin {"seed", "tools"},
         Resting' => Resting, pc' # "done" => outcome' = "none"
  PROVE  FilesInv'
<1>1. Past' /\ Seen'
  BY DEF FilesInv, Past, Seen
<1>2. Rest'
  BY DEF FilesInv, Rest
<1>3. Running' /\ Looking'
  BY DEF Running, Looking
<1> QED BY <1>1, <1>2, <1>3 DEF FilesInv

\* Each best file is on disk and in the map, or one of its spellings is.
LEMMA SeedFiles == ASSUME IInv, FilesInv, Seed PROVE FilesInv'
<1>1. PICK best \in Seeds : WriteFiles(best) /\ files' = best
  BY DEF Seed
<1>2. /\ best \in [DOMAIN best -> Seeded] /\ DOMAIN best \subseteq Spellings
      /\ IsFiniteSet(DOMAIN best) /\ Absent \notin Seeded
  BY <1>1, AgentAssumption DEF Contents, Seeded
<1>3. /\ pc' = "stream" /\ exchanges = <<>> /\ exchanges' = exchanges /\ outcome' = "none"
  BY DEF Seed, loopVars, endVars, FilesInv, Rest
<1>4. Now(exchanges) = 1 /\ \A p \in Paths : LastTurn(exchanges, 1, p) = 0
  BY <1>3 DEF Now, LastTurn, Latest, Before
<1>5. ASSUME NEW p \in Paths PROVE Rests(exchanges, disk', files', p)
  <2> DEFINE written == {best[s] : s \in {t \in DOMAIN best : Clean[t] = p}}
  <2>1. disk'[p] \in IF written = {} THEN {Absent} ELSE written
    BY <1>1, <1>5 DEF WriteFiles
  <2>2. written \subseteq Seeded /\ (written = {} <=> Spelled(best, p) = {})
    BY <1>2 DEF Spelled
  <2>3. disk'[p] \in Left(exchanges, 1, p)
    BY <1>4, <2>1, <2>2 DEF Left
  <2>4. Spelled(best, p) = {} <=> disk'[p] = Absent
    BY <1>2, <2>1, <2>2
  <2>5. \A s \in Spelled(best, p) : disk'[p] = best[s] \/ Several(Spelled(best, p))
    BY <2>1 DEF Spelled, Several
  <2> QED BY <1>1, <1>4, <2>3, <2>4, <2>5 DEF Rests, Agrees
<1>6. Rest'
  BY <1>1, <1>2, <1>3, <1>5 DEF Rest
<1>7. Past' /\ Running' /\ Looking' /\ Seen'
  BY <1>3 DEF FilesInv, Past, Running, Looking, Seen
<1> QED BY <1>6, <1>7 DEF FilesInv

\* What a turn has written is there.
LEMMA Kept ==
  ASSUME IInv, FilesInv, NEW p \in Paths, NEW content \in Left(exchanges, Now(exchanges), p),
         LastTurn(exchanges, Now(exchanges), p) > 0, pc \in {"stream", "tools"}
  PROVE  content # Absent
<1> DEFINE last == LastTurn(exchanges, Now(exchanges), p)
<1>1. /\ exchanges \in Seq(Exchanges) /\ Len(exchanges) \in 0..MaxTurns /\ MaxTurns \in Nat
      /\ DOMAIN exchanges = 1..Len(exchanges)
  BY AgentAssumption DEF IInv, Turns, TypeOK
<1>2. last \in 1..Len(exchanges)
  <2>1. Now(exchanges) \in 1..Now(exchanges)
    BY <1>1 DEF Now
  <2>2. last \in 0..(Now(exchanges) - 1)
    BY <2>1 DEF FilesInv, Past
  <2> QED BY <1>1, <2>2 DEF Now
<1>3. exchanges[last].calls \in Requests
  BY <1>1, <1>2 DEF IInv, TypeOK
<1>4. Wrote(exchanges, last, p) \subseteq Nat
  BY <1>3, Calls DEF Wrote, Writers
<1>5. content \in Leave(last, Wrote(exchanges, last, p))
  BY <1>2 DEF Left
<1>6. \A j \in Nat : <<last, j>> \in Contents
  BY <1>1, <1>2 DEF Contents
<1> QED BY <1>4, <1>5, <1>6, AgentAssumption DEF Leave

LEMMA ToolUseFiles == ASSUME IInv, FilesInv, ToolUse PROVE FilesInv'
<1>1. PICK calls \in Requests :
        works' = calls /\ handlers' = [i \in DOMAIN calls |-> "ready"]
  BY DEF ToolUse
<1>2. pc = "stream" /\ pc' = "tools" /\ UNCHANGED <<exchanges, disk, files, response, outcome>>
  BY DEF ToolUse, fileVars, endVars
<1>3. ASSUME NEW p \in Paths
      PROVE  Runs(works', handlers', exchanges, disk, files, p)
  <2>1. Rests(exchanges, disk, files, p)
    BY <1>2 DEF FilesInv, Rest, Resting
  <2>2. LastTurn(exchanges, Now(exchanges), p) > 0 => disk[p] # Absent
    BY <1>2, <2>1, Kept DEF Rests
  <2>3. \A i \in Writers(works', p) : handlers'[i] = "ready"
    BY <1>1 DEF Writers
  <2> QED BY <2>1, <2>2, <2>3 DEF Runs
<1>4. Running' /\ Looking'
  BY <1>1, <1>2, <1>3 DEF Running, Looking
<1>5. Past' /\ Seen'
  BY <1>2 DEF FilesInv, Past, Seen
<1>6. Rest'
  BY <1>2 DEF FilesInv, Rest, Resting
<1> QED BY <1>4, <1>5, <1>6 DEF FilesInv
\* A path that call i does not write, and whose file it leaves alone.
LEMMA RunsElse ==
  ASSUME NEW w, NEW h, NEW ex, NEW d, NEW f, NEW p, Runs(w, h, ex, d, f, p),
         NEW i, i \notin Writers(w, p), NEW place,
         NEW h2, NEW d2, NEW f2,
         h2 = [h EXCEPT ![i] = place], DOMAIN h = DOMAIN w, d2[p] = d[p],
         \A s : Clean[s] = p =>
           (s \in DOMAIN f2 <=> s \in DOMAIN f) /\ (s \in DOMAIN f => f2[s] = f[s])
  PROVE  Runs(w, h2, ex, d2, f2, p)
<1>1. \A j \in Writers(w, p) : h2[j] = h[j]
  BY DEF Writers
<1>2. Spelled(f2, p) = Spelled(f, p) /\ \A s \in Spelled(f, p) : f2[s] = f[s]
  BY DEF Spelled
<1>3. Rests(ex, d, f, p) => Rests(ex, d2, f2, p)
  BY <1>2 DEF Rests, Agrees
<1>4. \A j \in Writers(w, p) :
        w[j].path \in DOMAIN f => w[j].path \in DOMAIN f2 /\ f2[w[j].path] = f[w[j].path]
  BY DEF Writers
<1> QED BY <1>1, <1>3, <1>4 DEF Runs

\* Call i moves on: what it does to the path it writes, and sees if it ends.
LEMMA CallGoes ==
  ASSUME IInv, FilesInv, pc = "tools", NEW i \in DOMAIN works, NEW place, Goes(i, place),
         UNCHANGED <<pc, works, exchanges, response, outcome>>,
         IsFiniteSet(DOMAIN files'),
         \A p \in Paths : i \notin Writers(works, p) =>
           /\ disk'[p] = disk[p]
           /\ \A s : Clean[s] = p =>
                /\ s \in DOMAIN files' <=> s \in DOMAIN files
                /\ s \in DOMAIN files => files'[s] = files[s],
         \A p \in Paths : i \in Writers(works, p) =>
           Runs(works, handlers', exchanges, disk', files', p),
         \A j \in DOMAIN works : j # i => results'[j] = results[j],
         place = "ended" =>
           Sees(exchanges, Now(exchanges), works[i], Writers(works, Path(i)), results'[i])
  PROVE  FilesInv'
<1>1. handlers' = [handlers EXCEPT ![i] = place] /\ DOMAIN handlers = DOMAIN works
  BY DEF Goes, IInv, Handlers
<1>2. ASSUME NEW p \in Paths PROVE Runs(works, handlers', exchanges, disk', files', p)
  <2>1. CASE i \in Writers(works, p)
    BY <2>1
  <2>2. CASE i \notin Writers(works, p)
    <3>1. Runs(works, handlers, exchanges, disk, files, p)
      BY DEF FilesInv, Running
    <3> QED BY <1>1, <2>2, <3>1, RunsElse
  <2> QED BY <2>1, <2>2
<1>3. Running'
  BY <1>2 DEF Running
<1>4. Looking'
  <2> SUFFICES ASSUME NEW j \in DOMAIN works, handlers'[j] = "ended"
               PROVE  Sees(exchanges, Now(exchanges), works[j],
                           Writers(works, Path(j)), results'[j])
    BY DEF Looking, Path
  <2>1. CASE j = i
    BY <1>1, <2>1
  <2>2. CASE j # i
    BY <1>1, <2>2 DEF FilesInv, Looking
  <2> QED BY <2>1, <2>2
<1>5. Past' /\ Seen' /\ Rest'
  BY DEF FilesInv, Past, Seen, Rest, Resting
<1> QED BY <1>3, <1>4, <1>5 DEF FilesInv
LEMMA HandlerFiles ==
  ASSUME IInv, FilesInv, NEW i \in DOMAIN works, Handler(i)
  PROVE  FilesInv'
<1> USE DEF loopVars, endVars, fileVars
<1>1. /\ pc = "tools" /\ UNCHANGED <<pc, works, exchanges, response, outcome>>
      /\ IsFiniteSet(DOMAIN files)
  BY DEF Handler, HandlerFails, OpenFile, WriteContent, RecordFile, ReadFile, ListFiles, At,
         FilesInv, Rest
<1>2. /\ works \in Requests /\ i \in Nat /\ works[i].path \in Spellings
      /\ Path(i) \in Paths /\ Path(i) = Clean[works[i].path]
  <2>1. works \in Requests
    BY <1>1 DEF IInv, Handlers
  <2> QED BY <2>1, Calls DEF Path, Paths
<1>3. /\ handlers \in [DOMAIN works -> Doing \cup Over]
      /\ results \in [DOMAIN works -> Results \cup {Pending}]
      /\ disk \in [Paths -> Stored]
  BY <1>1 DEF IInv, Handlers, TypeOK
<1>4. /\ turn = Now(exchanges) /\ Content(i) = <<Now(exchanges), i>>
      /\ Content(i) \in Contents
  BY <1>1, <1>2 DEF IInv, Turns, TypeOK, Now, Content, Contents
<1>5. \A p \in Paths :
        /\ Runs(works, handlers, exchanges, disk, files, p)
        /\ i \in Writers(works, p) => p = Path(i) /\ works[i].op = "write"
        /\ works[i].op = "write" /\ p = Path(i) => i \in Writers(works, p)
  BY <1>1, <1>2 DEF FilesInv, Running, Writers
<1>6. CASE HandlerFails(i)
  <2>1. /\ Goes(i, "failed") /\ UNCHANGED <<disk, files, results>>
        /\ handlers'[i] = "failed"
        /\ \A j \in DOMAIN works : j # i => handlers'[j] = handlers[j]
    BY <1>3, <1>6 DEF HandlerFails, Goes
  <2>2. ASSUME NEW p \in Paths, i \in Writers(works, p)
        PROVE  Runs(works, handlers', exchanges, disk', files', p)
    <3>1. Writers(works, p) \subseteq DOMAIN works
      BY DEF Writers
    <3> QED BY <1>5, <2>1, <2>2, <3>1 DEF Runs
  <2> QED BY <1>1, <2>1, <2>2, CallGoes
<1>7. CASE OpenFile(i)
  <2>1. /\ Goes(i, "opened") /\ UNCHANGED <<files, results>>
        /\ handlers'[i] = "opened"
        /\ \A j \in DOMAIN works : j # i => handlers'[j] = handlers[j]
        /\ disk'[Path(i)] = Empty /\ \A p \in Paths : p # Path(i) => disk'[p] = disk[p]
        /\ works[i].op = "write"
    BY <1>2, <1>3, <1>7 DEF OpenFile, Goes, At
  <2>2. ASSUME NEW p \in Paths, i \in Writers(works, p)
        PROVE  Runs(works, handlers', exchanges, disk', files', p)
    <3>1. Writers(works, p) \subseteq DOMAIN works
      BY DEF Writers
    <3>2. disk'[p] = Empty /\ Empty # Absent
      BY <1>5, <2>1, <2>2, AgentAssumption
    <3> QED BY <1>5, <2>1, <2>2, <3>1, <3>2 DEF Runs
  <2> QED BY <1>1, <1>5, <2>1, <2>2, CallGoes
<1>8. CASE WriteContent(i)
  <2>1. /\ Goes(i, "written") /\ UNCHANGED <<files, results>> /\ handlers[i] = "opened"
        /\ handlers'[i] = "written"
        /\ \A j \in DOMAIN works : j # i => handlers'[j] = handlers[j]
        /\ disk'[Path(i)] \in {Content(i), Mixed}
        /\ disk[Path(i)] = Empty => disk'[Path(i)] = Content(i)
        /\ \A p \in Paths : p # Path(i) => disk'[p] = disk[p]
        /\ works[i].op = "write"
    BY <1>2, <1>3, <1>8 DEF WriteContent, Goes, At
  <2>2. ASSUME NEW p \in Paths, i \in Writers(works, p)
        PROVE  Runs(works, handlers', exchanges, disk', files', p)
    <3>1. Writers(works, p) \subseteq DOMAIN works
      BY DEF Writers
    <3>2. p = Path(i) /\ Runs(works, handlers, exchanges, disk, files, p)
      BY <1>5, <2>2
    <3>3. disk'[p] # Absent
      BY <1>4, <2>1, <3>2, AgentAssumption
    <3>4. disk'[p] \in Leave(Now(exchanges), Writers(works, p))
      <4>1. CASE Writers(works, p) = {i}
        BY <1>4, <2>1, <3>2, <4>1 DEF Runs, Leave
      <4>2. CASE Writers(works, p) # {i}
        BY <1>4, <2>1, <2>2, <3>2, <4>2 DEF Leave, Several
      <4> QED BY <4>1, <4>2
    <3> QED BY <2>1, <2>2, <3>1, <3>2, <3>3, <3>4 DEF Runs
  <2> QED BY <1>1, <1>5, <2>1, <2>2, CallGoes
<1>9. CASE RecordFile(i)
  <2>1. /\ Goes(i, "ended") /\ UNCHANGED disk /\ handlers[i] = "written"
        /\ handlers'[i] = "ended"
        /\ \A j \in DOMAIN works : j # i => handlers'[j] = handlers[j]
        /\ \A j \in DOMAIN works : j # i => results'[j] = results[j]
        /\ DOMAIN files' = DOMAIN files \cup {works[i].path}
        /\ files'[works[i].path] = Content(i)
        /\ \A s \in DOMAIN files : s # works[i].path => files'[s] = files[s]
        /\ works[i].op = "write"
    BY <1>2, <1>3, <1>9 DEF RecordFile, Ends, Goes, At
  <2>2. ASSUME NEW p \in Paths, i \in Writers(works, p)
        PROVE  Runs(works, handlers', exchanges, disk', files', p)
    <3>1. Writers(works, p) \subseteq DOMAIN works
      BY DEF Writers
    <3>2. Runs(works, handlers, exchanges, disk, files, p)
      BY <1>5
    <3>3. \A j \in Writers(works, p) : Writers(works, p) = {j} => j = i
      BY <2>2
    <3> QED BY <1>4, <2>1, <2>2, <3>1, <3>2, <3>3 DEF Runs
  <2>3. IsFiniteSet(DOMAIN files')
    BY <1>1, <2>1, FS_AddElement
  <2>4. ASSUME NEW p \in Paths, i \notin Writers(works, p), NEW s, Clean[s] = p
        PROVE  /\ s \in DOMAIN files' <=> s \in DOMAIN files
               /\ s \in DOMAIN files => files'[s] = files[s]
    BY <1>2, <1>5, <2>1, <2>4
  <2>5. Sees(exchanges, Now(exchanges), works[i], Writers(works, Path(i)), results'[i])
    BY <2>1 DEF Sees
  <2> QED BY <1>1, <2>1, <2>2, <2>3, <2>4, <2>5, CallGoes
<1>10. CASE ReadFile(i)
  <2>1. /\ Goes(i, "ended") /\ UNCHANGED <<disk, files>> /\ works[i].op = "read"
        /\ \A j \in DOMAIN works : j # i => results'[j] = results[j]
        /\ results'[i].content = disk[Path(i)]
    BY <1>3, <1>10 DEF ReadFile, Ends, Goes, At, Result
  <2>2. Sees(exchanges, Now(exchanges), works[i], Writers(works, Path(i)), results'[i])
    BY <1>2, <1>5, <2>1 DEF Sees, Runs, Rests
  <2>3. \A p \in Paths : i \notin Writers(works, p)
    BY <2>1 DEF Writers
  <2> QED BY <1>1, <2>1, <2>2, <2>3, CallGoes
<1>11. CASE ListFiles(i)
  <2>1. /\ Goes(i, "ended") /\ UNCHANGED <<disk, files>> /\ works[i].op = "list"
        /\ \A j \in DOMAIN works : j # i => results'[j] = results[j]
        /\ results'[i].listed = {p \in Paths : disk[p] # Absent}
    BY <1>3, <1>11 DEF ListFiles, Ends, Goes, At, Result
  <2>2. Sees(exchanges, Now(exchanges), works[i], Writers(works, Path(i)), results'[i])
    BY <1>5, <2>1 DEF Sees, Runs
  <2>3. \A p \in Paths : i \notin Writers(works, p)
    BY <2>1 DEF Writers
  <2> QED BY <1>1, <2>1, <2>2, <2>3, CallGoes
<1> QED BY <1>6, <1>7, <1>8, <1>9, <1>10, <1>11 DEF Handler
\* Every call has ended: what its writers left at a path rests there, and the
\* map has it too.
LEMMA RunsEnd ==
  ASSUME NEW w, NEW h, NEW ex, NEW more, NEW n \in Nat \ {0}, NEW d, NEW f, NEW p \in Paths,
         Runs(w, h, ex, d, f, p), Now(ex) = n, Now(more) = n + 1,
         \A i \in DOMAIN w : h[i] = "ended",
         Writers(w, p) \subseteq Nat, \A j \in Nat : <<n, j>> \in Contents,
         Wrote(more, n, p) = Writers(w, p),
         LastTurn(ex, n, p) # 0 =>
           Wrote(more, LastTurn(ex, n, p), p) = Wrote(ex, LastTurn(ex, n, p), p),
         Writers(w, p) = {} =>
           /\ LastTurn(more, n + 1, p) = LastTurn(ex, n, p)
           /\ Left(more, n + 1, p) = Left(ex, n, p),
         Writers(w, p) # {} =>
           /\ LastTurn(more, n + 1, p) = n
           /\ Left(more, n + 1, p) = Leave(n, Writers(w, p)),
         LastTurn(ex, n, p) \in Nat
  PROVE  Rests(more, d, f, p)
<1>1. CASE Writers(w, p) = {}
  <2>1. Rests(ex, d, f, p)
    BY <1>1 DEF Runs
  <2> QED BY <1>1, <2>1 DEF Rests, Agrees
<1>2. CASE Writers(w, p) # {}
  <2>1. \A i \in Writers(w, p) :
          /\ h[i] = "ended" /\ w[i].path \in Spelled(f, p)
          /\ Writers(w, p) = {i} => f[w[i].path] = <<n, i>>
    BY DEF Writers, Runs, Spelled
  <2>2. d[p] \in Leave(n, Writers(w, p))
    BY <1>2, <2>1 DEF Runs
  <2>3. d[p] # Absent /\ Spelled(f, p) # {}
    <3>1. Leave(n, Writers(w, p)) \subseteq Contents \cup {Mixed}
      BY DEF Leave
    <3>2. Absent \notin Contents \cup {Mixed}
      BY AgentAssumption
    <3> QED BY <1>2, <2>1, <2>2, <3>1, <3>2
  <2>4. ASSUME NEW s \in Spelled(f, p)
        PROVE  d[p] = f[s] \/ Several(Spelled(f, p)) \/ Several(Writers(w, p))
    <3>1. PICK i \in Writers(w, p) : TRUE
      BY <1>2
    <3>2. CASE Writers(w, p) # {i}
      BY <3>1, <3>2 DEF Several
    <3>3. CASE Writers(w, p) = {i} /\ s = w[i].path
      <4>1. d[p] = <<n, i>>
        BY <2>2, <3>3 DEF Leave, Several
      <4> QED BY <2>1, <3>1, <3>3, <4>1
    <3>4. CASE s # w[i].path
      BY <2>1, <3>1, <3>4, <2>4 DEF Several
    <3> QED BY <3>2, <3>3, <3>4
  <2> QED BY <1>2, <2>2, <2>3, <2>4 DEF Rests, Agrees
<1> QED BY <1>1, <1>2

LEMMA ToolsEndFiles == ASSUME IInv, FilesInv, ToolsEnd PROVE FilesInv'
<1> DEFINE n == Now(exchanges)
           e == [calls |-> works, results |-> results]
<1>1. /\ pc = "tools" /\ UNCHANGED <<turn, works, handlers, results, disk, files, outcome>>
      /\ exchanges' = Append(exchanges, e) /\ outcome = "none"
      /\ pc' = "stream" \/ pc' = "returned"
      /\ \A i \in DOMAIN works : handlers[i] = "ended"
  BY DEF ToolsEnd, toolVars, fileVars, Return, FilesInv, Rest, Waited, AnyFailed
<1>2. /\ exchanges \in Seq(Exchanges) /\ works \in Requests /\ turn = n /\ turn \in 0..MaxTurns
      /\ results \in [DOMAIN works -> Results \cup {Pending}] /\ MaxTurns \in Nat
  BY <1>1, AgentAssumption DEF IInv, Turns, Handlers, TypeOK, Now
<1>3. e \in Exchanges
  <2>1. PICK k \in Nat : DOMAIN works = 1..k
    BY <1>2, Calls
  <2> QED BY <1>2, <2>1 DEF Exchanges
<1>4. /\ n \in Nat \ {0} /\ Now(exchanges') = n + 1 /\ DOMAIN exchanges' = 1..n
      /\ DOMAIN exchanges = 1..(n - 1)
      /\ \A t \in 1..(n - 1) : exchanges'[t] = exchanges[t]
      /\ exchanges'[n] = e
  <2> HIDE DEF e
  <2> QED BY <1>1, <1>2, <1>3 DEF Now
<1>5. \A t \in 1..n, p \in Paths : LastTurn(exchanges, t, p) \in 0..(t - 1)
  BY DEF FilesInv, Past
<1>6. Continued(exchanges, exchanges', n, works)
  <2>1. Continues(exchanges, exchanges', n, works)
    BY <1>4, <1>5 DEF Continues
  <2> HIDE DEF n, e
  <2> QED BY <2>1, MorePast
<1>7. ASSUME NEW p \in Paths PROVE Rests(exchanges', disk, files, p)
  <2>1. Runs(works, handlers, exchanges, disk, files, p)
    BY <1>1 DEF FilesInv, Running
  <2>2. Writers(works, p) \subseteq Nat /\ \A j \in Nat : <<n, j>> \in Contents
    BY <1>2, Calls DEF Writers, Contents
  <2>3. LastTurn(exchanges, n, p) \in 0..(n - 1)
    BY <1>4, <1>5
  <2>4. LastTurn(exchanges, n, p) # 0 =>
          Wrote(exchanges', LastTurn(exchanges, n, p), p)
            = Wrote(exchanges, LastTurn(exchanges, n, p), p)
    <3> HIDE DEF n
    <3> QED BY <1>4, <1>6, <2>3 DEF Continued
  <2>5. LastTurn(exchanges, n, p) \in Nat
    BY <2>3
  <2>6. n \in Nat \ {0} /\ Now(exchanges) = n /\ Now(exchanges') = n + 1
    BY <1>4
  <2>7. \A i \in DOMAIN works : handlers[i] = "ended"
    BY <1>1
  <2>8. /\ Wrote(exchanges', n, p) = Writers(works, p)
        /\ Writers(works, p) = {} =>
             /\ LastTurn(exchanges', n + 1, p) = LastTurn(exchanges, n, p)
             /\ Left(exchanges', n + 1, p) = Left(exchanges, n, p)
        /\ Writers(works, p) # {} =>
             /\ LastTurn(exchanges', n + 1, p) = n
             /\ Left(exchanges', n + 1, p) = Leave(n, Writers(works, p))
    BY <1>6 DEF Continued
  <2> HIDE DEF n
  <2> QED BY <2>1, <2>2, <2>4, <2>5, <2>6, <2>7, <2>8, RunsEnd
<1>8. Past'
  BY <1>4, <1>6 DEF Past, Continued
<1>9. Rest'
  BY <1>1, <1>7 DEF FilesInv, Rest
<1>10. Running' /\ Looking'
  BY <1>1 DEF Running, Looking
<1>11. ASSUME NEW t \in DOMAIN exchanges', NEW i \in DOMAIN exchanges'[t].calls
       PROVE  LET call == exchanges'[t].calls[i]
              IN  Sees(exchanges', t, call, Wrote(exchanges', t, Clean[call.path]),
                       exchanges'[t].results[i])
  <2>1. exchanges'[t].calls \in Requests
    <3>1. TypeOK'
      BY ToolsEndStep DEF IInv
    <3> QED BY <3>1 DEF TypeOK
  <2> DEFINE call == exchanges'[t].calls[i]
             p == Clean[call.path]
  <2>2. p \in Paths
    BY <2>1, Calls DEF Paths
  <2>3. t \in 1..n
    BY <1>4
  <2>4. CASE t = n
    <3>1. Sees(exchanges, n, call, Writers(works, p), results[i])
      BY <1>1, <1>4, <2>4 DEF FilesInv, Looking, Path
    <3> QED BY <1>4, <1>6, <2>2, <2>3, <2>4, <3>1 DEF Sees, Continued
  <2>5. CASE t # n
    <3>1. t \in 1..(n - 1) /\ exchanges'[t] = exchanges[t] /\ t \in DOMAIN exchanges
      BY <1>4, <2>3, <2>5
    <3>2. Sees(exchanges, t, call, Wrote(exchanges, t, p), exchanges[t].results[i])
      BY <3>1 DEF FilesInv, Seen
    <3> QED BY <1>6, <2>2, <2>3, <3>1, <3>2 DEF Sees, Continued
  <2> QED BY <2>4, <2>5
<1>12. Seen'
  BY <1>11 DEF Seen
<1> QED BY <1>8, <1>9, <1>10, <1>12 DEF FilesInv

LEMMA FilesInductive == ASSUME IInv, FilesInv, [Next]_vars PROVE FilesInv'
<1> USE DEF loopVars, toolVars, fileVars, endVars, Return
<1>1. CASE SeedFails
  BY <1>1, Quiet DEF SeedFails, Resting
<1>2. CASE Stream /\ ~ToolUse
  <2>1. /\ pc \in {"stream", "backoff"} /\ pc' \in {"stream", "backoff", "returned"}
        /\ UNCHANGED <<exchanges, disk, files, outcome>>
    BY <1>2 DEF Stream, EndTurn, OtherStop, StreamBreaks, Backoff, StreamFails
  <2> QED BY <2>1, Quiet DEF Resting, FilesInv, Rest
<1>3. CASE ToolsFail
  BY <1>3, Quiet DEF ToolsFail, Resting, FilesInv, Rest
<1>4. CASE Generated
  <2>1. /\ pc = "returned" /\ pc' = "done" /\ UNCHANGED <<exchanges, disk, files, response>>
        /\ outcome' = "files" => response.err = "none"
    BY <1>4 DEF Generated
  <2> QED BY <2>1, Quiet DEF Resting
<1>5. CASE UNCHANGED vars
  BY <1>5 DEF vars, FilesInv, Past, Rest, Resting, Running, Looking, Seen, Path
<1> QED
  BY <1>1, <1>2, <1>3, <1>4, <1>5, SeedFiles, ToolUseFiles, HandlerFiles, ToolsEndFiles
  DEF Next, Terminating, Stream

LEMMA BothInductive == IInv /\ FilesInv /\ [Next]_vars => IInv' /\ FilesInv'
BY Inductive, FilesInductive

-----------------------------------------------------------------------------

\* More than one, counted.
LEMMA Counted ==
  ASSUME NEW S, IsFiniteSet(S), Several(S)
  PROVE  Cardinality(S) > 1
<1>1. PICK j, k \in S : j # k
  BY DEF Several
<1>2. Cardinality(S) # 0 /\ Cardinality(S) \in Nat
  BY <1>1, FS_EmptySet, FS_CardinalityType
<1>3. Cardinality(S) # 1
  BY <1>1, FS_Singleton
<1> QED BY <1>2, <1>3

\* WritesTo and LastWrite are what the invariant says of exchanges.
LEMMA OfExchanges ==
  /\ \A t, p : WritesTo(t, p) = Wrote(exchanges, t, p)
  /\ \A t, p : LastWrite(t, p) = LastTurn(exchanges, t, p)
<1>1. \A t, p : WritesTo(t, p) = Wrote(exchanges, t, p)
  BY DEF WritesTo, Wrote, Writers
<1>2. \A t, p : LastWrite(t, p) = LastTurn(exchanges, t, p)
  <2> SUFFICES ASSUME NEW t, NEW p PROVE LastWrite(t, p) = LastTurn(exchanges, t, p)
    OBVIOUS
  <2>1. LastWrite(t, p) = Latest({u \in 1..(t - 1) : WritesTo(u, p) # {}})
    BY DEF LastWrite, Latest
  <2>2. {u \in 1..(t - 1) : WritesTo(u, p) # {}} = Before(exchanges, t, p)
    BY <1>1 DEF Before
  <2> QED BY <2>1, <2>2 DEF LastTurn
<1> QED BY <1>1, <1>2

\* The writers of a path in a turn there has been can be counted.
LEMMA FewWriters ==
  ASSUME IInv, NEW t \in DOMAIN exchanges, NEW p, Several(Wrote(exchanges, t, p))
  PROVE  Cardinality(Wrote(exchanges, t, p)) > 1
<1>1. exchanges[t].calls \in Requests
  BY DEF IInv, TypeOK
<1>2. IsFiniteSet(Wrote(exchanges, t, p))
  <2>1. PICK k \in Nat : DOMAIN exchanges[t].calls = 1..k
    BY <1>1, Calls
  <2>2. Wrote(exchanges, t, p) \subseteq 1..k /\ k \in Int
    BY <2>1 DEF Wrote, Writers
  <2>3. IsFiniteSet(1..k)
    BY <2>2, FS_Interval
  <2> QED BY <2>2, <2>3, FS_Subset
<1> QED BY <1>2, Counted

\* A read or a list shows what the last turn that wrote the file left, unless
\* its own turn writes it: handleReadFile and handleListFiles look at the disk
\* that handleWriteFile has written before the turn's results go back.
THEOREM Looks == Spec => []LooksSeeEarlierTurns
<1>1. IInv /\ FilesInv => LooksSeeEarlierTurns
  <2> SUFFICES ASSUME IInv, FilesInv,
                      NEW t \in DOMAIN exchanges, NEW i \in DOMAIN exchanges[t].calls
               PROVE  LET call == exchanges[t].calls[i]
                          result == exchanges[t].results[i]
                          p == Clean[call.path]
                          last == LastWrite(t, p)
                      IN  /\ call.op = "read" /\ WritesTo(t, p) = {} =>
                               IF last = 0 THEN result.content \in {Absent} \cup Seeded
                               ELSE
                                 \/ result.content \in {<<last, j>> : j \in WritesTo(last, p)}
                                 \/ /\ Cardinality(WritesTo(last, p)) > 1
                                    /\ result.content = Mixed
                          /\ call.op = "list" =>
                               \A q \in Paths : LastWrite(t, q) > 0 => q \in result.listed
    BY DEF LooksSeeEarlierTurns
  <2> DEFINE call == exchanges[t].calls[i]
             result == exchanges[t].results[i]
             p == Clean[call.path]
             last == LastTurn(exchanges, t, p)
  <2>1. Sees(exchanges, t, call, Wrote(exchanges, t, p), result)
    BY DEF FilesInv, Seen
  <2>2. /\ p \in Paths
        /\ last # 0 => last \in DOMAIN exchanges
    <3>1. exchanges[t].calls \in Requests /\ exchanges \in Seq(Exchanges)
      BY DEF IInv, TypeOK, Turns
    <3>2. p \in Paths
      BY <3>1, Calls DEF Paths
    <3>3. DOMAIN exchanges = 1..Len(exchanges) /\ Len(exchanges) \in Nat
      BY <3>1, Elements
    <3>4. last \in 0..(t - 1)
      BY <3>2, <3>3 DEF FilesInv, Past, Now
    <3> QED BY <3>2, <3>3, <3>4
  <2>3. call.op = "read" /\ Wrote(exchanges, t, p) = {} =>
          IF last = 0 THEN result.content \in {Absent} \cup Seeded
          ELSE \/ result.content \in {<<last, j>> : j \in Wrote(exchanges, last, p)}
               \/ /\ Cardinality(Wrote(exchanges, last, p)) > 1
                  /\ result.content = Mixed
    <3>1. last # 0 /\ Several(Wrote(exchanges, last, p)) =>
            Cardinality(Wrote(exchanges, last, p)) > 1
      BY <2>2, FewWriters
    <3> QED BY <2>1, <3>1 DEF Sees, Left, Leave
  <2>4. call.op = "list" =>
          \A q \in Paths : LastTurn(exchanges, t, q) > 0 => q \in result.listed
    BY <2>1 DEF Sees
  <2> QED BY <2>3, <2>4, OfExchanges
<1>2. Init => IInv /\ FilesInv
  BY InitInv, FilesInit
<1> QED BY <1>1, <1>2, BothInductive, PTL DEF Spec

\* The files generateAgentic returns are those on disk, unless one path was
\* spelled in two ways or written twice in one turn.
THEOREM SameFiles == Spec => []FilesMatchDisk
<1>1. IInv /\ FilesInv => FilesMatchDisk
  <2> SUFFICES ASSUME IInv, FilesInv, outcome = "files", NEW p \in Paths
               PROVE  LET spelled == {s \in DOMAIN files : Clean[s] = p}
                          last == LastWrite(Len(exchanges) + 1, p)
                      IN  /\ spelled = {} <=> disk[p] = Absent
                          /\ \A s \in spelled :
                               \/ disk[p] = files[s]
                               \/ Cardinality(spelled) > 1
                               \/ last > 0 /\ Cardinality(WritesTo(last, p)) > 1
    BY DEF FilesMatchDisk
  <2> DEFINE last == LastTurn(exchanges, Len(exchanges) + 1, p)
  <2>1. Agrees(exchanges, disk, files, p)
    BY DEF FilesInv, Rest, Resting, Rests
  <2>2. /\ last \in 0..Len(exchanges) /\ Len(exchanges) \in Nat
        /\ DOMAIN exchanges = 1..Len(exchanges)
    <3>1. DOMAIN exchanges = 1..Len(exchanges) /\ Len(exchanges) \in Nat
      BY Elements DEF IInv, Turns
    <3>2. Now(exchanges) = Len(exchanges) + 1 /\ Now(exchanges) \in 1..Now(exchanges)
      BY <3>1 DEF Now
    <3>3. LastTurn(exchanges, Now(exchanges), p) \in 0..(Now(exchanges) - 1)
      BY <3>2 DEF FilesInv, Past
    <3> QED BY <3>1, <3>2, <3>3
  <2>3. last > 0 /\ Several(Wrote(exchanges, last, p)) =>
          Cardinality(Wrote(exchanges, last, p)) > 1
    BY <2>2, FewWriters
  <2>4. Several(Spelled(files, p)) => Cardinality(Spelled(files, p)) > 1
    <3>1. IsFiniteSet(DOMAIN files) /\ Spelled(files, p) \subseteq DOMAIN files
      BY DEF FilesInv, Rest, Spelled
    <3> QED BY <3>1, FS_Subset, Counted
  <2> QED BY <2>1, <2>3, <2>4, OfExchanges DEF Agrees, Spelled, Now
<1>2. Init => IInv /\ FilesInv
  BY InitInv, FilesInit
<1> QED BY <1>1, <1>2, BothInductive, PTL DEF Spec

-----------------------------------------------------------------------------
(* The end of the loop.                                                    *)

\* A handler that goes on brings the turn on.
LEMMA GoesOn ==
  ASSUME IInv, NEW i \in DOMAIN works, NEW place \in Doing \cup Over, Goes(i, place),
         pc = "tools", pc' = pc, turn' = turn, Course[place] > Course[handlers[i]]
  PROVE  Moves
<1>1. handlers \in [DOMAIN works -> Doing \cup Over]
  BY DEF IInv, Handlers
<1>2. i \in DOMAIN handlers /\ handlers'[i] = place
  BY <1>1 DEF Goes
<1>3. handlers' = [handlers EXCEPT ![i] = handlers'[i]]
  BY <1>2 DEF Goes
<1> QED BY <1>2, <1>3 DEF Moves

\* Every step answers a turn, goes on in it, or is one of a handler's.
LEMMA StepMoves == IInv /\ Next => Moves \/ UNCHANGED vars
<1> SUFFICES ASSUME IInv, Next PROVE Moves \/ UNCHANGED vars
  OBVIOUS
<1>0. /\ turn \in Nat /\ attempt \in Nat /\ StreamRetries \in Nat
      /\ turn' <= MaxTurns /\ attempt' <= StreamRetries
  BY Inductive, AgentAssumption DEF IInv, TypeOK
<1> USE <1>0 DEF loopVars, toolVars, fileVars, endVars, Return
<1>1. CASE Seed \/ SeedFails \/ ToolsFail \/ ToolsEnd \/ Generated
  BY <1>1 DEF Seed, SeedFails, ToolsFail, ToolsEnd, Generated, Moves, Stage
<1>2. CASE Stream
  BY <1>2 DEF Stream, EndTurn, OtherStop, ToolUse, StreamBreaks, Backoff, StreamFails, Moves, Stage
<1>3. ASSUME NEW i \in DOMAIN works, Handler(i) PROVE Moves
  <2>1. \E place \in Doing \cup Over :
          /\ Goes(i, place) /\ pc = "tools" /\ pc' = pc /\ turn' = turn
          /\ Course[place] > Course[handlers[i]]
    BY <1>3 DEF Handler, HandlerFails, OpenFile, WriteContent, RecordFile, ReadFile, ListFiles, At,
      Ends, Doing, Over, Course
  <2> QED BY <2>1, GoesOn
<1>4. CASE Terminating
  BY <1>4 DEF Terminating
<1> QED BY <1>1, <1>2, <1>3, <1>4 DEF Next

\* Every step of the loop and of its handlers uses up turns, places, retries or steps of a
\* handler, of which there are finitely many: the loop ends, whatever the model asks for and
\* the network does (AgentLoop, streamMessage, errgroup's Wait).
THEOREM LoopEnds == Spec => MovesOn
<1>1. IInv /\ [Next]_vars => [Moves]_vars
  BY StepMoves
<1>2. IInv /\ [Next]_vars => IInv'
  BY Inductive
<1> QED BY InitInv, <1>1, <1>2, PTL DEF Spec, MovesOn
=============================================================================
