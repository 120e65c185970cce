--------------------------- MODULE ValidateProofs ---------------------------
(***************************************************************************)
(* Proofs that `octog validate` runs each scenario against the container   *)
(* that is up, and reports results of the scenarios' own making, for any   *)
(* number of scenarios of any types, any parallelism and any interruption. *)
(***************************************************************************)
EXTENDS Validate, FiniteSetTheorems, TLAPS

Setup == {"build", "run", "health"}
Ended == {"cleanup", "done"}

OptsOK ==
  opts \in [code : BOOLEAN, parallel : 1..MaxParallel, grpcTarget : BOOLEAN,
            threshold : BOOLEAN, types : [Scenarios -> Types]]

\* Where the command can be, with which options and which way out.
Places ==
  /\ pc \in Setup => opts.code /\ next = 1
  /\ pc \in Ended <=> exit # "none"
  /\ pc \in {"restart", "restartHealth", "busy"} => ~Parallel /\ next \in Scenarios
  /\ failed => Parallel /\ pc # "output"
  /\ pc = "output" => next = N + 1

\* How far the scenarios are when the loop is at next.
Workers ==
  /\ pc \notin Ended /\ Parallel =>
       \A s \in Scenarios : worker[s] # "waiting" <=> s < next
  /\ pc \notin Ended /\ ~Parallel =>
       \A s \in Scenarios :
         /\ s < next => worker[s] = "ended"
         /\ s > next => worker[s] = "waiting"
         /\ s = next =>
              worker[s] \in (IF pc = "busy" THEN {"running", "judging"} ELSE {"waiting"})
  /\ pc \in Setup \cup Ended \cup {"output"} => Busy = {}

\* At most the chosen number of scenarios is busy.
Crowd == Cardinality(Busy) <= opts.parallel

\* Which container is up, and whom it has served.
Served ==
  opts.code =>
    /\ pc \in {"loop", "busy"} => running # 0 /\ url = running
    /\ pc \in {"health", "restartHealth"} =>
         running # 0 /\ \A s \in Scenarios : target[s] # running
    /\ \A s \in Scenarios : worker[s] = "waiting" => target[s] = 0
    /\ \A s \in Open : target[s] = running /\ running # 0
    /\ ~Parallel =>
         \A s, t \in Scenarios : target[s] = target[t] /\ target[s] # 0 => s = t

\* The result of s is what its own steps came to.
Own(s) ==
  \/ results[s] \in {"judged", "zero"}
  \/ results[s] = "noExecutor" /\ opts.types[s] = "grpc" /\ ~opts.grpcTarget

\* A scenario that has ended has a result of its own, unless something went wrong.
Results ==
  /\ ~interrupted /\ ~failed /\ exit \in {"none", "passed", "below"} =>
       \A s \in Scenarios : worker[s] = "ended" => Own(s)
  /\ exit \in {"passed", "below"} => ~failed /\ \A s \in Scenarios : worker[s] = "ended"

\* The inductive invariant.
IInv == OptsOK /\ TypeOK /\ Places /\ Workers /\ Crowd /\ Served /\ Results

-----------------------------------------------------------------------------
(* The steps of a scenario.                                                *)

\* A scenario is busy while the loop is at it, or the group has started it.
LEMMA BusyPlace ==
  ASSUME IInv, NEW s \in Scenarios, worker[s] \in {"running", "judging"}
  PROVE  /\ exit = "none" /\ next \in Nat
         /\ Parallel => pc = "loop" /\ s < next
         /\ ~Parallel => pc = "busy" /\ s = next
<1>1. s \in Busy
  BY DEF Busy
<1>2. pc \notin Setup \cup Ended \cup {"output"}
  BY <1>1 DEF IInv, Workers
<1>3. exit = "none" /\ next \in Nat /\ pc \in {"loop", "restart", "restartHealth", "busy"}
  BY <1>2, ValidateAssumption DEF IInv, Places, TypeOK, Setup, Ended
<1>4. CASE Parallel
  BY <1>2, <1>3, <1>4 DEF IInv, Workers, Places
<1>5. CASE ~Parallel
  BY <1>2, <1>3, <1>5, ValidateAssumption DEF IInv, Workers, Scenarios
<1> QED BY <1>3, <1>4, <1>5

\* With fewer busy scenarios there are no more of them.
LEMMA FewerBusy ==
  ASSUME IInv, opts' = opts, Busy' \subseteq Busy
  PROVE  Crowd'
<1>1. Busy \in SUBSET (1..N) /\ IsFiniteSet(1..N)
  BY ValidateAssumption, FS_Interval DEF Busy, Scenarios
<1>2. IsFiniteSet(Busy)
  BY <1>1, FS_Subset
<1>3. /\ Cardinality(Busy') <= Cardinality(Busy)
      /\ Cardinality(Busy) \in Nat /\ Cardinality(Busy') \in Nat
  BY <1>2, FS_Subset, FS_CardinalityType
<1>4. opts.parallel \in Nat
  BY ValidateAssumption DEF IInv, OptsOK
<1> QED BY <1>3, <1>4 DEF IInv, Crowd

\* A scenario ends with a result, which is its own unless something went wrong.
LEMMA OverStep ==
  ASSUME IInv, NEW s \in Scenarios, worker[s] \in {"running", "judging"},
         NEW result \in {"zero", "noExecutor", "cancelled", "judged"},
         Over(s, result), UNCHANGED failed,
         ~interrupted /\ ~failed =>
           \/ result \in {"judged", "zero"}
           \/ result = "noExecutor" /\ opts.types[s] = "grpc" /\ ~opts.grpcTarget
  PROVE  IInv'
<1>1. /\ exit = "none" /\ next \in Nat
      /\ Parallel => pc = "loop" /\ s < next
      /\ ~Parallel => pc = "busy" /\ s = next
  BY BusyPlace
<1>2. /\ worker' = [worker EXCEPT ![s] = "ended"] /\ results' = [results EXCEPT ![s] = result]
      /\ pc' = "loop" /\ next' = IF Parallel THEN next ELSE next + 1
      /\ UNCHANGED <<opts, interrupted, exit, target, failed, started, running, currentStop, url,
                     image>>
  BY <1>1 DEF Over, Goes, containers
<1>3. /\ worker' \in [Scenarios -> {"waiting", "running", "judging", "ended"}]
      /\ worker'[s] = "ended" /\ \A t \in Scenarios \ {s} : worker'[t] = worker[t]
      /\ results' \in [Scenarios -> {"none", "zero", "noExecutor", "cancelled", "judged"}]
      /\ results'[s] = result /\ \A t \in Scenarios \ {s} : results'[t] = results[t]
  BY <1>2 DEF IInv, TypeOK
<1>4. next' \in 1..(N + 1)
  BY <1>1, <1>2, ValidateAssumption DEF IInv, TypeOK, Scenarios
<1>5. OptsOK' /\ TypeOK'
  BY <1>2, <1>3, <1>4 DEF IInv, OptsOK, TypeOK
<1>6. Parallel' = Parallel
  BY <1>2 DEF Parallel
<1>7. Places'
  BY <1>1, <1>2, <1>6 DEF IInv, Places, Setup, Ended
<1>8. Workers'
  <2>1. CASE Parallel
    BY <1>1, <1>2, <1>3, <1>6, <2>1 DEF IInv, Workers, Setup, Ended
  <2>2. CASE ~Parallel
    BY <1>1, <1>2, <1>3, <1>6, <2>2 DEF IInv, Workers, Setup, Ended, Scenarios
  <2> QED BY <2>1, <2>2
<1>9. Busy' \subseteq Busy /\ Open' \subseteq Open
  BY <1>3 DEF Busy, Open
<1>10. Crowd'
  BY <1>2, <1>9, FewerBusy
<1>11. Served'
  BY <1>1, <1>2, <1>3, <1>6, <1>9 DEF IInv, Served
<1>12. Results'
  BY <1>1, <1>2, <1>3 DEF IInv, Results, Own
<1> QED BY <1>5, <1>7, <1>8, <1>10, <1>11, <1>12 DEF IInv

\* Without an executor for its steps is only a gRPC scenario without a target.
LEMMA NoExecutor ==
  ASSUME IInv, NEW s \in Scenarios, opts.types[s] \notin Executors
  PROVE  opts.types[s] = "grpc" /\ ~opts.grpcTarget
<1>1. opts.types[s] \in {"request", "exec", "browser", "grpc", "ws", "tui"}
  BY ValidateAssumption DEF IInv, OptsOK
<1>2. opts.types[s] \in NeededTypes
  BY DEF NeededTypes
<1> QED BY <1>1, <1>2 DEF Executors

\* The judge fails, or the process does: a scenario ends and the command with it.
LEMMA FailStep ==
  ASSUME IInv, NEW s \in Scenarios, ExecPanics(s) \/ JudgeFails(s)
  PROVE  IInv'
<1>1. /\ worker[s] \in {"running", "judging"} /\ exit = "none" /\ next \in Nat
      /\ Parallel => pc = "loop" /\ s < next
      /\ ~Parallel => pc = "busy" /\ s = next
  BY BusyPlace DEF ExecPanics, JudgeFails
<1>2. /\ UNCHANGED <<opts, interrupted, next, target, results, started, running, currentStop, url,
                     image>>
      /\ failed' \in BOOLEAN /\ (failed' => Parallel)
      /\ worker' \in [Scenarios -> {"waiting", "running", "judging", "ended"}]
      /\ worker'[s] = "ended"
      /\ \/ ~(Parallel /\ exit' = "panic") /\ \A t \in Scenarios \ {s} : worker'[t] = worker[t]
         \/ Parallel /\ exit' = "panic" /\ \A t \in Scenarios : worker'[t] = "ended"
      /\ \/ pc' \in Ended /\ exit' \in {"panic", "error"} /\ (~Parallel \/ exit' = "panic")
         \/ Parallel /\ failed' /\ pc' = pc /\ exit' = "none"
  <2>1. CASE ExecPanics(s)
    BY <1>1, <2>1 DEF ExecPanics, Ends, Ended, containers, IInv, TypeOK, Places
  <2>2. CASE JudgeFails(s)
    BY <1>1, <2>2 DEF JudgeFails, Goes, Ends, Ended, containers, IInv, TypeOK, Places
  <2> QED BY <2>1, <2>2
<1>3. Parallel' = Parallel
  BY <1>2 DEF Parallel
<1>4. OptsOK' /\ TypeOK'
  <2>1. pc' \in {"loop", "busy", "cleanup", "done"} /\ exit' \in {"none", "panic", "error"}
    BY <1>1, <1>2 DEF Ended
  <2> QED BY <1>2, <2>1 DEF IInv, OptsOK, TypeOK
<1>5. Places'
  BY <1>1, <1>2, <1>3 DEF IInv, Places, Setup, Ended
<1>6. Busy' \subseteq Busy /\ Open' \subseteq Open
  BY <1>2 DEF Busy, Open
<1>7. Crowd'
  BY <1>2, <1>6, FewerBusy
<1>8. CASE Parallel /\ pc' = pc
  <2>1. exit' = "none" /\ failed' /\ \A t \in Scenarios \ {s} : worker'[t] = worker[t]
    BY <1>1, <1>2, <1>8 DEF Ended
  <2>2. Workers'
    BY <1>1, <1>2, <1>3, <1>8, <2>1 DEF IInv, Workers, Setup, Ended
  <2>3. Served'
    BY <1>1, <1>2, <1>3, <1>6, <1>8, <2>1 DEF IInv, Served
  <2>4. Results'
    BY <1>2, <2>1 DEF Results
  <2> QED BY <1>4, <1>5, <1>7, <2>2, <2>3, <2>4 DEF IInv
<1>9. CASE pc' \in Ended
  <2>1. exit' \in {"panic", "error"}
    BY <1>1, <1>2, <1>9 DEF Ended
  <2>2. Busy' = {}
    <3>1. CASE Parallel /\ exit' = "panic" /\ \A t \in Scenarios : worker'[t] = "ended"
      BY <3>1 DEF Busy
    <3>2. CASE ~Parallel
      <4>1. \A t \in Scenarios \ {s} : worker[t] \in {"waiting", "ended"}
        BY <1>1, <3>2 DEF IInv, Workers, Ended, Scenarios
      <4> QED BY <1>2, <3>2, <4>1 DEF Busy
    <3>3. CASE Parallel /\ ~(exit' = "panic")
      BY <1>1, <1>2, <1>9, <3>3 DEF Ended
    <3> QED BY <1>2, <3>1, <3>2, <3>3
  <2>3. Workers'
    BY <1>9, <2>2 DEF Workers
  <2>4. Served'
    BY <1>1, <1>2, <1>3, <1>6, <1>9, <2>2 DEF IInv, Served, Busy, Ended
  <2>5. Results'
    BY <2>1 DEF Results
  <2> QED BY <1>4, <1>5, <1>7, <2>3, <2>4, <2>5 DEF IInv
<1> QED BY <1>2, <1>8, <1>9

\* The steps of a scenario have been executed, and its executors are closed.
LEMMA StepsDoneStep ==
  ASSUME IInv, NEW s \in Scenarios, StepsDone(s)
  PROVE  IInv'
<1>1. /\ worker[s] = "running" /\ exit = "none" /\ next \in Nat
      /\ Parallel => pc = "loop" /\ s < next
      /\ ~Parallel => pc = "busy" /\ s = next
  BY BusyPlace DEF StepsDone
<1>2. /\ worker' = [worker EXCEPT ![s] = "judging"]
      /\ UNCHANGED <<opts, pc, interrupted, exit, next, target, results, failed, started, running,
                     currentStop, url, image>>
  BY DEF StepsDone, Goes, containers
<1>3. /\ worker' \in [Scenarios -> {"waiting", "running", "judging", "ended"}]
      /\ worker'[s] = "judging" /\ \A t \in Scenarios \ {s} : worker'[t] = worker[t]
  BY <1>2 DEF IInv, TypeOK
<1>4. OptsOK' /\ TypeOK'
  BY <1>2, <1>3 DEF IInv, OptsOK, TypeOK
<1>5. Parallel' = Parallel /\ Busy' = Busy /\ Open' \subseteq Open
  BY <1>1, <1>2, <1>3 DEF Parallel, Busy, Open
<1>6. Places'
  BY <1>2, <1>5 DEF IInv, Places
<1>7. Workers'
  BY <1>1, <1>2, <1>3, <1>5 DEF IInv, Workers
<1>8. Crowd'
  BY <1>2, <1>5, FewerBusy
<1>9. Served'
  BY <1>1, <1>2, <1>3, <1>5 DEF IInv, Served
<1>10. Results'
  BY <1>1, <1>2, <1>3 DEF IInv, Results, Own
<1> QED BY <1>4, <1>6, <1>7, <1>8, <1>9, <1>10 DEF IInv

-----------------------------------------------------------------------------
(* The steps of the command itself: they start scenarios and end none.     *)

\* Every step but those of a scenario that is busy.
Command ==
  \/ Build \/ Run \/ WaitHealthy
  \/ LoopInterrupted \/ StartFirst \/ RestartStops \/ RestartRuns \/ Restarted
  \/ RestartUnhealthy \/ SequentialEnds \/ Launch \/ GroupEnds \/ Output
  \/ Cleanup \/ Interrupt

\* Every variable keeps its type.
LEMMA CommandTypes == IInv /\ Command => OptsOK' /\ TypeOK'
<1> SUFFICES ASSUME IInv, Command PROVE OptsOK' /\ TypeOK'
  OBVIOUS
<1> USE ValidateAssumption DEF IInv, OptsOK, TypeOK, Scenarios, Parallel, scoring, containers
<1>1. CASE Build
  <2>1. image' \in BOOLEAN
    BY <1>1 DEF Build
  <2> QED BY <1>1, <2>1 DEF Build, Goes, Ends
<1>2. CASE Run
  <2>1. image' = image \/ image' = FALSE
    BY <1>2 DEF Run
  <2>2. image' \in BOOLEAN
    BY <2>1
  <2>3. /\ started' \in Nat /\ started <= started'
        /\ running' = running \/ running' = started'
    BY <1>2 DEF Run
  <2> QED BY <1>2, <2>2, <2>3 DEF Run, Goes, Ends
<1>3. CASE WaitHealthy
  <2>1. image' = image \/ image' = FALSE
    BY <1>3 DEF WaitHealthy
  <2>2. image' \in BOOLEAN
    BY <2>1
  <2> QED BY <1>3, <2>2 DEF WaitHealthy, Goes, Ends
<1>4. CASE LoopInterrupted BY <1>4 DEF LoopInterrupted, AtNext, Ends
<1>5. CASE StartFirst BY <1>5 DEF StartFirst, AtNext, Goes, Start, Restarts
<1>6. CASE RestartStops BY <1>6 DEF RestartStops, AtNext, Goes, Restarts
<1>7. CASE RestartRuns BY <1>7 DEF RestartRuns, Goes, Ends
<1>8. CASE Restarted BY <1>8 DEF Restarted, Goes
<1>9. CASE RestartUnhealthy BY <1>9 DEF RestartUnhealthy, Ends
<1>10. CASE SequentialEnds BY <1>10 DEF SequentialEnds, Goes
<1>11. CASE Launch BY <1>11 DEF Launch, Goes, Start
<1>12. CASE GroupEnds BY <1>12 DEF GroupEnds, Goes, Ends
<1>13. CASE Output BY <1>13 DEF Output, Ends
<1>14. CASE Cleanup
  <2>1. image' = image \/ image' = (running' # 0)
    BY <1>14 DEF Cleanup
  <2>2. image' \in BOOLEAN
    BY <2>1
  <2> QED BY <1>14, <2>2 DEF Cleanup
<1>15. CASE Interrupt BY <1>15 DEF Interrupt
<1> QED
  BY <1>1, <1>2, <1>3, <1>4, <1>5, <1>6, <1>7, <1>8, <1>9, <1>10, <1>11, <1>12, <1>13,
     <1>14, <1>15 DEF Command

\* The command goes where its options let it.
LEMMA CommandPlaces == IInv /\ Command => Places'
<1> SUFFICES ASSUME IInv, Command PROVE Places'
  OBVIOUS
<1> USE ValidateAssumption
       DEF IInv, TypeOK, Places, Scenarios, Setup, Ended, Parallel, scoring, containers
<1>1. CASE Build BY <1>1 DEF Build, Goes, Ends
<1>2. CASE Run BY <1>2 DEF Run, Goes, Ends
<1>3. CASE WaitHealthy BY <1>3 DEF WaitHealthy, Goes, Ends
<1>4. CASE LoopInterrupted BY <1>4 DEF LoopInterrupted, AtNext, Ends
<1>5. CASE StartFirst BY <1>5 DEF StartFirst, AtNext, Goes, Start, Restarts
<1>6. CASE RestartStops BY <1>6 DEF RestartStops, AtNext, Goes, Restarts
<1>7. CASE RestartRuns BY <1>7 DEF RestartRuns, Goes, Ends
<1>8. CASE Restarted BY <1>8 DEF Restarted, Goes
<1>9. CASE RestartUnhealthy BY <1>9 DEF RestartUnhealthy, Ends
<1>10. CASE SequentialEnds BY <1>10 DEF SequentialEnds, Goes
<1>11. CASE Launch BY <1>11 DEF Launch, Goes, Start
<1>12. CASE GroupEnds BY <1>12 DEF GroupEnds, Goes, Ends
<1>13. CASE Output BY <1>13 DEF Output, Ends
<1>14. CASE Cleanup BY <1>14 DEF Cleanup
<1>15. CASE Interrupt BY <1>15 DEF Interrupt
<1> QED
  BY <1>1, <1>2, <1>3, <1>4, <1>5, <1>6, <1>7, <1>8, <1>9, <1>10, <1>11, <1>12, <1>13,
     <1>14, <1>15 DEF Command

\* What is started is the scenario that the loop is at.
LEMMA CommandWorkers == IInv /\ Command => Workers'
<1> SUFFICES ASSUME IInv, Command PROVE Workers'
  OBVIOUS
<1> USE ValidateAssumption
       DEF IInv, TypeOK, Places, Workers, Busy, Scenarios, Setup, Ended, Parallel, scoring,
           containers
<1>1. CASE Build BY <1>1 DEF Build, Goes, Ends
<1>2. CASE Run BY <1>2 DEF Run, Goes, Ends
<1>3. CASE WaitHealthy BY <1>3 DEF WaitHealthy, Goes, Ends
<1>4. CASE LoopInterrupted BY <1>4 DEF LoopInterrupted, AtNext, Ends
<1>5. CASE StartFirst BY <1>5 DEF StartFirst, AtNext, Goes, Start, Restarts
<1>6. CASE RestartStops BY <1>6 DEF RestartStops, AtNext, Goes, Restarts
<1>7. CASE RestartRuns BY <1>7 DEF RestartRuns, Goes, Ends
<1>8. CASE Restarted BY <1>8 DEF Restarted, Goes
<1>9. CASE RestartUnhealthy BY <1>9 DEF RestartUnhealthy, Ends
<1>10. CASE SequentialEnds BY <1>10 DEF SequentialEnds, Goes
<1>11. CASE Launch BY <1>11 DEF Launch, Goes, Start
<1>12. CASE GroupEnds BY <1>12 DEF GroupEnds, Goes, Ends
<1>13. CASE Output BY <1>13 DEF Output, Ends
<1>14. CASE Cleanup BY <1>14 DEF Cleanup
<1>15. CASE Interrupt BY <1>15 DEF Interrupt
<1> QED
  BY <1>1, <1>2, <1>3, <1>4, <1>5, <1>6, <1>7, <1>8, <1>9, <1>10, <1>11, <1>12, <1>13,
     <1>14, <1>15 DEF Command

\* A container is replaced while no scenario is open.
LEMMA CommandServed == IInv /\ Command => Served'
<1> SUFFICES ASSUME IInv, Command PROVE Served'
  OBVIOUS
<1> USE ValidateAssumption
       DEF IInv, OptsOK, TypeOK, Places, Workers, Served, Busy, Open, Scenarios, Setup, Ended,
           Parallel, scoring, containers
<1>1. CASE Build BY <1>1 DEF Build, Goes, Ends
<1>2. CASE Run BY <1>2 DEF Run, Goes, Ends
<1>3. CASE WaitHealthy BY <1>3 DEF WaitHealthy, Goes, Ends
<1>4. CASE LoopInterrupted BY <1>4 DEF LoopInterrupted, AtNext, Ends
<1>5. CASE StartFirst BY <1>5 DEF StartFirst, AtNext, Goes, Start, Restarts
<1>6. CASE RestartStops BY <1>6 DEF RestartStops, AtNext, Goes, Restarts
<1>7. CASE RestartRuns BY <1>7 DEF RestartRuns, Goes, Ends
<1>8. CASE Restarted BY <1>8 DEF Restarted, Goes
<1>9. CASE RestartUnhealthy BY <1>9 DEF RestartUnhealthy, Ends
<1>10. CASE SequentialEnds BY <1>10 DEF SequentialEnds, Goes
<1>11. CASE Launch BY <1>11 DEF Launch, Goes, Start
<1>12. CASE GroupEnds BY <1>12 DEF GroupEnds, Goes, Ends
<1>13. CASE Output BY <1>13 DEF Output, Ends
<1>14. CASE Cleanup BY <1>14 DEF Cleanup
<1>15. CASE Interrupt BY <1>15 DEF Interrupt
<1> QED
  BY <1>1, <1>2, <1>3, <1>4, <1>5, <1>6, <1>7, <1>8, <1>9, <1>10, <1>11, <1>12, <1>13,
     <1>14, <1>15 DEF Command

\* The report is made when all scenarios have ended.
LEMMA CommandResults == IInv /\ Command => Results'
<1> SUFFICES ASSUME IInv, Command PROVE Results'
  OBVIOUS
<1> USE ValidateAssumption
       DEF IInv, OptsOK, TypeOK, Places, Workers, Results, Own, Busy, Scenarios, Setup, Ended,
           Parallel, scoring, containers
<1>1. CASE Build BY <1>1 DEF Build, Goes, Ends
<1>2. CASE Run BY <1>2 DEF Run, Goes, Ends
<1>3. CASE WaitHealthy BY <1>3 DEF WaitHealthy, Goes, Ends
<1>4. CASE LoopInterrupted BY <1>4 DEF LoopInterrupted, AtNext, Ends
<1>5. CASE StartFirst BY <1>5 DEF StartFirst, AtNext, Goes, Start, Restarts
<1>6. CASE RestartStops BY <1>6 DEF RestartStops, AtNext, Goes, Restarts
<1>7. CASE RestartRuns BY <1>7 DEF RestartRuns, Goes, Ends
<1>8. CASE Restarted BY <1>8 DEF Restarted, Goes
<1>9. CASE RestartUnhealthy BY <1>9 DEF RestartUnhealthy, Ends
<1>10. CASE SequentialEnds BY <1>10 DEF SequentialEnds, Goes
<1>11. CASE Launch BY <1>11 DEF Launch, Goes, Start
<1>12. CASE GroupEnds BY <1>12 DEF GroupEnds, Goes, Ends
<1>13. CASE Output
  <2>1. /\ pc = "output" /\ exit = "none" /\ next = N + 1 /\ ~failed /\ Busy = {}
        /\ UNCHANGED <<opts, interrupted, worker, results, failed>>
    BY <1>13 DEF Output, Ends
  <2>2. \A s \in Scenarios : worker[s] # "waiting"
    BY <2>1
  <2>3. \A s \in Scenarios : worker[s] = "ended"
    BY <2>1, <2>2
  <2> QED BY <2>1, <2>3
<1>14. CASE Cleanup BY <1>14 DEF Cleanup
<1>15. CASE Interrupt BY <1>15 DEF Interrupt
<1> QED
  BY <1>1, <1>2, <1>3, <1>4, <1>5, <1>6, <1>7, <1>8, <1>9, <1>10, <1>11, <1>12, <1>13,
     <1>14, <1>15 DEF Command

\* Only the group starts a scenario beside another, and only below its limit.
LEMMA CommandCrowd == IInv /\ Command => Crowd'
<1> SUFFICES ASSUME IInv, Command PROVE Crowd'
  OBVIOUS
<1>1. opts' = opts
  BY DEF Command, Build, Run, WaitHealthy, LoopInterrupted, StartFirst, RestartStops, RestartRuns,
         Restarted, RestartUnhealthy, SequentialEnds, Launch, GroupEnds, Output, Cleanup, Interrupt,
         Goes, Ends
<1>2. ASSUME worker' = worker PROVE Crowd'
  BY <1>1, <1>2, FewerBusy DEF Busy
<1>3. ASSUME next \in Scenarios, worker' = [worker EXCEPT ![next] = "running"],
             Cardinality(Busy) < opts.parallel
      PROVE  Crowd'
  <2>1. Busy' \subseteq Busy \cup {next} /\ next \in Scenarios
    BY <1>3 DEF Busy, IInv, TypeOK
  <2>2. Busy \in SUBSET (1..N) /\ IsFiniteSet(1..N)
    BY ValidateAssumption, FS_Interval DEF Busy, Scenarios
  <2>3. IsFiniteSet(Busy)
    BY <2>2, FS_Subset
  <2>4. /\ IsFiniteSet(Busy \cup {next}) /\ Cardinality(Busy) \in Nat
        /\ Cardinality(Busy \cup {next}) \in {Cardinality(Busy), Cardinality(Busy) + 1}
    BY <2>3, FS_AddElement, FS_CardinalityType
  <2>5. Cardinality(Busy') <= Cardinality(Busy \cup {next}) /\ Cardinality(Busy') \in Nat
    BY <2>1, <2>4, FS_Subset, FS_CardinalityType
  <2>6. opts.parallel \in Nat
    BY ValidateAssumption DEF IInv, OptsOK
  <2> QED BY <1>1, <1>3, <2>4, <2>5, <2>6 DEF Crowd
<1>4. ASSUME ~Parallel, pc \in {"loop", "restartHealth"} PROVE Busy = {} /\ 0 < opts.parallel
  <2>1. \A s \in Scenarios : worker[s] \in {"waiting", "ended"}
    BY <1>4, ValidateAssumption DEF IInv, Workers, TypeOK, Scenarios, Ended
  <2> QED BY <2>1, ValidateAssumption DEF Busy, IInv, OptsOK
<1>5. Cardinality({}) = 0
  BY FS_EmptySet
<1>6. CASE StartFirst
  <2>1. /\ ~Parallel /\ pc = "loop" /\ next \in Scenarios
        /\ worker' = [worker EXCEPT ![next] = "running"]
    BY <1>6, ValidateAssumption DEF StartFirst, AtNext, Start, IInv, TypeOK, Scenarios
  <2> QED BY <2>1, <1>3, <1>4, <1>5
<1>7. CASE Restarted
  <2>1. /\ ~Parallel /\ pc = "restartHealth" /\ next \in Scenarios
        /\ worker' = [worker EXCEPT ![next] = "running"]
    BY <1>7 DEF Restarted, IInv, Places
  <2> QED BY <2>1, <1>3, <1>4, <1>5
<1>8. CASE Launch
  <2>1. next \in Scenarios /\ worker' = [worker EXCEPT ![next] = "running"]
    BY <1>8, ValidateAssumption DEF Launch, Start, IInv, TypeOK, Scenarios
  <2> QED BY <1>8, <2>1, <1>3 DEF Launch
<1>9. CASE worker' = worker
  BY <1>2, <1>9
<1>10. StartFirst \/ Restarted \/ Launch \/ worker' = worker
  BY DEF Command, Build, Run, WaitHealthy, LoopInterrupted, RestartStops, RestartRuns,
         RestartUnhealthy, SequentialEnds, GroupEnds, Output, Cleanup, Interrupt, scoring
<1> QED BY <1>6, <1>7, <1>8, <1>9, <1>10

-----------------------------------------------------------------------------
\* The command begins with all scenarios waiting and no container.
LEMMA InitInv == Init => IInv
<1> SUFFICES ASSUME Init PROVE IInv
  OBVIOUS
<1>1. OptsOK /\ pc = (IF opts.code THEN "build" ELSE "loop") /\ opts.code \in BOOLEAN
  BY DEF Init, OptsOK
<1>2. TypeOK
  <2>1. next \in 1..(N + 1) /\ started = 0 /\ running = 0 /\ currentStop = 0 /\ url = 0
    BY ValidateAssumption DEF Init
  <2>2. /\ worker \in [Scenarios -> {"waiting", "running", "judging", "ended"}]
        /\ results \in [Scenarios -> {"none", "zero", "noExecutor", "cancelled", "judged"}]
        /\ target \in [Scenarios -> 0..started]
    BY <2>1 DEF Init
  <2>3. pc \in {"build", "loop"} /\ exit = "none"
    BY <1>1 DEF Init
  <2>4. failed \in BOOLEAN /\ interrupted \in BOOLEAN /\ image \in BOOLEAN
    BY DEF Init
  <2> QED BY <2>1, <2>2, <2>3, <2>4 DEF TypeOK
<1>3. Places
  BY <1>1 DEF Init, Places, Setup, Ended
<1>4. Busy = {} /\ Open = {}
  BY DEF Init, Busy, Open
<1>5. Workers
  BY <1>1, <1>4, ValidateAssumption DEF Init, Workers, Scenarios, Ended
<1>6. Crowd
  BY <1>1, <1>4, FS_EmptySet, ValidateAssumption DEF Crowd, OptsOK
<1>7. Served
  BY <1>1, <1>4 DEF Init, Served
<1>8. Results
  BY DEF Init, Results
<1> QED BY <1>1, <1>2, <1>3, <1>5, <1>6, <1>7, <1>8 DEF IInv

\* Every step preserves the invariant.
LEMMA Inductive == IInv /\ [Next]_vars => IInv'
<1> SUFFICES ASSUME IInv, [Next]_vars PROVE IInv'
  OBVIOUS
<1>1. CASE Command
  BY <1>1, CommandTypes, CommandPlaces, CommandWorkers, CommandCrowd, CommandServed,
     CommandResults DEF IInv
<1>2. ASSUME NEW s \in Scenarios, ScoredZero(s) PROVE IInv'
  <2> PICK why \in {"zero", "noExecutor", "cancelled"} :
         /\ why = "noExecutor" <=> opts.types[s] \notin Executors
         /\ why = "cancelled" => ContextDone
         /\ Over(s, why)
    BY <1>2 DEF ScoredZero
  <2>1. worker[s] = "running" /\ UNCHANGED failed
    BY <1>2 DEF ScoredZero
  <2>2. ~interrupted /\ ~failed => why # "cancelled"
    BY DEF ContextDone
  <2> QED BY <2>1, <2>2, NoExecutor, OverStep
<1>3. ASSUME NEW s \in Scenarios, JudgeAnswers(s) PROVE IInv'
  BY <1>3, OverStep DEF JudgeAnswers
<1>4. ASSUME NEW s \in Scenarios, StepsDone(s) \/ ExecPanics(s) \/ JudgeFails(s) PROVE IInv'
  BY <1>4, StepsDoneStep, FailStep
<1>5. CASE UNCHANGED vars
  BY <1>5 DEF vars, IInv, OptsOK, TypeOK, Places, Workers, Crowd, Served, Results, Own, Busy, Open,
              Parallel
<1> QED BY <1>1, <1>2, <1>3, <1>4, <1>5 DEF Next, Steps, Terminating, Command

\* No more scenarios have executors open than may, each of them runs against the container
\* that is up when there is one of ours, and one at a time no two share one: the restart
\* closure and the loop's URL agree at every moment that counts.
THEOREM Apart == Spec => []ScenariosApart
<1>1. IInv => ScenariosApart
  <2> SUFFICES ASSUME IInv PROVE ScenariosApart
    OBVIOUS
  <2>1. Open \subseteq Busy /\ Busy \in SUBSET (1..N) /\ IsFiniteSet(1..N)
    BY ValidateAssumption, FS_Interval DEF Open, Busy, Scenarios
  <2>2. IsFiniteSet(Busy)
    BY <2>1, FS_Subset
  <2>3. /\ Cardinality(Open) <= Cardinality(Busy) /\ Cardinality(Open) \in Nat
        /\ Cardinality(Busy) \in Nat /\ opts.parallel \in Nat
    <3>1. opts.parallel \in Nat
      BY ValidateAssumption DEF IInv, OptsOK
    <3>2. IsFiniteSet(Open) /\ Cardinality(Open) <= Cardinality(Busy)
      BY <2>1, <2>2, FS_Subset
    <3> QED BY <2>2, <3>1, <3>2, FS_CardinalityType
  <2>4. Cardinality(Open) <= opts.parallel
    BY <2>3 DEF IInv, Crowd
  <2> QED BY <2>4 DEF IInv, Served, ScenariosApart
<1> QED BY InitInv, Inductive, <1>1, PTL DEF Spec

\* A report that nobody interrupted has a result of its own for each scenario: none that
\* another scenario's error cut short, and none for want of an executor but a gRPC target.
THEOREM OwnReports == Spec => []ReportIsOwn
<1>1. IInv => ReportIsOwn
  BY DEF IInv, Results, Own, ReportIsOwn
<1> QED BY InitInv, Inductive, <1>1, PTL DEF Spec
=============================================================================
