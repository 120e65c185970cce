------------------------------ MODULE Validate ------------------------------
(***************************************************************************)
(* `octog validate` (cmd/octog/main.go): a container of its own or a       *)
(* running target, the scenarios one after the other with a fresh          *)
(* container each, or several at a time against the same one, the judge,   *)
(* the report and the cleanup.                                             *)
(*                                                                         *)
(* A scenario is one step here; what its steps do is in Runner.  The       *)
(* manager's calls succeed or fail and leave nothing when they fail, as    *)
(* Containers shows.                                                       *)
(***************************************************************************)
EXTENDS Naturals, FiniteSets

CONSTANTS
  N,            \* number of scenarios
  Types,        \* the step types they are of
  MaxParallel   \* the largest --parallel-scenarios

ASSUME ValidateAssumption ==
  /\ N \in Nat /\ MaxParallel \in Nat \ {0}
  /\ Types \subseteq {"request", "exec", "browser", "grpc", "ws", "tui"}

Scenarios == 1..N

VARIABLES
  opts,         \* --code, --parallel-scenarios, --grpc-target, --threshold; the scenarios' types
  pc, next,     \* where the command is, and the scenario that its loop is at
  worker,       \* how far each scenario is; its executors are open while it runs
  target,       \* the container each scenario ran against, 0 for none of ours
  results,      \* what is known of each scenario
  failed,       \* the group of parallel scenarios has an error
  interrupted,  \* the user has interrupted the command
  started,      \* containers started so far
  running,      \* the one that runs, 0 for none
  currentStop,  \* the one that currentStop stops, 0 for none
  url,          \* the one that targetURL points at
  image,        \* the tag names an image
  exit          \* how the command ended

vars == <<opts, pc, next, worker, target, results, failed, interrupted, started, running,
          currentStop, url, image, exit>>
scoring == <<next, worker, target, results, failed>>
containers == <<started, running, currentStop, url, image>>

Parallel == opts.parallel > 1
Open == {s \in Scenarios : worker[s] = "running"}
Busy == {s \in Scenarios : worker[s] \in {"running", "judging"}}

\* detectCapabilities and buildExecutors
NeededTypes == {opts.types[s] : s \in Scenarios}
Executors ==
  {"request", "exec"} \cup (NeededTypes \cap {"browser", "ws", "tui"})
  \cup (IF opts.grpcTarget THEN {"grpc"} ELSE {})

\* The context of a scenario; the group's is cancelled by its first error.
ContextDone == interrupted \/ (Parallel /\ failed)

Init ==
  /\ opts \in [code : BOOLEAN, parallel : 1..MaxParallel, grpcTarget : BOOLEAN,
               threshold : BOOLEAN, types : [Scenarios -> Types]]
  /\ pc = IF opts.code THEN "build" ELSE "loop"
  /\ next = 1 /\ worker = [s \in Scenarios |-> "waiting"] /\ target = [s \in Scenarios |-> 0]
  /\ results = [s \in Scenarios |-> "none"] /\ failed = FALSE /\ interrupted = FALSE
  /\ started = 0 /\ running = 0 /\ currentStop = 0 /\ url = 0 /\ image = FALSE
  /\ exit = "none"

-----------------------------------------------------------------------------
(* setupValidateContainer.                                                 *)

Goes(to) == pc' = to /\ UNCHANGED <<opts, interrupted, exit>>
Ends(how, to) == pc' = to /\ exit' = how /\ UNCHANGED <<opts, interrupted>>

\* A build that fails may have tagged an image (Containers, LogFails).
Build ==
  /\ pc = "build"
  /\ \/ Goes("run") /\ image' = TRUE
     \/ Ends("buildFailed", "done") /\ image' \in BOOLEAN
  /\ UNCHANGED <<scoring, started, running, currentStop, url>>

Run ==
  /\ pc = "run"
  /\ \/ Goes("health") /\ started' = started + 1 /\ running' = started' /\ UNCHANGED image
     \/ Ends("error", "done") /\ image' = FALSE /\ UNCHANGED <<started, running>>
  /\ UNCHANGED <<scoring, currentStop, url>>

WaitHealthy ==
  /\ pc = "health"
  /\ \/ Goes("loop") /\ url' = running /\ currentStop' = running /\ UNCHANGED <<running, image>>
     \/ Ends("error", "done") /\ running' = 0 /\ image' = FALSE /\ UNCHANGED <<url, currentStop>>
  /\ UNCHANGED <<scoring, started>>

-----------------------------------------------------------------------------
(* runAndScoreSequential.                                                  *)

Start(s) ==
  /\ worker' = [worker EXCEPT ![s] = "running"] /\ target' = [target EXCEPT ![s] = url]
  /\ UNCHANGED <<results, failed>>

Restarts == opts.code /\ next > 1

AtNext == pc = "loop" /\ ~Parallel /\ next <= N

LoopInterrupted ==
  AtNext /\ interrupted /\ Ends("error", "cleanup") /\ UNCHANGED <<scoring, containers>>

StartFirst ==
  /\ AtNext /\ ~interrupted /\ ~Restarts /\ Goes("busy") /\ Start(next)
  /\ UNCHANGED <<next, containers>>

\* restartFn: currentStop runs and becomes a function that does nothing.
RestartStops ==
  /\ AtNext /\ ~interrupted /\ Restarts /\ Goes("restart")
  /\ running' = (IF currentStop = running THEN 0 ELSE running) /\ currentStop' = 0
  /\ UNCHANGED <<scoring, started, url, image>>

RestartRuns ==
  /\ pc = "restart"
  /\ \/ /\ Goes("restartHealth")
        /\ started' = started + 1 /\ running' = started' /\ currentStop' = started'
     \/ Ends("error", "cleanup") /\ UNCHANGED <<started, running, currentStop>>
  /\ UNCHANGED <<scoring, url, image>>

\* Seeded fault: the scenario is given the URL of the container before.
RestartedStale ==
  /\ pc = "restartHealth" /\ Goes("busy") /\ Start(next)
  /\ UNCHANGED <<next, containers>>

Restarted ==
  /\ pc = "restartHealth" /\ Goes("busy") /\ url' = running
  /\ worker' = [worker EXCEPT ![next] = "running"]
  /\ target' = [target EXCEPT ![next] = running]
  /\ UNCHANGED <<next, results, failed, started, running, currentStop, image>>

\* Seeded fault: what has not become healthy is forgotten and not stopped.
RestartUnhealthyForgets ==
  /\ pc = "restartHealth" /\ Ends("error", "cleanup") /\ currentStop' = 0
  /\ UNCHANGED <<scoring, started, running, url, image>>

RestartUnhealthy ==
  /\ pc = "restartHealth" /\ Ends("error", "cleanup") /\ running' = 0 /\ currentStop' = 0
  /\ UNCHANGED <<scoring, started, url, image>>

SequentialEnds ==
  /\ pc = "loop" /\ ~Parallel /\ next > N /\ Goes("output")
  /\ UNCHANGED <<scoring, containers>>

-----------------------------------------------------------------------------
(* runAndScoreParallel: the group lets as many run as its limit, and waits *)
(* for all; an error starts no fewer of them.                              *)

Launch ==
  /\ pc = "loop" /\ Parallel /\ next <= N /\ Cardinality(Busy) < opts.parallel
  /\ Goes("loop") /\ next' = next + 1 /\ Start(next)
  /\ UNCHANGED containers

GroupEnds ==
  /\ pc = "loop" /\ Parallel /\ next > N /\ Busy = {}
  /\ IF failed THEN Ends("error", "cleanup") ELSE Goes("output")
  /\ UNCHANGED <<scoring, containers>>

-----------------------------------------------------------------------------
(* One scenario, either way: its executors, its steps and the judge.       *)

\* The loop goes on with the next scenario, or the group has one less to wait for.
Over(s, result) ==
  /\ worker' = [worker EXCEPT ![s] = "ended"] /\ results' = [results EXCEPT ![s] = result]
  /\ IF Parallel THEN Goes(pc) /\ UNCHANGED next ELSE Goes("loop") /\ next' = next + 1
  /\ UNCHANGED <<target, containers>>

\* The setup fails, or every step does: nobody asks the judge.
ScoredZero(s) ==
  /\ worker[s] = "running"
  /\ \E why \in {"zero", "noExecutor", "cancelled"} :
       /\ why = "noExecutor" <=> opts.types[s] \notin Executors
       /\ why = "cancelled" => ContextDone
       /\ Over(s, why)
  /\ UNCHANGED failed

StepsDone(s) ==
  /\ worker[s] = "running" /\ opts.types[s] \in Executors \ {"exec"}
  /\ worker' = [worker EXCEPT ![s] = "judging"] /\ Goes(pc)
  /\ UNCHANGED <<next, target, results, failed, containers>>

\* The exec executor is given a nil *container.Session, which in an interface is not nil.
\* The panic runs the deferred cleanup if the main goroutine has it, and else ends the
\* process there.
ExecPanics(s) ==
  /\ worker[s] = "running" /\ opts.types[s] = "exec"
  /\ Ends("panic", IF Parallel THEN "done" ELSE "cleanup")
  /\ worker' = [t \in Scenarios |-> IF Parallel \/ t = s THEN "ended" ELSE worker[t]]
  /\ UNCHANGED <<next, target, results, failed, containers>>

JudgeAnswers(s) ==
  worker[s] = "judging" /\ ~ContextDone /\ Over(s, "judged") /\ UNCHANGED failed

\* Seeded fault: an error of the judge is a scenario without a result.
JudgeFailsQuietly(s) == worker[s] = "judging" /\ Over(s, "none") /\ UNCHANGED failed

JudgeFails(s) ==
  /\ worker[s] = "judging" /\ worker' = [worker EXCEPT ![s] = "ended"]
  /\ IF Parallel
     THEN Goes(pc) /\ failed' = TRUE
     ELSE Ends("error", "cleanup") /\ UNCHANGED failed
  /\ UNCHANGED <<next, target, results, containers>>

-----------------------------------------------------------------------------
(* outputValidation: a threshold fails the command when the weighted mean  *)
(* is below it, which it is when every scenario has zero.                  *)

Output ==
  /\ pc = "output" /\ UNCHANGED <<scoring, containers>>
  /\ \/ /\ opts.threshold => \E s \in Scenarios : results[s] = "judged"
        /\ Ends("passed", "cleanup")
     \/ opts.threshold /\ Ends("below", "cleanup")
     \/ Ends("error", "cleanup")  \* the report cannot be written

-----------------------------------------------------------------------------
(* The deferred cleanup.  The daemon refuses to remove an image in use.    *)

Cleanup ==
  /\ pc = "cleanup" /\ pc' = "done"
  /\ IF opts.code
     THEN /\ running' = (IF currentStop = running THEN 0 ELSE running)
          /\ image' = (running' # 0)
     ELSE UNCHANGED <<running, image>>
  /\ UNCHANGED <<opts, interrupted, exit, scoring, started, currentStop, url>>

Interrupt ==
  /\ pc # "done" /\ ~interrupted /\ interrupted' = TRUE
  /\ UNCHANGED <<opts, pc, exit, scoring, containers>>

Steps ==
  \/ Build \/ Run \/ WaitHealthy
  \/ LoopInterrupted \/ StartFirst \/ RestartStops \/ RestartRuns \/ Restarted
  \/ RestartUnhealthy \/ SequentialEnds \/ Launch \/ GroupEnds \/ Output
  \/ \E s \in Scenarios :
       ScoredZero(s) \/ StepsDone(s) \/ ExecPanics(s) \/ JudgeAnswers(s) \/ JudgeFails(s)
  \/ Cleanup

Terminating == pc = "done" /\ UNCHANGED vars

Next == Steps \/ Interrupt \/ Terminating

\* Every scenario ends (Runner, RunEnds), every call of the manager and the judge answers.
Spec == Init /\ [][Next]_vars /\ WF_vars(Steps)

-----------------------------------------------------------------------------
(* Properties.                                                             *)

\* Every variable holds a value of its kind.
TypeOK ==
  /\ pc \in {"build", "run", "health", "loop", "restart", "restartHealth", "busy", "output",
             "cleanup", "done"}
  /\ next \in 1..(N + 1) /\ target \in [Scenarios -> 0..started]
  /\ worker \in [Scenarios -> {"waiting", "running", "judging", "ended"}]
  /\ results \in [Scenarios -> {"none", "zero", "noExecutor", "cancelled", "judged"}]
  /\ failed \in BOOLEAN /\ interrupted \in BOOLEAN /\ image \in BOOLEAN
  /\ started \in Nat /\ {running, currentStop, url} \subseteq 0..started
  /\ exit \in {"none", "buildFailed", "error", "passed", "below", "panic"}

\* Every variable has its type.  No more scenarios have executors open than may run at a
\* time; with a container of our own each runs against the one that is running, whatever
\* was restarted in between; and one at a time no two run against the same.
ScenariosApart ==
  /\ TypeOK
  /\ Cardinality(Open) <= opts.parallel
  /\ opts.code =>
       /\ \A s \in Open : target[s] = running /\ running # 0
       /\ ~Parallel =>
            \A s, t \in Scenarios : target[s] = target[t] /\ target[s] # 0 => s = t

\* A report that the user did not interrupt has a result for each scenario, and its own:
\* that of a scenario cut short by the error of another is never in it, and one is zero
\* for want of an executor only without a gRPC target.
ReportIsOwn ==
  exit \in {"passed", "below"} /\ ~interrupted =>
    \A s \in Scenarios :
      \/ results[s] \in {"judged", "zero"}
      \/ results[s] = "noExecutor" /\ opts.types[s] = "grpc" /\ ~opts.grpcTarget

\* The command ends, however its scenarios, containers and judge do, and then nothing of
\* its own is left: no container, and no image but of a build that failed.  A panic among
\* parallel scenarios takes the process with it, and leaves both.
EndsClean ==
  <>[](/\ pc = "done" /\ Open = {}
       /\ running = 0 \/ (exit = "panic" /\ Parallel)
       /\ image => exit = "buildFailed" \/ (exit = "panic" /\ Parallel))

-----------------------------------------------------------------------------
(* What the help says and the code does not do.                            *)

\* "Each scenario step is executed (HTTP, exec, browser, gRPC, WebSocket, or TUI)"
\* (main.go:701).
StepsExecuted == exit # "panic"
=============================================================================
