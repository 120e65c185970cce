------------------------------ MODULE Attractor ------------------------------
(***************************************************************************)
(* The attractor: the loop of `octog run` that generates code with an LLM, *)
(* builds it in a container, validates it against the holdout scenarios    *)
(* and iterates until the satisfaction reaches the threshold, the run      *)
(* stalls, the budget is spent or the iterations are used up               *)
(* (internal/attractor/attractor.go, escalation.go, regression.go), with   *)
(* the validation closure the CLI gives it (cmd/octog/main.go,             *)
(* internal/scenario/judge.go).                                            *)
(*                                                                         *)
(* One behaviour is one call of Attractor.Run, from the monolithic loop on.*)
(* Everything outside the loop - the LLM, Docker, the judge, the disk - is *)
(* the environment: each call is an action per outcome the code            *)
(* distinguishes.  `pc` is the place in Run/iterate; a place stands between*)
(* two external calls.                                                     *)
(*                                                                         *)
(* Scores are tenths of a point (946 is 94.6) and the weights and scores   *)
(* of an instance are chosen so that the weighted mean is exact.           *)
(***************************************************************************)
EXTENDS Integers, FiniteSets

CONSTANTS
  Options,       \* the RunOptions considered, after withDefaults
  NumScenarios,  \* the holdout scenarios, numbered in load order
  Tier,          \* Tier[s]: difficulty tier of scenario s
  Weight,        \* Weight[s]: weight of scenario s
  Scores,        \* the scores a scenario can get, in tenths of a point
  Costs,         \* what one paid call can cost
  StartCosts     \* cost carried over from the composed attempt and the summary

Scenarios == 1..NumScenarios
Capabilities == {"http", "exec", "browser", "grpc", "tui"}
MaxTier == 3                      \* maxStratifiedTier
StepPassThreshold == 800          \* stepPassThreshold
EscalateAfterFailures == 2
DowngradeAfterImprovements == 5
OverspendCap == 4                 \* bound of the count in overspend

\* RunOptions.  BudgetUSD = 0 is "no budget"; Frugal says that FrugalModel is set.
OptionsType ==
  [caps: SUBSET Capabilities, PatchMode: BOOLEAN, BlockOnRegression: BOOLEAN,
   Agentic: BOOLEAN, Stratified: BOOLEAN, TestCommand: BOOLEAN, Frugal: BOOLEAN,
   BudgetUSD: Nat, Threshold: Nat \ {0}, MaxIterations: Nat \ {0},
   StallLimit: Nat \ {0}]

ASSUME ConstantsAssumption ==
  /\ Options \subseteq OptionsType
  /\ NumScenarios \in Nat
  /\ Tier \in [Scenarios -> 1..MaxTier]
  /\ Weight \in [Scenarios -> Nat]
  /\ Scores \subseteq Nat /\ 0 \in Scores
  /\ Costs \subseteq Nat
  /\ StartCosts \subseteq Nat

VARIABLES
  opts,                  \* chosen once, never changed
  pc, iter, result,      \* place, iterations started, RunResult.Status
  activeTier, stallCount, bestSatisfaction,
  bestFiles, bestDir,    \* the iteration whose files they hold, 0 for none
  lastOutcome, lastSatisfaction, lastImproved,
  lastFailures,          \* the iteration whose failures they are, 0 for nil
  patchActive, patchRegressionCount,
  scenarioScores,        \* scores of the last validation; read through Shown
  streaks,               \* failed validations in a row per scenario, capped at 2
  escalation,            \* escalationState, unchanging when Frugal is off
  totalCost,             \* capped at the budget; 0 when there is none
  overspend,             \* paid phases begun with the budget already spent, capped
  sessionRunning, sessionSet,  \* the session container, the CLI's pointer to it
  services, started,     \* running service containers, started this iteration
  currentStop,           \* the container the deferred stop will stop, 0 for none
  url, healthy, grpcTarget,    \* what validate gets; 0 is the empty string
  agg                    \* the scores of the validation in progress

loopVars == <<pc, iter, result>>
searchVars == <<activeTier, stallCount, bestSatisfaction, bestFiles, bestDir,
                patchActive, patchRegressionCount, scenarioScores, streaks>>
lastVars == <<lastOutcome, lastSatisfaction, lastImproved, lastFailures>>
moneyVars == <<totalCost, overspend>>
sessionVars == <<sessionRunning, sessionSet>>
serviceVars == <<services, started, currentStop, url, healthy, grpcTarget>>
vars == <<opts, loopVars, searchVars, lastVars, escalation, moneyVars,
          sessionVars, serviceVars, agg>>

NoScores == [s \in {} |-> 0]
NoAgg == [scores |-> NoScores, weightedSum |-> 0, totalWeight |-> 0]
NewEscalation == [tier |-> "frugal", failures |-> 0, improves |-> 0]

Least(a, b) == IF a <= b THEN a ELSE b

-----------------------------------------------------------------------------
(* What the loop reads.                                                    *)

Exhausts(cost) == opts.BudgetUSD > 0 /\ cost >= opts.BudgetUSD
BudgetExceeded == Exhausts(totalCost)

\* currentModel: which of the two models the next generation uses.
CurrentModel == IF opts.Frugal THEN escalation.tier ELSE "primary"

Patching == patchActive /\ bestFiles # 0 /\ iter > 1

\* buildSteeringText is not empty: some scenario failed twice in a row.
Stalling == \E s \in Scenarios : streaks[s] >= 2

NeedsSession == opts.caps \cap {"exec", "tui"} # {}

\* startServiceContainer's switch.
Route ==
  CASE "grpc" \in opts.caps -> "grpc"
    [] "grpc" \notin opts.caps /\ "tui" \in opts.caps /\ "http" \notin opts.caps -> "none"
    [] OTHER -> IF opts.caps \cap {"http", "browser"} # {} \/ "exec" \notin opts.caps
                THEN "http" ELSE "none"

\* The scenarios of a validation: with a maxTier, those up to it.
Active == {s \in Scenarios : activeTier = 0 \/ Tier[s] <= activeTier}
Unscored == Active \ DOMAIN agg.scores

\* Aggregate: the weighted mean, 0 without scenarios or weight.
Satisfaction ==
  IF agg.totalWeight = 0 THEN 0 ELSE agg.weightedSum \div agg.totalWeight

\* A score as it goes through "%.0f" and ParseFloat: half to even, whole points.
Shown(x) ==
  LET whole == x \div 10
      tenth == x % 10
  IN  IF tenth > 5 \/ (tenth = 5 /\ whole % 2 = 1) THEN 10 * (whole + 1) ELSE 10 * whole

\* detectRegressions, on the scores parsed back from the failure lines.
Regressions ==
  {s \in DOMAIN agg.scores \cap DOMAIN scenarioScores :
     Shown(scenarioScores[s]) >= opts.Threshold /\ Shown(agg.scores[s]) < opts.Threshold}

\* Seeded fault: the satisfaction is rounded before it is compared.
ConvergesRounded ==
  /\ Shown(Satisfaction) >= opts.Threshold
  /\ ~(opts.BlockOnRegression /\ Regressions # {})

Converges ==
  /\ Satisfaction >= opts.Threshold
  /\ ~(opts.BlockOnRegression /\ Regressions # {})

-----------------------------------------------------------------------------
Init ==
  /\ opts \in Options
  /\ pc = "loop" /\ iter = 0 /\ result = "none"
  /\ activeTier = IF opts.Stratified THEN 1 ELSE 0
  /\ stallCount = 0 /\ bestSatisfaction = 0 /\ bestFiles = 0 /\ bestDir = 0
  /\ lastOutcome = "none" /\ lastSatisfaction = 0 /\ lastImproved = FALSE
  /\ lastFailures = 0
  /\ patchActive = opts.PatchMode /\ patchRegressionCount = 0
  /\ scenarioScores = NoScores
  /\ streaks = [s \in Scenarios |-> 0]
  /\ escalation = NewEscalation
  /\ \E c \in StartCosts : totalCost = Least(c, opts.BudgetUSD)
  /\ overspend = 0
  /\ sessionRunning = FALSE /\ sessionSet = FALSE
  /\ services = {} /\ started = 0 /\ currentStop = 0
  /\ url = 0 /\ healthy = FALSE /\ grpcTarget = 0
  /\ agg = NoAgg

-----------------------------------------------------------------------------
(* Steps shared by the actions.                                            *)

Goto(place) == pc' = place /\ UNCHANGED <<iter, result>>

\* A paid call that cost c.
Spend(c) ==
  /\ totalCost' = Least(totalCost + c, opts.BudgetUSD)
  /\ overspend' = IF BudgetExceeded THEN Least(overspend + 1, OverspendCap) ELSE overspend

\* `return nil, err`: the deferred calls run and Run returns the error.
HardError == pc' = "cleanup" /\ result' = "error" /\ UNCHANGED iter

\* recordStall with the outcome of a failed phase.
RecordStall(outcome) ==
  /\ lastOutcome' = outcome
  /\ lastSatisfaction' = 0
  /\ stallCount' = stallCount + 1
  /\ UNCHANGED <<lastImproved, activeTier, bestSatisfaction, bestFiles, bestDir,
                 patchActive, patchRegressionCount, scenarioScores, streaks>>

\* Seeded fault: the limit is compared with > for >=.
CheckStalledLate(next) ==
  /\ IF stallCount' > opts.StallLimit
     THEN pc' = "cleanup" /\ result' = "stalled"
     ELSE pc' = next /\ UNCHANGED result
  /\ UNCHANGED iter

\* checkStalled: go on to `next`, or end the iteration with a result.
CheckStalled(next) ==
  /\ IF stallCount' >= opts.StallLimit
     THEN pc' = "cleanup" /\ result' = "stalled"
     ELSE pc' = next /\ UNCHANGED result
  /\ UNCHANGED iter

\* A phase failed and its caller returns from iterate.
StallAndReturn(outcome) == RecordStall(outcome) /\ CheckStalled("cleanup")

-----------------------------------------------------------------------------
(* Run: the head of the loop.                                              *)

MaxIterationsReached ==
  /\ pc = "loop" /\ iter = opts.MaxIterations
  /\ pc' = "done" /\ result' = "max_iterations"
  /\ UNCHANGED <<opts, iter, searchVars, lastVars, escalation, moneyVars,
                 sessionVars, serviceVars, agg>>

BudgetStop ==
  /\ pc = "loop" /\ iter < opts.MaxIterations /\ BudgetExceeded
  /\ pc' = "done" /\ result' = "budget_exceeded"
  /\ UNCHANGED <<opts, iter, searchVars, lastVars, escalation, moneyVars,
                 sessionVars, serviceVars, agg>>

\* Seeded fault: the budget is not read before the iteration.
StartIterationUnchecked ==
  /\ pc = "loop" /\ iter < opts.MaxIterations
  /\ iter' = iter + 1
  /\ lastImproved' = FALSE
  /\ pc' = IF opts.Agentic THEN "agent" ELSE "triage"
  /\ UNCHANGED <<opts, result, searchVars, lastOutcome, lastSatisfaction,
                 lastFailures, escalation, moneyVars, sessionVars, serviceVars, agg>>

StartIteration ==
  /\ pc = "loop" /\ iter < opts.MaxIterations /\ ~BudgetExceeded
  /\ iter' = iter + 1
  /\ lastImproved' = FALSE
  /\ pc' = IF opts.Agentic THEN "agent" ELSE "triage"
  /\ UNCHANGED <<opts, result, searchVars, lastOutcome, lastSatisfaction,
                 lastFailures, escalation, moneyVars, sessionVars, serviceVars, agg>>

-----------------------------------------------------------------------------
(* generateStandard: triage, wonder/reflect or one generation, parse, write. *)

\* triageFiles pays for a call only with failures to look at (and with more
\* than five files); an LLM error costs nothing and is not an error.
Triage ==
  /\ pc = "triage"
  /\ Goto(IF Stalling THEN "wonder" ELSE "generate")
  /\ \/ UNCHANGED moneyVars
     \/ Patching /\ lastFailures # 0 /\ \E c \in Costs : Spend(c)
  /\ UNCHANGED <<opts, searchVars, lastVars, escalation, sessionVars, serviceVars, agg>>

\* wonderReflect, first call: it fails, or it answers and is paid for; a spent
\* budget or an unreadable diagnosis falls back to the normal generation.
Wonder ==
  /\ pc = "wonder"
  /\ \/ Goto("generate") /\ UNCHANGED moneyVars
     \/ /\ \E c \in Costs : Spend(c)
        /\ \/ Goto("generate")
           \/ ~Exhausts(totalCost') /\ Goto("reflect")
  /\ UNCHANGED <<opts, searchVars, lastVars, escalation, sessionVars, serviceVars, agg>>

\* wonderReflect, second call: an error or an empty answer falls back too.
Reflect ==
  /\ pc = "reflect"
  /\ \/ Goto("generate") /\ UNCHANGED moneyVars
     \/ /\ \E c \in Costs : Spend(c)
        /\ Goto("generate") \/ Goto("parse")
  /\ UNCHANGED <<opts, searchVars, lastVars, escalation, sessionVars, serviceVars, agg>>

Generate ==
  /\ pc = "generate"
  /\ \E c \in Costs : Spend(c)
  /\ Goto("parse")
  /\ UNCHANGED <<opts, searchVars, lastVars, escalation, sessionVars, serviceVars, agg>>

\* A cancelled context in wonder or reflect, any error of Generate or AgentLoop
\* (the pre-seeding of the agent's directory included).
GenerationError ==
  /\ pc \in {"wonder", "reflect", "generate", "agent"}
  /\ HardError
  /\ UNCHANGED <<opts, searchVars, lastVars, escalation, moneyVars, sessionVars,
                 serviceVars, agg>>

\* Seeded fault: an answer that does not parse is asked for again at once.
ParseFailsRetries ==
  /\ pc = "parse"
  /\ Goto("generate")
  /\ UNCHANGED <<opts, searchVars, lastVars, escalation, moneyVars, sessionVars,
                 serviceVars, agg>>

\* ParseFilesWithMetadata fails; lastFailures keeps its earlier value.
ParseFails ==
  /\ pc = "parse"
  /\ StallAndReturn("parse_fail")
  /\ UNCHANGED <<opts, lastFailures, escalation, moneyVars, sessionVars, serviceVars, agg>>

WriteFiles ==
  /\ pc = "parse"
  /\ \/ Goto("build") /\ lastFailures' = 0
     \/ HardError /\ UNCHANGED lastFailures
  /\ UNCHANGED <<opts, searchVars, lastOutcome, lastSatisfaction, lastImproved,
                 escalation, moneyVars, sessionVars, serviceVars, agg>>

(* generateAgentic.  The handler starts with the best files in patch mode,  *)
(* so only an agent that starts from nothing can end with no file.          *)

AgentWritesFiles ==
  /\ pc = "agent"
  /\ \E c \in Costs : Spend(c)
  /\ Goto("build") /\ lastFailures' = 0
  /\ UNCHANGED <<opts, searchVars, lastOutcome, lastSatisfaction, lastImproved,
                 escalation, sessionVars, serviceVars, agg>>

AgentWritesNothing ==
  /\ pc = "agent" /\ ~Patching
  /\ \E c \in Costs : Spend(c)
  /\ StallAndReturn("parse_fail")
  /\ UNCHANGED <<opts, lastFailures, escalation, sessionVars, serviceVars, agg>>

-----------------------------------------------------------------------------
(* buildRunValidate: build, session container, service container, tests.   *)

Build ==
  /\ pc = "build"
  /\ \/ /\ Goto(IF NeedsSession THEN "session" ELSE "service")
        /\ UNCHANGED <<searchVars, lastVars>>
     \/ StallAndReturn("build_fail") /\ UNCHANGED lastFailures
  /\ UNCHANGED <<opts, escalation, moneyVars, sessionVars, serviceVars, agg>>

StartSession ==
  /\ pc = "session"
  /\ \/ /\ Goto("service")
        /\ sessionRunning' = TRUE /\ sessionSet' = TRUE
        /\ UNCHANGED <<searchVars, lastVars>>
     \/ StallAndReturn("run_fail") /\ UNCHANGED <<lastFailures, sessionVars>>
  /\ UNCHANGED <<opts, escalation, moneyVars, serviceVars, agg>>

NoService ==
  /\ pc = "service" /\ Route = "none"
  /\ Goto("test")
  /\ UNCHANGED <<opts, searchVars, lastVars, escalation, moneyVars, sessionVars,
                 serviceVars, agg>>

\* Run or RunMultiPort starts a new container.
RunContainer ==
  /\ started' = started + 1
  /\ services' = services \cup {started + 1}
  /\ currentStop' = started + 1

ServiceStarts ==
  /\ pc = "service" /\ Route # "none"
  /\ RunContainer
  /\ Goto("health")
  /\ UNCHANGED <<opts, searchVars, lastVars, escalation, moneyVars, sessionVars,
                 url, healthy, grpcTarget, agg>>

\* Below the stall limit stalled and stop are both nil, which the caller takes
\* for "no service container is needed": it goes on with an empty URL.
ServiceFails ==
  /\ pc = "service" /\ Route # "none"
  /\ RecordStall("run_fail") /\ CheckStalled("test")
  /\ UNCHANGED <<opts, lastFailures, escalation, moneyVars, sessionVars,
                 serviceVars, agg>>

ServiceHealthy ==
  /\ pc = "health"
  /\ url' = started /\ healthy' = TRUE
  /\ grpcTarget' = IF Route = "grpc" THEN started ELSE grpcTarget
  /\ Goto("test")
  /\ UNCHANGED <<opts, searchVars, lastVars, escalation, moneyVars, sessionVars,
                 services, started, currentStop, agg>>

\* The container is stopped, then as in ServiceFails.
HTTPUnhealthy ==
  /\ pc = "health" /\ Route = "http"
  /\ services' = services \ {currentStop} /\ currentStop' = 0
  /\ RecordStall("health_fail") /\ CheckStalled("test")
  /\ UNCHANGED <<opts, lastFailures, escalation, moneyVars, sessionVars,
                 started, url, healthy, grpcTarget, agg>>

\* waitGRPCHealth returns nil for "not stalled" and for "healthy" alike: below
\* the limit the unhealthy container is kept and used.
GRPCUnhealthy ==
  /\ pc = "health" /\ Route = "grpc"
  /\ RecordStall("health_fail") /\ CheckStalled("test")
  /\ IF stallCount' >= opts.StallLimit
     THEN services' = services \ {currentStop} /\ currentStop' = 0
          /\ UNCHANGED <<url, grpcTarget>>
     ELSE url' = started /\ grpcTarget' = started
          /\ UNCHANGED <<services, currentStop>>
  /\ UNCHANGED <<opts, lastFailures, escalation, moneyVars, sessionVars,
                 started, healthy, agg>>

\* runTestCommand: skipped without a command or a container.
RunTestCommand ==
  /\ pc = "test"
  /\ \/ Goto("validate") /\ UNCHANGED <<searchVars, lastVars>>
     \/ /\ opts.TestCommand /\ url # 0
        /\ \/ StallAndReturn("test_fail") /\ UNCHANGED lastFailures
           \/ HardError /\ UNCHANGED <<searchVars, lastVars>>
  /\ UNCHANGED <<opts, escalation, moneyVars, sessionVars, serviceVars, agg>>

-----------------------------------------------------------------------------
(* validate: the scenarios one after the other, the HTTP service restarted  *)
(* before each but the first.                                              *)

HasRestart == Route = "http" /\ url # 0

\* Every step of a scenario errs, and scores 0, when nothing can answer it.
PossibleScores ==
  IF Route # "none" /\ url = 0 /\ ~NeedsSession THEN {0} ELSE Scores

ScoreScenario ==
  /\ pc = "validate"
  /\ \E s \in Unscored, x \in PossibleScores :
       /\ \A t \in Unscored : s <= t
       /\ agg' = [scores |-> [t \in DOMAIN agg.scores \cup {s} |->
                                IF t = s THEN x ELSE agg.scores[t]],
                  weightedSum |-> agg.weightedSum + x * Weight[s],
                  totalWeight |-> agg.totalWeight + Weight[s]]
       /\ Goto(IF Unscored # {s} /\ HasRestart THEN "restart" ELSE "validate")
  /\ UNCHANGED <<opts, searchVars, lastVars, escalation, moneyVars, sessionVars,
                 serviceVars>>

\* The judge fails or the context is cancelled: a hard error.
ScenarioError ==
  /\ pc = "validate" /\ Unscored # {}
  /\ HardError
  /\ UNCHANGED <<opts, searchVars, lastVars, escalation, moneyVars, sessionVars,
                 serviceVars, agg>>

\* Seeded fault: the deferred stop stays bound to the first container.
RestartKeepsStop ==
  /\ pc = "restart"
  /\ Goto("rehealth")
  /\ started' = started + 1
  /\ services' = (services \ {currentStop}) \cup {started + 1}
  /\ UNCHANGED <<opts, searchVars, lastVars, escalation, moneyVars, sessionVars,
                 currentStop, url, healthy, grpcTarget, agg>>

\* Seeded fault: a container that does not start is started again.
RestartAgain ==
  /\ pc = "restart"
  /\ \/ /\ Goto("rehealth")
        /\ started' = started + 1
        /\ services' = (services \ {currentStop}) \cup {started + 1}
        /\ currentStop' = started + 1
     \/ /\ Goto("restart")
        /\ services' = services \ {currentStop} /\ currentStop' = 0
        /\ UNCHANGED started
  /\ UNCHANGED <<opts, searchVars, lastVars, escalation, moneyVars, sessionVars,
                 url, healthy, grpcTarget, agg>>

\* restartFn up to Run: a container that does not start is a hard error here.
Restart ==
  /\ pc = "restart"
  /\ \/ /\ Goto("rehealth")
        /\ started' = started + 1
        /\ services' = (services \ {currentStop}) \cup {started + 1}
        /\ currentStop' = started + 1
     \/ /\ HardError
        /\ services' = services \ {currentStop} /\ currentStop' = 0
        /\ UNCHANGED started
  /\ UNCHANGED <<opts, searchVars, lastVars, escalation, moneyVars, sessionVars,
                 url, healthy, grpcTarget, agg>>

\* Seeded fault: the URL of the container before the restart is kept.
RestartHealthKeepsURL ==
  /\ pc = "rehealth"
  /\ Goto("validate")
  /\ UNCHANGED <<opts, searchVars, lastVars, escalation, moneyVars, sessionVars,
                 serviceVars, agg>>

\* restartFn from WaitHealthy on.
RestartHealth ==
  /\ pc = "rehealth"
  /\ \/ Goto("validate") /\ url' = started /\ UNCHANGED <<services, currentStop>>
     \/ /\ HardError
        /\ services' = services \ {currentStop} /\ currentStop' = 0
        /\ UNCHANGED url
  /\ UNCHANGED <<opts, searchVars, lastVars, escalation, moneyVars, sessionVars,
                 started, healthy, grpcTarget, agg>>

\* validate returns; the judge calls are one paid phase.
ValidateReturns ==
  /\ pc = "validate" /\ Unscored = {}
  /\ \E c \in Costs \cup {0} : Spend(c)
  /\ lastFailures' = IF Active = {} THEN 0 ELSE iter
  /\ Goto("process")
  /\ UNCHANGED <<opts, searchVars, lastOutcome, lastSatisfaction, lastImproved,
                 escalation, sessionVars, serviceVars, agg>>

-----------------------------------------------------------------------------
(* processValidation.                                                      *)

\* What every outcome of processValidation records first.
RecordScores ==
  /\ lastOutcome' = "validated"
  /\ lastSatisfaction' = Satisfaction
  /\ scenarioScores' = agg.scores

\* The best directory is written before the best files are remembered.
Converge ==
  /\ pc = "process" /\ Converges
  /\ RecordScores
  /\ bestSatisfaction' = Satisfaction
  /\ bestFiles' = iter /\ bestDir' = iter
  /\ pc' = "cleanup" /\ result' = "converged"
  /\ UNCHANGED <<opts, iter, activeTier, stallCount, patchActive,
                 patchRegressionCount, streaks, lastImproved, lastFailures,
                 escalation, moneyVars, sessionVars, serviceVars, agg>>

\* The feedback entry of a validation that did not converge: buildSteeringText
\* reads the failure streaks from these.
RecordFeedback ==
  streaks' = [s \in Scenarios |->
                IF s \in DOMAIN agg.scores /\ agg.scores[s] < StepPassThreshold
                THEN Least(streaks[s] + 1, 2) ELSE 0]

\* The stall check comes before the budget check.
EndValidated ==
  /\ pc' = "cleanup"
  /\ result' = IF stallCount' >= opts.StallLimit THEN "stalled"
               ELSE IF BudgetExceeded THEN "budget_exceeded" ELSE "none"
  /\ UNCHANGED iter

\* Seeded fault: an improvement over the last validation counts as the best.
ImproveOnLast ==
  /\ pc = "process" /\ ~Converges /\ Satisfaction > lastSatisfaction
  /\ RecordScores /\ RecordFeedback
  /\ bestSatisfaction' = Satisfaction
  /\ bestFiles' = iter /\ bestDir' = iter
  /\ stallCount' = 0 /\ patchRegressionCount' = 0
  /\ lastImproved' = TRUE
  /\ EndValidated
  /\ UNCHANGED <<opts, activeTier, patchActive, lastFailures, escalation,
                 moneyVars, sessionVars, serviceVars, agg>>

Improve ==
  /\ pc = "process" /\ ~Converges /\ Satisfaction > bestSatisfaction
  /\ RecordScores /\ RecordFeedback
  /\ bestSatisfaction' = Satisfaction
  /\ bestFiles' = iter /\ bestDir' = iter
  /\ stallCount' = 0 /\ patchRegressionCount' = 0
  /\ lastImproved' = TRUE
  /\ EndValidated
  /\ UNCHANGED <<opts, activeTier, patchActive, lastFailures, escalation,
                 moneyVars, sessionVars, serviceVars, agg>>

\* trackPatchRegression: an equal score is no regression and resets nothing.
TrackPatchRegression ==
  IF patchActive /\ Satisfaction < bestSatisfaction
  THEN /\ patchRegressionCount' = patchRegressionCount + 1
       /\ IF patchRegressionCount' >= 2 THEN patchActive' = FALSE
                                        ELSE UNCHANGED patchActive
  ELSE UNCHANGED <<patchActive, patchRegressionCount>>

NotBetter ==
  /\ pc = "process" /\ ~Converges /\ Satisfaction <= bestSatisfaction
  /\ RecordScores /\ RecordFeedback
  /\ stallCount' = stallCount + 1
  /\ TrackPatchRegression
  /\ EndValidated
  /\ UNCHANGED <<opts, activeTier, bestSatisfaction, bestFiles, bestDir,
                 lastImproved, lastFailures, escalation, moneyVars, sessionVars,
                 serviceVars, agg>>

\* writeFiles to the best directory fails.
WriteBestFails ==
  /\ pc = "process" /\ (Converges \/ Satisfaction > bestSatisfaction)
  /\ RecordScores
  /\ IF Converges
     THEN UNCHANGED <<bestSatisfaction, bestFiles, stallCount,
                      patchRegressionCount, lastImproved>>
     ELSE /\ bestSatisfaction' = Satisfaction /\ bestFiles' = iter
          /\ stallCount' = 0 /\ patchRegressionCount' = 0
          /\ lastImproved' = TRUE
  /\ HardError
  /\ UNCHANGED <<opts, activeTier, bestDir, patchActive, streaks, lastFailures,
                 escalation, moneyVars, sessionVars, serviceVars, agg>>

-----------------------------------------------------------------------------
(* The deferred calls of buildRunValidate, and the tail of Run's loop.     *)

\* svc.stop and the gRPC target, the CLI's session pointer, the session.
Cleanup ==
  /\ pc = "cleanup"
  /\ services' = services \ {currentStop} /\ currentStop' = 0 /\ started' = 0
  /\ url' = 0 /\ healthy' = FALSE /\ grpcTarget' = 0
  /\ sessionSet' = FALSE /\ sessionRunning' = FALSE
  /\ agg' = NoAgg
  /\ Goto(IF result = "error" THEN "done" ELSE "report")
  /\ UNCHANGED <<opts, searchVars, lastVars, escalation, moneyVars>>

\* Seeded fault: the counter is compared before it is incremented.
RecordOutcomeLate ==
  LET e == escalation
  IN  IF lastImproved
      THEN [tier |-> e.tier, failures |-> 0, improves |-> e.improves + 1]
      ELSE IF e.failures >= EscalateAfterFailures /\ e.tier = "frugal"
           THEN [tier |-> "primary", failures |-> 0, improves |-> 0]
           ELSE [tier |-> e.tier, failures |-> e.failures + 1, improves |-> 0]

\* recordOutcome: two failures in a row escalate, five improvements in a row
\* bring the frugal model back.
RecordOutcome ==
  LET e == escalation
  IN  IF lastImproved
      THEN IF e.improves + 1 >= DowngradeAfterImprovements /\ e.tier = "primary"
           THEN NewEscalation
           ELSE [tier |-> e.tier, failures |-> 0, improves |-> e.improves + 1]
      ELSE IF e.failures + 1 >= EscalateAfterFailures /\ e.tier = "frugal"
           THEN [tier |-> "primary", failures |-> 0, improves |-> 0]
           ELSE [tier |-> e.tier, failures |-> e.failures + 1, improves |-> 0]

\* Seeded fault: one tier too few.
MayAdvanceOnce == result = "converged" /\ activeTier # 0 /\ activeTier < MaxTier - 1

MayAdvance == result = "converged" /\ activeTier # 0 /\ activeTier < MaxTier

\* advanceTierIfNeeded with resetForTierAdvancement.
AdvanceTier ==
  /\ pc = "report" /\ MayAdvance
  /\ activeTier' = activeTier + 1
  /\ bestSatisfaction' = 0 /\ stallCount' = 0
  /\ patchActive' = opts.PatchMode /\ patchRegressionCount' = 0
  /\ scenarioScores' = NoScores
  /\ streaks' = [s \in Scenarios |-> 0]
  /\ lastOutcome' = "none" /\ lastSatisfaction' = 0 /\ lastImproved' = FALSE
  /\ lastFailures' = 0
  /\ escalation' = NewEscalation
  /\ pc' = "loop" /\ result' = "none"
  /\ UNCHANGED <<opts, iter, bestFiles, bestDir, moneyVars, sessionVars,
                 serviceVars, agg>>

\* Progress is reported, the escalation updated, and the run ends or goes on.
FinishIteration ==
  /\ pc = "report" /\ ~MayAdvance
  /\ escalation' = IF opts.Frugal THEN RecordOutcome ELSE escalation
  /\ Goto(IF result = "none" THEN "loop" ELSE "done")
  /\ UNCHANGED <<opts, searchVars, lastVars, moneyVars, sessionVars,
                 serviceVars, agg>>

\* Run has returned.
Terminating == pc = "done" /\ UNCHANGED vars

LoopHead == MaxIterationsReached \/ BudgetStop \/ StartIteration
GenerateFiles == \/ Triage \/ Wonder \/ Reflect \/ Generate \/ GenerationError
                 \/ ParseFails \/ WriteFiles \/ AgentWritesFiles \/ AgentWritesNothing
StartContainers == \/ Build \/ StartSession \/ NoService \/ ServiceStarts
                   \/ ServiceFails \/ ServiceHealthy \/ HTTPUnhealthy
                   \/ GRPCUnhealthy \/ RunTestCommand
Validate == ScoreScenario \/ ScenarioError \/ Restart \/ RestartHealth \/ ValidateReturns
ProcessValidation == Converge \/ Improve \/ NotBetter \/ WriteBestFails
EndIteration == Cleanup \/ AdvanceTier \/ FinishIteration

Next == \/ LoopHead \/ GenerateFiles \/ StartContainers \/ Validate
        \/ ProcessValidation \/ EndIteration \/ Terminating

\* The loop is one goroutine and every external call returns: the LLM client,
\* Docker and the readiness waits are bounded by timeouts and the context.
Spec == Init /\ [][Next]_vars /\ WF_vars(Next)

-----------------------------------------------------------------------------
(* Properties.                                                             *)

Places ==
  {"loop", "triage", "wonder", "reflect", "generate", "parse", "agent", "build",
   "session", "service", "health", "test", "validate", "restart", "rehealth",
   "process", "cleanup", "report", "done"}
Outcomes ==
  {"none", "validated", "build_fail", "run_fail", "health_fail", "parse_fail", "test_fail"}
Statuses ==
  {"none", "converged", "stalled", "budget_exceeded", "max_iterations", "error"}

IsScores(f) == DOMAIN f \subseteq Scenarios /\ \A s \in DOMAIN f : f[s] \in Nat

LoopTypeOK ==
  /\ opts \in Options
  /\ pc \in Places /\ result \in Statuses
  /\ iter \in 0..opts.MaxIterations

SearchTypeOK ==
  /\ activeTier \in 0..MaxTier
  /\ stallCount \in Nat /\ bestSatisfaction \in Nat
  /\ bestFiles \in 0..iter /\ bestDir \in 0..iter
  /\ patchRegressionCount \in Nat
  /\ IsScores(scenarioScores)
  /\ streaks \in [Scenarios -> 0..2]
  /\ escalation \in [tier : {"frugal", "primary"}, failures : Nat, improves : Nat]

LastTypeOK ==
  /\ lastOutcome \in Outcomes /\ lastSatisfaction \in Nat
  /\ lastFailures \in 0..iter

MoneyTypeOK == totalCost \in 0..opts.BudgetUSD /\ overspend \in 0..OverspendCap

ContainerTypeOK ==
  /\ started \in Nat /\ services \subseteq Nat /\ currentStop \in 0..started
  /\ url \in 0..started /\ grpcTarget \in 0..started

FlagsTypeOK ==
  /\ lastImproved \in BOOLEAN /\ patchActive \in BOOLEAN
  /\ sessionRunning \in BOOLEAN /\ sessionSet \in BOOLEAN /\ healthy \in BOOLEAN

AggTypeOK ==
  /\ IsScores(agg.scores) /\ agg.weightedSum \in Nat /\ agg.totalWeight \in Nat
  /\ agg = [scores |-> agg.scores, weightedSum |-> agg.weightedSum,
            totalWeight |-> agg.totalWeight]

\* Every variable holds a value of its kind: in particular the tier stays
\* within the three tiers and no iteration number passes the one running
\* (runState, attractor.go).
TypeOK ==
  /\ LoopTypeOK /\ SearchTypeOK /\ LastTypeOK
  /\ MoneyTypeOK /\ ContainerTypeOK /\ FlagsTypeOK /\ AggTypeOK

\* Whatever failed in an iteration, it leaves nothing behind: between
\* iterations and after the run no container runs, and the CLI holds neither a
\* session nor a gRPC target (the defers of buildRunValidate and the stop
\* reference shared with restartFn, attractor.go:1200-1400).
ResourcesReleased ==
  pc \in {"loop", "report", "done"} =>
    /\ services = {} /\ ~sessionRunning
    /\ ~sessionSet /\ grpcTarget = 0 /\ url = 0

\* What validate and the test command are handed is alive: at most one service
\* container runs, it is the one the deferred stop will stop, a URL or a gRPC
\* target names it, and a session set is a session running (startHTTPContainer's
\* restartFn, startGRPCContainer, sessionProvider).
HandlesUsable ==
  /\ services = IF currentStop = 0 THEN {} ELSE {currentStop}
  /\ sessionSet <=> sessionRunning
  /\ pc \in {"test", "validate", "process"} =>
       url \in {0, currentStop} /\ grpcTarget \in {0, currentStop}

\* Every variable has its type, and containers and handles are owned before, during and after
\* a validation.
ResourcesOwned == TypeOK /\ ResourcesReleased /\ HandlesUsable

\* No iteration starts at the stall limit, a run is reported stalled exactly
\* at it, and even an iteration that stalls twice, in the service container
\* and in the validation, does not pass it (checkStalled, processValidation).
StallLimitStops ==
  /\ pc = "loop" => stallCount < opts.StallLimit
  /\ result = "stalled" => stallCount = opts.StallLimit
  /\ stallCount <= opts.StallLimit

\* A converged run satisfies every scenario set it was asked to: the last
\* tier (or no tiers) was the one validated, its satisfaction is the one
\* reported and reaches the threshold, and both copies of the best files are
\* those of that iteration (processValidation, advanceTierIfNeeded).
ConvergedMeans ==
  result = "converged" =>
    /\ lastOutcome = "validated"
    /\ bestSatisfaction = lastSatisfaction /\ lastSatisfaction >= opts.Threshold
    /\ bestFiles = iter /\ bestDir = iter
    /\ pc = "done" => activeTier \in {0, MaxTier}

\* Within a tier the best satisfaction never falls, but when an iteration
\* converges below a best that was refused for a regression
\* (processValidation, resetForTierAdvancement).
BestNeverDrops ==
  [][bestSatisfaction' < bestSatisfaction =>
       \/ activeTier' = activeTier + 1
       \/ opts.BlockOnRegression /\ result' = "converged"]_vars

\* Where an iteration can stall only once (no service container to start), a
\* frugal run is on the primary model when it is one failure from a limit of
\* three (escalation.go: escalation fires after 2 failures).
EscalatesBeforeStalling ==
  opts.Frugal /\ Route = "none" /\ pc = "loop" /\ stallCount >= EscalateAfterFailures
    => CurrentModel = "primary"

\* Once the budget is spent at most the iteration in progress goes on, and it
\* pays for at most three more phases: the wonder call, the generation it falls
\* back to and the validation (budgetExceeded is read at the head of the loop,
\* in wonderReflect and at the end of processValidation only).
OverspendBounded == overspend <= 3

\* The run implements its contract: the status is "running" until it returns.
Contract ==
  INSTANCE RunContract WITH
    attempts <- iter, tier <- activeTier, best <- bestSatisfaction,
    status <- IF pc = "done" THEN result ELSE "running"

ImplementsContract == Contract!Spec

\* The places of an iteration in the order it passes them; the places of a validation,
\* among which a restart leads back, are one.
Scoring == {"validate", "restart", "rehealth"}
Stage ==
  [triage |-> 1, wonder |-> 2, reflect |-> 3, generate |-> 4, parse |-> 5, agent |-> 5,
   build |-> 6, session |-> 7, service |-> 8, health |-> 9, test |-> 10,
   validate |-> 11, restart |-> 11, rehealth |-> 11,
   process |-> 12, cleanup |-> 13, report |-> 14, loop |-> 15, done |-> 16]

\* What a step may do: it starts an iteration, goes on to a later stage of the one it is in,
\* scores a scenario more, or is one of a restart's two between a scenario and the next.
Moves ==
  \/ iter' = iter + 1 /\ iter' <= opts.MaxIterations
  \/ iter' = iter /\ Stage[pc'] > Stage[pc]
  \/ /\ iter' = iter /\ {pc, pc'} \subseteq Scoring
     /\ \/ Unscored' \subseteq Unscored /\ Unscored' # Unscored
        \/ Unscored' = Unscored /\ <<pc, pc'>> \in {<<"restart", "rehealth">>, <<"rehealth", "validate">>}

\* Why a run returns: every step uses up iterations, stages or scenarios.  Nothing is tried
\* again within an iteration, and no restart goes without a scenario (Run, iterate).
MovesOn == [][Moves]_vars

\* Every run returns (Run's for loop; each phase leads to the next).
Terminates == <>(pc = "done")

-----------------------------------------------------------------------------
(* What a comment says of the loop and the code does not do.                *)

\* "ValidateFn runs holdout scenarios against a running container": when the
\* scenarios need a service container, validation happens against one that
\* runs and has answered its readiness wait (buildRunValidate).
ValidatesRunningContainer ==
  pc = "validate" /\ Route # "none" => url # 0 /\ url \in services /\ healthy
======================================================================
