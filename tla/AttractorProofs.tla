--------------------------- MODULE AttractorProofs ---------------------------
(***************************************************************************)
(* Proofs about module Attractor, for every set of options, number of      *)
(* scenarios, tiers, weights, scores and costs.  Each property rests on an *)
(* inductive invariant of its own (StallInv, ContainersInv, ResultInv,     *)
(* OverspendInv, EscalationInv) above the type invariant; the step proofs  *)
(* follow the groups of Next.                                              *)
(***************************************************************************)
EXTENDS Attractor, TLAPS

\* The fields of the options have their types (RunOptions, withDefaults).
LEMMA OptionsTyped ==
  ASSUME opts \in Options
  PROVE  /\ opts.BudgetUSD \in Nat /\ opts.Threshold \in Nat \ {0}
         /\ opts.MaxIterations \in Nat \ {0} /\ opts.StallLimit \in Nat \ {0}
         /\ opts.PatchMode \in BOOLEAN /\ opts.Stratified \in BOOLEAN
         /\ opts.Agentic \in BOOLEAN /\ opts.Frugal \in BOOLEAN
BY ConstantsAssumption DEF OptionsType

\* The weighted mean of Aggregate is a natural number, without scenarios too.
LEMMA SatisfactionNat ==
  ASSUME AggTypeOK
  PROVE  Satisfaction \in Nat
BY DEF AggTypeOK, Satisfaction

\* A new run (newRunState) is well typed.
LEMMA TypeInit == Init => TypeOK
<1> SUFFICES ASSUME Init PROVE TypeOK
  OBVIOUS
<1>1. LoopTypeOK
  BY OptionsTyped DEF Init, LoopTypeOK, Places, Statuses
<1>2. SearchTypeOK
  <2>1. escalation \in [tier : {"frugal", "primary"}, failures : Nat, improves : Nat]
    BY DEF Init, NewEscalation
  <2>2. IsScores(scenarioScores)
    BY DEF Init, NoScores, IsScores
  <2>3. QED
    BY <2>1, <2>2, OptionsTyped DEF Init, SearchTypeOK, MaxTier
<1>3. LastTypeOK
  BY DEF Init, LastTypeOK, Outcomes
<1>4. MoneyTypeOK
  <2>1. PICK c \in StartCosts : totalCost = Least(c, opts.BudgetUSD)
    BY DEF Init
  <2>2. c \in Nat
    BY ConstantsAssumption
  <2>3. QED
    BY <2>1, <2>2, OptionsTyped DEF Init, MoneyTypeOK, Least, OverspendCap
<1>5. ContainerTypeOK
  BY DEF Init, ContainerTypeOK
<1>6. FlagsTypeOK
  BY OptionsTyped, Zenon DEF Init, FlagsTypeOK
<1>7. AggTypeOK
  BY DEF Init, AggTypeOK, NoAgg, NoScores, IsScores
<1>8. QED
  BY <1>1, <1>2, <1>3, <1>4, <1>5, <1>6, <1>7 DEF TypeOK

\* A paid call keeps the two counters of money within their bounds.
LEMMA Spending ==
  ASSUME LoopTypeOK, MoneyTypeOK, NEW c \in Costs \cup {0}, Spend(c), opts' = opts
  PROVE  MoneyTypeOK'
<1>1. c \in Nat
  BY ConstantsAssumption
<1>2. QED
  BY <1>1, OptionsTyped
  DEF LoopTypeOK, MoneyTypeOK, Spend, BudgetExceeded, Exhausts, Least, OverspendCap

\* Every phase of Run and iterate keeps the state well typed.
LEMMA TypeStep == TypeOK /\ [Next]_vars => TypeOK'
<1> SUFFICES ASSUME TypeOK, [Next]_vars PROVE TypeOK'
  OBVIOUS
<1> USE DEF loopVars, searchVars, lastVars, moneyVars, sessionVars, serviceVars
<1> USE DEF TypeOK, LoopTypeOK, SearchTypeOK, LastTypeOK, ContainerTypeOK, FlagsTypeOK
<1>1. CASE MaxIterationsReached
  BY <1>1 DEF MaxIterationsReached, MoneyTypeOK, AggTypeOK, Places, Statuses
<1>2. CASE BudgetStop
  BY <1>2 DEF BudgetStop, MoneyTypeOK, AggTypeOK, Places, Statuses
<1>3. CASE StartIteration
  <2>1. FlagsTypeOK'
    BY <1>3, Zenon DEF StartIteration
  <2>2. QED
    BY <1>3, <2>1, OptionsTyped DEF StartIteration, MoneyTypeOK, AggTypeOK, Places
<1>4. CASE Triage
  <2>1. MoneyTypeOK'
    <3>1. CASE UNCHANGED moneyVars
      BY <1>4, <3>1 DEF Triage, MoneyTypeOK
    <3>2. CASE \E c \in Costs : Spend(c)
      BY <1>4, <3>2, Spending DEF Triage
    <3>3. QED
      BY <1>4, <3>1, <3>2 DEF Triage
  <2>2. QED
    BY <1>4, <2>1 DEF Triage, Goto, AggTypeOK, Places
<1>5. CASE Wonder
  <2>1. MoneyTypeOK'
    <3>1. CASE UNCHANGED moneyVars
      BY <1>5, <3>1 DEF Wonder, MoneyTypeOK
    <3>2. CASE \E c \in Costs : Spend(c)
      BY <1>5, <3>2, Spending DEF Wonder
    <3>3. QED
      BY <1>5, <3>1, <3>2 DEF Wonder
  <2>2. QED
    BY <1>5, <2>1 DEF Wonder, Goto, AggTypeOK, Places
<1>6. CASE Reflect
  <2>1. MoneyTypeOK'
    <3>1. CASE UNCHANGED moneyVars
      BY <1>6, <3>1 DEF Reflect, MoneyTypeOK
    <3>2. CASE \E c \in Costs : Spend(c)
      BY <1>6, <3>2, Spending DEF Reflect
    <3>3. QED
      BY <1>6, <3>1, <3>2 DEF Reflect
  <2>2. QED
    BY <1>6, <2>1 DEF Reflect, Goto, AggTypeOK, Places
<1>7. CASE Generate
  <2>1. MoneyTypeOK'
    BY <1>7, Spending DEF Generate
  <2>2. QED
    BY <1>7, <2>1 DEF Generate, Goto, AggTypeOK, Places
<1>8. CASE GenerationError
  BY <1>8 DEF GenerationError, HardError, MoneyTypeOK, AggTypeOK, Places, Statuses
<1>9. CASE ParseFails
  BY <1>9 DEF ParseFails, StallAndReturn, RecordStall, CheckStalled, MoneyTypeOK,
    AggTypeOK, Places, Statuses, Outcomes
<1>10. CASE WriteFiles
  BY <1>10 DEF WriteFiles, Goto, HardError, MoneyTypeOK, AggTypeOK, Places, Statuses
<1>11. CASE AgentWritesFiles
  BY <1>11, Spending DEF AgentWritesFiles, Goto, AggTypeOK, Places
<1>12. CASE AgentWritesNothing
  <2>1. MoneyTypeOK'
    BY <1>12, Spending DEF AgentWritesNothing
  <2>2. QED
    BY <1>12, <2>1 DEF AgentWritesNothing, StallAndReturn, RecordStall,
      CheckStalled, AggTypeOK, Places, Statuses, Outcomes
<1>13. CASE Build
  BY <1>13 DEF Build, Goto, StallAndReturn, RecordStall, CheckStalled, MoneyTypeOK,
    AggTypeOK, Places, Statuses, Outcomes
<1>14. CASE StartSession
  <2>1. FlagsTypeOK'
    <3>1. CASE sessionRunning' = TRUE /\ sessionSet' = TRUE /\ UNCHANGED <<searchVars, lastVars>>
      BY <1>14, <3>1, Zenon DEF StartSession
    <3>2. CASE UNCHANGED sessionVars /\ RecordStall("run_fail")
      BY <1>14, <3>2, Zenon DEF StartSession, RecordStall
    <3>3. QED
      BY <1>14, <3>1, <3>2 DEF StartSession, StallAndReturn
  <2>2. QED
    BY <1>14, <2>1 DEF StartSession, Goto, StallAndReturn, RecordStall, CheckStalled,
      MoneyTypeOK, AggTypeOK, Places, Statuses, Outcomes
<1>15. CASE NoService
  BY <1>15 DEF NoService, Goto, MoneyTypeOK, AggTypeOK, Places
<1>16. CASE ServiceStarts
  BY <1>16 DEF ServiceStarts, RunContainer, Goto, MoneyTypeOK, AggTypeOK, Places
<1>17. CASE ServiceFails
  BY <1>17 DEF ServiceFails, RecordStall, CheckStalled, MoneyTypeOK, AggTypeOK,
    Places, Statuses, Outcomes
<1>18. CASE ServiceHealthy
  <2>1. FlagsTypeOK'
    BY <1>18, Zenon DEF ServiceHealthy
  <2>2. QED
    BY <1>18, <2>1 DEF ServiceHealthy, Goto, MoneyTypeOK, AggTypeOK, Places
<1>19. CASE HTTPUnhealthy
  BY <1>19 DEF HTTPUnhealthy, RecordStall, CheckStalled, MoneyTypeOK, AggTypeOK,
    Places, Statuses, Outcomes
<1>20. CASE GRPCUnhealthy
  BY <1>20 DEF GRPCUnhealthy, RecordStall, CheckStalled, MoneyTypeOK, AggTypeOK,
    Places, Statuses, Outcomes
<1>21. CASE RunTestCommand
  BY <1>21 DEF RunTestCommand, Goto, HardError, StallAndReturn, RecordStall,
    CheckStalled, MoneyTypeOK, AggTypeOK, Places, Statuses, Outcomes
<1>22. CASE ScoreScenario
  <2>1. AggTypeOK'
    <3>1. PICK s \in Unscored, x \in PossibleScores :
            agg' = [scores |-> [t \in DOMAIN agg.scores \cup {s} |->
                                  IF t = s THEN x ELSE agg.scores[t]],
                    weightedSum |-> agg.weightedSum + x * Weight[s],
                    totalWeight |-> agg.totalWeight + Weight[s]]
      BY <1>22 DEF ScoreScenario
    <3>2. s \in Scenarios /\ Weight[s] \in Nat
      BY ConstantsAssumption DEF Unscored, Active
    <3>3. x \in Nat
      BY ConstantsAssumption DEF PossibleScores
    <3>4. x * Weight[s] \in Nat
      BY <3>2, <3>3
    <3>5. IsScores(agg'.scores)
      BY <3>1, <3>2, <3>3 DEF AggTypeOK, IsScores
    <3>6. agg'.weightedSum \in Nat /\ agg'.totalWeight \in Nat
      BY <3>1, <3>2, <3>4 DEF AggTypeOK
    <3>7. QED
      BY <3>1, <3>5, <3>6 DEF AggTypeOK
  <2>2. QED
    BY <1>22, <2>1 DEF ScoreScenario, Goto, MoneyTypeOK, Places
<1>23. CASE ScenarioError
  BY <1>23 DEF ScenarioError, HardError, MoneyTypeOK, AggTypeOK, Places, Statuses
<1>24. CASE Restart
  BY <1>24 DEF Restart, Goto, HardError, MoneyTypeOK, AggTypeOK, Places, Statuses
<1>25. CASE RestartHealth
  BY <1>25 DEF RestartHealth, Goto, HardError, MoneyTypeOK, AggTypeOK, Places, Statuses
<1>26. CASE ValidateReturns
  BY <1>26, Spending DEF ValidateReturns, Goto, AggTypeOK, Places
<1>27. CASE Converge
  BY <1>27, SatisfactionNat DEF Converge, RecordScores, MoneyTypeOK, AggTypeOK,
    Places, Statuses, Outcomes
<1>28. CASE Improve
  <2>1. streaks' \in [Scenarios -> 0..2]
    BY <1>28 DEF Improve, RecordFeedback, Least
  <2>2. FlagsTypeOK'
    BY <1>28, Zenon DEF Improve
  <2>3. result' \in Statuses
    BY <1>28 DEF Improve, EndValidated, Statuses
  <2>4. IsScores(scenarioScores')
    BY <1>28 DEF Improve, RecordScores, AggTypeOK
  <2>5. QED
    BY <1>28, <2>1, <2>2, <2>3, <2>4, SatisfactionNat
    DEF Improve, EndValidated, RecordScores, MoneyTypeOK, AggTypeOK, Places, Outcomes
<1>29. CASE NotBetter
  <2>1. streaks' \in [Scenarios -> 0..2]
    BY <1>29 DEF NotBetter, RecordFeedback, Least
  <2>2. patchRegressionCount' \in Nat
    BY <1>29 DEF NotBetter, TrackPatchRegression
  <2>3. FlagsTypeOK'
    <3>1. patchActive' \in BOOLEAN
      BY <1>29, Zenon DEF NotBetter, TrackPatchRegression
    <3>2. QED
      BY <1>29, <3>1 DEF NotBetter
  <2>4. result' \in Statuses
    BY <1>29 DEF NotBetter, EndValidated, Statuses
  <2>5. IsScores(scenarioScores')
    BY <1>29 DEF NotBetter, RecordScores, AggTypeOK
  <2>6. QED
    BY <1>29, <2>1, <2>2, <2>3, <2>4, <2>5, SatisfactionNat
    DEF NotBetter, EndValidated, RecordScores, MoneyTypeOK, AggTypeOK, Places, Outcomes
<1>30. CASE WriteBestFails
  <2>1. FlagsTypeOK'
    BY <1>30, Zenon DEF WriteBestFails
  <2>2. IsScores(scenarioScores')
    BY <1>30 DEF WriteBestFails, RecordScores, AggTypeOK
  <2>3. QED
    BY <1>30, <2>1, <2>2, SatisfactionNat
    DEF WriteBestFails, HardError, RecordScores, MoneyTypeOK, AggTypeOK, Places,
      Statuses, Outcomes
<1>31. CASE Cleanup
  <2>1. FlagsTypeOK'
    BY <1>31, Zenon DEF Cleanup
  <2>2. AggTypeOK'
    BY <1>31 DEF Cleanup, AggTypeOK, NoAgg, NoScores, IsScores
  <2>3. QED
    BY <1>31, <2>1, <2>2 DEF Cleanup, Goto, MoneyTypeOK, Places
<1>32. CASE AdvanceTier
  <2>1. FlagsTypeOK'
    <3>1. opts.PatchMode \in BOOLEAN
      BY OptionsTyped
    <3>2. QED
      BY <1>32, <3>1, Zenon DEF AdvanceTier
  <2>2. escalation' \in [tier : {"frugal", "primary"}, failures : Nat, improves : Nat]
    BY <1>32 DEF AdvanceTier, NewEscalation
  <2>3. IsScores(scenarioScores')
    BY <1>32 DEF AdvanceTier, NoScores, IsScores
  <2>4. activeTier' \in 0..MaxTier
    BY <1>32 DEF AdvanceTier, MayAdvance, MaxTier
  <2>5. QED
    BY <1>32, <2>1, <2>2, <2>3, <2>4
    DEF AdvanceTier, MoneyTypeOK, AggTypeOK, Places, Statuses, Outcomes
<1>33. CASE FinishIteration
  <2>1. escalation' \in [tier : {"frugal", "primary"}, failures : Nat, improves : Nat]
    BY <1>33 DEF FinishIteration, RecordOutcome, NewEscalation
  <2>2. QED
    BY <1>33, <2>1 DEF FinishIteration, Goto, MoneyTypeOK, AggTypeOK, Places
<1>34. CASE UNCHANGED vars
  BY <1>34 DEF vars, MoneyTypeOK, AggTypeOK
<1>35. QED
  BY <1>1, <1>2, <1>3, <1>4, <1>5, <1>6, <1>7, <1>8, <1>9, <1>10, <1>11, <1>12,
    <1>13, <1>14, <1>15, <1>16, <1>17, <1>18, <1>19, <1>20, <1>21, <1>22, <1>23,
    <1>24, <1>25, <1>26, <1>27, <1>28, <1>29, <1>30, <1>31, <1>32, <1>33, <1>34
  DEF Next, LoopHead, GenerateFiles, StartContainers, Validate, ProcessValidation,
    EndIteration, Terminating

(***************************************************************************)
(* Type correctness: every variable holds a value of its kind in every     *)
(* reachable state of every instance (runState, attractor.go).             *)
(***************************************************************************)
THEOREM TypeCorrect == Spec => []TypeOK
BY TypeInit, TypeStep, PTL DEF Spec

-----------------------------------------------------------------------------
(* Stalls.                                                                 *)

\* A result is decided in the last phase of an iteration, and below the limit
\* as long as there is none.
StallInv ==
  /\ pc \notin {"cleanup", "report", "done"} => result = "none"
  /\ result = "none" => stallCount < opts.StallLimit
  /\ result = "stalled" => stallCount = opts.StallLimit
  /\ stallCount <= opts.StallLimit

\* The options never change: RunOptions is passed by value.
LEMMA OptionsConstant == [Next]_vars => opts' = opts
<1> SUFFICES ASSUME [Next]_vars PROVE opts' = opts
  OBVIOUS
<1>1. CASE LoopHead
  BY <1>1 DEF LoopHead, MaxIterationsReached, BudgetStop, StartIteration
<1>2. CASE GenerateFiles
  BY <1>2 DEF GenerateFiles, Triage, Wonder, Reflect, Generate, GenerationError,
    ParseFails, WriteFiles, AgentWritesFiles, AgentWritesNothing
<1>3. CASE StartContainers
  BY <1>3 DEF StartContainers, Build, StartSession, NoService, ServiceStarts,
    ServiceFails, ServiceHealthy, HTTPUnhealthy, GRPCUnhealthy, RunTestCommand
<1>4. CASE Validate
  BY <1>4 DEF Validate, ScoreScenario, ScenarioError, Restart, RestartHealth,
    ValidateReturns
<1>5. CASE ProcessValidation
  BY <1>5 DEF ProcessValidation, Converge, Improve, NotBetter, WriteBestFails
<1>6. CASE EndIteration
  BY <1>6 DEF EndIteration, Cleanup, AdvanceTier, FinishIteration
<1>7. CASE UNCHANGED vars
  BY <1>7 DEF vars
<1>8. QED
  BY <1>1, <1>2, <1>3, <1>4, <1>5, <1>6, <1>7 DEF Next, Terminating

\* A new run has no stall and no result (newRunState).
LEMMA StallInit == Init => StallInv
BY OptionsTyped DEF Init, StallInv

\* Every phase counts a stall once and looks at the limit before the next
\* one can (recordStall, checkStalled, processValidation).
LEMMA StallStep == TypeOK /\ StallInv /\ [Next]_vars => StallInv'
<1> SUFFICES ASSUME TypeOK, StallInv, [Next]_vars PROVE StallInv'
  OBVIOUS
<1> USE DEF StallInv, searchVars
<1>0. /\ opts' = opts /\ opts \in Options
      /\ stallCount \in Nat /\ opts.StallLimit \in Nat \ {0}
  BY OptionsConstant, OptionsTyped DEF TypeOK, LoopTypeOK, SearchTypeOK
<1>1. CASE LoopHead
  BY <1>0, <1>1 DEF LoopHead, MaxIterationsReached, BudgetStop, StartIteration
<1>2. CASE GenerateFiles
  BY <1>0, <1>2 DEF GenerateFiles, Triage, Wonder, Reflect, Generate, GenerationError,
    ParseFails, WriteFiles, AgentWritesFiles, AgentWritesNothing, Goto, HardError,
    StallAndReturn, RecordStall, CheckStalled
<1>3. CASE StartContainers
  BY <1>0, <1>3 DEF StartContainers, Build, StartSession, NoService, ServiceStarts,
    ServiceFails, ServiceHealthy, HTTPUnhealthy, GRPCUnhealthy, RunTestCommand, Goto,
    HardError, StallAndReturn, RecordStall, CheckStalled
<1>4. CASE Validate
  BY <1>0, <1>4 DEF Validate, ScoreScenario, ScenarioError, Restart, RestartHealth,
    ValidateReturns, Goto, HardError
<1>5. CASE ProcessValidation
  BY <1>0, <1>5 DEF ProcessValidation, Converge, Improve, NotBetter, WriteBestFails,
    EndValidated, HardError
<1>6. CASE EndIteration
  BY <1>0, <1>6 DEF EndIteration, Cleanup, AdvanceTier, FinishIteration, Goto
<1>7. CASE UNCHANGED vars
  BY <1>7 DEF vars, loopVars
<1>8. QED
  BY <1>1, <1>2, <1>3, <1>4, <1>5, <1>6, <1>7 DEF Next, Terminating

(***************************************************************************)
(* No iteration starts at the stall limit, and a run is reported stalled   *)
(* exactly at it (checkStalled, processValidation).                        *)
(***************************************************************************)
THEOREM StallLimit == Spec => []StallLimitStops
<1>1. StallInv => StallLimitStops
  BY DEF StallInv, StallLimitStops
<1>2. QED
  BY <1>1, StallInit, StallStep, TypeCorrect, PTL DEF Spec

-----------------------------------------------------------------------------
(* Containers.                                                             *)

BeforeContainers ==
  {"loop", "triage", "wonder", "reflect", "generate", "parse", "agent", "build", "session"}

\* Where in the iteration which handle is set: a container is started and
\* stopped together with the reference its stop goes through, and only the
\* HTTP path, which sets no gRPC target, restarts.
ContainersInv ==
  /\ services = IF currentStop = 0 THEN {} ELSE {currentStop}
  /\ sessionSet <=> sessionRunning
  /\ pc \in BeforeContainers \cup {"report", "done"} => ~sessionRunning
  /\ pc \in BeforeContainers \cup {"service", "report", "done"} =>
       currentStop = 0 /\ url = 0 /\ grpcTarget = 0
  /\ pc \in {"health", "rehealth"} => currentStop = started
  /\ pc = "health" => url = 0 /\ grpcTarget = 0
  /\ pc \in {"test", "validate", "process"} =>
       url \in {0, currentStop} /\ grpcTarget \in {0, currentStop}
  /\ pc \in {"restart", "rehealth"} => Route = "http"
  /\ Route = "http" => grpcTarget = 0

\* A new run has started no container.
LEMMA ContainersInit == Init => ContainersInv
BY DEF Init, ContainersInv, BeforeContainers

\* The service container's route depends on the options alone.
LEMMA RouteConstant == opts' = opts => Route' = Route
BY DEF Route

\* Every phase hands on the container it started, or stops it
\* (buildRunValidate, startServiceContainer).
LEMMA ContainersStep == TypeOK /\ ContainersInv /\ [Next]_vars => ContainersInv'
<1> SUFFICES ASSUME TypeOK, ContainersInv, [Next]_vars PROVE ContainersInv'
  OBVIOUS
<1> USE DEF ContainersInv, BeforeContainers, sessionVars, serviceVars
<1>0. /\ Route' = Route
      /\ started \in Nat /\ currentStop \in Nat
      /\ sessionRunning \in BOOLEAN /\ sessionSet \in BOOLEAN
  BY RouteConstant, OptionsConstant DEF TypeOK, ContainerTypeOK, FlagsTypeOK
<1>1. CASE LoopHead
  BY <1>0, <1>1 DEF LoopHead, MaxIterationsReached, BudgetStop, StartIteration
<1>2. CASE GenerateFiles
  BY <1>0, <1>2 DEF GenerateFiles, Triage, Wonder, Reflect, Generate, GenerationError,
    ParseFails, WriteFiles, AgentWritesFiles, AgentWritesNothing, Goto, HardError,
    StallAndReturn, CheckStalled
<1>3. CASE StartContainers
  <2>1. CASE Build
    BY <1>0, <2>1 DEF Build, Goto, StallAndReturn, CheckStalled
  <2>2. CASE StartSession
    BY <1>0, <2>2 DEF StartSession, Goto, StallAndReturn, CheckStalled
  <2>3. CASE NoService
    BY <1>0, <2>3 DEF NoService, Goto
  <2>4. CASE ServiceStarts
    BY <1>0, <2>4 DEF ServiceStarts, RunContainer, Goto
  <2>5. CASE ServiceFails
    BY <1>0, <2>5 DEF ServiceFails, CheckStalled
  <2>6. CASE ServiceHealthy
    BY <1>0, <2>6 DEF ServiceHealthy, Goto
  <2>7. CASE HTTPUnhealthy
    BY <1>0, <2>7 DEF HTTPUnhealthy, CheckStalled
  <2>8. CASE GRPCUnhealthy
    BY <1>0, <2>8 DEF GRPCUnhealthy, CheckStalled
  <2>9. CASE RunTestCommand
    BY <1>0, <2>9 DEF RunTestCommand, Goto, HardError, StallAndReturn, CheckStalled
  <2>10. QED
    BY <1>3, <2>1, <2>2, <2>3, <2>4, <2>5, <2>6, <2>7, <2>8, <2>9 DEF StartContainers
<1>4. CASE Validate
  <2>1. CASE ScoreScenario
    BY <1>0, <2>1 DEF ScoreScenario, HasRestart, Goto
  <2>2. CASE ScenarioError
    BY <1>0, <2>2 DEF ScenarioError, HardError
  <2>3. CASE Restart
    BY <1>0, <2>3 DEF Restart, Goto, HardError
  <2>4. CASE RestartHealth
    BY <1>0, <2>4 DEF RestartHealth, Goto, HardError
  <2>5. CASE ValidateReturns
    BY <1>0, <2>5 DEF ValidateReturns, Goto
  <2>6. QED
    BY <1>4, <2>1, <2>2, <2>3, <2>4, <2>5 DEF Validate
<1>5. CASE ProcessValidation
  BY <1>0, <1>5 DEF ProcessValidation, Converge, Improve, NotBetter, WriteBestFails,
    EndValidated, HardError
<1>6. CASE EndIteration
  BY <1>0, <1>6 DEF EndIteration, Cleanup, AdvanceTier, FinishIteration, Goto
<1>7. CASE UNCHANGED vars
  BY <1>0, <1>7 DEF vars, loopVars
<1>8. QED
  BY <1>1, <1>2, <1>3, <1>4, <1>5, <1>6, <1>7 DEF Next, Terminating

\* The container invariant holds throughout a run.
LEMMA ContainersAlways == Spec => []ContainersInv
BY ContainersInit, ContainersStep, TypeCorrect, PTL DEF Spec

(***************************************************************************)
(* Whatever failed in an iteration, between iterations and after the run no*)
(* container runs and the CLI holds no handle (buildRunValidate's defers); *)
(* what validate and the test command are handed is the one container that *)
(* runs (startServiceContainer, restartFn, sessionProvider).               *)
(***************************************************************************)
THEOREM Owned == Spec => []ResourcesOwned
<1>1. ContainersInv => ResourcesReleased
  <2>1. ContainersInv /\ pc \in {"loop", "report", "done"} =>
          ~sessionRunning /\ currentStop = 0 /\ url = 0 /\ grpcTarget = 0
    BY DEF ContainersInv, BeforeContainers
  <2>2. ContainersInv => (sessionSet <=> sessionRunning)
    BY DEF ContainersInv
  <2>3. ContainersInv /\ currentStop = 0 => services = {}
    BY DEF ContainersInv
  <2>4. QED
    BY <2>1, <2>2, <2>3, Zenon DEF ResourcesReleased
<1>2. ContainersInv => HandlesUsable
  BY DEF ContainersInv, HandlesUsable
<1>3. TypeOK /\ ContainersInv => ResourcesOwned
  BY <1>1, <1>2 DEF ResourcesOwned
<1>4. QED
  BY <1>3, TypeCorrect, ContainersAlways, PTL

-----------------------------------------------------------------------------
(* What the results mean.                                                  *)

\* A status is only given where it is true, and below the threshold there is
\* a best satisfaction unless convergence was refused for a regression.
ResultInv ==
  /\ pc \notin {"loop", "done"} => iter >= 1
  /\ pc = "done" => result # "none"
  /\ result \in {"stalled", "error"} => iter >= 1
  /\ result = "max_iterations" => iter = opts.MaxIterations
  /\ result = "budget_exceeded" => opts.BudgetUSD > 0
  /\ result = "converged" =>
       /\ lastOutcome = "validated"
       /\ bestSatisfaction = lastSatisfaction /\ lastSatisfaction >= opts.Threshold
       /\ bestFiles = iter /\ bestDir = iter /\ iter >= 1
       /\ pc = "done" => activeTier \in {0, MaxTier}
  /\ ~opts.BlockOnRegression /\ result # "converged" => bestSatisfaction < opts.Threshold

\* A new run has not converged.
LEMMA ResultInit == Init => ResultInv
BY OptionsTyped DEF Init, ResultInv

\* Only a validation at the threshold converges, and what follows it keeps
\* what it found or climbs a tier (processValidation, advanceTierIfNeeded).
LEMMA ResultStep == TypeOK /\ StallInv /\ ResultInv /\ [Next]_vars => ResultInv'
<1> SUFFICES ASSUME TypeOK, StallInv, ResultInv, [Next]_vars PROVE ResultInv'
  OBVIOUS
<1> USE DEF ResultInv, searchVars, lastVars
<1>0. /\ opts' = opts /\ opts.Threshold \in Nat \ {0} /\ opts.MaxIterations \in Nat \ {0}
      /\ iter \in Nat /\ bestSatisfaction \in Nat /\ activeTier \in 0..MaxTier
      /\ pc \notin {"cleanup", "report", "done"} => result = "none"
  BY OptionsConstant, OptionsTyped DEF TypeOK, LoopTypeOK, SearchTypeOK, StallInv
<1>1. CASE LoopHead
  BY <1>0, <1>1 DEF LoopHead, MaxIterationsReached, BudgetStop, StartIteration,
    BudgetExceeded, Exhausts
<1>2. CASE GenerateFiles
  BY <1>0, <1>2 DEF GenerateFiles, Triage, Wonder, Reflect, Generate, GenerationError,
    ParseFails, WriteFiles, AgentWritesFiles, AgentWritesNothing, Goto, HardError,
    StallAndReturn, RecordStall, CheckStalled
<1>3. CASE StartContainers
  BY <1>0, <1>3 DEF StartContainers, Build, StartSession, NoService, ServiceStarts,
    ServiceFails, ServiceHealthy, HTTPUnhealthy, GRPCUnhealthy, RunTestCommand, Goto,
    HardError, StallAndReturn, RecordStall, CheckStalled
<1>4. CASE Validate
  BY <1>0, <1>4 DEF Validate, ScoreScenario, ScenarioError, Restart, RestartHealth,
    ValidateReturns, Goto, HardError
<1>5. CASE ProcessValidation
  <2>0. Satisfaction \in Nat
    BY SatisfactionNat DEF TypeOK
  <2>1. CASE Converge
    BY <1>0, <2>0, <2>1 DEF Converge, RecordScores, Converges
  <2>2. CASE Improve
    BY <1>0, <2>0, <2>2 DEF Improve, RecordScores, Converges, EndValidated,
      BudgetExceeded, Exhausts
  <2>3. CASE NotBetter
    BY <1>0, <2>0, <2>3 DEF NotBetter, RecordScores, EndValidated, BudgetExceeded, Exhausts
  <2>4. CASE WriteBestFails
    BY <1>0, <2>0, <2>4 DEF WriteBestFails, RecordScores, Converges, HardError
  <2>5. QED
    BY <1>5, <2>1, <2>2, <2>3, <2>4 DEF ProcessValidation
<1>6. CASE EndIteration
  BY <1>0, <1>6 DEF EndIteration, Cleanup, AdvanceTier, FinishIteration, Goto, MayAdvance,
    MaxTier
<1>7. CASE UNCHANGED vars
  BY <1>7 DEF vars, loopVars
<1>8. QED
  BY <1>1, <1>2, <1>3, <1>4, <1>5, <1>6, <1>7 DEF Next, Terminating

\* The three invariants that the action properties need, together.
LEMMA ResultsAlways == Spec => [](TypeOK /\ StallInv /\ ResultInv)
BY TypeInit, TypeStep, StallInit, StallStep, ResultInit, ResultStep, PTL DEF Spec

(***************************************************************************)
(* A converged run reached the threshold on the last tier, and keeps the   *)
(* files of that iteration (processValidation, advanceTierIfNeeded).       *)
(***************************************************************************)
THEOREM Converged == Spec => []ConvergedMeans
<1>1. ResultInv => ConvergedMeans
  BY DEF ResultInv, ConvergedMeans
<1>2. QED
  BY <1>1, ResultsAlways, PTL

(***************************************************************************)
(* Within a tier the best satisfaction never falls, but to an iteration    *)
(* that converges below a best refused for a regression                    *)
(* (processValidation).                                                    *)
(***************************************************************************)
THEOREM BestRises == Spec => BestNeverDrops
<1> DEFINE Drop == bestSatisfaction' < bestSatisfaction =>
                     \/ activeTier' = activeTier + 1
                     \/ opts.BlockOnRegression /\ result' = "converged"
<1>1. TypeOK /\ StallInv /\ ResultInv /\ [Next]_vars => [Drop]_vars
  <2> SUFFICES ASSUME TypeOK, StallInv, ResultInv, Next PROVE Drop
    BY DEF vars
  <2> USE DEF searchVars
  <2>0. /\ bestSatisfaction \in Nat /\ opts.Threshold \in Nat
        /\ pc = "process" => result = "none"
    BY OptionsTyped DEF TypeOK, LoopTypeOK, SearchTypeOK, StallInv
  <2>1. CASE LoopHead
    BY <2>0, <2>1 DEF LoopHead, MaxIterationsReached, BudgetStop, StartIteration
  <2>2. CASE GenerateFiles
    BY <2>0, <2>2 DEF GenerateFiles, Triage, Wonder, Reflect, Generate, GenerationError,
      ParseFails, WriteFiles, AgentWritesFiles, AgentWritesNothing, StallAndReturn,
      RecordStall
  <2>3. CASE StartContainers
    BY <2>0, <2>3 DEF StartContainers, Build, StartSession, NoService, ServiceStarts,
      ServiceFails, ServiceHealthy, HTTPUnhealthy, GRPCUnhealthy, RunTestCommand,
      StallAndReturn, RecordStall
  <2>4. CASE Validate
    BY <2>0, <2>4 DEF Validate, ScoreScenario, ScenarioError, Restart, RestartHealth,
      ValidateReturns
  <2>5. CASE ProcessValidation
    <3>0. Satisfaction \in Nat
      BY SatisfactionNat DEF TypeOK
    <3>1. CASE Converge
      BY <2>0, <3>0, <3>1 DEF Converge, Converges, ResultInv
    <3>2. CASE Improve
      BY <2>0, <3>0, <3>2 DEF Improve
    <3>3. CASE NotBetter
      BY <2>0, <3>3 DEF NotBetter
    <3>4. CASE WriteBestFails
      BY <2>0, <3>0, <3>4 DEF WriteBestFails
    <3>5. QED
      BY <2>5, <3>1, <3>2, <3>3, <3>4 DEF ProcessValidation
  <2>6. CASE EndIteration
    BY <2>0, <2>6 DEF EndIteration, Cleanup, AdvanceTier, FinishIteration
  <2>7. CASE Terminating
    BY <2>0, <2>7 DEF Terminating, vars
  <2>8. QED
    BY <2>1, <2>2, <2>3, <2>4, <2>5, <2>6, <2>7 DEF Next
<1>2. QED
  BY <1>1, ResultsAlways, PTL DEF Spec, BestNeverDrops

-----------------------------------------------------------------------------
(* The contract.                                                           *)

\* Each step of the loop is a step of the contract or changes nothing in it.
LEMMA ContractStep ==
  TypeOK /\ StallInv /\ ResultInv /\ [Next]_vars => [Contract!Next]_(Contract!vars)
<1> SUFFICES ASSUME TypeOK, StallInv, ResultInv, [Next]_vars
             PROVE  [Contract!Next]_(Contract!vars)
  OBVIOUS
<1> USE DEF Contract!vars, searchVars
<1>0. /\ opts' = opts /\ opts.Threshold \in Nat \ {0}
      /\ iter \in 0..opts.MaxIterations /\ opts.MaxIterations \in Nat \ {0}
      /\ bestSatisfaction \in Nat /\ activeTier \in 0..MaxTier
      /\ pc \notin {"cleanup", "report", "done"} => result = "none"
      /\ pc \notin {"loop", "done"} => iter >= 1
  BY OptionsConstant, OptionsTyped
  DEF TypeOK, LoopTypeOK, SearchTypeOK, StallInv, ResultInv
<1>1. CASE LoopHead
  <2>1. CASE MaxIterationsReached
    <3>1. Contract!Finish
      BY <1>0, <2>1 DEF MaxIterationsReached, Contract!Finish, Contract!Finishes,
        Contract!Running
    <3>2. QED
      BY <3>1 DEF Contract!Next
  <2>2. CASE BudgetStop
    <3>1. Contract!Finish
      BY <1>0, <2>2 DEF BudgetStop, BudgetExceeded, Exhausts, Contract!Finish,
        Contract!Finishes, Contract!Running
    <3>2. QED
      BY <3>1 DEF Contract!Next
  <2>3. CASE StartIteration
    <3>1. Contract!Attempt
      BY <1>0, <2>3 DEF StartIteration, Contract!Attempt, Contract!Running
    <3>2. QED
      BY <3>1 DEF Contract!Next
  <2>4. QED
    BY <1>1, <2>1, <2>2, <2>3 DEF LoopHead
<1>2. CASE GenerateFiles
  BY <1>0, <1>2 DEF GenerateFiles, Triage, Wonder, Reflect, Generate, GenerationError,
    ParseFails, WriteFiles, AgentWritesFiles, AgentWritesNothing, Goto, HardError,
    StallAndReturn, RecordStall, CheckStalled
<1>3. CASE StartContainers
  BY <1>0, <1>3 DEF StartContainers, Build, StartSession, NoService, ServiceStarts,
    ServiceFails, ServiceHealthy, HTTPUnhealthy, GRPCUnhealthy, RunTestCommand, Goto,
    HardError, StallAndReturn, RecordStall, CheckStalled
<1>4. CASE Validate
  BY <1>0, <1>4 DEF Validate, ScoreScenario, ScenarioError, Restart, RestartHealth,
    ValidateReturns, Goto, HardError
<1>5. CASE ProcessValidation
  <2>0. Satisfaction \in Nat
    BY SatisfactionNat DEF TypeOK
  <2>1. CASE Converge
    <3>1. Contract!Reach
      BY <1>0, <2>0, <2>1 DEF Converge, Converges, ResultInv, Contract!Reach,
        Contract!Running
    <3>2. QED
      BY <3>1 DEF Contract!Next
  <2>2. CASE Improve
    <3>1. Contract!Improve
      BY <1>0, <2>0, <2>2 DEF Improve, EndValidated, Contract!Improve, Contract!Running
    <3>2. QED
      BY <3>1 DEF Contract!Next
  <2>3. CASE NotBetter
    BY <1>0, <2>3 DEF NotBetter, EndValidated
  <2>4. CASE WriteBestFails
    <3>1. CASE Converges
      BY <1>0, <2>4, <3>1 DEF WriteBestFails, HardError
    <3>2. CASE ~Converges
      <4>1. Contract!Improve
        BY <1>0, <2>0, <2>4, <3>2 DEF WriteBestFails, HardError, Contract!Improve,
          Contract!Running
      <4>2. QED
        BY <4>1 DEF Contract!Next
    <3>3. QED
      BY <3>1, <3>2
  <2>5. QED
    BY <1>5, <2>1, <2>2, <2>3, <2>4 DEF ProcessValidation
<1>6. CASE EndIteration
  <2>1. CASE Cleanup
    <3>1. CASE result = "error"
      <4>1. Contract!Finish
        BY <1>0, <2>1, <3>1 DEF Cleanup, Goto, Contract!Finish, Contract!Finishes,
          Contract!Running
      <4>2. QED
        BY <4>1 DEF Contract!Next
    <3>2. CASE result # "error"
      BY <1>0, <2>1, <3>2 DEF Cleanup, Goto
    <3>3. QED
      BY <3>1, <3>2
  <2>2. CASE AdvanceTier
    <3>1. Contract!AdvanceTier
      BY <1>0, <2>2 DEF AdvanceTier, MayAdvance, MaxTier, ResultInv, Contract!AdvanceTier,
        Contract!Running
    <3>2. QED
      BY <3>1 DEF Contract!Next
  <2>3. CASE FinishIteration
    <3>1. CASE result = "none"
      BY <1>0, <2>3, <3>1 DEF FinishIteration, Goto
    <3>2. CASE result # "none"
      <4>1. Contract!Finishes(result)
        BY <1>0, <2>3, <3>2 DEF FinishIteration, MayAdvance, MaxTier, ResultInv, TypeOK,
          LoopTypeOK, Statuses, Contract!Finishes
      <4>2. Contract!Finish
        BY <1>0, <2>3, <3>2, <4>1 DEF FinishIteration, Goto, TypeOK, LoopTypeOK,
          Statuses, Contract!Finish, Contract!Running
      <4>3. QED
        BY <4>2 DEF Contract!Next
    <3>3. QED
      BY <3>1, <3>2
  <2>4. QED
    BY <1>6, <2>1, <2>2, <2>3 DEF EndIteration
<1>7. CASE UNCHANGED vars
  BY <1>7 DEF vars, loopVars
<1>8. QED
  BY <1>1, <1>2, <1>3, <1>4, <1>5, <1>6, <1>7 DEF Next, Terminating

(***************************************************************************)
(* Whatever the LLM, Docker and the judge answer, a run is a run of        *)
(* RunContract (Attractor.Run and the RunResult it returns).               *)
(***************************************************************************)
THEOREM Implements == Spec => ImplementsContract
<1>1. Init => Contract!Init
  BY DEF Init, Contract!Init
<1>2. QED
  BY <1>1, ContractStep, ResultsAlways, PTL DEF Spec, ImplementsContract, Contract!Spec

-----------------------------------------------------------------------------
(* Money.                                                                  *)

\* How many phases may have been paid with the budget spent, by place: the
\* head of the loop lets an iteration begin, and wonderReflect lets the reflect
\* call begin, only with money left.
OverspendInv ==
  /\ pc = "loop" => BudgetExceeded \/ overspend = 0
  /\ pc \in {"triage", "agent", "reflect"} => ~BudgetExceeded
  /\ pc \in {"triage", "agent", "wonder", "reflect"} => overspend = 0
  /\ pc = "generate" => overspend <= 1
  /\ pc \in {"parse", "build", "session", "service", "health", "test", "validate",
             "restart", "rehealth"} => overspend <= 2
  /\ overspend <= 3
  /\ BudgetExceeded \/ overspend = 0

\* A new run has paid for no phase over its budget.
LEMMA OverspendInit == Init => OverspendInv
BY DEF Init, OverspendInv

\* Each phase adds at most one payment over the budget (budgetExceeded).
LEMMA OverspendStep == TypeOK /\ OverspendInv /\ [Next]_vars => OverspendInv'
<1> SUFFICES ASSUME TypeOK, OverspendInv, [Next]_vars PROVE OverspendInv'
  OBVIOUS
<1> USE DEF OverspendInv, BudgetExceeded, Exhausts, moneyVars
<1>0. /\ opts' = opts /\ opts.BudgetUSD \in Nat
      /\ totalCost \in Nat /\ overspend \in Nat /\ totalCost <= opts.BudgetUSD
  BY OptionsConstant, OptionsTyped DEF TypeOK, LoopTypeOK, MoneyTypeOK, OverspendCap
<1>00. ASSUME NEW c \in Costs \cup {0}, Spend(c)
       PROVE  /\ IF BudgetExceeded THEN overspend' <= overspend + 1 ELSE overspend' = overspend
              /\ BudgetExceeded => BudgetExceeded'
              /\ overspend' \in Nat
  <2>1. c \in Nat
    BY ConstantsAssumption
  <2>2. QED
    BY <1>0, <1>00, <2>1 DEF Spend, Least, OverspendCap
<1>1. CASE LoopHead
  BY <1>0, <1>1 DEF LoopHead, MaxIterationsReached, BudgetStop, StartIteration
<1>2. CASE GenerateFiles
  <2>1. CASE Triage
    BY <1>0, <1>00, <2>1 DEF Triage, Goto
  <2>2. CASE Wonder
    BY <1>0, <1>00, <2>2 DEF Wonder, Goto
  <2>3. CASE Reflect
    BY <1>0, <1>00, <2>3 DEF Reflect, Goto
  <2>4. CASE Generate
    BY <1>0, <1>00, <2>4 DEF Generate, Goto
  <2>5. CASE GenerationError \/ ParseFails \/ WriteFiles
    BY <1>0, <2>5 DEF GenerationError, ParseFails, WriteFiles, Goto, HardError,
      StallAndReturn, CheckStalled
  <2>6. CASE AgentWritesFiles
    BY <1>0, <1>00, <2>6 DEF AgentWritesFiles, Goto
  <2>7. CASE AgentWritesNothing
    BY <1>0, <1>00, <2>7 DEF AgentWritesNothing, StallAndReturn, CheckStalled
  <2>8. QED
    BY <1>2, <2>1, <2>2, <2>3, <2>4, <2>5, <2>6, <2>7 DEF GenerateFiles
<1>3. CASE StartContainers
  BY <1>0, <1>3 DEF StartContainers, Build, StartSession, NoService, ServiceStarts,
    ServiceFails, ServiceHealthy, HTTPUnhealthy, GRPCUnhealthy, RunTestCommand, Goto,
    HardError, StallAndReturn, CheckStalled
<1>4. CASE Validate
  <2>1. CASE ValidateReturns
    BY <1>0, <1>00, <2>1 DEF ValidateReturns, Goto
  <2>2. CASE ScoreScenario \/ ScenarioError \/ Restart \/ RestartHealth
    BY <1>0, <2>2 DEF ScoreScenario, ScenarioError, Restart, RestartHealth, Goto, HardError
  <2>3. QED
    BY <1>4, <2>1, <2>2 DEF Validate
<1>5. CASE ProcessValidation
  BY <1>0, <1>5 DEF ProcessValidation, Converge, Improve, NotBetter, WriteBestFails,
    EndValidated, HardError
<1>6. CASE EndIteration
  BY <1>0, <1>6 DEF EndIteration, Cleanup, AdvanceTier, FinishIteration, Goto
<1>7. CASE UNCHANGED vars
  BY <1>0, <1>7 DEF vars, loopVars
<1>8. QED
  BY <1>1, <1>2, <1>3, <1>4, <1>5, <1>6, <1>7 DEF Next, Terminating

(***************************************************************************)
(* Once the budget is spent at most three more phases are paid for         *)
(* (budgetExceeded in Run, wonderReflect and processValidation).           *)
(***************************************************************************)
THEOREM Overspend == Spec => []OverspendBounded
<1>1. OverspendInv => OverspendBounded
  BY DEF OverspendInv, OverspendBounded
<1>2. QED
  BY <1>1, OverspendInit, OverspendStep, TypeCorrect, PTL DEF Spec

-----------------------------------------------------------------------------
(* Escalation.                                                             *)

\* On the frugal model every failure counted by the stall counter is counted
\* by the escalation state too, up to the iteration in progress.
EscalationInv ==
  /\ pc \notin {"loop", "cleanup", "report", "done"} => ~lastImproved
  /\ pc \in {"cleanup", "report"} /\ lastImproved => stallCount = 0
  /\ opts.Frugal /\ Route = "none" /\ escalation.tier = "frugal" =>
       /\ escalation.failures < EscalateAfterFailures
       /\ pc \notin {"cleanup", "report", "done"} => stallCount <= escalation.failures
       /\ pc \in {"cleanup", "report"} => stallCount <= escalation.failures + 1

\* A new run has no failure on either count (newEscalationState).
LEMMA EscalationInit == Init => EscalationInv
BY DEF Init, EscalationInv, NewEscalation, EscalateAfterFailures

\* The stalls of a run on the frugal model never outnumber the failures
\* its escalation has counted (recordOutcome).
LEMMA EscalationStep == TypeOK /\ EscalationInv /\ [Next]_vars => EscalationInv'
<1> SUFFICES ASSUME TypeOK, EscalationInv, [Next]_vars PROVE EscalationInv'
  OBVIOUS
<1> USE DEF EscalationInv, searchVars, lastVars, EscalateAfterFailures
<1>0. /\ opts' = opts /\ Route' = Route
      /\ stallCount \in Nat /\ escalation.failures \in Nat
  BY RouteConstant, OptionsConstant DEF TypeOK, SearchTypeOK
<1>1. CASE LoopHead
  BY <1>0, <1>1 DEF LoopHead, MaxIterationsReached, BudgetStop, StartIteration
<1>2. CASE GenerateFiles
  BY <1>0, <1>2 DEF GenerateFiles, Triage, Wonder, Reflect, Generate, GenerationError,
    ParseFails, WriteFiles, AgentWritesFiles, AgentWritesNothing, Goto, HardError,
    StallAndReturn, RecordStall, CheckStalled
<1>3. CASE StartContainers
  <2>1. CASE Build \/ StartSession \/ RunTestCommand
    BY <1>0, <2>1 DEF Build, StartSession, RunTestCommand, Goto, HardError,
      StallAndReturn, RecordStall, CheckStalled
  <2>2. CASE NoService \/ ServiceStarts \/ ServiceHealthy
    BY <1>0, <2>2 DEF NoService, ServiceStarts, ServiceHealthy, Goto
  <2>3. CASE ServiceFails \/ HTTPUnhealthy \/ GRPCUnhealthy
    BY <1>0, <2>3 DEF ServiceFails, HTTPUnhealthy, GRPCUnhealthy, RecordStall, CheckStalled
  <2>4. QED
    BY <1>3, <2>1, <2>2, <2>3 DEF StartContainers
<1>4. CASE Validate
  BY <1>0, <1>4 DEF Validate, ScoreScenario, ScenarioError, Restart, RestartHealth,
    ValidateReturns, Goto, HardError
<1>5. CASE ProcessValidation
  BY <1>0, <1>5 DEF ProcessValidation, Converge, Improve, NotBetter, WriteBestFails,
    EndValidated, HardError
<1>6. CASE EndIteration
  <2>1. CASE Cleanup
    BY <1>0, <2>1 DEF Cleanup, Goto
  <2>2. CASE AdvanceTier
    BY <1>0, <2>2 DEF AdvanceTier, NewEscalation
  <2>3. CASE FinishIteration
    BY <1>0, <2>3 DEF FinishIteration, RecordOutcome, NewEscalation, Goto
  <2>4. QED
    BY <1>6, <2>1, <2>2, <2>3 DEF EndIteration
<1>7. CASE UNCHANGED vars
  BY <1>0, <1>7 DEF vars, loopVars
<1>8. QED
  BY <1>1, <1>2, <1>3, <1>4, <1>5, <1>6, <1>7 DEF Next, Terminating

(***************************************************************************)
(* Without a service container to start, a frugal run has escalated before *)
(* its stall count reaches three (recordOutcome in escalation.go).         *)
(***************************************************************************)
THEOREM Escalates == Spec => []EscalatesBeforeStalling
<1>1. TypeOK /\ EscalationInv => EscalatesBeforeStalling
  <2> SUFFICES ASSUME TypeOK, EscalationInv, opts.Frugal, Route = "none", pc = "loop",
                      stallCount >= EscalateAfterFailures
               PROVE  CurrentModel = "primary"
    BY DEF EscalatesBeforeStalling
  <2>1. escalation.tier \in {"frugal", "primary"} /\ escalation.failures \in Nat
        /\ stallCount \in Nat
    BY DEF TypeOK, SearchTypeOK
  <2>2. escalation.tier # "frugal"
    BY <2>1 DEF EscalationInv, EscalateAfterFailures
  <2>3. QED
    BY <2>1, <2>2 DEF CurrentModel
<1>2. QED
  BY <1>1, EscalationInit, EscalationStep, TypeCorrect, PTL DEF Spec

-----------------------------------------------------------------------------
(* The end of the run.                                                     *)

\* Every step starts an iteration, goes on in it, or is one of its validation's.
LEMMA StepMoves == TypeOK /\ Next => Moves \/ UNCHANGED vars
<1> SUFFICES ASSUME TypeOK, Next PROVE Moves \/ UNCHANGED vars
  OBVIOUS
<1>0. iter \in Nat /\ opts.MaxIterations \in Nat
  BY OptionsTyped DEF TypeOK, LoopTypeOK
<1> USE DEF Moves, Goto, HardError
<1>1. CASE LoopHead
  BY <1>0, <1>1 DEF LoopHead, MaxIterationsReached, BudgetStop, StartIteration, Stage
<1>2. CASE GenerateFiles
  BY <1>2 DEF GenerateFiles, Triage, Wonder, Reflect, Generate, GenerationError,
    ParseFails, WriteFiles, AgentWritesFiles, AgentWritesNothing, StallAndReturn, CheckStalled,
    Stage
<1>3. CASE StartContainers
  BY <1>3 DEF StartContainers, Build, StartSession, NoService, ServiceStarts, ServiceFails,
    ServiceHealthy, HTTPUnhealthy, GRPCUnhealthy, RunTestCommand, StallAndReturn, CheckStalled,
    Stage
<1>4. CASE Validate
  <2>1. CASE ScoreScenario
    <3>1. PICK s \in Unscored, x \in PossibleScores :
            /\ DOMAIN agg'.scores = DOMAIN agg.scores \cup {s}
            /\ pc' \in {"restart", "validate"}
      BY <2>1 DEF ScoreScenario
    <3>2. Active' = Active /\ iter' = iter /\ pc = "validate"
      BY <2>1 DEF ScoreScenario, Active, searchVars
    <3>3. Unscored' \subseteq Unscored /\ Unscored' # Unscored
      BY <3>1, <3>2 DEF Unscored
    <3> QED BY <3>1, <3>2, <3>3 DEF Scoring
  <2>2. CASE Restart \/ RestartHealth
    <3>1. Unscored' = Unscored
      BY <2>2 DEF Restart, RestartHealth, Unscored, Active, searchVars
    <3> QED BY <2>2, <3>1 DEF Restart, RestartHealth, Scoring, Stage
  <2>3. CASE ScenarioError \/ ValidateReturns
    BY <2>3 DEF ScenarioError, ValidateReturns, Stage
  <2> QED BY <1>4, <2>1, <2>2, <2>3 DEF Validate
<1>5. CASE ProcessValidation
  BY <1>5 DEF ProcessValidation, Converge, Improve, NotBetter, WriteBestFails, EndValidated, Stage
<1>6. CASE EndIteration
  BY <1>6 DEF EndIteration, Cleanup, AdvanceTier, FinishIteration, Stage
<1>7. CASE Terminating
  BY <1>7 DEF Terminating
<1> QED BY <1>1, <1>2, <1>3, <1>4, <1>5, <1>6, <1>7 DEF Next

(***************************************************************************)
(* Every step of a run uses up iterations, stages of one, or scenarios of a*)
(* validation, of which there are finitely many: every run returns (Run).  *)
(***************************************************************************)
THEOREM Returns == Spec => MovesOn
<1>1. TypeOK /\ [Next]_vars => [Moves]_vars
  BY StepMoves
<1> QED BY <1>1, TypeCorrect, PTL DEF Spec, MovesOn
=============================================================================
