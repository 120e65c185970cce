------------------------------ MODULE Composed ------------------------------
(***************************************************************************)
(* The composed attempt of `octog run`: when a gene names components and   *)
(* the scenarios have validators for them, every component is converged on *)
(* its own, dependencies first, and the merged files face the integration  *)
(* scenarios.  Whatever goes wrong on the way sends the run to the         *)
(* monolithic loop (module Attractor), which starts with the cost spent    *)
(* here (internal/attractor/attractor.go, tryComposed to                   *)
(* buildAndValidateComponent).                                             *)
(*                                                                         *)
(* The gene's list is validated and sorted by the steps of Components.     *)
(* One build, run and validation is the same whether its subject is a      *)
(* component or the merged files; only what follows from its answer        *)
(* differs.  Scores are whole points.                                      *)
(***************************************************************************)
EXTENDS Components

CONSTANTS
  Options,  \* the RunOptions considered, after withDefaults
  Scores,   \* what a validation can answer
  Costs     \* what one paid call can cost

Capabilities == {"http", "exec", "browser", "grpc", "tui"}
MaxAttempts == 5       \* componentMiniLoopMaxIter
MiniStallLimit == 2    \* componentMiniLoopStallLimit
OverspendCap == 3      \* bound of the count in overspend
Integration == ""      \* the key of the integration validator
Failed == -1           \* answer: build, session or service failed
Errored == -2          \* answer: the validation returned an error
Unvalidated == -3      \* accepted without a validator

\* BudgetUSD = 0 is "no budget".  Validators are the keys of ComponentValidators.
ASSUME OptionsAssumption ==
  Options \subseteq
    [caps : SUBSET Capabilities, Agentic : BOOLEAN, Validators : SUBSET (Names \cup {Integration}),
     BudgetUSD : Nat, Threshold : Nat \ {0}, StallLimit : Nat \ {0}]

ASSUME AmountsAssumption == Scores \subseteq Nat /\ Costs \subseteq Nat

VARIABLES
  opts,              \* chosen once, never changed
  pc, outcome,       \* place; "none", or how the attempt ended
  next,              \* the position in sorted of the component at hand
  attempt, stall, bestScore,     \* componentLoopState; bestScore 0 is no bestFiles
  accepted,          \* the score each finished component was taken with
  stallCount,        \* runState's, shared by all components, capped at the limit
  totalCost, overspend,          \* as in Attractor
  serviceRunning, sessionRunning, sessionSet,
  urlSet, grpcTargetSet,         \* the handles validate gets
  answer             \* the validation's satisfaction, or what went wrong

loopVars == <<pc, outcome, next>>
miniVars == <<attempt, stall, bestScore, accepted>>
moneyVars == <<totalCost, overspend>>
containerVars == <<serviceRunning, sessionRunning, sessionSet, urlSet, grpcTargetSet>>
vars == <<geneVars, opts, loopVars, miniVars, stallCount, moneyVars, containerVars, answer>>

-----------------------------------------------------------------------------
(* What the attempt reads.                                                 *)

Least(a, b) == IF a <= b THEN a ELSE b

BudgetExceeded == opts.BudgetUSD > 0 /\ totalCost >= opts.BudgetUSD

\* Seeded faults: the wrong end of the list; the last component forgotten.
SubjectReversed == sorted[Len(sorted) + 1 - next]
ComponentsLeftButLast == next < Len(sorted)

Subject == sorted[next]
ComponentsLeft == next <= Len(sorted)
Exhausted == attempt > MaxAttempts

NeedsSession == opts.caps \cap {"exec", "tui"} # {}

\* startComposedContainer's switch.
Route ==
  CASE "grpc" \in opts.caps -> "grpc"
    [] "grpc" \notin opts.caps /\ "tui" \in opts.caps /\ "http" \notin opts.caps -> "none"
    [] OTHER -> IF opts.caps \cap {"http", "browser"} # {} \/ "exec" \notin opts.caps
                THEN "http" ELSE "none"

Spend(cost) ==
  /\ totalCost' = IF opts.BudgetUSD = 0 THEN 0 ELSE Least(totalCost + cost, opts.BudgetUSD)
  /\ overspend' = IF BudgetExceeded THEN Least(overspend + 1, OverspendCap) ELSE overspend

Goto(place) == pc' = place /\ UNCHANGED <<outcome, next>>
End(how) == pc' = "done" /\ outcome' = how /\ UNCHANGED next

Init ==
  /\ GeneInit /\ opts \in Options
  /\ pc = "order" /\ outcome = "none" /\ next = 1
  /\ attempt = 0 /\ stall = 0 /\ bestScore = 0 /\ accepted = [n \in {} |-> 0]
  /\ stallCount = 0 /\ totalCost = 0 /\ overspend = 0
  /\ serviceRunning = FALSE /\ sessionRunning = FALSE /\ sessionSet = FALSE
  /\ urlSet = FALSE /\ grpcTargetSet = FALSE
  /\ answer = Failed

-----------------------------------------------------------------------------
(* tryComposed and the head of runComposed.                                *)

\* Nothing to validate components with, or the agentic mode.
Skips == opts.Agentic \/ opts.Validators = {}

\* The gene is loaded and, unless the attempt is skipped, its list sorted.
OrderComponents ==
  /\ pc = "order"
  /\ ValidateGene \/ (~Skips /\ TopoSort)
  /\ UNCHANGED <<opts, loopVars, miniVars, stallCount, moneyVars, containerVars, answer>>

Skip ==
  /\ pc = "order" /\ stage = "graph" /\ Skips
  /\ End("fallback")
  /\ UNCHANGED <<geneVars, opts, miniVars, stallCount, moneyVars, containerVars, answer>>

\* A gene that is refused never gets to a run; a list that cannot be sorted is
\* an error of the run, not a reason to fall back.
Ordered ==
  /\ pc = "order" /\ stage = "done"
  /\ CASE verdict = "sorted" -> Goto("component")
       [] verdict \in {"unknown", "cycle"} -> End("error")
       [] OTHER -> End("rejected")
  /\ UNCHANGED <<geneVars, opts, miniVars, stallCount, moneyVars, containerVars, answer>>

\* runComposed's loop: the budget is read before each component.
NextComponent ==
  /\ pc = "component" /\ ComponentsLeft
  /\ IF BudgetExceeded
     THEN End("fallback") /\ UNCHANGED miniVars
     ELSE /\ Goto("attempt")
          /\ attempt' = 1 /\ stall' = 0 /\ bestScore' = 0 /\ UNCHANGED accepted
  /\ UNCHANGED <<geneVars, opts, stallCount, moneyVars, containerVars, answer>>

\* validateComposed: the merged files are written and, without an integration
\* validator, accepted as they are.
Integrate ==
  /\ pc = "component" /\ ~ComponentsLeft
  /\ IF Integration \in opts.Validators THEN Goto("build") ELSE End("converged")
  /\ UNCHANGED <<geneVars, opts, miniVars, stallCount, moneyVars, containerVars, answer>>

WriteComposedFails ==
  /\ pc = "component" /\ ~ComponentsLeft
  /\ End("error")
  /\ UNCHANGED <<geneVars, opts, miniVars, stallCount, moneyVars, containerVars, answer>>

-----------------------------------------------------------------------------
(* convergeComponent and componentIteration.                               *)

\* The component is taken with this score and runComposed goes on.
Accept(score) ==
  /\ accepted' = [n \in DOMAIN accepted \cup {Subject} |->
                    IF n = Subject THEN score ELSE accepted[n]]
  /\ pc' = "component" /\ next' = next + 1
  /\ UNCHANGED <<outcome, attempt, stall, bestScore>>

\* Seeded fault: an attempt that scored is not counted.
TryAgainUncounted(stalls, best) ==
  /\ stall' = stalls /\ bestScore' = best /\ UNCHANGED accepted
  /\ IF stalls >= MiniStallLimit
     THEN End("fallback") /\ UNCHANGED attempt
     ELSE Goto("attempt") /\ attempt' = IF stalls = 0 THEN attempt ELSE attempt + 1

\* The attempt is over; at the stall limit the component is given up.
TryAgain(stalls, best) ==
  /\ stall' = stalls /\ bestScore' = best /\ UNCHANGED accepted
  /\ IF stalls >= MiniStallLimit
     THEN End("fallback") /\ UNCHANGED attempt
     ELSE Goto("attempt") /\ attempt' = attempt + 1

\* Seeded fault: the budget is not read between attempts.
StartAttemptUnchecked ==
  /\ pc = "attempt" /\ ~Exhausted
  /\ Goto("generate")
  /\ UNCHANGED <<geneVars, opts, miniVars, stallCount, moneyVars, containerVars, answer>>

StartAttempt ==
  /\ pc = "attempt" /\ ~Exhausted
  /\ IF BudgetExceeded THEN End("fallback") ELSE Goto("generate")
  /\ UNCHANGED <<geneVars, opts, miniVars, stallCount, moneyVars, containerVars, answer>>

\* Out of attempts: the best files are taken, if any attempt scored at all.
TakeBest ==
  /\ pc = "attempt" /\ Exhausted
  /\ IF bestScore > 0 THEN Accept(bestScore) ELSE End("fallback") /\ UNCHANGED miniVars
  /\ UNCHANGED <<geneVars, opts, stallCount, moneyVars, containerVars, answer>>

Generate ==
  /\ pc = "generate"
  /\ \E cost \in Costs : Spend(cost)
  /\ Goto("parse")
  /\ UNCHANGED <<geneVars, opts, miniVars, stallCount, containerVars, answer>>

\* The LLM call fails, or the files cannot be written.
ComponentError ==
  /\ pc \in {"generate", "parse"}
  /\ End("fallback")
  /\ UNCHANGED <<geneVars, opts, miniVars, stallCount, moneyVars, containerVars, answer>>

ParseFails ==
  /\ pc = "parse"
  /\ TryAgain(stall + 1, bestScore)
  /\ UNCHANGED <<geneVars, opts, stallCount, moneyVars, containerVars, answer>>

\* The files are written; without a validator of its own the component is done.
WriteFiles ==
  /\ pc = "parse"
  /\ IF Subject \in opts.Validators
     THEN Goto("build") /\ UNCHANGED miniVars
     ELSE Accept(Unvalidated)
  /\ UNCHANGED <<geneVars, opts, stallCount, moneyVars, containerVars, answer>>

-----------------------------------------------------------------------------
(* buildAndValidateComponent, and the same in validateComposed.            *)

Fail == answer' = Failed /\ Goto("release")

Build ==
  /\ pc = "build"
  /\ \/ Goto(IF NeedsSession THEN "session" ELSE "service") /\ UNCHANGED answer
     \/ Fail
  /\ UNCHANGED <<geneVars, opts, miniVars, stallCount, moneyVars, containerVars>>

StartSession ==
  /\ pc = "session"
  /\ \/ Goto("service") /\ sessionRunning' = TRUE /\ sessionSet' = TRUE /\ UNCHANGED answer
     \/ Fail /\ UNCHANGED <<sessionRunning, sessionSet>>
  /\ UNCHANGED <<geneVars, opts, miniVars, stallCount, moneyVars,
                 serviceRunning, urlSet, grpcTargetSet>>

NoService ==
  /\ pc = "service" /\ Route = "none"
  /\ Goto("validate")
  /\ UNCHANGED <<geneVars, opts, miniVars, stallCount, moneyVars, containerVars, answer>>

ServiceStarts ==
  /\ pc = "service" /\ Route # "none"
  /\ serviceRunning' = TRUE
  /\ Goto("health")
  /\ UNCHANGED <<geneVars, opts, miniVars, stallCount, moneyVars,
                 sessionRunning, sessionSet, urlSet, grpcTargetSet, answer>>

\* recordStall counts the failures of all components in one runState.
CountStall == stallCount' = Least(stallCount + 1, opts.StallLimit)

ServiceFails ==
  /\ pc = "service" /\ Route # "none"
  /\ CountStall /\ Fail
  /\ UNCHANGED <<geneVars, opts, miniVars, moneyVars, containerVars>>

HandOver ==
  /\ urlSet' = TRUE /\ grpcTargetSet' = (Route = "grpc")
  /\ Goto("validate")

ServiceHealthy ==
  /\ pc = "health" /\ HandOver
  /\ UNCHANGED <<geneVars, opts, miniVars, stallCount, moneyVars, serviceRunning,
                 sessionRunning, sessionSet, answer>>

HTTPUnhealthy ==
  /\ pc = "health" /\ Route = "http"
  /\ serviceRunning' = FALSE
  /\ CountStall /\ Fail
  /\ UNCHANGED <<geneVars, opts, miniVars, moneyVars, sessionRunning, sessionSet,
                 urlSet, grpcTargetSet>>

\* Only at the stall limit does waitGRPCHealth return the failure; below it the
\* container goes on to the validation.
GRPCUnhealthy ==
  /\ pc = "health" /\ Route = "grpc"
  /\ CountStall
  /\ IF stallCount' >= opts.StallLimit
     THEN Fail /\ serviceRunning' = FALSE /\ UNCHANGED <<urlSet, grpcTargetSet>>
     ELSE HandOver /\ UNCHANGED <<serviceRunning, answer>>
  /\ UNCHANGED <<geneVars, opts, miniVars, moneyVars, sessionRunning, sessionSet>>

ValidateReturns ==
  /\ pc = "validate"
  /\ \E score \in Scores : answer' = score
  /\ \E cost \in Costs : Spend(cost)
  /\ Goto("release")
  /\ UNCHANGED <<geneVars, opts, miniVars, stallCount, containerVars>>

\* What the validation had spent before its error is not counted.
ValidateFails ==
  /\ pc = "validate"
  /\ answer' = Errored /\ Goto("release")
  /\ UNCHANGED <<geneVars, opts, miniVars, stallCount, moneyVars, containerVars>>

\* Seeded fault: the session container is not stopped.
ReleaseKeepsSession ==
  /\ pc = "release"
  /\ serviceRunning' = FALSE /\ sessionSet' = FALSE
  /\ urlSet' = FALSE /\ grpcTargetSet' = FALSE
  /\ Goto("evaluate")
  /\ UNCHANGED <<geneVars, opts, miniVars, stallCount, moneyVars, sessionRunning, answer>>

\* The deferred calls: the service container and the gRPC target, the CLI's
\* session pointer, the session container.
Release ==
  /\ pc = "release"
  /\ serviceRunning' = FALSE /\ sessionRunning' = FALSE /\ sessionSet' = FALSE
  /\ urlSet' = FALSE /\ grpcTargetSet' = FALSE
  /\ Goto("evaluate")
  /\ UNCHANGED <<geneVars, opts, miniVars, stallCount, moneyVars, answer>>

-----------------------------------------------------------------------------
(* What follows from the answer.                                           *)

\* evaluateComponent.
EvaluateComponent ==
  /\ pc = "evaluate" /\ ComponentsLeft
  /\ CASE answer >= opts.Threshold -> Accept(answer)
       [] answer < opts.Threshold /\ answer > bestScore -> TryAgain(0, answer)
       [] OTHER -> TryAgain(stall + 1, bestScore)
  /\ UNCHANGED <<geneVars, opts, stallCount, moneyVars, containerVars, answer>>

\* The end of validateComposed; writing the best directory may fail.
EvaluateComposed ==
  /\ pc = "evaluate" /\ ~ComponentsLeft
  /\ CASE answer = Errored -> End("error")
       [] answer >= opts.Threshold -> End("converged") \/ End("error")
       [] OTHER -> End("fallback")
  /\ UNCHANGED <<geneVars, opts, miniVars, stallCount, moneyVars, containerVars, answer>>

Terminating == pc = "done" /\ UNCHANGED vars

TryComposed == OrderComponents \/ Skip \/ Ordered \/ NextComponent
ConvergeComponent == \/ StartAttempt \/ TakeBest \/ Generate \/ ComponentError
                     \/ ParseFails \/ WriteFiles \/ EvaluateComponent
BuildAndValidate == \/ Build \/ StartSession \/ NoService \/ ServiceStarts
                    \/ ServiceFails \/ ServiceHealthy \/ HTTPUnhealthy \/ GRPCUnhealthy
                    \/ ValidateReturns \/ ValidateFails \/ Release
ValidateComposed == Integrate \/ WriteComposedFails \/ EvaluateComposed

Next == \/ TryComposed \/ ConvergeComponent \/ BuildAndValidate \/ ValidateComposed
        \/ Terminating

\* One goroutine; every external call returns.
Spec == Init /\ [][Next]_vars /\ WF_vars(Next)
-----------------------------------------------------------------------------
(* Properties.                                                             *)

Places ==
  {"order", "component", "attempt", "generate", "parse", "build", "session", "service",
   "health", "validate", "release", "evaluate", "done"}

\* Every variable holds a value of its kind: in particular a component has at
\* most five attempts and the list is never read past its end
\* (componentMiniLoopMaxIter, runComposed's range over sorted).
TypeOK ==
  /\ opts \in Options /\ pc \in Places
  /\ outcome \in {"none", "rejected", "error", "fallback", "converged"}
  /\ next \in 1..(Len(components) + 1)
  /\ attempt \in 0..(MaxAttempts + 1) /\ stall \in 0..MiniStallLimit
  /\ bestScore \in {0} \cup Scores
  /\ accepted \in [DOMAIN accepted -> Scores \cup {Unvalidated}]
  /\ stallCount \in 0..opts.StallLimit
  /\ totalCost \in 0..opts.BudgetUSD /\ overspend \in 0..OverspendCap
  /\ {serviceRunning, sessionRunning, sessionSet, urlSet, grpcTargetSet} \subseteq BOOLEAN
  /\ answer \in Scores \cup {Failed, Errored}

\* When a component is generated, everything it depends on has been taken and
\* it has not: its prompt names the interfaces of its dependencies and its
\* build has their files (runComposed's depInterfaces and accumulatedFiles).
DependenciesReady ==
  pc \in {"attempt", "generate", "parse"} =>
    LET deps == Deps(EntryOf(Subject))
    IN  Subject \notin DOMAIN accepted /\ {deps[k] : k \in DOMAIN deps} \subseteq DOMAIN accepted

\* Every variable has its type.  A failed start, a failed validation or a converged component leaves nothing
\* behind for the next one: no container and no handle of the CLI (the defers of
\* buildAndValidateComponent and validateComposed).  A validation holds a URL or a
\* gRPC target only of a service that runs, and always the ones its scenarios
\* need (startComposedContainer).
ResourcesOwned ==
  /\ TypeOK
  /\ pc \in {"component", "attempt", "generate", "parse", "build", "evaluate", "done"} =>
       /\ ~serviceRunning /\ ~sessionRunning
       /\ ~sessionSet /\ ~urlSet /\ ~grpcTargetSet
  /\ pc = "validate" =>
       /\ (urlSet <=> serviceRunning) /\ (serviceRunning <=> Route # "none")
       /\ grpcTargetSet <=> "grpc" \in opts.caps
       /\ NeedsSession => sessionRunning /\ sessionSet

\* A converged attempt is whole: every component of the list was taken, those
\* with a validator with a score above zero, and the integration scenarios, if
\* any, reached the threshold (runComposed, validateComposed).
ConvergedIsWhole ==
  outcome = "converged" =>
    /\ DOMAIN accepted = ListNames
    /\ \A n \in DOMAIN accepted : accepted[n] > 0 <=> n \in opts.Validators
    /\ Integration \in opts.Validators => answer >= opts.Threshold

\* With the budget spent, at most two more paid phases begin: the validation
\* of the attempt that spent it and the integration validation, which follows
\* the last component without another look at the budget.
OverspendBounded == overspend <= 2

\* The places of an attempt at a component in their order; those between two components
\* come first.
Step ==
  [order |-> 1, component |-> 2, attempt |-> 3, generate |-> 4, parse |-> 5, build |-> 6,
   session |-> 7, service |-> 8, health |-> 9, validate |-> 10, release |-> 11,
   evaluate |-> 12, done |-> 13]

\* What a step may do: it is one of the sort, or takes a component of the list, or starts
\* one of its few attempts, or goes on with the attempt at hand.
Moves ==
  \/ pc = "order" /\ pc' = "order" /\ ListMoves
  \/ next' = next + 1 /\ next' <= Len(components) + 1
  \/ next' = next /\ pc' = "attempt" /\ attempt' = attempt + 1 /\ attempt' <= MaxAttempts + 1
  \/ next' = next /\ (attempt' = attempt \/ pc = "component") /\ Step[pc'] > Step[pc]

\* Why the attempt ends: every step uses up components, attempts or places; a better score
\* forgives the stalls of a component and not its attempts (runComposed, convergeComponent).
MovesOn == [][Moves]_vars
=============================================================================
