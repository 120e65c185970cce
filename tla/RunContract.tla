----------------------------- MODULE RunContract -----------------------------
(***************************************************************************)
(* What Attractor.Run promises its caller, whatever the LLM, Docker and    *)
(* the judge answer: a run is a bounded number of attempts; the best       *)
(* satisfaction of the current tier only rises, except that reaching the   *)
(* threshold sets it; a stratified run climbs one tier at a time, each from*)
(* its threshold; and a status is given only where it is true.             *)
(*                                                                         *)
(* Module Attractor implements this specification.                         *)
(***************************************************************************)
EXTENDS Integers

CONSTANTS Options, MaxTier

VARIABLES
  opts,      \* the options of the run
  attempts,  \* iterations started
  tier,      \* 0 without tiers, else the current tier
  best,      \* best satisfaction in this tier
  status     \* "running", or the RunResult's status ("error" for an error)

vars == <<opts, attempts, tier, best, status>>

Init ==
  /\ opts \in Options
  /\ attempts = 0 /\ best = 0
  /\ tier = IF opts.Stratified THEN 1 ELSE 0
  /\ status = "running"

Running == status = "running"

Attempt ==
  /\ Running /\ attempts < opts.MaxIterations
  /\ attempts' = attempts + 1
  /\ UNCHANGED <<opts, tier, best, status>>

Improve ==
  /\ Running /\ attempts > 0
  /\ best' > best
  /\ UNCHANGED <<opts, attempts, tier, status>>

\* The threshold is reached; the best may fall to it when an earlier, better
\* attempt was refused for a regression.
Reach ==
  /\ Running /\ attempts > 0
  /\ best' >= opts.Threshold
  /\ best' >= best \/ opts.BlockOnRegression
  /\ UNCHANGED <<opts, attempts, tier, status>>

AdvanceTier ==
  /\ Running /\ best >= opts.Threshold
  /\ tier \in 1..(MaxTier - 1)
  /\ tier' = tier + 1 /\ best' = 0
  /\ UNCHANGED <<opts, attempts, status>>

\* When each status may be given.
Finishes(st) ==
  \/ st = "converged" /\ best >= opts.Threshold /\ tier \in {0, MaxTier}
  \/ st = "stalled" /\ attempts >= 1
  \/ st = "budget_exceeded" /\ opts.BudgetUSD > 0
  \/ st = "max_iterations" /\ attempts = opts.MaxIterations
  \/ st = "error" /\ attempts >= 1

Finish ==
  /\ Running
  /\ \E st \in {"converged", "stalled", "budget_exceeded", "max_iterations", "error"} :
       Finishes(st) /\ status' = st
  /\ UNCHANGED <<opts, attempts, tier, best>>

Next == Attempt \/ Improve \/ Reach \/ AdvanceTier \/ Finish

Spec == Init /\ [][Next]_vars
=============================================================================
