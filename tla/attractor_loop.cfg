\* The convergence loop over seven configurations.
CONSTANTS
  NumScenarios = 2
  Tier <- MCTier
  Weight <- MCWeight
  Scores = {0, 600, 948, 960}
  Costs = {1, 2}
  StartCosts = {0, 1}
  Options <- LoopOptions
SPECIFICATION Spec
INVARIANTS
  ResourcesOwned
  StallLimitStops
  ConvergedMeans
  EscalatesBeforeStalling
  OverspendBounded
PROPERTIES
  MovesOn
  BestNeverDrops
  ImplementsContract
  Terminates
