\* A service that does not start is validated all the same.
CONSTANTS
  NumScenarios = 2
  Tier <- MCTier
  Weight <- MCWeight
  Scores = {0, 600, 948, 960}
  Costs = {1, 2}
  StartCosts = {0, 1}
  Options <- WebOptions
SPECIFICATION Spec
INVARIANT ValidatesRunningContainer
