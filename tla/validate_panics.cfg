CONSTANTS
  N = 2
  Types = {"request", "exec"}
  MaxParallel = 1
SPECIFICATION Spec
INVARIANT StepsExecuted
