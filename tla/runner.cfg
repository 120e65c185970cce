\* Every file of the menu, run to its end.
CONSTANTS
  Names <- MCNames
  Files <- MCFiles
  DefaultAttempts = 3
  AutoIds <- MCAutoIds
SPECIFICATION Spec
INVARIANTS
  CleanNeverFailsItself
  LiteralOnlyAfterFailure
PROPERTIES
  MovesOn
  RunEnds
