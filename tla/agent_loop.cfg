\* All runs of the agent loop over two files.
CONSTANTS
  Spellings <- MCSpellings
  Clean <- MCClean
  Requests <- MCRequests
  Seeds <- MCSeeds
  MaxTurns = 3
  StreamRetries = 2
  Absent = Absent
  Empty = Empty
  Mixed = Mixed
  Ok = Ok
  Pending = Pending
SPECIFICATION Spec
INVARIANTS
  AnswersMatchCalls
  LooksSeeEarlierTurns
  FilesMatchDisk
  NoHandlerLeft
PROPERTIES
  MovesOn
  Terminates
