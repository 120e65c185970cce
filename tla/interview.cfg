\* The interview, over all short inputs, interrupted anywhere.
CONSTANTS
  Scripts <- MCScripts
  MaxRounds = 2
  Drafts <- MCDrafts
  UnsafeNames = {".."}
SPECIFICATION Spec
INVARIANTS
  TranscriptIsTyped
  WrittenIsWhole
PROPERTIES
  InterviewEnds
