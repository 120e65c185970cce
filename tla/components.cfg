\* Gene validation and topological sort of every small component list.
CONSTANTS
  Names <- MCNames
  Norm <- MCNorm
  Blank = ""
  Genes <- MCGenes
SPECIFICATION GeneSpec
INVARIANTS
  DependenciesFirst
  LoopMeansCycle
  ChecksAgree
PROPERTY
  ListMovesOn
