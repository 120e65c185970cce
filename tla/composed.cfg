\* The composed attempt over a chain and a diamond of components.
CONSTANTS
  Names <- MCNames
  Norm <- MCNorm
  Blank = ""
  Genes <- MCGenes
  Options <- MCOptions
  Scores = {0, 60, 80, 90, 95}
  Costs = {1, 2}
SPECIFICATION Spec
INVARIANTS
  DependenciesReady
  ResourcesOwned
  ConvergedIsWhole
  OverspendBounded
PROPERTIES
  MovesOn
