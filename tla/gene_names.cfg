\* A dependency under another spelling.
CONSTANTS
  Names <- MCNames
  Norm <- MCNorm
  Blank = ""
  Genes <- RespelledGenes
SPECIFICATION GeneSpec
INVARIANT AcceptedIsSorted
