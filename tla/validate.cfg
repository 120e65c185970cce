CONSTANTS
  N = 3
  Types = {"request", "exec", "grpc", "ws"}
  MaxParallel = 2
SPECIFICATION Spec
INVARIANTS
  ScenariosApart
  ReportIsOwn
PROPERTY EndsClean
