\* The three executors, three steps, two streams.
CONSTANTS
  Kinds = {"ws", "grpc", "tui"}
  Ids = {"0", "a"}
  AutoIds <- MCAutoIds
  BufferCap = 1
  MaxSteps = 3
  MaxStreams = 2
  MaxMessages = 2
  Counts = {2}
SPECIFICATION Spec
INVARIANTS
  ShortMeansOver
  ReadersOwned
PROPERTIES
  ImplementsChannel
  AllStop
