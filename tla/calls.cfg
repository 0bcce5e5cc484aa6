SPECIFICATION MCSpec
CONSTANTS
  SizeMod = 16
  MaxNative = 2
  MaxPrepared = 2
  Chunk = 2
  MaxTransfer = 3
  MemorySize = 8
  BufferSequences <- MCBufferSequences
  Conditions <- MCConditions
  Strings <- MCStrings
  MaxSizes <- MCMaxSizes
  Inputs <- MCInputs
  Delims <- MCDelims
  MaxEndpoints = 3
  Resolvers = {"r", "s"}
  Lookups <- MCLookups
  MaxForks = 1
  Bound = {"query", "endpoint"}
  MovedFrom = TRUE
  Streams = {1, 2}
  PutSize = 2
  MaxOut = 2
  MaxIn = 2
  LastExpiry = 1
  Second = 4
  LastTick = 11
INVARIANTS TransfersSound ConnectSound LookupsSound StreamInOrder
PROPERTIES TransfersInOrder ZeroMeansTimeIsUp CallsEnd
CHECK_DEADLOCK FALSE
