SPECIFICATION FairSpec
CONSTANTS
  SequenceModulus = 3
  Lifetime = 1
  QueryAttempts = 1
  TransmissionAttempts = 2
  MaximumIgnoredDatagrams = 1
  MaximumErrorText = 0
  MaximumHandshakeResponse = 2
  TargetStarts = {2}
  HostPayload = 2
  WriteSizes = {2}
  ReadSizes = {1}
  MaxOperations = 2
  MaxReplyUnits = 1
INVARIANTS
  TypeOK
  WriteCertaintyTrue
  ExactlyOnceInOrder
  InStep
PROPERTIES
  OperationsReturn
