SPECIFICATION Spec
CONSTANTS
  SequenceModulus = 3
  Lifetime = 1
  QueryAttempts = 1
  TransmissionAttempts = 2
  MaximumIgnoredDatagrams = 1
  MaximumErrorText = 1
  MaximumHandshakeResponse = 2
  TargetStarts = {2}
  HostPayload = 2
  WriteSizes = {1}
  ReadSizes = {1}
  MaxOperations = 1
  MaxReplyUnits = 1
INVARIANT UnacknowledgedIsPoisoned
