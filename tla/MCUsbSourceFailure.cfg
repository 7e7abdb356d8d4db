SPECIFICATION UsbSpec
CONSTANTS
  Totals = {3}
  ChunkSize = 2
  Depth = 2
  MaxOperations = 1
INVARIANT SourceFailureIsIoError
