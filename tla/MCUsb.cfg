SPECIFICATION UsbFairSpec
CONSTANTS
  Totals = {3}
  ChunkSize = 2
  Depth = 2
  MaxOperations = 2
INVARIANTS
  UsbTypeOK
  WriteCertaintyTrue
  OpenMeansClean
PROPERTIES
  CancelledWriteSaysSo
  OperationsReturn
