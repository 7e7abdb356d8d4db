SPECIFICATION Spec
CONSTANTS
  Totals = {0, 3, 4}
  ChunkSize = 2
  Depth = 2
INVARIANTS
  RequeuedNeverSent
  CertaintyTrue
  ProgressTrue
  PermitsSettleOnce
