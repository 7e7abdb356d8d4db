SPECIFICATION FairSpec
CONSTANTS
  CommandLength = 2
  Sizes = {0, 1, 2, 3}
  MaximumBytes = 2
  ReceiveChunk = 2
  MaxInformational = 1
INVARIANTS
  TypeOK
  ReadyMeansInStep
  CertaintyTrue
PROPERTIES
  OperationsEnd
