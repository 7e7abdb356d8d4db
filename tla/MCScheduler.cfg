SPECIFICATION FairSpec
CONSTANTS
  a = a
  b = b
  z = z
  usb1 = usb1
  usb2 = usb2
  Devices = {a, b, z}
  Controllers = {usb1, usb2}
  Weight <- Weights
  Depth = 2
  Quantum = 1
  Limit = 2
  Fleets <- MCFleets
INVARIANTS
  TypeOK
  BudgetMatchesPermits
  BoundedOvertaking
  WaitIsJustified
PROPERTIES
  NoGrantAfterEnd
  RingsEnd
