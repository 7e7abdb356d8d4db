SPECIFICATION FairSpec
CONSTANTS
  Devices <- MCDevices
  Targets <- MCTargets
  Limits <- MCLimits
  InitialBackoff = 1
  MaximumBackoff = 3
  Unlimited = Unlimited
  NoDevice = NoDevice
PROPERTY ErrorsPreserveCertainty
