CONSTANTS
  RestartInterval = 3
  MaxBackoff = 10
  HalfRange = 16
  MaxErrors = 4
  MaxDoublings = 3
  Registers <- RegistersDef
  Retries = 2
  FullEvery = 2
  None = "none"
  MaxFaults = 4
SPECIFICATION FairSpec
INVARIANTS ShownFits PromptNeverFails ExponentialUpToMaximum
PROPERTY Recovers
CHECK_DEADLOCK FALSE
