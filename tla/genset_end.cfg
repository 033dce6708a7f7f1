CONSTANTS
  Params <- DeviceParams
  InitialInputs <- ZeroInputs
  InputValues <- ResetInputs
  TickSteps = {1}
  MaxTime = 0
  FillCap = 2
  SubCap = 1
  StartTime = 10
  TickEvery = 1
  EndTime = 11
  MaxProduced = 2
SPECIFICATION DeviceSpec
INVARIANT EndTerminates
CHECK_DEADLOCK FALSE
