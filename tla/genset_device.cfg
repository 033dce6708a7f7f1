CONSTANTS
  Params <- DeviceParams
  InitialInputs <- ZeroInputs
  InputValues <- ResetInputs
  TickSteps = {1}
  MaxTime = 0
  FillCap = 1
  SubCap = 1
  StartTime = 10
  TickEvery = 1
  EndTime = 12
  MaxProduced = 1
SPECIFICATION DeviceSpec
INVARIANTS InputsFollow RegistersPublished CountsRealTime
CHECK_DEADLOCK FALSE
