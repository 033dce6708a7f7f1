CONSTANTS
  Params <- BaseParams
  InitialInputs <- Armed
  InputValues <- ControlInputs
  TickSteps = {1, 2}
  MaxTime = 7
SPECIFICATION Spec
INVARIANTS Settled OutputsProtected LockoutHolds WarmBeforeLoad PhasesBounded
PROPERTY EngineSpec
CHECK_DEADLOCK FALSE
