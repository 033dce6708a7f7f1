CONSTANTS
  RestartInterval = 1
  MaxBackoff = 2
  HalfRange = 8388608
  MaxErrors = 1
  MaxDoublings = 16
  Null = Null
  Regs = {r1}
  Vals = {on, off}
  InCap = 1
  OutCap = 1
  Outcomes = {"reset", "kept"}
  NilPanics = TRUE
  WhileDown = TRUE
  MaxSubs = 2
  MaxIssues = 4
SPECIFICATION FairSpec
INVARIANTS NoStaleExecution CircularWaitNeedsBurst LastCommandWins
PROPERTIES ExecutedOnceInOrder CommandsTaken ShutdownCompletes
CHECK_DEADLOCK FALSE
