CONSTANTS
  n1 = n1
  Names = {n1, n2}
  Vals = {v1, v2}
  CommandVals = {v1}
  None = None
  Topics = {t1, t2}
  Settings <- SettingsDef
  Routines = {j1, j2}
  InCap = 1
  OutCap = 1
  InboxCap = 1
  MaxIssues = 2
SPECIFICATION FairSpec
INVARIANTS AvailabilityFollows RealtimeReaches
PROPERTIES MirrorCatchesUp CommandsReset
CHECK_DEADLOCK FALSE
