CONSTANTS
  n1 = n1
  o1 = o1
  ViewKeys <- ViewDef
  Numbers = {n1}
  Others = {o1}
  Vals = {v1, v2}
  None = None
  Cap = 1
  Senders = {"immediate", "delayed", "telemetry", "availability", "ws"}
SPECIFICATION FairSpec
INVARIANT KnowsLatest
PROPERTIES CatchesUp BlockedByDeparted
CHECK_DEADLOCK FALSE
