CONSTANTS
  n1 = n1
  n2 = n2
  Nil = Nil
  Names = {n1}
  Kinds <- KindsDef
  Structure = structure
  Hass = hass
  Command = command
  Subs = {structure, hass, command}
  Lookers = {command}
  Filter <- FilterDef
  Cap = 2
  MaxSaves = 3
SPECIFICATION MCSpec
INVARIANTS NothingLost BlockedNeedsBurst ForwardersCurrent
PROPERTY AddReturns
CHECK_DEADLOCK FALSE
