CONSTANTS
  Publishers = {}
  Routes = {r1}
  MaxLength = 2
  ErrsWhileUp = FALSE
  MaxMessages = 0
  MaxUps = 2
SPECIFICATION Spec
INVARIANT OfflineAfterShutdown
CHECK_DEADLOCK FALSE
