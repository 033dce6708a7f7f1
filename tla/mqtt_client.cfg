CONSTANTS
  Publishers = {p1, p2}
  Routes = {r1}
  MaxLength = 2
  ErrsWhileUp = TRUE
  MaxMessages = 3
  MaxUps = 2
SPECIFICATION Spec
INVARIANTS KeptUnlessTruncated ArrivesOnce RoutesSubscribed
CHECK_DEADLOCK FALSE
