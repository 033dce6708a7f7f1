CONSTANTS
  k1 = k1
  v1 = v1
  s1 = s1
  s2 = s2
  Null = Null
  Keys = {k1}
  Vals = {v1}
  Producers = {p1}
  Subs = {s1, s2}
  WithInitial = {s2}
  Drains = {s1, s2}
  Filter <- FilterAll
  InputCap = 1
  OutCap = 1
SPECIFICATION FairSpec
INVARIANTS SnapshotThenChanges ListedIsOpen WaitMeansDone
PROPERTIES FillReturns CancelCloses
CHECK_DEADLOCK FALSE
