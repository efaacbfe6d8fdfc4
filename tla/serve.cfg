CONSTANTS
  c1 = c1  c2 = c2  proj = proj  Root = Root
  Call = {c1, c2}
  Project = {proj}
  MaxEdits = 2
  MaxLost = 1
  MaxFails = 1
  MaxIndexings = 1
SPECIFICATION FairSpec
CHECK_DEADLOCK FALSE
INVARIANTS NoMissedChange EndsBetweenCycles SharedHandle
PROPERTIES LiveSyncServes
