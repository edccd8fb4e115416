\* Three symbols, two of them members; four days with up to three changes.
SPECIFICATION UniverseSpec
CONSTANTS
  a = a
  b = b
  c = c
  Symbols = {a, b, c}
  Size = 2
  LeastSize = 1
  LastDay = 4
  MaxFaults = 1
  Histories <- MCHistories
INVARIANTS
  PointInTime
  MembersAreBackfilled
CHECK_DEADLOCK FALSE
