\* Three stocks, asked for two at a time; two requests may be under way.
SPECIFICATION TrackingSpec
CONSTANTS
  Symbols = {1, 2, 3}
  Indexes = {{2}, {1, 2}}
  Clients = {c1, c2}
  Batch = 2
  Limit = 1
  LastId = 3
  MaxChanges = 1
SYMMETRY Symmetry
INVARIANTS
  PagesAreComplete
  AskedEachRound
CHECK_DEADLOCK FALSE
