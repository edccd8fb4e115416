CONSTANTS
  Lengths <- MCLengths
  Holes <- MCHoles
  Suspended <- MCSuspended
  Gaps <- MCGaps
  NoMinutes <- MCNoMinutes
  NoFirst <- MCNoFirst
  Quoted <- MCQuoted
  Documents <- MCDocuments
  Memberships <- MCMemberships
  Worlds <- MCWorlds
  NextSessions = 2
  MinHistory = 2
  Window = 2
  Lookback = 3
  DocumentDays = 3
  EventDays = 1
  DocumentLimit = 2
  TestPart = 5
  MinTrain = 2
  FoldCount = 2
  ValidLength = 2
  MinFoldSamples = 1
  MinIsotonic = 4
  Required = 3
SPECIFICATION Spec
INVARIANTS
  ReplayIsServing
  
  ValidatedOnce
CHECK_DEADLOCK FALSE
