\* Two ordinary weeks: predicted on the Monday, settled on the next.
CONSTANTS
  LastDay = 7
  DateOf <- OrdinaryDates
  ReconcileDays = 10
  RetentionDays = 30
  SessionsTo <- FiveSessions
  Moves = {0}
  Cuts = {0, 2}
  MaxPredictions = 1
  DueLimit = 1
  Quotes = FALSE
SPECIFICATION Spec
INVARIANT ExRightsHarmless
CHECK_DEADLOCK FALSE
