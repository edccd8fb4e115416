\* The last session lies ten days after the first.
CONSTANTS
  LastDay = 4
  DateOf <- HolidayDates
  ReconcileDays = 10
  RetentionDays = 2
  SessionsTo <- TwoSessions
  Moves = {0, 1}
  Cuts = {0, 2}
  MaxPredictions = 2
  DueLimit = 1
  Quotes = TRUE
SPECIFICATION FairSpec
INVARIANTS
  TypeOK
  NoForesight
  SettledRight
  SettledInWindow
PROPERTY NothingStaysPending
CHECK_DEADLOCK FALSE
