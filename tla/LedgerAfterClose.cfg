\* A quote of the day is there when next_5d is predicted at 15:20.
CONSTANTS
  LastDay = 4
  DateOf <- HolidayDates
  ReconcileDays = 10
  RetentionDays = 30
  SessionsTo <- TwoSessions
  Moves = {0, 1}
  Cuts = {0, 2}
  MaxPredictions = 1
  DueLimit = 1
  Quotes = TRUE
SPECIFICATION Spec
INVARIANT ReferenceAfterClose
CHECK_DEADLOCK FALSE
