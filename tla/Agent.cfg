\* Two attempts with what is fetched around them.
CONSTANTS
  Own = {1, 2}
  Foreign = {3}
  MaxToolRounds = 2
  MaxSchemaRetries = 1
  MaxShown = 1
  LastMoment = 5
SPECIFICATION Spec
INVARIANTS
  ClaimsAreBacked
  ShownIsCitable
  RuleOncePerDay
PROPERTIES
  AttemptEnds
CHECK_DEADLOCK FALSE
