\* One unit of time is some ten seconds; two requests may be under way.
SPECIFICATION Spec
CONSTANTS
  Requests = {r1, r2}
  Ttl = 2
  FetchLimit = 2
  LatestAge = 1
  DelayedAge = 2
  StaleAfter = 3
  DegradedAfter = 2
  LastMoment = 6
  Orphans = FALSE
SYMMETRY Symmetry
INVARIANTS
  AnswersAreRecent
  FreshIsRecent
PROPERTY
  ReplacedByRecent
CHECK_DEADLOCK FALSE
