CONSTANTS
  b1 = b1
  q1 = q1
  a2 = a2
  a1 = a1
  Slots = {s1, s2}
  Requests = {r1, r2}
  Together <- MCTogether
  Jobs = {b1, q1, a1, a2}
  TypeOf <- MCTypeOf
  MaxConcurrent <- MixedPlaces
  Faults = {"crash", "dispatch_lost", "finish_lost", "requeue_fails"}
SPECIFICATION FairSpec
INVARIANTS
  CapacityRespected
  RunningRowIsBacked
  NoParallelRun
  SucceededIsComplete
  ProgressIsOfTheRun
PROPERTIES
  FallbackKeepsOtherRuns
  ImplementsLifecycle
  SubmittedJobEnds
CHECK_DEADLOCK FALSE
