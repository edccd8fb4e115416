CONSTANTS
  Versions = {1, 2}
  Symbols = {a, b}
  Operators = {o, p}
  Lookback = 1
  AtOnce = 2
  LastMoment = 3
  LastContent = 2
  BestLabels = {"high"}
  DriftLevels = {"calm"}
  Degraded = {FALSE}
SPECIFICATION Spec
SYMMETRY Symmetry
INVARIANTS
  RegisteredIsComplete
  ServedPassedGate
  FeaturesAsTrained
  LastActivationServes
  HighIsReported
  CountedIsStored
CHECK_DEADLOCK FALSE
