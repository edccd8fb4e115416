\* Two runs of a stock, documents that arrive meanwhile, pages of one document.
CONSTANTS
  Documents = {1, 2, 3}
  BatchSize = 1
  MaxDocuments = 2
  Lookback = 3
  LastMoment = 7
SPECIFICATION Spec
INVARIANTS
  NothingPassedOver
  AnalysedOnce
CHECK_DEADLOCK FALSE
