\* Overlapping ticks, crashes, lost writes and a provider that may be disabled.
CONSTANTS
  quotes = quotes
  news = news
  akshare = akshare
  csi300 = csi300
  Jobs = {quotes, news}
  Providers = {akshare, csi300}
  ProviderOf <- MCProviderOf
  MaxAttempts <- TwoAttempts
  Ticks = {t1, t2}
  DisabledSets <- DisabledOrNot
  Faults = {"crash", "persist_fails", "job_fails"}
SPECIFICATION FairSpec
INVARIANTS
  TypeOK
  OneRunPerJob
  NoRunInCooldown
  OkIsEarned
PROPERTY DegradedJobRecovers
CHECK_DEADLOCK FALSE
