SPECIFICATION FairSpec
PROPERTIES EveryScanSettles
CONSTANTS
  j1 = j1 j2 = j2 w1 = w1 w2 = w2 k1 = k1
  t1 = t1 t2 = t2 t3 = t3 t4 = t4 t5 = t5
  Keys <- MCKeys
  KeyOf <- MCKeyOf
  Tokens <- MCTokens
  NoJob = NoJob
  NoToken = NoToken
  NoLock = NoLock
  Jobs <- MCOneJob
  Workers <- MCWorkers
  StallThreshold = 1
  AbsoluteLimit = 2
  LockTTL = 1
  TaskTimeLimit = 2
  ZombieSilence = 0
  Kinds = {"crash", "duplicate", "raise", "abort", "redis", "cancel", "delete"}
  MaxIncidents = 1
CHECK_DEADLOCK FALSE
