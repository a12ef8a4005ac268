SPECIFICATION HistSpec
INVARIANTS Exclusion
CONSTANTS
  j1 = j1 j2 = j2 w1 = w1 w2 = w2 k1 = k1
  t1 = t1 t2 = t2 t3 = t3 t4 = t4 t5 = t5
  Keys <- MCKeys
  KeyOf <- MCKeyOf
  Tokens <- MCTokens
  NoJob = NoJob
  NoToken = NoToken
  NoLock = NoLock
  Jobs <- MCJobs
  Workers <- MCWorkers
  StallThreshold = 1
  AbsoluteLimit = 1
  LockTTL = 1
  TaskTimeLimit = 1
  ZombieSilence = 0
  Kinds = {"cancel"}
  MaxIncidents = 1
SYMMETRY Sym
CHECK_DEADLOCK FALSE
