SPECIFICATION RedeliverySpec
INVARIANTS TypeOK SameScanOnce HistoryInv
PROPERTIES ReleasesOnlyItsOwn CancelSurvivesTriage UnmovedRowsOutlive
CONSTANTS
  j1 = j1 j2 = j2 w1 = w1 w2 = w2 k1 = k1
  t1 = t1 t2 = t2 t3 = t3 t4 = t4 t5 = t5
  Keys <- MCKeys
  KeyOf <- MCKeyOf
  Tokens <- MCTokens
  NoJob = NoJob
  NoToken = NoToken
  NoLock = NoLock
  Jobs <- MCOneJob
  Workers <- MCWorkers
  StallThreshold = 1
  AbsoluteLimit = 1
  LockTTL = 1
  TaskTimeLimit = 2
  ZombieSilence = 0
  Kinds = {"crash", "duplicate", "raise", "abort", "redis", "cancel", "delete"}
  MaxIncidents = 2
  PastFindings = {p1}
  PastScans = {g1, g2, h2}
  Twofold = {g1, g2}
  PastHooks = {h2}
  MaxReruns = 1
  NoAnchor = NoAnchor
SYMMETRY RedeliverySymmetry
CHECK_DEADLOCK FALSE
