SPECIFICATION FairSpec
INVARIANTS DeadLetterIsEarned
PROPERTIES RowsMoveForward ImplementsPromise EveryDeliverySettles
CONSTANTS
  r1 = r1 r2 = r2 w1 = w1 w2 = w2
  Rows <- MCRows
  Retriers <- MCRetriers
  Garbled <- MCGarbled
  MaxRetryAttempts = 2
  BatchLimit = 2
  MaxCrashes = 1
CHECK_DEADLOCK FALSE
