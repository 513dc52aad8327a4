\* One replica that may crash twice, one event submitted twice, every failure.
CONSTANTS
  w1 = w1
  w2 = w2
  a = a
  b = b
  x = x
  y = y
  i = i
  j = j
  k = k
  Event = {a, b}
  EventId = {i, j, k}
  IdOf <- MCIdOf
  Kind <- AllGood
  Worker = {w1}
  Fault = {"rate", "db", "unclassified", "redis"}
  MaxPublished = 2
  StreamMaxlen = 2
  BatchSize = 2
  MaxDeliveries = 2
  RateAttempts = 1
  DbAttempts = 2
  MaxCrashes = 2
SPECIFICATION Spec
INVARIANTS TypeOK NoSilentLoss
PROPERTIES FirstWriteWins
CHECK_DEADLOCK FALSE
