\* One replica restarted once, more events than a batch, one of them unparseable, a failing database.
CONSTANTS
  w1 = w1
  w2 = w2
  a = a
  b = b
  x = x
  y = y
  i = i
  j = j
  k = k
  Event = {a, x}
  EventId = {i, j, k}
  IdOf <- MCIdOf
  Kind <- XUnparseable
  Worker = {w1}
  Fault = {"db"}
  MaxPublished = 3
  StreamMaxlen = 3
  BatchSize = 2
  MaxDeliveries = 2
  RateAttempts = 1
  DbAttempts = 1
  MaxCrashes = 1
SPECIFICATION FairSpec
PROPERTIES EventuallySettled
CHECK_DEADLOCK FALSE
