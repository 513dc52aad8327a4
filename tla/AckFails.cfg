\* One replica whose XACKs may raise; nothing else fails.
CONSTANTS
  w1 = w1
  w2 = w2
  a = a
  b = b
  x = x
  y = y
  i = i
  j = j
  k = k
  Event = {a}
  EventId = {i, j, k}
  IdOf <- MCIdOf
  Kind <- AllGood
  Worker = {w1}
  Fault = {"redis"}
  MaxPublished = 1
  StreamMaxlen = 1
  BatchSize = 1
  MaxDeliveries = 2
  RateAttempts = 1
  DbAttempts = 1
  MaxCrashes = 0
SPECIFICATION Spec
INVARIANTS StoredIsNotParked
CHECK_DEADLOCK FALSE
