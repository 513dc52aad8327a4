\* A stream capped at one entry, two events with different ids and no failure at all.
CONSTANTS
  w1 = w1
  w2 = w2
  a = a
  b = b
  x = x
  y = y
  i = i
  j = j
  k = k
  Event = {a, x}
  EventId = {i, j, k}
  IdOf <- MCIdOf
  Kind <- AllGood
  Worker = {w1}
  Fault = {}
  MaxPublished = 2
  StreamMaxlen = 1
  BatchSize = 2
  MaxDeliveries = 2
  RateAttempts = 1
  DbAttempts = 1
  MaxCrashes = 0
SPECIFICATION Spec
INVARIANTS NothingLost
CHECK_DEADLOCK FALSE
