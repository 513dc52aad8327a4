\* Two replicas, one event that never succeeds or does late, two crashes.
CONSTANTS
  w1 = w1
  w2 = w2
  a = a
  b = b
  x = x
  y = y
  i = i
  j = j
  k = k
  Event = {a}
  EventId = {i, j, k}
  IdOf <- MCIdOf
  Kind <- AllGood
  Worker = {w1, w2}
  Fault = {"db"}
  MaxPublished = 1
  StreamMaxlen = 1
  BatchSize = 1
  MaxDeliveries = 3
  RateAttempts = 1
  DbAttempts = 1
  MaxCrashes = 2
SPECIFICATION FairSpec
INVARIANTS DeliveryBound
PROPERTIES EventuallySettled
CHECK_DEADLOCK FALSE
