\* A stream capped at one entry, with events the pipeline must reject; the rate service may fail.
CONSTANTS
  w1 = w1
  w2 = w2
  a = a
  b = b
  x = x
  y = y
  i = i
  j = j
  k = k
  Event = {a, x, y}
  EventId = {i, j, k}
  IdOf <- MCIdOf
  Kind <- XYRejected
  Worker = {w1}
  Fault = {"rate"}
  MaxPublished = 2
  StreamMaxlen = 1
  BatchSize = 2
  MaxDeliveries = 2
  RateAttempts = 2
  DbAttempts = 1
  MaxCrashes = 1
SPECIFICATION Spec
PROPERTIES RefinesContract
CHECK_DEADLOCK FALSE
