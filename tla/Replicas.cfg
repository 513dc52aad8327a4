\* Two replicas share a good and an unparseable event; the database may fail.
CONSTANTS
  w1 = w1
  w2 = w2
  a = a
  b = b
  x = x
  y = y
  i = i
  j = j
  k = k
  Event = {a, x}
  EventId = {i, j, k}
  IdOf <- MCIdOf
  Kind <- XUnparseable
  Worker = {w1, w2}
  Fault = {"db"}
  MaxPublished = 2
  StreamMaxlen = 2
  BatchSize = 2
  MaxDeliveries = 2
  RateAttempts = 1
  DbAttempts = 1
  MaxCrashes = 0
SPECIFICATION Spec
SYMMETRY Replicas
INVARIANTS NoSilentLoss ExhaustedMeansDelivered
CHECK_DEADLOCK FALSE
