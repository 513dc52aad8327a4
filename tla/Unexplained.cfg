\* The same events; 0.145 is stored as 0.15.
CONSTANTS
  tie_odd = tie_odd
  tie_even = tie_even
  refund = refund
  resubmitted = resubmitted
  fine = fine
  i = i
  j = j
  k = k
  l = l
  u = u
  v = v
  t1 = t1
  t2 = t2
  Event = {tie_odd, tie_even, refund, resubmitted, fine}
  EventId = {i, j, k, l}
  User = {u, v}
  Task = {t1, t2}
  IdOf <- MCIdOf
  UserOf <- MCUserOf
  AmountOf <- MCAmountOf
  Rate = {1000, 350, 355}
  AmountScale = 1000
  ColumnScale = 100
  RateScale = 1000
  RateColumnScale = 100
  CentScale = 10
SPECIFICATION Spec
INVARIANTS Explained
