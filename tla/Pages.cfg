\* Three rows with one timestamp, two below the boundary, one of another user; pages of two.
CONSTANTS
  u = u
  v = v
  User = u
  None = None
  Txn <- MCTxn
  Window <- MCWindow
  Limit = 2
SPECIFICATION Spec
INVARIANTS NothingSkipped BoundaryOnce
PROPERTIES TotalCoversPage
CHECK_DEADLOCK FALSE
