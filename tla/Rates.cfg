\* Two tasks, one known and one unknown currency, outages and restarts over seven instants.
CONSTANTS
  consume = consume
  reclaim = reclaim
  eur = eur
  xts = xts
  Task = {consume, reclaim}
  Currency = {eur, xts}
  Known = {eur}
  CacheTtl = 2
  MaxLatency = 2
  MaxTime = 6
SPECIFICATION Spec
SYMMETRY Tasks
INVARIANTS BoundedStaleness OutageShows
