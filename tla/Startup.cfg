\* One worker (workers share only the table and the group): two outages of Postgres, three
\* failures and two signals at any moment, two probes per start.
CONSTANTS
  w1 = w1
  Worker = {w1}
  Attempts = 2
  MaxOutages = 2
  MaxFailures = 3
  MaxSignals = 2
SPECIFICATION FairSpec
INVARIANTS TypeOK VerdictIsHonest NothingRunsTooEarly NoUseAfterClose
PROPERTIES StopsWhenAsked CrashEndsWorker ComesUp
CHECK_DEADLOCK FALSE
