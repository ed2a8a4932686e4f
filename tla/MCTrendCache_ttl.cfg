\* A time to live of two ticks, and four ticks; two refreshes.
CONSTANTS
  api = api  job = job
  t1 = t1  t2 = t2
  Process = {api, job}
  Reader = {t1, t2}
  ProcessOf <- MCProcessOf
  TTL = 2
  NoEntry = none
  MaxTime = 4
  MaxTrends = 2
SYMMETRY Symmetry
SPECIFICATION Spec
INVARIANTS TypeOK FreshEnough
CHECK_DEADLOCK FALSE
