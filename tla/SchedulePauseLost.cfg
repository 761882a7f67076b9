\* One schedule, one tick, a user.
SPECIFICATION Spec
CONSTANTS
  Ids = {i1}
  Tickers = {t1}
  Limit = 1
  MaxFailures = 2
  MaxTime = 2
  MaxEvents = 1
  None = None
INVARIANT PauseIsKept
CHECK_DEADLOCK FALSE
