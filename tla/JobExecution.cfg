SPECIFICATION FairSpec
CONSTANTS
  Nodes <- MCNodes
  Role <- MCRole
  RunGraphs <- MCRunGraphs
  Executions <- MCExecutions
  Keys = {k1, k2}
  Versions = {v1, v2}
  MaxTouches = 1
  Nothing = Nothing
INVARIANTS
  JobSafe
PROPERTIES
  AcceptedIsRunnable
  OutputsKept
  ExecutionsEnd
CHECK_DEADLOCK FALSE
