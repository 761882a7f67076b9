SPECIFICATION FairSpec
CONSTANTS
  Instances = {i1, i2}
  Requests = {q1, q2}
  Values = {v1, v2}
  Batches = 2
  MaxAttempts = 2
  MaxCrashes = 1
  None = None
INVARIANTS
  CloudSafe
  
PROPERTIES
  CheckpointsKept
  
CHECK_DEADLOCK FALSE
