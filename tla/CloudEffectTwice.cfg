SPECIFICATION Spec
CONSTANTS
  Instances = {i1, i2}
  Requests = {q1}
  Values = {v1}
  Batches = 1
  MaxAttempts = 1
  MaxCrashes = 1
  None = None
INVARIANT EffectsOnce
CHECK_DEADLOCK FALSE
