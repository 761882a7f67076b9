\* Two attempts, two handlers that overlap.
SPECIFICATION Spec
CONSTANTS
  Nodes = {n1}
  Handlers = {h1, h2}
  MaxAttempts = 2
  MaxCrashes = 0
  None = None
INVARIANT NoJobWithoutApproval
CHECK_DEADLOCK FALSE
