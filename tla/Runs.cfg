\* In production: one attempt under two handlers that overlap and may die; two attempts
\* and two nodes under one handler that may die twice.  The reference: one run, two
\* attempts, a handler at a time.
SPECIFICATION RunsSpec
CONSTANTS
  None = None
  NoValue = NoValue
  Nodes = {n1}
  Handlers = {h1, h2}
  MaxAttempts = 1
  MaxCrashes = 1
  SerialNodes = {n1, n2}
  SerialHandlers = {h1}
  SerialAttempts = 2
  SerialCrashes = 2
  Runs = {r1}
  RunNodes = {n1}
  RunAttempts = 2
  Slots = {c1}
  Overlap = FALSE
  Timeouts = {1, 3}
  ApprovalTTL = 2
  MaxJobs = 3
  MaxReports = 3
  MaxTime = 4
INVARIANTS
  ProductionSafe
  RunSound
  SerialSound
  RunSafe
PROPERTIES
  FinalIsFinal
  EventuallySettled
  FinalRunsStay
  RunsSettle
CHECK_DEADLOCK FALSE
