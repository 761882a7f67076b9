SPECIFICATION MCSpec
CONSTANTS
  Tenants = {t1, t2}
  Codes = {k1, k2}
  Devices = {d1, d2}
  Jobs = {j1}
  Events = {e1, e2}
  Requests = {r1, r2}
  PairCalls = {p1, p2}
  MaxAttempts = 2
  Lease = 1
  PairTTL = 1
  TokenTTL = 3
  MaxTime = 2
  MaxLog = 2
  None = None
  Reports = {e3}
  Finals = {e1, e2}
  Folders = {t1, t2}
  DeviceLimit = 1
  ReportLog = 3
  Calls = {r1, r2}
  Keys = {k1, k2, k3}
  Users = {u1}
  FieldSets = {d1, d2}
  MaxRecords = 1
  MaxVersion = 2
  Roles = {1, 3}
  Absent = Absent
  MakingKey = k3
  Gone = Gone
  Unread = Unread
SYMMETRY Symmetry
INVARIANTS
  AgentsSafe
  TablesSafe
  
PROPERTIES
  RevocationIsFinal
  KeepsPromise
  TablesKeepPromise
  
CHECK_DEADLOCK FALSE
