\* One job, two cycles that may overlap, and two losses, stops or other interventions.
SPECIFICATION FairSpec
CONSTANTS
  Jobs = {j1}
  MaxCycles = 2
  MaxClaims = 2
  MaxReports = 1
  MaxEvents = 2
  None = None
INVARIANTS
  DesktopSafe
PROPERTIES
  OfferedJobsEnd
CHECK_DEADLOCK FALSE
