SPECIFICATION Spec
CONSTANTS
  small = small
  large = large
  Requests = {x1, x2, r3}
  Admins = {r3}
  Plans = {small, large}
  Budget <- MCBudget
  Rate <- MCRate
  ToolLimit <- MCToolLimit
  MaxAttempts = 2
  AttemptCost = 1
  None = None
  Skus = {s1, s2}
  Orders = {x1, x2}
  Owners = {x1, x2}
  Stocks = {1}
  MaxQuantity = 1
  OrderLimit = 1
  Untracked = Untracked
  Edits = {x1, x2, q3}
  Steps = {st1, st2}
  Slugs = {home, shop}
  DefaultSlug = home
  NoSlug = NoSlug
  Pushes = {x1, x2}
  Keys = {k1, k2}
  Projects = {site1, site2}
  Customer = Customer
  NoProject = NoProject
  MaxCommits = 2
  Calls = {x1, x2, c3}
  Operations = {o1}
  Bodies = {b1, b2}
  Conversations = {x1, x2}
  MaxPlans = 1
  MaxFlights = 2
  Nothing = Nothing
  Unsent = Unsent
SYMMETRY Symmetry
INVARIANTS
  
  StoreSafe
  StudioSafe
  GithubSafe
  
  PageSafe
PROPERTIES
  BudgetHeld
  VersionsStay
  CommitsKept
CHECK_DEADLOCK FALSE
