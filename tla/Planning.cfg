\* Two schedules that compete for one place in a tick, two overlapping ticks, and one
\* request of a user, call that fails or tick that dies; two requests of a conversation
\* and its deletion; two requests that make a draft and two that start it.
SPECIFICATION PlanningSpec
CONSTANTS
  Ids = {i1, i2}
  Tickers = {t1, t2}
  Limit = 1
  MaxFailures = 2
  MaxTime = 2
  MaxEvents = 1
  None = None
  Chats = {ask}
  Planners = {plan}
  Images = {draw}
  Providers = {v1, v2}
  ReadLimit = 200
  Window = 40
  MaxMishaps = 1
  Plans = {p1, p2}
  Creates = {c1, c2}
  Starts = {s1, s2}
  MaxSlips = 2
  NoDraft = NoDraft
INVARIANTS
  SchedulesSafe
  ClaimedIsHeld
  ConversationSafe
  DraftsSafe
PROPERTIES
  KeepsFiring
  TurnsEnd
CHECK_DEADLOCK FALSE
