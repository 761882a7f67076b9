\* Two plans, made into drafts.
SPECIFICATION DraftsSpec
CONSTANTS
  Plans = {p1, p2}
  Creates = {c1, c2}
  Starts = {s1}
  MaxSlips = 1
  NoDraft = NoDraft
INVARIANT DeletedWhenAsked
CHECK_DEADLOCK FALSE
