SPECIFICATION Spec
CONSTANTS
  Tickets = {t1, t2}
  Requests = {r1, r2}
  Operations = {"merge"}
  Statuses = {"OPEN"}
  Priorities = {"HIGH"}
  Serial = TRUE
  MaxNow = 1
  Ratings = {1}
  ResponseTarget <- MCResponseTarget
  ResolutionTarget <- MCResolutionTarget
  Ruled <- MCRuled
  AddBusinessMinutes <- MCAddBusinessMinutes
  NULL = NULL
  KEEP = KEEP
CHECK_DEADLOCK FALSE
INVARIANT MergeHasASurvivor
