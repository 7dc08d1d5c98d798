SPECIFICATION Spec
CONSTANTS
  Tickets = {t1}
  Requests = {r1, r2, r3}
  Operations = {"update", "reopen"}
  Statuses = {"PENDING", "RESOLVED"}
  Priorities = {"HIGH"}
  Serial = TRUE
  MaxNow = 1
  Ratings = {1}
  ResponseTarget <- MCResponseTarget
  ResolutionTarget <- MCResolutionTarget
  Ruled <- MCRuled
  AddBusinessMinutes <- MCAddBusinessMinutes
  NULL = NULL
  KEEP = KEEP
CHECK_DEADLOCK FALSE
INVARIANT OpenMeansRunning
