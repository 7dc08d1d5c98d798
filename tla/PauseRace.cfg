SPECIFICATION Spec
CONSTANTS
  Tickets = {t1}
  Requests = {r1, r2}
  Operations = {"update"}
  Statuses = {"OPEN", "PENDING", "ON_HOLD"}
  Priorities = {"HIGH"}
  Serial = FALSE
  MaxNow = 1
  Ratings = {1}
  ResponseTarget <- MCResponseTarget
  ResolutionTarget <- MCResolutionTarget
  Ruled <- MCRuled
  AddBusinessMinutes <- MCAddBusinessMinutes
  NULL = NULL
  KEEP = KEEP
CHECK_DEADLOCK FALSE
PROPERTY PauseKeepsItsStart
