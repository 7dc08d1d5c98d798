SPECIFICATION MCFairSpec
CONSTANTS
  Tickets = {t1}
  Requests = {r1}
  Operations = {"update", "comment"}
  Statuses = {"OPEN", "PENDING", "RESOLVED"}
  Priorities = {"HIGH"}
  Serial = TRUE
  MaxNow = 3
  Ratings = {1}
  Sweeps = {s1}
  EscalateAt = 50
  ResponseTarget <- MCResponseTarget
  ResolutionTarget <- MCResolutionTarget
  Ruled <- MCRuled
  AddBusinessMinutes <- MCAddBusinessMinutes
  NULL = NULL
  KEEP = KEEP
CHECK_DEADLOCK FALSE
INVARIANTS DeskTypeOK BreachLoggedOnce BreachIsReal MailIsBacked
PROPERTY SweepCatchesUp
