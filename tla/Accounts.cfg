SPECIFICATION SumSpec
CONSTANTS
  SessionIds = {k1, k2}
  Browsers = {b1, b2}
  Flaky = {b2}
  Handlers = {h1, h2, h3}
  MaxNow = 2
  Ttl = 1
  NULL = NULL
  Requests = {k1, k2}
  Old = t0
  Staff = {ann}
  Customers = {cat, dan}
  Requester = cat
  Workload = 2
  KEEP = KEEP
SYMMETRY Symmetric
CHECK_DEADLOCK FALSE
INVARIANTS
  TypeOK TicketDeskTypeOK NoFalseAlarm
  LifecycleIsRecorded
  NumbersAreGapless CustomersSeeTheirs  ToldOnce
PROPERTY RevokedForGood
