SPECIFICATION Spec
CONSTANTS
  SessionIds = {s1}
  Browsers = {b1}
  Flaky = {}
  Handlers = {h1, h2}
  MaxNow = 1
  Ttl = 1
  NULL = NULL
CHECK_DEADLOCK FALSE
INVARIANT SuspensionIsEffective
