SPECIFICATION OutboxSpec
CONSTANTS
  Requests = {r1}
  Webhooks = {w1}
  Wants <- MCWants
  Concurrency = 1
  MaxChanges = 2
  MaxFaults = 1
  NULL = NULL
CHECK_DEADLOCK FALSE
INVARIANT FailedIsRetried
