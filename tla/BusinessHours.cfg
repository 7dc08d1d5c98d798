SPECIFICATION SumSpec
CONSTANTS
  DayLength = 3
  WeekLength = 2
  MaxDaysScanned = 2
  Schedules <- MCSchedules
  HolidaySets <- MCHolidaySets
  Starts <- MCStarts
  Targets <- MCTargets
  Requests = {r1, r2}
  Webhooks = {w1}
  Wants <- MCWants
  Concurrency = 2
  MaxChanges = 3
  MaxFaults = 1
  NULL = NULL
  TicketPages = {k1, k2}
  Typists = {ann}
  MaxMoves = 3
  MaxConnects = 2
  MaxEmits = 2
  Tabs = {c1}
  Calls = {k1, k2}
  CrossSite = TRUE
  MaxGen = 3
CHECK_DEADLOCK FALSE
INVARIANTS TypeOK DueDateIsRight GivesUpOnlyIfHopeless
  OnlyFailuresAreMissed LastWordIsTheStatus
  TypesOK LoneTabRaisesNoAlarm RefusedOnlyIfOvertaken
  RoomFollowsPage TypingWillEnd
PROPERTIES WalkEnds QueuesDrain
