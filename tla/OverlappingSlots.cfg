SPECIFICATION Spec
CONSTANTS
  DayLength = 3
  WeekLength = 2
  MaxDaysScanned = 2
  Schedules <- MCSchedules
  HolidaySets <- MCHolidaySets
  Starts <- MCStarts
  Targets <- MCTargets
CHECK_DEADLOCK FALSE
INVARIANT MinutesAreBusinessMinutes
