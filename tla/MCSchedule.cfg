SPECIFICATION ScheduleSpec
CONSTANTS
  MinuteTicks = 6
  HourMinutes = 6
  DayHours = 4
  WeekDays = 3
  Workdays = {1, 2}
  MinInterval = 2
  Typed = {}
  Default <- DefaultSchedule
INVARIANT MinimumIntervalHolds
CHECK_DEADLOCK FALSE
