SPECIFICATION FairSpec
CONSTANTS
  t1 = t1
  t2 = t2
  Ids <- MCIds
  Schedules <- MCSchedules
  None = None
  DaysPerWeek = 2
  MinutesPerDay = 3
  TicksPerMinute = 1
INVARIANTS
  TimersFollow
  RecordedIsActed
PROPERTIES
  FollowsSchedule
