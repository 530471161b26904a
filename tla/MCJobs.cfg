SPECIFICATION Spec
CONSTANTS
  Workers = {w1, w2}
  Days <- ThreeDays
  Events = {1, 2}
  ReminderDays = 1
  MaxFailures = 2
  MaxStarted = 3
  MaxFaults = 1
  RemindBefore = 1
  Schedules <- SomeSchedules
  Contributions = {c1, c2}
  Targets = {1, 3}
SYMMETRY Symmetric
INVARIANTS NoticeOnce RevokedStaysQuiet OccurrencesKept GoalsKept
PROPERTIES NotRevived
CHECK_DEADLOCK FALSE
