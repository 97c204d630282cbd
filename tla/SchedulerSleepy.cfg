\* Two schedules with any plans on a machine that sleeps when it likes.
SPECIFICATION Spec
CONSTANTS
  s1 = s1  s2 = s2
  Schedules = {s1, s2}
  DayLength = 4
  WeekLength = 3
  Horizon = 10
  Plans <- ManyPlans
  Configs <- Windows
  HolidayDates = {1, 2}
  NoCopy = NoCopy
  AlwaysAwake = FALSE
  MaxEdits = 0
  MaxFaults = 0
SYMMETRY ScheduleSymmetry
INVARIANT CountdownAgrees
PROPERTY NothingForgotten
