\* One schedule under a user's edits, a failed statement or a restart at any point.
SPECIFICATION Spec
CONSTANTS
  s1 = s1  s2 = s2
  Schedules = {s1}
  DayLength = 4
  WeekLength = 2
  Horizon = 5
  Plans <- EditedPlans
  Configs <- TwoWindows
  HolidayDates = {1}
  NoCopy = NoCopy
  AlwaysAwake = FALSE
  MaxEdits = 2
  MaxFaults = 1
INVARIANTS TypeOK OncePerDay
PROPERTY FreshFacts
