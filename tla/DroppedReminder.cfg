\* The send time of a CSV import, after the window, on a machine always awake.
SPECIFICATION Spec
CONSTANTS
  s1 = s1  s2 = s2
  Schedules = {s1}
  DayLength = 4
  WeekLength = 2
  Horizon = 12
  Plans <- ImportedPlan
  Configs <- OneWindow
  HolidayDates = {}
  NoCopy = NoCopy
  AlwaysAwake = TRUE
  MaxEdits = 0
  MaxFaults = 0
PROPERTY NothingDropped
