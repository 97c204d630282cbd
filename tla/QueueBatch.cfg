\* Two rows in batches of one, one a manual simulation, while settings and schedule are edited.
SPECIFICATION Spec
CONSTANTS
  m1 = m1  m2 = m2
  g1 = g1  g2 = g2
  s1 = s1
  Messages = {m1, m2}
  Worker = w
  Slots = {}
  NoJob = NoJob
  Schedules = {s1}
  NoSchedule = NoSchedule
  ScheduleOf <- AllScheduleOf
  ManualDry = {m1}
  RetryValues = {1}
  DryValues = {TRUE, FALSE}
  DefaultRetries = 1
  BatchLimit = 1
  ZoneLags = {0}
  MaxFaults = 1
INVARIANT ManualDryStaysHome
PROPERTY KeepsPromises
