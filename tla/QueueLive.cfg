\* Two rows compete for batches of one, every send may fail: both come to an end.
SPECIFICATION FairSpec
CONSTANTS
  m1 = m1  m2 = m2
  g1 = g1  g2 = g2
  s1 = s1
  Messages = {m1, m2}
  Worker = w
  Slots = {}
  NoJob = NoJob
  Schedules = {}
  NoSchedule = NoSchedule
  ScheduleOf <- NoScheduleOf
  ManualDry = {}
  RetryValues = {1}
  DryValues = {FALSE}
  DefaultRetries = 1
  BatchLimit = 1
  ZoneLags <- AnyLag
  MaxFaults = 0
PROPERTY EverythingEnds
