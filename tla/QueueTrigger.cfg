\* Without the ticker: the signal of Enqueue alone gets new rows processed.
SPECIFICATION TriggerSpec
CONSTANTS
  m1 = m1  m2 = m2
  g1 = g1  g2 = g2
  s1 = s1
  Messages = {m1, m2}
  Worker = w
  Slots = {g1}
  NoJob = NoJob
  Schedules = {}
  NoSchedule = NoSchedule
  ScheduleOf <- NoScheduleOf
  ManualDry = {}
  RetryValues = {0}
  DryValues = {FALSE}
  DefaultRetries = 1
  BatchLimit = 2
  ZoneLags = {0}
  MaxFaults = 0
PROPERTY TriggerSuffices
