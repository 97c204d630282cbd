\* The documented way out of processing, against a process that ends in the middle.
SPECIFICATION FairSpec
CONSTANTS
  m1 = m1  m2 = m2
  g1 = g1  g2 = g2
  s1 = s1
  Messages = {m1}
  Worker = w
  Slots = {g1}
  NoJob = NoJob
  Schedules = {}
  NoSchedule = NoSchedule
  ScheduleOf <- NoScheduleOf
  ManualDry = {}
  RetryValues = {1}
  DryValues = {FALSE}
  DefaultRetries = 1
  BatchLimit = 1
  ZoneLags = {0}
  MaxFaults = 1
PROPERTY ProcessingEnds
