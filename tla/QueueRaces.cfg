\* One row contended by the worker and two "send now" goroutines, with a retry and a fault.
SPECIFICATION Spec
CONSTANTS
  m1 = m1  m2 = m2
  g1 = g1  g2 = g2
  s1 = s1
  Messages = {m1}
  Worker = w
  Slots = {g1, g2}
  NoJob = NoJob
  Schedules = {}
  NoSchedule = NoSchedule
  ScheduleOf <- NoScheduleOf
  ManualDry = {}
  RetryValues = {1}
  DryValues = {FALSE}
  DefaultRetries = 1
  BatchLimit = 2
  ZoneLags = {0}
  MaxFaults = 1
SYMMETRY SlotSymmetry
INVARIANTS TypeOK OneHolder AckedOnce HistoryIsTrue NoEarlyGiveUp NobodyStrands
PROPERTY FinalStays
