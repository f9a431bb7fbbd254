CONSTANTS
  d1 = d1
  d2 = d2
  t1 = t1
  t2 = t2
  Device = {d1, d2}
  TaskId = {t1, t2}
  NoTask = NoTask
  MaxAttempts = 1
  InboxBound = 1
  DelayBound = 1
SPECIFICATION Spec
PROPERTY ShutdownCancelsAll
