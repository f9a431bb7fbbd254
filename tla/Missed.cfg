CONSTANTS
  d1 = d1
  t1 = t1
  r1 = r1
  Device = {d1}
  Req = {r1}
  FleetAutoAdopt = FALSE
  TaskId = {t1}
  NoTask = NoTask
  MaxAttempts = 1
  InboxBound = 1
  DelayBound = 1
  Operations = {"create"}
SPECIFICATION FairControlSpec
PROPERTY MissedIsRecovered
