CONSTANTS
  d1 = d1
  t1 = t1
  r1 = r1
  Device = {d1}
  Req = {r1}
  FleetAutoAdopt = TRUE
  TaskId = {t1}
  NoTask = NoTask
  MaxAttempts = 1
  InboxBound = 1
  DelayBound = 1
  Operations = {"create", "fail", "pause", "resume", "teardown", "destroy", "patchDevice", "device", "inform", "lose", "webcrash"}
INIT ControlInit
NEXT ControlNext
INVARIANTS
  ControlTypeOK
  WishesAreServed
  AdoptedMeansAccepted
  CommandsFollowRows
