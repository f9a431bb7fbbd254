CONSTANTS
  d1 = d1
  r1 = r1
  r2 = r2
  Device = {d1}
  Req = {r1, r2}
  FleetAutoAdopt = TRUE
  Operations = {"create", "fail", "pause", "resume", "teardown", "destroy", "patchFleet", "patchDevice", "device", "lose", "webcrash"}
SPECIFICATION LiveSpec
INVARIANTS
  TransientHasOwner
PROPERTIES
  TransientStatesEnd
CHECK_DEADLOCK FALSE
