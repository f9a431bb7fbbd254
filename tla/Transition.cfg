CONSTANTS
  d1 = d1
  r1 = r1
  Device = {d1}
  Req = {r1}
  FleetAutoAdopt = FALSE
  Operations = {"create", "pause"}
SPECIFICATION SvcSpec
PROPERTY TransitionLeavesOthersAlone
