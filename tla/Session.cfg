SPECIFICATION LiveSpec
CONSTANTS
  PageCalls = {"click"}
  MaxPairs = 7
  MaxLogins = 1
  MaxExpiries = 1
  MaxLosses = 1
INVARIANTS SessionTypeOK RefreshUsable AtMostOnce LoneCallSurvives
PROPERTY StaleSessionEnds
