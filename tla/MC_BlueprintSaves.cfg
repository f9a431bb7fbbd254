SPECIFICATION Spec
CONSTANTS
  Family = {}
  Word = {"core"}
  Inherited = {}
  TooLong = {}
  Exact = 4
  Ids = {1, 2}
  Home <- Blank
  Typed <- OtherTexts
  Files = {}
  Starters = {}
  Names <- OtherNames
  HostNames = {}
  MaxEdits = 1
  MaxOps = 4
  MaxValidations = 0
  MaxDevices = 0
INVARIANTS NoCrossSave 
CHECK_DEADLOCK FALSE
