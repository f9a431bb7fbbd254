SPECIFICATION Spec
CONSTANTS
  Family = {"switch"}
  Word = {"core", "long", "constructor"}
  Inherited <- InheritedNames
  TooLong <- LongNames
  Exact = 4
  Ids = {1, 2}
  Home <- HomeText
  Typed <- TypedTexts
  Files <- FileTexts
  Starters <- StarterTexts
  Names <- NameSet
  HostNames <- TypedHosts
  MaxEdits = 1
  MaxOps = 2
  MaxValidations = 2
  MaxDevices = 3
INVARIANTS EditorTypeOK CanvasDrawsDoc CanvasColumns ValidationCatchesUp
  CanvasKeepsDocSound
CHECK_DEADLOCK FALSE
