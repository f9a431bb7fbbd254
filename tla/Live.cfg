SPECIFICATION LiveSpec
CONSTANTS
  BufferSize = 2
  Budgets <- Eventful
PROPERTY EventsKeepFresh
CHECK_DEADLOCK FALSE
