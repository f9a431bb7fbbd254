CONSTANTS
  d1 = d1
  t1 = t1
  t2 = t2
  Device = {d1}
  TaskId = {t1, t2}
  NoTask = NoTask
  MaxAttempts = 3
  InboxBound = 2
  DelayBound = 2
SPECIFICATION Spec
INVARIANTS
  TypeOK
  OneLoopPerDevice
  LoopsAreRegistered
  NotifyOnlyAccepted
  SupervisorInv
PROPERTIES
  ImplementsAutoAdopt
  SpawnIsServed
  ShutdownEnds
