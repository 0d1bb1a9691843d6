SPECIFICATION FairSpec
CONSTANTS
  Invokes = {i1, i2}
  Pings = {p1}
  Stop = stop
  NoCall = NoCall
  QueueCap = 1
  PipeCap = 1
INVARIANTS
  WorkerInv
  ShutdownReaps
PROPERTIES
  DeathWakesCallers
CHECK_DEADLOCK FALSE
