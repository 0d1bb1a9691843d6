SPECIFICATION Spec
CONSTANTS
  Invokers = {a, b}
  MaxAttempts = 3
  MaxWorkers = 5
  Free = Free
INVARIANTS
  LauncherInv
  NoOrphan
CHECK_DEADLOCK FALSE
