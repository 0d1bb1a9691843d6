CONSTANTS
  Conversations = {{"user"}, {"user", "assistant", "tool"}}
  BatchSize = 2
  JobCap = 1
  CommandCap = 1
  MaxMemories = 2
  MaxTime = 1
SPECIFICATION Spec
INVARIANTS ReviewGate ReadyHasVector
PROPERTIES RowsStand
