SPECIFICATION Spec
CONSTANTS
  MaxSteps = 1
  MaxEvents = 2
  MaxStarts = 0
  SecondInstance = FALSE
PROPERTY
  TerminalImmutable
CHECK_DEADLOCK FALSE
