SPECIFICATION Spec
CONSTANTS
  MaxSteps = 2
  MaxEvents = 3
  MaxStarts = 1
  SecondInstance = TRUE
INVARIANTS
  TypeOK
  SeqGapless
  ToolsAccounted
  EventsLinked
PROPERTIES
  ImplementsEventStream
CHECK_DEADLOCK FALSE
