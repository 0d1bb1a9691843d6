SPECIFICATION FairSpec
CONSTANTS
  MaxSteps = 2
  MaxEvents = 4
  MaxStarts = 2
  SecondInstance = FALSE
INVARIANTS
  JournalHonest
  VerdictsAgree
PROPERTIES
  RunReported
  CancelObeyed
CHECK_DEADLOCK FALSE
