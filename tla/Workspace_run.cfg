SPECIFICATION Spec
CONSTANTS
    NActors = 2
    MaxVersion = 3
    MaxCommits = 3
    MaxSecond = 1
    MaxCalls = 4
    MaxCrashes = 1
    Marks = {"m"}
CHECK_DEADLOCK FALSE
INVARIANTS
    FileWhole
    MilestoneHasTag
PROPERTIES
    HistoryKept
    RestoreKeepsWork
    OverwriteKeepsOld
