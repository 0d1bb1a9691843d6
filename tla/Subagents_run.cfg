SPECIFICATION MCSpec
CONSTANTS
    Contents = {"reader", "writer", "missing"}
    Profile <- MCProfile
    Registered = {"files.read", "git.status", "github.push"}
    Specialists <- MCSpecialists
    Budget <- MCBudget
    Allocations <- MCAllocations
    MAX_DEPTH = 2
    MAX_SUBAGENTS_PER_RUN = 2
    MaxEdits = 1
    MaxSpawns = 3
    MaxRounds = 1
INVARIANTS WithinLayers LedgerWithinBudget CallsAuthorised
CHECK_DEADLOCK FALSE
