CONSTANTS
    Cap = 2
    PipeRoom = 2
    MaxOut = 3
    Conns = {c1}
    Allowed <- MCAllowed
    Requests <- MCRequests
    Archive <- MCArchive
    Exe <- MCExe
    MaxPins = 1
SPECIFICATION MCSpec
CHECK_DEADLOCK FALSE
INVARIANTS ReportTrue NothingOutlives  RuntimeWhole
PROPERTIES ExecReturns
