SPECIFICATION FairSpec
CONSTANTS
    Clients = {c1}
    MaxEdits = 3
    MaxOverlaps = 1
    MaxStops = 1
    MaxFailures = 1
    MaxExecutions = 2
    MaxWorkers = 7
INVARIANTS
    TypeOK
    WorkersAgree
PROPERTIES
    ArchiveHolds
    Settles
CHECK_DEADLOCK FALSE
