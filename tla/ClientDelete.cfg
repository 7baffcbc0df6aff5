SPECIFICATION Spec
CONSTANTS
    Clients = {c1}
    MaxEdits = 3
    MaxOverlaps = 1
    MaxStops = 1
    MaxFailures = 1
    MaxExecutions = 2
    MaxWorkers = 7
INVARIANTS
    DeletedClientIsRemoved
CHECK_DEADLOCK FALSE
