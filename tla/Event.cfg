SPECIFICATION FairSpec
CONSTANTS
    Events = {e1}
    Schedules <- FewSchedules
    Absent = Absent
    Gone = Gone
    Idle = Idle
    MaxTime = 3
    MaxStops = 1
    MaxExtras = 1
    MaxBalances = 1
    Overtaking = TRUE
    Failing = TRUE
INVARIANTS TypeOK Punctual
PROPERTIES DeletedStaysSilent ComesToAnEnd
CHECK_DEADLOCK FALSE
