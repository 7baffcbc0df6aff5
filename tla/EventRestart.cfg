SPECIFICATION Spec
CONSTANTS
    Events = {e1}
    Schedules <- FewSchedules
    Absent = Absent
    Gone = Gone
    Idle = Idle
    MaxTime = 3
    MaxStops = 1
    MaxExtras = 0
    MaxBalances = 0
    Overtaking = FALSE
    Failing = FALSE
PROPERTIES LifecycleFires
CHECK_DEADLOCK FALSE
