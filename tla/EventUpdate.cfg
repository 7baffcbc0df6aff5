SPECIFICATION Spec
CONSTANTS
    Events = {e1}
    Schedules <- MovedSchedules
    Absent = Absent
    Gone = Gone
    Idle = Idle
    MaxTime = 4
    MaxStops = 0
    MaxExtras = 1
    MaxBalances = 0
    Overtaking = FALSE
    Failing = FALSE
PROPERTIES LifecycleFires
CHECK_DEADLOCK FALSE
