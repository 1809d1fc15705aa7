\* Staff edit rows while the system seats people; sign-up open until the start.
\* Every request of the desk and the door comes to an end.
SPECIFICATION FairSpec
CONSTANTS
    a = a  b = b  c = c  d = d
    Members = {a, b}
    Jobs = {j1, j2}
    Capacities = {1, 2}
    Reserved = 0
    Priced = FALSE
    GenderLimits = FALSE
    Pool <- OnePool
    PoolCap <- NoCaps
    Coached = {}
    OpenStages = {"early", "door"}
    LastStage = "started"
    Disturbances = {"desk", "cancel", "capacity"}
    MaxMoves = 1
    None = None
PROPERTIES
    AdmittedWithinCapacity JobsFinish
\* Nothing need happen once the event has started.
CHECK_DEADLOCK FALSE
