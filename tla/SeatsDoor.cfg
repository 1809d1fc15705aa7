\* The door, money and organisers around one seat, sign-up open until the start.
SPECIFICATION Spec
CONSTANTS
    a = a  b = b  c = c  d = d
    Members = {a, b}
    Jobs = {j1, j2}
    Capacities = {1, 2}
    Reserved = 0
    Priced = TRUE
    GenderLimits = FALSE
    Pool <- OnePool
    PoolCap <- NoCaps
    Coached = {b}
    OpenStages = {"early", "door"}
    LastStage = "started"
    Disturbances = {"cancel", "cash", "noshow", "off", "quiet coach", "crash"}
    MaxMoves = 2
    None = None
SYMMETRY Requests
INVARIANTS
    TypeOK PaidNeverPending
PROPERTIES
    UndoRestoresStatus UndoRestoresCoach
\* Nothing need happen once the event has started.
CHECK_DEADLOCK FALSE
