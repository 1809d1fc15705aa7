\* A premium member, one reserved seat and two pools: seats go to those who
\* waited, freed seats are taken.
SPECIFICATION FairSpec
CONSTANTS
    a = a  b = b  c = c  d = d
    Members = {a, b, c}
    Jobs = {j1, j2}
    Capacities = {1, 2}
    Reserved = 1
    Priced = FALSE
    GenderLimits = TRUE
    Pool <- TwoPools
    PoolCap <- OneEach
    Coached = {c}
    OpenStages = {"early"}
    LastStage = "early"
    Disturbances = {"cancel", "capacity", "off"}
    MaxMoves = 2
    None = None
PROPERTIES
    ReservedBlockKept WaitersServedInOrder FreedSeatIsTaken
\* Nothing need happen once the event has started.
CHECK_DEADLOCK FALSE
