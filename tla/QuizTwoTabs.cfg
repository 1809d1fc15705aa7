\* Two tabs of the host; everybody is in before the quiz starts.
SPECIFICATION Spec
CONSTANTS
    Men = {1, 3}
    Women = {2, 4}
    MaxTables = 3
    MaxRounds = 3
    Questions = 1
    Hosts = {h1, h2}
    Clerks = {k1}
    Operations = {"door"}
    Opening = {1, 2, 3, 4}
    MaxCorrections = 0
PROPERTIES
    RoundsPlayedOut
CHECK_DEADLOCK FALSE
