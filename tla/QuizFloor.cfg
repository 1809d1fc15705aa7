\* One host tab, two requests; four members are in when it starts, one comes late.
SPECIFICATION Spec
CONSTANTS
    Men = {1, 3}
    Women = {2, 4, 5}
    MaxTables = 4
    MaxRounds = 2
    Questions = 1
    Hosts = {h1}
    Clerks = {k1, k2}
    Operations = {"door", "undo", "assign", "dissolve", "consolidate", "status", "reselect", "reset"}
    Opening = {1, 2, 3, 4}
    MaxCorrections = 2
INVARIANTS
    TypeOK OnlyPresentSeated CreditsAgree
PROPERTIES
    NobodyMovesMidRound
SYMMETRY Requests
CHECK_DEADLOCK FALSE
