\* Liveness: callbacks and a creator compete; one crash or lost call.
SPECIFICATION FairSpec
CONSTANTS
    Checkouts = {c1, c2}
    Regs = {r1}
    Jobs = {j1, j2}
    Creators = {j1}
    Fees = {10}
    Disturbances = {"crash", "network"}
    MaxTries = 0
    MaxMoves = 1
    None = None
PROPERTIES
    JobsFinish AskedIsBooked
