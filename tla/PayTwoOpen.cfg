\* Two requests open a checkout for one seat; nothing else goes wrong.
SPECIFICATION Spec
CONSTANTS
    Checkouts = {c1, c2}
    Regs = {r1}
    Jobs = {j1, j2}
    Creators = {j1, j2}
    Fees = {10, 20}
    Disturbances = {}
    MaxTries = 0
    MaxMoves = 0
    None = None
INVARIANTS
    OnlyNewestPayable
