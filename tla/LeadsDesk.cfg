\* Two coaches and the member at once, with two possible leads of one member.
SPECIFICATION Spec
CONSTANTS
    k1 = k1
    k2 = k2
    r1 = r1
    r2 = r2
    None = None
    Coaches = {k1, k2}
    Leads = {1, 2}
    By <- OneMember
    Requests = {r1, r2}
    Sweeps = {}
    Operations = {"notes", "approve", "claim", "start", "schedule", "completed", "missed", "consent", "refuse", "answer yes", "answer no", "share", "co yes", "co no", "member", "block", "active"}
    MaxActs = 5
    MaxTurns = 1
    MaxCrashes = 0
INVARIANTS
    TypeOK OneCrushPerEvent OneCoachPerHalf
PROPERTIES
    FinalStaysFinal
SYMMETRY Symmetry
CHECK_DEADLOCK FALSE
