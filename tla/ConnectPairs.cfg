\* A receiver and three candidates, one of them the coach; two requests at once, two
\* drops or changes in all.  A drop shows two of the three; a gate has two questions.
SPECIFICATION Spec
CONSTANTS
    a = a
    b = b
    c = c
    d = d
    q1 = q1
    q2 = q2
    r1 = r1
    r2 = r2
    None = None
    Members = {a, b, c, d}
    Receivers = {a}
    CoachUser = c
    DropSize = 2
    Questions = {q1, q2}
    GateSize = 2
    AlignMin = 2
    FirstGate <- Yes
    Replies <- FirstYes
    Days = 2
    Requests = {r1, r2}
    Operations = {"drop", "gate", "respond", "pick", "block", "exclude", "repick"}
    MaxTurns = 2
INVARIANTS
    TypeOK OneReadPerDrop OnlyReadersSpark
PROPERTIES
    DropPinned
SYMMETRY Symmetry
CHECK_DEADLOCK FALSE
