\* Two requests at a time over two checkouts, every disturbance once.
SPECIFICATION Spec
CONSTANTS
    Checkouts = {c1, c2}
    Regs = {r1}
    Jobs = {j1, j2}
    Creators = {j1, j2}
    Fees = {10, 20}
    Disturbances = {"row", "staff", "fee", "off", "crash", "network"}
    MaxTries = 1
    MaxMoves = 1
    None = None
SYMMETRY Symmetry
INVARIANTS
    TypeOK CaptureNotLost PaidRowIsCaptured SeatPaidByCapture OneMailPerPayment
PROPERTIES
    PaymentNeverTakesASeat SettledIsFinal ImplementsLedger
