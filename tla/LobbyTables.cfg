\* Two members inside and one outside, two requests at once, one disturbance.
SPECIFICATION Spec
CONSTANTS
    e1 = e1
    Members = {1, 2, 3}
    Events = {e1}
    Start <- TwoInside
    Past <- OldFriends
    Tries <- Taps
    Workers = {w1, w2}
    MaxSignals = 1
    Troubles = {"undo", "gate", "block", "reschedule"}
    MaxTroubles = 1
SYMMETRY Requests
CHECK_DEADLOCK FALSE
INVARIANTS
    TypeOK RevealedIffMutual EncounterIffBothConfirmed NoCircularWait
PROPERTIES
    HiddenUntilRestored OnlyPresentMembersWritten SignalsAreConsent
