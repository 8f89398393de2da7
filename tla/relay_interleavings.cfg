CONSTANTS
    HardMax = 3
    Limits = {2, 3}
    PaddlePositions = {TRUE, FALSE}
    Prompt = {"isr"}
    Delayed = TRUE
SPECIFICATION Spec
INVARIANTS
    ContactWithinLimit
    ClosedBelongsToCycle
PROPERTIES
    LockoutLatched
    CancelledCloseStaysOpen
    MirrorRecloseKeepsTrip
    LeaseSpec
