CONSTANTS
    HardMax = 2
    Limits = {1, 2}
    PaddlePositions = {TRUE, FALSE}
    Prompt = {"service"}
    Delayed = TRUE
SPECIFICATION Spec
INVARIANTS
    ContactWithinLimit
