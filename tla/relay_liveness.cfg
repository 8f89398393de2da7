CONSTANTS
    HardMax = 2
    Limits = {1}
    PaddlePositions = {TRUE, FALSE}
    Prompt = {}
    Delayed = FALSE
SPECIFICATION FairSpec
PROPERTIES
    ContactOpens
    TripEndsCycle
    FaultReboots
