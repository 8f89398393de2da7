CONSTANTS
    HardMax = 2
    Limits = {1, 2}
    PaddlePositions = {TRUE, FALSE}
    Prompt = {"isr"}
    Delayed = FALSE
SPECIFICATION Spec
PROPERTIES
    MirrorNeverRecloses
