CONSTANTS
    HardMax = 3
    Limits = {2, 3}
    PaddlePositions = {FALSE}
    Prompt = {"isr"}
    Delayed = FALSE
SPECIFICATION Spec
INVARIANTS
    EnergizedOnlyWhileCommanded
    EnergizedIsMarked
