SPECIFICATION Spec
CONSTANTS
    RemovedByHand = TRUE
    ReleasedDuringCheck = FALSE
INVARIANT
    LatchHolds
