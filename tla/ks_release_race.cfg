SPECIFICATION Spec
CONSTANTS
    RemovedByHand = FALSE
    ReleasedDuringCheck = TRUE
INVARIANT
    CalmReleaseRespected
