SPECIFICATION Spec
CONSTANTS
    RemovedByHand = FALSE
    ReleasedDuringCheck = FALSE
INVARIANT
    OperatorAlwaysHasTheOverride
