SPECIFICATION Spec
CONSTANTS
    N = 2
    Identified = {1, 2}
    Policies = {"skip", "suffix", "fail"}
    MaxSuffix = 1
    Bound <- FaultBound
    MaxSurprises = 2
INVARIANTS TypeOK  DoneStepWasPlaced  UndoneLeavesNothingClaimed ClaimedWasPlaced
PROPERTIES NeverOverwrites OnlyClaimedRemoved
CHECK_DEADLOCK FALSE
