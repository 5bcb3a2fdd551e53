SPECIFICATION FairSpec
CONSTANTS
    N = 2
    Identified = {1}
    Policies = {"skip", "suffix"}
    MaxSuffix = 1
    Bound <- CrashBound
    MaxSurprises = 2
INVARIANTS PublishedIsPlanned   NoRowLeftInProgress
PROPERTIES HandlersReturn ImplementsLibrary
CHECK_DEADLOCK FALSE
