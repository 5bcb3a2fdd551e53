SPECIFICATION Spec
CONSTANTS
    N = 2
    Identified = {1, 2}
    Policies = {"skip", "suffix"}
    MaxSuffix = 1
    Bound <- CrashBound
    MaxSurprises = 2
INVARIANT NoPlanStuckExecuting
CHECK_DEADLOCK FALSE
