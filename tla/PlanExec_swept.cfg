SPECIFICATION Spec
CONSTANTS
    N = 2
    Identified = {1, 2}
    Policies = {"skip", "suffix"}
    MaxSuffix = 1
    Bound <- CrashBound
    MaxSurprises = 2
INVARIANT SweptAfterReconcile
CHECK_DEADLOCK FALSE
