SPECIFICATION Spec
CONSTANTS
    Orphan = {o1}
    MaxPlans = 3
    N = 2
    Offered = {"draft", "blocked", "failed"}
    Bound <- QueueBound
INVARIANTS TypeOK  
PROPERTIES ClaimsNeverErased NoDuplicate IgnoreHolds
CHECK_DEADLOCK FALSE
