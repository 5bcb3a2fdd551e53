SPECIFICATION FairSpec
CONSTANTS
    scan = scan
    mark = mark
    save = save
    test = test
    Proc = {scan, mark, save, test}
    Role <- MCRole
    MaxAdapter = 2
    Cred = {c1, c2}
    Open = open
    First = c1
    MaxFail = 2
    MaxTrouble = 2
INVARIANTS TypeOK OneRejection FailsForCause
PROPERTY Recovers
CHECK_DEADLOCK FALSE
