SPECIFICATION FairSpec
CONSTANTS
    a = a
    b = b
    c = c
    p1 = p1
    p2 = p2
    p3 = p3
    f1 = f1
    f2 = f2
    g1 = g1
    g2 = g2
    g3 = g3
    Item = {a, b, c}
    Path = {p1, p2, p3}
    Inode = {f1, f2}
    Fingerprint = {g1, g2, g3}
    NClients = 2
    Home <- TwoClients
    Category = {"empty", "owned"}
    Contents <- WholeContents
    Windows = {1}
    MaxAge = 1
    MaxPlansPerRun = 1
    Allowed = {}
    MaxEvents = 1
PROPERTIES Settles
