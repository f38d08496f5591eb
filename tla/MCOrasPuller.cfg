SPECIFICATION Spec
CONSTANTS
    A = A
    B = B
    p = p
    q = q
    t = t
    d = d
    e = e
    f = f
    Processes = {A, B}
    Pulls = {p, q}
    Proc <- OwnProcess
    Tags = {t}
    Digests = {d, e, f}
    RefKey <- OwnKeys
    Specs <- MixedSpecs
    Options <- AllOptions
    Archive <- Archives
    MaxEntries = 2
    MaxTotalBytes = 3
    Absent = Absent
    MaxRetags = 1
    MaxCrashes = 1
INVARIANTS
    TypeOK
    CacheIsWhole
    ResultWasServed
PROPERTIES
    PullsEndClean
