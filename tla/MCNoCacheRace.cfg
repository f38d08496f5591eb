SPECIFICATION Spec
CONSTANTS
    A = A
    B = B
    p = p
    q = q
    t = t
    d = d
    e = e
    f = f
    Processes = {A}
    Pulls = {p, q}
    Proc <- OneProcess
    Tags = {t}
    Digests = {d, e, f}
    RefKey <- OwnKeys
    Specs <- SameArtifact
    Options <- OnlyNoCache
    Archive <- Archives
    MaxEntries = 2
    MaxTotalBytes = 3
    Absent = Absent
    MaxRetags = 0
    MaxCrashes = 0
INVARIANT
    DelegateReadsWholeArtifact
