SPECIFICATION FairSpec
CONSTANTS
    p = p
    q = q
    u = u
    r = r
    s = s
    t = t
    v = v
    m = m
    n = n
    NoOne = NoOne
    Savers = {r, s, t, v}
    Processes = {p, q, u}
    ProcessOf <- ProcessMap
    Target <- TargetMap
    SyncProcesses = {p, u}
    MaxWipes = 1
    MaxLength = 4
    Names <- FieldNames
    Plain <- PlainBytes
    HexDigits <- Digits
    Hex <- HexOf
    MetadataName <- Metadata
INVARIANTS
    StatesSurviveStorage
    EnsuredOnce
    FailsForAReason
    StaleWritersRefused
PROPERTIES
    ImplementsAtomicStore
    SavesEnd
