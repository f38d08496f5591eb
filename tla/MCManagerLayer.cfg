SPECIFICATION Spec
CONSTANTS
    a = a
    b = b
    h = h
    i = i
    k = k
    l = l
    m = m
    s = s
    u = u
    Callers = {a, b, h}
    Items = {i}
    MaxRotations = 1
    Renderers = {h}
    Helmfile <- Helmfiles
    Repositories <- Repos
    HasCluster = TRUE
    ReleaseRenderConcurrency = 2
    Layers <- TwoLayers
    Providers <- OneProvider
    Secrets = {s, u}
    Keys = {k, l, m}
    Commands <- AllCommands
    None = None
INVARIANTS
    OneContentPerItem
    ErrorsNotKept
    SecretsAsDeclared
    SameCapabilities
PROPERTIES
    ManagersEnd
