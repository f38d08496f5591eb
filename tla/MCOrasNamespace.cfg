SPECIFICATION ReportsSpec
CONSTANTS
    A = A
    B = B
    x = x
    y = y
    z = z
    c1 = c1
    c2 = c2
    Manifests = {A}
    Objects = {x, y}
    Versions = {1}
    Contents = {c1, c2}
    None = None
    Renders <- RendersOwn
    Immutable = {}
    Genesis = {}
    Layers <- OneLayer
    Kinds <- ApplyOnly
    MaxRuns = 1
    MaxEdits = 0
    MaxDrifts = 0
    Defaulted = {}
    Delegated = {A}
INVARIANTS
    ApplyLeavesNoDiff
