SPECIFICATION Spec
CONSTANTS
    A = A
    B = B
    x = x
    y = y
    Manifests = {A}
    Objects = {x, y}
    Versions = {1, 2}
    Contents = {1, 2}
    None = None
    Renders <- RendersBoth
    Immutable = {}
    Genesis = {}
    Layers <- OneLayer
    Kinds <- SyncKinds
    MaxRuns = 2
    MaxEdits = 1
    MaxDrifts = 0
PROPERTIES
    PruneSparesDeclared
