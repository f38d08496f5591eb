SPECIFICATION Spec
CONSTANTS
    A = A
    B = B
    x = x
    y = y
    Manifests = {A}
    Objects = {x, y}
    Versions = {1}
    Contents = {1, 2}
    None = None
    Renders <- RendersBoth
    Immutable = {}
    Genesis = {}
    Layers <- OneLayer
    Kinds <- SyncKinds
    MaxRuns = 3
    MaxEdits = 2
    MaxDrifts = 0
INVARIANTS
    ApplyConverges
