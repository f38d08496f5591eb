SPECIFICATION ReportsSpec
CONSTANTS
    A = A
    B = B
    x = x
    y = y
    z = z
    c1 = c1
    c2 = c2
    Manifests = {A, B}
    Objects = {x, y, z}
    Versions = {1}
    Contents = {c1, c2}
    None = None
    Renders <- RendersOwn
    Immutable = {}
    Genesis = {B}
    Layers <- TwoLayers
    Kinds <- ApplyAndSync
    MaxRuns = 2
    MaxEdits = 1
    MaxDrifts = 1
    Defaulted = {y}
    Delegated = {}
SYMMETRY ContentSymmetry
INVARIANTS
    SyncTracksInstalled
    DriftMeansTouched
    AnnouncedIsDone
PROPERTIES
    ReportsForetell
