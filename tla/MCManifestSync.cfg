SPECIFICATION Spec
CONSTANTS
    A = A
    B = B
    x = x
    y = y
    Manifests = {A}
    Objects = {x, y}
    Versions = {1}
    Contents = {1, 2}
    None = None
    Renders <- RendersBoth
    Immutable = {x}
    Genesis = {}
    Layers <- OneLayer
    Kinds <- AllKinds
    MaxRuns = 3
    MaxEdits = 2
    MaxDrifts = 1
INVARIANTS
    StateTruthful
    SuccessMeansDeployed
    SuccessRecordsDeclaration
