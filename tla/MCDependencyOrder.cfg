SPECIFICATION BothSpec
CONSTANTS
    a = a
    b = b
    c = c
    d = d
    none = none
    Names <- NameSet
    NoName = none
    Tags = {}
    Inputs <- SmallInputs
INVARIANTS
    LayersRespectDependsOn
    ResolvesExactlyAcyclic
    LayersAreEarliest
    AcceptsExactlyResolvable
PROPERTIES
    BothTerminate
