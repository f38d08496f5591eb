SPECIFICATION Spec
CONSTANTS
    Renderings <- SomeRenderings
    Tests <- SomeTests
    MaxOthers = 2
INVARIANTS
    TypeOK
    ReadyWasSeen
    
PROPERTIES
    VerdictMatchesStreak
    RecreatedIsFresh
    RolloutEnds
