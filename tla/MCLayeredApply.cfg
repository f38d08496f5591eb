SPECIFICATION FairSpec
CONSTANTS
    a = a
    b = b
    c = c
    t = t
    none = none
    Names <- NameSet
    NoName = none
    Tags = {t}
    Inputs <- RunInputs
    Filters <- AllFilters
    LostReplies = TRUE
    OptionSet <- AllOptions
    SpecTestKinds = {"none", "timed", "untimed"}
INVARIANTS
    DependenciesFinished
    WritesAreJustified
    SuccessIsComplete
PROPERTIES
    NoWriteAfterReturn
    ImplementsDagSchedule
    RunTerminates
    InterruptEndsRun
