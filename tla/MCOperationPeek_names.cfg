SPECIFICATION PeekSpec
CONSTANTS
    Bodies <- SomeBodies
    OpNames <- TwoNames
    Configs <- SomeConfigs
    DefaultPeekWindow = 2
    FailingReads = TRUE
    NamesInContext = TRUE
    None = None
INVARIANT BodyIsRestored
INVARIANT WorkIsBounded
INVARIANT WholeBodyNamesItself
