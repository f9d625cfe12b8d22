SPECIFICATION Spec
CONSTANTS
    Chains <- SmallChains
    Codes <- FinalCodes
    Informational <- EarlyHints
    MaxWrites = 2
    None = None
INVARIANT OneAnswer
INVARIANT ClientGetsIntended
INVARIANT PanicAnswered
INVARIANT OversizeRefused
INVARIANT ObserversTellTheTruth
INVARIANT InFlightSettles
