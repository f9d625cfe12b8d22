\* Two calls of Run, one reload, two addresses, the health wait.
SPECIFICATION Spec
CONSTANTS
    r1 = r1  r2 = r2  q1 = q1  a1 = a1  a2 = a2
    Runs = {r1, r2}
    Reloads = {q1}
    Addrs = {a1, a2}
    Loopback = {a2}
    Configs <- ImmediateConfigs
    WaitForHealth = TRUE
    None = None
SYMMETRY RunSymmetry
INVARIANT OneRunAtATime
INVARIANT CancelIsPublished
INVARIANT RequestSurvives
INVARIANT RestartOnlyWhenRequested
INVARIANT OnlyTheCapturedRunIsCancelled
INVARIANT NothingLeaks
INVARIANT ReadyExactlyWhileServing
PROPERTY ImplementsPromise
