\* One call of Run and one reload: ImmediateReloadRestarts does not hold.
SPECIFICATION Spec
CONSTANTS
    r1 = r1  r2 = r2  q1 = q1  a1 = a1  a2 = a2
    Runs = {r1}
    Reloads = {q1}
    Addrs = {a1, a2}
    Loopback = {a2}
    Configs <- SmallConfigs
    WaitForHealth = FALSE
    None = None
INVARIANT ImmediateReloadRestarts
