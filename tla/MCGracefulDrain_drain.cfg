SPECIFICATION Spec
CONSTANTS
    Conns = {c1, c2, c3}
    MaxRuns = 2
INVARIANT GracefulMeansAnswered
INVARIANT GaugeIsExact
PROPERTY DrainEnds
CHECK_DEADLOCK FALSE
