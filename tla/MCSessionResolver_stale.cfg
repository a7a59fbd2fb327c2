SPECIFICATION Spec
CONSTANTS
    Keys = {k1}
    Callers = {c1, c2}
    Refreshers = {}
    None = None
    Capacity = 1
    L1TTL = 3
    NegTTL = 2
    StaleIfError = 3
    ResolveTimeout = 5
    EffectiveTTLs = {3}
    Instants = {0, 5, 12}
    Expiries = {3}
    Skews <- UnsteadyClock
SYMMETRY Symmetry
INVARIANTS
    MonotoneAnswers
    RevocationBound
PROPERTIES
    ExpiredOnlyFromFill
