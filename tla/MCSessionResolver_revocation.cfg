SPECIFICATION Spec
CONSTANTS
    Keys = {k1}
    Callers = {c1, c2}
    Refreshers = {r1}
    None = None
    Capacity = 1
    L1TTL = 11
    NegTTL = 2
    StaleIfError = 0
    ResolveTimeout = 5
    EffectiveTTLs = {11}
    Instants = {0, 5, 10, 15}
    Expiries = {30}
    Skews = {0}
SYMMETRY Symmetry
INVARIANT
    RevocationCap
