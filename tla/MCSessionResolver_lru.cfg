SPECIFICATION Spec
CONSTANTS
    Keys = {k1, k2, k3}
    Callers = {c1}
    Refreshers = {r1}
    None = None
    Capacity = 2
    L1TTL = 11
    NegTTL = 2
    StaleIfError = 0
    ResolveTimeout = 5
    EffectiveTTLs = {11}
    Instants = {0, 10}
    Expiries = {11}
    Skews = {0}
INVARIANTS
    TypeOK
    CacheCoherent
