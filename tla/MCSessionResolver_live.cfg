SPECIFICATION FairSpec
CONSTANTS
    Keys = {k1}
    Callers = {c1, c2}
    Refreshers = {r1}
    None = None
    Capacity = 1
    L1TTL = 11
    NegTTL = 2
    StaleIfError = 0
    ResolveTimeout = 5
    EffectiveTTLs = {11}
    Instants = {0, 10}
    Expiries = {11}
    Skews = {0}
PROPERTIES
    EveryCallReturns
