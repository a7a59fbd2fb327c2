SPECIFICATION Spec
CONSTANTS
    Users = {u1, u2}
    Rels = {get, Impossible}
    Impossible = Impossible
    None = None
    MaxVersions = 3
    MaxCalls = 2
INVARIANT
    NamespacesNamed
