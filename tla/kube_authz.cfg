\* Two requests while namespaces, roles and token come and go.
SPECIFICATION Spec
CONSTANTS
    Callers = {c1, c2}
    Namespaces = {"n1", "n2"}
    Empty = ""
    ExistsAt <- MCExistsAt
    SuccessTTL = 1
    FailureTTL = 2
    RequestTimeout = 1
    CacheSize = 1
    MaxChanges = 2
    AgeCap = 5
    None = None
    Scopes <- MCScopes
    APIGroup = "registry"
    Resource = "images"
    CheckVerbs = {"push"}
    AcceptedAt = {0, 1}
    RbacAt <- MCRbacAt
    MaxScopes = 1
SYMMETRY Symmetry
INVARIANTS
    TypeOK
    OneLookupPerNamespace
    ExistenceFresh
    GrantsFresh
    RefusalsFresh
PROPERTIES
    CheckerKeepsPromise
