\* Is a rejected token remembered for failure_ttl, as documented?
SPECIFICATION Spec
CONSTANTS
    Callers = {c1, c2}
    Tokens = {t1}
    NoMatch = NoMatch
    AcceptedAt <- MCAcceptedAt
    SuccessTTL = 2
    FailureTTL = 2
    RequestTimeout = 2
    SharedLookupTimeout = 3
    Steps = 2
    MaxChanges = 2
    AgeCap = 5
INVARIANTS
    RejectionsRemembered
