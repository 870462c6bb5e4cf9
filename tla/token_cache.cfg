\* Two requests with one token that becomes valid and is revoked.
SPECIFICATION FairSpec
CONSTANTS
    Callers = {c1, c2}
    Tokens = {t1}
    NoMatch = NoMatch
    AcceptedAt <- MCAcceptedAt
    SuccessTTL = 2
    FailureTTL = 2
    RequestTimeout = 2
    SharedLookupTimeout = 3
    Steps = 2
    MaxChanges = 2
    AgeCap = 5
INVARIANTS
    TypeOK
    VerdictsSound
    NoRedundantReview
PROPERTIES
    AuthenticatorKeepsPromise
    LookupsEnd
