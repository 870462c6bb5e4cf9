\* Two callers, two users who share a cache of one entry, and an anonymous one:
\* flights that are shared, joined late or restarted, entries that expire or are
\* evicted, seen from outside as the promise of FreshAnswers.
SPECIFICATION FairSpec
CONSTANTS
    Callers = {c1, c2}
    Tokens = {t1, t2, t3}
    Users = {alice, bob, nobody}
    User <- MCUser
    Anonymous = nobody
    Namespaces = {n1}
    SuccessTTL = 2
    FailureTTL = 1
    RequestTimeout = 1
    Steps = 2
    CacheSize = 1
    MaxChanges = 1
    None = None
    t1 = t1
    t2 = t2
    t3 = t3
    alice = alice
    bob = bob
    nobody = nobody
INVARIANTS
    TypeOK
    AtMostOneInflight
    UserIsolation
    RevocationTakesEffect
    RecoveryTakesEffect
PROPERTIES
    KeepsPromise
    EveryCallReturns
