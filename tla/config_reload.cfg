\* One process, its file changed twice, two requests in flight.
SPECIFICATION FairSpec
CONSTANTS
    Requests = {r1, r2}
    MaxVersion = 3
    MaxSignals = 2
INVARIANTS
    TypeOK
    NoLostUpdate
    NoStaleAnswer
    StopsInTurn
    BadConfigHarmless
PROPERTIES
    Converges
    
CHECK_DEADLOCK FALSE
