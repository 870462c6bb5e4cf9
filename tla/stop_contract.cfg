\* Does Stop wait for the requests in flight, as its contract says?
SPECIFICATION Spec
CONSTANTS
    Requests = {r1}
    MaxVersion = 2
    MaxSignals = 2
INVARIANTS
    StopContract
CHECK_DEADLOCK FALSE
