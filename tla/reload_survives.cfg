\* Does a change of the file ever cost the server that runs?
SPECIFICATION Spec
CONSTANTS
    Requests = {r1}
    MaxVersion = 2
    MaxSignals = 0
INVARIANTS
    ReloadSurvives
CHECK_DEADLOCK FALSE
