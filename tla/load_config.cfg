SPECIFICATION Spec
CONSTANTS
    Files <- MCFiles
    MaxRotations = 1
\* The process may end; what is wrong with an end the properties say.
CHECK_DEADLOCK FALSE
INVARIANTS TypeOK RequestsNeverFatal SomebodyDecides SigningKeyIsTheTokens
PROPERTIES AcceptedIsServed
