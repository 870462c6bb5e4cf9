\* Does a key that was replaced get another key ID?
SPECIFICATION Spec
CONSTANTS
    Files <- KeyFiles
    MaxRotations = 1
CHECK_DEADLOCK FALSE
PROPERTIES ReplacedKeyRenamed
