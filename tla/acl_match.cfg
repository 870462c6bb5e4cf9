\* Entries whose patterns use up to five placeholders.
SPECIFICATION Spec
CONSTANTS
    Labels <- MCLabels
    Conditions <- MCConditions
    None = None
INVARIANTS
    TypeOK
    MatchExact
    PrefixesIntact
PROPERTIES
    GoroutinesEnd
CHECK_DEADLOCK FALSE
