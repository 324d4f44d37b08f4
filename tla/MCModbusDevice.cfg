SPECIFICATION Spec
CONSTANTS
    Unknown = Unknown
    Sparse <- MCSparse
    EveryN = 2
    MaxWrites = 2
    MaxToggles = 2
    MaxSuspends = 1
    MaxSwitches = 1
    MaxOnlines = 1
INVARIANT ReadsAreFresh
PROPERTIES ValuesSettle StatusSettles
CHECK_DEADLOCK FALSE
