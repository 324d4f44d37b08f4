SPECIFICATION Spec
CONSTANTS
    Debounce = 1
    Window = 2
    Hold = 4
    SeqWindow = 5
    Period = 2
    MaxLong = 8
    Modes <- MCModes
    EnabledSets <- MCEnabledSets
    Triples <- MCTriples
    MaxEdges = 8
    MaxLost = 1
INVARIANT EveryClickReportedOnce
PROPERTIES LongWhileDown Settles
