SPECIFICATION Spec
CONSTANTS
    None = None
    Configs <- MCConfigs
    MaxCommands = 2
    MaxInFlight = 2
    MaxMoves = 3
    MaxFaults = 1
INVARIANTS SensorsDecide OperationIsState
PROPERTY PulsesEnd
CHECK_DEADLOCK FALSE
