SPECIFICATION Spec
CONSTANTS
    None = None
    hall = hall
    bath = bath
    Sensors <- MCSensors
    Temps = {19, 21, 23}
    Asked = {20, 40}
    MinTemp = 5
    MaxTemp = 35
    Hysteresis = 1
    Target = 21
    Mode = "heat"
    MaxCommands = 2
    MaxReadings = 3
    MaxFaults = 0
INVARIANT HotIsOff
CHECK_DEADLOCK FALSE
