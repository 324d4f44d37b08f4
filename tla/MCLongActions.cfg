SPECIFICATION Spec
CONSTANTS
    Actions <- MCActions
    MaxPresses = 2
    MaxDuration = 5
    MaxFaults = 1
INVARIANT EachPressActs
PROPERTY ReportsHandled
CHECK_DEADLOCK FALSE
