SPECIFICATION Spec
CONSTANTS
    a = a
    b = b
    w1 = w1
    w2 = w2
    Keys <- MCKeys
    Writers <- MCWriters
    MaxChanges = 3
    MaxFaults = 2
INVARIANT IInv
PROPERTIES Implements ChangesReachDisk
CHECK_DEADLOCK FALSE
