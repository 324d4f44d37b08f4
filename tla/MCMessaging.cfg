SPECIFICATION Spec
CONSTANTS
    output = output
    Topics <- MCTopics
    Status = status
    Payloads <- MCPayloads
    MaxSends = 3
    MaxFaults = 2
INVARIANT TrackedIsLast
PROPERTIES NeverOlder Delivered
CHECK_DEADLOCK FALSE
