SPECIFICATION Spec
CONSTANTS
    Clients = {a, b, c}
    MaxClients = 2
    CountValues = 256
    Faults = {}
INVARIANT LimitMeansFull
CHECK_DEADLOCK FALSE
