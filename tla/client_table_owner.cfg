SPECIFICATION Spec
CONSTANTS
    Clients = {a, b, c}
    MaxClients = 2
    CountValues = 4
    Faults = {"fork", "kill"}
INVARIANT RecordHasOneOwner
CHECK_DEADLOCK FALSE
