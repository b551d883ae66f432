SPECIFICATION Spec
CONSTANTS
    Clients = {a, b, c}
    MaxClients = 2
    CountValues = 256
    Faults = {"fork"}
\* One of the claims; put another one in its place to see it fail.
INVARIANT TakenIsOccupied
\* INVARIANT FreeIsUnused
CHECK_DEADLOCK FALSE
