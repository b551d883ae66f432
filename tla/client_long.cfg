SPECIFICATION Spec
CONSTANTS
    MaxWith = 1
    MaxWithout = 2
    MaxText = 1
    PaddleKeys = {}
    Inputs = {"quit", "error"}
    MaxInFlight = 2
INVARIANTS TypeOK ChatFits ListenersMatchScreen PacketFitsScreen IInv
CHECK_DEADLOCK FALSE
