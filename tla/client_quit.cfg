SPECIFICATION FairSpec
CONSTANTS
    MaxWith = 1
    MaxWithout = 1
    MaxText = 1
    PaddleKeys = {}
    Inputs = {"quit"}
    MaxInFlight = 1
INVARIANTS ListenersMatchScreen PacketFitsScreen
PROPERTY QuitIsAnswered
CHECK_DEADLOCK FALSE
