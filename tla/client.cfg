SPECIFICATION FairSpec
CONSTANTS
    MaxWith = 1
    MaxWithout = 2
    MaxText = 1
    PaddleKeys = {"up"}
    Inputs = {"type", "chat", "error"}
    MaxInFlight = 1
INVARIANTS TypeOK ChatFits ListenersMatchScreen PacketFitsScreen IInv
PROPERTIES LoadingLeft LobbyRefreshed
CHECK_DEADLOCK FALSE
