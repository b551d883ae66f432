SPECIFICATION Spec
CONSTANTS
    NumClients = 3
    NumGames = 1
    MaxPlayers = 3
    LobbySize <- Lobby1v1
    Inputs = {"message", "bad_name", "kill"}
INVARIANTS PacketExpected InStep
CHECK_DEADLOCK FALSE
