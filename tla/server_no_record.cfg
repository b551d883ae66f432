SPECIFICATION Spec
CONSTANTS
    NumClients = 2
    NumGames = 1
    MaxPlayers = 2
    LobbySize <- Lobby1v1
    Inputs = {"exit"}
INVARIANT FreeGameAvailable
