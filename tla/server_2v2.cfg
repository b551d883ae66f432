SPECIFICATION Spec
CONSTANTS
    NumClients = 4
    NumGames = 1
    MaxPlayers = 4
    LobbySize <- Lobby2v2
    Inputs = {}
INVARIANT PointersAgree
