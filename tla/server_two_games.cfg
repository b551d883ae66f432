SPECIFICATION Spec
CONSTANTS
    NumClients = 3
    NumGames = 2
    MaxPlayers = 4
    LobbySize <- Lobby1v1
    Inputs = {}
INVARIANT InStep
PROPERTIES SparedOneGame MatchmakingSpec
CHECK_DEADLOCK FALSE
