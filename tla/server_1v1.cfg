SPECIFICATION Spec
CONSTANTS
    NumClients = 2
    NumGames = 1
    MaxPlayers = 3
    LobbySize <- Lobby1v1
    Inputs = {"exit", "disconnect", "message", "kill"}
INVARIANTS TypeOK PointersAgree PlayersPointBack RemovedClientForgotten FreeGameUnreferenced TeamsAreNotGivenUp
PROPERTY MatchmakingSpec
CHECK_DEADLOCK FALSE
