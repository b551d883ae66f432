SPECIFICATION FairSpec
CONSTANTS
    NumClients = 2
    NumGames = 1
    MaxPlayers = 2
    LobbySize <- Lobby1v1
    Inputs = {"disconnect"}
PROPERTY LoadingFailureReported
CHECK_DEADLOCK FALSE
