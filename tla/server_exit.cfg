SPECIFICATION Spec
CONSTANTS
    NumClients = 2
    NumGames = 1
    MaxPlayers = 2
    LobbySize <- Lobby1v1
    Inputs = {"exit"}
\* One of the claims; put another one in its place to see it fail.
INVARIANT GameloopRuns
\* INVARIANT LobbyHasClient
