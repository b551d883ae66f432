SPECIFICATION Spec
CONSTANTS
    NumClients = 4
    NumGames = 2
    MaxPlayers = 4
    LobbySize <- Lobby1v1
    Inputs = {}
\* One of the claims; put the other one in its place to see it fail.
INVARIANT GameloopRuns
\* INVARIANT MenuShown
