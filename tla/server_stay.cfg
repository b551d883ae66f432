SPECIFICATION FairSpec
CONSTANTS
    NumClients = 3
    NumGames = 1
    MaxPlayers = 2
    LobbySize <- Lobby1v1
    Inputs = {"bad_name"}
INVARIANTS PacketExpected InStep
PROPERTIES FullLobbyStarts LoadingEnds OverGamesAreFreed EveryoneReturns
