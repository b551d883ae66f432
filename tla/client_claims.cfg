SPECIFICATION Spec
CONSTANTS
    MaxWith = 1
    MaxWithout = 2
    MaxText = 1
    PaddleKeys = {"up"}
    Inputs = {"type", "chat", "quit", "error"}
    MaxInFlight = 2
\* One of the claims; put another one in its place to see it fail.
INVARIANT LobbyShowsPlayers
\* INVARIANT ChatListIntact
\* INVARIANT InputInBuffer
\* INVARIANT SpecialMatchesScreen
\* INVARIANT KeysUp
\* INVARIANT ServerStays
\* INVARIANT ReadyMeansLoaded
CHECK_DEADLOCK FALSE
