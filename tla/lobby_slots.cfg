SPECIFICATION Spec
CONSTANTS
    Clients = {a, b}
    MaxClients = 2
\* One of the claims; put the other one in its place to see it fail.
INVARIANT LobbyClientIsSeated
\* INVARIANT LobbyPacketComplete
CHECK_DEADLOCK FALSE
