SPECIFICATION Spec
CONSTANTS
    NumPlayers = 4
    WinScore = 2
    WinDifference = 2
    Leavers = {0, 2}
INVARIANT EmptyTeamSeen
CHECK_DEADLOCK FALSE
