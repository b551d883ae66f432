SPECIFICATION Spec
CONSTANTS
    NumPlayers = 2
    WinScore = 2
    WinDifference = 2
    Leavers = {0}
INVARIANT BoostHasPlayer
CHECK_DEADLOCK FALSE
