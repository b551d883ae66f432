SPECIFICATION FairSpec
CONSTANTS
    NumPlayers = 2
    WinScore = 2
    WinDifference = 2
    Leavers = {0}
PROPERTY LeftTeamReported
CHECK_DEADLOCK FALSE
