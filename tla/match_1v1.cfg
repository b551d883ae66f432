SPECIFICATION Spec
CONSTANTS
    NumPlayers = 2
    WinScore = 4
    WinDifference = 3
    Leavers = {0, 1}
INVARIANTS TypeOK SuccessIffWon PowerUpCountExact PlayersScoreForTeam
CHECK_DEADLOCK FALSE
