SPECIFICATION Spec
CONSTANTS
    NumPlayers = 4
    WinScore = 3
    WinDifference = 2
    Leavers = {0, 2, 3}
INVARIANTS TypeOK SuccessIffWon PowerUpCountExact PlayersScoreForTeam GivenUpForCause
CHECK_DEADLOCK FALSE
