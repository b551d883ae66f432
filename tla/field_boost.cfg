SPECIFICATION FairSpec
CONSTANTS
    NumPlayers = 2
    Width = 13
    Height = 6
    Radius = 1
    PaddleWidth = 1
    PaddleHeight = 2
    PaddleX <- BackX
    PaddleStart <- BackStart
    PaddleMaxSpeed = 2
    PaddleAcceleration = 1
    BallStarts <- Starts
    MaxSpeed = 3
    Acceleration = 1
    Growth = 2
    MaxHeight = 8
    Movers = {0}
    Leavers = {1}
CONSTRAINT HeightsBounded
PROPERTY EnemyStopsAcceleration
CHECK_DEADLOCK FALSE
