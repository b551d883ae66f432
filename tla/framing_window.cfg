SPECIFICATION FairSpec
CONSTANTS
    MaxByte = 3
    XorByte <- XorTwoBits
    MaxData = 1
    MaxInFlight = 3
    MaxTorn = 3
    Allowance = 1
PROPERTY ChannelFairSpec
