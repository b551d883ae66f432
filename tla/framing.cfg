SPECIFICATION FairSpec
CONSTANTS
    MaxByte = 3
    XorByte <- XorTwoBits
    MaxData = 1
    MaxInFlight = 3
    MaxTorn = 2
    Allowance = 1
INVARIANTS TypeOK BufferHoldsPacket
PROPERTY ChannelFairSpec
