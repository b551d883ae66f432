SPECIFICATION FairSpec
CONSTANTS
    Producers = {main}
    MaxPackets = 20
INVARIANTS TypeOK FillsAvailableBuffer
PROPERTY PipeFairSpec
CHECK_DEADLOCK FALSE
