SPECIFICATION Spec
CONSTANTS
    Producers = {gameloop, receiver}
    MaxPackets = 2
INVARIANT FillsAvailableBuffer
CHECK_DEADLOCK FALSE
