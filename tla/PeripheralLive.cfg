SPECIFICATION FairSpec
CONSTANTS
    Peers = {"p"}
    EchoVals = {"a"}
    NoEcho = "empty"
    Inputs <- RequestInputs
    ChunkSize = 2
    MaxPayload = 1
    CounterMod = 4
    TickMod = 1
    OutCap = 1
    GattCap = 2
    EventCap = 2
    PoolSize = 6
    MaxOther = 1
CHECK_DEADLOCK FALSE
PROPERTIES SessionEndsOnLoss StreamEnds RequestAnswered
