SPECIFICATION FairSpec
CONSTANTS
    Peers = {"p"}
    EchoVals = {"a"}
    NoEcho = "empty"
    Inputs <- BatteryInputs
    ChunkSize = 2
    MaxPayload = 1
    CounterMod = 4
    TickMod = 1
    OutCap = 2
    GattCap = 2
    EventCap = 2
    PoolSize = 6
    MaxOther = 0
CHECK_DEADLOCK FALSE
PROPERTY AdvertisesAgain
