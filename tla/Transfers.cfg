SPECIFICATION TransfersFairSpec
CONSTANTS
    Peers = {"p"}
    EchoVals = {"a"}
    NoEcho = "empty"
    Inputs <- CallInputs
    ChunkSize = 2
    MaxPayload = 1
    CounterMod = 4
    TickMod = 1
    OutCap = 1
    GattCap = 2
    EventCap = 1
    PoolSize = 3
    MaxOther = 0
    Totals = {1, 3}
    Polls = 2
    PatternMod = 256
    MaxCalls = 3
CHECK_DEADLOCK FALSE
INVARIANTS UploadsAccounted ResetIsClean
PROPERTIES MonitorNoticesLoss
