SPECIFICATION Spec
CONSTANTS
    Peers = {"p", "q"}
    EchoVals = {"a"}
    NoEcho = "empty"
    Inputs <- PeerInputs
    ChunkSize = 2
    MaxPayload = 1
    CounterMod = 4
    TickMod = 1
    OutCap = 2
    GattCap = 2
    EventCap = 2
    PoolSize = 4
    MaxOther = 1
CHECK_DEADLOCK FALSE
INVARIANTS TypeOK StatsInSync ServerAdmits NotifiesWhoAsked OneAnswer
