SPECIFICATION ServerSpec
CONSTANTS
    MaxData = 1019
    MaxName = 249
    TableSize = 19
    QueueSize = 3
    NameLen = 250
    Packets <- MCPackets
    Events <- MCEvents
    Lists <- MCLists
    Values <- MCValues
    MaxPackets = 5
    MaxEvents = 1
CHECK_DEADLOCK FALSE
INVARIANT HandlesKept
INVARIANT ToldIsCurrent
INVARIANT FramingKept
