SPECIFICATION FairSpec
CONSTANTS
    Services <- MCServices
    ClientRequests <- MCClientRequests
    EventCap = 2
    MaxServices = 2
    MaxCharacteristics = 2
    MaxListeners = 2
    MaxCommands = 3
    MaxLinks = 2
    MaxLinkEvents = 2
CHECK_DEADLOCK FALSE
PROPERTY LinkToldInOrder
PROPERTY LoopAnswers
