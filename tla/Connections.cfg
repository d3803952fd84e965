SPECIFICATION FairSpec
CONSTANTS
    c1 = c1
    c2 = c2
    s1 = s1
    tx = tx
    NSlots = 1
    Handles = {1,2}
    Reuse = FALSE
    Holders = {c1,c2}
    Senders = {s1}
    TxRunner = tx
    Credits = 2
    OutCap = 1
    GattCap = 1
    MaxFrags = 1
    MaxLinks = 2
    MaxPdus = 2
    MaxIn = 1
CHECK_DEADLOCK FALSE
INVARIANTS HolderKeepsItsLink GattOfItsLink PduOnItsLink CreditsConserved
PROPERTY RequestServed
