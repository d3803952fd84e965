SPECIFICATION FairSpec
CONSTANTS
    Uuids = {"n1", "n2", "w1"}
    WideUuids = {"w1"}
    Tables <- MCTables
    Mtus = {23, 30}
    DestLens = {22, 100}
    MaxServices = 5
    MaxCharacteristics = 4
    MaxPipe = 2
INVARIANTS    LongReadExact
 
