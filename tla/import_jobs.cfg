SPECIFICATION FairSpec
CONSTANTS
    g1 = g1  g2 = g2  g3 = g3
    Games = {g1, g2, g3}
    GameLists <- TwoLists
    MaxImports = 4
    MaxLosses = 1
    MaxOthers = 1
    MaxBundle = 2
INVARIANTS
    TypeOK
    OneRequestEach
    
    RoomIsLeft
    PreparedIsComplete
PROPERTIES
    ImplementsLedger
    PreparationsEnd
CHECK_DEADLOCK FALSE
