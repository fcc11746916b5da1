SPECIFICATION FairSpec
CONSTANTS
    ann = ann  bob = bob
    Users = {ann, bob}
    Parts <- AllOrParts
    MaxLists = 2
    MaxChanges = 2
    MaxPersonas = 1
    MaxLosses = 1
INVARIANTS
    TypeOK
    ReadyMeansComplete
    FriendsAreSteams
    GotIsComplete
    WaitsAreForSteam
PROPERTIES
    GetFriendsEnds
CHECK_DEADLOCK FALSE
