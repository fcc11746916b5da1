SPECIFICATION Spec
CONSTANTS
    base = base  bundle = bundle  game = game  sequel = sequel
    Packages = {base, bundle}
    Apps = {game, sequel}
    Games = {game}
    AppsOf <- Overlapping
    LicenseLists <- OwnAndShared
    Threshold = 2
    MaxLists = 1
    MaxPlays = 1
    MaxWalks = 1
    MaxRestarts = 1
INVARIANTS
    TypeOK
    NothingForgotten
CHECK_DEADLOCK FALSE
