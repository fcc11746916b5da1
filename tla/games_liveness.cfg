SPECIFICATION FairSpec
CONSTANTS
    base = base  bundle = bundle  game = game  sequel = sequel
    Packages = {base, bundle}
    Apps = {game, sequel}
    Games = {game}
    AppsOf <- Single
    LicenseLists <- OwnOrShared
    Threshold = 2
    MaxLists = 2
    MaxPlays = 0
    MaxWalks = 2
    MaxRestarts = 0
INVARIANTS
    OwnedAreKept
PROPERTIES
    OwnedAreTold
CHECK_DEADLOCK FALSE
