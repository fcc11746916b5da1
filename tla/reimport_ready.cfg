SPECIFICATION Spec
CONSTANTS
    base = base  bundle = bundle  game = game  sequel = sequel
    Packages = {base, bundle}
    Apps = {game, sequel}
    Games = {game}
    AppsOf <- Disjoint
    LicenseLists <- OneList
    Threshold = 2
    MaxLists = 1
    MaxPlays = 0
    MaxWalks = 1
    MaxRestarts = 1
INVARIANTS
    ReadyWhenAnswered
CHECK_DEADLOCK FALSE
