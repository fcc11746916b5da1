SPECIFICATION FairSpec
CONSTANTS
    g1 = g1  g2 = g2  g3 = g3
    Games = {g1, g2, g3}
    GameLists <- TwoLists
    MaxImports = 2
    MaxLosses = 1
    MaxOthers = 0
    MaxBundle = 2
PROPERTIES
    FutureImportsGoOn
\* Bounds stop the imports.
CHECK_DEADLOCK FALSE
