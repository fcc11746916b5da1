SPECIFICATION FairSpec
CONSTANTS
    ann = ann  bob = bob  dota = dota  other = other
    NoApp = NoApp
    None = None
    Users = {ann, bob}
    Apps = {dota, other}
    News <- SomeNews
    TextOf <- Texts
    MaxNews = 4
    MaxRelations = 3
    MaxImports = 1
    MaxLosses = 1
INVARIANTS
    TypeOK
    PresenceIsCurrent
    TokensAreLookedUp
PROPERTIES
    AskedIsAnswered
\* The bounds stop the news.
CHECK_DEADLOCK FALSE
