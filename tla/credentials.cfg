SPECIFICATION FairSpec
CONSTANTS
    ann = ann  bob = bob  cat = cat
    Users = {ann, bob, cat}
    None = None  Zero = Zero
INVARIANTS
    StoredIsOfOneUser
    ConnectedHasItsOwn
    UnmarkedIsStored
PROPERTIES
    ConnectedIsStored
CHECK_DEADLOCK FALSE
