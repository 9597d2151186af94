SPECIFICATION Spec
INVARIANTS
    TypeOK
    EntriesWereStored
    LoneUpdatePersists
CONSTANTS
    k1 = k1
    k2 = k2
    l1 = l1
    l2 = l2
    Torn = Torn
    Mixed = Mixed
    MaxUpdates = 3
    Caller = {c1, c2}
    Key <- MCKey
    Layer <- MCLayer
    Pathless <- MCPathless
