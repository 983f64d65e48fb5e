\* Leaves of at most two entries; nodes get lost and come back.
SPECIFICATION Spec
CONSTANTS
    k1 = k1  k2 = k2  k3 = k3  k4 = k4  k5 = k5  v = v  w = w
    None = None
    Err = Err
    Keys = {k1, k2, k3, k4, k5}
    Hashes = {v, w}
    Bytes = {0, 1}
    DigestLen = 3
    Digest <- MCDigest
    LeafMax = 2
    Batches <- MCBatches
INVARIANTS LookupNeverLies ReplayIsNoop ProtectSetSuffices WalkIsHonest BulkBuildIsEquivalent
PROPERTY ImplementsMap
