\* Automatic sync, a reader and a search, across restarts and losses of local blobs.
SPECIFICATION FairSpec
CONSTANTS
    NumPartitions = 1
    MaxRoot = 2
    AutoSync = TRUE
    FullPassEvery = 2
    Readers = {r1}
    Searchers = {s1}
    LocalLoss = TRUE
    r1 = r1  s1 = s1
    NoIndex = NoIndex
INVARIANTS OnceServedStaysServed ViewerInv
PROPERTIES SyncNeverRegresses EventuallySynced
