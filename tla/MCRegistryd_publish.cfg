\* An upgraded installation: a2 is in the document's tree, no local roots yet.
\* Full batches, a denylist that changes, doc entries that get lost.
SPECIFICATION Spec
CONSTANTS
    a1 = a1  a2 = a2  b1 = b1  v = v  w = w
    None = None
    Unreadable = Unreadable
    Keys = {a1, a2, b1}
    Hashes = {v, w}
    NumPartitions = 2
    PartitionOf <- MCPartitionOf
    MaxPending = 2
    Deniable = {a1}
    Clients = {c1}
    BatchMax = 2
    MaxDetached = 0
    Requests <- SpreadRequests
    Legacy <- LegacyA2
INVARIANTS NoSilentLoss Inv
PROPERTY ImplementsRegistry
