\* A key denylisted after it was published; two keys of one partition.
SPECIFICATION Spec
CONSTANTS
    a1 = a1  a2 = a2  b1 = b1  v = v  w = w
    None = None
    Unreadable = Unreadable
    Keys = {a1, a2}
    Hashes = {v, w}
    NumPartitions = 1
    PartitionOf <- MCPartitionOf
    MaxPending = 1
    Deniable = {a1}
    Clients = {c1}
    BatchMax = 2
    MaxDetached = 0
    Requests <- SiblingRequests
    Legacy <- LegacyNone
INVARIANT TakedownGoesForward
