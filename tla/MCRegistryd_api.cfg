\* Two clients that race for a key, claims that outlive their
\* handlers, publisher and crashes included.
SPECIFICATION Spec
CONSTANTS
    a1 = a1  a2 = a2  b1 = b1  v = v  w = w
    None = None
    Unreadable = Unreadable
    Keys = {a1}
    Hashes = {v, w}
    NumPartitions = 1
    PartitionOf <- MCPartitionOf
    MaxPending = 1
    Deniable = {}
    Clients = {c1, c2}
    BatchMax = 2
    MaxDetached = 1
    Requests <- ClashingRequests
    Legacy <- LegacyNone
SYMMETRY ClientSymmetry
INVARIANTS TypeOK QueueMatchesIndex AcceptedIsKept
