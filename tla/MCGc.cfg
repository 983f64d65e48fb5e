\* Collector, handlers, publisher, crashes and lost entries together.
SPECIFICATION GcSpec
CONSTANTS
    a1 = a1  a2 = a2  v = v  w = w
    None = None
    Unreadable = Unreadable
    Keys = {a1, a2}
    Hashes = {v, w}
    NumPartitions = 2
    PartitionOf <- MCPartitionOf
    MaxPending = 1
    Deniable = {}
    Clients = {c1}
    BatchMax = 1
    MaxDetached = 1
    Requests <- MCRequests
    Legacy <- MCLegacy
INVARIANTS GcInv AcceptedValuesAreProtected QuietRunIsComplete
