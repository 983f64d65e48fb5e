\* An upgraded installation: a2 is in the document's tree, no local roots yet.
\* The operator's commands, a client's record and faults, until they cease.
SPECIFICATION OfflineFairSpec
CONSTANTS
    a1 = a1  a2 = a2  b1 = b1  v = v  w = w
    None = None
    Unreadable = Unreadable
    Keys = {a1, a2}
    Hashes = {v, w}
    NumPartitions = 1
    PartitionOf <- MCPartitionOf
    MaxPending = 1
    Deniable = {}
    Clients = {c1}
    BatchMax = 1
    MaxDetached = 0
    Requests <- ClientRecord
    Legacy <- LegacyA2
    Dump <- DumpOne
    BatchLines = 1
    Limit = 1
    MaxRuns = 2
PROPERTIES EventuallySettled EventuallyHealed EventuallyRepaired BindingsNeverChange
