\* Ingest runs, builds, audits and root changes of two partitions, interrupted and
\* repeated, the daemon running in between.
SPECIFICATION OfflineSpec
CONSTANTS
    a1 = a1  a2 = a2  b1 = b1  v = v  w = w
    None = None
    Unreadable = Unreadable
    Keys = {a1, b1}
    Hashes = {v, w}
    NumPartitions = 2
    PartitionOf <- MCPartitionOf
    MaxPending = 1
    Deniable = {b1}
    Clients = {}
    BatchMax = 1
    MaxDetached = 0
    Requests <- ClientRecord
    Legacy <- LegacyB1
    Dump <- DumpThree
    BatchLines = 1
    Limit = 3
    MaxRuns = 3
INVARIANTS AuditHolds BytesAccountedFor DumpIsCovered
PROPERTY RowsLeaveSettled
