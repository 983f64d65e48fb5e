\* Redelivery, rollover of two-member segments, migration of old indexes, failing
\* puts and sweeps; codes of four bits in two bands.
SPECIFICATION Spec
CONSTANTS
    k1 = k1  k2 = k2  k3 = k3
    Keys = {k1, k2, k3}
    CONTENT_CODE_BITS = 4
    NumBands = 2
    SEGMENT_MAX_MEMBERS = 2
    Members <- SomeMembers
    LegacyLists <- SomeLists
    QueryCodes <- SomeCodes
    SearchMaxRadius = 3
    MAX_HITS = 2
    MaxBatch = 2
    MaxBatches = 3
INVARIANT SearchIsExact
INVARIANT ScanIsExact
INVARIANT SegmentsAreTidy
INVARIANT MirrorsReference
PROPERTY FullSegmentsStay
