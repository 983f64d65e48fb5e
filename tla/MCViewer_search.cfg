\* A search that stores its index late.
SPECIFICATION Spec
CONSTANTS
    NumPartitions = 1
    MaxRoot = 2
    AutoSync = TRUE
    FullPassEvery = 2
    Readers = {}
    Searchers = {s1}
    LocalLoss = FALSE
    r1 = r1  s1 = s1
    NoIndex = NoIndex
INVARIANT CodeIndexIsCurrent
