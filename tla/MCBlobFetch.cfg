\* Two prefetches, one of them in a request handler, and a get; a store with
\* and without a provider.
SPECIFICATION FairSpec
CONSTANTS
    c1 = c1  c2 = c2  g1 = g1
    NumBlobs = 2
    Callers = {c1, c2}
    Handlers = {c2}
    Getters = {g1}
    NumProviders = 1
    PREFETCH_CONCURRENCY = 1
INVARIANTS NeverPoisoned ProvidersAreSpared TransientErrorsAreNotMisses
PROPERTY EveryPrefetchEnds
