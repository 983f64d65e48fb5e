\* seed with failures and restarts; list with every combination of options; get.
SPECIFICATION FairSpec
CONSTANTS
    NumPartitions = 2
    Selected = {0, 1}
    MaxRoot = 2
    FullEvery = 3
    Sick = {1}
    Options <- SomeOptions
    None = None
INVARIANT WarmedHasIndex
INVARIANT ListIsHonest
INVARIANT GetIsHonest
PROPERTY EventuallySeeded
\* A list or a get ends.
CHECK_DEADLOCK FALSE
