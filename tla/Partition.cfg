CONSTANTS
    NumPoints = 3
    BLOCK_SIZE = 2
    PartCounts = {1, 2}
    KBases = {1, 2}
    Budgets = {2}
    Rates = {1, 2}
    FirstParts = 2
    MaxParts = 4
    MaxCalls = 2
SPECIFICATION Spec
INVARIANT ShardsCoverData
INVARIANT RetrievesWhatIsListed
INVARIANT FullSampleFits
CHECK_DEADLOCK FALSE
