CONSTANTS
    Jobs <- MCJobs
    BLOCK_SIZE = 2
    MaxRuns = 3
    MaxCrashes = 1
SPECIFICATION Spec
CHECK_DEADLOCK FALSE
INVARIANT CodesOfOneTraining
INVARIANT EveryPointEncoded
INVARIANT RefusedOnlyForChunks
INVARIANT ChunksPartitionDimensions
