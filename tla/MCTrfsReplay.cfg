CONSTANTS
    ChunkSize = 4
    HdrLen = 2
    TraceFiles <- MCReplayFiles
    JunkSizes = {0, 1, 2, 3, 5}

SPECIFICATION FairSpec
CONSTRAINT StateBound

INVARIANT TypeOK
INVARIANT ExactBeforeStraddle
INVARIANT ReplayComplete
PROPERTY ReplayTerminates

CHECK_DEADLOCK FALSE
