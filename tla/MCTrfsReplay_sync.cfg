CONSTANTS
    ChunkSize = 4
    HdrLen = 2
    TraceFiles <- MCTraceFiles
    JunkSizes = {0, 1, 2, 3, 5}

INIT Init
NEXT Next
CONSTRAINT StateBound

INVARIANT ReplayInSync
CHECK_DEADLOCK FALSE
