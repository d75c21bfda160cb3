CONSTANTS
    MaxQs = 12
    QsPerMount = 10
    LogQid = 2
    Requests <- MCRequests
    MaxAttempts = 3
    MaxLoads = 2

SPECIFICATION Spec

INVARIANT TypeOK
INVARIANT AtMostOneWriter
INVARIANT MountedImpliesSession

\* A behaviour ends after MaxAttempts mount attempts, or at an oops.
CHECK_DEADLOCK FALSE
