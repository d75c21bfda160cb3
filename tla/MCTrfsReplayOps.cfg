CONSTANTS
    Addrs = {f1, f2}
    Pids = {1}
    Traces <- MCTraces
    Argvs <- MCArgvs
    MaxFd = 5

SPECIFICATION Spec

INVARIANT TypeOK
INVARIANT MapMirrorsOpenFds

CHECK_DEADLOCK FALSE
