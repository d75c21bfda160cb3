CONSTANTS
    Producers = {p1, p2}
    MaxMsgs = 2
    PageSize = 4
    RecSizes = {2, 3}
    LogComplete = 127
    MaxOps = 3
    NoMsg = NoMsg
    Kinds = {"MKDIR"}
    OpKinds = {"MKDIR"}
    TrctlCmds <- MCTrctlCmds

SPECIFICATION Spec

INVARIANT NoAcceptedRecordLost

CHECK_DEADLOCK FALSE
