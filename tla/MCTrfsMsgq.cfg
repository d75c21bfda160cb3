CONSTANTS
    MaxMsgs = 2
    MaxSend = 4
    Producers = {p1, p2}
    Timeouts <- MCTimeouts
    NoMsg = NoMsg

SPECIFICATION FairSpec

INVARIANT TypeOK
INVARIANT IndexCounterAgree
INVARIANT GetFindsMessage
PROPERTY ChannelRefinement
PROPERTY QueuedIsReceived
