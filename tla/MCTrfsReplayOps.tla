--------------------------- MODULE MCTrfsReplayOps ---------------------------
EXTENDS TrfsReplayOps

\* The records a trace can hold: opens, reads, writes and closes of the
\* recorded files, a path operation, a truncate and a setxattr, with either
\* recorded outcome.
MCRecords ==
    {[op |-> o, addr |-> a, pid |-> p, ret |-> r] :
        o \in {"open", "read", "write", "close"}, a \in Addrs, p \in Pids,
        r \in {"ok", "err"}}
    \cup {[op |-> o, addr |-> NoAddr, pid |-> p, ret |-> r] :
            o \in {"mkdir", "truncate", "setxattr"}, p \in Pids, r \in {"ok", "err"}}

\* Every trace of up to MaxRecords records.
MaxRecords == 3
MCTraces == BoundedSeq(MCRecords, MaxRecords)
\* Command lines: none, a path alone or after -n or -s, an unknown flag,
\* a flag and no path, both flags (the last wins), a flag after the path,
\* and one argument too many.
MCArgvs ==
    {<<>>, <<"path">>, <<"-n", "path">>, <<"-s", "path">>, <<"-x", "path">>,
     <<"-n">>, <<"-s", "-n", "path">>, <<"path", "-s">>,
     <<"-n", "-s", "path", "path">>}
=============================================================================
