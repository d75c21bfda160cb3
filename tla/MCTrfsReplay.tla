---------------------------- MODULE MCTrfsReplay ----------------------------
EXTENDS TrfsReplay

\* Trace files of up to three records of 2 or 3 bytes.
MCTraceFiles == BoundedSeq({2, 3}, 3) \ {<<>>}

\* Bounds the replays that never end.  No replay of a file in which no
\* record straddles a chunk comes near either bound.
MaxDispatch == 6
MaxFsizeGrowth == 6
StateBound == Len(dispatched) <= MaxDispatch /\ fsize <= FileLen + MaxFsizeGrowth

\* Files of up to four records of 2 to 4 bytes in which no record straddles
\* a chunk boundary.
MCAlignedFiles ==
    {f \in BoundedSeq({2, 3, 4}, 4) \ {<<>>} :
        \A c \in 1..(FoldSeq(+, 0, f) \div ChunkSize) :
            c * ChunkSize \in {FoldSeq(+, 0, SubSeq(f, 1, k)) : k \in 1..Len(f)}}

MCReplayFiles == MCTraceFiles \cup MCAlignedFiles
=============================================================================
