----------------------------- MODULE TrfsReplay -----------------------------
(***************************************************************************)
(* The read loop of the replay tool, src/Userland/treplay.c: main reads    *)
(* the trace file PAGE_SIZE bytes at a time and hands each chunk to        *)
(* trfs_read_tfile_buf, which dispatches record after record and, when a  *)
(* record does not fit in what is left of the chunk, returns a count that *)
(* main adds back to fsize and seeks the file backwards by.                *)
(*                                                                         *)
(* The file is a sequence of record sizes (the writer concatenates         *)
(* records with no header or padding); a position is a byte offset.        *)
(* Reading r_size takes HdrLen bytes (sizeof(int) + sizeof(unsigned       *)
(* short)); at an offset that is not the start of a record, or when fewer *)
(* than HdrLen valid bytes remain in the chunk, the two bytes read are     *)
(* payload or stale buffer contents, and the value is any of JunkSizes.    *)
(* A dispatched record is recorded by its offset; which handler runs is    *)
(* TrfsReplayOps' concern.                                                 *)
(***************************************************************************)
EXTENDS Integers, Sequences, SequencesExt

CONSTANTS
    ChunkSize,      \* PAGE_SIZE of treplay.c
    HdrLen,         \* bytes up to and including r_size
    TraceFiles,     \* the trace files to replay: sequences of record sizes
    JunkSizes       \* what r_size reads as where no header is

ASSUME ChunkSize \in Nat \ {0} /\ HdrLen \in Nat \ {0}
ASSUME JunkSizes \subseteq 0..65535

VARIABLES
    trace,          \* the file being replayed
    fpos,           \* the file offset of fd
    fsize,          \* main's fsize
    chunkStart,     \* file offset of page[0]
    off,            \* buf - page in trfs_read_tfile_buf
    len,            \* trfs_read_tfile_buf's len
    pc,             \* "loop" (while test), "parse" (inside trfs_read_tfile_buf), "done"
    dispatched      \* file offsets of the records handed to a handler, in order

vars == <<trace, fpos, fsize, chunkStart, off, len, pc, dispatched>>

FileLen == FoldSeq(+, 0, trace)

\* Offset of the k-th record.
StartOf(k) == FoldSeq(+, 0, SubSeq(trace, 1, k - 1))

Starts == {StartOf(k) : k \in 1..Len(trace)}

SizeAt(pos) == trace[CHOOSE k \in 1..Len(trace) : StartOf(k) = pos]

(* memcpy(&rsize, buf + sizeof(int), sizeof(unsigned short)).              *)
RSizeRead(pos, valid) ==
    IF pos \in Starts /\ valid >= HdrLen THEN {SizeAt(pos)} ELSE JunkSizes

(* main after open(), fstat() and malloc(PAGE_SIZE).                       *)
Init ==
    /\ trace \in TraceFiles
    /\ fpos = 0
    /\ fsize = FileLen
    /\ chunkStart = 0
    /\ off = 0
    /\ len = 0
    /\ pc = "loop"
    /\ dispatched = <<>>

(***************************************************************************)
(* while (fsize > 0) { bytes = read(fd, page, PAGE_SIZE); if (bytes <= 0)  *)
(* break; fsize -= bytes; ... }.  Leaving the loop ends the replay.        *)
(***************************************************************************)
\* Mutant: read() assumed to return a full PAGE_SIZE.
ReadChunk_fullChunk ==
    LET bytes == ChunkSize IN
    /\ pc = "loop"
    /\ fsize > 0
    /\ \/ /\ bytes <= 0
          /\ pc' = "done"
          /\ UNCHANGED <<fpos, fsize, chunkStart, off, len>>
       \/ /\ bytes > 0
          /\ chunkStart' = fpos
          /\ fpos' = fpos + bytes
          /\ fsize' = fsize - bytes
          /\ off' = 0
          /\ len' = bytes
          /\ pc' = "parse"
    /\ UNCHANGED <<trace, dispatched>>

ReadChunk ==
    LET bytes == Min({ChunkSize, FileLen - fpos}) IN
    /\ pc = "loop"
    /\ fsize > 0
    /\ \/ /\ bytes <= 0
          /\ pc' = "done"
          /\ UNCHANGED <<fpos, fsize, chunkStart, off, len>>
       \/ /\ bytes > 0
          /\ chunkStart' = fpos
          /\ fpos' = fpos + bytes
          /\ fsize' = fsize - bytes
          /\ off' = 0
          /\ len' = bytes
          /\ pc' = "parse"
    /\ UNCHANGED <<trace, dispatched>>

LoopEnd ==
    /\ pc = "loop"
    /\ fsize <= 0
    /\ pc' = "done"
    /\ UNCHANGED <<trace, fpos, fsize, chunkStart, off, len, dispatched>>

(***************************************************************************)
(* Back in main with left_bytes = the function's result: fsize +=         *)
(* left_bytes; lseek(fd, -left_bytes, SEEK_CUR), which fails and leaves    *)
(* the offset alone when it would go below 0.                              *)
(***************************************************************************)
ReturnToMain(left) ==
    /\ fsize' = fsize + left
    /\ fpos' = IF fpos - left >= 0 THEN fpos - left ELSE fpos
    /\ pc' = "loop"

(***************************************************************************)
(* One turn of trfs_read_tfile_buf's while (len > 0): read rsize; if       *)
(* rsize > len return rsize; else dispatch the record at buf, len -=       *)
(* rsize, buf += rsize.  With len <= 0 the loop ends and 0 is returned.    *)
(***************************************************************************)
\* Mutant: buf not advanced after a dispatch.
ParseRecord_noAdvance ==
    /\ pc = "parse"
    /\ len > 0
    /\ \E rsize \in RSizeRead(chunkStart + off, len) :
          \/ /\ rsize > len
             /\ ReturnToMain(rsize)
             /\ UNCHANGED <<off, len, dispatched>>
          \/ /\ rsize <= len
             /\ dispatched' = Append(dispatched, chunkStart + off)
             /\ len' = len - rsize
             /\ UNCHANGED <<off, fpos, fsize, pc>>
    /\ UNCHANGED <<trace, chunkStart>>

\* Mutant: a record that exactly fills the rest of the chunk taken as
\* straddling (rsize >= len).
ParseRecord_offByOne ==
    /\ pc = "parse"
    /\ len > 0
    /\ \E rsize \in RSizeRead(chunkStart + off, len) :
          \/ /\ rsize >= len
             /\ ReturnToMain(rsize)
             /\ UNCHANGED <<off, len, dispatched>>
          \/ /\ rsize < len
             /\ dispatched' = Append(dispatched, chunkStart + off)
             /\ len' = len - rsize
             /\ off' = off + rsize
             /\ UNCHANGED <<fpos, fsize, pc>>
    /\ UNCHANGED <<trace, chunkStart>>

ParseRecord ==
    /\ pc = "parse"
    /\ len > 0
    /\ \E rsize \in RSizeRead(chunkStart + off, len) :
          \/ /\ rsize > len
             /\ ReturnToMain(rsize)
             /\ UNCHANGED <<off, len, dispatched>>
          \/ /\ rsize <= len
             /\ dispatched' = Append(dispatched, chunkStart + off)
             /\ len' = len - rsize
             /\ off' = off + rsize
             /\ UNCHANGED <<fpos, fsize, pc>>
    /\ UNCHANGED <<trace, chunkStart>>

ParseEnd ==
    /\ pc = "parse"
    /\ len <= 0
    /\ ReturnToMain(0)
    /\ UNCHANGED <<trace, chunkStart, off, len, dispatched>>

Next ==
    \/ ReadChunk
    \/ LoopEnd
    \/ ParseRecord
    \/ ParseEnd

Spec == Init /\ [][Next]_vars

(* treplay is one single-threaded process: while it has a step to take it  *)
(* takes one.                                                               *)
FairSpec == Spec /\ WF_vars(Next)

-----------------------------------------------------------------------------
TypeOK ==
    /\ fpos \in 0..FileLen
    /\ fsize \in Int
    /\ pc \in {"loop", "parse", "done"}
    /\ dispatched \in Seq(Nat)

(***************************************************************************)
(* Spec 4.4: when a record's size exceeds what is left of the chunk, the   *)
(* residual byte count is reported and the cursor moved back by it, so     *)
(* decoding resumes exactly at the start of the truncated record.  Hence   *)
(* every record handed to a handler starts at a record boundary.           *)
(***************************************************************************)
ReplayInSync == \A i \in 1..Len(dispatched) : dispatched[i] \in Starts

(***************************************************************************)
(* Up to the first record that straddles the end of the first chunk, the   *)
(* decoder is exact: the i-th record handed to a handler is the i-th       *)
(* record of the file, whatever happens after the first return to main.   *)
(***************************************************************************)
ExactBeforeStraddle ==
    \A i \in 1..Len(dispatched) :
        (i <= Len(trace) /\ StartOf(i) + trace[i] <= ChunkSize)
            => dispatched[i] = StartOf(i)

\* No record straddles two reads: every multiple of ChunkSize below the
\* file's length is a record boundary.
NoStraddle ==
    \A c \in 1..(FileLen \div ChunkSize) : c * ChunkSize \in Starts \cup {FileLen}

(***************************************************************************)
(* When main's loop has ended on a file in which no record straddles two   *)
(* reads, every record of the file has been handed to a handler exactly    *)
(* once and in file order: the chunked read, the in-chunk cursor and the  *)
(* fsize accounting together skip and repeat nothing.                      *)
(***************************************************************************)
ReplayComplete ==
    (NoStraddle /\ pc = "done") => dispatched = [k \in 1..Len(trace) |-> StartOf(k)]

(***************************************************************************)
(* Spec 4.4: reading and decoding repeat until end of file with zero       *)
(* residual.  On a file in which no record straddles two reads, main's     *)
(* loop ends: every chunk is consumed record by record, fsize falls by     *)
(* each read and nothing is added back, so treplay does not spin in        *)
(* trfs_read_tfile_buf or in main's while (fsize > 0).                     *)
(***************************************************************************)
ReplayTerminates == NoStraddle => <>(pc = "done")

=============================================================================
