------------------------------ MODULE TrfsTrace ------------------------------
(***************************************************************************)
(* The kernel side of tracing, from a traced call to the trace file:       *)
(*   - producers: the trfs_log_*_op functions of src/trfs/trfs_ops.c, run *)
(*     on the calling thread: kmalloc the record, take an id from          *)
(*     get_next_record_id (src/trfs/tr_fs.c), TRFS_WRITE it to the queue; *)
(*   - the queue TRFS_LOG_QID (module TrfsMsgq);                            *)
(*   - the writer kthread trfs_log_write_func: receive with timeOut -1,    *)
(*     batch records into the page tlw.page, write a full page to tfile;  *)
(*   - unmount, trfs_put_super -> trfs_exit: flush the page, close tfile,  *)
(*     and stop the writer only if trfs_kthread is set.                    *)
(*                                                                         *)
(* A record is abstracted to [uid, id, size]: uid is a ghost naming the    *)
(* traced call, id is r_id, size is r_size in bytes.  Bytes are scaled:    *)
(* PageSize stands for TRFS_PAGE_SIZE and RecSizes for record sizes.       *)
(***************************************************************************)
EXTENDS Integers, Sequences, SequencesExt

CONSTANTS
    Producers,      \* threads running traced filesystem operations
    MaxMsgs,        \* queue capacity, TRFS_MAX_TX_Q_MSGS
    PageSize,       \* TRFS_PAGE_SIZE
    RecSizes,       \* sizes a record can have
    LogComplete,    \* TRFS_LOG_COMPLETE, the writer's end-of-tracing marker
    MaxOps,         \* bound on the number of traced calls
    NoMsg,          \* NULL
    Kinds,          \* the operation kinds (trfs_op_type) the bitmap has bits for
    OpKinds,        \* the kinds of the traced calls, a subset of Kinds
    TrctlCmds       \* the -c arguments trctl may be given

ASSUME PageSize \in Nat \ {0} /\ RecSizes \subseteq Nat \ {0}
ASSUME MaxOps \in Nat /\ LogComplete \in Nat
ASSUME OpKinds \subseteq Kinds

VARIABLES
    \* the queue and the writer's receive call, see TrfsMsgq
    msg, readIndex, writeIndex, counter, exit_flag, wpc, recvRet, recvMsg, sendRet,
    ppc,            \* per producer: where it is in its trfs_log_*_op
    prec,           \* per producer: the record it is building
    id,             \* the static counter of get_next_record_id
    ops,            \* traced calls started so far (ghost, for the bound)
    accepted,       \* records trfsMqPutMsg stored, in order (ghost)
    page,           \* the records in tlw.page
    page_size,      \* tlw.page_size
    tfile,          \* the records written to the trace file, in order
    tfileOpen,      \* tlw.tfile not yet closed by trfs_log_write_close
    mpc,            \* mount state: "mounted", "close", "unmounted"
    bitmap          \* tld->bitmap, as the set of kinds whose bit is set

Q == INSTANCE TrfsMsgq WITH cpc <- wpc, Timeouts <- {-1}

qVars == <<msg, readIndex, writeIndex, counter, exit_flag>>
vars == <<qVars, wpc, recvRet, recvMsg, sendRet, ppc, prec, id, ops,
          accepted, page, page_size, tfile, tfileOpen, mpc, bitmap>>

\* kind is a ghost: the operation the record was made for; type is r_type.
Records == [uid : 1..MaxOps, id : Nat, size : RecSizes, kind : OpKinds, type : Kinds]
NoRec == [uid |-> 0, id |-> 0, size |-> 0, kind |-> "none", type |-> "none"]

\* The bit IS_TRACE_ENABLED tests, and the r_type stored, in trfs_log_<k>_op:
\* trfs_log_mknod_op tests TRFS_OP_CLOSE and stores TRFS_OP_CLOSE.
TraceBit(k) == IF k = "MKNOD" THEN "CLOSE" ELSE k
RecType(k) == IF k = "MKNOD" THEN "CLOSE" ELSE k

(* The operation codes of enum trfs_ops, the bit numbers of the bitmap.   *)
trfs_ops ==
    [CREATE |-> 1, LOOKUP |-> 2, LINK |-> 3, UNLINK |-> 4, SYMLINK |-> 5,
     MKDIR |-> 6, RMDIR |-> 7, MKNOD |-> 8, TRUNCATE |-> 9, RENAME |-> 10,
     PERMISSION |-> 11, SETATTR |-> 12, GETATTR |-> 13, SETXATTR |-> 14,
     GETXATTR |-> 15, LISTXATTR |-> 16, REMOVEXATTR |-> 17,
     D_REVALIDATE |-> 18, D_RELEASE |-> 19, READ |-> 20, WRITE |-> 21,
     MMAP |-> 22, OPEN |-> 23, CLOSE |-> 24, FLUSH |-> 25, FSYNC |-> 26,
     FASYNC |-> 27, READ_ITER |-> 28, WRITE_ITER |-> 29, FILE_RELEASE |-> 30]

\* test_bit_set(a, n): (1 << n) & a, for 0 <= a.
test_bit_set(a, n) == (a \div 2^n) % 2 = 1

(***************************************************************************)
(* The mask trctl -c cmd installs, as the set of kinds whose bit is set:    *)
(* "all" is ~(args->bitmap & 0), every bit; "none" is 0; anything else is  *)
(* atoi(cmd).  A command is [c |-> "all" | "none" | "num", n |-> atoi].    *)
(***************************************************************************)
trctl_bitmap(cmd) ==
    CASE cmd.c = "all"  -> Kinds
      [] cmd.c = "none" -> {}
      [] cmd.c = "num"  -> {k \in Kinds : test_bit_set(cmd.n, trfs_ops[k])}

Init ==
    /\ Q!QInit
    /\ Q!ConsumerInit
    /\ sendRet = [p \in Producers |-> [ret |-> Q!NoRet, m |-> NoMsg]]
    /\ ppc = [p \in Producers |-> "idle"]
    /\ prec = [p \in Producers |-> NoRec]
    /\ id = 1
    /\ ops = 0
    /\ accepted = <<>>
    /\ page = <<>>
    /\ page_size = 0
    /\ tfile = <<>>
    /\ tfileOpen = TRUE
    /\ mpc = "mounted"
    /\ bitmap = Kinds

-----------------------------------------------------------------------------
(***************************************************************************)
(* Producers.  A traced call of kind k enters trfs_log_<k>_op, which       *)
(* returns at once when IS_TRACE_ENABLED finds its bit clear in           *)
(* tld->bitmap.  Otherwise kmalloc(size) either fails, and                *)
(* TRFS_WRITE(NULL, size) is refused by trfsMqSend with -1, or succeeds   *)
(* and the record is filled in, starting with r_id.                        *)
(***************************************************************************)
LogOpStart(p) ==
    /\ mpc = "mounted"
    /\ ppc[p] = "idle"
    /\ ops < MaxOps
    /\ ops' = ops + 1

LogOpFiltered(p, k) ==
    /\ LogOpStart(p)
    /\ TraceBit(k) \notin bitmap
    /\ UNCHANGED <<qVars, wpc, recvRet, recvMsg, sendRet, ppc, prec, id, accepted,
                   page, page_size, tfile, tfileOpen, mpc, bitmap>>

LogOpAllocFail(p, k) ==
    /\ LogOpStart(p)
    /\ TraceBit(k) \in bitmap
    /\ sendRet' = [sendRet EXCEPT ![p] = [ret |-> Q!Err, m |-> NoMsg]]
    /\ UNCHANGED <<qVars, wpc, recvRet, recvMsg, ppc, prec, id, accepted,
                   page, page_size, tfile, tfileOpen, mpc, bitmap>>

LogOpAlloc(p, k) ==
    /\ LogOpStart(p)
    /\ TraceBit(k) \in bitmap
    /\ \E s \in RecSizes :
          prec' = [prec EXCEPT ![p] = [uid |-> ops + 1, id |-> 0, size |-> s,
                                       kind |-> k, type |-> RecType(k)]]
    /\ ppc' = [ppc EXCEPT ![p] = "inc"]
    /\ UNCHANGED <<qVars, wpc, recvRet, recvMsg, sendRet, id, accepted,
                   page, page_size, tfile, tfileOpen, mpc, bitmap>>

(* get_next_record_id: mutex_lock(id_lock); id++; mutex_unlock(id_lock).   *)
IdIncrement(p) ==
    /\ ppc[p] = "inc"
    /\ id' = id + 1
    /\ ppc' = [ppc EXCEPT ![p] = "ret"]
    /\ UNCHANGED <<qVars, wpc, recvRet, recvMsg, sendRet, prec, ops, accepted,
                   page, page_size, tfile, tfileOpen, mpc, bitmap>>

(* get_next_record_id: return id, read after the unlock.                   *)
IdReturn(p) ==
    /\ ppc[p] = "ret"
    /\ prec' = [prec EXCEPT ![p].id = id]
    /\ ppc' = [ppc EXCEPT ![p] = "send"]
    /\ UNCHANGED <<qVars, wpc, recvRet, recvMsg, sendRet, id, ops, accepted,
                   page, page_size, tfile, tfileOpen, mpc, bitmap>>

(* TRFS_WRITE(op, size): trfsMqSend; a negative result would kfree op.     *)
TrfsWrite(p) ==
    /\ ppc[p] = "send"
    /\ Q!trfsMqSend(p, prec[p])
    /\ accepted' = IF counter # MaxMsgs THEN Append(accepted, prec[p]) ELSE accepted
    /\ ppc' = [ppc EXCEPT ![p] = "idle"]
    /\ UNCHANGED <<prec, id, ops, page, page_size, tfile, tfileOpen, mpc, bitmap>>

-----------------------------------------------------------------------------
(***************************************************************************)
(* The writer kthread, trfs_log_write_func.  wpc "recv"/"lock"/"done" is   *)
(* its trfsMqRecv(TRFS_LOG_QID, &msg1, &len, 0, -1) call.                  *)
(***************************************************************************)
(* trfs_file_write: the bytes reach the file only while it is open.        *)
FileWrite(recs) ==
    tfile' = IF tfileOpen THEN tfile \o recs ELSE tfile

WriterUnchanged ==
    UNCHANGED <<sendRet, ppc, prec, id, ops, accepted, tfileOpen, mpc, bitmap>>

WriterRecv ==
    /\ Q!RecvCheck(-1)
    /\ UNCHANGED <<page, page_size, tfile>> /\ WriterUnchanged

WriterGet ==
    /\ Q!trfsMqGetMsg
    /\ UNCHANGED <<page, page_size, tfile>> /\ WriterUnchanged

(***************************************************************************)
(* After the receive.  trfsMqRecv(.., -1) returns only with a message: the *)
(* other way out is the exit flag, which nothing in trfs sets, so the     *)
(* "< 0 -> goto out" branch is dead.  A record whose first int, r_id,      *)
(* equals TRFS_LOG_COMPLETE is taken for the end marker: the loop breaks   *)
(* and "out" frees tlw.page without writing it (page_size is left as it   *)
(* is).  Otherwise, when page_size + len exceeds the page, the page is     *)
(* written out first ("write", then "reset"); then the record is copied.   *)
(***************************************************************************)
\* Mutant: the flush test without the incoming record's length.
WriterDispatch_noLen ==
    /\ wpc = "done"
    /\ recvRet = Q!MsgLen
    /\ \/ /\ recvMsg.id = LogComplete
          /\ wpc' = "exit"
          /\ page' = <<>>
       \/ /\ recvMsg.id # LogComplete
          /\ page_size > PageSize
          /\ wpc' = "write"
          /\ UNCHANGED page
       \/ /\ recvMsg.id # LogComplete
          /\ page_size <= PageSize
          /\ wpc' = "copy"
          /\ UNCHANGED page
    /\ UNCHANGED <<qVars, recvRet, recvMsg, page_size, tfile>> /\ WriterUnchanged

WriterDispatch ==
    /\ wpc = "done"
    /\ recvRet = Q!MsgLen
    /\ \/ /\ recvMsg.id = LogComplete
          /\ wpc' = "exit"
          /\ page' = <<>>
       \/ /\ recvMsg.id # LogComplete
          /\ page_size + recvMsg.size > PageSize
          /\ wpc' = "write"
          /\ UNCHANGED page
       \/ /\ recvMsg.id # LogComplete
          /\ page_size + recvMsg.size <= PageSize
          /\ wpc' = "copy"
          /\ UNCHANGED page
    /\ UNCHANGED <<qVars, recvRet, recvMsg, page_size, tfile>> /\ WriterUnchanged

(* trfs_file_write(tlw.tfile, tlw.page, tlw.page_size), result ignored.    *)
WriterFlush ==
    /\ wpc = "write"
    /\ FileWrite(page)
    /\ wpc' = "reset"
    /\ UNCHANGED <<qVars, recvRet, recvMsg, page, page_size>> /\ WriterUnchanged

\* Mutant: page_size reset but buf left at the end of the page.
WriterReset_keepPage ==
    /\ wpc = "reset"
    /\ page_size' = 0
    /\ wpc' = "copy"
    /\ UNCHANGED <<qVars, recvRet, recvMsg, page, tfile>> /\ WriterUnchanged

(* buf = tlw.page; tlw.page_size = 0.                                       *)
WriterReset ==
    /\ wpc = "reset"
    /\ page' = <<>>
    /\ page_size' = 0
    /\ wpc' = "copy"
    /\ UNCHANGED <<qVars, recvRet, recvMsg, tfile>> /\ WriterUnchanged

(* memcpy(buf, msg1, len); buf += len; page_size += len; kfree; loop.      *)
WriterCopy ==
    /\ wpc = "copy"
    /\ page' = Append(page, recvMsg)
    /\ page_size' = page_size + recvMsg.size
    /\ wpc' = "recv"
    /\ UNCHANGED <<qVars, recvRet, recvMsg, tfile>> /\ WriterUnchanged

-----------------------------------------------------------------------------
(***************************************************************************)
(* Unmount: trfs_put_super -> trfs_exit, once no traced call is in flight. *)
(* trfs_log_write_flush writes tlw.page_size bytes of the page and leaves  *)
(* page_size as it is; trfs_log_write_close closes tfile.  trfs_kthread is *)
(* never assigned (trfs_kthread_create sets its by-value parameter), so    *)
(* trfs_kthread_exit is skipped: no sentinel is sent and the writer keeps  *)
(* running.  trfs_delete_log_q closes nothing (trfsMqClose is #if 0).      *)
(***************************************************************************)
UnmountFlush ==
    /\ mpc = "mounted"
    /\ \A p \in Producers : ppc[p] = "idle"
    /\ FileWrite(page)
    /\ mpc' = "close"
    /\ UNCHANGED <<qVars, wpc, recvRet, recvMsg, sendRet, ppc, prec, id, ops,
                   accepted, page, page_size, tfileOpen, bitmap>>

UnmountClose ==
    /\ mpc = "close"
    /\ tfileOpen' = FALSE
    /\ mpc' = "unmounted"
    /\ UNCHANGED <<qVars, wpc, recvRet, recvMsg, sendRet, ppc, prec, id, ops,
                   accepted, page, page_size, tfile, bitmap>>

(***************************************************************************)
(* trfs_ioctl_bitmap_op, IOCTL_TRFS_SET_BITMAP: tld->bitmap = args->bitmap *)
(* with whatever mask trctl passed.  copy_from_user's result is only       *)
(* printed, never acted on: when it faults, args (fresh kmalloc memory) is *)
(* not fully written and the bitmap is set from whatever it held.  GET     *)
(* changes nothing.                                                        *)
(***************************************************************************)
IoctlSetBitmap(m) ==
    /\ \/ bitmap' = m
       \/ bitmap' \in SUBSET Kinds
    /\ UNCHANGED <<qVars, wpc, recvRet, recvMsg, sendRet, ppc, prec, id, ops,
                   accepted, page, page_size, tfile, tfileOpen, mpc>>

-----------------------------------------------------------------------------
ProducerStep(p) ==
    \/ IdIncrement(p)
    \/ IdReturn(p)
    \/ TrfsWrite(p)

WriterStep ==
    \/ WriterRecv
    \/ WriterGet
    \/ WriterDispatch
    \/ WriterFlush
    \/ WriterReset
    \/ WriterCopy

Next ==
    \/ \E p \in Producers, k \in OpKinds :
          LogOpFiltered(p, k) \/ LogOpAllocFail(p, k) \/ LogOpAlloc(p, k)
    \/ \E p \in Producers : ProducerStep(p)
    \/ \E cmd \in TrctlCmds : IoctlSetBitmap(trctl_bitmap(cmd))
    \/ WriterStep
    \/ UnmountFlush
    \/ UnmountClose

(***************************************************************************)
(* Fairness: a traced call that has started runs to its end (it never      *)
(* blocks); the writer kthread, woken by wake_up_interruptible, is        *)
(* scheduled; an unmount that has begun completes.  Starting calls and     *)
(* starting an unmount are the environment's choice.                       *)
(***************************************************************************)
Fairness ==
    /\ \A p \in Producers : WF_vars(ProducerStep(p))
    /\ WF_vars(WriterStep)
    /\ WF_vars(UnmountClose)

Spec == Init /\ [][Next]_vars /\ Fairness

-----------------------------------------------------------------------------
TypeOK ==
    /\ msg \in [0..MaxMsgs-1 -> Records \cup {NoMsg}]
    /\ counter \in 0..MaxMsgs
    /\ wpc \in {"recv", "lock", "done", "write", "reset", "copy", "exit"}
    /\ ppc \in [Producers -> {"idle", "inc", "ret", "send"}]
    /\ prec \in [Producers -> Records \cup {NoRec}]
    /\ id \in Nat /\ ops \in 0..MaxOps
    /\ accepted \in Seq(Records) /\ page \in Seq(Records) /\ tfile \in Seq(Records)
    /\ page_size \in Nat
    /\ mpc \in {"mounted", "close", "unmounted"}
    /\ bitmap \subseteq Kinds

\* The record the writer has taken from the queue and not yet copied in.
Held == IF wpc \in {"done", "write", "reset", "copy"} /\ recvRet = Q!MsgLen
        THEN <<recvMsg>> ELSE <<>>

\* The page's records not yet written to the file.
Unwritten == IF wpc = "reset" THEN <<>> ELSE page

(***************************************************************************)
(* While mounted and the writer runs, every record trfsMqPutMsg accepted   *)
(* is, in order and exactly once, in the file, the page, the writer's     *)
(* hands or the queue: the writer's flush-before-copy, its write/reset    *)
(* order and the queue's FIFO together lose, repeat and reorder nothing.  *)
(***************************************************************************)
InFlightConserved ==
    (mpc = "mounted" /\ wpc # "exit")
        => tfile \o Unwritten \o Held \o Q!QueueContents = accepted

(***************************************************************************)
(* tlw.page is TRFS_PAGE_SIZE bytes: the writer's copy never runs past it. *)
(* It holds when no record is larger than the page; spec 9 leaves larger   *)
(* records as an open question, and the copy in trfs_log_write_func is     *)
(* unconditional.                                                          *)
(***************************************************************************)
PageWithinBounds == page_size <= PageSize

(***************************************************************************)
(* Spec 2 / 5: get_next_record_id issues ids under a lock, so no two       *)
(* records carry the same r_id.                                            *)
(***************************************************************************)
UniqueRecordIds ==
    \A i, j \in 1..Len(accepted) : i # j => accepted[i].id # accepted[j].id

(***************************************************************************)
(* Spec 5: on clean shutdown the writer drains the channel, so no record   *)
(* that was successfully enqueued is lost: once unmounted, every accepted  *)
(* record is in the trace file.                                            *)
(***************************************************************************)
NoAcceptedRecordLost ==
    mpc = "unmounted" => \A i \in 1..Len(accepted) : Contains(tfile, accepted[i])

(***************************************************************************)
(* The trace file is a concatenation of records, each written once: the    *)
(* unmount flush and the writer's page writes never write a record twice. *)
(***************************************************************************)
NoRecordWrittenTwice ==
    \A i, j \in 1..Len(tfile) : i # j => tfile[i] # tfile[j]

(***************************************************************************)
(* The writer drains the queue: a record in the queue is eventually taken  *)
(* out by trfs_log_write_func, however the producers and unmount go.       *)
(***************************************************************************)
Queued(u) == \E i \in 1..counter : Q!QueueContents[i].uid = u

QueueDrained == \A u \in 1..MaxOps : [](Queued(u) => <>~Queued(u))

=============================================================================
