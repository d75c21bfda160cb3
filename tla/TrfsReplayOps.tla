---------------------------- MODULE TrfsReplayOps ----------------------------
(***************************************************************************)
(* The replay handlers of src/Userland/trfs_ops.c, run one record at a     *)
(* time in trace order by trfs_read_tfile_buf (treplay.c), treplay's       *)
(* command line, which sets the run mode gflags, and the list              *)
(* omap that binds a recorded file (the kernel's struct file address and  *)
(* the pid) to the descriptor the replay's own open() returned.           *)
(*                                                                         *)
(* A record is [op, addr, pid, ret]: ret is the recorded outcome, "ok" or *)
(* "err"; a path operation (mkdir, rmdir, link, ...) has no addr.  The     *)
(* real system calls are the environment: open() returns the lowest free  *)
(* descriptor or fails, and a read, write or path operation on a live     *)
(* descriptor may succeed or fail; on a descriptor that is not open it    *)
(* fails (EBADF).  Descriptors 0..2 are the standard streams and 3 is the *)
(* trace file main opened.                                                 *)
(***************************************************************************)
EXTENDS Integers, Sequences, SequencesExt

CONSTANTS
    Addrs,      \* struct file addresses recorded in the trace
    Pids,       \* recorded pids
    Traces,     \* the trace files: sequences of records
    Argvs,      \* command lines: sequences of "-n", "-s", another flag, or a path
    MaxFd       \* highest descriptor open() can return

NoAddr == "none"
Keys == Addrs \X Pids
Fds == 0..MaxFd
StdFds == {0, 1, 2}
TraceFd == 3
ENOENT == 2

\* The record types trfs_read_tfile_buf's switch has a case for.
PathOps == {"mkdir", "rmdir", "link", "symlink", "unlink", "rename"}
HandledOps == PathOps \cup {"truncate", "open", "read", "write", "close"}

VARIABLES
    trace,          \* the records being replayed
    pos,            \* index of the next record
    gflags,         \* the run mode set by main from -n / -s
    omap,           \* the list omap, head first: [addr, pid, fd] nodes
    osFds,          \* the replay process's open descriptors
    pc,             \* "run", "aborted" (exit(0) under -s), "done"
    ret,            \* main's return value, the exit status
    current         \* ghost: per key, the fd of its latest replayed open, or -2

vars == <<trace, pos, gflags, omap, osFds, pc, ret, current>>

NoFd == -2

(***************************************************************************)
(* getopt(argc, argv, "ns") with opterr = 0, over the arguments in order   *)
(* (glibc moves the paths behind the options): -n sets gflags to 1, -s to  *)
(* 2, any other flag is '?', on which main leaves at once.  optind ends at *)
(* the first path.                                                         *)
(***************************************************************************)
GetoptStep(acc, a) ==
    CASE acc.unknown -> acc
      [] a = "-n"    -> [acc EXCEPT !.gflags = 1]
      [] a = "-s"    -> [acc EXCEPT !.gflags = 2]
      [] a = "path"  -> [acc EXCEPT !.paths = acc.paths + 1]
      [] OTHER       -> [acc EXCEPT !.unknown = TRUE]

treplay_getopt(argv) ==
    FoldLeft(GetoptStep, [gflags |-> 0, unknown |-> FALSE, paths |-> 0], argv)

(***************************************************************************)
(* main up to its read loop: argc outside 2..4 is reported and main        *)
(* returns 0; an unknown flag, no path, or a trace file open() fails on    *)
(* return -ENOENT.  Otherwise the trace file is descriptor 3 and           *)
(* trfs_rpd_init sets omap = NULL.  Every exit goes through out:, where    *)
(* trfs_rpd_exit finds omap empty.                                         *)
(***************************************************************************)
(* trfs_rpd_init: omap = NULL, also the list's static initial value.      *)
trfs_rpd_init == omap = <<>>

Init ==
    /\ trace \in Traces
    /\ pos = 1
    /\ trfs_rpd_init
    /\ current = [k \in Keys |-> NoFd]
    /\ \E argv \in Argvs, opened \in BOOLEAN :
          LET argc == Len(argv) + 1
              o == treplay_getopt(argv)
          IN
          IF argc < 2 \/ argc > 4
            THEN gflags = 0 /\ pc = "done" /\ ret = 0 /\ osFds = StdFds
            ELSE /\ gflags = o.gflags
                 /\ IF o.unknown \/ o.paths = 0 \/ ~opened
                      THEN pc = "done" /\ ret = -ENOENT /\ osFds = StdFds
                      ELSE pc = "run" /\ ret = 0 /\ osFds = StdFds \cup {TraceFd}

Rec == trace[pos]

\* Positions of the nodes whose addr and pid match, head first.
Matches(a, p) == {i \in 1..Len(omap) : omap[i].addr = a /\ omap[i].pid = p}

(* trfs_omap_getfd: the fd of the first matching node, else -1.            *)
trfs_omap_getfd(a, p) ==
    IF Matches(a, p) = {} THEN -1 ELSE omap[Min(Matches(a, p))].fd

\* Mutant: the last matching node unlinked instead of the first.
trfs_omap_delete_op_last(a, p) ==
    omap' = IF Matches(a, p) = {} THEN omap ELSE RemoveAt(omap, Max(Matches(a, p)))

(* trfs_omap_delete_op: unlink and free the first matching node, if any.   *)
trfs_omap_delete_op(a, p) ==
    omap' = IF Matches(a, p) = {} THEN omap ELSE RemoveAt(omap, Min(Matches(a, p)))

(* trfs_omap_add_op: the node becomes the head or is linked at the tail.  *)
trfs_omap_add_op(node) == omap' = Append(omap, node)

\* Mutant: the macro's fd and addr arguments swapped.
OMAP_OP_swapped(fd, a, p) ==
    trfs_omap_add_op([addr |-> fd, pid |-> p, fd |-> a])

(* OMAP_OP(fd, addr, pid): a fresh node with the three fields, added.      *)
OMAP_OP(fd, a, p) ==
    trfs_omap_add_op([addr |-> a, pid |-> p, fd |-> fd])

(***************************************************************************)
(* MAP_RETVAL(r1, r2): on r1 == r2 print Success (and under -n return,    *)
(* which skips only a printf); otherwise print Failure and under -s        *)
(* exit(0).  Either way trfs_read_tfile_buf goes on to the next record.    *)
(***************************************************************************)
MAP_RETVAL(match) ==
    /\ pc' = IF ~match /\ gflags = 2 THEN "aborted" ELSE "run"
    /\ pos' = pos + 1

\* What a call on descriptor fd can return.
Outcomes(fd) == IF fd \in osFds THEN {"ok", "err"} ELSE {"err"}

(* trfs_run_open_op: open(); OMAP_OP(ret, addr, pid), a failed open        *)
(* included; no outcome check.                                             *)
trfs_run_open_op ==
    LET free == Fds \ osFds
        k == <<Rec.addr, Rec.pid>>
    IN
    /\ pc = "run" /\ pos <= Len(trace) /\ Rec.op = "open"
    /\ \E fd \in IF free = {} THEN {-1} ELSE {Min(free), -1} :
          /\ osFds' = IF fd = -1 THEN osFds ELSE osFds \cup {fd}
          /\ OMAP_OP(fd, Rec.addr, Rec.pid)
          /\ current' = [current EXCEPT ![k] = fd]
    /\ pos' = pos + 1
    /\ UNCHANGED <<trace, gflags, pc, ret>>

(* trfs_run_read_op: read(getfd(..), ..); MAP_RETVAL(bytes, op->ret).      *)
trfs_run_read_op ==
    /\ pc = "run" /\ pos <= Len(trace) /\ Rec.op = "read"
    /\ \E r \in Outcomes(trfs_omap_getfd(Rec.addr, Rec.pid)) :
          /\ MAP_RETVAL(r = Rec.ret)
    /\ UNCHANGED <<trace, gflags, omap, osFds, ret, current>>

(***************************************************************************)
(* trfs_run_write_op: write(getfd(..), .., op->count);                     *)
(* MAP_RETVAL(bytes, op->count): the result is compared with the count     *)
(* asked for, not with the recorded op->ret.                               *)
(***************************************************************************)
trfs_run_write_op ==
    /\ pc = "run" /\ pos <= Len(trace) /\ Rec.op = "write"
    /\ \E r \in Outcomes(trfs_omap_getfd(Rec.addr, Rec.pid)) :
          /\ MAP_RETVAL(r = "ok")
    /\ UNCHANGED <<trace, gflags, omap, osFds, ret, current>>

(* trfs_run_close_op: fd = getfd; delete the node; close(fd); no check.    *)
trfs_run_close_op ==
    LET fd == trfs_omap_getfd(Rec.addr, Rec.pid) IN
    /\ pc = "run" /\ pos <= Len(trace) /\ Rec.op = "close"
    /\ trfs_omap_delete_op(Rec.addr, Rec.pid)
    /\ osFds' = osFds \ {fd}
    /\ current' = [current EXCEPT ![<<Rec.addr, Rec.pid>>] = NoFd]
    /\ pos' = pos + 1
    /\ UNCHANGED <<trace, gflags, pc, ret>>

(***************************************************************************)
(* trfs_run_mkdir_op, _rmdir_op, _link_op, _symlink_op, _unlink_op and     *)
(* _rename_op: one call on paths, then MAP_RETVAL(ret, op->ret).           *)
(***************************************************************************)
trfs_run_path_op ==
    /\ pc = "run" /\ pos <= Len(trace) /\ Rec.op \in PathOps
    /\ \E r \in {"ok", "err"} :
          /\ MAP_RETVAL(r = Rec.ret)
    /\ UNCHANGED <<trace, gflags, omap, osFds, ret, current>>

(* trfs_run_trunct_op: an empty body; nothing is called or compared.      *)
trfs_run_trunct_op ==
    /\ pc = "run" /\ pos <= Len(trace) /\ Rec.op = "truncate"
    /\ pos' = pos + 1
    /\ UNCHANGED <<trace, gflags, omap, osFds, pc, ret, current>>

(***************************************************************************)
(* The switch's default: a type with no case (the xattr records, and every *)
(* type the kernel does not emit) is passed over.  The xattr handlers of   *)
(* log_ops are never called.                                               *)
(***************************************************************************)
NoHandler ==
    /\ pc = "run" /\ pos <= Len(trace) /\ Rec.op \notin HandledOps
    /\ pos' = pos + 1
    /\ UNCHANGED <<trace, gflags, omap, osFds, pc, ret, current>>

(* End of the trace: main leaves its loop; trfs_rpd_exit destroys omap.    *)
trfs_rpd_exit ==
    /\ pc = "run" /\ pos > Len(trace)
    /\ pc' = "done"
    /\ omap' = <<>>
    /\ UNCHANGED <<trace, pos, gflags, osFds, ret, current>>

Next ==
    \/ trfs_run_open_op
    \/ trfs_run_read_op
    \/ trfs_run_write_op
    \/ trfs_run_close_op
    \/ trfs_run_path_op
    \/ trfs_run_trunct_op
    \/ NoHandler
    \/ trfs_rpd_exit

Spec == Init /\ [][Next]_vars

-----------------------------------------------------------------------------
TypeOK ==
    /\ pos \in 1..Len(trace) + 1
    /\ gflags \in {0, 1, 2}
    /\ ret \in {0, -ENOENT}
    /\ omap \in Seq([addr : Addrs, pid : Pids, fd : Fds \cup {-1}])
    /\ osFds \subseteq Fds
    /\ pc \in {"run", "aborted", "done"}
    /\ current \in [Keys -> Fds \cup {-1, NoFd}]

(***************************************************************************)
(* While the replay runs, the descriptors omap holds are exactly the ones  *)
(* the replay has open beyond the standard streams, each held by one node: *)
(* trfs_run_close_op looks up and unlinks the same node and closes its     *)
(* descriptor, so no node is left naming a closed or reused descriptor,   *)
(* and no open descriptor is left without a node.                          *)
(***************************************************************************)
MapMirrorsOpenFds ==
    pc = "run" =>
        /\ {omap[i].fd : i \in 1..Len(omap)} \ {-1} = osFds \ (StdFds \cup {TraceFd})
        /\ \A i, j \in 1..Len(omap) : i # j /\ omap[i].fd # -1 => omap[i].fd # omap[j].fd

(***************************************************************************)
(* Spec 4.4 / 4.5: OPEN and CLOSE keep the binding current, so a lookup    *)
(* for a recorded file yields the descriptor of its latest replayed open.  *)
(***************************************************************************)
LookupIsCurrent ==
    pc = "run" =>
        \A k \in Keys : current[k] # NoFd => trfs_omap_getfd(k[1], k[2]) = current[k]

=============================================================================
