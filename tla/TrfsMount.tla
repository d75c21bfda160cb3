----------------------------- MODULE TrfsMount -----------------------------
(***************************************************************************)
(* The tracer's life across module loads and mounts: init_trfs_fs and     *)
(* exit_trfs_fs (src/trfs/main.c), trfs_read_super with all of its        *)
(* failure paths, and trfs_put_super / trfs_exit (src/trfs/super.c) at     *)
(* unmount.                                                                *)
(*                                                                         *)
(* The tracing state is global to the module, not to a superblock: the     *)
(* table trfs_msg_queues_g_g of TRFS_MQ_MAX_NO_OF_Q queue slots and its    *)
(* fill count numAfdxQs, tlw.tfile, tld, the ioctl char device and the     *)
(* TRFS_LOG_THREAD kthreads.  trfsMqOpen gives slot n the id n + 1         *)
(* (mqIdSeq and numAfdxQs only ever advance together), so the log queue,   *)
(* id TRFS_LOG_QID, exists once LogQid slots are in use.                   *)
(*                                                                         *)
(* A mount request is the environment's: whether dev_name is given, the   *)
(* raw option string (NULL or a list of tokens), what filp_open makes of   *)
(* the tfile path, whether the lower directory exists, and which kmalloc, *)
(* if any, fails.  A superblock whose trfs_read_super failed has no        *)
(* s_root, and the VFS (generic_shutdown_super) then never calls           *)
(* put_super: what the failed mount acquired stays.                        *)
(***************************************************************************)
EXTENDS Integers, Sequences, FiniteSets, SequencesExt

CONSTANTS
    MaxQs,          \* TRFS_MQ_MAX_NO_OF_Q
    QsPerMount,     \* TRFS_TX_Q_MAX_NODES: queues trfs_create_log_q opens
    LogQid,         \* TRFS_LOG_QID
    Requests,       \* the mount requests the environment may issue
    MaxAttempts,    \* bound on mount attempts
    MaxLoads        \* bound on module loads (insmod)

ASSUME QsPerMount \in 1..MaxQs /\ LogQid \in 1..QsPerMount

VARIABLES
    numAfdxQs,      \* slots of trfs_msg_queues_g_g in use
    tfile,          \* tlw.tfile: "none", "open", "closed"
    tld,            \* the global tld points to a live trfs_log_driver
    cdevs,          \* char-device regions trfs_ioctl_init registered and nothing unregistered
    writers,        \* kthreads running trfs_log_write_func
    mounted,        \* superblocks whose trfs_read_super succeeded, not yet put
    oops,           \* trfs_read_super dereferenced an error pointer
    attempts,       \* mount attempts so far
    req,            \* observation: the last attempt's request
    ret,            \* observation: what it returned, "none", "ok", "err", "oops"
    loaded,         \* the module is in memory and trfs_fs_type registered
    stranded,       \* writer kthreads of an unloaded module, blocked in its code
    loads           \* insmod attempts so far

vars == <<numAfdxQs, tfile, tld, cdevs, writers, mounted, oops, attempts, req, ret,
          loaded, stranded, loads>>

\* What a module load or unload leaves alone.
moduleVars == <<loaded, stranded, loads>>

Init ==
    /\ numAfdxQs = 0
    /\ tfile = "none"
    /\ tld = FALSE
    /\ cdevs = 0
    /\ writers = 0
    /\ mounted = 0
    /\ oops = FALSE
    /\ attempts = 0
    /\ req = CHOOSE r \in Requests : TRUE
    /\ ret = "none"
    /\ loaded = FALSE
    /\ stranded = 0
    /\ loads = 0

(***************************************************************************)
(* trfs_parse_options: NULL options are an error; a "tfile=%s" token sets  *)
(* the file name and clears err, any other token sets err.                 *)
(***************************************************************************)
ParseToken(acc, tok) ==
    IF tok = "tfile" THEN [name |-> TRUE, err |-> FALSE] ELSE [acc EXCEPT !.err = TRUE]

trfs_parse_options(r) ==
    IF ~r.raw THEN [name |-> FALSE, err |-> TRUE]
    ELSE FoldLeft(ParseToken, [name |-> FALSE, err |-> FALSE], r.opts)

\* Mutant: the table bound not tested.
trfsMqOpen_unbounded(n) ==
    TRUE

(* trfsMqOpen with trfs_create_log_q's valid attributes: fails only when   *)
(* all TRFS_MQ_MAX_NO_OF_Q slots are in use.                               *)
trfsMqOpen_ok(n) ==
    n < MaxQs

(* trfs_create_log_q: QsPerMount opens, stopping at the first failure.     *)
QueuesOpened ==
    Cardinality({i \in 0..QsPerMount - 1 : trfsMqOpen_ok(numAfdxQs + i)})

(* trfs_file_verify after filp_open: an error pointer is returned as is,   *)
(* a file that is not regular is -EIO.                                     *)
trfs_file_verify(r) ==
    CASE r.file = "regular"    -> "ok"
      [] r.file = "special"    -> "eio"
      [] r.file = "unopenable" -> "errptr"

(***************************************************************************)
(* trfs_log_write_init: -ENOENT without a file name; else filp_open and    *)
(* verify, then tlw.tfile->f_pos = 0 whatever verify said, which on an     *)
(* error pointer is a wild dereference.                                    *)
(***************************************************************************)
trfs_log_write_init(r) ==
    IF ~trfs_parse_options(r).name THEN "enoent" ELSE trfs_file_verify(r)

(***************************************************************************)
(* The checks of trfs_read_super, in code order; a failing one jumps to    *)
(* the error labels.  Between log_q and tld the code also starts the       *)
(* writer kthread (after trfs_log_driver_init, before the tld test), and   *)
(* between tld and lower_path it registers the ioctl device, whose result *)
(* it ignores.                                                             *)
(***************************************************************************)
Stages == <<"dev_name", "t_op", "options", "log_q", "write_init",
            "tld", "lower_path", "sb_info", "root">>

\* Mutant: a NULL tld not tested.
Fails_noTldCheck(s, r) ==
    CASE s = "dev_name"   -> ~r.dev
      [] s = "t_op"       -> r.nomem = "t_op"
      [] s = "options"    -> trfs_parse_options(r).err /\ r.raw
      [] s = "log_q"      -> QueuesOpened < QsPerMount
      [] s = "write_init" -> trfs_log_write_init(r) # "ok"
      [] s = "tld"        -> FALSE
      [] s = "lower_path" -> ~r.lower
      [] s = "sb_info"    -> r.nomem = "sb_info"
      [] s = "root"       -> r.nomem = "root"

Fails(s, r) ==
    CASE s = "dev_name"   -> ~r.dev
      [] s = "t_op"       -> r.nomem = "t_op"
      [] s = "options"    -> trfs_parse_options(r).err /\ r.raw
      [] s = "log_q"      -> QueuesOpened < QsPerMount
      [] s = "write_init" -> trfs_log_write_init(r) # "ok"
      [] s = "tld"        -> r.nomem = "tld"
      [] s = "lower_path" -> ~r.lower
      [] s = "sb_info"    -> r.nomem = "sb_info"
      [] s = "root"       -> r.nomem = "root"

StageIndex(s) == CHOOSE i \in DOMAIN Stages : Stages[i] = s

\* trfs_read_super got as far as the check of stage s.
Reaches(s, r) == \A i \in 1..StageIndex(s) - 1 : ~Fails(Stages[i], r)

Succeeds(r) == \A i \in DOMAIN Stages : ~Fails(Stages[i], r)

(* trfs_log_driver_init: kmalloc; the global tld is overwritten.            *)
trfs_log_driver_init(r) == tld' = (r.nomem # "tld")

(* trfs_kthread_create: the new thread is woken; the caller's trfs_kthread *)
(* is passed by value and stays NULL.                                      *)
trfs_kthread_create == writers' = writers + 1

(* trfs_ioctl_init: cdev_alloc, alloc_chrdev_region, cdev_add.              *)
trfs_ioctl_init == cdevs' = cdevs + 1

(***************************************************************************)
(* mount_nodev -> trfs_read_super(sb, raw_data): every step up to the      *)
(* first failing check, then the error labels, which release only t_op,    *)
(* the lower path and the superblock info.                                 *)
(***************************************************************************)
trfs_read_super(r) ==
    LET wi == trfs_log_write_init(r) IN
    /\ ~oops
    /\ loaded
    /\ attempts < MaxAttempts
    /\ attempts' = attempts + 1
    /\ req' = r
    /\ numAfdxQs' = IF Reaches("log_q", r) THEN numAfdxQs + QueuesOpened ELSE numAfdxQs
    /\ oops' = (Reaches("write_init", r) /\ wi = "errptr")
    /\ tfile' = IF Reaches("write_init", r) /\ wi \in {"ok", "eio"} THEN "open" ELSE tfile
    /\ IF Reaches("tld", r)
          THEN trfs_log_driver_init(r) /\ trfs_kthread_create
          ELSE UNCHANGED <<tld, writers>>
    /\ IF Reaches("lower_path", r) THEN trfs_ioctl_init ELSE UNCHANGED cdevs
    /\ mounted' = IF Succeeds(r) THEN mounted + 1 ELSE mounted
    /\ ret' = CASE oops'      -> "oops"
                [] Succeeds(r) -> "ok"
                [] OTHER       -> "err"
    /\ UNCHANGED moduleVars

(* trfs_log_write_close: trfs_file_close(tlw.tfile).                       *)
trfs_log_write_close == tfile' = "closed"

(* trfsMqClose: its body is under #if 0, so no slot is freed.            *)
trfsMqClose == UNCHANGED numAfdxQs

(* trfs_delete_log_q: trfsMqClose on each queue trfs_create_log_q opened. *)
trfs_delete_log_q == trfsMqClose

(* trfs_ioctl_exit: cdev_del and unregister_chrdev_region.                 *)
trfs_ioctl_exit == cdevs' = cdevs - 1

(* trfs_log_driver_exit: kfree(tld).                                        *)
trfs_log_driver_exit == tld' = FALSE

(***************************************************************************)
(* trfs_put_super -> trfs_exit: flush, close, no kthread exit (trfs_kthread *)
(* is NULL), delete the queues, the ioctl device and tld.                  *)
(***************************************************************************)
trfs_put_super ==
    /\ ~oops
    /\ mounted > 0
    /\ mounted' = mounted - 1
    /\ trfs_log_write_close
    /\ trfs_delete_log_q
    /\ trfs_ioctl_exit
    /\ trfs_log_driver_exit
    /\ UNCHANGED <<writers, oops, attempts, req, ret>>
    /\ UNCHANGED moduleVars

(***************************************************************************)
(* A writer that takes a record whose r_id is TRFS_LOG_COMPLETE leaves its *)
(* loop, frees tlw.page and returns.  Whether such a record is queued is   *)
(* TrfsTrace's concern; here it may come at any time.                      *)
(***************************************************************************)
trfs_log_write_func_exit ==
    /\ ~oops
    /\ writers > 0
    /\ writers' = writers - 1
    /\ UNCHANGED <<numAfdxQs, tfile, tld, cdevs, mounted, oops, attempts, req, ret>>
    /\ UNCHANGED moduleVars

(***************************************************************************)
(* init_trfs_fs: trfs_init_inode_cache, trfs_init_dentry_cache (either     *)
(* kmem_cache_create may fail, and a failure skips the rest), then         *)
(* register_filesystem, which fails only for a name already registered.   *)
(* On an error both caches are destroyed and the load fails.  A loaded     *)
(* module starts from its static initializers: an empty queue table, no   *)
(* tlw.tfile, tld NULL.  Char-device regions and kthreads are the          *)
(* kernel's and survive.                                                   *)
(***************************************************************************)
init_trfs_fs ==
    /\ ~oops
    /\ ~loaded
    /\ loads < MaxLoads
    /\ loads' = loads + 1
    /\ \E err \in {"none", "inode_cache", "dentry_cache"} :
          loaded' = (err = "none")
    /\ numAfdxQs' = 0
    /\ tfile' = "none"
    /\ tld' = FALSE
    /\ UNCHANGED <<cdevs, writers, mounted, oops, attempts, req, ret, stranded>>

(***************************************************************************)
(* exit_trfs_fs: destroy the caches and unregister the filesystem.  The    *)
(* VFS holds a module reference for each superblock (trfs_fs_type.owner), *)
(* so rmmod succeeds only with nothing mounted.  Nothing stops the writer  *)
(* kthreads: they stay asleep in trfsMqRecv, on a wait queue and in code   *)
(* that are freed.                                                         *)
(***************************************************************************)
exit_trfs_fs ==
    /\ ~oops
    /\ loaded
    /\ mounted = 0
    /\ loaded' = FALSE
    /\ stranded' = stranded + writers
    /\ writers' = 0
    /\ UNCHANGED <<numAfdxQs, tfile, tld, cdevs, mounted, oops, attempts, req, ret, loads>>

Next ==
    \/ \E r \in Requests : trfs_read_super(r)
    \/ trfs_put_super
    \/ trfs_log_write_func_exit
    \/ init_trfs_fs
    \/ exit_trfs_fs

Spec == Init /\ [][Next]_vars

-----------------------------------------------------------------------------
TypeOK ==
    /\ numAfdxQs \in 0..MaxQs
    /\ tfile \in {"none", "open", "closed"}
    /\ tld \in BOOLEAN
    /\ cdevs \in Nat
    /\ writers \in Nat
    /\ mounted \in Nat
    /\ oops \in BOOLEAN
    /\ attempts \in 0..MaxAttempts
    /\ req \in Requests
    /\ ret \in {"none", "ok", "err", "oops"}
    /\ loaded \in BOOLEAN
    /\ stranded \in Nat
    /\ loads \in 0..MaxLoads

(***************************************************************************)
(* Every writer kthread works on the same globals, tlw.page, tlw.page_size *)
(* and tlw.tfile, with no lock, and unmount never stops one.  Across any   *)
(* sequence of mounts, failed mounts and unmounts, at most one is ever     *)
(* running.                                                                *)
(***************************************************************************)
AtMostOneWriter == writers <= 1

(***************************************************************************)
(* A mounted trfs has a whole tracing session behind it: the log queue     *)
(* exists, the trace file is open, tld is live and the ioctl device is     *)
(* registered; and it is the only trfs mounted.  TrfsTrace's Init is this *)
(* state.                                                                  *)
(***************************************************************************)
MountedImpliesSession ==
    mounted > 0 =>
        /\ mounted = 1
        /\ numAfdxQs >= LogQid
        /\ tfile = "open"
        /\ tld
        /\ cdevs >= 1

(***************************************************************************)
(* Spec 4.2: opening a channel fails only on invalid parameters, and the   *)
(* tracer's are always valid.  So with no trfs mounted, a mount whose      *)
(* arguments are all good and whose allocations all succeed succeeds.      *)
(***************************************************************************)
ValidRequest(r) ==
    /\ r.dev /\ r.raw
    /\ trfs_parse_options(r).name /\ ~trfs_parse_options(r).err
    /\ r.file = "regular" /\ r.lower /\ r.nomem = "none"

ValidMountSucceeds ==
    [][(attempts' > attempts /\ mounted = 0 /\ ValidRequest(req')) => ret' = "ok"]_vars

=============================================================================
