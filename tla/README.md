# TLA+ models of Tracefs

This directory holds TLA+ specifications of the tracing and replay code in
`src/`. It also holds the TLC configurations that check them, and `PROJECT.json`.
That file lists the components, the runs, the mutants that show each checked
property can fail, the map from every modelled definition to the source lines
it translates, the findings and the hazards.

## The system

Tracefs is a stackable Linux filesystem that records the filesystem calls made
through it, plus a user-space tool that replays a recorded trace.

Kernel side (`src/trfs`):

| Part | Source | What it does |
|---|---|---|
| Producers | `trfs_ops.c` | One `trfs_log_<op>_op` per operation kind, run on the calling thread. Each tests the kind's bit in `tld->bitmap` (`IS_TRACE_ENABLED`), `kmalloc`s a record, takes an id from `get_next_record_id` (`tr_fs.c`), fills in the record and hands it to `TRFS_WRITE` (`tr_fs.h`). |
| Event queue | `trfs_msgq.c` | A circular array of `TRFS_MAX_TX_Q_MSGS` pointers with read/write indices and a counter, guarded by `tlw.q_lock`. `trfsMqSend` never blocks. `trfsMqRecv` waits on a wait queue for a message or the exit flag, tests both *without* the lock, then locks and takes the message. |
| Writer | `trfs_log_write_func` (`tr_fs.c`) | A kthread that receives with `timeOut = -1`. It treats a record whose first int is `TRFS_LOG_COMPLETE` as the end marker. Otherwise it writes out the 4096-byte page when the record would overflow it, then copies the record into the page. |
| Mount | `trfs_read_super` (`main.c`) | Parses `tfile=`, opens 10 queues in the module's 12-slot table (`trfs_create_log_q`), opens the trace file, allocates the log driver with all bits set, starts the writer, registers the ioctl device, then sets up the superblock. On a failure it releases only the superblock's own data. |
| Unmount | `trfs_exit` (`super.c`) | Flushes the page and closes the file. It stops the writer only if `trfs_kthread` is set, and it never is. |
| Lookup | `trfs_lookup`, `trfs_iget` (`lookup.c`); `trfs_evict_inode`, `trfs_nfs_get_inode` (`super.c`) | Stacks an upper dentry and inode on the lower ones. The dentry keeps a lower path (one lower dentry reference); the inode is cached under its lower inode and holds one reference on it, from `igrab` until eviction. |
| Bitmap control | `trfs_ioct.c` | An ioctl that sets or reads the bitmap. It is driven by `Userland/trctl.c`. |

User side (`src/Userland`):

| Part | Source | What it does |
|---|---|---|
| Replay loop | `treplay.c` | `main` reads the trace in 4096-byte chunks. `trfs_read_tfile_buf` decodes record after record. When one does not fit, it returns a count that `main` adds back to `fsize` and seeks backwards by. |
| Handlers and address map | `trfs_ops.c` | A handler per record type performs the real call and compares its result with the recorded one (`MAP_RETVAL`, with modes `-n` and `-s`). A linked list `omap` binds a recorded `(struct file address, pid)` to the descriptor the replay's own `open` returned, for later read, write and close records. |

The data flow is: traced call → producer → queue → writer → trace file, then
trace file → replay loop → handler → address map.

## Modules

| Module | Models | State | Actions |
|---|---|---|---|
| `EventChannel` | The abstract bounded FIFO channel of spec 4.2. | `buf`, `delivered` | `Accept`, `Drop` (full), `Deliver` |
| `TrfsMsgq` | The queue `TRFS_LOG_QID` (`trfs_msgq.c`) and one consumer's `trfsMqRecv` call. | `msg`, `readIndex`, `writeIndex`, `counter`, `exit_flag`; the consumer's `cpc`, `recvRet`, `recvMsg`; `sendRet` per producer | `trfsMqSend`/`trfsMqPutMsg` (one locked step); `RecvCheck` (the unlocked wait and tests); `trfsMqGetMsg` (the locked get); `trfs_set_exit_flag`, `trfs_clear_exit_flag` |
| `MCTrfsMsgq` | The queue alone: producers sending fresh messages, a consumer taking results, the exit flag set and cleared at any time. | | It shows the queue refines `EventChannel`: `buf` is the queue contents from `readIndex`, and `delivered` is what the consumer received. |
| `TrfsTrace` | The kernel pipeline. It instantiates `TrfsMsgq` with the writer as consumer. | Per producer: `ppc`, `prec`. Also `id`, the writer's `wpc`, `page` and `page_size`; `tfile`, `tfileOpen`; the mount state `mpc`; `bitmap`. | See below. |
| `TrfsReplay` | The replay loop of `treplay.c`. The trace file is a sequence of record sizes. | `fpos`, `fsize`, `chunkStart`, `off`, `len`, `pc`, and the offsets handed to handlers | `ReadChunk`, `LoopEnd`, `ParseRecord`, `ParseEnd`; `ReturnToMain` is the `fsize`/`lseek` update |
| `TrfsMount` | The module-global tracing state across module loads and mounts (`main.c`, `super.c`, `tr_fs.c`, `trfs_msgq.c`). | `numAfdxQs` (slots of the queue table in use), `tfile`, `tld`, `cdevs` (registered ioctl regions), `writers` (writer kthreads of the current load), `mounted`, `oops`, `loaded`, `stranded` (writers of an unloaded module); the observations `attempts`, `req`, `ret`, `loads` | `init_trfs_fs`; `trfs_read_super(r)` for a request `r`; `trfs_put_super`; `trfs_log_write_func_exit` (a writer leaving on the marker); `exit_trfs_fs` |
| `TrfsLookup` | The reference accounting of lookup in the stacking layer. | Per name: `udent` (upper dentry none, positive or negative), `lpath`, the lower dentry's `ldalive` and `ldref`; per lower inode: the upper inode's `icache` state (none, I_NEW, ready) and `icount`, and the lower `lref` | `trfs_interpose_exdev`; `trfs_iget_cached`, `_nomem`, `_new`, `_estale`; `trfs_lookup_negative`; `trfs_evict_inode`; the NFS decode `trfs_nfs_get_inode` and `trfs_nfs_get_inode_null`, with `anon` (a disconnected dentry) and `oops`; the environment's `AnonRelease`; the environment's `DentryRelease` (VFS dput and `->d_release`) and `LowerPrune` (lower dcache) |
| `TrfsReplayOps` | The handlers and `omap` of `Userland/trfs_ops.c`, the dispatch switch of `trfs_read_tfile_buf`, and `treplay`'s command line. | `omap` as a list of nodes, the process's open descriptors, `gflags`, `pc`, the exit status `ret` | `Init` is `main` up to its loop (argc test, `getopt` folded by `treplay_getopt`, open of the trace file, `trfs_rpd_init`); `trfs_run_open_op`, `_read_op`, `_write_op`, `_close_op`, `trfs_run_path_op` (mkdir, rmdir, link, symlink, unlink, rename), `trfs_run_trunct_op` (empty), `NoHandler` (the switch's default, which takes the xattr records), `trfs_rpd_exit` |

`TrfsTrace` has one action per step of the code:
- `get_next_record_id` is split into `IdIncrement` (under the lock) and `IdReturn`, because `id` is read after the unlock.
- The producer's entry is one of:
  - `LogOpFiltered`: the bit is clear.
  - `LogOpAllocFail`: `kmalloc` fails, and `trfsMqSend(NULL)` returns -1.
  - `LogOpAlloc`: the record is built.
- `TrfsWrite` is the send.
- The writer runs `WriterRecv`, `WriterGet`, `WriterDispatch` (the marker test and the overflow test), then `WriterFlush` and `WriterReset` (two statements), then `WriterCopy`.
- Unmount is `UnmountFlush` then `UnmountClose`.
- `IoctlSetBitmap` is `IOCTL_TRFS_SET_BITMAP`, issued by `trctl -c cmd`. The mask it installs is `trctl_bitmap(cmd)`: `all` sets every bit, `none` clears them, and a number sets the bits `test_bit_set` finds at each kind's `trfs_ops` code. A faulting `copy_from_user` is not acted on, so the mask installed is then arbitrary.

`TrfsMount` keeps `trfs_read_super`'s checks as the sequence `Stages`, in code order: `dev_name`, the `t_op` allocation, the options test, `trfs_create_log_q`, `trfs_log_write_init`, the `tld` test, `kern_path`, the superblock info, the root inode and dentry. `Fails(s, r)` says whether stage `s` fails for request `r`, and the action applies every effect of the stages before the first failing one:
- the queues opened (`QueuesOpened`: up to 10 `trfsMqOpen`s, stopping at the first that finds the table full);
- the trace file opened, even when `trfs_file_verify` then rejects it;
- an oops when `filp_open` failed, because `tlw.tfile->f_pos = 0` runs anyway;
- `tld` and a writer kthread, both before the `tld` test;
- the ioctl device.

A request is the environment's choice: whether `dev_name` is given, the option string (NULL, or up to two tokens folded by `trfs_parse_options`), what `filp_open` makes of the path, whether the lower directory exists, and which allocation fails. The VFS calls `put_super` only for a superblock with a root, so a failed mount is never cleaned up. `trfsMqClose`'s body is under `#if 0`, so unmount frees no queue slot. `trfs_kthread` stays NULL, so unmount stops no writer.

A module load (`init_trfs_fs`) may fail when a cache cannot be created. A successful load restarts the module's statics: an empty queue table, no trace file and no `tld`. Char-device regions and kthreads belong to the kernel and outlive the module. `exit_trfs_fs` is possible only with nothing mounted, because the VFS holds a module reference per superblock. It stops no writer.

`TrfsLookup` splits `trfs_lookup` by outcome. A positive name's lower dentry is found or read in by `vfs_path_lookup` (`WalkRef`), and then: on another superblock, `-EXDEV`; the inode cached (`iget5_locked` returns it with one more reference); `iget5_locked` out of memory, whose error path iputs `lower_inode` although nobody took that reference; a new inode whose `igrab` succeeds; or `igrab` failing, which returns `-ESTALE` and leaves the new inode I_NEW in the cache. An inode still I_NEW makes `iget5_locked` wait, so lookups of it are disabled. Errors put the lower path again (`ResetLower`, `trfs_put_reset_lower_path`). Lookup failures that change nothing are stuttering steps. `->d_release` is not in this tree (no `dentry.c`); the model takes wrapfs's, which puts the lower path.

NFS export decodes a file handle by inode number: `trfs_nfs_get_inode` calls `ilookup` on the lower superblock and passes the result to `trfs_iget` unchecked. `ilookup` finds a lower inode that is referenced, may find one whose last reference is gone (it can still sit in the lower inode cache), and returns NULL otherwise; NULL is dereferenced in `trfs_iget`, an oops after which the model stops. A found inode comes with a reference of its own, which `trfs_iget` treats as borrowed: a cache hit keeps it, and a new inode's `igrab` takes a second. The VFS's `d_obtain_alias` then gives the inode's reference back if a dentry already aliases it, or keeps it in a disconnected dentry (`anon`). trfs sets no `s_d_op`, so that dentry has no `->d_release`. The lookup path passes `trfs_iget` a borrowed lower inode and the NFS path an owned one, so each path mishandles the other's convention: the lookup path over-puts on allocation failure, and the NFS path leaks on success.

Abstractions:
- A record keeps `r_id`, `r_size` and `r_type`. It also has two ghosts: `uid`, naming the call, and `kind`, the operation it was made for. Path names and the other fields are data no property tells apart.
- Sizes are scaled: a page of 4 units and records of 2 or 3 units play the roles of 4096 bytes and real record sizes.
- Two things about `TrfsMsgq`:
  - `trfsMqGetMsg`'s empty branch cannot be taken. There is one consumer, and only producers run between its unlocked test and the lock, and they never decrease the counter. `GetFindsMessage` checks this; the guard `counter # 0` on the action stands for the test.
  - The writer's `trfsMqRecv(.., -1) < 0` branch is dead because nothing sets the exit flag.

## Runs

Passing runs (TLC explores the whole bounded state space with no error):

| Run | What it shows |
|---|---|
| `msgq` (`MCTrfsMsgq.cfg`) | `IndexCounterAgree`: the occupied window always runs from `readIndex` for `counter` slots, including at capacity. `GetFindsMessage`: the consumer never reaches the locked `trfsMqGetMsg` with an empty queue, whatever the producers do between its unlocked test of `counter` and `q_lock`, so the `TRFS_ERR_MQ_EMPTY` branch is dead. `ChannelRefinement`: the queue implements the bounded FIFO channel; no message is lost while queued, duplicated or reordered. `QueuedIsReceived`: when the exit flag ends up clear, every queued message reaches the writer, so the wait condition is the right one. The wait is an enabling condition of `RecvCheck`, so a wake-up lost inside `wait_event_interruptible` is not represented. |
| `trace` (`MCTrfsTrace.cfg`) | `InFlightConserved`: while mounted and the writer runs, the accepted records equal, in order, the file, then the unwritten page, then the record in the writer's hands, then the queue. `PageWithinBounds` holds for records no larger than the page. |
| `replay` (`MCTrfsReplay.cfg`) | `ExactBeforeStraddle`: for every file, up to the first record that straddles a chunk, the i-th dispatched record is the i-th record of the file. `ReplayComplete`: when the loop ends on a file in which no record straddles a chunk, every record has been dispatched once, in order. `ReplayTerminates`: on such a file the loop does end, under weak fairness of the single replay process. |
| `mount` (`MCTrfsMount.cfg`) | Over two module loads and three mount attempts with every request, unmounts, writer exits and unloads: at most one writer kthread of a load ever runs (`AtMostOneWriter`), and a mounted trfs has its whole session, meaning the log queue, an open trace file, a live `tld` and the ioctl device, and is the only one mounted (`MountedImpliesSession`). The first holds only because the queue table runs out (see `mount_remount`): the second session that would start a second writer on the shared `tlw` page never gets that far. |
| `lookup` (`MCTrfsLookup.cfg`) | Over every interleaving of lookups, NFS handle decodes, dentry releases, inode evictions and lower dcache prunes: every lower dentry reference is held by exactly the upper dentry that keeps it as its lower path, on error paths too (`LowerPathBalanced`), and an upper inode's count is its aliases, named or disconnected, with no dentry ever left on an evicted inode (`UpperInodeRefs`). |
| `replayops` (`MCTrfsReplayOps.cfg`) | For every trace of up to three records and every mode, the descriptors in `omap` are exactly the replay's open ones, one node each. |

Violation runs: each checks one property that the spec states and the code breaks.

| Run | Property | What TLC finds |
|---|---|---|
| `trace_ids` | `UniqueRecordIds` | `get_next_record_id` returns `id` after unlocking, so two producers get the same id. |
| `trace_unmount` | `NoAcceptedRecordLost` | Unmount sends no sentinel and does not drain, so queued records never reach the file. |
| `trace_dup` | `NoRecordWrittenTwice` | The unmount flush runs between the writer's page write and its reset, and the page is written twice. |
| `trace_marker` | `QueueDrained` | With `TRFS_LOG_COMPLETE` scaled to 3, the record with id 3 stops the writer and later records stay queued forever. |
| `replay_sync` | `ReplayInSync` | For the trace `<<2, 3>>` with chunk 4, the loop returns rsize 3 instead of the residual 2, seeks back into the first record, and dispatches a record at offset 1. |
| `mount_remount` | `ValidMountSucceeds` | A mount with a `dev_name` and no options passes the options test (its error is ignored when the string is NULL). It opens 10 queues and then fails in `trfs_log_write_init`. The next mount, with good arguments, fails in `trfs_create_log_q`: two slots are left and `trfsMqClose` frees none. The same happens after any unmount. |

Each property of a passing run has a mutant in `PROJECT.json`: an operator
defined next to the action it replaces, changed the way a plausible bug would
change it. TLC finds each one. Examples:
- the queue's write index advanced before the store;
- the page's `buf` left unreset after a write;
- the overflow test without the record's length;
- `buf` not advanced after a dispatch;
- `omap` deleting the last match instead of the first;
- `trfsMqRecv`'s wait leaving only on the exit flag, not on a queued message;
- `trfsMqRecv` without its `counter == 0` test, going on to the locked get with an empty queue;
- a lookup error path keeping the lower path's reference;
- `trfs_evict_inode` dropping an inode a dentry still holds.

## Bounds and why they are enough

- **Queue:** two slots and four messages from two producers. That reaches the full queue, the wrap of both indices and every interleaving of a send with the consumer's two steps. The timeouts are -1 (the writer's), 0 and a positive value, so every branch of `trfsMqRecv` runs.
- **Pipeline:** two producers, two slots, at most three traced calls, a page of 4 with records of 2 or 3. Within that:
  - the queue fills, so a send is dropped;
  - the page overflows, so it is written and reset;
  - the unmount flush can land between any two writer steps;
  - `kmalloc` can fail;
  - the bitmap can be cleared.
  Ids start at 2 as in the code. The violation runs use `LogComplete = 127`, which three calls never reach, except `trace_marker` and the pass run, which scale it to 3 so that the marker arm runs.
- **Replay:**
  - Files of up to three records of 2 or 3 bytes, with a chunk of 4 and a header of 2. That gives records within a chunk, records straddling a chunk, a short last chunk, and header bytes read from a stale tail.
  - Where no header is, `r_size` reads as any of `{0, 1, 2, 3, 5}`.
  - Files of up to four records of 2 to 4 bytes in which no record straddles a chunk are added, so `ReplayComplete` sees several full chunks.
  - The run is bounded by a state constraint: at most 6 dispatches, and `fsize` at most 6 above the file's length. Some replays of misaligned files never end, and the constraint cuts them off. Checked separately without the constraint, no replay of an aligned file comes near either bound, so `ReplayTerminates` (which is about aligned files only) sees their whole state graph. TLC ignores behaviours cut off by the constraint, because weak fairness excludes stuttering where `Next` is enabled. A counterexample to `ReplayTerminates` is therefore a real cycle, as the mutant `ParseRecord_offByOne` (a record that exactly fills the chunk taken as straddling) shows.
- **Mount:** the real table size (12), queues per mount (10) and `TRFS_LOG_QID` (2), three attempts and two loads. Two loads cover a failed load followed by a good one, or an unload followed by a reload, which clears the queue table. Three attempts cover a mount, an unmount and a second mount, or two failed mounts and a good one. Requests: the options NULL, empty, `tfile`, another token, or both tokens in either order; three kinds of tfile path; the lower directory present or missing; and no allocation failing or any one of four failing.
- **Lookup:** four names: two hard links to one lower inode, a mount point crossing to another superblock, and a name missing below. That reaches a cache hit through the second link, eviction between lookups, a prune after release, and each error path. The `iget5_locked` failure drives the lower count below zero; NFS decodes leak a reference each. `RefBound` keeps a lower count between one below zero, enough for the `igrab` failure that follows an over-put, and 5, enough for several leaks on both inodes. An NFS handle can name either inode, cached or not.
- **Address map:** two files, one pid, descriptors up to 5 (two beyond the standard streams and the trace file), traces of up to three records, including a truncate and a setxattr. The command lines are none, a path alone or after `-n` or `-s`, an unknown flag, a flag with no path, both flags, a flag after the path, and one argument too many. Together they reach all three modes and every early exit. That gives two opens of a file, a close between, a failed open and a reused descriptor.

## Fairness

- `TrfsTrace` assumes weak fairness of:
  - each producer's steps after its call has started: a traced call never blocks;
  - the writer: it is a kthread woken by `wake_up_interruptible` on every send;
  - the completion of an unmount that has begun.
  Starting calls, ioctls and unmount are the environment's choice, and have no fairness.
- `TrfsReplay` assumes weak fairness of `Next` (`FairSpec`): treplay is one single-threaded process that runs until it exits. Termination is checked only for files in which no record straddles a chunk. On other files, an `r_size` of 0 read from payload makes `trfs_read_tfile_buf` loop forever while dispatching, so the state space there is infinite.
- `MCTrfsMsgq` assumes weak fairness of the writer's side: its `trfsMqRecv(.., -1)`, the locked get and the look at the result. `trfsMqPutMsg` calls `wake_up_interruptible` after every store, and a woken kthread is scheduled. Producers, the other timeouts and the exit flag get none. `QueuedIsReceived` is therefore stated for behaviours in which the exit flag ends up clear. Nothing in the code sets the flag.
- `TrfsMount`, `TrfsLookup` and `TrfsReplayOps` are checked for safety only. `TrfsMount` stops after its attempts or at an oops, and `TrfsLookup` at an oops, so their runs do not check deadlock.

## What is not modelled

- **The rest of the stacking layer** (the inode, file and address-space operations, `trfs_statfs`, `trfs_remount_fs`, `trfs_umount_begin` and the inode allocator in `super.c`): pass-through to the lower filesystem. That code, and the code that calls the `trace_*_op` hooks, is not under `src/`; a traced call is the environment's choice. `TrfsLookup` fixes which lower inode each name resolves to; the lower filesystem changing underneath is not modelled.
- **The lower inode over-put:** `LowerInodeRefsHeld` (`TrfsLookup`) says a lower inode's count is its cached dentries plus one for a live upper inode. TLC finds it violated after one `trfs_iget_nomem` step (`lookup.c:90`). It has no run: the `lookup` run follows the over-put down to `RefBound` and checks the trfs-side references, which stay balanced. The lookups that then wait forever on the I_NEW inode (`lookup.c:103`), the NFS reference leak (`super.c:203`) and the NFS NULL dereference (`super.c:204`) are listed as hazards; each would need a run of its own.
- **Module load and unload:** `TrfsMount` models `init_trfs_fs` and `exit_trfs_fs`, but not the inode and dentry caches they create, because nothing in the model allocates from them. `register_filesystem` cannot fail for the only trfs. Reloading is the only way to free the queue table. It also leaves the writer kthread asleep in unloaded code (`stranded`). That hazard is modelled, but no property checks it, because it has the same cause as `trace_unmount`.
- **Within `TrfsMount`:** a failed `kmalloc` of the file name in `trfs_parse_options` (unchecked; `strcpy` to NULL), a failed `kthread_create` (whose error pointer is woken), `cdev_alloc` failing, and `new_dentry_private_data` failing after `s_root` is set. Each is another crash or leak on an allocation failure, of the kind the model already shows.
- **Checked once, now read from the code:**
  - `LookupIsCurrent` (`TrfsReplayOps`): after two opens of the same file address and pid with no close between (the CLOSE filtered or dropped), `trfs_omap_getfd` returns the first node, so reads, writes and the close use the older descriptor, where spec 4.4/4.5 keep the binding current. TLC finds it violated in the `replayops` model.
  - `trfsMqSend` reports success on a full queue (it tests only for -1), so `TRFS_WRITE` leaks the record.
  - `trfs_log_mknod_op` tests the CLOSE bit and stores type CLOSE. `TrfsTrace` models this in `TraceBit` and `RecType`.
- **Visible in `TrfsReplayOps`, but not stated as a property:**
  - `treplay` with no argument at all returns 0 (`argc < 2` jumps to `out` with `ret = 0`), where spec 6 asks for a negative code when no file is given. `treplay -n` returns `-ENOENT` as the spec says.
  - A second path is accepted and ignored, where spec 6 says exactly one.
  - Strict mode never stops on an open, a truncate or an xattr record. `trfs_run_open_op` compares nothing, `trfs_run_trunct_op` is empty, and the switch has no xattr case. Spec 4.4 has every record compared.
- **Not represented in the model:**
  - `trfs_file_write` failures;
  - records larger than the page (spec 9 leaves this open; `PageWithinBounds` is checked for records that fit);
  - whether `-s` should compare a write with the recorded result: `trfs_run_write_op` compares with `op->count`, and spec 9 leaves per-handler checks to the implementation;
  - `trfsMqOpen`'s write one slot past the array;
  - the flush through a freed page after the writer has exited;
  - `trfs_log_write_flush_periodic` (never started).
  These are listed as hazards with the reason.
- **Replay:**
  - How a handler decodes its fields is not modelled; `TrfsReplayOps` takes decoded records.
  - Composing `TrfsReplay` with `TrfsReplayOps` is left for later.
  - Termination of misaligned replays is not checked. It would need an abstraction of the dispatch history that keeps the state space finite without a constraint.
