----------------------------- MODULE TrfsLookup -----------------------------
(***************************************************************************)
(* The reference accounting of the stacking layer: trfs_lookup,           *)
(* __trfs_lookup, __trfs_interpose and trfs_iget (src/trfs/lookup.c) and  *)
(* trfs_evict_inode (src/trfs/super.c).                                   *)
(*                                                                         *)
(* Each upper dentry keeps, in its trfs_dentry_info, a lower path that     *)
(* holds one reference on a lower dentry.  Each upper inode sits in the    *)
(* inode cache under its lower inode (trfs_inode_test compares             *)
(* lower_inode) and holds one reference on it, taken by igrab in           *)
(* trfs_iget and dropped by iput in trfs_evict_inode.  Every alias dentry  *)
(* holds one reference on the upper inode.                                 *)
(*                                                                         *)
(* The lower filesystem is the environment: LowerOf gives the lower inode  *)
(* a name resolves to (or Negative), Crossing the names whose lower inode  *)
(* lies on another superblock.  A lower dentry in the dcache holds one     *)
(* reference on its inode, and the lower dcache may prune a dentry nobody  *)
(* references.  The VFS releases an unused upper dentry (->d_release puts *)
(* its lower path; dput of a positive one drops its inode reference) and  *)
(* may evict an upper inode nobody references.                            *)
(*                                                                         *)
(* NFS export decodes a file handle by inode number (trfs_nfs_get_inode, *)
(* src/trfs/super.c): ilookup finds the lower inode with a reference of  *)
(* its own, or NULL, and trfs_iget is called with it either way; the     *)
(* VFS's d_obtain_alias then reuses an alias or keeps the inode in a      *)
(* disconnected dentry.  A NULL dereference is an oops, after which       *)
(* nothing runs.                                                           *)
(*                                                                         *)
(* Failures that change nothing are stuttering steps and are not actions: *)
(* new_dentry_private_data or d_alloc out of memory, a lower lookup error *)
(* other than -ENOENT, and iget5_locked out of memory in an NFS decode    *)
(* (its iput returns ilookup's reference).                                *)
(***************************************************************************)
EXTENDS Integers, FiniteSets

CONSTANTS
    Names,          \* names looked up in one upper directory
    Inodes,         \* lower inodes those names resolve to
    Negative,       \* LowerOf value of a name the lower directory lacks
    LowerOf,        \* the lower inode of each name, or Negative
    Crossing,       \* names whose lower inode is on another superblock
    MaxOverput,     \* how far below zero a lower i_count may be driven
    MaxLowerRef     \* how far up leaked references may drive a lower i_count

ASSUME /\ LowerOf \in [Names -> Inodes \cup {Negative}]
       /\ Negative \notin Inodes
       /\ Crossing \subseteq {n \in Names : LowerOf[n] \in Inodes}

VARIABLES
    udent,          \* upper dentry of each name: "none", "pos", "neg"
    lpath,          \* its trfs_dentry_info holds a lower path
    ldalive,        \* the lower dentry of each name is in the lower dcache
    ldref,          \* d_count of that lower dentry
    icache,         \* upper inode of each lower inode: "none", "new", "ready"
    icount,         \* i_count of that upper inode
    lref,           \* i_count of the lower inode
    anon,           \* a disconnected dentry from an NFS decode holds the upper inode
    oops            \* the kernel has oopsed

refVars == <<udent, lpath, ldalive, ldref, icache, icount, lref>>
nfsVars == <<anon, oops>>
vars == <<refVars, nfsVars>>

Positive(n) == LowerOf[n] \in Inodes

Init ==
    /\ udent = [n \in Names |-> "none"]
    /\ lpath = [n \in Names |-> FALSE]
    /\ ldalive = [n \in Names |-> FALSE]
    /\ ldref = [n \in Names |-> 0]
    /\ icache = [i \in Inodes |-> "none"]
    /\ icount = [i \in Inodes |-> 0]
    /\ lref = [i \in Inodes |-> 0]
    /\ anon = [i \in Inodes |-> FALSE]
    /\ oops = FALSE

(***************************************************************************)
(* vfs_path_lookup on a positive name: a lower dentry not in the dcache is *)
(* read in, and holds a reference on its inode.  WalkRef(n) is lref after  *)
(* the walk.                                                               *)
(***************************************************************************)
WalkRef(n) ==
    IF ldalive[n] THEN lref ELSE [lref EXCEPT ![LowerOf[n]] = @ + 1]

(* trfs_set_lower_path: the upper dentry keeps the walk's reference. *)
HoldLower(n) ==
    /\ ldalive' = [ldalive EXCEPT ![n] = TRUE]
    /\ ldref' = [ldref EXCEPT ![n] = @ + 1]
    /\ lpath' = [lpath EXCEPT ![n] = TRUE]

(* Mutant of ResetLower: the error path keeps the walk's reference. *)
ResetLower_noPut(n) ==
    /\ ldalive' = [ldalive EXCEPT ![n] = TRUE]
    /\ ldref' = [ldref EXCEPT ![n] = @ + 1]
    /\ UNCHANGED <<lpath, udent>>

(* Mutant of ResetLower: the error path puts the lower path twice. *)
ResetLower_doublePut(n) ==
    /\ ldalive' = [ldalive EXCEPT ![n] = TRUE]
    /\ ldref' = [ldref EXCEPT ![n] = @ - 1]
    /\ UNCHANGED <<lpath, udent>>

(* trfs_put_reset_lower_path on an error: the walk's reference is put. *)
ResetLower(n) ==
    /\ ldalive' = [ldalive EXCEPT ![n] = TRUE]
    /\ UNCHANGED <<ldref, lpath, udent>>

(* The lookup of a name without an upper dentry, past the IS_ROOT check. *)
LookupOf(n) == ~oops /\ udent[n] = "none"

(* __trfs_interpose: the lower inode is on another superblock, -EXDEV. *)
trfs_interpose_exdev(n) ==
    /\ LookupOf(n) /\ n \in Crossing
    /\ lref' = WalkRef(n)
    /\ ResetLower(n)
    /\ UNCHANGED <<icache, icount, nfsVars>>

(* trfs_iget: iget5_locked finds a cached inode and returns it with one  *)
(* more reference, which d_splice_alias gives the dentry.  An inode       *)
(* still I_NEW makes iget5_locked wait: the action is disabled.           *)
trfs_iget_cached(n) ==
    /\ LookupOf(n) /\ Positive(n) /\ n \notin Crossing
    /\ icache[LowerOf[n]] = "ready"
    /\ icount' = [icount EXCEPT ![LowerOf[n]] = @ + 1]
    /\ udent' = [udent EXCEPT ![n] = "pos"]
    /\ lref' = WalkRef(n)
    /\ HoldLower(n)
    /\ UNCHANGED <<icache, nfsVars>>

(* trfs_iget: iget5_locked cannot allocate (trfs_alloc_inode); the error *)
(* path iputs lower_inode, a reference trfs_iget never took.              *)
trfs_iget_nomem(n) ==
    /\ LookupOf(n) /\ Positive(n) /\ n \notin Crossing
    /\ icache[LowerOf[n]] = "none"
    /\ lref' = [WalkRef(n) EXCEPT ![LowerOf[n]] = @ - 1]
    /\ ResetLower(n)
    /\ UNCHANGED <<icache, icount, nfsVars>>

(* trfs_iget: a new inode; igrab takes a reference on the lower inode,   *)
(* and unlock_new_inode publishes it.                                     *)
trfs_iget_new(n) ==
    /\ LookupOf(n) /\ Positive(n) /\ n \notin Crossing
    /\ icache[LowerOf[n]] = "none"
    /\ WalkRef(n)[LowerOf[n]] > 0
    /\ lref' = [WalkRef(n) EXCEPT ![LowerOf[n]] = @ + 1]
    /\ icache' = [icache EXCEPT ![LowerOf[n]] = "ready"]
    /\ icount' = [icount EXCEPT ![LowerOf[n]] = 1]
    /\ udent' = [udent EXCEPT ![n] = "pos"]
    /\ HoldLower(n)
    /\ UNCHANGED nfsVars

(* trfs_iget: igrab fails on a lower inode whose i_count is gone; the    *)
(* new inode is returned from neither unlock_new_inode nor iget_failed,  *)
(* so it stays I_NEW in the cache with iget5_locked's reference.         *)
trfs_iget_estale(n) ==
    /\ LookupOf(n) /\ Positive(n) /\ n \notin Crossing
    /\ icache[LowerOf[n]] = "none"
    /\ WalkRef(n)[LowerOf[n]] <= 0
    /\ lref' = WalkRef(n)
    /\ icache' = [icache EXCEPT ![LowerOf[n]] = "new"]
    /\ icount' = [icount EXCEPT ![LowerOf[n]] = 1]
    /\ ResetLower(n)
    /\ UNCHANGED nfsVars

(* __trfs_lookup on -ENOENT: the lower negative dentry is found by        *)
(* d_lookup or made by d_alloc and d_add, and becomes the lower path.     *)
trfs_lookup_negative(n) ==
    /\ LookupOf(n) /\ ~Positive(n)
    /\ udent' = [udent EXCEPT ![n] = "neg"]
    /\ HoldLower(n)
    /\ UNCHANGED <<icache, icount, lref, nfsVars>>

(* The VFS kills an unused upper dentry: ->d_release puts its lower path, *)
(* and a positive one's inode reference is dropped.                       *)
DentryRelease(n) ==
    /\ ~oops
    /\ udent[n] # "none"
    /\ udent' = [udent EXCEPT ![n] = "none"]
    /\ lpath' = [lpath EXCEPT ![n] = FALSE]
    /\ ldref' = [ldref EXCEPT ![n] = @ - 1]
    /\ icount' = IF udent[n] = "pos"
                 THEN [icount EXCEPT ![LowerOf[n]] = @ - 1] ELSE icount
    /\ UNCHANGED <<ldalive, icache, lref, nfsVars>>

(* Mutant of trfs_evict_inode: the cache drops an inode still in use. *)
trfs_evict_inode_busy(i) ==
    /\ ~oops
    /\ icache[i] = "ready"
    /\ icache' = [icache EXCEPT ![i] = "none"]
    /\ lref' = [lref EXCEPT ![i] = @ - 1]
    /\ UNCHANGED <<udent, lpath, ldalive, ldref, icount, nfsVars>>

(* trfs_evict_inode: the inode cache drops an upper inode nobody holds,  *)
(* and its reference on the lower inode is iput.                          *)
trfs_evict_inode(i) ==
    /\ ~oops
    /\ icache[i] = "ready" /\ icount[i] = 0
    /\ icache' = [icache EXCEPT ![i] = "none"]
    /\ lref' = [lref EXCEPT ![i] = @ - 1]
    /\ UNCHANGED <<udent, lpath, ldalive, ldref, icount, nfsVars>>

(* The lower dcache prunes a dentry nobody references. *)
LowerPrune(n) ==
    /\ ~oops
    /\ ldalive[n] /\ ldref[n] = 0
    /\ ldalive' = [ldalive EXCEPT ![n] = FALSE]
    /\ lref' = IF Positive(n) THEN [lref EXCEPT ![LowerOf[n]] = @ - 1] ELSE lref
    /\ UNCHANGED <<udent, lpath, ldref, icache, icount, nfsVars>>

(***************************************************************************)
(* ilookup(lower_sb, ino) finds a lower inode still in the lower inode    *)
(* cache: always while it is referenced, perhaps after its last iput (it  *)
(* may sit unused in the cache), never once its count went below zero.    *)
(***************************************************************************)
ilookup(i) ==
    IF lref[i] > 0 THEN {TRUE} ELSE IF lref[i] = 0 THEN BOOLEAN ELSE {FALSE}

(* The upper dentries that alias lower inode i. *)
Aliases(i) == {n \in Names : udent[n] = "pos" /\ LowerOf[n] = i}

(* d_obtain_alias: an inode with an alias (or a disconnected dentry      *)
(* already) puts the reference trfs_iget returned; otherwise a new        *)
(* disconnected dentry keeps it.  cnt is icount before that reference.    *)
d_obtain_alias(i, cnt) ==
    IF Aliases(i) # {} \/ anon[i]
    THEN /\ icount' = cnt
         /\ UNCHANGED anon
    ELSE /\ icount' = [cnt EXCEPT ![i] = @ + 1]
         /\ anon' = [anon EXCEPT ![i] = TRUE]

(* trfs_nfs_get_inode, ilookup returning NULL: trfs_iget reads           *)
(* lower_inode->i_ino through it.                                         *)
trfs_nfs_get_inode_null(i) ==
    /\ ~oops
    /\ FALSE \in ilookup(i)
    /\ oops' = TRUE
    /\ UNCHANGED <<refVars, anon>>

(* trfs_nfs_get_inode, ilookup finding the lower inode with one more     *)
(* reference, which trfs_iget treats as borrowed: a cache hit returns     *)
(* without putting it, and a new inode's igrab takes another.             *)
trfs_nfs_get_inode(i) ==
    /\ ~oops
    /\ TRUE \in ilookup(i)
    /\ LET held == [lref EXCEPT ![i] = @ + 1] IN
       \/ /\ icache[i] = "ready"
          /\ lref' = held
          /\ d_obtain_alias(i, icount)
          /\ UNCHANGED icache
       \/ /\ icache[i] = "none"
          /\ lref' = [held EXCEPT ![i] = @ + 1]
          /\ icache' = [icache EXCEPT ![i] = "ready"]
          /\ d_obtain_alias(i, icount)
    /\ UNCHANGED <<udent, lpath, ldalive, ldref, oops>>

(* The VFS kills an unused disconnected dentry, dropping its inode       *)
(* reference.  trfs sets no s_d_op, so it has no ->d_release.             *)
AnonRelease(i) ==
    /\ ~oops
    /\ anon[i]
    /\ anon' = [anon EXCEPT ![i] = FALSE]
    /\ icount' = [icount EXCEPT ![i] = @ - 1]
    /\ UNCHANGED <<udent, lpath, ldalive, ldref, icache, lref, oops>>

Next ==
    \/ \E n \in Names :
        \/ trfs_interpose_exdev(n)
        \/ trfs_iget_cached(n)
        \/ trfs_iget_nomem(n)
        \/ trfs_iget_new(n)
        \/ trfs_iget_estale(n)
        \/ trfs_lookup_negative(n)
        \/ DentryRelease(n)
        \/ LowerPrune(n)
    \/ \E i \in Inodes :
        \/ trfs_evict_inode(i)
        \/ trfs_nfs_get_inode_null(i)
        \/ trfs_nfs_get_inode(i)
        \/ AnonRelease(i)

Spec == Init /\ [][Next]_vars

-----------------------------------------------------------------------------
TypeOK ==
    /\ udent \in [Names -> {"none", "pos", "neg"}]
    /\ lpath \in [Names -> BOOLEAN]
    /\ ldalive \in [Names -> BOOLEAN]
    /\ ldref \in [Names -> Nat]
    /\ icache \in [Inodes -> {"none", "new", "ready"}]
    /\ icount \in [Inodes -> Nat]
    /\ lref \in [Inodes -> Int]
    /\ anon \in [Inodes -> BOOLEAN]
    /\ oops \in BOOLEAN

(***************************************************************************)
(* Lower dentry references are balanced: every path of __trfs_lookup,     *)
(* success or -EXDEV / iget error (trfs_put_reset_lower_path), leaves a   *)
(* lower dentry referenced exactly once if an upper dentry keeps it as    *)
(* its lower path, and not at all otherwise; an upper dentry exists       *)
(* exactly while it keeps one.                                            *)
(***************************************************************************)
LowerPathBalanced ==
    \A n \in Names :
        /\ ldref[n] = IF lpath[n] THEN 1 ELSE 0
        /\ lpath[n] <=> udent[n] # "none"
        /\ lpath[n] => ldalive[n]

(***************************************************************************)
(* Upper inode references are accounted: an upper inode's i_count is the  *)
(* number of dentries aliasing it, named or disconnected by an NFS        *)
(* decode (plus iget5_locked's reference of an inode left I_NEW), and     *)
(* every such dentry's inode is the cached, ready one for its lower       *)
(* inode, so trfs_evict_inode never drops an inode a dentry, or a         *)
(* concurrent cache hit in trfs_iget or d_obtain_alias, still uses.       *)
(***************************************************************************)
UpperInodeRefs ==
    /\ \A i \in Inodes :
        icount[i] = Cardinality(Aliases(i)) + (IF anon[i] THEN 1 ELSE 0)
                    + (IF icache[i] = "new" THEN 1 ELSE 0)
    /\ \A n \in Names : udent[n] = "pos" => icache[LowerOf[n]] = "ready"
    /\ \A i \in Inodes : anon[i] => icache[i] = "ready"

(***************************************************************************)
(* Lower inode references are held: a lower inode's i_count is the number *)
(* of its dentries in the lower dcache plus one for a live upper inode.   *)
(* trfs_iget's iput on the iget5_locked failure path breaks it.           *)
(***************************************************************************)
LowerInodeRefsHeld ==
    \A i \in Inodes :
        lref[i] = Cardinality({n \in Names : ldalive[n] /\ LowerOf[n] = i})
                  + IF icache[i] = "ready" THEN 1 ELSE 0

=============================================================================
