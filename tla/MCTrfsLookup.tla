---------------------------- MODULE MCTrfsLookup ----------------------------
(***************************************************************************)
(* One upper directory with four regular names: a and b hard links to     *)
(* lower inode i1, c a mount point crossing to i2 on another superblock,  *)
(* and d absent from the lower directory.  NFS handles name i1 or i2.     *)
(***************************************************************************)
EXTENDS TrfsLookup

MCLowerOf == [n \in Names |-> CASE n = "a" -> "i1"
                                [] n = "b" -> "i1"
                                [] n = "c" -> "i2"
                                [] OTHER   -> Negative]

(* The iget5_locked failure path drives a lower i_count below zero, and  *)
(* each NFS decode leaks one reference: the model follows a lower count  *)
(* from MaxOverput below zero up to MaxLowerRef.                          *)
RefBound == \A i \in Inodes : lref[i] \in -MaxOverput..MaxLowerRef
=============================================================================
