---------------------------- MODULE MCTrfsTrace ----------------------------
(***************************************************************************)
(* The tracing pipeline for TLC.  Every constant is given in the .cfg      *)
(* files: two producers, a queue of two slots, a page of 4 byte units,     *)
(* records of 2 or 3 units and at most three traced calls.                 *)
(***************************************************************************)
EXTENDS TrfsTrace

\* trctl -c all, -c none, and -c 64 (bit 6, MKDIR) and -c 128 (bit 7).
MCTrctlCmds ==
    {[c |-> "all", n |-> 0], [c |-> "none", n |-> 0],
     [c |-> "num", n |-> 64], [c |-> "num", n |-> 128]}
=============================================================================
