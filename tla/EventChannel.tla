---------------------------- MODULE EventChannel ----------------------------
(***************************************************************************)
(* What the trace channel promises (spec 4.2, 5): a bounded FIFO of         *)
(* capacity Cap.  A send either appends the record or, when the channel is *)
(* full, drops it; the single consumer takes records in the order they     *)
(* were appended.  `delivered' is the history of what the consumer took.   *)
(***************************************************************************)
EXTENDS Naturals, Sequences

CONSTANTS Cap, Values

VARIABLES buf, delivered

chanVars == <<buf, delivered>>

Init ==
    /\ buf = <<>>
    /\ delivered = <<>>

\* A record is appended at the tail while there is room.
Accept(v) ==
    /\ Len(buf) < Cap
    /\ buf' = Append(buf, v)
    /\ UNCHANGED delivered

\* Under overload the record is dropped and the channel is left as it was.
Drop ==
    /\ Len(buf) = Cap
    /\ UNCHANGED chanVars

\* The consumer takes the oldest record.
Deliver ==
    /\ buf # <<>>
    /\ delivered' = Append(delivered, Head(buf))
    /\ buf' = Tail(buf)

Next ==
    \/ \E v \in Values : Accept(v)
    \/ Drop
    \/ Deliver

Spec == Init /\ [][Next]_chanVars
=============================================================================
