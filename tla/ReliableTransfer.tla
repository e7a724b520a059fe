-------------------------- MODULE ReliableTransfer --------------------------
(***************************************************************************)
(* What a reliable connection promises, with no packets, losses or         *)
(* retries: the host at the far end receives every posted packet once and  *)
(* in order, and an extent completes only after its last packet is there.  *)
(***************************************************************************)
EXTENDS Integers, Sequences

CONSTANTS Sizes, MaxExtents

VARIABLES
    posted,     \* for every extent, in order, the packets posted up to its end
    received,   \* packets the far host has received
    completed   \* extents reported delivered

vars == <<posted, received, completed>>

EndOf(e) == IF e = 0 THEN 0 ELSE posted[e]

Init == posted = <<>> /\ received = 0 /\ completed = {}

Post == \E n \in Sizes :
    /\ Len(posted) < MaxExtents
    /\ posted' = Append(posted, EndOf(Len(posted)) + n)
    /\ UNCHANGED <<received, completed>>

Receive ==
    /\ received < EndOf(Len(posted))
    /\ received' = received + 1
    /\ UNCHANGED <<posted, completed>>

Complete == \E e \in DOMAIN posted \ completed :
    /\ EndOf(e) =< received
    /\ completed' = completed \cup {e}
    /\ UNCHANGED <<posted, received>>

Next == Post \/ Receive \/ Complete

Spec == Init /\ [][Next]_vars

\* Whatever is posted is eventually received and completed.
FairSpec == Spec /\ WF_vars(Receive) /\ WF_vars(Complete)
=============================================================================
