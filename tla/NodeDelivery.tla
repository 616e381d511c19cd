------------------------------ MODULE NodeDelivery ------------------------------
(* The Node client implements Delivery under every policy and over restarts. *)
EXTENDS NodeClient

\* Somewhere on the disk, or on its way there or back.
OnDisk(e) ==
    \/ e \in ToSet(buffered) \cup ToSet(file) \cup ToSet(adopted)
    \/ \E k \in 1..Len(tail) : e \in ToSet(tail[k].lines)
    \/ \E k \in 1..Len(segments) : e \in ToSet(segments[k])

Status ==
    [e \in Entry |->
        IF e \in acked THEN "sent"
        ELSE IF e \in ToSet(Pending) \/ OnDisk(e) THEN "pending"
        ELSE IF e < next THEN "lost" ELSE "new"]

D == INSTANCE Delivery WITH status <- Status

\* A recorded entry is sent, or lost once and for good: nothing that is neither
\* in memory nor on the disk comes back, whatever is retried, shed, replayed by
\* a later run or left to one, and no verdict of the server is revised.  With a
\* memory queue an entry that was given up is nowhere at once.
ImplementsDelivery == D!Spec
================================================================================
