----------------------------- MODULE TauriDelivery -----------------------------
(* The desktop client implements Delivery.                                   *)
EXTENDS TauriWorker

\* What has been recorded and can still be sent: on the channel, or waiting.
OnChannel ==
    {e \in Entry : e < next /\ e >= Oldest}

Status ==
    LET sendable == OnChannel \cup ToSet(Waiting) IN
    [e \in Entry |->
        IF e \in acked THEN "sent"
        ELSE IF e \in sendable THEN "pending"
        ELSE IF e < next THEN "lost" ELSE "new"]

D == INSTANCE Delivery WITH status <- Status

\* A recorded entry is settled, or lost once and for good, through kills at any
\* point, restarts, torn lines and refused writes: an entry that was given up
\* never comes back, and one that was acknowledged is never given up.
ImplementsDelivery == D!Spec

===============================================================================
