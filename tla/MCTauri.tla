-------------------------------- MODULE MCTauri --------------------------------
(* The instance of the desktop client for TLC. *)
EXTENDS TauriDelivery

\* Three entries, one more than fit, only where a durable client sends at once
\* and does not send on exit; a startup client only over a durable queue; and a
\* second run only where something is left for it, and with one entry if the
\* client sends on exit.
Bounds ==
    /\ mode # "immediate" \/ ~durable \/ exitFlush \/ run = 2 => next <= 3
    /\ mode = "startup" => durable /\ ~exitFlush
    /\ ~durable => run = 1
    /\ run = 2 /\ exitFlush => next <= 2
===============================================================================
