----------------------------- MODULE MCNodeClient -----------------------------
(* Instances of NodeClient for TLC. *)
EXTENDS NodeDelivery

TwoGroups == <<"a", "b", "a", "b">>
MCGroupOf == [e \in Entry |-> TwoGroups[e]]

\* Server processes: a memory queue, every schedule the code keeps for one.
MemoryConfigs ==
    [mode : {"immediate", "interval", "manual"}, disk : {FALSE}, exitFlush : BOOLEAN]

\* The same schedules where no exit hook is called.
LiveConfigs == {c \in MemoryConfigs : ~c.exitFlush}

\* Durable queues: a manual client whose exit flush may give up, and a startup
\* client that leaves its queue to the next run.
DiskConfigs ==
    {[mode |-> "manual", disk |-> TRUE, exitFlush |-> TRUE],
     [mode |-> "startup", disk |-> TRUE, exitFlush |-> FALSE]}

\* Every policy the safety run takes.
AllConfigs == {c \in MemoryConfigs : c.exitFlush} \cup DiskConfigs

\* A durable queue ends in one way per policy (the exit hook of the first,
\* close() of the second), sees no flush of the host, takes two entries under
\* the first and three, one more than fit, under the second (two once its disk has
\* failed, which makes it a memory queue), and starts again once, for the third
\* entry or for a close(); a memory queue has nothing to start again with.
Bounds ==
    IF cfg.disk
    THEN /\ next <= (IF cfg.exitFlush THEN 3 ELSE 4)
         /\ calls["user"] = "none"
         /\ cfg.exitFlush => closing = "open"
         /\ degraded => next <= 3
         /\ run = 2 /\ next = 4 => closing = "open"
    ELSE run = 1

===============================================================================
