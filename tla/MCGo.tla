-------------------------------- MODULE MCGo --------------------------------
(* Instances of GoClient: three entries in two alternating groups, and one   *)
(* policy of each schedule.  An instance whose disk has failed, or holds a   *)
(* torn line, records two entries at most.                                   *)
EXTENDS GoClient

MCGroupOf == [e \in Entry |-> IF e = 2 THEN "b" ELSE "a"]

Policy(s, d, x) == [schedule |-> s, disk |-> d, exitFlush |-> x]

AllPolicies == {Policy("interval", FALSE, TRUE), Policy("manual", FALSE, FALSE),
                Policy("startup", TRUE, FALSE), Policy("immediate", TRUE, TRUE)}

Bounds == cfg.disk /\ (disk.broken \/ Bad \in ToSet(disk.lines)) => next <= 3
==============================================================================
