------------------------------- MODULE MCDotnet -------------------------------
(* Instances of DotnetClient, one policy of each mode.  The interval client    *)
(* records three entries, the others two, or one once the disk has given out   *)
(* or a run has ended; the manual one calls Flush.                             *)
EXTENDS DotnetClient

MCGroupOf == [e \in Entry |-> IF e = 1 THEN "a" ELSE "b"]

Policy(m, d, x) == [mode |-> m, disk |-> d, exitFlush |-> x]

Policies == {Policy("interval", FALSE, TRUE), Policy("manual", FALSE, FALSE),
             Policy("startup", TRUE, FALSE), Policy("immediate", TRUE, TRUE)}

Bounds ==
    /\ cfg.mode # "interval" => next <= 3
    /\ broken \/ (run > 1 /\ cfg.mode = "immediate") => next <= 2
    /\ cfg.mode # "manual" => answer = "none"
===============================================================================
