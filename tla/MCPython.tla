------------------------------- MODULE MCPython -------------------------------
(* Instances of PythonClient: three entries, and one policy of each schedule.  *)
(* The interval client is the one whose host calls flush(); clients with a     *)
(* spool record two entries at most.                                           *)
EXTENDS PythonClient

Policy(s, d, x) == [schedule |-> s, disk |-> d, exitFlush |-> x]

Policies == {Policy("immediate", FALSE, TRUE), Policy("interval", FALSE, FALSE),
             Policy("startup", TRUE, FALSE), Policy("manual", TRUE, TRUE)}

Bounds ==
    /\ cfg.disk => next <= 3
    /\ cfg.schedule # "interval" => answer["user"] = "none"
===============================================================================
