-------------------------------- MODULE MCTag ---------------------------------
(* The instances of BrowserTag for TLC. *)
EXTENDS BrowserTag, TLC

CONSTANTS t1, t2, ann, bob, search, chosen

Cfg(mode, storage) == [mode |-> mode, storage |-> storage]
AllConfigs ==
    {Cfg("immediate", "local"), Cfg("interval", "session"), Cfg("manual", "none")}

\* Where a tick has passed, three entries are recorded and not four.
Bounds == next <= 4 \/ now = 1

Symmetric == Permutations(Tab) \cup Permutations(Person)
===============================================================================
