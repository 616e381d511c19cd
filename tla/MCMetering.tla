------------------------------ MODULE MCMetering ------------------------------
(* Instances of Metering for TLC. *)
EXTENDS Metering, TLC

CONSTANTS r1, r2, r3, s1, p1, e1, e2

OneProject == s1 :> p1

Body(key, kept, dropped) ==
    [readable |-> TRUE, key |-> key, kept |-> kept, dropped |-> dropped]

\* A queue, and a part of it sent again and at once with an entry doubled and
\* one that does not parse; an unknown key, and nothing that parses.
Bodies ==
    {Body(s1, <<e1, e2>>, 0), Body(s1, <<e2, e2>>, 1),
     Body(Nobody, <<e1>>, 0), Body(s1, <<>>, 1)}

Requests == Permutations(Request)
===============================================================================
