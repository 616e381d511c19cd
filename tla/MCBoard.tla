------------------------------- MODULE MCBoard -------------------------------
(* An instance of LiveBoard: two boards with a card each, seven behaviours  *)
(* of the person.                                                          *)
EXTENDS LiveBoard

CONSTANTS b1, b2

E(kind, edge, dx, dy) == [kind |-> kind, card |-> b1, edge |-> edge, dx |-> dx, dy |-> dy]

Frame == E("frame", {}, 0, 0)

Evenings == {
    <<E("move", {}, -47, 50000), Frame>>,
    <<Frame, E("resize", {"n", "w"}, -500, -70)>>,
    <<E("add", {}, 400, 220), E("nudge", {"e"}, 100, 0)>>,
    <<E("text", {}, 0, 0), E("copy", {}, 0, 0)>>,
    <<E("copy", {}, 0, 0), E("add", {}, 400, 220)>>,
    <<E("remove", {}, 0, 0), Frame>>,
    <<E("front", {}, 0, 0), E("resize", {"e", "s"}, 2000, 9000)>>}
==============================================================================
