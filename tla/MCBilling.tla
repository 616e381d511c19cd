------------------------------- MODULE MCBilling -------------------------------
(* Instances of Billing for TLC. *)
EXTENDS Billing, TLC

CONSTANTS k1, k2, w1, w2

\* A design partner on a tier that was not sold to it.
OneLever == {[plan |-> "scale", status |-> "active"]}

Symmetric == Permutations(Checkout) \cup Permutations(Workspace)
===============================================================================
