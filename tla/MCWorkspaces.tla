------------------------------ MODULE MCWorkspaces -----------------------------
(* The instances of Workspaces for TLC. *)
EXTENDS Workspaces, TLC

Symmetric == Permutations(Request) \cup Permutations(Project)
===============================================================================
