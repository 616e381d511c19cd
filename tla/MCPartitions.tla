------------------------------ MODULE MCPartitions -----------------------------
(* The instance of Partitions for TLC. *)
EXTENDS Partitions, TLC

CONSTANTS job, boot

\* Older than any call reaches, of this month, and of a client whose clock is
\* ahead of the partitions.
Months == <<1, 3, 5>>

\* The job reaches one month back, the migration two.
Reach == job :> 1 @@ boot :> 2

Writers == Permutations(Writer)
===============================================================================
