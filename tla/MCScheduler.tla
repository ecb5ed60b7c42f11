---------------------------- MODULE MCScheduler ----------------------------
(***************************************************************************)
(* Small instances of Scheduler for TLC.                                   *)
(***************************************************************************)
EXTENDS Scheduler, TLC

\* Both IDs belong to jobs of the same name, so that findJob is ambiguous.
SharedName == [id \in JobIDs |-> "report"]

Symmetry == Permutations(Jobs) \cup Permutations(JobIDs) \cup Permutations(Timers)

=============================================================================
