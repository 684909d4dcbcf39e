----------------------------- MODULE MCScheduler -----------------------------
(***************************************************************************)
(* Instances of Scheduler for TLC.                                         *)
(***************************************************************************)
EXTENDS SchedulerProperties, TLC

CONSTANTS u1, u2, w1, w2, a1, a2, s1

Symmetries == Permutations(Users) \cup Permutations(Workers) \cup Permutations(Adds)
=============================================================================
