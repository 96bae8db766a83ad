-------------------------- MODULE MCCronScheduler --------------------------
(* Instances of CronScheduler for TLC. *)
EXTENDS CronScheduler, TLC

CONSTANTS j1, j2, a, b

OneJob     == {j1}
TwoJobs    == {j1, j2}
OneCaller  == {a}
TwoCallers == {a, b}
ThreeSlots == 1 .. 3

Symmetry == Permutations(Jobs) \cup Permutations(Callers)
=============================================================================
