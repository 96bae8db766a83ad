---------------------------- MODULE MCCodeStore ----------------------------
(* Instances of CodeStore for TLC. *)
EXTENDS CodeStore, TLC

CONSTANTS t1, t2, r1, r2, r3, r4

OneTarget  == {t1}
TwoTargets == {t1, t2}

TwoRequests   == {r1, r2}
ThreeRequests == {r1, r2, r3}
FourRequests  == {r1, r2, r3, r4}

Symmetry ==
  Permutations(Requests) \cup Permutations(Targets)
=============================================================================
