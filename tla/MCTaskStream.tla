---------------------------- MODULE MCTaskStream ----------------------------
(* Instances of TaskStream for TLC. *)
EXTENDS TaskStream, TLC

CONSTANTS c1, c2

TwoConns == {c1, c2}
=============================================================================
