------------------------------ MODULE MCDocIndex ------------------------------
(***************************************************************************)
(* DocIndex for TLC: the directory d holds file a; the file b is in another *)
(* directory, whose name begins with that of d.                            *)
(***************************************************************************)
EXTENDS DocIndex, TLC

CONSTANTS a, b, d, blank, short, long

InsideValue == d :> {a}
MatchesValue == d :> {a, b}
PiecesValue == (blank :> 0) @@ (short :> 1) @@ (long :> 2)
===============================================================================
