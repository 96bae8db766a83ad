---------------------------- MODULE MCAgentTurn ----------------------------
(* An instance of AgentTurn for TLC. *)
EXTENDS AgentTurn, TLC

CONSTANTS i1, i2

TwoIds == {i1, i2}
=============================================================================
