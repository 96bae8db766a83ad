----------------------------- MODULE MCReminders -----------------------------
(***************************************************************************)
(* Reminders for TLC: two reminders, one of them with an action.           *)
(***************************************************************************)
EXTENDS Reminders, TLC

CONSTANTS plain, active

TwoReminders == {plain, active}
OneAction == {active}
===============================================================================
