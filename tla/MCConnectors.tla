----------------------------- MODULE MCConnectors -----------------------------
(***************************************************************************)
(* Connectors for TLC: one server that moves from one tool list to another *)
(* and an HTTP API.                                                        *)
(***************************************************************************)
EXTENDS Connectors, TLC

CONSTANTS api, old, new, t1, t2

ApiValues == {api}
McpValues == {old, new}
OffersValue == (api :> {t1}) @@ (old :> {t1}) @@ (new :> {t1})
===============================================================================
