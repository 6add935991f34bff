-------------------------- MODULE MCFirewallMaster --------------------------
(* Small instances of FirewallMaster. *)
EXTENDS FirewallMaster

CONSTANTS x, y, a1, a2
=============================================================================
