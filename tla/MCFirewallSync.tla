-------------------------- MODULE MCFirewallSync ---------------------------
(* Small instances of FirewallSync. *)
EXTENDS FirewallSync

CONSTANTS x, y, a1, a2
=============================================================================
