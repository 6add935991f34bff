------------------------- MODULE MCClientLifecycle -------------------------
(* Small instances of ClientLifecycle. *)
EXTENDS ClientLifecycle

CONSTANTS t1, t2, w1
=============================================================================
