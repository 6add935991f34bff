-------------------------- MODULE MCMasterSession --------------------------
(* Small instances of MasterSession. *)
EXTENDS MasterSession, TLC

CONSTANTS d1, t1, t2, r1, r2

OwnedByD1 == [t \in {t1, t2} |-> d1]

OneToken == [t \in {t1} |-> d1]

Threads == Permutations({r1, r2})
=============================================================================
