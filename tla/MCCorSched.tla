----------------------------- MODULE MCCorSched -----------------------------
(* CorSched on a few fibers.                                               *)
EXTENDS CorSched

CONSTANTS f1, f2, f3

MCFiber3 == {f1, f2, f3}
MCKillOnly == {SIGTERM}

=============================================================================
