----------------------------- MODULE MCHookOnce -----------------------------
(* Three threads and the functions of a file with three of them.           *)
EXTENDS HookOnce

CONSTANTS t1, t2, t3, recv, send, close

MCThread == {t1, t2, t3}
MCApi == {recv, send, close}

=============================================================================
