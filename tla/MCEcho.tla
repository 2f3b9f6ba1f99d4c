------------------------------- MODULE MCEcho -------------------------------
(* Echo with two clients.                                                    *)
EXTENDS Echo

CONSTANTS c1, c2

MCClient == {c1, c2}
MCLines == [c \in MCClient |-> IF c = c1 THEN 4 ELSE 1]

=============================================================================
