----------------------------- MODULE MCEventLoop -----------------------------
(* EventLoop on a few descriptors.                                         *)
EXTENDS EventLoop

CONSTANTS a, b, c

MCFd2 == {a, b}
MCFd3 == {a, b, c}
MCNone == {}
MCNoSock == {c}
Symmetry2 == Permutations(MCFd2)

=============================================================================
