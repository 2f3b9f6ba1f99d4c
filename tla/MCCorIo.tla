------------------------------ MODULE MCCorIo ------------------------------
(* CorIo on a few fibers and descriptors.                                  *)
EXTENDS CorIo

CONSTANTS f1, f2, f3, d1, d2

MCFiber == {f1, f2, f3}
MCFd1 == {d1}
MCFd2 == {d1, d2}
MCRecv == {"recv"}
MCRecvSend == {"recv", "send"}
MCOps == {"recv", "accept", "connect"}
MCNone == {}
MCRuns == {FALSE}
MCStops == {TRUE}
MCBoth == {FALSE, TRUE}
MCKill == {SIGTERM}
MCSignals == {2, SIGTERM}
MCNoSleep == {}
MCSleep == {0, 1}
MCSleeps == {1, 2}
MCSymmetry == Permutations(MCFiber) \cup Permutations(MCFd2)

=============================================================================
