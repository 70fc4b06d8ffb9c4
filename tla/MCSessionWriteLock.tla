------------------------- MODULE MCSessionWriteLock -------------------------
(* A gateway with two coroutines, and a command line with one. *)
EXTENDS SessionWriteLock, TLC

CONSTANTS gateway, cli, g1, g2, k1

MCProcesses == {gateway, cli}
MCCallers == {g1, g2, k1}
Twins == Permutations({g1, g2})
MCProcessOf == [c \in MCCallers |-> IF c = k1 THEN cli ELSE gateway]
=============================================================================
