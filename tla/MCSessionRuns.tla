---------------------------- MODULE MCSessionRuns ----------------------------
(* TLC instance of SessionRuns: two turns of one session key and a reset of   *)
(* the session over the gateway.                                               *)
EXTENDS SessionRuns, TLC

CONSTANTS k1, t1, t2, c1

MCKeys == {k1}
MCTurns == {t1, t2}
MCCallers == {c1}
MCKeyOf == [x \in MCTurns \cup MCCallers |-> k1]
=============================================================================
