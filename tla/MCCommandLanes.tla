--------------------------- MODULE MCCommandLanes ---------------------------
(* TLC instance of CommandLanes: two lanes, three calls on one of them. *)
EXTENDS CommandLanes, TLC

CONSTANTS main, session, e1, e2, e3, w1

MCLanes   == {main, session}
MCEntries == {e1, e2, e3}
MCLaneOf  == (e1 :> main) @@ (e2 :> main) @@ (e3 :> main)
MCCaps    == {0, 2, 3}
MCWaiters == {w1}
=============================================================================
