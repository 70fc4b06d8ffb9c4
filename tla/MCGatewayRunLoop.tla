------------------------- MODULE MCGatewayRunLoop -------------------------
(* TLC instance of GatewayRunLoop: one session lane and a few agent turns.  *)
EXTENDS GatewayRunLoop, TLC

CONSTANTS session, e1, e2, w1, w2

MCLanes   == {session}
MCEntries == {e1, e2}
MCLaneOf  == (e1 :> session) @@ (e2 :> session)
MCWaiters == {w1, w2}
MCCaps    == {2}
NoCaps    == {}
AllModes  == {"spawned", "supervised", "disabled", "failed"}
StayModes == {"disabled"}
=============================================================================
