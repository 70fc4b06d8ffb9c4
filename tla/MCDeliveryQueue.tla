-------------------------- MODULE MCDeliveryQueue --------------------------
(* TLC instance of DeliveryQueue: one scan at a time.                       *)
EXTENDS DeliveryQueue

CONSTANTS live, s1

OneScan == {s1}
=============================================================================
