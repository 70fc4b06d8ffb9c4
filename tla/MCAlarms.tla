------------------------------ MODULE MCAlarms ------------------------------
(* TLC instances of Alarms: a one-shot alarm and one that repeats, two passes. *)
EXTENDS Alarms

CONSTANTS once, again, p1, p2

MCAlarm == {once, again}
MCRepeating == {again}
MCPasses == {p1, p2}
=============================================================================
