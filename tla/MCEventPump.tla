----------------------------- MODULE MCEventPump -----------------------------
(* TLC instance of EventPump: the main session, a subagent's and a bare key,   *)
(* as many batch loops as handlers (theorem LoopsAreBounded), one caller of the *)
(* pump and one ordinary turn.                                                 *)
EXTENDS EventPump, TLC

CONSTANTS main, sub, bare, news, alarm, l1, l2, f1, guest

MCSessions == {main, sub, bare}
MCSubagents == {sub}
MCBare == {bare}
MCTexts == {news, alarm}
MCLoops == {l1, l2}
MCFires == {f1}
MCGuests == {guest}
=============================================================================
