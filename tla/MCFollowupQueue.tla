-------------------------- MODULE MCFollowupQueue --------------------------
(* TLC instance of FollowupQueue: one session key and a few messages.  The   *)
(* settings an enqueue may carry differ from run to run.                      *)
EXTENDS FollowupQueue, TLC

CONSTANTS m1, m2, m3, m4, chat, unkeyed, unroutable

MCRoutes == {chat, unkeyed, unroutable}

\* Three messages: two of one chat and one without a destination.
ThreeMsgs == {m1, m2, m3}
ThreeRoutes == (m1 :> chat) @@ (m2 :> chat) @@ (m3 :> unkeyed)

\* Four messages: two of one chat, one without a destination, one unroutable.
FourMsgs == {m1, m2, m3, m4}
FourRoutes == ThreeRoutes @@ (m4 :> unroutable)

Setting(mode, cap, drop) == [mode |-> mode, cap |-> cap, drop |-> drop]

\* Overflow refuses the new message; the mode may change between messages.
RefusingSettings == {Setting("collect", 2, "new"), Setting("followup", 2, "new")}

\* Every drop policy.
EverySettings == {Setting("collect", 2, "summarize"), Setting("followup", 1, "summarize"),
                  Setting("collect", 1, "old"), Setting("followup", 2, "new")}

\* The settings of the runs that end in a counterexample.
CollectSummarize == {Setting("collect", 2, "summarize")}
FollowupRefusing == {Setting("followup", 2, "new")}
=============================================================================
