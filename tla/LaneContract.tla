---------------------------- MODULE LaneContract ----------------------------
(***************************************************************************)
(* What the command lanes of src/src/process/command-queue.ts promise to   *)
(* their callers, without the means: no generations, no draining flag, no  *)
(* waiters, no loop.  A call stands in the line of its lane, holds one of  *)
(* the lane's places while its task runs, and is over in the end.  Places  *)
(* are handed out in the order of the line, never beyond the capacity, and *)
(* no step leaves a place free with a call in line.                        *)
(*                                                                         *)
(* A lane may lose all its places at once (Forfeit); the tasks that held   *)
(* them still run, and their end then frees nothing.                       *)
(***************************************************************************)
EXTENDS Integers, Sequences, FiniteSets

CONSTANTS
  Lanes,       \* lane names
  Entries,     \* the calls of a behaviour
  LaneOf,      \* the lane of each call
  Capacities   \* the capacities a lane may be given

VARIABLES
  line,      \* lane -> the calls waiting, oldest first
  holders,   \* lane -> the calls that hold a place
  capacity,  \* lane -> how many places it has
  call       \* call -> "none", "waiting", "running" or "over"

contractVars == <<line, holders, capacity, call>>

Init ==
  /\ line = [l \in Lanes |-> << >>]
  /\ holders = [l \in Lanes |-> {}]
  /\ capacity = [l \in Lanes |-> 1]
  /\ call = [e \in Entries |-> "none"]

Front(s, k) == {s[i] : i \in 1..k}

\* The free places are given to the front of each line, as many as there are
\* places or calls: n[l] calls of lane l, from the given lines and holders.
ServedBy(n, q, h, c, p) ==
  /\ \A l \in Lanes : n[l] <= Len(q[l])
  /\ line' = [l \in Lanes |-> SubSeq(q[l], n[l] + 1, Len(q[l]))]
  /\ holders' = [l \in Lanes |-> h[l] \cup Front(q[l], n[l])]
  /\ capacity' = c
  /\ call' = [e \in Entries |-> IF e \in Front(q[LaneOf[e]], n[LaneOf[e]])
                                THEN "running" ELSE p[e]]
  /\ \A l \in Lanes :
       /\ n[l] > 0 => Cardinality(holders'[l]) <= c[l]
       /\ n[l] < Len(q[l]) => Cardinality(holders'[l]) >= c[l]

Served(q, h, c, p) ==
  \E n \in [Lanes -> 0..Cardinality(Entries)] : ServedBy(n, q, h, c, p)

Refuse(e) ==
  /\ call[e] = "none"
  /\ call' = [call EXCEPT ![e] = "over"]
  /\ UNCHANGED <<line, holders, capacity>>

Accept(e) ==
  /\ call[e] = "none"
  /\ Served([line EXCEPT ![LaneOf[e]] = Append(@, e)], holders, capacity,
            [call EXCEPT ![e] = "waiting"])

Finish(e) ==
  /\ call[e] = "running"
  /\ Served(line, [holders EXCEPT ![LaneOf[e]] = @ \ {e}], capacity,
            [call EXCEPT ![e] = "over"])

Resize(l, c) == Served(line, holders, [capacity EXCEPT ![l] = c], call)

Dismiss(l) ==
  /\ line' = [line EXCEPT ![l] = << >>]
  /\ call' = [e \in Entries |-> IF e \in Front(line[l], Len(line[l])) THEN "over" ELSE call[e]]
  /\ UNCHANGED <<holders, capacity>>

Forfeit == Served(line, [l \in Lanes |-> {}], capacity, call)

Next ==
  \/ \E e \in Entries : Refuse(e) \/ Accept(e) \/ Finish(e)
  \/ \E l \in Lanes : Dismiss(l)
  \/ \E l \in Lanes, c \in Capacities : Resize(l, c)
  \/ Forfeit

Spec == Init /\ [][Next]_contractVars
=============================================================================
