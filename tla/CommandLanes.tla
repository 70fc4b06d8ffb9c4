---------------------------- MODULE CommandLanes ----------------------------
(***************************************************************************)
(* The in-process command queue of src/src/process/command-queue.ts: named *)
(* lanes, each a FIFO of entries drained with a concurrency cap, the       *)
(* gateway-draining flag, the reset an in-process restart performs, and    *)
(* waitForActiveTasks.                                                     *)
(*                                                                         *)
(* Grain of atomicity.  JavaScript runs a function up to its first await   *)
(* without interruption, so every exported function and every task         *)
(* completion is one action, its call of drainLane/pump included.  The     *)
(* flag "draining" of a lane only guards against re-entry inside one such  *)
(* step and is false between steps; it is not a variable.                  *)
(*                                                                         *)
(* An entry stands for one call of enqueueCommandInLane, and also for the  *)
(* task id that pump draws for it (nextTaskId++): an entry is shifted from *)
(* its queue at most once, so the two are in bijection.                    *)
(***************************************************************************)
EXTENDS Integers, Sequences, FiniteSets

CONSTANTS
  Lanes,        \* lane names
  Entries,      \* the enqueue calls of a behaviour
  LaneOf,       \* the lane each call names
  Caps,         \* arguments of setCommandLaneConcurrency (floored)
  Waiters,      \* calls of waitForActiveTasks
  MaxResets     \* bound on the number of resets

ASSUME LanesAssumption   == IsFiniteSet(Entries) /\ LaneOf \in [Entries -> Lanes]
ASSUME CapsAssumption    == Caps \subseteq Int
ASSUME ResetsAssumption  == MaxResets \in Nat

VARIABLES
  gatewayDraining,  \* the flag markGatewayDraining sets
  queue,            \* lane -> its waiting entries, oldest first
  active,           \* lane -> activeTaskIds
  maxConcurrent,    \* lane -> its cap
  generation,       \* lane -> how often it was reset
  status,           \* entry -> where its promise stands
  taskGeneration,   \* entry -> generation captured when its task started
  waiter,           \* waiter -> state of its promise
  awaited           \* waiter -> the activeTaskIds snapshot it holds

laneVars == <<gatewayDraining, queue, active, maxConcurrent, generation,
              status, taskGeneration>>
vars     == <<laneVars, waiter, awaited>>

Unsettled == {"none", "queued", "running"}
Settled   == {"resolved", "rejected", "cleared", "refused"}
WaiterStates == {"none", "waiting", "drained", "timedOut"}

TypeOK ==
  /\ gatewayDraining \in BOOLEAN
  /\ queue \in [Lanes -> Seq(Entries)]
  /\ active \in [Lanes -> SUBSET Entries]
  /\ maxConcurrent \in [Lanes -> Nat \ {0}]
  /\ generation \in [Lanes -> Nat]
  /\ status \in [Entries -> Unsettled \cup Settled]
  /\ taskGeneration \in [Entries -> Nat]
  /\ waiter \in [Waiters -> WaiterStates]
  /\ awaited \in [Waiters -> SUBSET Entries]

Init ==
  /\ gatewayDraining = FALSE
  /\ queue = [l \in Lanes |-> << >>]
  /\ active = [l \in Lanes |-> {}]
  /\ maxConcurrent = [l \in Lanes |-> 1]
  /\ generation = [l \in Lanes |-> 0]
  /\ status = [e \in Entries |-> "none"]
  /\ taskGeneration = [e \in Entries |-> 0]
  /\ waiter = [w \in Waiters |-> "none"]
  /\ awaited = [w \in Waiters |-> {}]

-----------------------------------------------------------------------------
(* pump: shift entries while a slot is free and the queue is not empty. *)

\* How many entries the loop of pump shifts from q, with a already active.
StartCount(q, a, cap) ==
  IF Cardinality(a) + Len(q) <= cap THEN Len(q)
  ELSE IF Cardinality(a) < cap THEN cap - Cardinality(a)
  ELSE 0

FirstOf(q, k) == {q[i] : i \in 1..k}
Shifted(q, a, cap) == FirstOf(q, StartCount(q, a, cap))
Rest(q, a, cap)    == SubSeq(q, StartCount(q, a, cap) + 1, Len(q))

\* drainLane on the lanes ls, from the given queues, active sets, caps,
\* generations and promise states.
DrainLanes(ls, q, a, cap, gen, st) ==
  LET started == UNION {Shifted(q[l], a[l], cap[l]) : l \in ls}
  IN  /\ queue'  = [l \in Lanes |-> IF l \in ls THEN Rest(q[l], a[l], cap[l]) ELSE q[l]]
      /\ active' = [l \in Lanes |-> IF l \in ls THEN a[l] \cup Shifted(q[l], a[l], cap[l])
                                                ELSE a[l]]
      /\ status' = [e \in Entries |-> IF e \in started THEN "running" ELSE st[e]]
      /\ taskGeneration' = [e \in Entries |-> IF e \in started THEN gen[LaneOf[e]]
                                                               ELSE taskGeneration[e]]

\* notifyActiveTaskWaiters, against the active sets a: a waiter none of whose
\* tasks is active any more is resolved with drained = true.
NotifyActiveTaskWaiters(a) ==
  /\ waiter' = [w \in Waiters |->
                  IF waiter[w] = "waiting" /\ \A l \in Lanes : awaited[w] \cap a[l] = {}
                  THEN "drained" ELSE waiter[w]]
  /\ UNCHANGED awaited

-----------------------------------------------------------------------------
\* Mutant of EnqueueCommandInLane: the entry is put in front (unshift for push).
EnqueueAtFront(e) ==
  /\ status[e] = "none" /\ ~gatewayDraining
  /\ DrainLanes({LaneOf[e]}, [queue EXCEPT ![LaneOf[e]] = <<e>> \o @], active,
                maxConcurrent, generation, [status EXCEPT ![e] = "queued"])
  /\ UNCHANGED <<gatewayDraining, maxConcurrent, generation, waiter, awaited>>

\* enqueueCommandInLane, refused at once while the gateway drains.
EnqueueCommandInLane(e) ==
  /\ status[e] = "none"
  /\ IF gatewayDraining
     THEN /\ status' = [status EXCEPT ![e] = "refused"]
          /\ UNCHANGED <<queue, active, taskGeneration>>
     ELSE DrainLanes({LaneOf[e]},
                     [queue EXCEPT ![LaneOf[e]] = Append(@, e)], active, maxConcurrent,
                     generation, [status EXCEPT ![e] = "queued"])
  /\ UNCHANGED <<gatewayDraining, maxConcurrent, generation, waiter, awaited>>

\* Mutant of TaskSettles: the catch branch forgets to pump.
SettleWithoutPump(e, outcome) ==
  LET l == LaneOf[e]
      freed == [active EXCEPT ![l] = @ \ {e}]
  IN  /\ status[e] = "running"
      /\ status' = [status EXCEPT ![e] = outcome]
      /\ IF taskGeneration[e] = generation[l]
         THEN active' = freed /\ NotifyActiveTaskWaiters(freed)
         ELSE UNCHANGED <<active, waiter, awaited>>
      /\ UNCHANGED <<gatewayDraining, queue, maxConcurrent, generation, taskGeneration>>

\* Mutant of TaskSettles: the waiters are not notified.
SettleWithoutNotify(e, outcome) ==
  LET l == LaneOf[e]
  IN  /\ status[e] = "running"
      /\ taskGeneration[e] = generation[l]
      /\ DrainLanes({l}, queue, [active EXCEPT ![l] = @ \ {e}], maxConcurrent, generation,
                    [status EXCEPT ![e] = outcome])
      /\ UNCHANGED <<gatewayDraining, maxConcurrent, generation, waiter, awaited>>

\* The task of e returns or throws.  completeTask frees the slot only when the
\* lane has not been reset since the task started.
TaskSettles(e, outcome) ==
  LET l == LaneOf[e]
      freed == [active EXCEPT ![l] = @ \ {e}]
      settled == [status EXCEPT ![e] = outcome]
  IN  /\ status[e] = "running"
      /\ IF taskGeneration[e] = generation[l]
         THEN /\ DrainLanes({l}, queue, freed, maxConcurrent, generation, settled)
              /\ NotifyActiveTaskWaiters(freed)
         ELSE /\ status' = settled
              /\ UNCHANGED <<queue, active, taskGeneration, waiter, awaited>>
      /\ UNCHANGED <<gatewayDraining, maxConcurrent, generation>>

\* Mutant of SetCommandLaneConcurrency: no floor at 1, so a cap of 0 is stored.
SetUnflooredConcurrency(l, n) ==
  LET cap == [maxConcurrent EXCEPT ![l] = n]
  IN  /\ maxConcurrent' = cap
      /\ DrainLanes({l}, queue, active, cap, generation, status)
      /\ UNCHANGED <<gatewayDraining, generation, waiter, awaited>>

\* setCommandLaneConcurrency: the lane is pumped under its new cap.
SetCommandLaneConcurrency(l, n) ==
  LET cap == [maxConcurrent EXCEPT ![l] = IF n < 1 THEN 1 ELSE n]
  IN  /\ maxConcurrent' = cap
      /\ DrainLanes({l}, queue, active, cap, generation, status)
      /\ UNCHANGED <<gatewayDraining, generation, waiter, awaited>>

\* clearCommandLane rejects what waits; what runs goes on.
ClearCommandLane(l) ==
  /\ queue' = [queue EXCEPT ![l] = << >>]
  /\ status' = [e \in Entries |-> IF e \in FirstOf(queue[l], Len(queue[l]))
                                  THEN "cleared" ELSE status[e]]
  /\ UNCHANGED <<gatewayDraining, active, maxConcurrent, generation,
                 taskGeneration, waiter, awaited>>

MarkGatewayDraining ==
  /\ gatewayDraining' = TRUE
  /\ UNCHANGED <<queue, active, maxConcurrent, generation, status,
                 taskGeneration, waiter, awaited>>

\* Mutant of ResetAllLanes: the generation is not bumped.
ResetSameGeneration ==
  /\ gatewayDraining' = FALSE
  /\ DrainLanes(Lanes, queue, [l \in Lanes |-> {}], maxConcurrent, generation, status)
  /\ NotifyActiveTaskWaiters(active')
  /\ UNCHANGED <<maxConcurrent, generation>>

\* resetAllLanes: every lane gets a new generation and no active task; what
\* was queued is kept and pumped, then the waiters are notified.
ResetAllLanes ==
  LET gen == [l \in Lanes |-> generation[l] + 1]
  IN  /\ \A l \in Lanes : generation[l] < MaxResets
      /\ gatewayDraining' = FALSE
      /\ generation' = gen
      /\ DrainLanes(Lanes, queue, [l \in Lanes |-> {}], maxConcurrent, gen, status)
      /\ NotifyActiveTaskWaiters(active')
      /\ UNCHANGED maxConcurrent

\* waitForActiveTasks: a snapshot of what runs now.  "instant" is timeoutMs <= 0.
WaitForActiveTasks(w, instant) ==
  LET running == UNION {active[l] : l \in Lanes}
  IN  /\ waiter[w] = "none"
      /\ awaited' = [awaited EXCEPT ![w] = running]
      /\ waiter' = [waiter EXCEPT ![w] = IF running = {} THEN "drained"
                                         ELSE IF instant THEN "timedOut" ELSE "waiting"]
      /\ UNCHANGED laneVars

WaiterTimesOut(w) ==
  /\ waiter[w] = "waiting"
  /\ waiter' = [waiter EXCEPT ![w] = "timedOut"]
  /\ UNCHANGED <<laneVars, awaited>>

Next ==
  \/ \E e \in Entries : EnqueueCommandInLane(e)
  \/ \E e \in Entries, outcome \in {"resolved", "rejected"} : TaskSettles(e, outcome)
  \/ \E l \in Lanes, n \in Caps : SetCommandLaneConcurrency(l, n)
  \/ \E l \in Lanes : ClearCommandLane(l)
  \/ MarkGatewayDraining
  \/ ResetAllLanes
  \/ \E w \in Waiters, instant \in BOOLEAN : WaitForActiveTasks(w, instant)
  \/ \E w \in Waiters : WaiterTimesOut(w)

Spec == Init /\ [][Next]_vars

\* Tasks end: an agent run is bounded by its own timeout.  The timer of a
\* waiter fires.  Nobody has to enqueue, clear, reset or reconfigure.
Fairness ==
  /\ \A e \in Entries : WF_vars(\E outcome \in {"resolved", "rejected"} : TaskSettles(e, outcome))
  /\ \A w \in Waiters : WF_vars(WaiterTimesOut(w))

FairSpec == Spec /\ Fairness

-----------------------------------------------------------------------------
(* Correctness. *)

\* Lost wake-up: a lane never keeps an entry waiting while it has a free slot,
\* whatever ran last: an enqueue, a completion, a new cap, a clear, a reset.
WorkConserving ==
  \A l \in Lanes : queue[l] # << >> => Cardinality(active[l]) >= maxConcurrent[l]

\* The slots of a lane are exactly the tasks started since its last reset that
\* still run: the completion of an older task frees nobody else's slot.
SlotsAreCurrentTasks ==
  \A l \in Lanes :
    active[l] = {e \in Entries : /\ LaneOf[e] = l
                                 /\ status[e] = "running"
                                 /\ taskGeneration[e] = generation[l]}

\* A pending promise is backed by exactly one queue element of its own lane, and
\* no settled or running entry is still in a queue: a clear or a reset leaves
\* no caller waiting for an entry that is gone.
QueuesBackPromises ==
  /\ \A e \in Entries :
       status[e] = "queued" <=> \E i \in 1..Len(queue[LaneOf[e]]) : queue[LaneOf[e]][i] = e
  /\ \A l \in Lanes : \A i, j \in 1..Len(queue[l]) :
       /\ LaneOf[queue[l][i]] = l
       /\ queue[l][i] = queue[l][j] => i = j

\* waitForActiveTasks: a waiter still pending has something to wait for, and one
\* told "drained" has no task of its snapshot left in a slot.
WaitersExact ==
  \A w \in Waiters :
    LET pending == \E l \in Lanes : awaited[w] \cap active[l] # {}
    IN  /\ waiter[w] = "waiting" => pending
        /\ waiter[w] = "drained" => ~pending

\* No step starts a task beyond the cap in force after it (a lowered cap lets
\* the excess run out, and starts nothing meanwhile).
StartsWithinCap ==
  \A l \in Lanes : active'[l] \ active[l] # {} => Cardinality(active'[l]) <= maxConcurrent'[l]

CapRespected == [][StartsWithinCap]_vars

\* FIFO: a task starts only when everything enqueued before it in its lane has
\* left the queue, and a new entry waits behind all that were there.
StartsOldestFirst ==
  \A l \in Lanes :
    /\ \A i, j \in 1..Len(queue[l]) :
         i < j /\ status'[queue[l][j]] = "running" => status'[queue[l][i]] # "queued"
    /\ \A e \in Entries :
         LaneOf[e] = l /\ status[e] = "none" /\ status'[e] = "running" => queue'[l] = << >>
    /\ \A i, j \in 1..Len(queue'[l]) :
         i < j /\ status[queue'[l][i]] = "none" => status[queue'[l][j]] = "none"

StartsInOrder == [][StartsOldestFirst]_vars

\* Progress: every entry a lane accepted is eventually settled.
AcceptedSettles ==
  \A e \in Entries : status[e] = "queued" ~> status[e] \in Settled

\* A caller sees of its call whether it waits, runs or is over.
CallOf(e) == IF status[e] \in Settled THEN "over"
             ELSE IF status[e] = "queued" THEN "waiting" ELSE status[e]

Contract == INSTANCE LaneContract WITH
  line <- queue, holders <- active, capacity <- maxConcurrent,
  call <- [e \in Entries |-> CallOf(e)],
  Capacities <- {IF n < 1 THEN 1 ELSE n : n \in Caps}

\* The lanes keep their contract: whatever the generations, the draining flag and
\* the waiters do, each step is one the contract allows, or changes nothing a
\* caller can see.
KeepsContract == Contract!Spec
=============================================================================
