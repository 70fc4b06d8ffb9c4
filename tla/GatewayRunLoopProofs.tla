------------------------ MODULE GatewayRunLoopProofs ------------------------
(***************************************************************************)
(* Proofs about GatewayRunLoop, for every set of lanes, calls, waiters and *)
(* respawn modes.                                                          *)
(*                                                                         *)
(* The lanes are an instance of CommandLanes, so what CommandLanesProofs   *)
(* shows of a step of the lanes is used here as it stands (L!NextIInv,     *)
(* L!StepKeeps); only request("restart"), which marks the gateway as       *)
(* draining and starts a waiter in one step, is no step of CommandLanes.   *)
(*                                                                         *)
(* The rest of the argument is about the loop and the shutdown task.  It   *)
(* needs that no restart is emitted while the server starts                *)
(* (EarlyRestarts = FALSE): the loop then waits for restartResolver as     *)
(* long as a restart is under way, and the end of the task reaches it.     *)
(***************************************************************************)
EXTENDS GatewayRunLoop, FiniteSetTheorems, TLAPS

L == INSTANCE CommandLanesProofs

-----------------------------------------------------------------------------
(* The lanes inside the process. *)

\* The instance names the operators of its standard modules anew.
LEMMA SameFiniteSets == \A S : L!IsFiniteSet(S) <=> IsFiniteSet(S)
BY DEF L!IsFiniteSet, IsFiniteSet

\* What CommandLanesProofs shows of every step of the lanes.
LEMMA LanesNext ==
  L!IInv /\ [L!Next]_(L!vars)
    => L!IInv' /\ [L!Contract!Next]_(L!Contract!contractVars)
BY SameFiniteSets, LoopLanesAssumption, L!NextIInv, L!StepKeeps DEF L!NextIInv, L!StepKeeps

LEMMA LanesInit == Q!Init => L!IInv
<1>1. Q!Init => L!Init
  BY DEF Q!Init, L!Init
<1> QED
  BY <1>1, SameFiniteSets, LoopLanesAssumption, L!InitIInv DEF L!InitIInv

\* Both instances of CommandLanes say the same of pump and drainLane.
LEMMA SamePump ==
  ASSUME NEW q, NEW a, NEW cap
  PROVE  /\ Q!Shifted(q, a, cap) = L!Shifted(q, a, cap)
         /\ Q!Rest(q, a, cap) = L!Rest(q, a, cap)
<1>1. Q!StartCount(q, a, cap) = L!StartCount(q, a, cap)
  BY DEF Q!StartCount, L!StartCount, Q!Cardinality, L!Cardinality
<1> QED
  BY <1>1 DEF Q!Shifted, L!Shifted, Q!Rest, L!Rest, Q!FirstOf, L!FirstOf

LEMMA SameDrain ==
  ASSUME NEW ls, NEW q, NEW a, NEW cap, NEW gen, NEW st
  PROVE  Q!DrainLanes(ls, q, a, cap, gen, st) <=> L!DrainLanes(ls, q, a, cap, gen, st)
BY SamePump DEF Q!DrainLanes, L!DrainLanes

\* LaneStep and resetAllLanes are steps of CommandLanes.
LEMMA LaneStepIsLanes == LaneStep \/ Q!ResetAllLanes => L!Next
<1>1. ASSUME NEW e \in Entries, Q!EnqueueCommandInLane(e) PROVE L!Next
  <2>1. L!EnqueueCommandInLane(e)
    BY <1>1, SameDrain DEF Q!EnqueueCommandInLane, L!EnqueueCommandInLane
  <2> QED
    BY <2>1 DEF L!Next
<1>2. ASSUME NEW e \in Entries, NEW outcome \in {"resolved", "rejected"},
             Q!TaskSettles(e, outcome)
      PROVE  L!Next
  <2>1. L!TaskSettles(e, outcome)
    BY <1>2, SameDrain DEF Q!TaskSettles, L!TaskSettles,
                           Q!NotifyActiveTaskWaiters, L!NotifyActiveTaskWaiters
  <2> QED
    BY <2>1 DEF L!Next
<1>3. ASSUME NEW l \in Lanes, NEW n \in Caps, Q!SetCommandLaneConcurrency(l, n) PROVE L!Next
  <2>1. L!SetCommandLaneConcurrency(l, n)
    BY <1>3, SameDrain DEF Q!SetCommandLaneConcurrency, L!SetCommandLaneConcurrency
  <2> QED
    BY <2>1 DEF L!Next
<1>4. ASSUME NEW l \in Lanes, Q!ClearCommandLane(l) PROVE L!Next
  <2>1. L!ClearCommandLane(l)
    BY <1>4 DEF Q!ClearCommandLane, L!ClearCommandLane, Q!FirstOf, L!FirstOf
  <2> QED
    BY <2>1 DEF L!Next
<1>5. ASSUME NEW w \in Waiters, Q!WaiterTimesOut(w) PROVE L!Next
  <2>1. L!WaiterTimesOut(w)
    BY <1>5 DEF Q!WaiterTimesOut, L!WaiterTimesOut, Q!laneVars, L!laneVars
  <2> QED
    BY <2>1 DEF L!Next
<1>6. CASE Q!ResetAllLanes
  <2>1. L!ResetAllLanes
    BY <1>6, SameDrain DEF Q!ResetAllLanes, L!ResetAllLanes,
                           Q!NotifyActiveTaskWaiters, L!NotifyActiveTaskWaiters
  <2> QED
    BY <2>1 DEF L!Next
<1> QED
  BY <1>1, <1>2, <1>3, <1>4, <1>5, <1>6 DEF LaneStep

\* request("restart") marks the gateway as draining and starts a waiter on what
\* runs: to the lanes, a flag and a waiter with something to wait for.
LEMMA RequestKeepsLanes ==
  ASSUME L!IInv, RequestRestart
  PROVE  L!IInv' /\ UNCHANGED L!Contract!contractVars
<1>1. UNCHANGED <<queue, active, maxConcurrent, generation, status, taskGeneration>>
  BY DEF RequestRestart, laneVars
<1>2. L!LaneInv'
  BY <1>1 DEF L!IInv, L!LaneInv, L!SlotsAreCurrentTasks, L!QueuesBackPromises,
              L!GenerationBound, L!WorkConserving
<1>3. gatewayDraining' \in BOOLEAN
  BY DEF RequestRestart, laneVars, L!IInv, L!TypeOK
<1>4. UNCHANGED L!Contract!contractVars
  BY <1>1 DEF L!Contract!contractVars, L!CallOf
<1>5. CASE UNCHANGED <<waiter, awaited>>
  <2>1. L!TypeOK'
    BY <1>1, <1>3, <1>5 DEF L!IInv, L!TypeOK
  <2>2. L!AwaitedWereStarted' /\ L!WaitersExact'
    BY <1>1, <1>5 DEF L!IInv, L!AwaitedWereStarted, L!WaitersExact
  <2> QED
    BY <1>2, <1>4, <2>1, <2>2 DEF L!IInv
<1>6. CASE ~UNCHANGED <<waiter, awaited>>
  <2> DEFINE running == UNION {active[l] : l \in Lanes}
  <2>1. running # {} /\ \E w \in Waiters :
          /\ waiter' = [waiter EXCEPT ![w] = "waiting"]
          /\ awaited' = [awaited EXCEPT ![w] = running]
    BY <1>6 DEF RequestRestart, laneVars
  <2>2. PICK w \in Waiters : /\ waiter' = [waiter EXCEPT ![w] = "waiting"]
                             /\ awaited' = [awaited EXCEPT ![w] = running]
    BY <2>1
  <2>3. running \in SUBSET Entries
    BY DEF L!IInv, L!TypeOK
  <2>4. L!TypeOK'
    BY <1>1, <1>3, <2>2, <2>3 DEF L!IInv, L!TypeOK, L!WaiterStates
  <2>5. \A e \in running : status[e] = "running"
    BY DEF L!IInv, L!LaneInv, L!SlotsAreCurrentTasks
  <2>6. /\ awaited'[w] = running /\ waiter'[w] = "waiting"
        /\ \A x \in Waiters : x # w => awaited'[x] = awaited[x] /\ waiter'[x] = waiter[x]
    BY <2>2 DEF L!IInv, L!TypeOK
  <2>7. \E l \in Lanes : running \cap active[l] # {}
    BY <2>1
  <2> HIDE DEF running
  <2>8. L!AwaitedWereStarted'
    BY <1>1, <2>5, <2>6 DEF L!IInv, L!AwaitedWereStarted
  <2>9. L!WaitersExact'
    <3> SUFFICES ASSUME NEW x \in Waiters
                 PROVE  LET pending == \E l \in Lanes : awaited'[x] \cap active'[l] # {}
                        IN  /\ waiter'[x] = "waiting" => pending
                            /\ waiter'[x] = "drained" => ~pending
      BY DEF L!WaitersExact
    <3>1. CASE x = w
      BY <1>1, <2>6, <2>7, <3>1
    <3>2. CASE x # w
      BY <1>1, <2>6, <3>2 DEF L!IInv, L!WaitersExact
    <3> QED
      BY <3>1, <3>2
  <2> QED
    BY <1>2, <1>4, <2>4, <2>8, <2>9 DEF L!IInv
<1> QED
  BY <1>5, <1>6

\* Every step of the process does one of three things to the lanes.
LEMMA WhatLanesSee ==
  ASSUME [Next]_vars
  PROVE  [L!Next]_(L!vars) \/ RequestRestart
<1>1. CASE LaneStep
  BY <1>1, LaneStepIsLanes
<1>2. ASSUME Resume PROVE [L!Next]_(L!vars)
  BY <1>2, LaneStepIsLanes DEF Resume, laneVars, L!vars, L!laneVars
<1>3. CASE Reacquired \/ \E mode \in RespawnModes : HandOver(mode)
  BY <1>2, <1>3 DEF Reacquired, HandOver, laneVars, L!vars, L!laneVars
<1>4. CASE TimerFires \/ PollerEmits
  BY <1>4 DEF TimerFires, PollerEmits, DeferUntilIdle, laneVars, L!vars, L!laneVars
<1>5. CASE \/ StartSucceeds \/ StartFails \/ Sigterm \/ DrainOver \/ CloseEnds \/ CloseThrows
           \/ ForceExit \/ ReleaseLockIfHeld \/ StopExits \/ ReacquireFails
           \/ ScheduleRestart \/ UNCHANGED vars
  <2>1. UNCHANGED laneVars
    BY <1>5 DEF StartSucceeds, StartFails, Sigterm, DrainOver, CloseEnds, CloseThrows,
                CloseSettles, ForceExit, ReleaseLockIfHeld, StopExits, ReacquireFails,
                ScheduleRestart, vars
  <2> QED
    BY <2>1 DEF laneVars, L!vars, L!laneVars
<1> QED
  BY <1>1, <1>3, <1>4, <1>5 DEF Next

LEMMA LanesInductive ==
  L!IInv /\ [Next]_vars => L!IInv' /\ [L!Contract!Next]_(L!Contract!contractVars)
BY WhatLanesSee, LanesNext, RequestKeepsLanes

\* A waiter that has its answer keeps it.
LEMMA AnswersStay ==
  ASSUME L!IInv, [Next]_vars, NEW w \in Waiters, waiter[w] \in {"drained", "timedOut"}
  PROVE  waiter'[w] = waiter[w]
<1>1. waiter \in [Waiters -> L!WaiterStates]
  BY DEF L!IInv, L!TypeOK
<1>2. CASE RequestRestart
  BY <1>1, <1>2 DEF RequestRestart, laneVars
<1>3. CASE L!Next
  <2>1. ASSUME NEW a, L!NotifyActiveTaskWaiters(a) PROVE waiter'[w] = waiter[w]
    BY <2>1 DEF L!NotifyActiveTaskWaiters
  <2>2. ASSUME NEW e \in Entries, NEW outcome \in {"resolved", "rejected"},
               L!TaskSettles(e, outcome)
        PROVE  waiter'[w] = waiter[w]
    BY <2>1, <2>2 DEF L!TaskSettles
  <2>3. ASSUME NEW v \in Waiters, NEW instant \in BOOLEAN, L!WaitForActiveTasks(v, instant)
        PROVE  waiter'[w] = waiter[w]
    BY <1>1, <2>3 DEF L!WaitForActiveTasks
  <2>4. ASSUME NEW v \in Waiters, L!WaiterTimesOut(v) PROVE waiter'[w] = waiter[w]
    BY <1>1, <2>4 DEF L!WaiterTimesOut
  <2>5. CASE L!ResetAllLanes
    BY <2>1, <2>5 DEF L!ResetAllLanes
  <2>6. CASE \/ \E e \in Entries : L!EnqueueCommandInLane(e)
             \/ \E l \in Lanes, n \in Caps : L!SetCommandLaneConcurrency(l, n)
             \/ \E l \in Lanes : L!ClearCommandLane(l)
             \/ L!MarkGatewayDraining
    BY <2>6 DEF L!EnqueueCommandInLane, L!SetCommandLaneConcurrency, L!ClearCommandLane,
                L!MarkGatewayDraining
  <2> QED
    BY <1>3, <2>2, <2>3, <2>4, <2>5, <2>6 DEF L!Next
<1>4. CASE UNCHANGED L!vars
  BY <1>4 DEF L!vars
<1> QED
  BY <1>2, <1>3, <1>4, WhatLanesSee

-----------------------------------------------------------------------------
(* Types, and the restarts asked for. *)

LoopTypes ==
  /\ loop \in {"starting", "waiting", "exited"}
  /\ firstStart \in BOOLEAN /\ server \in BOOLEAN /\ listening \in BOOLEAN
  /\ lock \in BOOLEAN /\ timer \in BOOLEAN /\ stopAsked \in BOOLEAN
  /\ task \in Tasks
  /\ startFailures \in 0..MaxStartFailures /\ closeFailures \in 0..MaxCloseFailures

\* Every timer and every interval stands for a request of its own: a request that
\* joins a pending timer adds nothing, and a restart uses up what it came from.
OneRestartPerRequest ==
  /\ pollers \in Nat /\ requests \in 0..MaxRequests
  /\ pollers + (IF timer THEN 1 ELSE 0) <= requests

ProcessInv == L!IInv /\ LoopTypes /\ OneRestartPerRequest

LEMMA InitProcess == Init => ProcessInv
<1> SUFFICES ASSUME Init PROVE ProcessInv
  OBVIOUS
<1>1. L!IInv
  BY LanesInit DEF Init
<1>2. LoopTypes /\ OneRestartPerRequest
  <2>1. NoTask \in Tasks
    BY DEF NoTask, Tasks
  <2>2. LoopTypes
    <3>1. startFailures \in 0..MaxStartFailures /\ closeFailures \in 0..MaxCloseFailures
      BY LoopBoundsAssumption DEF Init
    <3>2. task \in Tasks
      BY <2>1 DEF Init
    <3> QED
      BY <3>1, <3>2 DEF Init, LoopTypes
  <2>3. pollers = 0 /\ requests = 0 /\ timer = FALSE
    BY DEF Init
  <2>4. OneRestartPerRequest
    BY <2>3, LoopBoundsAssumption DEF OneRestartPerRequest
  <2> QED
    BY <2>2, <2>4
<1> QED
  BY <1>1, <1>2 DEF ProcessInv

LEMMA ResumeTypes ==
  ASSUME LoopTypes, Resume
  PROVE  /\ loop' \in {"starting", "waiting", "exited"} /\ task' \in Tasks
         /\ UNCHANGED <<firstStart, server, listening, startFailures, closeFailures>>
BY DEF LoopTypes, Resume, NoTask, Tasks

LEMMA ClosingTypes ==
  ASSUME NEW t \in Tasks, Closing(t)
  PROVE  task' \in Tasks
BY DEF Closing, Tasks

LEMMA RequestTypes ==
  ASSUME LoopTypes, RequestRestart
  PROVE  task' \in Tasks
<1> DEFINE t == [NoTask EXCEPT !.restart = TRUE]
<1>1. t \in Tasks
  BY DEF NoTask, Tasks
<1>2. CASE task.pc # "none"
  BY <1>2 DEF RequestRestart, LoopTypes
<1>3. CASE task.pc = "none" /\ Closing(t)
  BY <1>1, <1>3, ClosingTypes
<1>4. CASE \E w \in Waiters : task' = [t EXCEPT !.pc = "draining", !.waits = {w}]
  <2>1. PICK w \in Waiters : task' = [t EXCEPT !.pc = "draining", !.waits = {w}]
    BY <1>4
  <2>2. {w} \in SUBSET Waiters
    OBVIOUS
  <2> HIDE DEF t
  <2> QED
    BY <1>1, <2>1, <2>2 DEF Tasks
<1> QED
  BY <1>2, <1>3, <1>4 DEF RequestRestart

LEMMA NextTypes ==
  ASSUME LoopTypes, [Next]_vars
  PROVE  LoopTypes'
<1>1. CASE StartSucceeds
  BY <1>1 DEF StartSucceeds, LoopTypes, restartVars
<1>2. CASE StartFails
  <2>1. startFailures' \in 0..MaxStartFailures
    BY <1>2, LoopBoundsAssumption DEF StartFails, LoopTypes
  <2>2. /\ loop' \in {"starting", "waiting", "exited"} /\ server' = FALSE /\ lock' = FALSE
        /\ UNCHANGED <<firstStart, listening, closeFailures, task, timer, stopAsked>>
    BY <1>2 DEF StartFails, LoopTypes, restartVars
  <2> QED
    BY <2>1, <2>2 DEF LoopTypes
<1>3. CASE Sigterm
  <2>1. NoTask \in Tasks
    BY DEF NoTask, Tasks
  <2> QED
    BY <1>3, <2>1, ClosingTypes DEF Sigterm, LoopTypes, restartVars, loopVars
<1>4. CASE DrainOver
  BY <1>4, ClosingTypes DEF DrainOver, LoopTypes, restartVars, loopVars
<1>5. CASE CloseEnds \/ CloseThrows
  <2>1. closeFailures' \in 0..MaxCloseFailures
    BY <1>5, LoopBoundsAssumption DEF CloseEnds, CloseThrows, LoopTypes
  <2> QED
    BY <1>5, <2>1 DEF CloseEnds, CloseThrows, CloseSettles, LoopTypes, restartVars, Tasks
<1>6. CASE ForceExit
  BY <1>6 DEF ForceExit, Exit, LoopTypes, restartVars
<1>7. CASE StopExits
  BY <1>7 DEF StopExits, Exit, LoopTypes, restartVars
<1>8. ASSUME NEW mode \in RespawnModes, HandOver(mode) PROVE LoopTypes'
  <2>1. [task EXCEPT !.pc = "relocking"] \in Tasks
    BY DEF LoopTypes, Tasks
  <2> QED
    BY <1>8, <2>1, ResumeTypes DEF HandOver, Exit, LoopTypes, restartVars
<1>9. CASE Reacquired
  BY <1>9, ResumeTypes DEF Reacquired, LoopTypes, restartVars
<1>10. CASE ReacquireFails
  BY <1>10 DEF ReacquireFails, Exit, LoopTypes, restartVars
<1>11. CASE ScheduleRestart
  BY <1>11 DEF ScheduleRestart, LoopTypes, loopVars
<1>12. CASE TimerFires
  BY <1>12, RequestTypes DEF TimerFires, DeferUntilIdle, LoopTypes, loopVars
<1>13. CASE PollerEmits
  BY <1>13, RequestTypes DEF PollerEmits, LoopTypes, loopVars
<1>14. CASE LaneStep
  BY <1>14 DEF LaneStep, LoopTypes, loopVars, restartVars
<1>15. CASE UNCHANGED vars
  BY <1>15 DEF vars, LoopTypes, loopVars, restartVars
<1>16. CASE ReleaseLockIfHeld
  BY <1>16 DEF ReleaseLockIfHeld, LoopTypes, restartVars, Tasks
<1> QED
  BY <1>1, <1>2, <1>3, <1>4, <1>5, <1>6, <1>7, <1>8, <1>9, <1>10, <1>11, <1>12, <1>13,
     <1>14, <1>15, <1>16 DEF Next

LEMMA NextRequests ==
  ASSUME LoopTypes, OneRestartPerRequest, [Next]_vars
  PROVE  OneRestartPerRequest'
<1>1. CASE ScheduleRestart
  BY <1>1, LoopBoundsAssumption DEF ScheduleRestart, OneRestartPerRequest, LoopTypes
<1>2. CASE TimerFires
  BY <1>2 DEF TimerFires, DeferUntilIdle, OneRestartPerRequest, LoopTypes
<1>3. CASE PollerEmits
  BY <1>3 DEF PollerEmits, OneRestartPerRequest, LoopTypes
<1>4. CASE UNCHANGED restartVars
  BY <1>4 DEF restartVars, OneRestartPerRequest
<1> QED
  BY <1>1, <1>2, <1>3, <1>4
     DEF Next, vars, StartSucceeds, StartFails, Sigterm, DrainOver, CloseEnds, CloseThrows,
         CloseSettles, ForceExit, ReleaseLockIfHeld, StopExits, HandOver, Reacquired, ReacquireFails, LaneStep

LEMMA NextProcess == ProcessInv /\ [Next]_vars => ProcessInv'
BY LanesInductive, NextTypes, NextRequests DEF ProcessInv

\* What holds of the process in every reachable state, early restarts or not.
THEOREM ProcessInductive == Spec => []ProcessInv
<1>1. ProcessInv /\ [Next]_vars => ProcessInv'
  BY NextProcess
<1> QED
  BY <1>1, InitProcess, PTL DEF Spec

\* Type correctness of the gateway process: the loop of run-loop.ts, the scheduler
\* of restart.ts and the lanes; no more intervals poll than restarts were asked for.
THEOREM ProcessTypeCorrect == Spec => []TypeOK
<1>1. ProcessInv => TypeOK
  <2>1. L!IInv => Q!TypeOK
    BY DEF L!IInv, L!TypeOK, Q!TypeOK, L!Unsettled, Q!Unsettled, L!Settled, Q!Settled,
           L!WaiterStates, Q!WaiterStates
  <2>2. LoopTypes /\ OneRestartPerRequest => pollers \in 0..MaxRequests
    BY LoopBoundsAssumption DEF LoopTypes, OneRestartPerRequest
  <2> QED
    BY <2>1, <2>2 DEF ProcessInv, LoopTypes, OneRestartPerRequest, TypeOK
<1> QED
  BY <1>1, ProcessInductive, PTL

\* To its callers the process is the lanes of the contract: restarts, drains and
\* resets in place included, calls are served in the order they came, within the
\* capacity, with no place left free (command-queue.ts under run-loop.ts).
THEOREM ProcessKeepsContract == Spec => L!KeepsContract
<1>1. Init => L!Contract!Init
  BY DEF Init, Q!Init, L!Contract!Init, L!CallOf, L!Settled
<1>2. ProcessInv /\ [Next]_vars => [L!Contract!Next]_(L!Contract!contractVars)
  BY LanesInductive DEF ProcessInv
<1> QED
  BY <1>1, <1>2, ProcessInductive, PTL DEF Spec, L!KeepsContract, L!Contract!Spec

\* Inside the process the lanes lose no wake-up and free no slot twice, every pending
\* promise has its queue element, and waitForActiveTasks is exact: what is shown of
\* command-queue.ts alone survives the restarts of run-loop.ts.
THEOREM ProcessKeepsLanes ==
  Spec => [](/\ Q!WorkConserving /\ Q!SlotsAreCurrentTasks
             /\ Q!QueuesBackPromises /\ Q!WaitersExact)
<1>1. L!IInv => /\ Q!WorkConserving /\ Q!SlotsAreCurrentTasks
                /\ Q!QueuesBackPromises /\ Q!WaitersExact
  <2> SUFFICES ASSUME L!IInv
               PROVE  /\ Q!WorkConserving /\ Q!SlotsAreCurrentTasks
                      /\ Q!QueuesBackPromises /\ Q!WaitersExact
    OBVIOUS
  <2>1. Q!WorkConserving
    BY DEF L!IInv, L!LaneInv, L!WorkConserving, Q!WorkConserving, L!Cardinality, Q!Cardinality
  <2>2. Q!SlotsAreCurrentTasks
    BY DEF L!IInv, L!LaneInv, L!SlotsAreCurrentTasks, Q!SlotsAreCurrentTasks
  <2>3. Q!QueuesBackPromises
    BY DEF L!IInv, L!LaneInv, L!QueuesBackPromises, Q!QueuesBackPromises
  <2>4. Q!WaitersExact
    BY DEF L!IInv, L!WaitersExact, Q!WaitersExact
  <2> QED
    BY <2>1, <2>2, <2>3, <2>4
<1> QED
  BY <1>1, ProcessInductive, PTL DEF ProcessInv

-----------------------------------------------------------------------------
(* Restarts, when none is emitted while the server starts. *)

\* A restart has its drain, and the drain its waiter; past the drain the waiter
\* has its answer.
WindowHasItsWaits ==
  /\ task.pc \in {"draining", "relocking"} => task.restart
  /\ task.pc # "draining" => \A w \in task.waits : waiter[w] \in {"drained", "timedOut"}

\* The loop waits for restartResolver while a restart is under way or a server is
\* being closed, and knows every server that listens, but for one whose close threw.
LoopAwaitsRestart ==
  Alive =>
    /\ Restarting => loop = "waiting"
    /\ task.pc = "closing" => server /\ loop = "waiting"
    /\ Restarting /\ task.pc \in {"releasing", "handing", "relocking"} => ~server
    /\ loop = "starting" => ~server
    /\ listening /\ closeFailures = 0 => server

\* Without a start or a close that threw the lock is away only while a child may be
\* spawned, and then it is known to have been held.
LockKept ==
  Alive /\ startFailures = 0 /\ closeFailures = 0 =>
    /\ lock \/ task.pc \in {"handing", "relocking"}
    /\ task.pc = "handing" => task.hadLock

ShutdownInv ==
  WindowHasItsWaits /\ LoopAwaitsRestart /\ LockKept /\ DrainWindowCloses

LEMMA InitShutdown == Init => ShutdownInv
BY DEF Init, Q!Init, ShutdownInv, WindowHasItsWaits, LoopAwaitsRestart, LockKept,
       DrainWindowCloses, Restarting, Alive, NoTask

\* The start of a close: with a server the task closes it, without one it goes on.
LEMMA ClosingStep ==
  ASSUME ProcessInv, [Next]_vars, LoopAwaitsRestart, Alive, NEW t \in Tasks,
         t.restart => loop = "waiting", t.waits \subseteq Waiters,
         \A w \in t.waits : waiter[w] \in {"drained", "timedOut"},
         Closing(t), UNCHANGED loopVars
  PROVE  /\ WindowHasItsWaits' /\ LoopAwaitsRestart'
         /\ task'.restart = t.restart /\ task'.pc \in {"closing", "releasing"}
<1>1. /\ task' = [t EXCEPT !.pc = IF server THEN "closing" ELSE "releasing"]
      /\ UNCHANGED <<loop, server, listening, closeFailures>>
  BY DEF Closing, loopVars
<1>2. /\ task'.restart = t.restart /\ task'.waits = t.waits
      /\ task'.pc = IF server THEN "closing" ELSE "releasing"
  BY <1>1 DEF Tasks
<1>3. WindowHasItsWaits'
  BY <1>2, AnswersStay DEF WindowHasItsWaits, ProcessInv
<1>4. server => loop = "waiting"
  BY DEF LoopAwaitsRestart, Alive, ProcessInv, LoopTypes
<1>5. LoopAwaitsRestart'
  BY <1>1, <1>2, <1>4 DEF LoopAwaitsRestart, Alive, Restarting
<1> QED
  BY <1>2, <1>3, <1>5

\* The end of a restart reaches the loop, which resets the lanes with no server up.
LEMMA ResumeStep ==
  ASSUME ProcessInv, ShutdownInv, Alive, task.restart, Resume,
         \/ task.pc = "relocking" /\ lock' = TRUE
         \/ task.pc = "handing" /\ ~task.hadLock
  PROVE  ShutdownInv' /\ ResetBetweenServers
<1>1. loop = "waiting" /\ ~server
  BY DEF Restarting, ShutdownInv, LoopAwaitsRestart
<1>2. /\ task' = NoTask /\ loop' = "starting" /\ Q!ResetAllLanes
      /\ UNCHANGED <<server, listening, startFailures, closeFailures>>
  BY <1>1 DEF Resume
<1>3. gatewayDraining' = FALSE
  BY <1>2 DEF Q!ResetAllLanes
<1>4. listening => closeFailures # 0
  BY <1>1 DEF ShutdownInv, LoopAwaitsRestart
<1>5. WindowHasItsWaits'
  BY <1>2 DEF WindowHasItsWaits, NoTask
<1>6. LoopAwaitsRestart'
  BY <1>1, <1>2, <1>4 DEF LoopAwaitsRestart, Restarting, NoTask
<1>7. LockKept'
  BY <1>2 DEF ShutdownInv, LockKept, Alive, NoTask
<1>8. DrainWindowCloses'
  BY <1>3 DEF DrainWindowCloses
<1>9. ResetBetweenServers
  BY <1>1, <1>4 DEF ResetBetweenServers, ShutdownInv, WindowHasItsWaits, ProcessInv, LoopTypes
<1> QED
  BY <1>5, <1>6, <1>7, <1>8, <1>9 DEF ShutdownInv

\* request("restart"), emitted while the loop waits.
LEMMA RequestStep ==
  ASSUME ProcessInv, ShutdownInv, [Next]_vars, Alive, loop = "waiting", RequestRestart,
         UNCHANGED loopVars
  PROVE  ShutdownInv'
<1> DEFINE t == [NoTask EXCEPT !.restart = TRUE]
<1>1. UNCHANGED <<loop, server, listening, lock, startFailures, closeFailures>>
  BY DEF loopVars
<1>2. CASE task.pc # "none"
  <2>1. UNCHANGED <<task, gatewayDraining>>
    BY <1>2 DEF RequestRestart, laneVars
  <2>2. WindowHasItsWaits'
    BY <2>1, AnswersStay DEF WindowHasItsWaits, ProcessInv, ShutdownInv, LoopTypes, Tasks
  <2> QED
    BY <1>1, <2>1, <2>2 DEF ShutdownInv, LoopAwaitsRestart, LockKept, DrainWindowCloses,
                            Restarting, Alive
<1>3. CASE task.pc = "none"
  <2>1. LockKept
    BY DEF ShutdownInv
  <2>2. t \in Tasks /\ t.restart = TRUE /\ t.waits = {}
    BY DEF NoTask, Tasks
  <2>3. CASE Closing(t)
    <3> HIDE DEF t
    <3>1. /\ WindowHasItsWaits' /\ LoopAwaitsRestart'
          /\ task'.restart = TRUE /\ task'.pc \in {"closing", "releasing"}
      BY <2>2, <2>3, ClosingStep DEF ShutdownInv
    <3>2. LockKept' /\ DrainWindowCloses'
      BY <1>1, <1>3, <2>1, <3>1 DEF LockKept, DrainWindowCloses, Restarting, Alive
    <3> QED
      BY <3>1, <3>2 DEF ShutdownInv
  <2>4. CASE \E w \in Waiters : task' = [t EXCEPT !.pc = "draining", !.waits = {w}]
    <3>1. task'.pc = "draining" /\ task'.restart = TRUE
      BY <2>2, <2>4 DEF Tasks
    <3>2. WindowHasItsWaits' /\ LockKept' /\ DrainWindowCloses'
      BY <1>1, <1>3, <2>1, <3>1 DEF WindowHasItsWaits, LockKept, DrainWindowCloses,
                                    Restarting, Alive
    <3>3. LoopAwaitsRestart'
      BY <1>1, <3>1 DEF ShutdownInv, LoopAwaitsRestart, Restarting, Alive
    <3> QED
      BY <3>2, <3>3 DEF ShutdownInv
  <2> QED
    BY <1>3, <2>3, <2>4 DEF RequestRestart
<1> QED
  BY <1>2, <1>3

\* A step that leaves the task and the lanes' flag alone and ends the process, or
\* leaves the loop alone.
LEMMA OtherStep ==
  ASSUME ProcessInv, ShutdownInv, [Next]_vars, UNCHANGED task,
         loop' = "exited" \/ UNCHANGED <<gatewayDraining, loop, server, listening, lock, startFailures, closeFailures>>
  PROVE  ShutdownInv'
<1>1. WindowHasItsWaits'
  BY AnswersStay DEF WindowHasItsWaits, ProcessInv, ShutdownInv, LoopTypes, Tasks
<1>2. LoopAwaitsRestart' /\ LockKept' /\ DrainWindowCloses'
  BY DEF ShutdownInv, LoopAwaitsRestart, LockKept, DrainWindowCloses, Restarting, Alive
<1> QED
  BY <1>1, <1>2 DEF ShutdownInv

LEMMA StartStep ==
  ASSUME ProcessInv, ShutdownInv, [Next]_vars, StartSucceeds \/ StartFails
  PROVE  ShutdownInv'
<1>1. /\ loop = "starting" /\ UNCHANGED <<task, gatewayDraining>>
      /\ ~server /\ (listening => closeFailures # 0) /\ ~Restarting
      /\ closeFailures' = closeFailures
  BY DEF StartSucceeds, StartFails, laneVars, ShutdownInv, LoopAwaitsRestart, Alive
<1>2. WindowHasItsWaits'
  BY <1>1, AnswersStay DEF WindowHasItsWaits, ProcessInv, ShutdownInv, LoopTypes, Tasks
<1>3. DrainWindowCloses'
  BY <1>1 DEF ShutdownInv, DrainWindowCloses, Restarting, Alive
<1>4. task.pc # "closing"
  BY <1>1 DEF ShutdownInv, LoopAwaitsRestart, Alive
<1>5. CASE StartSucceeds
  <2>1. loop' = "waiting" /\ server' = TRUE /\ UNCHANGED <<lock, startFailures>>
    BY <1>5 DEF StartSucceeds
  <2>2. LoopAwaitsRestart'
    BY <1>1, <2>1 DEF LoopAwaitsRestart, Restarting
  <2>3. LockKept'
    BY <1>1, <2>1 DEF ShutdownInv, LockKept, Alive
  <2> QED
    BY <1>2, <1>3, <2>2, <2>3 DEF ShutdownInv
<1>6. CASE StartFails
  <2>1. /\ loop' \in {"waiting", "exited"} /\ server' = FALSE /\ UNCHANGED listening
        /\ listening \/ startFailures' = startFailures + 1
    BY <1>6 DEF StartFails
  <2>2. LoopAwaitsRestart'
    BY <1>1, <1>4, <2>1 DEF LoopAwaitsRestart, Restarting, Alive
  <2>3. LockKept'
    BY <1>1, <2>1 DEF LockKept, ProcessInv, LoopTypes
  <2> QED
    BY <1>2, <1>3, <2>2, <2>3 DEF ShutdownInv
<1> QED
  BY <1>5, <1>6

LEMMA TaskStep ==
  ASSUME ProcessInv, ShutdownInv, [Next]_vars, Sigterm \/ DrainOver \/ CloseEnds \/ CloseThrows
  PROVE  ShutdownInv'
<1>1. CASE Sigterm
  <2>1. CASE task.pc # "none"
    BY <1>1, <2>1, OtherStep DEF Sigterm, loopVars, laneVars
  <2>2. CASE task.pc = "none"
    <3>1. /\ NoTask \in Tasks /\ NoTask.restart = FALSE /\ NoTask.waits = {}
          /\ Alive /\ Closing(NoTask) /\ UNCHANGED loopVars /\ UNCHANGED gatewayDraining
      BY <1>1, <2>2 DEF Sigterm, NoTask, Tasks, laneVars
    <3>2. WindowHasItsWaits' /\ LoopAwaitsRestart' /\ task'.pc \in {"closing", "releasing"}
      BY <3>1, ClosingStep DEF ShutdownInv
    <3>3. LockKept' /\ DrainWindowCloses'
      BY <2>2, <3>1, <3>2 DEF ShutdownInv, LockKept, DrainWindowCloses, Restarting, Alive,
                              loopVars
    <3> QED
      BY <3>2, <3>3 DEF ShutdownInv
  <2> QED
    BY <2>1, <2>2
<1>2. CASE DrainOver
  <2>1. /\ Alive /\ task.pc = "draining" /\ Closing(task)
        /\ UNCHANGED loopVars /\ UNCHANGED gatewayDraining
        /\ \A w \in task.waits : waiter[w] \in {"drained", "timedOut"}
    BY <1>2 DEF DrainOver, laneVars
  <2>2. /\ task \in Tasks /\ task.waits \subseteq Waiters
        /\ task.restart /\ loop = "waiting"
    BY <2>1 DEF ProcessInv, LoopTypes, Tasks, ShutdownInv, WindowHasItsWaits,
                LoopAwaitsRestart, Restarting
  <2>3. /\ WindowHasItsWaits' /\ LoopAwaitsRestart'
        /\ task'.restart /\ task'.pc \in {"closing", "releasing"}
    BY <2>1, <2>2, ClosingStep DEF ShutdownInv
  <2>4. LockKept' /\ DrainWindowCloses'
    BY <2>1, <2>3 DEF ShutdownInv, LockKept, DrainWindowCloses, Restarting, Alive, loopVars
  <2> QED
    BY <2>3, <2>4 DEF ShutdownInv
<1>3. CASE CloseEnds \/ CloseThrows
  <2>1. /\ Alive /\ task.pc = "closing" /\ server' = FALSE
        /\ UNCHANGED <<gatewayDraining, loop, lock, startFailures>>
        /\ task' = [task EXCEPT !.pc = "releasing"]
    BY <1>3 DEF CloseEnds, CloseThrows, CloseSettles, laneVars
  <2>2. /\ listening' => closeFailures' # 0
        /\ closeFailures # 0 => closeFailures' # 0
    BY <1>3 DEF CloseEnds, CloseThrows, ProcessInv, LoopTypes
  <2>3. task'.pc = "releasing" /\ task'.restart = task.restart /\ task'.waits = task.waits
    BY <2>1 DEF ProcessInv, LoopTypes, Tasks
  <2>4. WindowHasItsWaits'
    <3>1. task.waits \subseteq Waiters
      BY DEF ProcessInv, LoopTypes, Tasks
    <3> QED
      BY <2>1, <2>3, <3>1, AnswersStay DEF WindowHasItsWaits, ProcessInv, ShutdownInv
  <2>5. LoopAwaitsRestart'
    BY <2>1, <2>2, <2>3 DEF ShutdownInv, LoopAwaitsRestart, Restarting, Alive
  <2>6. LockKept' /\ DrainWindowCloses'
    BY <2>1, <2>2, <2>3 DEF ShutdownInv, LockKept, DrainWindowCloses, Restarting, Alive
  <2> QED
    BY <2>4, <2>5, <2>6 DEF ShutdownInv
<1> QED
  BY <1>1, <1>2, <1>3

LEMMA ReleaseStep ==
  ASSUME ProcessInv, ShutdownInv, [Next]_vars, ReleaseLockIfHeld
  PROVE  ShutdownInv'
<1>1. /\ Alive /\ task.pc = "releasing"
      /\ UNCHANGED <<gatewayDraining, loop, server, listening, startFailures, closeFailures>>
      /\ task' = [task EXCEPT !.pc = "handing", !.hadLock = lock]
  BY DEF ReleaseLockIfHeld, laneVars
<1>2. /\ task'.pc = "handing" /\ task'.hadLock = lock
      /\ task'.restart = task.restart /\ task'.waits = task.waits
  BY <1>1 DEF ProcessInv, LoopTypes, Tasks
<1>3. WindowHasItsWaits'
  <2>1. task.waits \subseteq Waiters
    BY DEF ProcessInv, LoopTypes, Tasks
  <2> QED
    BY <1>1, <1>2, <2>1, AnswersStay DEF WindowHasItsWaits, ProcessInv, ShutdownInv
<1>4. LoopAwaitsRestart'
  BY <1>1, <1>2 DEF ShutdownInv, LoopAwaitsRestart, Restarting, Alive
<1>5. LockKept' /\ DrainWindowCloses'
  BY <1>1, <1>2 DEF ShutdownInv, LockKept, DrainWindowCloses, Restarting, Alive
<1> QED
  BY <1>3, <1>4, <1>5 DEF ShutdownInv

LEMMA HandOverStep ==
  ASSUME ProcessInv, ShutdownInv, [Next]_vars, NEW mode \in RespawnModes, HandOver(mode)
  PROVE  ShutdownInv' /\ ResetBetweenServers
<1>1. /\ Alive /\ task.pc = "handing" /\ task.restart
      /\ loop = "waiting" /\ ~server /\ Restarting
  BY DEF HandOver, ShutdownInv, LoopAwaitsRestart, Restarting
<1>2. CASE mode \in {"spawned", "supervised"}
  <2>1. loop' = "exited" /\ UNCHANGED <<task, generation>>
    BY <1>2 DEF HandOver, Exit, laneVars
  <2> QED
    BY <2>1, OtherStep DEF ResetBetweenServers
<1>3. CASE mode \notin {"spawned", "supervised"} /\ task.hadLock
  <2>1. /\ task' = [task EXCEPT !.pc = "relocking"]
        /\ UNCHANGED <<gatewayDraining, generation, loop, server, listening, startFailures, closeFailures>>
    BY <1>3 DEF HandOver, laneVars
  <2>2. task'.pc = "relocking" /\ task'.restart /\ task'.waits = task.waits
    BY <1>1, <2>1 DEF ProcessInv, LoopTypes, Tasks
  <2>3. WindowHasItsWaits'
    <3>1. task.waits \subseteq Waiters
      BY DEF ProcessInv, LoopTypes, Tasks
    <3> QED
      BY <1>1, <2>2, <3>1, AnswersStay DEF WindowHasItsWaits, ProcessInv, ShutdownInv
  <2>4. LoopAwaitsRestart'
    BY <1>1, <2>1, <2>2 DEF ShutdownInv, LoopAwaitsRestart, Restarting, Alive
  <2>5. LockKept' /\ DrainWindowCloses'
    BY <1>1, <2>1, <2>2 DEF ShutdownInv, LockKept, DrainWindowCloses, Restarting, Alive
  <2> QED
    BY <2>1, <2>3, <2>4, <2>5 DEF ShutdownInv, ResetBetweenServers
<1>4. CASE mode \notin {"spawned", "supervised"} /\ ~task.hadLock
  BY <1>1, <1>4, ResumeStep DEF HandOver
<1> QED
  BY <1>2, <1>3, <1>4

\* The lanes' own operations neither open nor close the drain window, nor reset.
LEMMA LaneStepKeepsFlag == LaneStep => UNCHANGED <<gatewayDraining, generation>>
BY DEF LaneStep, Q!EnqueueCommandInLane, Q!TaskSettles, Q!SetCommandLaneConcurrency,
       Q!ClearCommandLane, Q!WaiterTimesOut, Q!laneVars

LEMMA NextShutdown ==
  ASSUME EarlyRestarts = FALSE, ProcessInv, ShutdownInv, [Next]_vars
  PROVE  ShutdownInv' /\ ResetBetweenServers
<1>1. CASE StartSucceeds \/ StartFails
  <2>1. generation' = generation
    BY <1>1 DEF StartSucceeds, StartFails, laneVars
  <2> QED
    BY <1>1, <2>1, StartStep DEF ResetBetweenServers
<1>2. CASE Sigterm \/ DrainOver \/ CloseEnds \/ CloseThrows
  <2>1. generation' = generation
    BY <1>2 DEF Sigterm, DrainOver, CloseEnds, CloseThrows, CloseSettles, laneVars
  <2> QED
    BY <1>2, <2>1, TaskStep DEF ResetBetweenServers
<1>3. CASE ForceExit \/ StopExits \/ ReacquireFails
  <2>1. loop' = "exited" /\ UNCHANGED <<task, generation>>
    BY <1>3 DEF ForceExit, StopExits, ReacquireFails, Exit, laneVars
  <2> QED
    BY <2>1, OtherStep DEF ResetBetweenServers
<1>4. ASSUME NEW mode \in RespawnModes, HandOver(mode)
      PROVE  ShutdownInv' /\ ResetBetweenServers
  BY <1>4, HandOverStep
<1>5. CASE Reacquired
  <2>1. task.restart /\ task.pc = "relocking" /\ Alive /\ lock' = TRUE /\ Resume
    BY <1>5 DEF Reacquired, ShutdownInv, WindowHasItsWaits
  <2> QED
    BY <2>1, ResumeStep
<1>6. CASE TimerFires \/ PollerEmits
  <2>1. /\ Alive /\ UNCHANGED loopVars
        /\ \/ loop = "waiting" /\ RequestRestart
           \/ UNCHANGED <<laneVars, task>>
    BY <1>6 DEF TimerFires, PollerEmits, DeferUntilIdle, MayEmit
  <2>2. generation' = generation
    BY <2>1 DEF RequestRestart, laneVars
  <2>3. CASE loop = "waiting" /\ RequestRestart
    BY <2>1, <2>2, <2>3, RequestStep DEF ResetBetweenServers
  <2>4. CASE UNCHANGED <<laneVars, task>>
    BY <2>1, <2>2, <2>4, OtherStep DEF ResetBetweenServers, laneVars, loopVars
  <2> QED
    BY <2>1, <2>3, <2>4
<1>7. CASE ScheduleRestart \/ LaneStep \/ UNCHANGED vars
  <2>1. UNCHANGED <<gatewayDraining, generation, task>> /\ UNCHANGED loopVars
    BY <1>7, LaneStepKeepsFlag DEF ScheduleRestart, LaneStep, vars, laneVars
  <2> QED
    BY <2>1, OtherStep DEF ResetBetweenServers, loopVars
<1>8. CASE ReleaseLockIfHeld
  <2>1. generation' = generation
    BY <1>8 DEF ReleaseLockIfHeld, laneVars
  <2> QED
    BY <1>8, <2>1, ReleaseStep DEF ResetBetweenServers
<1> QED
  BY <1>1, <1>2, <1>3, <1>4, <1>5, <1>6, <1>7, <1>8 DEF Next

\* Restarts that are emitted while the loop waits are carried through.
THEOREM ShutdownInductive ==
  ASSUME EarlyRestarts = FALSE
  PROVE  Spec => [](ProcessInv /\ ShutdownInv)
<1>1. ProcessInv /\ ShutdownInv /\ [Next]_vars => (ProcessInv /\ ShutdownInv)'
  BY NextProcess, NextShutdown
<1> QED
  BY <1>1, InitProcess, InitShutdown, PTL DEF Spec

\* The drain window closes (markGatewayDraining in request, resetAllLanes after the
\* loop goes round): no gateway that serves again refuses enqueues.
THEOREM WindowsClose ==
  ASSUME EarlyRestarts = FALSE
  PROVE  Spec => []DrainWindowCloses
<1>1. ShutdownInv => DrainWindowCloses
  BY DEF ShutdownInv
<1> QED
  BY <1>1, ShutdownInductive, PTL

\* run-loop.ts never forgets a server that listens, unless its close threw, and holds
\* the gateway lock while one does, unless a start threw or the process is stopping.
THEOREM ServersAreOwned ==
  ASSUME EarlyRestarts = FALSE
  PROVE  Spec => []ServerIsOwned
<1>1. ProcessInv /\ ShutdownInv => ServerIsOwned
  <2> SUFFICES ASSUME ProcessInv, ShutdownInv, listening, Alive, closeFailures = 0
               PROVE  server /\ (lock \/ startFailures > 0 \/ Stopping)
    BY DEF ServerIsOwned
  <2>1. server
    BY DEF ShutdownInv, LoopAwaitsRestart
  <2>2. task.pc \in {"handing", "relocking"} => Stopping
    BY <2>1 DEF ShutdownInv, LoopAwaitsRestart, WindowHasItsWaits, Restarting, Stopping
  <2>3. startFailures # 0 => startFailures > 0
    BY DEF ProcessInv, LoopTypes
  <2> QED
    BY <2>1, <2>2, <2>3 DEF ShutdownInv, LockKept
<1> QED
  BY <1>1, ShutdownInductive, PTL

\* resetAllLanes runs only between two servers, or with one whose close threw, and never under a drain whose
\* waitForActiveTasks is still pending.
THEOREM ResetsAreBetweenServers ==
  ASSUME EarlyRestarts = FALSE
  PROVE  Spec => LanesResetBetweenServers
<1>1. ProcessInv /\ ShutdownInv /\ [Next]_vars => [ResetBetweenServers]_vars
  BY NextShutdown
<1> QED
  BY <1>1, ShutdownInductive, PTL DEF Spec, LanesResetBetweenServers
=============================================================================
