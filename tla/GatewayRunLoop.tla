--------------------------- MODULE GatewayRunLoop ---------------------------
(***************************************************************************)
(* The life of one gateway process: runGatewayLoop (cli/gateway-cli/       *)
(* run-loop.ts) with the restart scheduler of infra/restart.ts, composed   *)
(* with the command lanes.                                                 *)
(*                                                                         *)
(* Two coroutines share the process: the loop, which starts the server and *)
(* waits for restartResolver, and the shutdown task that a signal starts.  *)
(* They meet in the variables server, lock and shuttingDown of             *)
(* run-loop.ts; an action runs from one await to the next.                 *)
(*                                                                         *)
(* emitGatewayRestart emits SIGUSR1 synchronously, so the handler has      *)
(* consumed the authorization and marked the cycle handled before any      *)
(* other code runs: the tokens of restart.ts are equal between steps and   *)
(* are not variables.  Waiting for embedded runs only postpones the close, *)
(* which may be late anyhow.  A process that exited takes no more steps.   *)
(***************************************************************************)
EXTENDS Integers, Sequences, FiniteSets

CONSTANTS
  Lanes, Entries, LaneOf, Caps, Waiters, MaxResets,    \* of CommandLanes
  RespawnModes,     \* outcomes of restartGatewayProcessWithFreshPid
  EarlyRestarts,    \* may a restart be emitted while the server starts?
  MaxRequests,      \* bound on the restarts asked for
  MaxStartFailures, \* bound on the starts that throw for no reason of the model
  MaxCloseFailures  \* bound on the closes that throw before the port is free

VARIABLES
  gatewayDraining, queue, active, maxConcurrent, generation, status,
  taskGeneration, waiter, awaited,                     \* of CommandLanes
  loop,             \* where the for loop stands
  firstStart,       \* isFirstStart
  server,           \* the variable server is not null
  listening,        \* a started server holds the port
  lock,             \* the gateway lock is held
  task,             \* the shutdown task
  timer,            \* pendingRestartTimer is set
  pollers,          \* deferGatewayRestartUntilIdle intervals that poll
  requests,         \* calls of scheduleGatewaySigusr1Restart so far
  startFailures, closeFailures,
  stopAsked         \* history: SIGTERM or SIGINT arrived

Q == INSTANCE CommandLanes

laneVars == <<gatewayDraining, queue, active, maxConcurrent, generation, status,
              taskGeneration, waiter, awaited>>
loopVars == <<loop, firstStart, server, listening, lock, startFailures, closeFailures>>
restartVars == <<timer, pollers, requests>>
vars == <<laneVars, loopVars, task, restartVars, stopAsked>>

ASSUME RespawnAssumption == RespawnModes \subseteq {"spawned", "supervised", "disabled", "failed"}
ASSUME LoopLanesAssumption ==
  /\ IsFiniteSet(Entries) /\ LaneOf \in [Entries -> Lanes]
  /\ Caps \subseteq Int /\ MaxResets \in Nat
ASSUME LoopBoundsAssumption ==
  /\ EarlyRestarts \in BOOLEAN /\ MaxRequests \in Nat
  /\ MaxStartFailures \in Nat /\ MaxCloseFailures \in Nat

\* shuttingDown is true exactly while there is a task.
NoTask == [pc |-> "none", restart |-> FALSE, hadLock |-> FALSE, waits |-> {}]
Tasks == [pc      : {"none", "draining", "closing", "releasing", "handing", "relocking"},
          restart : BOOLEAN,
          hadLock : BOOLEAN,            \* releaseLockIfHeld released one
          waits   : SUBSET Waiters]     \* its call of waitForActiveTasks, if any

TypeOK ==
  /\ Q!TypeOK
  /\ loop \in {"starting", "waiting", "exited"}
  /\ firstStart \in BOOLEAN /\ server \in BOOLEAN /\ listening \in BOOLEAN
  /\ lock \in BOOLEAN /\ timer \in BOOLEAN /\ stopAsked \in BOOLEAN
  /\ task \in Tasks
  /\ pollers \in 0..MaxRequests /\ requests \in 0..MaxRequests
  /\ startFailures \in 0..MaxStartFailures /\ closeFailures \in 0..MaxCloseFailures

Init ==
  /\ Q!Init
  /\ loop = "starting" /\ firstStart = TRUE
  /\ server = FALSE /\ listening = FALSE
  /\ lock = TRUE
  /\ task = NoTask
  /\ timer = FALSE /\ pollers = 0 /\ requests = 0
  /\ startFailures = 0 /\ closeFailures = 0
  /\ stopAsked = FALSE

Alive == loop # "exited"
Exit == loop' = "exited" /\ UNCHANGED <<firstStart, server, listening, startFailures, closeFailures>>

-----------------------------------------------------------------------------
(* The loop. *)

\* params.start resolves; the port was free.
StartSucceeds ==
  /\ loop = "starting" /\ ~listening
  /\ loop' = "waiting" /\ firstStart' = FALSE
  /\ server' = TRUE /\ listening' = TRUE
  /\ UNCHANGED <<laneVars, lock, startFailures, closeFailures, task, restartVars, stopAsked>>

\* It throws, because the port is taken or otherwise.  A first start ends the
\* process; a later one gives up the lock and keeps the process alive.
StartFails ==
  /\ loop = "starting"
  /\ IF listening THEN UNCHANGED startFailures
     ELSE startFailures < MaxStartFailures /\ startFailures' = startFailures + 1
  /\ loop' = IF firstStart THEN "exited" ELSE "waiting"
  /\ server' = FALSE
  /\ lock' = FALSE
  /\ UNCHANGED <<laneVars, firstStart, listening, closeFailures, task, restartVars, stopAsked>>

\* Mutant of Resume: the next iteration does not reset the lanes.
ResumeWithoutReset ==
  /\ task' = NoTask
  /\ loop' = IF loop = "waiting" THEN "starting" ELSE loop
  /\ UNCHANGED <<laneVars, firstStart, server, listening, startFailures, closeFailures>>

\* Mutant of Resume: restartResolver is not called.
ResumeNobody ==
  /\ task' = NoTask
  /\ UNCHANGED <<laneVars, loop, firstStart, server, listening, startFailures, closeFailures>>

\* shuttingDown = false; restartResolver?.(): the loop goes round if it waits,
\* and resets the lanes; otherwise the call reaches nobody.
Resume ==
  /\ task' = NoTask
  /\ UNCHANGED <<firstStart, server, listening, startFailures, closeFailures>>
  /\ IF loop = "waiting"
     THEN loop' = "starting" /\ Q!ResetAllLanes
     ELSE UNCHANGED <<loop, laneVars>>

-----------------------------------------------------------------------------
(* Signals and the shutdown task. *)

\* The end of request: server?.close(...), nothing when there is no server.
Closing(t) == task' = [t EXCEPT !.pc = IF server THEN "closing" ELSE "releasing"]

\* request("restart"): refuse enqueues, wait for the tasks active now.
RequestRestart ==
  IF task.pc # "none"
  THEN UNCHANGED <<laneVars, task>>
  ELSE LET running == UNION {active[l] : l \in Lanes}
           t == [NoTask EXCEPT !.restart = TRUE]
       IN  /\ gatewayDraining' = TRUE
           /\ UNCHANGED <<queue, active, maxConcurrent, generation, status, taskGeneration>>
           /\ IF running = {}
              THEN Closing(t) /\ UNCHANGED <<waiter, awaited>>
              ELSE \E w \in Waiters :
                     /\ waiter[w] = "none"
                     /\ waiter' = [waiter EXCEPT ![w] = "waiting"]
                     /\ awaited' = [awaited EXCEPT ![w] = running]
                     /\ task' = [t EXCEPT !.pc = "draining", !.waits = {w}]

\* SIGTERM or SIGINT: request("stop"), ignored while a task shuts down.
Sigterm ==
  /\ Alive /\ ~stopAsked
  /\ stopAsked' = TRUE
  /\ IF task.pc # "none" THEN UNCHANGED task ELSE Closing(NoTask)
  /\ UNCHANGED <<laneVars, loopVars, restartVars>>

\* Mutant of DrainOver: the promise of waitForActiveTasks is not awaited.
DrainNotAwaited ==
  /\ Alive /\ task.pc = "draining"
  /\ Closing(task)
  /\ UNCHANGED <<laneVars, loopVars, restartVars, stopAsked>>

\* The drain is over, or its 90 seconds are; the runs are then aborted, which
\* may or may not end their tasks.
DrainOver ==
  /\ Alive /\ task.pc = "draining"
  /\ \A w \in task.waits : waiter[w] \in {"drained", "timedOut"}
  /\ Closing(task)
  /\ UNCHANGED <<laneVars, loopVars, restartVars, stopAsked>>

\* server.close settles: its catch and finally clear the force-exit timer and forget
\* the server, whatever has become of it.
CloseSettles ==
  /\ Alive /\ task.pc = "closing"
  /\ server' = FALSE
  /\ task' = [task EXCEPT !.pc = "releasing"]
  /\ UNCHANGED <<laneVars, loop, firstStart, lock, startFailures, restartVars, stopAsked>>

CloseEnds == CloseSettles /\ listening' = FALSE /\ UNCHANGED closeFailures

\* Tailscale's cleanup or a channel that does not stop throws before the http server
\* is closed.  (After that a throw makes no difference.)
CloseThrows ==
  /\ CloseSettles /\ UNCHANGED listening
  /\ closeFailures < MaxCloseFailures /\ closeFailures' = closeFailures + 1

\* The force-exit timer fires first.
ForceExit ==
  /\ Alive /\ task.pc = "closing"
  /\ Exit
  /\ UNCHANGED <<laneVars, lock, task, restartVars, stopAsked>>

\* releaseLockIfHeld, which both handlers await; a start may end before they go on.
ReleaseLockIfHeld ==
  /\ Alive /\ task.pc = "releasing"
  /\ lock' = FALSE
  /\ task' = [task EXCEPT !.pc = "handing", !.hadLock = lock]
  /\ UNCHANGED <<laneVars, loop, firstStart, server, listening, startFailures, closeFailures,
                 restartVars, stopAsked>>

\* The rest of handleStopAfterServerClose.
StopExits ==
  /\ Alive /\ task.pc = "handing" /\ ~task.restart
  /\ Exit
  /\ UNCHANGED <<laneVars, lock, task, restartVars, stopAsked>>

\* Mutant of HandOver: the process that stays does not take the lock again.
HandOverUnlocked(mode) ==
  /\ Alive /\ task.pc = "handing" /\ task.restart
  /\ Resume
  /\ UNCHANGED <<lock, restartVars, stopAsked>>

\* handleRestartAfterServerClose, once the lock is released: a child is spawned, or
\* the process stays and takes the lock again, if it was held.
HandOver(mode) ==
  /\ Alive /\ task.pc = "handing" /\ task.restart
  /\ IF mode \in {"spawned", "supervised"}
     THEN Exit /\ UNCHANGED <<laneVars, task>>
     ELSE IF task.hadLock
     THEN task' = [task EXCEPT !.pc = "relocking"]
          /\ UNCHANGED <<laneVars, loop, firstStart, server, listening, startFailures, closeFailures>>
     ELSE Resume
  /\ UNCHANGED <<lock, restartVars, stopAsked>>

\* reacquireLockForInProcessRestart, which exits when it cannot have the lock.
Reacquired ==
  /\ Alive /\ task.pc = "relocking"
  /\ lock' = TRUE
  /\ Resume
  /\ UNCHANGED <<restartVars, stopAsked>>

ReacquireFails ==
  /\ Alive /\ task.pc = "relocking"
  /\ Exit
  /\ UNCHANGED <<laneVars, lock, task, restartVars, stopAsked>>

-----------------------------------------------------------------------------
(* The restart scheduler. *)

\* scheduleGatewaySigusr1Restart, called by the config methods, the gateway tool,
\* /restart or an external SIGUSR1: a second request joins a pending timer.
ScheduleRestart ==
  /\ Alive /\ requests < MaxRequests
  /\ requests' = requests + 1
  /\ timer' = TRUE
  /\ UNCHANGED <<laneVars, loopVars, task, pollers, stopAsked>>

MayEmit == EarlyRestarts \/ loop = "waiting"

\* Lane work the pre-restart check counts.  It counts pending replies and
\* embedded runs too, so a deferral may come without any lane work.
Pending == \E l \in Lanes : active[l] # {} \/ queue[l] # << >>

\* deferGatewayRestartUntilIdle: poll until idle, or emit at once.
DeferUntilIdle ==
  \/ pollers' = pollers + 1 /\ UNCHANGED <<laneVars, task>>
  \/ ~Pending /\ MayEmit /\ RequestRestart /\ UNCHANGED pollers

\* Mutant of TimerFires: an interval, which fires again.
IntervalFires ==
  /\ Alive /\ timer
  /\ DeferUntilIdle
  /\ UNCHANGED <<loopVars, timer, requests, stopAsked>>

\* The timer that scheduleGatewaySigusr1Restart set fires.
TimerFires ==
  /\ Alive /\ timer
  /\ timer' = FALSE
  /\ DeferUntilIdle
  /\ UNCHANGED <<loopVars, requests, stopAsked>>

\* An interval finds nothing pending, or has polled for long enough, and emits;
\* emitGatewayRestart also clears a pending timer.
PollerEmits ==
  /\ Alive /\ pollers > 0
  /\ MayEmit
  /\ pollers' = pollers - 1
  /\ timer' = FALSE
  /\ RequestRestart
  /\ UNCHANGED <<loopVars, requests, stopAsked>>

-----------------------------------------------------------------------------
\* What the rest of the gateway does with the lanes meanwhile.
LaneStep ==
  /\ Alive
  /\ \/ \E e \in Entries : Q!EnqueueCommandInLane(e)
     \/ \E e \in Entries, outcome \in {"resolved", "rejected"} : Q!TaskSettles(e, outcome)
     \/ \E l \in Lanes, n \in Caps : Q!SetCommandLaneConcurrency(l, n)
     \/ \E l \in Lanes : Q!ClearCommandLane(l)
     \/ \E w \in Waiters : Q!WaiterTimesOut(w)
  /\ UNCHANGED <<loopVars, task, restartVars, stopAsked>>

Next ==
  \/ StartSucceeds \/ StartFails
  \/ Sigterm \/ DrainOver \/ CloseEnds \/ CloseThrows \/ ForceExit
  \/ ReleaseLockIfHeld \/ StopExits
  \/ \E mode \in RespawnModes : HandOver(mode)
  \/ Reacquired \/ ReacquireFails
  \/ ScheduleRestart \/ TimerFires \/ PollerEmits
  \/ LaneStep

Spec == Init /\ [][Next]_vars

\* Starts, closes and lock operations end; timers fire.
Fairness ==
  /\ WF_vars(StartSucceeds \/ StartFails)
  /\ WF_vars(DrainOver) /\ WF_vars(CloseEnds \/ CloseThrows \/ ForceExit)
  /\ WF_vars(ReleaseLockIfHeld)
  /\ WF_vars(StopExits \/ \E mode \in RespawnModes : HandOver(mode))
  /\ WF_vars(Reacquired \/ ReacquireFails)
  /\ \A w \in Waiters : WF_vars(Alive /\ Q!WaiterTimesOut(w)
                                /\ UNCHANGED <<loopVars, task, restartVars, stopAsked>>)

FairSpec == Spec /\ Fairness

-----------------------------------------------------------------------------
(* Correctness. *)

Restarting == task.restart /\ task.pc # "none"

\* The drain window closes: enqueues are refused only while a restart is under
\* way, not by a gateway that serves again.
DrainWindowCloses == gatewayDraining /\ Alive => Restarting

\* A server that listens can be closed, for the loop knows it until the shutdown
\* task has closed it, and its process holds the gateway lock.  There are three ways
\* out of it: a close that threw leaves a server nobody knows, a start that threw gave
\* the lock up and no later restart takes it again, and a start may end while a stop
\* has released the lock and not yet exited.
Stopping == task.pc = "handing" /\ ~task.restart

ServerIsOwned ==
  listening /\ Alive /\ closeFailures = 0 => server /\ (lock \/ startFailures > 0 \/ Stopping)

\* Lanes are reset only between two servers, when the tasks of the drain's
\* snapshot have ended or its time is over: no server is known to the loop, and
\* none listens unless its close threw.
ResetBetweenServers ==
  generation' # generation =>
    /\ ~server /\ (listening => closeFailures > 0)
    /\ \A w \in task.waits : waiter[w] \in {"drained", "timedOut"}

LanesResetBetweenServers == [][ResetBetweenServers]_vars

\* A restart ends: the gateway serves again, or its start threw (as it does while a
\* server whose close threw has the port) and it waits for the next restart, or the
\* process has exited.
Serves == server \/ startFailures > 0 \/ closeFailures > 0
RestartCompletes == Restarting ~> (loop = "waiting" /\ ~Restarting /\ Serves) \/ ~Alive
=============================================================================
