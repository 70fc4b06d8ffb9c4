# DennouAibou: TLA+ models of the gateway core

DennouAibou is a personal assistant gateway: one long-lived Node process that receives
messages from chat channels, runs agent turns for them and sends the answers. Most of its
code converts data; what is hard is the small part that orders, serialises, retries and
restarts work. These modules model that part, action by action, from the TypeScript, TLC
checks them on small instances, and TLAPS proves results about them for all instances.

All of the modelled code runs on one JavaScript thread. Concurrency is that of coroutines: a
function runs uninterrupted from one `await` to the next, and between two awaits anything else
may run. Every module states which stretch of code one action is. Crashes and files matter in
three of them, the outbound delivery queue, the alarms and the session write lock, and several
processes in the last.

Tools: `tlc -config X.cfg M` for a run (PROJECT.json names module and configuration of each),
`tlapm XProofs.tla` for the proofs, of which there are eight modules.

## 1. Inventory

Paths are relative to `src/src`; extensions live in `src/extensions`.

### Modelled

| Component | Source | State | Operations |
|---|---|---|---|
| Command lanes | `process/command-queue.ts` | draining flag; per lane: queue, active task ids, cap, generation; waiters | enqueue, completion of a task, set concurrency, clear, mark draining, reset all, wait for active tasks |
| Followup queue | `auto-reply/reply/queue/*.ts`, `utils/queue-helpers.ts` | registry key -> queue object (items, settings, dropped count and summary lines, draining), the recent message ids, one drain coroutine per object | enqueue with dedupe, settings and drop policy; drain collected or one by one; retry after a failed run; clear |
| Agent turn, followup runner | `auto-reply/reply/agent-runner.ts`, `followup-runner.ts` | the reply operation of a session key | begin, end (finalizeWithFollowup) |
| Gateway run loop | `cli/gateway-cli/run-loop.ts`, `process/restart-recovery.ts`, `infra/process-respawn.ts` | server, lock, shuttingDown, restartResolver, isFirstStart | start, signals, drain, close, hand over to a child or restart in process |
| Restart scheduler | `infra/restart.ts` | pending timer, polling intervals, the emit/consume cycle | schedule, defer until idle, emit |
| Outbound delivery queue | `infra/outbound/delivery-queue-storage.ts`, `delivery-queue-recovery.ts`, `deliver.ts` | files `<id>.json`, `<id>.delivered`, `failed/<id>.json`; per sender what it is about to do | enqueue, send, acknowledge (two phases), fail, move to failed, recovery scan |
| Reply runs and embedded runs | `auto-reply/reply/reply-run-registry.ts`, `agents/pi-embedded-runner/runs.ts` | operation per session key, indexes by session id, waiters; handles, session ids and waiters of attempts | begin, phases, session id changes, attach and detach, fail, complete; aborts by command, interrupt, reset and restart; waits |
| Event pump and wakes | `infra/event-pump.ts`, `infra/system-events.ts` | wake handler, pending wakes, timer, scheduled, running, batches; queue of events per session | enqueue, request a wake, batch loop with retry, set and dispose the handler, drain events into a prompt |
| Alarms | `extensions/dennou-alarm` | stored alarms with their times, passes of the schedulers, queued events | set, cancel, poll, fire, persist, catch up, start, stop, crash |
| Session write lock | `agents/session-write-lock.ts` | lock file with payload and age; per process the lock held and its count | acquire with retries, share, reclaim stale, release, scan, watchdog, signal, crash |

How they meet. A channel's message becomes an agent turn, which `enqueueCommandInLane` runs in
the lane of its session (cap 1) inside a global lane. If a turn of the session is active the
message goes to the followup queue instead; the end of the turn schedules the drain, whose runs
hold the session's reply operation like turns do. Answers go through `deliverOutboundPayloads`,
which writes an entry before it sends. A config change, a tool or SIGUSR1 asks the restart
scheduler for a restart; the run loop marks the lanes draining, waits for the active tasks,
closes the server, and either exits in favour of a child or starts a server again in the same
process, where it resets the lanes. Each new server begins a recovery scan of the delivery queue,
sets a wake handler and starts the alarm service. A turn is registered by session key in the reply
run registry and, while an attempt is live, by session id in the embedded run registry; aborts,
session resets, the interrupt mode and the restart's count use both. An attempt holds the write
lock of its session's file. An alarm enqueues an event and runs the pump, which runs a turn.

What is hard in each, and what makes it correct:

- *Lanes.* A task may outlive a reset of its lane; every event that frees a slot or adds an
  entry must pump; a waiter holds a snapshot. Correct: no lost wake-up, slots never freed by a
  stale completion, no promise forgotten, FIFO, cap.
- *Followup queue.* The drain awaits a run and then edits the queue by position and the registry
  by key, while enqueues overflow, clears forget and settings change. Correct: nothing accepted
  is lost or stranded, nothing runs twice or after being dropped, one prompt has one destination,
  what waits is run in the end.
- *Run loop.* Two coroutines share `server`, the lock and the resolver; restarts, stops, failing
  starts and timeouts overlap. Correct: the drain window closes, the server in service is known
  and owns the lock, lanes are reset only between servers, a restart ends.
- *Delivery queue.* Crashes between two file operations, scans racing live sends and each other,
  unlocked read-modify-writes. Correct: no message lost, none given up without cause, a replay
  only where it cannot be avoided.
- *Registries of runs.* Two sets of maps describe one turn and are updated at different moments;
  aborts come before, between and during attempts; a compaction changes the session id that others
  hold. Correct: a key belongs to one operation until it is cleared, once; the indexes agree; no
  wait is left for what is gone; an aborted turn runs nothing; a count of zero means idle.
- *Event pump.* Wakes live in one set, a timer, or the local array of a loop that awaits turns,
  while handlers are replaced, throw and skip. Correct: no wake is stranded, no event waits
  without a wake, every wake is served.
- *Alarms.* A pass walks a snapshot across awaited turns while alarms are cancelled, services
  stopped and started, and the process dies. Correct: a one-shot is kept until its event is
  queued, a cancelled alarm stays cancelled, a stored one goes off.
- *Session write lock.* A file made in two steps and removed by path an await after it was looked
  at, by owners, contenders, scans, watchdogs and signal handlers. Correct: two holders only where
  the lock was taken away, no file left behind by a living process, an exact reference count.

The hazards, with their lines and the properties aimed at each, are in PROJECT.json.

### Not modelled yet

Gateway lock, subagent registry and announce queue, session gatekeeper, exec approvals, channel
manager and health monitor, chat abort controllers, node registry, config reload, reply
dispatcher and block pipeline, inbound dedupe, process supervisor, session pruning
(`dennou-soul`). These hold state across awaits or processes; the plan below orders them.

### Left out for good

Request handlers and assembly of the server, agents, prompts and tools, channel adapters and
routing, model providers, configuration and secrets, plugins, command line, terminal UI, service
installation, media and the security audit: they convert data or call other systems and keep no
protocol state of their own. `kernel/durable` adapts an external library.

## 2. The modules

**CommandLanes** is `command-queue.ts`. `queue`, `active`, `maxConcurrent`, `generation` are the
fields of a lane; `status[e]` is where the promise of call `e` stands; `taskGeneration[e]` is the
generation its task captured; `waiter`/`awaited` are calls of `waitForActiveTasks` and their
snapshots. `DrainLanes` is the loop of `pump`, written without recursion: it starts
`StartCount(q, a, cap)` entries, the number the loop shifts. Every action calls it where the code
calls `drainLane` or `pump`. A task runs at once when shifted, its own code being outside the
model; it ends by `TaskSettles`. The `draining` flag of a lane is false between two steps and is
not a variable; a lane exists from the start, with the cap 1 that `getLaneState` gives it.

**LaneContract** is what the lanes promise, without generations, waiters or draining: a line, the
holders of places, a capacity, and for each call whether it waits, runs or is over. Places are
handed out in the order of the line, never beyond the capacity, and no step leaves a place free
with a call in line. CommandLanes maps `queue` to the line, `active` to the holders,
`maxConcurrent` to the capacity and the promise of a call to its state (`CallOf`: resolved,
rejected, cleared and refused are all over); `KeepsContract` is the contract under this mapping. A
reset is `Forfeit`: all places are free at once, and the end of a task that held one frees nothing.

**FollowupQueue** is one session key. The registry holds an object or nothing; objects have an
identity, because a drain keeps the one it began with while a clear forgets it. `drain[o]` says
whether the coroutine of object `o` awaits the debounce, the step that has compared the
destinations (`checked`), or a run, and what the run carries. `DebounceOver` is the loop body from
the debounce to the next await, `Collect` from the comparison to the run of the collected prompt;
`NextJob` and `CollectJob` are what the run is given; `RunEnds`, `RunThrows` what follows;
`FinishDrain` the `finally`. `Busy` stands for the reply operation `createReplyOperation` claims,
which a turn or a followup run holds, and whose end schedules a drain; `command` for an embedded run
without one (the agent RPC), which `isRunActive` sees and whose end schedules nothing. `fate`,
`behind` (messages queued while only a command run was active) and the field `checked` are history.

**GatewayRunLoop** composes the loop, the shutdown task and the restart scheduler with an
instance of CommandLanes: `RequestRestart` sets the draining flag and waits on a lane waiter,
`Resume` performs `ResetAllLanes` when the loop goes round, `LaneStep` is everything else the
gateway does with lanes. A close ends with the server down (`CloseEnds`) or throws before the http
server is closed (`CloseThrows`): the loop forgets the server all the same, `listening` stays, and
`closeFailures` counts it. A stop releases the lock and exits in two steps (`ReleaseLockIfHeld`,
`StopExits`). The token pair of `emitGatewayRestart` is equal between steps, since the signal is
emitted synchronously, and is no variable.

**DeliveryQueue** has one actor per coroutine: the callers' deliverers (`Live`) and the scans.
`json`, `marker` and `failed` are the directory; `step[a][e]` is what actor `a` does next with
entry `e`. One action runs from one file operation or send to the next, so that a `Crash`, which
ends every actor and keeps the disk, may come between any two. `sent`, `dismissed` and `timedOut`
(the two kinds of AbortError, which the code does not tell apart), `rejected`, `tries` and `torn`
are history. The retry loop of the restart sentinel is a live delivery whose
single failure is its last.

**SessionRuns** is both registries of runs and their users. A turn is the identity of its reply
operation; `pc[t]` is where the turn is, `run[t]` its embedded run (out, queued in the lane, holding
it between attempts, in an attempt that is live, settling or cancelled). `runAt`, `sidAt`, `keyAt`,
`waitKeyAt` are the maps of the reply run registry, `handleAt`, `handleSidAt`, `snapshots` those of
the embedded one; `waitKey` and `waitSid` are the two waiter tables. `Rebind` is `updateSessionId`,
`Unregister` is `clearReplyRunState`, `AbortThem` and `AbortAndWait` what a command, an interrupting
message, a reset and a restart do. A turn that found the key busy may be queued and come again as a
followup turn, whose attempts are given no abort signal: the abort of its caller (`UpstreamAbort`)
is heard between attempts and not in one. A lane here runs one task; what lanes do beyond that is
CommandLanes.

**EventPump** has one actor per batch loop, per direct call of `runEventPumpOnce` (alarms,
subagents) and per ordinary turn. `pending`, `timer`, `scheduled`, `running` are the coalescer's
variables, `batch[l]` and `left[l]` the local arrays of loop `l`, `events` the queues. What keeps
the lanes busy is a turn in the stage `lane`. Three kinds of session differ in where a wake leads:
the main one; `Subagents`, whose key the pump replaces by the main one; and `Bare`, keys that name
no agent, whose wakes mostly name no session. A pump may throw before it has asked for a wake
(`FireThrows`). `stuck` is history.

**Alarms** has relative time: `due[a]` is how long until the stored time, `Tick` lets time pass for
everything, `age[p]` is how long pass `p` has lasted, since the next slot is computed against the
time it began. A pass belongs to a scheduler; `own` is the one of the running service, and a
stopped one's pass goes on. `fate` is history.

**SessionWriteLock** numbers the lock files as they are created; a number stands for the file and
for the `HeldLock` object. `file` is the one at the path, `held[p]` and `count[p]` the entry of
`HELD_LOCKS`, `closing` the locks whose release is between the map and the unlink. Removing is by
path, whatever is there (`Unlink`, `Remove`). A scan lists, reads and removes in three steps; a file
gone by the time it is read, or one that cannot be read, is taken for stale like a dead owner's. A
removal may fail: a release swallows it and leaves the file (`left`), a contender throws
(`RemovalThrows`). `torn` and `left` are history: the locks that may be taken from under their
holders, each at the step that makes it so, and those whose removal failed.

The modules `...Proofs` hold the theorems about the module of that name. `MC...` modules give
constants.

## 3. What the runs show

| Run | Instance | Result |
|---|---|---|
| `lanes` | two lanes, three calls on one, caps 0, 2 and 3, one reset, one waiter, fair | slots exact, waiters exact, the contract implemented, every accepted call settles |
| `followup` | four messages to three kinds of destination, policy `new`, mode changing, one failing run, one further turn, one command run, fair | nothing lost; nothing stranded and what is queued runs, but what was queued behind the command run alone |
| `followup_drops` | three messages, four settings with every drop policy and caps 1 and 2, one clear, three queue objects, one failing run, one turn | what was compared of a collected prompt has one destination; a run begins only with what is queued |
| `followup_loss` | as above, collect mode, policy `summarize` | **violated**: `NoSilentLoss` |
| `followup_clear` | one clear, policy `new` | **violated**: `NoStrandedItems` |
| `run_loop` | one session lane, two turns, two restarts, every respawn outcome, one failing start, one failing close, one stop signal, fair | drain window closes; lock and server in step and lanes reset between servers, but for the server of a failed close; a restart ends; when restarts are emitted while the loop waits |
| `run_loop_lost_restart` | a restart while the server starts | **violated**: `DrainWindowCloses` |
| `delivery` | two entries, one best-effort, three server starts, one crash, one failing rename | the strict entry never lost but by an AbortError, none given up without cause, replays only where listed |
| `session_runs` | one key, two turns, each at once or as a followup, one reset, three session ids, fair | registrations, indexes, waits, aborts, count and ids agree; waits end |
| `event_pump` | a main, a subagent and a bare session, two texts, queue cap 1, two loops, one alarm, one ordinary turn, two handlers, one throw, fair | no wake stranded, no event of the main session without a wake, wakes served |
| `alarms` | a one-shot and a repeating alarm, two passes, period and catch-up delay of 2, fair | one-shots kept, cancelled ones gone, stored ones go off |
| `session_write_lock` | a gateway with two callers, a command line with one, two locks, one crash, one signal, one failing file operation | exclusion but where the lock is torn, no file left behind but by a failed removal, exact counts |

**Why the bounds are enough.** *Lanes:* the interesting cases need a task of an old generation, a
task of the new one and an entry waiting behind it (three calls on a lane), a second lane that must
not be disturbed, caps below and above the number running (0 is floored to 1), and one reset between
a start and a completion. The theorems cover the rest. *Followup:* a run in flight with one message,
two that fill the queue behind it and one that overflows it make every positional mistake; three
queue objects let a clear happen while two older drains are alive. *Run loop:* two restarts give a
second one in every phase of the first; two turns on one lane give a task that outlives the drain
and one queued behind it. *Delivery:* MAX_RETRIES is 2 instead of 5: 0, an intermediate and the last
count are the three cases the code distinguishes. Two entries of both kinds meet in the order of a
scan and in the deferral of what it has left; scans overlap live sends there, and each other in the
theorems, which allow any number at a time. *Session runs:* two turns of a key give an abort that
frees it for the other, and a wait of one for the other; three ids are the first and two compactions
or resets. *Event pump:* two handlers let a second loop run beside one that goes on, and there are
never more loops than handlers were set (`LoopsAreBounded`); a queue of one event overflows at the
second. *Alarms:* there is no bound but period and delay, since time is relative; two passes are one
that outlived its scheduler and the next. *Write lock:* two locks are one that is stale or gone and
the one that replaces it and may be removed in its place (the theorems allow any number); the
gateway's two callers share a count and contend after a forced release. They are interchangeable and
the run takes them so (`Twins`), which is sound since it checks invariants only; no other run uses
symmetry.

**What is assumed of the environment in passing runs.** `run_loop` takes restarts to be emitted only
while the loop waits (`EarlyRestarts = FALSE`); the run with `TRUE` is the counterexample.
`followup` uses drop policy `new` and no clear; the other policies and the clear have their own
runs, and the two properties they break are the counterexamples. `ServerIsOwned` asks for the lock
only in processes in which no start has thrown: after one that threw the lock is released and no
later restart takes it again, which the hazard list records. It and `LanesResetBetweenServers`
except the server of a close that threw, and `RestartCompletes` counts a start that cannot follow it
as an end. `followup_drops` has no turn but the first: the drains it is about need only one.
SessionRuns never uses a session id again and SessionWriteLock takes start times of processes to be
readable, as on Linux.

**Deadlock** is checked in the runs of the lanes, the followup queue, the alarms and the write
lock: a cap can always be set, a message always be delivered again, time always passes, a caller
may always come. It is off where the system stops: a gateway that exited, a delivery queue whose
bounds on starts and crashes are used up, turns that are all over, notices and handlers used up.

**Fairness.** Lanes: tasks end (an agent run is bounded by its own timeout) and the timers of
waiters fire; nobody has to enqueue, reset or reconfigure. Followup: a turn and a run end or
throw, the debounce elapses; throws are bounded, so a run cannot fail for ever. No fairness is
put on callers, on turns starting, on clears. Run loop: starts, closes (or the force-exit timer),
lock operations and the respawn settle; the drain's own timer fires. No fairness is assumed of
signals, restart requests or pollers. Event pump: timers fire and turns end, which the timeout of a
turn sees to; a loop that can go on does. In these, weak fairness is enough: each step, once
possible, stays possible until taken. Alarms: time passes and a pass of the scheduler goes on,
since the handler it awaits resolves or throws. Again weak fairness is enough.

Session runs need more: entering and leaving the lane is strongly fair, because the lane may be
taken by the other turn again and again but serves its queue in order (which the contract of the
lanes shows), and a turn's retries are bounded, so that `Fail` or `Complete` comes. No fairness is
put on crashes, stops, starts, aborts or resets.

The delivery queue has no liveness property, since nothing but a later start of the server retries
an entry and nothing guarantees one; nor has the write lock, where contenders poll without order.

## 4. Disagreements found

Three statements of the repository's comments and tests are false of the code; each has a run.

1. `followup_loss`: the drain removes `items.splice(0, items.length)` or `shift`s after awaiting
   the run. An overflow during the run has already spliced the front, so messages that arrived
   meanwhile are removed instead and never run.
2. `followup_clear`: `clearSessionQueues` during a drain, then a new message, then the end of the
   old drain: its `finally` deletes the registry entry by key, which now names the new queue.
3. `run_loop_lost_restart`: a restart emitted while `params.start` is pending resolves nothing;
   no further iteration resets the lanes, and the gateway refuses every enqueue.

Others met while modelling are in the hazard list, with the lines:

- a turn that outlives the drain timeout still runs when the lane reset of the in-process restart
  starts the next turn of the same session;
- the recovery passes no `onError`, so under `bestEffort` a payload that fails again is
  acknowledged as delivered;
- a followup drain reschedules itself for ever when a summary is left without a message;
- a stop signal that comes during a restart is dropped;
- two writers of one delivery entry in one process share a temporary file;
- an interrupting message is refused while the interrupted turn still unwinds;
- a reset does not find the operation of a turn that has reset its own session;
- two runs of the pump may put the same events in two prompts;
- a repeating alarm found an hour late by a poll gets a slot that moves with the clock and is
  never written: `AlarmsGoOff` names this as its only exception (`due[a] = -Hour`);
- a write lock is stale after 30 minutes although a run may hold it for 48 hours; the scan of a
  server that starts removes a file between its creation and its payload, and one created after the
  file it had listed was released.

Statements of the docs and comments that the code does not keep, which the properties except by name
(the traces are behaviours of the modules; the runs check what is left of the statement):

- *Destinations.* `docs/concepts/queue.md:31` says "If messages target different channels/threads,
  they drain individually to preserve routing". An await lies between the comparison of the
  destinations (`queue/drain.ts:102-104`) and the slice that is collected (line 117): a message
  enqueued there is collected with the others, whatever its destination. `CollectKeepsRouting` speaks
  of the messages that were compared.
- *Command runs.* `docs/concepts/queue.md:30` says of `followup` "enqueue for the next agent turn
  after the current run ends", and `agent-runner.ts:298-299` leaves the drain to the run that is
  active. The end of a run of the agent RPC (`agents/agent-command.ts:632`) schedules none; a
  message queued behind it alone waits until another message or turn comes. `NoStrandedItems` and
  `QueuedRuns` except these (`behind`, `LeftBehind`).
- *Closing.* `run-loop.ts:261` takes the process, after a start that failed, to be "not listening".
  A close may throw before the http server is closed (`gateway/server-close.ts:53-55, 70-72`); the
  loop logs it (line 182), forgets the server and restarts, with the old server listening.
- *Aborted followups.* `auto-reply/types.ts:35` calls `abortSignal` the "Abort signal for the
  underlying agent run." `followup-runner.ts:208-281` hands it to the reply operation and not to the
  run: the live attempt of a followup goes on. `AbortedRunsNothing` excepts it (`Unheard`).
- *AbortError.* `deliver.ts:555` has an entry removed after success. Lines 602-603 acknowledge it on
  any AbortError, a timeout of the transport included (`extensions/discord/src/
  proxy-request-client.ts:311-324`): the message is lost. `StrictNeverLost` excepts it (`timedOut`).
- *Alarms.* `DENNOU_DOCS/DENNOU_ALARM.md:175` has no set alarm lost in a restart or power cut, and
  line 216 has the loss of the queue by a crash while firing prevented. A one-shot is removed when the
  pump has run or skipped, with its event in memory only: a crash before the next prompt loses it
  (fate `lost`). `OneShotKept` claims that it is not lost earlier.
- *Events of other sessions.* `docs/tools/exec.md:52` and `docs/gateway/background-process.md:55`
  have the end of a background command request a heartbeat for its event. For a subagent's session,
  or a key without an agent, the wake pumps the main session's queue (`event-pump.ts:407-411`) and
  the event waits for a turn of its own session. `EventsBacked` speaks of the agents' own sessions.

`NoReplay` is exact about the comment of `ackDelivery` that a crash between delivery and cleanup
does not cause a replay. It does when it falls between the send and the rename; the property
lists this window (`torn`) with the others: a failing rename, a transcript append that throws
after the send, and another actor that has hold of the entry. Outside them no message is sent
twice.

## 5. What is proved

All theorems are for every value of the constants that satisfies the module's assumptions. Their
list, with the property each states, is in PROJECT.json.

`CommandLanesProofs` proves, for every set of lanes, finite set of calls, assignment of calls to
lanes, set of caps (any integers), set of waiters and bound on resets, the safety of the lanes:
`TypeCorrect`, `NoLostWakeUp`, `SlotsExact`, `PromisesBacked`, `WaitersAreExact`, `CapsRespected`,
`LanesAreFifo`, and that they implement the contract, `LanesKeepContract`. The assumptions are the
three of the module: finitely many calls, each on a lane; caps are integers; the bound is a natural
number.

The argument. `WorkConserving` is not inductive: whether pumping fills the free slots depends on
how many entries are really in the queue and really in the slots. `IInv` adds what every operation
relies on: the queue of a lane holds exactly its pending entries, without repetition
(`QueuesBackPromises`), the active set is exactly the running tasks of the current generation
(`SlotsAreCurrentTasks`), no entry captured a generation the lane has not reached, and whatever a
waiter awaits has been started (a fresh entry can then never reappear in a snapshot). Operations
edit some of queue, active, caps, generations and promises, and then call `DrainLanes`; `Ready`
states what those edits must leave true, and `DrainEstablishes` that draining then restores the
whole invariant, whatever the edit was. Each operation has one lemma that its edit is `Ready`. The
arithmetic is in `StartCountBounds` and `ShiftedCardinality`: the loop shifts k entries, k distinct
new members of the active set, and stops at the cap or at an empty queue. The action properties
follow from the same lemmas, since the order of starts is the order of the shifts; and so does the
refinement: what `DrainLanes` starts is a serving of the contract (`Served`), whatever line,
holders, capacity and calls it is given, and each operation's edit is the one its counterpart in
the contract makes.

`GatewayRunLoopProofs` carries all of this over to the process that restarts in place, for every set
of lanes, calls, waiters and respawn modes and all bounds. The lanes of GatewayRunLoop are an
instance of CommandLanes, so the proofs take the theorems of CommandLanesProofs for a step of the
lanes as they stand; only `request("restart")`, which sets the draining flag and starts a waiter at
once, is no such step and has a lemma of its own. `ProcessInv` is `IInv` of the lanes, the types
(`ProcessTypeCorrect`) and `OneRestartPerRequest`: timers and intervals together are never more than
the requests. Hence `ProcessKeepsLanes` and the refinement `ProcessKeepsContract`, in which a
restart in place is one more `Forfeit` of the contract.

`WindowsClose`, `ServersAreOwned` and `ResetsAreBetweenServers` are proved under `EarlyRestarts =
FALSE`, as the run checks them, the last two with the exception of a server whose close threw. The
assumption is needed: with it dropped the run
`run_loop_lost_restart` refutes the first, and TLC finds the other two violated on the instance of
`run_loop`. `ShutdownInv` adds to the properties why the end of a shutdown reaches the loop: the task
of a restart has its drain, and past the drain its waiter has answered (`WindowHasItsWaits`); while a
restart is under way the loop waits for `restartResolver`, and a server that listens is the one it
knows (`LoopAwaitsRestart`); unless a start threw, the lock is away only while it is being taken
again (`LockKept`).

`FollowupQueueProofs` proves the safety of the followup queue for any messages, routes and settings
and any number of queue objects: `TypeCorrect` (with the bound on the length of a queue),
`RoutingKept` (by `RoutingInv`: what a drain has compared is of one route, and one that found its
queue mixed is never collected), `RunsQueuedOnly`, `NothingStrands`, `NothingLost`, and two that no
run states, `PlacesKept` and `FollowupsInOrder`: no enqueue, drop, retry or removal lets a message
that waits overtake an older one. The assumptions are the module's: every message has a route, caps
and drop policies are as the code allows them, the bounds are natural numbers. The argument has
three layers:

- `PlaceInv`: a message waits once and in one queue (`OnePlace`), is queued while it waits
  (`ItemsQueued`), is remembered exactly when accepted (`RecentIsSeen`), and, if it is carried by a
  run and waits still, stands among those that the end of the run removes by position
  (`CarriedInFront`). This survives overflows and clears during a run, so that a run never begins
  with what already ran; what it does not say is that only carried messages are removed.
- `WakeInv`, until the first clear: only the registered object holds or drains anything
  (`OneQueue`), from which `NothingStrands` is inductive, with its exception for what was queued
  behind a command run alone. After a clear it is false (`followup_clear`).
- `LossInv`, until the first clear and with settings that refuse the newcomer (`RefusesOnly`): the
  converse of `CarriedInFront`, what the end of a run removes it carried (`RemovesCarried`). With a
  policy that drops the oldest it is false (`followup_loss`).

`DeliveryQueueProofs` proves the safety of the run `delivery`, for every number of entries, choice
of best-effort entries, set of scans, MAX_RETRIES and bound on starts, crashes and failing renames:
`StrictKept` (nothing that is not best-effort is lost but by an AbortError), `GivenUpOnlyForCause`,
`OnlyTornReplays` and `TypeCorrect`. It assumes that the bounds are natural numbers, `BestEffort` a
set of entries and `Live` no scan. The invariant has five layers, each proved over the ones before:

- `Base`: types; nothing but accepted entries occurs anywhere; a scan that handles an entry has
  read all its files and has the entry no longer on its list.
- `Keeping`: an acknowledgement is on its way only for what was sent or dismissed (or is
  best-effort). The file may then go, and no other step but the move to `failed/` removes one.
- `SentIsSettled`: an entry that was sent and is not torn is on no scan's list, and every actor
  is done with it or is acknowledging it; if its file is still there, somebody is about to rename
  it. This is what makes a later scan harmless: it meets the file before the rename, which is the
  torn case, or does not meet it.
- `CountsBacked`: `json[e]`, and every count a rewriting actor holds, plus the number of actors
  that have yet to count a failure of `e`, is at most the failures that happened. A lost update
  of two read-modify-writes then only lowers the count. `CountingMoves` is the arithmetic of the
  set of those actors.
- `CountsBounded`: `json[e]`, and every count about to be written, plus the number of actors that
  may yet raise it is at most the starts so far and one. It gives the bound on `json` in `TypeOK`,
  which no type gives: a start adds one actor, and each raises the count once.

`EventPumpProofs` proves `NoWakeIsStranded`, `EventsAreBacked`, `PumpTypes` and `LoopsAreBounded` (no
more batch loops than handlers were set), for every set of sessions, texts, loops and actors. The
invariant adds that a loop handles only wakes of its batch (`LeftOfBatch`) and that every loop
alive was let in by a handler, a handler with `running` clear having one more to let in
(`LoopsPaidFor`), which is what bounds the loops although each end of one clears `running`.
`EventsAreBacked` is about the sessions whose wakes pump their own queue.

`AlarmsProofs` proves `OneShotsAreKept`, `CancelledAlarmsStayGone` and `AlarmTypes`, for every set of
alarms and passes, period and delay. The invariant adds that an alarm never set is in no pass
(`OnlySetAlarms`) and that the event of an alarm whose handler is awaited is queued unless a prompt or
the cap took it (`FiringIsQueued`): only so may the store be written after the await.

`SessionRunsProofs` proves the safety of the registries, `RegistrationIsOwn`, `RegistryIndexesAgree`,
`WaitsAreBacked`, `AbortsReachRuns`, `ZeroMeansIdle`, `RunTypes` and the action property
`IdsGoOnFinding`, for any turns and callers and a finite set of keys that are given their first
ids within the bound. `AbortsReachRuns` excepts the live attempt of a followup turn that its caller
aborted. The invariant adds what each place of a turn has (`TurnsInOrder`), that no
session id is ever known by two keys (`IdsApart`, the heart of it: the registry guards `keyAt`
only against live entries), that a key is taken by the one operation not yet cleared
(`Registered`), that a lane has one task (`LaneExclusive`) and that an attempt's handle is found by
its turn's id (`HandlesHeld`). `Freeing` and `AbortEdit` say once what a cleared or aborted
operation leaves; every abort is an instance of them.

`SessionWriteLockProofs` proves `LockTypes`, `LocksAreExclusive`, `FilesAreBacked` and
`CountsAreExact`, for any processes, any finite set of callers, and all bounds. `Exclusive` follows
from `Kept`: the file of a lock in use that is not torn is the one at the path, so that two such
locks are one. `Kept` needs that whoever removes removes only what is torn or his alone: a lock
being written is its writer's (`WritersAlone`), a lock being released has no holders but those it
was taken from (`ReleasedAlone`, by the count), what was found stale is torn, its owner dead or
the file gone (`StaleSeen`), and what a caller or process has is its own and it lives (`Owned`).
`FilesAreBacked` excepts the files whose removal failed (`left`).

Only model-checked: the liveness properties, `AcceptedSettles`, `QueuedRuns`, `RestartCompletes`,
`WaitsEnd`, `WakesServed` and `AlarmsGoOff`, since liveness under fairness is out of the prover's
reach. Every safety property of every passing run is stated by a theorem.

## 6. What is left

Not proved: liveness. Proved under an assumption narrower than the code: the three theorems on
restarts that assume `EarlyRestarts = FALSE`, and the two on the followup queue that end at the first
clear or ask for `RefusesOnly`; TLC finds each of the five violated when its condition is dropped
(section 4 has the traces that matter).

Not modelled, in the order in which it would add most:

1. *Subagent registry and announce queue*: completion announced once, across restarts.
2. *Gateway lock*: two processes, stale-lock detection, release by a process that no longer owns
   it; the file protocol is that of the session write lock with other judgements.
3. *Session pruning*: rewriting the transcript of a session that becomes active meanwhile, and
   the gatekeeper beside it.
4. *Exec approvals, chat abort, node registry*: pending promises with timers, answered once.
5. *Channel manager, config reload, process supervisor*: restarts with backoff.
6. *Reply dispatcher and block pipeline, inbound dedupe*: order and caches within one turn.

What is partly modelled is named with its gaps in PROJECT.json. The rest of the source, by far its
larger part, converts data or calls other systems (see the inventory): there is no state to model.
