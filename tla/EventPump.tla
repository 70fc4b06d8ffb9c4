------------------------------ MODULE EventPump ------------------------------
(***************************************************************************)
(* System events and the pump that puts them before the agent:             *)
(* infra/system-events.ts and infra/event-pump.ts.                         *)
(*                                                                         *)
(* An event is enqueued for a session, in memory, and a wake asks for a    *)
(* run of the pump for that session.  Wakes are coalesced in pendingWakes; *)
(* a timer starts a batch loop over them, which awaits the handler for one *)
(* wake after the other.  The handler, runEventPumpOnce, runs a reply turn *)
(* unless the lanes are busy or the session has no events; the turn drains *)
(* the events of the session into its prompt.  The alarms and the          *)
(* subagents of the extensions enqueue an event and call runEventPumpOnce  *)
(* themselves, without the loop.                                           *)
(*                                                                         *)
(* An action is the code between two awaits, except that the wakes of one  *)
(* batch which the handler skips at once are actions of their own.  How    *)
(* soon a timer fires, which is all that its kind, due time and the        *)
(* priorities of the wakes decide, is left open; so is the order in a      *)
(* batch.  A wake without a session is one for Main.                       *)
(*                                                                         *)
(* The queue that a wake has pumped is not always the one its event is in: *)
(* the pump replaces the key of a subagent by Main, and keys that name no  *)
(* agent (global, node-...) are mostly woken without a session.            *)
(***************************************************************************)
EXTENDS Integers, Sequences, FiniteSets

CONSTANTS
  Sessions, Main,   \* session keys, the main one of the agent among them
  Subagents,        \* those of subagents
  Bare,             \* those that name no agent: global and node-...
  Texts,            \* texts of events
  MaxEvents,        \* MAX_EVENTS
  Loops,            \* the batch loops that may be alive at a time
  Fires,            \* calls of runEventPumpOnce other than the loops'
  Guests,           \* ordinary turns that may be alive at a time
  MaxHandlers, MaxNotices, MaxTurns, MaxThrows    \* bounds

ASSUME PumpAssumption ==
  /\ Main \in Sessions /\ MaxEvents \in Nat \ {0}
  /\ Subagents \cup Bare \subseteq Sessions \ {Main} /\ Subagents \cap Bare = {}
  /\ Guests \cap (Loops \cup Fires) = {}
ASSUME PumpBoundsAssumption == {MaxHandlers, MaxNotices, MaxTurns, MaxThrows} \subseteq Nat

VARIABLES
  handler,     \* a wake handler is set
  pending,     \* pendingWakes, by session
  timer,       \* a timer is set
  scheduled, running,
  batch,       \* loop -> its pendingBatch, {} when there is no such loop
  left,        \* loop -> the wakes of its batch still to be handled
  stage,       \* actor -> where its turn is
  session,     \* actor -> the session of its turn
  events,      \* session -> its queue of events
  stuck,       \* history: sessions left with events by a pump that failed or threw
  used         \* counters of what is bounded

vars == <<handler, pending, timer, scheduled, running, batch, left, stage, session, events, stuck, used>>
wakeVars == <<handler, pending, timer, scheduled, running>>
loopVars == <<batch, left>>
turnVars == <<stage, session>>

Actors == Loops \cup Fires \cup Guests

\* A turn has been asked for, has drained the events of its session, is in the
\* session's lane.
Stages == {"none", "asked", "drained", "lane"}

TypeOK ==
  /\ handler \in BOOLEAN /\ timer \in BOOLEAN /\ scheduled \in BOOLEAN /\ running \in BOOLEAN
  /\ pending \in SUBSET Sessions
  /\ batch \in [Loops -> SUBSET Sessions]
  /\ left \in [Loops -> SUBSET Sessions]
  /\ stage \in [Actors -> Stages]
  /\ session \in [Actors -> Sessions]
  /\ events \in [Sessions -> Seq(Texts)] /\ \A s \in Sessions : Len(events[s]) <= MaxEvents
  /\ stuck \in SUBSET Sessions
  /\ used \in [handlers : 0..MaxHandlers, notices : 0..MaxNotices, turns : 0..MaxTurns,
               throws : 0..MaxThrows]

Init ==
  /\ handler = FALSE /\ timer = FALSE /\ scheduled = FALSE /\ running = FALSE
  /\ pending = {}
  /\ batch = [l \in Loops |-> {}] /\ left = [l \in Loops |-> {}]
  /\ stage = [a \in Actors |-> "none"] /\ session = [a \in Actors |-> Main]
  /\ events = [s \in Sessions |-> <<>>]
  /\ stuck = {}
  /\ used = [handlers |-> 0, notices |-> 0, turns |-> 0, throws |-> 0]

Use(what, max) == used[what] < max /\ used' = [used EXCEPT ![what] = @ + 1]

-----------------------------------------------------------------------------
(* Events and wakes. *)

\* Mutant of Enqueued: the cap is not enforced.
EnqueuedBeyond(q, t) == IF q # <<>> /\ q[Len(q)] = t THEN q ELSE Append(q, t)

\* enqueueSystemEvent: a repetition of the last text is skipped, the oldest of
\* too many is dropped.
Enqueued(q, t) ==
  IF q # <<>> /\ q[Len(q)] = t THEN q
  ELSE Append(IF Len(q) = MaxEvents THEN Tail(q) ELSE q, t)

\* requestWakeNow; schedule keeps the timer there is, or sets one.
RequestWake(s) ==
  /\ pending' = pending \cup {s}
  /\ timer' = TRUE
  /\ UNCHANGED <<handler, scheduled, running>>

\* The session a wake is asked for after an event for s: none, which is Main, for
\* most events of a bare key (scopedWakeOptions, alarms), else s itself.
WokenFor(s) == IF s \in Bare THEN {s, Main} ELSE {s}

\* The session that a wake for s has pumped.
Pumped(s) == IF s \in Subagents THEN Main ELSE s

\* A hook, a finished command or a node enqueues an event and asks for a wake.
Notify(s, t) ==
  /\ Use("notices", MaxNotices)
  /\ events' = [events EXCEPT ![s] = Enqueued(@, t)]
  /\ \E w \in WokenFor(s) : RequestWake(w)
  /\ UNCHANGED <<loopVars, turnVars, stuck>>

\* getQueueSize of the main lane, where every turn is; the session's own lane is
\* then empty as well.
RequestsInFlight == \E a \in Actors : stage[a] = "lane"

MayPump(s, queues) == ~RequestsInFlight /\ queues[Pumped(s)] # <<>>

\* runEventPumpOnce up to its first await, when it does not skip.
Ask(a, s) ==
  /\ stage' = [stage EXCEPT ![a] = "asked"]
  /\ session' = [session EXCEPT ![a] = Pumped(s)]

\* An alarm fires, or a subagent has finished: the event is enqueued and the pump
\* runs a turn, ...
FirePumps(f, s, t) ==
  /\ stage[f] = "none"
  /\ Use("notices", MaxNotices)
  /\ events' = [events EXCEPT ![s] = Enqueued(@, t)]
  /\ MayPump(s, events')
  /\ Ask(f, s)
  /\ UNCHANGED <<wakeVars, loopVars, stuck>>

\* ... or skips it, and a wake is asked for, ...
FireSkipped(f, s, t) ==
  /\ stage[f] = "none"
  /\ Use("notices", MaxNotices)
  /\ events' = [events EXCEPT ![s] = Enqueued(@, t)]
  /\ ~MayPump(s, events')
  /\ \E w \in WokenFor(s) : RequestWake(w)
  /\ UNCHANGED <<loopVars, turnVars, stuck>>

\* ... or throws before either.
FireThrows(f, s, t) ==
  /\ stage[f] = "none"
  /\ used.notices < MaxNotices /\ used.throws < MaxThrows
  /\ used' = [used EXCEPT !.notices = @ + 1, !.throws = @ + 1]
  /\ events' = [events EXCEPT ![s] = Enqueued(@, t)]
  /\ stuck' = stuck \cup {s}
  /\ UNCHANGED <<wakeVars, loopVars, turnVars>>

\* Mutant of SetWakeHandler: wakes that came while there was none are forgotten.
SetAndForget ==
  /\ Use("handlers", MaxHandlers)
  /\ handler' = TRUE /\ running' = FALSE /\ scheduled' = FALSE
  /\ timer' = FALSE
  /\ UNCHANGED <<pending, loopVars, turnVars, events, stuck>>

\* setWakeHandler of a server that starts.  A loop of an earlier server goes on.
SetWakeHandler ==
  /\ Use("handlers", MaxHandlers)
  /\ handler' = TRUE /\ running' = FALSE /\ scheduled' = FALSE
  /\ timer' = (pending # {})
  /\ UNCHANGED <<pending, loopVars, turnVars, events, stuck>>

\* The disposer, when the server closes.
Dispose ==
  /\ handler
  /\ handler' = FALSE
  /\ UNCHANGED <<pending, timer, scheduled, running, loopVars, turnVars, events, stuck, used>>

-----------------------------------------------------------------------------
(* The batch loop. *)

\* The timer of schedule: it waits for a running loop by setting itself again.
TimerFires(l) ==
  /\ timer /\ batch[l] = {}
  /\ timer' = (handler /\ running)
  /\ scheduled' = (handler /\ running)
  /\ IF handler /\ ~running /\ pending # {}
     THEN /\ batch' = [batch EXCEPT ![l] = pending]
          /\ left' = [left EXCEPT ![l] = pending]
          /\ pending' = {} /\ running' = TRUE
     ELSE UNCHANGED <<pending, running, loopVars>>
  /\ UNCHANGED <<handler, turnVars, events, stuck, used>>

Handles(l, s) == batch[l] # {} /\ s \in left[l] /\ stage[l] = "none"

\* A wake is skipped: requests in flight ask for it again, no events do not.
WakeSkipped(l, s) ==
  /\ Handles(l, s) /\ ~MayPump(s, events)
  /\ left' = [left EXCEPT ![l] = @ \ {s}]
  /\ IF RequestsInFlight THEN RequestWake(s) ELSE UNCHANGED wakeVars
  /\ UNCHANGED <<batch, turnVars, events, stuck, used>>

WakePumps(l, s) ==
  /\ Handles(l, s) /\ MayPump(s, events)
  /\ left' = [left EXCEPT ![l] = @ \ {s}]
  /\ Ask(l, s)
  /\ UNCHANGED <<wakeVars, batch, events, stuck, used>>

LoopIsOver(l) == batch' = [batch EXCEPT ![l] = {}] /\ left' = [left EXCEPT ![l] = {}]

\* Mutant of WakeThrows: only the wake that threw is asked for again.
WakeThrowsAlone(l, s) ==
  /\ Handles(l, s)
  /\ Use("throws", MaxThrows)
  /\ pending' = pending \cup {s}
  /\ timer' = TRUE
  /\ running' = FALSE
  /\ LoopIsOver(l)
  /\ UNCHANGED <<handler, scheduled, turnVars, events, stuck>>

\* The handler throws (the configuration or the session store cannot be read):
\* the whole batch is asked for again.
WakeThrows(l, s) ==
  /\ Handles(l, s)
  /\ Use("throws", MaxThrows)
  /\ pending' = pending \cup batch[l]
  /\ timer' = TRUE
  /\ running' = FALSE
  /\ LoopIsOver(l)
  /\ UNCHANGED <<handler, scheduled, turnVars, events, stuck>>

\* Mutant of LoopEnds: running stays set.
LoopEndsRunning(l) ==
  /\ batch[l] # {} /\ left[l] = {} /\ stage[l] = "none"
  /\ timer' = (timer \/ pending # {} \/ scheduled)
  /\ LoopIsOver(l)
  /\ UNCHANGED <<handler, pending, scheduled, running, turnVars, events, stuck, used>>

\* The finally of the loop.
LoopEnds(l) ==
  /\ batch[l] # {} /\ left[l] = {} /\ stage[l] = "none"
  /\ running' = FALSE
  /\ timer' = (timer \/ pending # {} \/ scheduled)
  /\ LoopIsOver(l)
  /\ UNCHANGED <<handler, pending, scheduled, turnVars, events, stuck, used>>

-----------------------------------------------------------------------------
(* Turns, of the pump and others. *)

TurnStarts(g, s) ==
  /\ stage[g] = "none"
  /\ Use("turns", MaxTurns)
  /\ stage' = [stage EXCEPT ![g] = "asked"]
  /\ session' = [session EXCEPT ![g] = s]
  /\ UNCHANGED <<wakeVars, loopVars, events, stuck>>

\* The events are drained into the prompt of the turn.
Drain(a) ==
  /\ stage[a] = "asked"
  /\ stage' = [stage EXCEPT ![a] = "drained"]
  /\ events' = [events EXCEPT ![session[a]] = <<>>]
  /\ stuck' = stuck \ {session[a]}
  /\ UNCHANGED <<wakeVars, loopVars, session, used>>

EnterLane(a) ==
  /\ stage[a] = "drained"
  /\ stage' = [stage EXCEPT ![a] = "lane"]
  /\ UNCHANGED <<wakeVars, loopVars, session, events, stuck, used>>

\* The turn ends, or fails wherever it is: runEventPumpOnce returns "ran" or
\* "failed", and nobody asks again for what failed.
TurnEnds(a) ==
  /\ stage[a] # "none"
  /\ stage' = [stage EXCEPT ![a] = "none"]
  /\ session' = [session EXCEPT ![a] = Main]
  /\ LET s == session[a]
     IN  stuck' = IF a \notin Guests /\ stage[a] = "asked" /\ events[s] # <<>>
                  THEN stuck \cup {s} ELSE stuck
  /\ UNCHANGED <<wakeVars, loopVars, events, used>>

LoopStep(l) ==
  \/ TimerFires(l) \/ LoopEnds(l)
  \/ \E s \in Sessions : WakeSkipped(l, s) \/ WakePumps(l, s) \/ WakeThrows(l, s)

TurnStep(a) == Drain(a) \/ EnterLane(a) \/ TurnEnds(a)

Next ==
  \/ \E s \in Sessions, t \in Texts : Notify(s, t)
  \/ \E f \in Fires, s \in Sessions, t \in Texts :
       FirePumps(f, s, t) \/ FireSkipped(f, s, t) \/ FireThrows(f, s, t)
  \/ SetWakeHandler \/ Dispose
  \/ \E l \in Loops : LoopStep(l)
  \/ \E g \in Guests, s \in Sessions : TurnStarts(g, s)
  \/ \E a \in Actors : TurnStep(a)

Spec == Init /\ [][Next]_vars

\* Timers fire and awaited turns end (a turn has a timeout).  Nobody has to
\* notify, to start a turn, or to start or close a server.
FairSpec ==
  /\ Spec
  /\ \A l \in Loops : WF_vars(LoopStep(l))
  /\ \A a \in Actors : WF_vars(TurnStep(a))

-----------------------------------------------------------------------------
\* While a handler is set, a wake that is asked for has a timer, or a batch loop
\* whose finally will set one: no order of requests, retries, throws, closing
\* servers and replaced handlers leaves it waiting for the next request.
NoStrandedWake ==
  handler /\ pending # {} => timer \/ \E l \in Loops : batch[l] # {}

\* Replacing the handler lets a second loop run beside one that goes on, and the
\* end of one lets another start: but there are never more loops than handlers
\* were set.
LoopsBounded == Cardinality({l \in Loops : batch[l] # {}}) <= used.handlers

\* A wake for s is asked for or is in a batch.
Owed(s) == s \in pending \/ \E l \in Loops : s \in left[l]

\* An event of an agent's own session waits for its prompt only while a wake for
\* that session is owed or a run of the pump for it has yet to drain; or else a run
\* of the pump failed before it drained, or an alarm's threw before it asked for
\* either, for which nobody retries.  Nothing of the kind holds of the other keys:
\* their wakes pump the queue of Main, and their events wait for a turn of their own.
EventsBacked ==
  \A s \in Sessions \ (Subagents \cup Bare) :
    events[s] # <<>> =>
      \/ Owed(s) \/ s \in stuck
      \/ \E a \in Loops \cup Fires : stage[a] = "asked" /\ session[a] = s

\* A wake that is owed while a handler is set is served, also when the lanes are
\* busy, a handler throws, a batch is put back or the handler is replaced.
WakesServed ==
  \A s \in Sessions : Owed(s) /\ handler ~> ~Owed(s) \/ ~handler
=============================================================================
