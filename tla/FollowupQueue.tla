---------------------------- MODULE FollowupQueue ----------------------------
(***************************************************************************)
(* The followup queue of one session key (auto-reply/reply/queue/*.ts and  *)
(* utils/queue-helpers.ts): messages that arrive while an agent turn runs  *)
(* are queued, bounded by a drop policy, and drained by a coroutine that   *)
(* runs them one by one or collected into one prompt.                      *)
(*                                                                         *)
(* The registry FOLLOWUP_QUEUES maps the key to a queue object.  A drain   *)
(* keeps the object it began with, while clearSessionQueues forgets the    *)
(* object and the next message makes a new one; so objects have an         *)
(* identity here, and a queue object nobody refers to is used again.       *)
(*                                                                         *)
(* Grain of atomicity: a coroutine runs from one await to the next.  A     *)
(* drain awaits the debounce, the step that has compared the destinations  *)
(* of the messages, and the run, so it is "idle", in "debounce", "checked" *)
(* or "running".  Time is left out: the debounce may end at any moment.    *)
(*                                                                         *)
(* A turn or a followup run holds the session's reply operation and leaves *)
(* by scheduling a drain.  A command run (the agent RPC,                   *)
(* agents/agent-command.ts) is an embedded run without a reply operation:  *)
(* isRunActive sees it, and its end schedules nothing.                     *)
(*                                                                         *)
(* The run callback a queue remembers is left out as well: production      *)
(* passes one with every enqueue and never restarts an idle drain from     *)
(* enqueueFollowupRun (agent-runner.ts:290 passes restartIfIdle = false).  *)
(***************************************************************************)
EXTENDS Integers, Sequences, FiniteSets

CONSTANTS
  Msgs,         \* messages, each with its message id
  Routes,       \* destinations; Unkeyed and Unroutable are two special ones
  Unkeyed, Unroutable,
  RouteOf,      \* message -> destination
  AllSettings,  \* queue settings an enqueue may carry: [mode, cap, drop]
  MaxQueues,    \* bound on the queue objects alive at once
  MaxFailures,  \* bound on the runs that throw
  MaxClears,    \* bound on the calls of clearSessionQueues
  MaxTurns,     \* bound on the ordinary turns after the first
  MaxCommands   \* bound on the command runs

ASSUME RoutesAssumption == {Unkeyed, Unroutable} \subseteq Routes /\ RouteOf \in [Msgs -> Routes]
ASSUME SettingsAssumption ==
  AllSettings \subseteq [mode : {"collect", "followup"}, cap : Nat \ {0},
                         drop : {"summarize", "old", "new"}]
ASSUME BoundsAssumption ==
  /\ MaxQueues \in Nat \ {0} /\ MaxFailures \in Nat /\ MaxClears \in Nat
  /\ MaxTurns \in Nat /\ MaxCommands \in Nat

Queues == 1..MaxQueues
NoQueue == 0

VARIABLES
  registered,   \* the queue FOLLOWUP_QUEUES holds for the key, or NoQueue
  items,        \* queue -> its messages, oldest first
  settings,     \* queue -> its runtime settings
  dropped,      \* queue -> messages counted by droppedCount, oldest first
  drain,        \* queue -> its drain coroutine
  recent,       \* RECENT_QUEUE_MESSAGE_IDS
  turnActive,   \* an ordinary agent turn of the session holds its reply operation
  command,      \* a command run is in the embedded run registry
  turns,        \* turns begun so far, the first excepted
  failures,     \* runs that threw so far
  clears,       \* clears so far
  commands,     \* command runs begun so far
  fate,         \* history: what became of each message
  behind        \* history: messages queued with no drain, for a command run alone

counts == <<turns, failures, clears, commands>>
vars == <<registered, items, settings, dropped, drain, recent, turnActive, command,
          turns, failures, clears, commands, fate, behind>>

Idle == [pc |-> "idle", forced |-> FALSE, checked |-> {}, msgs |-> << >>, notes |-> << >>,
         removes |-> 0, summary |-> FALSE]

Drains == [pc      : {"idle", "debounce", "checked", "running"},
           forced  : BOOLEAN,      \* collectState.forceIndividualCollect
           checked : SUBSET Msgs,  \* history: the messages hasCrossChannelItems compared
           msgs    : Seq(Msgs),    \* messages whose prompts the run carries
           notes   : Seq(Msgs),    \* dropped messages the run's summary counts
           removes : Nat,          \* how many items go when the run ends
           summary : BOOLEAN]      \* the summary state is cleared then

Fates == {"new", "refused", "queued", "dropped", "summarized", "cleared", "told", "ran"}

TypeOK ==
  /\ registered \in Queues \cup {NoQueue}
  /\ items \in [Queues -> Seq(Msgs)]
  /\ \A o \in Queues : \E s \in AllSettings : Len(items[o]) <= s.cap
  /\ settings \in [Queues -> AllSettings]
  /\ dropped \in [Queues -> Seq(Msgs)]
  /\ drain \in [Queues -> Drains]
  /\ recent \in SUBSET Msgs
  /\ turnActive \in BOOLEAN /\ command \in BOOLEAN
  /\ turns \in 0..MaxTurns
  /\ failures \in 0..MaxFailures
  /\ clears \in 0..MaxClears
  /\ commands \in 0..MaxCommands
  /\ fate \in [Msgs -> Fates]
  /\ behind \in SUBSET Msgs

\* The first turn has begun: a message is queued only once one was seen active.
Init ==
  /\ registered = NoQueue
  /\ items = [o \in Queues |-> << >>]
  /\ settings \in [Queues -> AllSettings] /\ \A o, p \in Queues : settings[o] = settings[p]
  /\ dropped = [o \in Queues |-> << >>]
  /\ drain = [o \in Queues |-> Idle]
  /\ recent = {}
  /\ turnActive = TRUE
  /\ command = FALSE
  /\ turns = 0 /\ failures = 0 /\ clears = 0 /\ commands = 0
  /\ fate = [m \in Msgs |-> "new"]
  /\ behind = {}

-----------------------------------------------------------------------------
SetOf(s) == {s[i] : i \in 1..Len(s)}
Without(s, n) == SubSeq(s, n + 1, Len(s))      \* s.splice(0, n), what remains

\* The session's reply operation is held, by an ordinary turn or a followup run.
Busy == turnActive \/ \E o \in Queues : drain[o].pc = "running"

\* Mutant of IsCrossChannel: only the keys are compared.
KeysDiffer(q) == Cardinality({RouteOf[m] : m \in SetOf(q)} \ {Unkeyed, Unroutable}) > 1

\* hasCrossChannelItems: some message cannot be routed, or the keyed ones have
\* two destinations, or a keyed one is mixed with one without a destination.
IsCrossChannel(q) ==
  LET routes == {RouteOf[m] : m \in SetOf(q)}
  IN  \/ Unroutable \in routes
      \/ \E r, s \in routes : r # s

\* scheduleFollowupDrain: beginQueueDrain refuses without a queue or while one
\* drains; a drain that finds nothing to do deletes the queue at once.
ScheduleDrain(reg, its, drp, dr) ==
  IF reg = NoQueue \/ dr[reg].pc # "idle"
  THEN registered' = reg /\ drain' = dr
  ELSE IF its[reg] = << >> /\ drp[reg] = << >>
  THEN registered' = NoQueue /\ drain' = dr
  ELSE registered' = reg /\ drain' = [dr EXCEPT ![reg] = [Idle EXCEPT !.pc = "debounce"]]

\* The finally of a drain: an empty queue's key is deleted from the registry,
\* whichever queue it names by now; otherwise the drain is scheduled again.
FinishDrain(o, its, drp) ==
  LET dr == [drain EXCEPT ![o] = Idle]
  IN  IF its[o] = << >> /\ drp[o] = << >>
      THEN registered' = NoQueue /\ drain' = dr
      ELSE ScheduleDrain(registered, its, drp, dr)

\* The while condition of a drain.
LoopAgain(o, its, drp) ==
  IF its[o] = << >> /\ drp[o] = << >>
  THEN FinishDrain(o, its, drp)
  ELSE /\ drain' = [drain EXCEPT ![o] = [Idle EXCEPT !.pc = "debounce", !.forced = drain[o].forced]]
       /\ UNCHANGED registered

-----------------------------------------------------------------------------
Free == {o \in Queues : o # registered /\ drain[o] = Idle /\ items[o] = << >> /\ dropped[o] = << >>}

\* Mutant of Overflow: compares with <= instead of <.
OverflowLate(q, s) == IF Len(q) <= s.cap THEN 0 ELSE Len(q) - s.cap + 1

\* What applyQueueDropPolicy removes to make room for one more.
Overflow(q, s) == IF Len(q) < s.cap THEN 0 ELSE Len(q) - s.cap + 1

\* Dedupe by message id: it is remembered when the message is pushed (the five
\* minutes of RECENT_QUEUE_MESSAGE_IDS do not pass), so what is queued is recent.
IsDuplicate(m) == m \in recent

\* getFollowupQueue: the registered queue, or a new one.
QueueFor == IF registered # NoQueue THEN registered ELSE CHOOSE o \in Free : \A p \in Free : o <= p

\* enqueueFollowupRun on queue o, with settings s: the settings are taken before
\* any check, then come the dedupe, the drop policy and the push.
Push(m, s, o) ==
  LET n == Overflow(items[o], s)
      gone == SubSeq(items[o], 1, n)
      becomes == IF s.drop = "summarize" THEN "summarized" ELSE "dropped"
  IN  /\ settings' = [settings EXCEPT ![o] = s]
      /\ IF IsDuplicate(m)
         THEN UNCHANGED <<items, dropped, recent, fate>>
         ELSE IF n > 0 /\ s.drop = "new"
         THEN fate' = [fate EXCEPT ![m] = "refused"] /\ UNCHANGED <<items, dropped, recent>>
         ELSE /\ items' = [items EXCEPT ![o] = Append(Without(@, n), m)]
              /\ dropped' = IF s.drop = "summarize" THEN [dropped EXCEPT ![o] = @ \o gone] ELSE dropped
              /\ recent' = recent \cup {m}
              /\ fate' = [d \in Msgs |->
                            IF d = m /\ fate[d] \in {"new", "refused"} THEN "queued"
                            ELSE IF d \in SetOf(gone) THEN becomes ELSE fate[d]]

\* Mutant of Enqueue: isRunActive is not asked again.
EnqueueWithoutRecheck(m, s, seen) ==
  /\ registered # NoQueue \/ Free # {}
  /\ Push(m, s, QueueFor)
  /\ registered' = QueueFor
  /\ UNCHANGED <<drain, turnActive, command, counts, behind>>

\* enqueueFollowupRun and the liveness check of agent-runner.ts after it.  That a
\* run was active was found out earlier, so the call may come when none is; seen
\* is what isRunActive answers now: yes for a command run as well, and no, it may
\* be, before the embedded run of a turn has begun or after it has ended.
Enqueue(m, s, seen) ==
  /\ registered # NoQueue \/ Free # {}
  /\ seen => Busy \/ command
  /\ Push(m, s, QueueFor)
  /\ IF seen
     THEN registered' = QueueFor /\ UNCHANGED drain
     ELSE ScheduleDrain(QueueFor, items', dropped', drain)
  /\ behind' = IF seen /\ ~Busy /\ drain[QueueFor].pc = "idle"
               THEN behind \cup (recent' \ recent) ELSE behind
  /\ UNCHANGED <<turnActive, command, counts>>

\* The summary that goes with a run: previewQueueSummaryPrompt, of a copy.
Summary(o) == IF settings[o].drop = "summarize" THEN dropped[o] ELSE << >>

\* What is handed to the run callback: the first message, or, unless messages are
\* collected, the summary in its place; no job when the loop breaks instead.
NoJob == Idle
NextJob(o) ==
  LET collect == settings[o].mode = "collect"
      alone == collect \/ Summary(o) = << >>
  IN  IF items[o] = << >> THEN NoJob
      ELSE [drain[o] EXCEPT !.pc = "running", !.removes = 1, !.summary = ~alone,
                            !.forced = @ \/ (collect /\ IsCrossChannel(items[o])),
                            !.msgs = IF alone THEN <<items[o][1]>> ELSE << >>,
                            !.notes = IF alone THEN << >> ELSE Summary(o)]

\* All messages in one prompt, with the summary.
CollectJob(o) ==
  IF items[o] = << >> /\ dropped[o] = << >> THEN NoJob
  ELSE [drain[o] EXCEPT !.pc = "running", !.removes = Len(items[o]), !.msgs = items[o],
                        !.notes = Summary(o), !.summary = Summary(o) # << >>]

\* The run callback: while the reply operation is held createReplyOperation
\* throws, and the drain is scheduled afresh.
StartRun(o, job) ==
  IF job = NoJob \/ Busy
  THEN FinishDrain(o, items, dropped)
  ELSE drain' = [drain EXCEPT ![o] = job] /\ UNCHANGED registered

\* The loop body from the end of the debounce: the messages are to be collected, or
\* the first is run.
DebounceOver(o) ==
  /\ drain[o].pc = "debounce"
  /\ IF settings[o].mode = "collect" /\ ~drain[o].forced /\ ~IsCrossChannel(items[o])
     THEN /\ drain' = [drain EXCEPT ![o] = [Idle EXCEPT !.pc = "checked", !.checked = SetOf(items[o])]]
          /\ UNCHANGED registered
     ELSE StartRun(o, NextJob(o))
  /\ UNCHANGED <<items, settings, dropped, recent, turnActive, command, counts, fate, behind>>

\* The await of drainCollectQueueStep is over: whatever is in the queue by now is
\* collected.
Collect(o) ==
  /\ drain[o].pc = "checked"
  /\ StartRun(o, CollectJob(o))
  /\ UNCHANGED <<items, settings, dropped, recent, turnActive, command, counts, fate, behind>>

\* Mutant of RunEnds: the queue is emptied (items.length = 0), with what came since.
RunEndsEmptying(o) ==
  LET its == [items EXCEPT ![o] = << >>]
      drp == [dropped EXCEPT ![o] = << >>]
  IN  /\ drain[o].pc = "running"
      /\ items' = its
      /\ dropped' = drp
      /\ fate' = [m \in Msgs |-> IF m \in SetOf(drain[o].msgs) THEN "ran" ELSE fate[m]]
      /\ LoopAgain(o, its, drp)
      /\ UNCHANGED <<settings, recent, turnActive, command, counts, behind>>

\* The run of a drain succeeds: the items it stands for are removed by position.
RunEnds(o) ==
  LET d == drain[o]
      its == [items EXCEPT ![o] = Without(@, d.removes)]
      drp == IF d.summary THEN [dropped EXCEPT ![o] = << >>] ELSE dropped
  IN  /\ d.pc = "running"
      /\ items' = its
      /\ dropped' = drp
      /\ fate' = [m \in Msgs |-> IF m \in SetOf(d.msgs) THEN "ran"
                                 ELSE IF m \in SetOf(d.notes) THEN "told" ELSE fate[m]]
      /\ LoopAgain(o, its, drp)
      /\ UNCHANGED <<settings, recent, turnActive, command, counts, behind>>

\* Mutant of RunThrows: the drain is not scheduled again.
ThrowsForGood(o) ==
  /\ drain[o].pc = "running"
  /\ failures < MaxFailures
  /\ failures' = failures + 1
  /\ drain' = [drain EXCEPT ![o] = Idle]
  /\ UNCHANGED <<registered, items, settings, dropped, recent, turnActive, command,
                 turns, clears, commands, fate, behind>>

\* It throws: nothing is removed and the drain is scheduled afresh.
RunThrows(o) ==
  /\ drain[o].pc = "running"
  /\ failures < MaxFailures
  /\ failures' = failures + 1
  /\ FinishDrain(o, items, dropped)
  /\ UNCHANGED <<items, settings, dropped, recent, turnActive, command,
                 turns, clears, commands, fate, behind>>

\* Mutant of ClearSessionQueues: the queue is forgotten but not emptied.
ClearForgetsItems ==
  /\ registered # NoQueue
  /\ clears < MaxClears
  /\ clears' = clears + 1
  /\ fate' = [m \in Msgs |-> IF m \in SetOf(items[registered]) \cup SetOf(dropped[registered])
                             THEN "cleared" ELSE fate[m]]
  /\ registered' = NoQueue
  /\ UNCHANGED <<items, dropped, settings, drain, recent, turnActive, command,
                 turns, failures, commands, behind>>

\* clearSessionQueues: the queue object is emptied in place and forgotten.  A
\* drain that holds it goes on.
ClearSessionQueues ==
  /\ registered # NoQueue
  /\ clears < MaxClears
  /\ clears' = clears + 1
  /\ items' = [items EXCEPT ![registered] = << >>]
  /\ dropped' = [dropped EXCEPT ![registered] = << >>]
  /\ fate' = [m \in Msgs |-> IF m \in SetOf(items[registered]) \cup SetOf(dropped[registered])
                             THEN "cleared" ELSE fate[m]]
  /\ registered' = NoQueue
  /\ UNCHANGED <<settings, drain, recent, turnActive, command, turns, failures, commands, behind>>

\* An ordinary turn of the session begins, and ends with finalizeWithFollowup.
TurnStarts ==
  /\ ~Busy
  /\ turns < MaxTurns
  /\ turns' = turns + 1
  /\ turnActive' = TRUE
  /\ UNCHANGED <<registered, items, settings, dropped, drain, recent, command,
                 failures, clears, commands, fate, behind>>

TurnEnds ==
  /\ turnActive
  /\ turnActive' = FALSE
  /\ ScheduleDrain(registered, items, dropped, drain)
  /\ UNCHANGED <<items, settings, dropped, recent, command, counts, fate, behind>>

\* A command run enters the embedded run registry and leaves it; neither looks at
\* the followup queue.
CommandStarts ==
  /\ ~command
  /\ commands < MaxCommands
  /\ commands' = commands + 1
  /\ command' = TRUE
  /\ UNCHANGED <<registered, items, settings, dropped, drain, recent, turnActive,
                 turns, failures, clears, fate, behind>>

CommandEnds ==
  /\ command
  /\ command' = FALSE
  /\ UNCHANGED <<registered, items, settings, dropped, drain, recent, turnActive, counts,
                 fate, behind>>

Next ==
  \/ \E m \in Msgs, s \in AllSettings, seen \in BOOLEAN : Enqueue(m, s, seen)
  \/ \E o \in Queues : DebounceOver(o)
  \/ \E o \in Queues : Collect(o)
  \/ \E o \in Queues : RunEnds(o)
  \/ \E o \in Queues : RunThrows(o)
  \/ ClearSessionQueues
  \/ TurnStarts
  \/ TurnEnds
  \/ CommandStarts
  \/ CommandEnds

Spec == Init /\ [][Next]_vars

\* Runs end, one way or the other; the turn ends; the session falls quiet long
\* enough for the debounce.
Fairness ==
  /\ \A o \in Queues : /\ WF_vars(DebounceOver(o)) /\ WF_vars(Collect(o))
                        /\ WF_vars(RunEnds(o) \/ RunThrows(o))
  /\ WF_vars(TurnEnds)

FairSpec == Spec /\ Fairness

-----------------------------------------------------------------------------
(* Correctness. *)

\* A queue somebody will look at again: the registry names it or it is drained.
Alive(o) == o = registered \/ drain[o].pc # "idle"

\* No message vanishes: one that was accepted and neither ran nor was cleared
\* is still in a live queue, or is counted in the summary of one.
NoSilentLoss ==
  \A m \in Msgs :
    /\ fate[m] = "queued" => \E o \in Queues : Alive(o) /\ m \in SetOf(items[o])
    /\ fate[m] = "summarized" => \E o \in Queues : Alive(o) /\ m \in SetOf(dropped[o])

\* Lost wake-up: a queue that holds messages and has no drain is the registered
\* one, and a turn or a run is in flight whose end will schedule its drain, or else
\* every one of its messages was queued behind a command run alone.
NoStrandedItems ==
  \A o \in Queues :
    items[o] # << >> /\ drain[o].pc = "idle" =>
      o = registered /\ (Busy \/ SetOf(items[o]) \subseteq behind)

\* A run begins only with messages that wait: never with one that ran already,
\* was dropped, or was cleared by /stop or /new.
RunBeginsWithQueued ==
  \A o \in Queues :
    drain[o].pc # "running" /\ drain'[o].pc = "running" =>
      \A m \in SetOf(drain'[o].msgs) : fate[m] = "queued"

RunsOnlyQueued == [][RunBeginsWithQueued]_vars

\* Those messages of a collected prompt that were there when the destinations were
\* compared share one that can be routed to, and a drain that has found its queue
\* mixed collects no more.
CollectKeepsRouting ==
  \A o \in Queues : Len(drain[o].msgs) > 1 =>
    /\ ~drain[o].forced
    /\ \A m, n \in SetOf(drain[o].msgs) \cap drain[o].checked :
         RouteOf[m] = RouteOf[n] /\ RouteOf[m] # Unroutable

\* A message queued behind a command run, in a queue that nobody drains and nothing
\* in flight will drain.
LeftBehind(m) ==
  m \in behind /\ ~Busy /\ \E o \in Queues : m \in SetOf(items[o]) /\ drain[o].pc = "idle"

\* Every accepted message is run in the end, but for those left behind a command
\* run as long as no turn and no other message comes.
QueuedRuns == \A m \in Msgs : fate[m] = "queued" /\ ~LeftBehind(m) ~> fate[m] = "ran"
=============================================================================
