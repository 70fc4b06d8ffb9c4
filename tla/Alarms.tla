------------------------------- MODULE Alarms -------------------------------
(***************************************************************************)
(* The alarms of extensions/dennou-alarm: scheduler.ts, storage.ts,        *)
(* fire.ts, alarm-tool.ts, index.ts.                                       *)
(*                                                                         *)
(* A scheduler polls the stored alarms; a pass of it (checkOnce) fires the *)
(* ones that are due, one after the other: an event is enqueued for the    *)
(* main session, the event pump is run for it, and only then the store is  *)
(* written.  A pass that has begun goes on when its scheduler is stopped,  *)
(* and the next start of the service makes a scheduler of its own.         *)
(* The event pump is the module EventPump; here its queue is a set, from   *)
(* which any turn of the main session drains and an overflow drops.        *)
(*                                                                         *)
(* Time is relative: due[a] is how many units of time are left until the   *)
(* stored targetTimeMs of a, and -Hour stands for an hour ago or more.  A  *)
(* poll or a start in the very millisecond of a recomputed slot is left    *)
(* out.  The file always has the contents of the memory (a failing flush   *)
(* and the backup file are left out), so a crash keeps the store and loses *)
(* everything else.                                                        *)
(***************************************************************************)
EXTENDS Integers

CONSTANTS
  Alarm,         \* alarms
  Repeating,     \* those of kind interval or cron; the others are of kind once
  Period,        \* longest time between two slots of an alarm
  Hour,          \* CATCH_UP_DELAYED_MS
  Passes,        \* passes that may be under way at a time
  NoPass, NoAlarm

ASSUME AlarmsAssumption ==
  /\ Repeating \subseteq Alarm
  /\ Period \in Nat \ {0} /\ Hour \in Nat \ {0}
  /\ NoAlarm \notin Alarm /\ NoPass \notin Passes

VARIABLES
  stored,        \* the alarms in the store
  due,           \* alarm -> the time left until its targetTimeMs
  own,           \* the pass of the scheduler that polls, or NoPass
  todo,          \* pass -> the alarms found due that it has still to fire
  firing,        \* pass -> the alarm whose handler it awaits, or NoAlarm
  age,           \* pass -> the time since it began
  queued,        \* the alarms whose event is in the queue of the main session
  fate           \* history: what became of an alarm

passVars == <<todo, firing, age>>
vars == <<stored, due, own, passVars, queued, fate>>

Longest == Hour + Period
Fates == {"unset", "set", "handled", "told", "cancelled", "expired", "dropped", "lost"}

TypeOK ==
  /\ stored \in SUBSET Alarm
  /\ due \in [Alarm -> (-Hour)..Period]
  /\ own \in Passes \cup {NoPass}
  /\ todo \in [Passes -> SUBSET Alarm]
  /\ firing \in [Passes -> Alarm \cup {NoAlarm}]
  /\ age \in [Passes -> 0..Longest]
  /\ queued \in SUBSET Alarm
  /\ fate \in [Alarm -> Fates]

Init ==
  /\ stored = {} /\ due = [a \in Alarm |-> 0]
  /\ own = NoPass
  /\ todo = [p \in Passes |-> {}]
  /\ firing = [p \in Passes |-> NoAlarm]
  /\ age = [p \in Passes |-> 0]
  /\ queued = {}
  /\ fate = [a \in Alarm |-> "unset"]


\* The time left, d later.
Later(n, d) == IF n - d < -Hour THEN -Hour ELSE n - d
InPass(p) == todo[p] # {} \/ firing[p] # NoAlarm

\* Mutant of Slots: one slot too many is counted (steps + 1), so one is skipped.
SlotsSkippingOne == 1..(2 * Period)

\* The time to the target of a new alarm, or to the next slot of one that repeats:
\* the whole interval after a fire of kind interval, the rest of it at a start.
Slots == 1..Period

\* What becomes of these one-shots, unless that is settled already.
Fate(as, what) == [a \in Alarm |-> IF a \in as /\ a \notin Repeating /\ fate[a] \in {"set", "handled"}
                                   THEN what ELSE fate[a]]

-----------------------------------------------------------------------------
(* The store and the tool. *)

\* Ids are never used again.
SetAlarm(a) ==
  /\ fate[a] = "unset"
  /\ stored' = stored \cup {a}
  /\ \E d \in Slots : due' = [due EXCEPT ![a] = d]
  /\ fate' = [fate EXCEPT ![a] = "set"]
  /\ UNCHANGED <<own, passVars, queued>>

Cancel(a) ==
  /\ a \in stored
  /\ stored' = stored \ {a} /\ due' = [due EXCEPT ![a] = 0]
  /\ fate' = [fate EXCEPT ![a] = "cancelled"]
  /\ UNCHANGED <<own, passVars, queued>>

\* Mutant of IsDue: one-shots wait for a next slot as well.
IsDueInTime(a) == due[a] <= 0 /\ due[a] > -Hour

\* nextFireDueMs, against now: a repeating alarm that is overdue for an hour has
\* its next slot recomputed, which is never now.
IsDue(a) == due[a] <= 0 /\ (a \in Repeating => due[a] > -Hour)

\* A poll may be late and a pass may last, an hour or more.
Tick ==
  /\ due' = [a \in Alarm |-> IF a \in stored THEN Later(due[a], 1) ELSE 0]
  /\ age' = [p \in Passes |-> IF ~InPass(p) THEN 0
                              ELSE IF age[p] < Longest THEN age[p] + 1 ELSE Longest]
  /\ UNCHANGED <<stored, own, todo, firing, queued, fate>>

-----------------------------------------------------------------------------
(* The scheduler. *)

\* A poll finds alarms due, when no pass of this scheduler is under way.
Poll(p) ==
  /\ p = own /\ ~InPass(p)
  /\ \E a \in stored : IsDue(a)
  /\ todo' = [todo EXCEPT ![p] = {a \in stored : IsDue(a)}]
  /\ age' = [age EXCEPT ![p] = 0]
  /\ UNCHANGED <<stored, due, own, firing, queued, fate>>

\* Mutant of Persist: an alarm cancelled meanwhile is stored again.
PersistAnyhow(p, a) ==
  IF a \notin Repeating THEN stored' = stored \ {a} /\ due' = [due EXCEPT ![a] = 0]
  ELSE /\ stored' = stored \cup {a}
       /\ \E d \in Slots : due' = [due EXCEPT ![a] = Later(d, age[p])]

\* What checkOnce writes when the handler has resolved: a one-shot is removed, a
\* repeating alarm gets its next slot as seen from the start of the pass; an
\* alarm cancelled meanwhile stays so.
Persist(p, a) ==
  IF a \notin stored THEN UNCHANGED <<stored, due>>
  ELSE IF a \notin Repeating THEN stored' = stored \ {a} /\ due' = [due EXCEPT ![a] = 0]
  ELSE /\ UNCHANGED stored
       /\ \E d \in Slots : due' = [due EXCEPT ![a] = Later(d, age[p])]

Handled(a) == [fate EXCEPT ![a] = IF a \notin Repeating /\ @ = "set" THEN "handled" ELSE @]

MayFire(p, a) == a \in todo[p] /\ firing[p] = NoAlarm

\* Mutant of FireAwaits: the store is written before the turn.
FireForgets(p, a) ==
  /\ MayFire(p, a)
  /\ queued' = queued \cup {a}
  /\ Persist(p, a)
  /\ todo' = [todo EXCEPT ![p] = @ \ {a}]
  /\ firing' = [firing EXCEPT ![p] = a]
  /\ UNCHANGED <<own, age, fate>>

\* The event is enqueued and the pump runs a turn for it, ...
FireAwaits(p, a) ==
  /\ MayFire(p, a)
  /\ queued' = queued \cup {a}
  /\ todo' = [todo EXCEPT ![p] = @ \ {a}]
  /\ firing' = [firing EXCEPT ![p] = a]
  /\ UNCHANGED <<stored, due, own, age, fate>>

\* ... or skips it, and a wake is asked for, ...
FireSkipped(p, a) ==
  /\ MayFire(p, a)
  /\ queued' = queued \cup {a}
  /\ Persist(p, a)
  /\ fate' = Handled(a)
  /\ todo' = [todo EXCEPT ![p] = @ \ {a}]
  /\ UNCHANGED <<own, firing, age>>

\* ... or throws before it runs a turn, and the alarm stays for the next poll.
FireThrows(p, a) ==
  /\ MayFire(p, a)
  /\ queued' = queued \cup {a}
  /\ todo' = [todo EXCEPT ![p] = @ \ {a}]
  /\ UNCHANGED <<stored, due, own, firing, age, fate>>

\* The turn of the alarm ends, well or not.
FireEnds(p) ==
  /\ firing[p] # NoAlarm
  /\ Persist(p, firing[p])
  /\ fate' = Handled(firing[p])
  /\ firing' = [firing EXCEPT ![p] = NoAlarm]
  /\ UNCHANGED <<own, todo, age, queued>>

-----------------------------------------------------------------------------
(* The session's queue of events. *)

\* A turn of the main session, the pump's or another, drains it into its prompt.
Drain ==
  /\ queued # {}
  /\ queued' = {}
  /\ fate' = Fate(queued, "told")
  /\ UNCHANGED <<stored, due, own, passVars>>

\* Other events push it out of the queue.
Overflow(a) ==
  /\ a \in queued
  /\ queued' = queued \ {a}
  /\ fate' = Fate({a}, "dropped")
  /\ UNCHANGED <<stored, due, own, passVars>>

-----------------------------------------------------------------------------
(* The service. *)

\* applyCatchUpToStore: what is overdue for an hour is dropped, or moved to its
\* next slot if it repeats.
StartService(p) ==
  /\ own = NoPass /\ ~InPass(p)
  /\ own' = p
  /\ LET late == {a \in stored : due[a] = -Hour}
         over == {a \in late : a \notin Repeating}
     IN  /\ stored' = stored \ over
         /\ fate' = Fate(over, "expired")
         /\ due' \in [Alarm -> (-Hour)..Period]
         /\ \A a \in Alarm : IF a \in over THEN due'[a] = 0
                             ELSE IF a \in late THEN due'[a] \in Slots
                             ELSE due'[a] = due[a]
  /\ UNCHANGED <<passVars, queued>>

\* A server that closes stops the service; a pass under way goes on.
StopService ==
  /\ own # NoPass
  /\ own' = NoPass
  /\ UNCHANGED <<stored, due, passVars, queued, fate>>

\* The process dies: the store remains.  An event whose alarm was handled, and
\* so is stored no longer, is lost with the queue.
Crash ==
  /\ own' = NoPass
  /\ todo' = [p \in Passes |-> {}]
  /\ firing' = [p \in Passes |-> NoAlarm]
  /\ age' = [p \in Passes |-> 0]
  /\ queued' = {}
  /\ fate' = [a \in Alarm |-> IF fate[a] = "handled" THEN "lost" ELSE fate[a]]
  /\ UNCHANGED <<stored, due>>

Next ==
  \/ \E a \in Alarm : SetAlarm(a) \/ Cancel(a) \/ Overflow(a)
  \/ Tick \/ Drain
  \/ \E p \in Passes : Poll(p) \/ FireEnds(p) \/ StartService(p)
  \/ \E p \in Passes, a \in Alarm : FireAwaits(p, a) \/ FireSkipped(p, a) \/ FireThrows(p, a)
  \/ StopService \/ Crash

Spec == Init /\ [][Next]_vars

\* A pass begins or goes on.
PassStep(p) ==
  \/ Poll(p) \/ FireEnds(p)
  \/ \E a \in Alarm : FireAwaits(p, a) \/ FireSkipped(p, a) \/ FireThrows(p, a)

\* Time passes, a scheduler polls, a handler it awaits resolves (a turn has a
\* timeout).  Nobody has to set or cancel an alarm, start or stop or crash.
FairSpec ==
  /\ Spec
  /\ WF_vars(Tick)
  /\ \A p \in Passes : WF_vars(PassStep(p))

-----------------------------------------------------------------------------
\* A one-shot alarm is in the store until the handler of its fire has resolved,
\* whatever crashes, throws, is stopped or overlaps meanwhile; from then on its
\* event is in the queue until it is put into a prompt.  This is less than
\* DENNOU_ALARM.md promises (lines 175 and 216: no power cut loses an alarm, no crash
\* while firing its event): checkOnce removes it once the pump was run or skipped,
\* the event being in memory only, so a crash before the next prompt loses it (fate
\* lost).  What is claimed is that this window opens no earlier.
OneShotKept ==
  \A a \in Alarm : a \notin Repeating =>
    /\ fate[a] = "set" => a \in stored
    /\ fate[a] = "handled" => a \in queued

\* A pass that had an alarm in hand when it was cancelled does not bring it back.
CancelledStaysGone == \A a \in Alarm : fate[a] = "cancelled" => a \notin stored

\* Under a running service a stored alarm is fired, and one that repeats is fired
\* again and again, as long as it is stored; unless a poll finds a repeating one an
\* hour late, as after a suspended machine, from when on its slot moves with the
\* clock (nextFireDueMs).
AlarmsGoOff ==
  \A a \in Alarm :
    a \in stored /\ own # NoPass ~> \/ a \notin stored \/ own = NoPass \/ a \in queued
                                    \/ \E p \in Passes : firing[p] = a
                                    \/ a \in Repeating /\ due[a] = -Hour
=============================================================================
