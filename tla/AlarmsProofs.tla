----------------------------- MODULE AlarmsProofs -----------------------------
(***************************************************************************)
(* Theorems about Alarms, for every set of alarms and passes, every period *)
(* and catch-up delay.                                                     *)
(***************************************************************************)
EXTENDS Alarms, TLAPS

\* An alarm that was never set is in no hand.
OnlySetAlarms ==
  \A a \in Alarm : fate[a] = "unset" =>
    a \notin stored /\ \A p \in Passes : a \notin todo[p] /\ firing[p] # a

\* The event of an alarm whose handler is awaited is in the queue, unless a prompt
\* or the cap took it, which settles the alarm.
FiringIsQueued ==
  \A a \in Alarm, p \in Passes :
    a \notin Repeating /\ firing[p] = a /\ fate[a] = "set" => a \in queued

IInv == TypeOK /\ OnlySetAlarms /\ FiringIsQueued /\ OneShotKept /\ CancelledStaysGone

-----------------------------------------------------------------------------
\* The clock stays in its range.
LEMMA LaterTypes ==
  ASSUME NEW n \in (-Hour)..Period, NEW d \in Nat
  PROVE  Later(n, d) \in (-Hour)..Period
BY AlarmsAssumption DEF Later

\* A slot is a time the clock can show.
LEMMA SlotTypes == Slots \subseteq (-Hour)..Period /\ 0 \in (-Hour)..Period
BY AlarmsAssumption DEF Slots

\* What checkOnce writes: nothing is added to the store, the times keep their type.
LEMMA PersistWrites ==
  ASSUME TypeOK, NEW p \in Passes, NEW a \in Alarm, Persist(p, a)
  PROVE  /\ stored' = IF a \in Repeating THEN stored ELSE stored \ {a}
         /\ due' \in [Alarm -> (-Hour)..Period]
<1> USE DEF TypeOK
<1>1. CASE a \notin stored
  BY <1>1 DEF Persist
<1>2. CASE a \in stored /\ a \notin Repeating
  BY <1>2, SlotTypes DEF Persist
<1>3. CASE a \in stored /\ a \in Repeating
  <2>1. PICK d \in Slots : due' = [due EXCEPT ![a] = Later(d, age[p])]
    BY <1>3 DEF Persist
  <2>2. age[p] \in Nat /\ d \in (-Hour)..Period
    BY SlotTypes, AlarmsAssumption DEF Longest
  <2>3. Later(d, age[p]) \in (-Hour)..Period
    BY <2>2, LaterTypes
  <2> QED BY <1>3, <2>1, <2>3 DEF Persist
<1> QED BY <1>1, <1>2, <1>3

\* What became of one-shots changes only what is not settled yet.
LEMMA FateTypes ==
  ASSUME TypeOK, NEW as, NEW what \in Fates
  PROVE  /\ Fate(as, what) \in [Alarm -> Fates]
         /\ \A a \in Alarm :
              Fate(as, what)[a] = IF a \in as /\ a \notin Repeating /\ fate[a] \in {"set", "handled"}
                                  THEN what ELSE fate[a]
BY DEF TypeOK, Fate

LEMMA HandledTypes ==
  ASSUME TypeOK, NEW a \in Alarm
  PROVE  /\ Handled(a) \in [Alarm -> Fates]
         /\ \A x \in Alarm :
              Handled(a)[x] = IF x = a /\ a \notin Repeating /\ fate[a] = "set"
                              THEN "handled" ELSE fate[x]
BY DEF TypeOK, Handled, Fates

-----------------------------------------------------------------------------
\* Before any alarm is set the invariant holds.
THEOREM InitIInv == Init => IInv
<1> SUFFICES ASSUME Init PROVE IInv
  OBVIOUS
<1>1. TypeOK
  BY SlotTypes, AlarmsAssumption DEF Init, TypeOK, Fates, Longest
<1>2. OnlySetAlarms /\ FiringIsQueued /\ OneShotKept /\ CancelledStaysGone
  BY AlarmsAssumption DEF Init, OnlySetAlarms, FiringIsQueued, OneShotKept, CancelledStaysGone
<1> QED BY <1>1, <1>2 DEF IInv

\* A step keeps the types.
LEMMA NextTypes == IInv /\ [Next]_vars => TypeOK'
<1> SUFFICES ASSUME IInv, [Next]_vars PROVE TypeOK'
  OBVIOUS
<1>0. TypeOK
  BY DEF IInv
<1>1. ASSUME NEW a \in Alarm, SetAlarm(a) PROVE TypeOK'
  BY <1>0, <1>1, SlotTypes DEF SetAlarm, TypeOK, Fates, passVars
<1>2. ASSUME NEW a \in Alarm, Cancel(a) PROVE TypeOK'
  BY <1>0, <1>2, SlotTypes DEF Cancel, TypeOK, Fates, passVars
<1>3. ASSUME NEW a \in Alarm, Overflow(a) PROVE TypeOK'
  BY <1>0, <1>3, FateTypes DEF Overflow, TypeOK, Fates, passVars
<1>4. CASE Tick
  <2>1. due' \in [Alarm -> (-Hour)..Period]
    BY <1>0, <1>4, SlotTypes, LaterTypes DEF Tick, TypeOK
  <2>2. age' \in [Passes -> 0..Longest]
    BY <1>0, <1>4, AlarmsAssumption DEF Tick, TypeOK, Longest
  <2> QED BY <1>0, <1>4, <2>1, <2>2 DEF Tick, TypeOK
<1>5. CASE Drain
  BY <1>0, <1>5, FateTypes DEF Drain, TypeOK, Fates, passVars
<1>6. ASSUME NEW p \in Passes, Poll(p) PROVE TypeOK'
  BY <1>0, <1>6, AlarmsAssumption DEF Poll, TypeOK, Longest
<1>7. ASSUME NEW p \in Passes, FireEnds(p) PROVE TypeOK'
  <2>1. firing[p] \in Alarm
    BY <1>0, <1>7 DEF FireEnds, TypeOK
  <2>2. stored' \in SUBSET Alarm /\ due' \in [Alarm -> (-Hour)..Period]
    BY <1>0, <1>7, <2>1, PersistWrites DEF FireEnds, TypeOK
  <2>3. fate' \in [Alarm -> Fates]
    BY <1>0, <1>7, <2>1, HandledTypes DEF FireEnds
  <2> QED BY <1>0, <1>7, <2>2, <2>3 DEF FireEnds, TypeOK
<1>8. ASSUME NEW p \in Passes, StartService(p) PROVE TypeOK'
  BY <1>0, <1>8, FateTypes DEF StartService, TypeOK, Fates, passVars
<1>9. ASSUME NEW p \in Passes, NEW a \in Alarm, FireAwaits(p, a) PROVE TypeOK'
  BY <1>0, <1>9 DEF FireAwaits, TypeOK
<1>10. ASSUME NEW p \in Passes, NEW a \in Alarm, FireSkipped(p, a) PROVE TypeOK'
  <2>1. stored' \in SUBSET Alarm /\ due' \in [Alarm -> (-Hour)..Period]
    BY <1>0, <1>10, PersistWrites DEF FireSkipped, TypeOK
  <2>2. fate' \in [Alarm -> Fates]
    BY <1>0, <1>10, HandledTypes DEF FireSkipped
  <2> QED BY <1>0, <1>10, <2>1, <2>2 DEF FireSkipped, TypeOK
<1>11. ASSUME NEW p \in Passes, NEW a \in Alarm, FireThrows(p, a) PROVE TypeOK'
  BY <1>0, <1>11 DEF FireThrows, TypeOK
<1>12. CASE StopService
  BY <1>0, <1>12 DEF StopService, TypeOK, passVars
<1>13. CASE Crash
  BY <1>0, <1>13, AlarmsAssumption DEF Crash, TypeOK, Fates, Longest
<1>14. CASE UNCHANGED vars
  BY <1>0, <1>14 DEF vars, passVars, TypeOK
<1> QED BY <1>1, <1>2, <1>3, <1>4, <1>5, <1>6, <1>7, <1>8, <1>9, <1>10, <1>11, <1>12, <1>13, <1>14
        DEF Next

\* A step keeps what is said of each alarm x.
Sound(x) ==
  /\ fate[x] = "unset" => x \notin stored /\ \A p \in Passes : x \notin todo[p] /\ firing[p] # x
  /\ x \notin Repeating =>
       /\ \A p \in Passes : firing[p] = x /\ fate[x] = "set" => x \in queued
       /\ fate[x] = "set" => x \in stored
       /\ fate[x] = "handled" => x \in queued
  /\ fate[x] = "cancelled" => x \notin stored

LEMMA SoundIsInv == IInv <=> TypeOK /\ \A x \in Alarm : Sound(x)
BY DEF IInv, OnlySetAlarms, FiringIsQueued, OneShotKept, CancelledStaysGone, Sound

LEMMA NextSound == IInv /\ [Next]_vars => \A x \in Alarm : Sound(x)'
<1> SUFFICES ASSUME TypeOK, [Next]_vars, NEW x \in Alarm, Sound(x) PROVE Sound(x)'
  BY SoundIsInv
<1>1. ASSUME NEW a \in Alarm, SetAlarm(a) PROVE Sound(x)'
  BY <1>1 DEF SetAlarm, TypeOK, passVars, Sound
<1>2. ASSUME NEW a \in Alarm, Cancel(a) PROVE Sound(x)'
  BY <1>2 DEF Cancel, TypeOK, passVars, Sound
<1>3. ASSUME NEW a \in Alarm, Overflow(a) PROVE Sound(x)'
  BY <1>3, FateTypes DEF Overflow, TypeOK, Fates, passVars, Sound
<1>4. CASE Tick
  BY <1>4 DEF Tick, Sound
<1>5. CASE Drain
  BY <1>5, FateTypes DEF Drain, TypeOK, Fates, passVars, Sound
<1>6. ASSUME NEW p \in Passes, Poll(p) PROVE Sound(x)'
  BY <1>6 DEF Poll, TypeOK, Sound
<1>7. ASSUME NEW p \in Passes, FireEnds(p) PROVE Sound(x)'
  <2>1. firing[p] \in Alarm
    BY <1>7 DEF FireEnds, TypeOK
  <2>2. /\ stored' = IF firing[p] \in Repeating THEN stored ELSE stored \ {firing[p]}
        /\ fate'[x] = IF x = firing[p] /\ firing[p] \notin Repeating /\ fate[x] = "set"
                      THEN "handled" ELSE fate[x]
    BY <1>7, <2>1, PersistWrites, HandledTypes DEF FireEnds
  <2>3. \A q \in Passes : firing'[q] = x => firing[q] = x
    BY <1>7, AlarmsAssumption DEF FireEnds, TypeOK
  <2> QED BY <1>7, <2>1, <2>2, <2>3 DEF FireEnds, Sound
<1>8. ASSUME NEW p \in Passes, StartService(p) PROVE Sound(x)'
  BY <1>8, FateTypes DEF StartService, TypeOK, Fates, passVars, Sound
<1>9. ASSUME NEW p \in Passes, NEW a \in Alarm, FireAwaits(p, a) PROVE Sound(x)'
  BY <1>9 DEF FireAwaits, MayFire, TypeOK, Sound
<1>10. ASSUME NEW p \in Passes, NEW a \in Alarm, FireSkipped(p, a) PROVE Sound(x)'
  <2>1. /\ stored' = IF a \in Repeating THEN stored ELSE stored \ {a}
        /\ fate'[x] = IF x = a /\ a \notin Repeating /\ fate[a] = "set"
                      THEN "handled" ELSE fate[x]
    BY <1>10, PersistWrites, HandledTypes DEF FireSkipped
  <2> QED BY <1>10, <2>1 DEF FireSkipped, TypeOK, Sound
<1>11. ASSUME NEW p \in Passes, NEW a \in Alarm, FireThrows(p, a) PROVE Sound(x)'
  BY <1>11 DEF FireThrows, MayFire, TypeOK, Sound
<1>12. CASE StopService
  BY <1>12 DEF StopService, passVars, Sound
<1>13. CASE Crash
  BY <1>13, AlarmsAssumption DEF Crash, TypeOK, Sound
<1>14. CASE UNCHANGED vars
  BY <1>14 DEF vars, passVars, Sound
<1> QED BY <1>1, <1>2, <1>3, <1>4, <1>5, <1>6, <1>7, <1>8, <1>9, <1>10, <1>11, <1>12, <1>13, <1>14
        DEF Next

-----------------------------------------------------------------------------
\* The invariant of the store and the alarms being fired holds in every reachable state.
THEOREM Invariance == Spec => []IInv
<1>1. IInv /\ [Next]_vars => IInv'
  <2> SUFFICES ASSUME IInv, [Next]_vars PROVE IInv'
    OBVIOUS
  <2>1. TypeOK' /\ \A x \in Alarm : Sound(x)'
    BY NextTypes, NextSound
  <2> QED BY <2>1 DEF IInv, OnlySetAlarms, FiringIsQueued, OneShotKept, CancelledStaysGone, Sound
<1> QED BY <1>1, InitIInv, PTL DEF Spec

\* Every variable keeps its type; the clocks keep their range.
THEOREM AlarmTypes == Spec => []TypeOK
<1>1. IInv => TypeOK
  BY DEF IInv
<1> QED BY <1>1, Invariance, PTL

\* A one-shot is in the store until its handler has resolved, and its event in the
\* queue until it is put into a prompt, dropped by the cap or lost in a crash
\* (checkOnce, fireAlarm).
THEOREM OneShotsAreKept == Spec => []OneShotKept
<1>1. IInv => OneShotKept
  BY DEF IInv
<1> QED BY <1>1, Invariance, PTL

\* No pass stores an alarm again that was cancelled (checkOnce).
THEOREM CancelledAlarmsStayGone == Spec => []CancelledStaysGone
<1>1. IInv => CancelledStaysGone
  BY DEF IInv
<1> QED BY <1>1, Invariance, PTL
=============================================================================
