--------------------------- MODULE EventPumpProofs ---------------------------
(***************************************************************************)
(* Theorems about EventPump, for every set of sessions, texts, loops and   *)
(* actors, every cap of the queue and all bounds.                          *)
(***************************************************************************)
EXTENDS EventPump, FiniteSetTheorems, TLAPS

Active == {l \in Loops : batch[l] # {}}

\* A loop handles wakes of its batch; a loop that is over has none left.
LeftOfBatch == \A l \in Loops : left[l] \subseteq batch[l]

\* Every loop alive was let in by a handler that was set, and a handler that has
\* no loop running has one more to let in.
LoopsPaidFor ==
  /\ IsFiniteSet(Active)
  /\ Cardinality(Active) <= used.handlers
  /\ handler /\ ~running => Cardinality(Active) + 1 <= used.handlers

IInv == TypeOK /\ LeftOfBatch /\ NoStrandedWake /\ EventsBacked /\ LoopsPaidFor

-----------------------------------------------------------------------------
\* A use of a bounded counter keeps the counters' types, and raises that one.
LEMMA UseTypes ==
  ASSUME TypeOK, NEW what \in {"handlers", "notices", "turns", "throws"}, NEW max,
         max = (CASE what = "handlers" -> MaxHandlers [] what = "notices" -> MaxNotices
                  [] what = "turns" -> MaxTurns [] what = "throws" -> MaxThrows),
         Use(what, max)
  PROVE  /\ used' \in [handlers : 0..MaxHandlers, notices : 0..MaxNotices, turns : 0..MaxTurns,
                       throws : 0..MaxThrows]
         /\ used'.handlers = IF what = "handlers" THEN used.handlers + 1 ELSE used.handlers
<1> DEFINE U == [handlers : 0..MaxHandlers, notices : 0..MaxNotices, turns : 0..MaxTurns,
                 throws : 0..MaxThrows]
<1>1. used \in U /\ used[what] < max /\ used' = [used EXCEPT ![what] = used[what] + 1]
  BY DEF TypeOK, Use
<1>2. MaxHandlers \in Nat /\ MaxNotices \in Nat /\ MaxTurns \in Nat /\ MaxThrows \in Nat
  BY PumpBoundsAssumption
<1>3. CASE what = "handlers"
  BY <1>1, <1>2, <1>3
<1>4. CASE what = "notices"
  BY <1>1, <1>2, <1>4
<1>5. CASE what = "turns"
  BY <1>1, <1>2, <1>5
<1>6. CASE what = "throws"
  BY <1>1, <1>2, <1>6
<1> QED BY <1>3, <1>4, <1>5, <1>6

\* The cap of the queue of events holds.
LEMMA EnqueuedTypes ==
  ASSUME NEW q \in Seq(Texts), Len(q) <= MaxEvents, NEW t \in Texts
  PROVE  Enqueued(q, t) \in Seq(Texts) /\ Len(Enqueued(q, t)) <= MaxEvents
<1> DEFINE rest == IF Len(q) = MaxEvents THEN Tail(q) ELSE q
<1>1. CASE q # <<>> /\ q[Len(q)] = t
  BY <1>1 DEF Enqueued
<1>2. CASE ~(q # <<>> /\ q[Len(q)] = t)
  <2>1. Enqueued(q, t) = Append(rest, t)
    BY <1>2 DEF Enqueued
  <2>2. rest \in Seq(Texts) /\ Len(rest) + 1 <= MaxEvents
    <3>1. CASE Len(q) = MaxEvents
      <4>1. q # <<>>
        BY <3>1, PumpAssumption
      <4>2. Tail(q) \in Seq(Texts) /\ Len(Tail(q)) = Len(q) - 1
        BY <4>1
      <4> QED BY <3>1, <4>2, PumpAssumption
    <3>2. CASE Len(q) # MaxEvents
      BY <3>2, PumpAssumption
    <3> QED BY <3>1, <3>2
  <2> HIDE DEF rest
  <2> QED BY <2>1, <2>2
<1> QED BY <1>1, <1>2

-----------------------------------------------------------------------------
\* The set of active loops when one begins or is over.
LEMMA ActiveBegins ==
  ASSUME TypeOK, LoopsPaidFor, NEW l \in Loops, batch[l] = {}, NEW b \in SUBSET Sessions, b # {},
         batch' = [batch EXCEPT ![l] = b]
  PROVE  IsFiniteSet(Active') /\ Cardinality(Active') = Cardinality(Active) + 1
<1>1. Active' = Active \cup {l} /\ l \notin Active
  BY DEF TypeOK, Active
<1> QED BY <1>1, FS_AddElement DEF LoopsPaidFor

LEMMA ActiveEnds ==
  ASSUME TypeOK, LoopsPaidFor, NEW l \in Loops, batch[l] # {},
         batch' = [batch EXCEPT ![l] = {}]
  PROVE  IsFiniteSet(Active') /\ Cardinality(Active') + 1 = Cardinality(Active)
<1>1. Active' = Active \ {l} /\ l \in Active
  BY DEF TypeOK, Active
<1>2. IsFiniteSet(Active') /\ Cardinality(Active') = Cardinality(Active) - 1
  BY <1>1, FS_RemoveElement DEF LoopsPaidFor
<1>3. Cardinality(Active) \in Nat
  BY FS_CardinalityType DEF LoopsPaidFor
<1> QED BY <1>2, <1>3

-----------------------------------------------------------------------------
\* A process that begins has no wake, no timer and no batch loop: the invariant holds.
THEOREM InitIInv == Init => IInv
<1> SUFFICES ASSUME Init PROVE IInv
  OBVIOUS
<1>1. TypeOK
  <2>1. used \in [handlers : 0..MaxHandlers, notices : 0..MaxNotices, turns : 0..MaxTurns,
                  throws : 0..MaxThrows]
    BY PumpBoundsAssumption DEF Init
  <2>2. /\ events \in [Sessions -> Seq(Texts)] /\ \A s \in Sessions : Len(events[s]) <= MaxEvents
        /\ stage \in [Actors -> Stages] /\ session \in [Actors -> Sessions]
    BY PumpAssumption DEF Init, Stages
  <2> QED BY <2>1, <2>2 DEF Init, TypeOK
<1>2. LeftOfBatch /\ NoStrandedWake /\ EventsBacked
  BY DEF Init, LeftOfBatch, NoStrandedWake, EventsBacked
<1>3. Active = {}
  BY DEF Init, Active
<1>4. LoopsPaidFor
  BY <1>3, FS_EmptySet DEF Init, LoopsPaidFor
<1> QED BY <1>1, <1>2, <1>4 DEF IInv

\* A step keeps the types.
LEMMA NextTypes == IInv /\ [Next]_vars => TypeOK'
<1> SUFFICES ASSUME IInv, [Next]_vars PROVE TypeOK'
  OBVIOUS
<1> USE PumpAssumption, PumpBoundsAssumption DEF IInv
<1>0. \A s \in Sessions : WokenFor(s) \subseteq Sessions /\ Pumped(s) \in Sessions
  BY DEF WokenFor, Pumped
<1>1. ASSUME NEW s \in Sessions, NEW t \in Texts, Notify(s, t) PROVE TypeOK'
  BY <1>0, <1>1, UseTypes, EnqueuedTypes
  DEF Notify, RequestWake, TypeOK, loopVars, turnVars
<1>2. ASSUME NEW f \in Fires, NEW s \in Sessions, NEW t \in Texts, FirePumps(f, s, t)
      PROVE  TypeOK'
  BY <1>0, <1>2, UseTypes, EnqueuedTypes
  DEF FirePumps, Ask, TypeOK, Stages, Actors, loopVars, wakeVars
<1>3. ASSUME NEW f \in Fires, NEW s \in Sessions, NEW t \in Texts, FireSkipped(f, s, t)
      PROVE  TypeOK'
  BY <1>0, <1>3, UseTypes, EnqueuedTypes
  DEF FireSkipped, RequestWake, TypeOK, loopVars, turnVars
<1>10. ASSUME NEW f \in Fires, NEW s \in Sessions, NEW t \in Texts, FireThrows(f, s, t)
       PROVE  TypeOK'
  <2> DEFINE U == [handlers : 0..MaxHandlers, notices : 0..MaxNotices, turns : 0..MaxTurns,
                   throws : 0..MaxThrows]
  <2>2. used \in U
    BY DEF TypeOK
  <2>3. used.notices + 1 \in 0..MaxNotices /\ used.throws + 1 \in 0..MaxThrows
    BY <1>10, <2>2 DEF FireThrows
  <2>1. used' \in U
    BY <1>10, <2>2, <2>3 DEF FireThrows
  <2> QED BY <1>10, <2>1, EnqueuedTypes DEF FireThrows, TypeOK, loopVars, turnVars, wakeVars
<1>4. CASE SetWakeHandler
  BY <1>4, UseTypes DEF SetWakeHandler, TypeOK, loopVars, turnVars
<1>5. CASE Dispose
  BY <1>5 DEF Dispose, TypeOK, loopVars, turnVars
<1>6. ASSUME NEW l \in Loops, LoopStep(l) PROVE TypeOK'
  <2>1. CASE TimerFires(l)
    BY <2>1 DEF TimerFires, TypeOK, loopVars, turnVars
  <2>2. CASE LoopEnds(l)
    BY <2>2 DEF LoopEnds, LoopIsOver, TypeOK, turnVars
  <2>3. ASSUME NEW s \in Sessions, WakeSkipped(l, s) PROVE TypeOK'
    BY <2>3 DEF WakeSkipped, RequestWake, TypeOK, wakeVars, turnVars
  <2>4. ASSUME NEW s \in Sessions, WakePumps(l, s) PROVE TypeOK'
    BY <1>0, <2>4 DEF WakePumps, Ask, TypeOK, Stages, Actors, wakeVars
  <2>5. ASSUME NEW s \in Sessions, WakeThrows(l, s) PROVE TypeOK'
    BY <2>5, UseTypes DEF WakeThrows, LoopIsOver, TypeOK, turnVars
  <2> QED BY <1>6, <2>1, <2>2, <2>3, <2>4, <2>5 DEF LoopStep
<1>7. ASSUME NEW g \in Guests, NEW s \in Sessions, TurnStarts(g, s) PROVE TypeOK'
  BY <1>7, UseTypes DEF TurnStarts, TypeOK, Stages, Actors, loopVars, wakeVars
<1>8. ASSUME NEW a \in Actors, TurnStep(a) PROVE TypeOK'
  <2>1. CASE Drain(a)
    BY <2>1 DEF Drain, TypeOK, Stages, loopVars, wakeVars
  <2>2. CASE EnterLane(a)
    BY <2>2 DEF EnterLane, TypeOK, Stages, loopVars, wakeVars
  <2>3. CASE TurnEnds(a)
    BY <2>3 DEF TurnEnds, TypeOK, Stages, loopVars, wakeVars
  <2> QED BY <1>8, <2>1, <2>2, <2>3 DEF TurnStep
<1>9. CASE UNCHANGED vars
  BY <1>9 DEF vars, TypeOK
<1> QED BY <1>1, <1>2, <1>3, <1>4, <1>5, <1>6, <1>7, <1>8, <1>9, <1>10 DEF Next

-----------------------------------------------------------------------------
\* A step keeps each further part of the invariant.
LEMMA NextLeft == IInv /\ [Next]_vars => LeftOfBatch'
<1> SUFFICES ASSUME IInv, [Next]_vars PROVE LeftOfBatch'
  OBVIOUS
<1> USE DEF IInv, LeftOfBatch
<1>1. CASE UNCHANGED loopVars
  BY <1>1 DEF loopVars
<1>2. ASSUME NEW l \in Loops, LoopStep(l) PROVE LeftOfBatch'
  BY <1>2 DEF LoopStep, TimerFires, LoopEnds, WakeSkipped, WakePumps, WakeThrows, LoopIsOver,
             TypeOK, loopVars
<1>3. ASSUME NEW a \in Actors, TurnStep(a) PROVE UNCHANGED loopVars
  BY <1>3 DEF TurnStep, Drain, EnterLane, TurnEnds, loopVars
<1> QED BY <1>1, <1>2, <1>3
        DEF Next, Notify, FirePumps, FireSkipped, FireThrows, SetWakeHandler, Dispose, TurnStarts, vars, loopVars

LEMMA NextStranded == IInv /\ [Next]_vars => NoStrandedWake'
<1> SUFFICES ASSUME IInv, [Next]_vars PROVE NoStrandedWake'
  OBVIOUS
<1> USE DEF IInv, NoStrandedWake
<1>1. CASE UNCHANGED <<wakeVars, loopVars>>
  BY <1>1 DEF wakeVars, loopVars
<1>2. ASSUME NEW s, RequestWake(s) PROVE NoStrandedWake'
  BY <1>2 DEF RequestWake
<1>3. CASE SetWakeHandler
  BY <1>3 DEF SetWakeHandler
<1>4. CASE Dispose
  BY <1>4 DEF Dispose
<1>5. ASSUME NEW l \in Loops, LoopStep(l) PROVE NoStrandedWake'
  <2>1. CASE TimerFires(l)
    BY <2>1 DEF TimerFires, loopVars
  <2>2. CASE LoopEnds(l)
    BY <2>2 DEF LoopEnds
  <2>3. ASSUME NEW s \in Sessions, WakeSkipped(l, s) PROVE NoStrandedWake'
    BY <1>2, <2>3 DEF WakeSkipped, wakeVars
  <2>4. ASSUME NEW s \in Sessions, WakePumps(l, s) PROVE NoStrandedWake'
    BY <2>4 DEF WakePumps, wakeVars
  <2>5. ASSUME NEW s \in Sessions, WakeThrows(l, s) PROVE NoStrandedWake'
    BY <2>5 DEF WakeThrows
  <2> QED BY <1>5, <2>1, <2>2, <2>3, <2>4, <2>5 DEF LoopStep
<1>6. ASSUME NEW a \in Actors, TurnStep(a) PROVE UNCHANGED <<wakeVars, loopVars>>
  BY <1>6 DEF TurnStep, Drain, EnterLane, TurnEnds
<1>7. ASSUME NEW s \in Sessions, NEW t \in Texts, Notify(s, t) PROVE NoStrandedWake'
  BY <1>2, <1>7 DEF Notify
<1>8. ASSUME NEW f \in Fires, NEW s \in Sessions, NEW t \in Texts,
             FirePumps(f, s, t) \/ FireSkipped(f, s, t) \/ FireThrows(f, s, t)
      PROVE  NoStrandedWake'
  BY <1>1, <1>2, <1>8 DEF FirePumps, FireSkipped, FireThrows
<1>9. CASE UNCHANGED vars
  BY <1>1, <1>9 DEF vars, wakeVars, loopVars
<1> QED BY <1>1, <1>3, <1>4, <1>5, <1>6, <1>7, <1>8, <1>9 DEF Next, TurnStarts

LEMMA NextPaid == IInv /\ [Next]_vars => LoopsPaidFor'
<1> SUFFICES ASSUME IInv, [Next]_vars PROVE LoopsPaidFor'
  OBVIOUS
<1> USE DEF IInv
<1>0. Cardinality(Active) \in Nat /\ used.handlers \in Nat
  BY FS_CardinalityType DEF LoopsPaidFor, TypeOK
<1>1. ASSUME UNCHANGED <<handler, running, batch>>, used'.handlers = used.handlers
      PROVE  LoopsPaidFor'
  <2>1. Active' = Active
    BY <1>1 DEF Active
  <2> QED BY <1>1, <2>1 DEF LoopsPaidFor
<1>2. ASSUME NEW what \in {"notices", "turns", "throws"}, NEW max,
             max = (CASE what = "handlers" -> MaxHandlers [] what = "notices" -> MaxNotices
                      [] what = "turns" -> MaxTurns [] what = "throws" -> MaxThrows),
             Use(what, max)
      PROVE  used'.handlers = used.handlers
  BY <1>2, UseTypes
<1>3. ASSUME NEW s \in Sessions, NEW t \in Texts, Notify(s, t) PROVE LoopsPaidFor'
  BY <1>1, <1>2, <1>3 DEF Notify, RequestWake, loopVars
<1>4. ASSUME NEW f \in Fires, NEW s \in Sessions, NEW t \in Texts,
             FirePumps(f, s, t) \/ FireSkipped(f, s, t) \/ FireThrows(f, s, t)
      PROVE  LoopsPaidFor'
  <2>1. CASE FireThrows(f, s, t)
    BY <1>1, <2>1 DEF FireThrows, TypeOK, loopVars, wakeVars
  <2> QED BY <1>1, <1>2, <1>4, <2>1 DEF FirePumps, FireSkipped, RequestWake, loopVars, wakeVars
<1>5. CASE SetWakeHandler
  <2>1. used'.handlers = used.handlers + 1
    BY <1>5, UseTypes DEF SetWakeHandler
  <2>2. Active' = Active
    BY <1>5 DEF SetWakeHandler, loopVars, Active
  <2> QED BY <1>0, <2>1, <2>2 DEF LoopsPaidFor
<1>6. CASE Dispose
  <2>1. Active' = Active
    BY <1>6 DEF Dispose, loopVars, Active
  <2> QED BY <1>6, <2>1 DEF LoopsPaidFor, Dispose
<1>7. ASSUME NEW l \in Loops, LoopStep(l) PROVE LoopsPaidFor'
  <2>1. ASSUME batch[l] # {}, LoopIsOver(l), running' = FALSE, used'.handlers = used.handlers,
               UNCHANGED handler
        PROVE  LoopsPaidFor'
    <3>1. IsFiniteSet(Active') /\ Cardinality(Active') + 1 = Cardinality(Active)
      BY <2>1, ActiveEnds DEF LoopIsOver
    <3>2. Cardinality(Active') \in Nat
      BY <3>1, FS_CardinalityType
    <3> QED BY <1>0, <2>1, <3>1, <3>2 DEF LoopsPaidFor
  <2>2. CASE TimerFires(l)
    <3>1. CASE handler /\ ~running /\ pending # {}
      <4>1. IsFiniteSet(Active') /\ Cardinality(Active') = Cardinality(Active) + 1
        BY <2>2, <3>1, ActiveBegins DEF TimerFires, TypeOK
      <4> QED BY <1>0, <2>2, <3>1, <4>1 DEF TimerFires, LoopsPaidFor
    <3>2. CASE ~(handler /\ ~running /\ pending # {})
      BY <1>1, <2>2, <3>2 DEF TimerFires, loopVars
    <3> QED BY <3>1, <3>2
  <2>3. CASE LoopEnds(l)
    BY <2>1, <2>3 DEF LoopEnds
  <2>4. ASSUME NEW s \in Sessions, WakeSkipped(l, s) PROVE LoopsPaidFor'
    BY <1>1, <2>4 DEF WakeSkipped, RequestWake, wakeVars
  <2>5. ASSUME NEW s \in Sessions, WakePumps(l, s) PROVE LoopsPaidFor'
    BY <1>1, <2>5 DEF WakePumps, wakeVars
  <2>6. ASSUME NEW s \in Sessions, WakeThrows(l, s) PROVE LoopsPaidFor'
    BY <1>2, <2>1, <2>6 DEF WakeThrows, Handles
  <2> QED BY <1>7, <2>2, <2>3, <2>4, <2>5, <2>6 DEF LoopStep
<1>8. ASSUME NEW g \in Guests, NEW s \in Sessions, TurnStarts(g, s) PROVE LoopsPaidFor'
  BY <1>1, <1>2, <1>8 DEF TurnStarts, wakeVars, loopVars
<1>9. ASSUME NEW a \in Actors, TurnStep(a) PROVE LoopsPaidFor'
  BY <1>1, <1>9 DEF TurnStep, Drain, EnterLane, TurnEnds, wakeVars, loopVars
<1>10. CASE UNCHANGED vars
  BY <1>1, <1>10 DEF vars
<1> QED BY <1>3, <1>4, <1>5, <1>6, <1>7, <1>8, <1>9, <1>10 DEF Next

-----------------------------------------------------------------------------
\* What an event of s may wait for.
Asked(s) == \E a \in Loops \cup Fires : stage[a] = "asked" /\ session[a] = s
Backed(s) == Owed(s) \/ s \in stuck \/ Asked(s)

LEMMA NextBacked == IInv /\ [Next]_vars => EventsBacked'
<1> SUFFICES ASSUME IInv, [Next]_vars, NEW x \in Sessions \ (Subagents \cup Bare), events'[x] # <<>>
             PROVE  Backed(x)'
  BY DEF EventsBacked, Backed, Asked
<1>0. TypeOK /\ LeftOfBatch /\ (events[x] # <<>> => Backed(x))
  BY DEF IInv, EventsBacked, Backed, Asked
<1>a. ASSUME UNCHANGED <<pending, left>> PROVE Owed(x) => Owed(x)'
  BY <1>a DEF Owed
<1>b. ASSUME NEW s \in Sessions, NEW w \in WokenFor(s), RequestWake(w), UNCHANGED left
      PROVE  (x = s => Owed(x)') /\ (Owed(x) => Owed(x)')
  BY <1>b DEF Owed, RequestWake, WokenFor
<1>c. ASSUME NEW a \in Actors, NEW s \in Sessions, stage[a] = "none", Ask(a, s)
      PROVE  (a \in Loops \cup Fires /\ x = s => Asked(x)') /\ (Asked(x) => Asked(x)')
  BY <1>0, <1>c DEF Ask, Asked, TypeOK, Actors, Pumped
<1>d. ASSUME UNCHANGED <<stage, session>> PROVE Asked(x) => Asked(x)'
  BY <1>d DEF Asked
<1>1. ASSUME NEW s \in Sessions, NEW t \in Texts, Notify(s, t) PROVE Backed(x)'
  <2>1. (x = s => Owed(x)') /\ (Owed(x) => Owed(x)') /\ (Asked(x) => Asked(x)') /\ stuck' = stuck
    BY <1>1, <1>b, <1>d DEF Notify, loopVars, turnVars
  <2>2. x # s => events'[x] = events[x]
    BY <1>0, <1>1 DEF Notify, TypeOK
  <2> QED BY <1>0, <2>1, <2>2 DEF Backed
<1>2. ASSUME NEW f \in Fires, NEW s \in Sessions, NEW t \in Texts, FirePumps(f, s, t)
      PROVE  Backed(x)'
  <2>1. (x = s => Asked(x)') /\ (Owed(x) => Owed(x)') /\ (Asked(x) => Asked(x)') /\ stuck' = stuck
    BY <1>2, <1>a, <1>c DEF FirePumps, Actors, wakeVars, loopVars
  <2>2. x # s => events'[x] = events[x]
    BY <1>0, <1>2 DEF FirePumps, TypeOK
  <2> QED BY <1>0, <2>1, <2>2 DEF Backed
<1>3. ASSUME NEW f \in Fires, NEW s \in Sessions, NEW t \in Texts, FireSkipped(f, s, t)
      PROVE  Backed(x)'
  <2>1. (x = s => Owed(x)') /\ (Owed(x) => Owed(x)') /\ (Asked(x) => Asked(x)') /\ stuck' = stuck
    BY <1>3, <1>b, <1>d DEF FireSkipped, loopVars, turnVars
  <2>2. x # s => events'[x] = events[x]
    BY <1>0, <1>3 DEF FireSkipped, TypeOK
  <2> QED BY <1>0, <2>1, <2>2 DEF Backed
<1>9. ASSUME NEW f \in Fires, NEW s \in Sessions, NEW t \in Texts, FireThrows(f, s, t)
      PROVE  Backed(x)'
  <2>1. (Owed(x) => Owed(x)') /\ (Asked(x) => Asked(x)') /\ stuck' = stuck \cup {s}
    BY <1>9, <1>a, <1>d DEF FireThrows, wakeVars, loopVars, turnVars
  <2>2. x # s => events'[x] = events[x]
    BY <1>0, <1>9 DEF FireThrows, TypeOK
  <2> QED BY <1>0, <2>1, <2>2 DEF Backed
<1>4. CASE SetWakeHandler \/ Dispose
  BY <1>0, <1>4, <1>a, <1>d DEF SetWakeHandler, Dispose, loopVars, turnVars, Backed
<1>5. ASSUME NEW l \in Loops, LoopStep(l) PROVE Backed(x)'
  <2>1. UNCHANGED <<events, stuck>>
    BY <1>5 DEF LoopStep, TimerFires, LoopEnds, WakeSkipped, WakePumps, WakeThrows
  <2>2. ASSUME Owed(x) => Owed(x)', UNCHANGED turnVars PROVE Backed(x)'
    BY <1>0, <1>d, <2>1, <2>2 DEF Backed, turnVars
  <2>3. CASE TimerFires(l)
    <3>1. CASE handler /\ ~running /\ pending # {}
      <4>1. left' = [left EXCEPT ![l] = pending] /\ left[l] = {}
        BY <1>0, <2>3, <3>1 DEF TimerFires, LeftOfBatch
      <4>2. Owed(x) => Owed(x)'
        BY <1>0, <4>1 DEF Owed, TypeOK
      <4> QED BY <2>2, <2>3, <4>2 DEF TimerFires
    <3>2. CASE ~(handler /\ ~running /\ pending # {})
      BY <1>a, <2>2, <2>3, <3>2 DEF TimerFires, loopVars
    <3> QED BY <3>1, <3>2
  <2>4. CASE LoopEnds(l)
    <3>1. Owed(x) => Owed(x)'
      BY <1>0, <2>4 DEF LoopEnds, LoopIsOver, Owed, TypeOK
    <3> QED BY <2>2, <2>4, <3>1 DEF LoopEnds
  <2>5. ASSUME NEW s \in Sessions, WakeSkipped(l, s) PROVE Backed(x)'
    <3>1. CASE RequestsInFlight
      <4>1. Owed(x) => Owed(x)'
        BY <1>0, <2>5, <3>1 DEF WakeSkipped, RequestWake, Owed, TypeOK
      <4> QED BY <2>2, <2>5, <4>1 DEF WakeSkipped
    <3>2. CASE ~RequestsInFlight
      <4>1. events[Pumped(s)] = <<>>
        BY <2>5, <3>2 DEF WakeSkipped, MayPump
      <4>2. x # s
        BY <2>1, <4>1 DEF Pumped
      <4>3. Owed(x) => Owed(x)'
        BY <1>0, <2>5, <3>2, <4>2 DEF WakeSkipped, Owed, TypeOK, wakeVars
      <4> QED BY <2>2, <2>5, <4>3 DEF WakeSkipped
    <3> QED BY <3>1, <3>2
  <2>6. ASSUME NEW s \in Sessions, WakePumps(l, s) PROVE Backed(x)'
    <3>1. (x = s => Asked(x)') /\ (Asked(x) => Asked(x)')
      BY <1>c, <2>6 DEF WakePumps, Handles, Actors
    <3>2. x # s /\ Owed(x) => Owed(x)'
      BY <1>0, <2>6 DEF WakePumps, Owed, TypeOK, wakeVars
    <3> QED BY <1>0, <2>1, <3>1, <3>2 DEF Backed
  <2>7. ASSUME NEW s \in Sessions, WakeThrows(l, s) PROVE Backed(x)'
    <3>1. Owed(x) => Owed(x)'
      BY <1>0, <2>7 DEF WakeThrows, LoopIsOver, Owed, TypeOK, LeftOfBatch
    <3> QED BY <2>2, <2>7, <3>1 DEF WakeThrows
  <2> QED BY <1>5, <2>3, <2>4, <2>5, <2>6, <2>7 DEF LoopStep
<1>6. ASSUME NEW g \in Guests, NEW s \in Sessions, TurnStarts(g, s) PROVE Backed(x)'
  <2>1. (Owed(x) => Owed(x)') /\ UNCHANGED <<stuck, events>>
    BY <1>6, <1>a DEF TurnStarts, wakeVars, loopVars
  <2>3. Asked(x) => Asked(x)'
    BY <1>0, <1>6 DEF TurnStarts, Asked, TypeOK, Actors
  <2> QED BY <1>0, <2>1, <2>3 DEF Backed
<1>7. ASSUME NEW a \in Actors, TurnStep(a) PROVE Backed(x)'
  <2>0. Owed(x) => Owed(x)'
    BY <1>7, <1>a DEF TurnStep, Drain, EnterLane, TurnEnds, wakeVars, loopVars
  <2>1. CASE Drain(a)
    <3>1. x # session[a] /\ events'[x] = events[x]
      BY <1>0, <2>1 DEF Drain, TypeOK
    <3>2. (Asked(x) => Asked(x)') /\ (x \in stuck => x \in stuck')
      BY <1>0, <2>1, <3>1 DEF Drain, Asked, TypeOK, Actors
    <3> QED BY <1>0, <2>0, <3>1, <3>2 DEF Backed
  <2>2. CASE EnterLane(a)
    <3>1. Asked(x) => Asked(x)'
      BY <1>0, <2>2 DEF EnterLane, Asked, TypeOK, Actors
    <3> QED BY <1>0, <2>0, <2>2, <3>1 DEF Backed, EnterLane
  <2>3. CASE TurnEnds(a)
    <3>1. CASE x = session[a] /\ a \notin Guests /\ stage[a] = "asked"
      BY <2>3, <3>1 DEF TurnEnds, Backed
    <3>2. CASE ~(x = session[a] /\ a \notin Guests /\ stage[a] = "asked")
      <4>1. Asked(x) => Asked(x)'
        BY <1>0, <2>3, <3>2, PumpAssumption DEF TurnEnds, Asked, TypeOK, Actors
      <4>2. x \in stuck => x \in stuck'
        BY <2>3 DEF TurnEnds
      <4> QED BY <1>0, <2>0, <2>3, <4>1, <4>2 DEF Backed, TurnEnds
    <3> QED BY <3>1, <3>2
  <2> QED BY <1>7, <2>1, <2>2, <2>3 DEF TurnStep
<1>8. CASE UNCHANGED vars
  BY <1>0, <1>8, <1>a, <1>d DEF vars, Backed
<1> QED BY <1>1, <1>2, <1>3, <1>4, <1>5, <1>6, <1>7, <1>8, <1>9 DEF Next

-----------------------------------------------------------------------------
\* The invariant of the coalescer and the queues of events holds in every reachable state.
THEOREM Invariance == Spec => []IInv
<1>1. IInv /\ [Next]_vars => IInv'
  BY NextTypes, NextLeft, NextStranded, NextBacked, NextPaid DEF IInv
<1> QED BY <1>1, InitIInv, PTL DEF Spec

\* Every variable keeps its type; the queue of events keeps its cap
\* (enqueueSystemEvent).
THEOREM PumpTypes == Spec => []TypeOK
<1>1. IInv => TypeOK
  BY DEF IInv
<1> QED BY <1>1, Invariance, PTL

\* While a handler is set, a wake that is asked for has a timer or a batch loop
\* (requestWakeNow, schedule, the loop's finally, setWakeHandler).
THEOREM NoWakeIsStranded == Spec => []NoStrandedWake
<1>1. IInv => NoStrandedWake
  BY DEF IInv
<1> QED BY <1>1, Invariance, PTL

\* An event of an agent's own session waits only for a wake that is owed or a run
\* that is to drain it, or for a session whose run failed or threw
\* (enqueueSystemEvent, runEventPumpOnce).
THEOREM EventsAreBacked == Spec => []EventsBacked
<1>1. IInv => EventsBacked
  BY DEF IInv
<1> QED BY <1>1, Invariance, PTL

\* There are never more batch loops than handlers were set (setWakeHandler,
\* schedule).
THEOREM LoopsAreBounded == Spec => []LoopsBounded
<1>1. IInv => LoopsBounded
  BY DEF IInv, LoopsPaidFor, Active, LoopsBounded
<1> QED BY <1>1, Invariance, PTL
=============================================================================
