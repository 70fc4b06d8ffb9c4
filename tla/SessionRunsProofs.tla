--------------------------- MODULE SessionRunsProofs ---------------------------
(***************************************************************************)
(* Theorems about SessionRuns, for every finite set of session keys, and   *)
(* any sets of turns and callers.                                          *)
(***************************************************************************)
EXTENDS SessionRuns, FiniteSetTheorems, TLAPS

\* Where a turn is tells what it has: a session id once it has read the store, an
\* operation from its begin to its completion, an embedded run only meanwhile.
TurnsInOrder ==
  \A t \in Turns :
    /\ pc[t] \notin {"new", "interrupting", "waiting"} => sidOf[t] \in Sids
    /\ pc[t] \in {"began", "flushing", "running", "failing", "unwinding"} <=> op[t].phase # "none"
    /\ op[t].phase = "none" => op[t] = NoOperation
    /\ op[t].phase # "none" => op[t].sid \in Sids
    /\ op[t].cleared => op[t].result # "none"
    /\ op[t].result # "none" => op[t].aborted \/ op[t].cleared
    /\ run[t] # "out" => pc[t] \in {"flushing", "running", "plain"}

\* The session ids a key is known by: in the store, by a turn, by an operation, or
\* by a wait for what the operation was.
Uses(k) == {s \in Sids : \/ store[k] = s \/ waitKeyAt[s] = k
                         \/ \E t \in Turns : KeyOf[t] = k /\ (sidOf[t] = s \/ op[t].sid = s)}

\* Two keys are never known by one id, and no key by an id yet to be issued.
IdsApart ==
  /\ \A k \in Keys : Uses(k) \subseteq 1..issued
  /\ \A k, l \in Keys : k # l => Uses(k) \cap Uses(l) = {}

\* A key is taken by the one operation of its own that has not been cleared.
Registered == \A k \in Keys, t \in Turns : runAt[k] = t <=> KeyOf[t] = k /\ Holding(t)

\* The lane of a key has one task.
LaneExclusive ==
  \A t, u \in Turns :
    KeyOf[t] = KeyOf[u] /\ run[t] \notin {"out", "queued"} /\ run[u] \notin {"out", "queued"} => t = u

\* The handle of an attempt is found by the session id of its turn.
HandlesHeld == \A t \in Turns : run[t] \in InAttempt => handleAt[sidOf[t]] = t

IInv == /\ TypeOK /\ TurnsInOrder /\ IdsApart /\ Registered /\ IndexesAgree
        /\ WaitersBacked /\ AbortedRunsNothing /\ LaneExclusive /\ HandlesHeld

\* The invariant, with the types of the waits told apart.
WaitTypes ==
  /\ waitKey \in [Waiters -> Keys \cup {NoKey}]
  /\ waitSid \in [Waiters -> Sids \cup {NoSid}]
  /\ answer \in [Waiters -> {"none", "ended", "late", "used"}]

\* Steps that leave every registration of a key alone.
QuietStep(t) ==
  \/ Arrive(t) \/ Reread(t) \/ Recheck(t) \/ Leave(t) \/ Maintain(t) \/ SetRunning(t)
  \/ AskLane(t) \/ EnterLane(t) \/ LeaveLane(t) \/ Attach(t) \/ Prompt(t) \/ Settle(t)
  \/ RunTimeout(t) \/ EndAttempt(t) \/ ResetSession(t) \/ UpstreamAbort(t)

-----------------------------------------------------------------------------
(* Edits of one operation. *)

LEMMA OpEdited ==
  ASSUME TypeOK, NEW t \in Turns, NEW o \in Operations, op' = [op EXCEPT ![t] = o]
  PROVE  op' \in [Turns -> Operations] /\ op'[t] = o /\ \A u \in Turns \ {t} : op'[u] = op[u]
BY DEF TypeOK

LEMMA PhaseSet ==
  ASSUME TypeOK, NEW t \in Turns, NEW phase \in Phases, op' = InPhase(t, phase)
  PROVE  /\ op' \in [Turns -> Operations]
         /\ \A u \in Turns \ {t} : op'[u] = op[u]
         /\ op'[t].phase = IF op[t].result = "none" THEN phase ELSE op[t].phase
         /\ op'[t].sid = op[t].sid /\ op'[t].result = op[t].result
         /\ op'[t].cleared = op[t].cleared /\ op'[t].aborted = op[t].aborted
         /\ op'[t].followup = op[t].followup
<1> DEFINE o == [op[t] EXCEPT !.phase = IF op[t].result = "none" THEN phase ELSE op[t].phase]
<1>1. op[t] \in Operations
  BY DEF TypeOK
<1>2. /\ o \in Operations
      /\ o.phase = IF op[t].result = "none" THEN phase ELSE op[t].phase
      /\ o.sid = op[t].sid /\ o.result = op[t].result
      /\ o.cleared = op[t].cleared /\ o.aborted = op[t].aborted
      /\ o.followup = op[t].followup
  BY <1>1 DEF Operations
<1>3. op' = [op EXCEPT ![t] = o]
  BY DEF InPhase
<1> HIDE DEF o
<1> QED BY <1>2, <1>3, OpEdited

LEMMA AbortedSet ==
  ASSUME TypeOK, NEW t \in Turns, op' = [op EXCEPT ![t].aborted = TRUE]
  PROVE  /\ op' \in [Turns -> Operations]
         /\ \A u \in Turns \ {t} : op'[u] = op[u]
         /\ op'[t].phase = op[t].phase /\ op'[t].sid = op[t].sid /\ op'[t].result = op[t].result
         /\ op'[t].cleared = op[t].cleared /\ op'[t].aborted
         /\ op'[t].followup = op[t].followup
<1> DEFINE o == [op[t] EXCEPT !.aborted = TRUE]
<1>1. op[t] \in Operations
  BY DEF TypeOK
<1>2. /\ o \in Operations
      /\ o.phase = op[t].phase /\ o.sid = op[t].sid /\ o.result = op[t].result
      /\ o.cleared = op[t].cleared /\ o.aborted /\ o.followup = op[t].followup
  BY <1>1 DEF Operations
<1>3. op' = [op EXCEPT ![t] = o]
  OBVIOUS
<1> HIDE DEF o
<1> QED BY <1>2, <1>3, OpEdited

-----------------------------------------------------------------------------
(* The registry. *)

\* An operation found in the registry holds its key.
LEMMA FoundHolds ==
  ASSUME TypeOK, Registered, NEW k \in Keys, runAt[k] # NoTurn
  PROVE  runAt[k] \in Turns /\ KeyOf[runAt[k]] = k /\ Holding(runAt[k])
BY DEF TypeOK, Registered

\* Operations are cleared: their keys are freed, and nothing else.
LEMMA Freeing ==
  ASSUME TypeOK, Registered, IndexesAgree,
         NEW ts \in SUBSET {t \in Turns : Holding(t)}, Unregister(ts),
         \A t \in Turns : Holding(t)' <=> Holding(t) /\ t \notin ts,
         \A t \in Turns : Holding(t)' => op'[t].sid = op[t].sid
  PROVE  /\ Registered' /\ IndexesAgree'
         /\ runAt' \in [Keys -> Turns \cup {NoTurn}]
         /\ sidAt' \in [Keys -> Sids \cup {NoSid}]
         /\ keyAt' \in [Sids -> Keys \cup {NoKey}]
         /\ waitKeyAt' \in [Sids -> Keys \cup {NoKey}]
         /\ \A s \in Sids : waitKeyAt'[s] \in {waitKeyAt[s], NoKey}
         /\ \A k \in Keys : (\A t \in ts : KeyOf[t] # k) => runAt'[k] = runAt[k]
<1> DEFINE ks == {KeyOf[t] : t \in ts}
<1>1. /\ runAt' = [k \in Keys |-> IF k \in ks THEN NoTurn ELSE runAt[k]]
      /\ sidAt' = [k \in Keys |-> IF k \in ks THEN NoSid ELSE sidAt[k]]
      /\ keyAt' = [s \in Sids |-> IF \E t \in ts : op[t].sid = s /\ keyAt[s] = KeyOf[t]
                                  THEN NoKey ELSE keyAt[s]]
      /\ waitKeyAt' = [s \in Sids |-> IF waitKeyAt[s] \in ks THEN NoKey ELSE waitKeyAt[s]]
  BY DEF Unregister
<1>2. /\ runAt' \in [Keys -> Turns \cup {NoTurn}]
      /\ sidAt' \in [Keys -> Sids \cup {NoSid}]
      /\ keyAt' \in [Sids -> Keys \cup {NoKey}]
      /\ waitKeyAt' \in [Sids -> Keys \cup {NoKey}]
      /\ \A s \in Sids : waitKeyAt'[s] \in {waitKeyAt[s], NoKey}
      /\ \A k \in Keys : (\A t \in ts : KeyOf[t] # k) => runAt'[k] = runAt[k]
  BY <1>1 DEF TypeOK
<1>3. \A t \in ts : KeyOf[t] \in Keys /\ runAt[KeyOf[t]] = t
  BY TurnsAssumption DEF Registered
<1>4. Registered'
  <2> SUFFICES ASSUME NEW k \in Keys, NEW t \in Turns
               PROVE  runAt'[k] = t <=> KeyOf[t] = k /\ Holding(t)'
    BY DEF Registered
  <2>1. CASE k \in ks
    <3>1. PICK u \in ts : KeyOf[u] = k
      BY <2>1
    <3>2. runAt'[k] = NoTurn /\ runAt[k] = u
      BY <1>1, <1>3, <2>1, <3>1
    <3>3. KeyOf[t] = k /\ Holding(t) => t = u
      BY <3>2 DEF Registered
    <3> QED BY <3>1, <3>2, <3>3, NobodyAssumption
  <2>2. CASE k \notin ks
    BY <1>1, <2>2 DEF Registered
  <2> HIDE DEF ks
  <2> QED BY <2>1, <2>2
<1>5. IndexesAgree'
  <2> SUFFICES ASSUME NEW k \in Keys
               PROVE  /\ sidAt'[k] = IF runAt'[k] = NoTurn THEN NoSid ELSE op'[runAt'[k]].sid
                      /\ \A s \in Sids : keyAt'[s] = k <=> runAt'[k] # NoTurn /\ sidAt'[k] = s
                      /\ \A s \in Sids : waitKeyAt'[s] = k => runAt'[k] # NoTurn
    BY DEF IndexesAgree
  <2>1. CASE k \in ks
    <3>1. PICK u \in ts : KeyOf[u] = k
      BY <2>1
    <3>2. runAt'[k] = NoTurn /\ sidAt'[k] = NoSid /\ runAt[k] = u
      BY <1>1, <1>3, <2>1, <3>1
    <3>3. \A s \in Sids : keyAt'[s] # k
      <4> SUFFICES ASSUME NEW s \in Sids, keyAt'[s] = k PROVE FALSE
        OBVIOUS
      <4>1. keyAt[s] = k
        BY <1>1, NobodyAssumption
      <4>2. op[u].sid = s
        BY <3>1, <3>2, <4>1, NobodyAssumption DEF IndexesAgree
      <4> QED BY <1>1, <3>1, <4>1, <4>2, NobodyAssumption
    <3>4. \A s \in Sids : waitKeyAt'[s] # k
      BY <1>1, <2>1, NobodyAssumption
    <3> HIDE DEF ks
    <3> QED BY <3>2, <3>3, <3>4
  <2>2. CASE k \notin ks
    <3>1. runAt'[k] = runAt[k] /\ sidAt'[k] = sidAt[k]
      BY <1>1, <2>2
    <3>2. \A s \in Sids : (keyAt'[s] = k <=> keyAt[s] = k) /\ (waitKeyAt'[s] = k <=> waitKeyAt[s] = k)
      BY <1>1, <2>2, NobodyAssumption
    <3>3. runAt'[k] # NoTurn => op'[runAt'[k]].sid = op[runAt[k]].sid
      BY <1>4, <3>1, FoundHolds DEF Registered
    <3> HIDE DEF ks
    <3> QED BY <3>1, <3>2, <3>3 DEF IndexesAgree
  <2> HIDE DEF ks
  <2> QED BY <2>1, <2>2
<1> QED BY <1>2, <1>4, <1>5

\* Nothing is registered or cleared.
LEMMA Quiet ==
  ASSUME TypeOK, Registered, IndexesAgree, UNCHANGED registry,
         \A t \in Turns : Holding(t)' <=> Holding(t),
         \A t \in Turns : Holding(t)' => op'[t].sid = op[t].sid
  PROVE  Registered' /\ IndexesAgree'
<1>1. UNCHANGED <<runAt, sidAt, keyAt, waitKeyAt>>
  BY DEF registry
<1>2. Registered'
  BY <1>1 DEF Registered
<1>3. \A k \in Keys : runAt[k] # NoTurn => op'[runAt[k]].sid = op[runAt[k]].sid
  BY FoundHolds
<1> QED BY <1>1, <1>2, <1>3 DEF IndexesAgree

\* A notification leaves those waiting who wait for what is still there.
LEMMA Notified ==
  ASSUME TypeOK, WaitersBacked, NEW ks \in SUBSET Keys, NEW ss \in SUBSET Sids, Notify(ks, ss),
         \A k \in Keys \ ks : runAt[k] # NoTurn => runAt'[k] # NoTurn,
         \A s \in Sids \ ss : handleAt[s] # NoTurn => handleAt'[s] # NoTurn
  PROVE  WaitTypes' /\ WaitersBacked'
<1>1. WaitTypes'
  BY DEF TypeOK, Notify, WaitTypes
<1>2. WaitersBacked'
  BY NobodyAssumption DEF TypeOK, Notify, WaitersBacked, NoSid
<1> QED BY <1>1, <1>2

-----------------------------------------------------------------------------
(* The session ids. *)

LEMMA UsesKept ==
  ASSUME TypeOK, IdsApart, issued' = issued, \A k \in Keys : Uses(k)' \subseteq Uses(k)
  PROVE  IdsApart'
BY DEF IdsApart

LEMMA UsesFresh ==
  ASSUME TypeOK, IdsApart, NEW k \in Keys, issued' = NextSid,
         Uses(k)' \subseteq Uses(k) \cup {NextSid},
         \A l \in Keys : l # k => Uses(l)' \subseteq Uses(l)
  PROVE  IdsApart'
<1>1. issued \in Nat
  BY SidAssumption DEF TypeOK
<1>2. \A l \in Keys : NextSid \notin Uses(l)
  BY <1>1 DEF IdsApart, NextSid
<1>3. \A l \in Keys : Uses(l)' \subseteq 1..issued'
  BY <1>1 DEF IdsApart, NextSid
<1> QED BY <1>2, <1>3 DEF IdsApart

-----------------------------------------------------------------------------
(* Steps of a turn that leave every registration alone. *)

LEMMA QuietTypes ==
  ASSUME IInv, NEW t \in Turns, QuietStep(t)
  PROVE  TypeOK'
<1> USE DEF IInv
<1>0. TypeOK /\ TurnsInOrder
  OBVIOUS
<1>1. ASSUME NEW phase \in Phases, op' = InPhase(t, phase) PROVE op' \in [Turns -> Operations]
  BY <1>0, <1>1, PhaseSet
<1>2. CASE Arrive(t) \/ Reread(t) \/ Recheck(t) \/ Leave(t)
  BY <1>0, <1>2, TurnsAssumption
  DEF Arrive, Reread, Recheck, Leave, TypeOK, Waiters, Pcs, registry, embedded, waits, ids
<1>3. CASE Maintain(t) \/ SetRunning(t)
  BY <1>0, <1>1, <1>3 DEF Maintain, SetRunning, TypeOK, Pcs, Phases, registry, embedded, waits, ids
<1>4. CASE AskLane(t) \/ EnterLane(t) \/ LeaveLane(t)
  BY <1>0, <1>4, TurnsAssumption
  DEF AskLane, EnterLane, LeaveLane, TypeOK, Pcs, InAttempt, Live, registry, embedded, waits, ids
<1>5. CASE Attach(t)
  <2>1. run' \in [Turns -> {"out", "queued", "held"} \cup InAttempt] /\ run'[t] \in InAttempt
        /\ \A u \in Turns \ {t} : run'[u] = run[u]
    BY <1>0, <1>5 DEF Attach, TypeOK, InAttempt, Live
  <2>2. attached' \in SUBSET {u \in Turns : run'[u] \in InAttempt}
    BY <1>0, <1>5, <2>1 DEF Attach, TypeOK
  <2>3. sidOf[t] \in Sids /\ KeyOf[t] \in Keys
    BY <1>0, <1>5, TurnsAssumption DEF Attach, TurnsInOrder
  <2>4. /\ handleAt' \in [Sids -> Turns \cup {NoTurn}] /\ handleSidAt' \in [Keys -> Sids \cup {NoSid}]
    BY <1>0, <1>5, <2>3 DEF Attach, TypeOK
  <2> QED BY <1>0, <1>5, <2>1, <2>2, <2>4 DEF Attach, TypeOK, registry, waits, ids
<1>6. CASE Prompt(t) \/ Settle(t) \/ RunTimeout(t)
  BY <1>0, <1>6
  DEF Prompt, Settle, RunTimeout, TypeOK, TurnsInOrder, InAttempt, Live, registry, embedded, waits, ids
<1>7. CASE EndAttempt(t)
  <2>1. /\ waitKey' \in [Waiters -> Keys \cup {NoKey}] /\ waitSid' \in [Waiters -> Sids \cup {NoSid}]
        /\ answer' \in [Waiters -> {"none", "ended", "late", "used"}]
    BY <1>0, <1>7 DEF EndAttempt, Notify, TypeOK, waits
  <2>2. /\ handleAt' \in [Sids -> Turns \cup {NoTurn}] /\ handleSidAt' \in [Keys -> Sids \cup {NoSid}]
        /\ snapshots' \in SUBSET Sids
    BY <1>0, <1>7 DEF EndAttempt, TypeOK, embedded
  <2>3. run' \in [Turns -> {"out", "queued", "held"} \cup InAttempt]
        /\ attached' \in SUBSET {u \in Turns : run'[u] \in InAttempt}
    BY <1>0, <1>7 DEF EndAttempt, TypeOK, InAttempt, Live
  <2> QED BY <1>0, <1>7, <2>1, <2>2, <2>3 DEF EndAttempt, TypeOK, registry, ids
<1>8. CASE ResetSession(t)
  <2>1. NextSid \in Sids /\ NextSid \in 0..MaxSid
    BY <1>0, <1>8, SidAssumption DEF ResetSession, NextSid, TypeOK, Sids
  <2>2. KeyOf[t] \in Keys
    BY TurnsAssumption
  <2>3. store' \in [Keys -> Sids] /\ sidOf' \in [Turns -> Sids \cup {NoSid}]
    BY <1>0, <1>8, <2>1, <2>2 DEF ResetSession, FollowIds, TypeOK
  <2> QED BY <1>0, <1>8, <2>1, <2>3 DEF ResetSession, TypeOK, Pcs, registry, embedded, waits
<1>9. CASE UpstreamAbort(t)
  <2>1. op' \in [Turns -> Operations]
    BY <1>0, <1>9, AbortedSet DEF UpstreamAbort
  <2> QED BY <1>0, <1>9, <2>1 DEF UpstreamAbort, TypeOK, InAttempt, Live, registry, embedded, waits, ids
<1> QED BY <1>2, <1>3, <1>4, <1>5, <1>6, <1>7, <1>8, <1>9 DEF QuietStep

LEMMA QuietOrder ==
  ASSUME IInv, NEW t \in Turns, QuietStep(t)
  PROVE  TurnsInOrder'
<1> USE DEF IInv
<1>0. TypeOK /\ TurnsInOrder
  OBVIOUS
<1>1. ASSUME NEW phase \in Phases \ {"none"}, op' = InPhase(t, phase), op[t].phase # "none"
      PROVE  /\ \A u \in Turns \ {t} : op'[u] = op[u]
             /\ op'[t].phase # "none" /\ op'[t].sid = op[t].sid
             /\ op'[t].cleared = op[t].cleared /\ op'[t].result = op[t].result
             /\ op'[t].aborted = op[t].aborted
  BY <1>0, <1>1, PhaseSet
<1>2. CASE Arrive(t) \/ Reread(t) \/ Recheck(t) \/ Leave(t)
  BY <1>0, <1>2, TurnsAssumption DEF Arrive, Reread, Recheck, Leave, TypeOK, TurnsInOrder, ids
<1>3. CASE Maintain(t) \/ SetRunning(t)
  <2>1. op[t].phase # "none"
    BY <1>0, <1>3 DEF Maintain, SetRunning, TurnsInOrder
  <2>2. /\ \A u \in Turns \ {t} : op'[u] = op[u]
        /\ op'[t].phase # "none" /\ op'[t].sid = op[t].sid
        /\ op'[t].cleared = op[t].cleared /\ op'[t].result = op[t].result
        /\ op'[t].aborted = op[t].aborted
    BY <1>1, <1>3, <2>1 DEF Maintain, SetRunning, Phases
  <2> QED BY <1>0, <1>3, <2>1, <2>2 DEF Maintain, SetRunning, TypeOK, TurnsInOrder, ids
<1>4. CASE AskLane(t) \/ EnterLane(t) \/ LeaveLane(t)
  BY <1>0, <1>4, TurnsAssumption DEF AskLane, EnterLane, LeaveLane, TypeOK, TurnsInOrder, ids
<1>5. CASE Attach(t) \/ Prompt(t) \/ Settle(t) \/ RunTimeout(t) \/ EndAttempt(t)
  BY <1>0, <1>5
  DEF Attach, Prompt, Settle, RunTimeout, EndAttempt, Live, TypeOK, TurnsInOrder, ids
<1>6. CASE ResetSession(t)
  <2>0. NextSid \in Sids
    BY <1>0, <1>6, SidAssumption DEF ResetSession, NextSid, Sids, TypeOK
  <2>1. store' = [store EXCEPT ![KeyOf[t]] = NextSid] /\ NextSid \in Sids /\ KeyOf[t] \in Keys
    BY <1>6, <2>0, TurnsAssumption DEF ResetSession
  <2>2. \A u \in Turns : sidOf'[u] = sidOf[u] \/ sidOf'[u] \in Sids
    BY <1>0, <1>6, <2>1 DEF ResetSession, FollowIds, TypeOK
  <2>3. UNCHANGED <<op, run>> /\ pc' = [pc EXCEPT ![t] = "failing"] /\ pc[t] = "running" /\ run[t] = "out"
    BY <1>6 DEF ResetSession
  <2> QED BY <1>0, <2>2, <2>3 DEF TypeOK, TurnsInOrder
<1>7. CASE UpstreamAbort(t)
  <2>1. \A u \in Turns : /\ op'[u].phase = op[u].phase /\ op'[u].sid = op[u].sid
                         /\ op'[u].cleared = op[u].cleared /\ op'[u].result = op[u].result
                         /\ op[u].aborted => op'[u].aborted
                         /\ op[u].phase = "none" => op'[u] = op[u]
    BY <1>0, <1>7, AbortedSet DEF UpstreamAbort, Holding
  <2> QED BY <1>0, <1>7, <2>1 DEF UpstreamAbort, Live, TypeOK, TurnsInOrder, ids
<1> QED BY <1>2, <1>3, <1>4, <1>5, <1>6, <1>7 DEF QuietStep

\* What a quiet step does to an operation changes neither whether it holds its key
\* nor its session id.
LEMMA QuietOps ==
  ASSUME IInv, NEW t \in Turns, QuietStep(t)
  PROVE  /\ UNCHANGED <<registry, issued>> \/ ResetSession(t)
         /\ UNCHANGED registry
         /\ \A u \in Turns : /\ Holding(u)' <=> Holding(u)
                             /\ op'[u].sid = op[u].sid
                             /\ op'[u].aborted = op[u].aborted \/ UpstreamAbort(t)
                             /\ op'[u].result = op[u].result /\ op'[u].followup = op[u].followup
<1> USE DEF IInv
<1>1. UNCHANGED registry /\ (UNCHANGED issued \/ ResetSession(t))
  BY DEF QuietStep, Arrive, Reread, Recheck, Leave, Maintain, SetRunning, AskLane, EnterLane,
         LeaveLane, Attach, Prompt, Settle, RunTimeout, EndAttempt, UpstreamAbort, ResetSession, ids
<1>2. CASE Maintain(t) \/ SetRunning(t)
  <2>1. op[t].phase # "none"
    BY <1>2 DEF Maintain, SetRunning, TurnsInOrder
  <2>2. PICK phase \in Phases \ {"none"} : op' = InPhase(t, phase)
    BY <1>2 DEF Maintain, SetRunning, Phases
  <2> QED BY <1>1, <2>1, <2>2, PhaseSet DEF Holding
<1>3. CASE UpstreamAbort(t)
  BY <1>1, <1>3, AbortedSet DEF UpstreamAbort, Holding
<1>4. CASE UNCHANGED op
  BY <1>1, <1>4 DEF Holding
<1> QED BY <1>2, <1>3, <1>4
        DEF QuietStep, Arrive, Reread, Recheck, Leave, AskLane, EnterLane, LeaveLane, Attach,
            Prompt, Settle, RunTimeout, EndAttempt, ResetSession

LEMMA QuietIds ==
  ASSUME IInv, NEW t \in Turns, QuietStep(t)
  PROVE  IdsApart'
<1> USE DEF IInv
<1>1. /\ UNCHANGED waitKeyAt
      /\ \A u \in Turns : op'[u].sid = op[u].sid
  BY QuietOps DEF registry
<1>2. KeyOf[t] \in Keys
  BY TurnsAssumption
<1>3. CASE ResetSession(t)
  <2>1. issued' = NextSid
    BY <1>3 DEF ResetSession
  <2>2. Uses(KeyOf[t])' \subseteq Uses(KeyOf[t]) \cup {NextSid}
    BY <1>1, <1>2, <1>3 DEF ResetSession, FollowIds, Uses, TypeOK
  <2>3. \A l \in Keys : l # KeyOf[t] => Uses(l)' \subseteq Uses(l)
    BY <1>1, <1>2, <1>3 DEF ResetSession, FollowIds, Uses, TypeOK
  <2> QED BY <1>2, <2>1, <2>2, <2>3, UsesFresh
<1>4. CASE ~ResetSession(t)
  <2>1. issued' = issued /\ store' = store
    BY <1>4 DEF QuietStep, Arrive, Reread, Recheck, Leave, Maintain, SetRunning, AskLane,
         EnterLane, LeaveLane, Attach, Prompt, Settle, RunTimeout, EndAttempt, UpstreamAbort, ids
  <2>2. \A u \in Turns : sidOf'[u] = sidOf[u] \/ sidOf'[u] = store[KeyOf[u]]
    BY <1>4, <1>2 DEF QuietStep, Arrive, Reread, Recheck, Leave, Maintain, SetRunning, AskLane,
         EnterLane, LeaveLane, Attach, Prompt, Settle, RunTimeout, EndAttempt, UpstreamAbort, ids,
         TypeOK
  <2>3. \A k \in Keys : Uses(k)' \subseteq Uses(k)
    BY <1>1, <2>1, <2>2 DEF Uses
  <2> QED BY <2>1, <2>3, UsesKept
<1> QED BY <1>3, <1>4

LEMMA QuietWaiters ==
  ASSUME IInv, NEW t \in Turns, QuietStep(t)
  PROVE  WaitersBacked'
<1> USE DEF IInv
<1>0. UNCHANGED runAt
  BY QuietOps DEF registry
<1>1. ASSUME UNCHANGED <<waitKey, waitSid, handleAt>> PROVE WaitersBacked'
  BY <1>0, <1>1 DEF WaitersBacked
<1>2. CASE Attach(t)
  BY <1>0, <1>2, NobodyAssumption DEF Attach, WaitersBacked, TypeOK, waits
<1>3. CASE EndAttempt(t)
  <2>1. CASE handleAt[sidOf[t]] = t
    <3>1. sidOf[t] \in Sids
      BY <1>3 DEF EndAttempt, TurnsInOrder
    <3>2. Notify({}, {sidOf[t]})
      BY <1>3, <2>1 DEF EndAttempt
    <3>3. \A s \in Sids \ {sidOf[t]} : handleAt'[s] = handleAt[s]
      BY <1>3, <2>1, <3>1 DEF EndAttempt, TypeOK
    <3> QED BY <1>0, <3>1, <3>2, <3>3, Notified
  <2>2. CASE handleAt[sidOf[t]] # t
    BY <1>1, <1>3, <2>2 DEF EndAttempt, embedded, waits
  <2> QED BY <2>1, <2>2
<1>4. CASE Prompt(t)
  BY <1>1, <1>4 DEF Prompt, waits
<1> QED BY <1>1, <1>2, <1>3, <1>4
        DEF QuietStep, Arrive, Reread, Recheck, Leave, Maintain, SetRunning, AskLane, EnterLane,
            LeaveLane, Settle, RunTimeout, ResetSession, UpstreamAbort, embedded, waits

\* An attempt begins for a turn that holds the lane, and ends where it began.
LEMMA QuietRuns ==
  ASSUME IInv, NEW t \in Turns, QuietStep(t)
  PROVE  AbortedRunsNothing' /\ LaneExclusive' /\ HandlesHeld'
<1> USE DEF IInv
<1>0. TypeOK /\ TurnsInOrder /\ IdsApart /\ AbortedRunsNothing /\ LaneExclusive /\ HandlesHeld
  OBVIOUS
<1>1. \A u \in Turns : /\ op'[u].aborted = op[u].aborted \/ UpstreamAbort(t)
                       /\ Unheard(u)' <=> Unheard(u)
  BY QuietOps DEF Unheard
<1>2. ASSUME UNCHANGED <<run, handleAt>>, \A u \in Turns : sidOf'[u] = sidOf[u] \/ run[u] = "out",
             ~UpstreamAbort(t)
      PROVE  AbortedRunsNothing' /\ LaneExclusive' /\ HandlesHeld'
  <2>1. AbortedRunsNothing'
    BY <1>0, <1>1, <1>2 DEF AbortedRunsNothing
  <2>2. LaneExclusive'
    BY <1>0, <1>2 DEF LaneExclusive
  <2>3. HandlesHeld'
    BY <1>0, <1>2 DEF HandlesHeld, InAttempt, Live
  <2> QED BY <2>1, <2>2, <2>3
<1>3. CASE (Arrive(t) \/ Reread(t) \/ Recheck(t) \/ Leave(t) \/ ResetSession(t)) /\ ~UpstreamAbort(t)
  <2>1. \A u \in Turns : run[u] = "out" \/ (u # t /\ pc[u] # "queued") \/ sidOf' = sidOf
    BY <1>0, <1>3 DEF Arrive, Reread, Recheck, Leave, ResetSession, TurnsInOrder, ids
  <2>2. UNCHANGED <<run, handleAt>> /\ \A u \in Turns : sidOf'[u] = sidOf[u] \/ run[u] = "out"
    BY <1>0, <1>3, <2>1
    DEF Arrive, Reread, Recheck, Leave, ResetSession, FollowIds, TypeOK, embedded, ids
  <2> QED BY <1>2, <1>3, <2>2
<1>4. CASE (Maintain(t) \/ SetRunning(t) \/ Prompt(t)) /\ ~UpstreamAbort(t)
  BY <1>2, <1>4 DEF Maintain, SetRunning, Prompt, embedded, ids
<1>5. CASE UpstreamAbort(t)
  <2>0. op' = [op EXCEPT ![t].aborted = TRUE] /\ UNCHANGED <<sidOf, handleAt>>
        /\ run' = [run EXCEPT ![t] = IF run[t] \in Live /\ ~op[t].followup THEN "cancelled" ELSE run[t]]
        /\ Holding(t) /\ ~op[t].aborted
    BY <1>5 DEF UpstreamAbort, embedded, ids
  <2>1. /\ \A u \in Turns : run'[u] = run[u] \/ (run[u] \in Live /\ run'[u] = "cancelled")
        /\ ~op[t].followup => run'[t] \notin Live
        /\ \A u \in Turns \ {t} : run'[u] = run[u]
    BY <1>0, <2>0 DEF TypeOK, Live
  <2>2. AbortedRunsNothing'
    <3>1. \A u \in Turns \ {t} : op'[u] = op[u]
      BY <1>0, <2>0, AbortedSet
    <3>2. op[t].result = "none"
      BY <1>0, <2>0 DEF TurnsInOrder, Holding
    <3>3. run'[t] \in Live => run[t] \in Live /\ op[t].followup
      BY <1>0, <2>0 DEF TypeOK, Live
    <3> QED BY <1>0, <1>1, <2>1, <3>1, <3>2, <3>3 DEF AbortedRunsNothing, Unheard
  <2>3. LaneExclusive' /\ HandlesHeld'
    BY <1>0, <2>0, <2>1 DEF LaneExclusive, HandlesHeld, InAttempt, Live
  <2> QED BY <2>2, <2>3
<1>6. ASSUME ~UpstreamAbort(t), UNCHANGED handleAt,
             run[t] \in Live \/ run'[t] \in {"out", "queued", "held", "cancelled"},
             run[t] \notin {"out", "queued"} \/ run'[t] \in {"out", "queued"} \/ LaneIsFree(t),
             run[t] \in InAttempt \/ run'[t] \notin InAttempt,
             run'[t] \notin InAttempt \/ sidOf'[t] = sidOf[t],
             \A u \in Turns \ {t} : run'[u] = run[u] /\ sidOf'[u] = sidOf[u]
      PROVE  AbortedRunsNothing' /\ LaneExclusive' /\ HandlesHeld'
  <2>1. AbortedRunsNothing'
    BY <1>0, <1>1, <1>6 DEF AbortedRunsNothing, Live
  <2>2. LaneExclusive'
    BY <1>0, <1>6 DEF LaneExclusive, LaneIsFree
  <2>3. HandlesHeld'
    BY <1>0, <1>6 DEF HandlesHeld, InAttempt, Live
  <2> QED BY <2>1, <2>2, <2>3
<1>7. CASE (AskLane(t) \/ EnterLane(t) \/ LeaveLane(t)) /\ ~UpstreamAbort(t)
  BY <1>0, <1>6, <1>7
  DEF AskLane, EnterLane, LeaveLane, TypeOK, InAttempt, Live, embedded, ids
<1>8. CASE (Settle(t) \/ RunTimeout(t)) /\ ~UpstreamAbort(t)
  <2>1. /\ UNCHANGED <<sidOf, handleAt>> /\ run[t] \in Live /\ run'[t] \in InAttempt
        /\ \A u \in Turns \ {t} : run'[u] = run[u]
    BY <1>0, <1>8 DEF Settle, RunTimeout, TypeOK, InAttempt, Live, embedded, ids
  <2> QED BY <1>6, <1>8, <2>1 DEF InAttempt, Live
<1>9. CASE Attach(t) /\ ~UpstreamAbort(t)
  <2>1. /\ run[t] = "held" /\ UNCHANGED sidOf /\ sidOf[t] \in Sids
        /\ handleAt' = [handleAt EXCEPT ![sidOf[t]] = t]
        /\ \A u \in Turns \ {t} : run'[u] = run[u]
        /\ run'[t] = IF op[t].result # "none" \/ op[t].aborted THEN "cancelled" ELSE "live"
    BY <1>0, <1>9 DEF Attach, TurnsInOrder, TypeOK, ids
  <2>2. AbortedRunsNothing'
    BY <1>0, <1>1, <1>9, <2>1 DEF AbortedRunsNothing, Live
  <2>3. LaneExclusive'
    BY <1>0, <2>1 DEF LaneExclusive
  <2>4. ASSUME NEW u \in Turns \ {t}, run[u] \in InAttempt PROVE sidOf[u] # sidOf[t]
    <3>1. KeyOf[u] # KeyOf[t]
      BY <1>0, <2>1, <2>4 DEF LaneExclusive, InAttempt, Live
    <3>2. sidOf[u] \in Sids /\ KeyOf[u] \in Keys /\ KeyOf[t] \in Keys
      BY <1>0, <2>4, TurnsAssumption DEF TurnsInOrder, InAttempt, Live
    <3> QED BY <1>0, <2>1, <3>1, <3>2 DEF IdsApart, Uses
  <2>5. HandlesHeld'
    BY <1>0, <2>1, <2>4 DEF HandlesHeld, TypeOK
  <2> QED BY <2>2, <2>3, <2>5
<1>10. CASE EndAttempt(t) /\ ~UpstreamAbort(t)
  <2>1. /\ run[t] \in {"settling", "cancelled"} /\ run'[t] = "held" /\ UNCHANGED sidOf
        /\ sidOf[t] \in Sids
        /\ \A u \in Turns \ {t} : run'[u] = run[u]
        /\ handleAt' = handleAt \/ handleAt' = [handleAt EXCEPT ![sidOf[t]] = NoTurn]
    BY <1>0, <1>10 DEF EndAttempt, TurnsInOrder, TypeOK, embedded, ids
  <2>2. AbortedRunsNothing'
    BY <1>0, <1>1, <1>10, <2>1 DEF AbortedRunsNothing, Live
  <2>3. LaneExclusive'
    BY <1>0, <2>1 DEF LaneExclusive
  <2>4. ASSUME NEW u \in Turns \ {t}, run[u] \in InAttempt PROVE sidOf[u] # sidOf[t]
    BY <1>0, <2>1, <2>4 DEF HandlesHeld, InAttempt, Live
  <2>5. \A u \in Turns \ {t} : run[u] \in InAttempt => sidOf[u] \in Sids
    BY <1>0 DEF TurnsInOrder, InAttempt, Live
  <2>6. HandlesHeld'
    BY <1>0, <2>1, <2>4, <2>5 DEF HandlesHeld, TypeOK, InAttempt, Live
  <2> QED BY <2>2, <2>3, <2>6
<1> QED BY <1>3, <1>4, <1>5, <1>7, <1>8, <1>9, <1>10 DEF QuietStep

LEMMA QuietKeeps ==
  ASSUME IInv, NEW t \in Turns, QuietStep(t)
  PROVE  IInv'
<1>1. Registered' /\ IndexesAgree'
  BY Quiet, QuietOps DEF IInv
<1> QED BY <1>1, QuietTypes, QuietOrder, QuietIds, QuietWaiters, QuietRuns DEF IInv

-----------------------------------------------------------------------------
(* Aborts. *)

\* What an abort does: the operations it finds keep all but their phase, result and
\* flags; those that were queued are cleared.
LEMMA AbortEdit ==
  ASSUME TypeOK, NEW code \in Results \ {"none"}, NEW t \in Turns
  PROVE  /\ Aborted(op[t], code) \in Operations
         /\ Aborted(op[t], code).phase # "none" /\ Aborted(op[t], code).sid = op[t].sid
         /\ Aborted(op[t], code).result # "none" /\ Aborted(op[t], code).aborted
         /\ Aborted(op[t], code).cleared <=> op[t].cleared \/ op[t].phase = "queued"
         /\ Aborted(op[t], code).followup = op[t].followup
<1>1. op[t] \in Operations
  BY DEF TypeOK
<1> QED BY <1>1 DEF Aborted, Operations, Phases, Results

LEMMA AbortOps ==
  ASSUME IInv, NEW ts \in SUBSET {t \in Turns : Holding(t)}, NEW hs \in SUBSET Turns, NEW ks,
         NEW code \in Results \ {"none"}, AbortThem(ts, hs, ks, code)
  PROVE  /\ op' \in [Turns -> Operations]
         /\ \A t \in Turns \ ts : op'[t] = op[t]
         /\ \A t \in ts : op'[t] = Aborted(op[t], code)
         /\ \A t \in Turns : op'[t].sid = op[t].sid
         /\ \A t \in Turns : Holding(t)' <=> Holding(t) /\ t \notin LeftByAbort(ts)
         /\ LeftByAbort(ts) \in SUBSET {t \in Turns : Holding(t)}
<1>0. TypeOK
  BY DEF IInv
<1>1. op' = [t \in Turns |-> IF t \in ts THEN Aborted(op[t], code) ELSE op[t]]
  BY DEF AbortThem
<1>2. /\ \A t \in Turns \ ts : op'[t] = op[t]
      /\ \A t \in ts : op'[t] = Aborted(op[t], code)
  BY <1>1
<1>3. op' \in [Turns -> Operations]
  BY <1>0, <1>1, AbortEdit DEF TypeOK
<1>4. \A t \in Turns : op'[t].sid = op[t].sid
  BY <1>0, <1>2, AbortEdit
<1>5. \A t \in Turns : Holding(t)' <=> Holding(t) /\ t \notin LeftByAbort(ts)
  BY <1>0, <1>2, AbortEdit DEF Holding, LeftByAbort
<1> QED BY <1>2, <1>3, <1>4, <1>5 DEF LeftByAbort, Holding

\* Runs are cancelled, or leave the queue of a lane.
LEMMA AbortRuns ==
  ASSUME IInv, NEW ts \in SUBSET Turns, NEW hs \in SUBSET Turns, NEW ks, NEW code,
         AbortThem(ts, hs, ks, code)
  PROVE  /\ run' \in [Turns -> {"out", "queued", "held"} \cup InAttempt]
         /\ \A t \in Turns : \/ run'[t] = run[t]
                             \/ run[t] \in Live /\ run'[t] = "cancelled"
                             \/ run[t] = "queued" /\ run'[t] = "out"
         /\ \A t \in ts : run'[t] \notin Live
         /\ attached' \in SUBSET {t \in Turns : run'[t] \in InAttempt}
<1>0. TypeOK
  BY DEF IInv
<1>1. /\ attached' = attached
      /\ run' = [t \in Turns |-> IF t \in ts \cup hs /\ run[t] \in Live THEN "cancelled"
                                 ELSE IF run[t] = "queued" /\ KeyOf[t] \in ks THEN "out" ELSE run[t]]
  BY DEF AbortThem
<1>2. \A t \in Turns : \/ run'[t] = run[t]
                       \/ run[t] \in Live /\ run'[t] = "cancelled"
                       \/ run[t] = "queued" /\ run'[t] = "out"
  BY <1>1
<1>3. \A t \in ts : run'[t] \notin Live
  BY <1>1 DEF Live
<1>4. run' \in [Turns -> {"out", "queued", "held"} \cup InAttempt]
  BY <1>0, <1>1, <1>2 DEF TypeOK, InAttempt
<1> QED BY <1>0, <1>1, <1>2, <1>3, <1>4 DEF TypeOK, InAttempt, Live

\* The invariant survives an abort that leaves nobody waiting for what is gone.
LEMMA AbortKeeps ==
  ASSUME IInv, NEW ts \in SUBSET {t \in Turns : Holding(t)}, NEW hs \in SUBSET Turns, NEW ks,
         NEW code \in Results \ {"none"}, AbortThem(ts, hs, ks, code),
         pc' \in [Turns -> Pcs],
         \A t \in Turns : \/ pc'[t] = pc[t]
                          \/ pc[t] \in {"new", "interrupting"} /\ pc'[t] \in {"interrupting", "waiting"}
                          \/ pc[t] = "queued" /\ pc'[t] = "done",
         WaitTypes' /\ WaitersBacked'
  PROVE  IInv'
<1>0. TypeOK /\ TurnsInOrder /\ IdsApart /\ Registered /\ IndexesAgree
      /\ AbortedRunsNothing /\ LaneExclusive /\ HandlesHeld
  BY DEF IInv
<1>1. UNCHANGED <<attached, store, issued, sidOf, handleAt, handleSidAt, snapshots>>
      /\ Unregister(LeftByAbort(ts))
  BY DEF AbortThem, ids, embedded
<1>2. /\ op' \in [Turns -> Operations]
      /\ \A t \in Turns \ ts : op'[t] = op[t]
      /\ \A t \in ts : op'[t] = Aborted(op[t], code)
      /\ \A t \in Turns : op'[t].sid = op[t].sid
      /\ \A t \in Turns : Holding(t)' <=> Holding(t) /\ t \notin LeftByAbort(ts)
      /\ LeftByAbort(ts) \in SUBSET {t \in Turns : Holding(t)}
  BY AbortOps
<1>3. /\ run' \in [Turns -> {"out", "queued", "held"} \cup InAttempt]
      /\ \A t \in Turns : \/ run'[t] = run[t]
                          \/ run[t] \in Live /\ run'[t] = "cancelled"
                          \/ run[t] = "queued" /\ run'[t] = "out"
      /\ \A t \in ts : run'[t] \notin Live
      /\ attached' \in SUBSET {t \in Turns : run'[t] \in InAttempt}
  BY AbortRuns
<1>4. /\ Registered' /\ IndexesAgree'
      /\ runAt' \in [Keys -> Turns \cup {NoTurn}]
      /\ sidAt' \in [Keys -> Sids \cup {NoSid}]
      /\ keyAt' \in [Sids -> Keys \cup {NoKey}]
      /\ waitKeyAt' \in [Sids -> Keys \cup {NoKey}]
      /\ \A s \in Sids : waitKeyAt'[s] \in {waitKeyAt[s], NoKey}
  BY <1>0, <1>1, <1>2, Freeing
<1>5. TypeOK'
  BY <1>0, <1>1, <1>2, <1>3, <1>4 DEF TypeOK, WaitTypes
<1>6. TurnsInOrder'
  <2> SUFFICES ASSUME NEW t \in Turns
               PROVE  /\ pc'[t] \notin {"new", "interrupting", "waiting"} => sidOf'[t] \in Sids
                      /\ pc'[t] \in {"began", "flushing", "running", "failing", "unwinding"}
                           <=> op'[t].phase # "none"
                      /\ op'[t].phase = "none" => op'[t] = NoOperation
                      /\ op'[t].phase # "none" => op'[t].sid \in Sids
                      /\ op'[t].cleared => op'[t].result # "none"
                      /\ op'[t].result # "none" => op'[t].aborted \/ op'[t].cleared
                      /\ run'[t] # "out" => pc'[t] \in {"flushing", "running", "plain"}
    BY DEF TurnsInOrder
  <2>1. run'[t] # "out" => run[t] # "out"
    BY <1>3 DEF Live
  <2>2. CASE t \notin ts
    BY <1>0, <1>1, <1>2, <2>1, <2>2 DEF TurnsInOrder
  <2>3. CASE t \in ts
    <3>1. op[t].phase # "none"
      BY <2>3 DEF Holding
    <3>2. op'[t].phase # "none" /\ op'[t].sid = op[t].sid /\ op'[t].result # "none" /\ op'[t].aborted
      BY <1>0, <1>2, <2>3, AbortEdit
    <3> QED BY <1>0, <1>1, <2>1, <3>1, <3>2 DEF TurnsInOrder
  <2> QED BY <2>2, <2>3
<1>7. IdsApart'
  <2>1. \A k \in Keys : Uses(k)' \subseteq Uses(k)
    BY <1>1, <1>2, <1>4, NobodyAssumption DEF Uses
  <2> QED BY <1>0, <1>1, <2>1, UsesKept
<1>8. AbortedRunsNothing'
  BY <1>0, <1>2, <1>3 DEF AbortedRunsNothing, Unheard, Live
<1>9. LaneExclusive'
  BY <1>0, <1>3 DEF LaneExclusive, Live
<1>10. HandlesHeld'
  BY <1>0, <1>1, <1>3 DEF HandlesHeld, InAttempt, Live
<1> QED BY <1>4, <1>5, <1>6, <1>7, <1>8, <1>9, <1>10 DEF IInv

\* The operations that a session id and a key lead to hold their key.
LEMMA OperationFound ==
  ASSUME IInv, NEW s \in Sids, OperationAt(s) # NoTurn
  PROVE  OperationAt(s) \in Turns /\ Holding(OperationAt(s)) /\ KeyOf[OperationAt(s)] = keyAt[s]
BY FoundHolds, NobodyAssumption DEF IInv, OperationAt, TypeOK

\* An abort whose queued operations are told to those who wait for them.
LEMMA AbortAndTell ==
  ASSUME IInv, NEW ts \in SUBSET {t \in Turns : Holding(t)}, NEW hs \in SUBSET Turns, NEW ks,
         NEW code \in Results \ {"none"}, AbortThem(ts, hs, ks, code),
         pc' \in [Turns -> Pcs],
         \A t \in Turns : \/ pc'[t] = pc[t]
                          \/ pc[t] \in {"new", "interrupting"} /\ pc'[t] \in {"interrupting", "waiting"}
                          \/ pc[t] = "queued" /\ pc'[t] = "done",
         Notify({KeyOf[t] : t \in LeftByAbort(ts)}, {})
  PROVE  IInv'
<1> DEFINE told == {KeyOf[t] : t \in LeftByAbort(ts)}
<1>1. told \in SUBSET Keys
  BY TurnsAssumption DEF LeftByAbort
<1>2. \A k \in Keys \ told : runAt'[k] = runAt[k]
  BY DEF AbortThem, Unregister
<1>3. handleAt' = handleAt
  BY DEF AbortThem, embedded
<1>4. WaitTypes' /\ WaitersBacked'
  <2>1. Notify(told, {})
    OBVIOUS
  <2> HIDE DEF told
  <2> QED BY <1>1, <1>2, <1>3, <2>1, Notified DEF IInv
<1> QED BY <1>4, AbortKeeps

LEMMA AbortAndWaitKeeps ==
  ASSUME IInv, NEW w \in Waiters, NEW s \in Sids, NEW ks, AbortAndWait(w, s, ks),
         pc' \in [Turns -> Pcs],
         \A t \in Turns : \/ pc'[t] = pc[t]
                          \/ pc[t] \in {"new", "interrupting"} /\ pc'[t] \in {"interrupting", "waiting"}
                          \/ pc[t] = "queued" /\ pc'[t] = "done"
  PROVE  IInv'
<1>0. TypeOK /\ WaitersBacked
  BY DEF IInv
<1>00. "user" \in Results \ {"none"}
  BY DEF Results
<1>1. CASE handleAt[s] # NoTurn
  <2>1. AbortThem({}, {handleAt[s]}, ks, "user") /\ WaitOn(w, NoKey, s)
    BY <1>1 DEF AbortAndWait
  <2>2. handleAt[s] \in Turns
    BY <1>0, <1>1 DEF TypeOK
  <2>3. runAt' = runAt /\ handleAt' = handleAt
    BY <1>0, <2>1 DEF AbortThem, LeftByAbort, Unregister, embedded, TypeOK
  <2>4. WaitTypes'
    BY <1>0, <2>1 DEF WaitOn, TypeOK, WaitTypes
  <2>5. WaitersBacked'
    BY <1>0, <1>1, <2>1, <2>3 DEF WaitOn, TypeOK, WaitersBacked
  <2> QED BY <1>00, <2>1, <2>2, <2>4, <2>5, AbortKeeps
<1>2. CASE handleAt[s] = NoTurn
  <2> DEFINE t == OperationAt(s)
             k == IF keyAt[s] # NoKey THEN keyAt[s] ELSE waitKeyAt[s]
  <2>1. CASE t # NoTurn /\ op[t].phase = "queued"
    <3>1. t \in Turns /\ Holding(t)
      BY <2>1, OperationFound
    <3> DEFINE told == {x \in Waiters : waitKey[x] = KeyOf[t]} \cup {w}
    <3>2. /\ AbortThem({t}, {}, ks, "user")
          /\ waitKey' = [x \in Waiters |-> IF x \in told THEN NoKey ELSE waitKey[x]]
          /\ answer' = [x \in Waiters |-> IF x \in told THEN "ended" ELSE answer[x]]
          /\ waitSid' = waitSid
      BY <1>2, <2>1 DEF AbortAndWait
    <3>3. handleAt' = handleAt /\ \A l \in Keys : l # KeyOf[t] => runAt'[l] = runAt[l]
      BY <3>2 DEF AbortThem, LeftByAbort, Unregister, embedded
    <3>4. WaitTypes'
      BY <1>0, <3>2 DEF TypeOK, WaitTypes
    <3>5. WaitersBacked'
      BY <1>0, <3>2, <3>3, NobodyAssumption DEF TypeOK, WaitersBacked
    <3> HIDE DEF t, told
    <3> QED BY <1>00, <3>1, <3>2, <3>4, <3>5, AbortKeeps
  <2>2. CASE ~(t # NoTurn /\ op[t].phase = "queued")
    <3> DEFINE at == IF k # NoKey /\ runAt[k] # NoTurn THEN k ELSE NoKey
    <3>1. AbortThem({t} \ {NoTurn}, {}, ks, "user") /\ WaitOn(w, at, NoSid)
      BY <1>2, <2>2 DEF AbortAndWait
    <3>2. {t} \ {NoTurn} \in SUBSET {u \in Turns : Holding(u)}
      BY OperationFound
    <3>3. LeftByAbort({t} \ {NoTurn}) = {}
      BY <2>2 DEF LeftByAbort
    <3>4. runAt' = runAt /\ handleAt' = handleAt
      BY <1>0, <3>1, <3>3 DEF AbortThem, Unregister, embedded, TypeOK
    <3>5. at \in Keys \cup {NoKey} /\ (at # NoKey => runAt[at] # NoTurn)
      BY <1>0 DEF TypeOK
    <3>6. WaitTypes'
      BY <1>0, <3>1, <3>5 DEF WaitOn, TypeOK, WaitTypes
    <3>7. WaitersBacked'
      BY <1>0, <3>1, <3>4, <3>5 DEF WaitOn, TypeOK, WaitersBacked
    <3> HIDE DEF t, at
    <3> QED BY <1>00, <3>1, <3>2, <3>6, <3>7, AbortKeeps
  <2> QED BY <2>1, <2>2
<1> QED BY <1>1, <1>2

-----------------------------------------------------------------------------
(* The operation of one turn begins, moves to another session id, or ends. *)

LEMMA BeginKeeps ==
  ASSUME IInv, NEW t \in Turns, Begin(t)
  PROVE  IInv'
<1> DEFINE k == KeyOf[t]
           s == sidOf[t]
<1>0. TypeOK /\ TurnsInOrder /\ IdsApart /\ Registered /\ IndexesAgree /\ WaitersBacked
      /\ AbortedRunsNothing /\ LaneExclusive /\ HandlesHeld
  BY DEF IInv
<1>1. /\ pc[t] \in {"ready", "queued"} /\ k \in Keys /\ s \in Sids
      /\ UNCHANGED <<store, issued, sidOf, attached, run, handleAt, handleSidAt, snapshots,
                     waitKey, waitSid, answer>>
  BY <1>0, TurnsAssumption DEF Begin, TurnsInOrder, ids, embedded, waits
<1>2. CASE runAt[k] # NoTurn
  <2>1. /\ pc' = [pc EXCEPT ![t] = IF pc[t] = "ready" THEN "done" ELSE pc[t]]
        /\ UNCHANGED <<op, runAt, sidAt, keyAt, waitKeyAt>>
    BY <1>2 DEF Begin, registry
  <2>2. TypeOK'
    BY <1>0, <1>1, <2>1 DEF TypeOK, Pcs
  <2>3. TurnsInOrder'
    BY <1>0, <1>1, <2>1 DEF TurnsInOrder, TypeOK
  <2>4. IdsApart'
    BY <1>0, <1>1, <2>1 DEF IdsApart, Uses
  <2>5. Registered' /\ IndexesAgree' /\ WaitersBacked'
    BY <1>0, <1>1, <2>1 DEF Registered, Holding, IndexesAgree, WaitersBacked
  <2>6. AbortedRunsNothing' /\ LaneExclusive' /\ HandlesHeld'
    BY <1>0, <1>1, <2>1 DEF AbortedRunsNothing, Unheard, LaneExclusive, HandlesHeld
  <2> QED BY <2>2, <2>3, <2>4, <2>5, <2>6 DEF IInv
<1>3. CASE runAt[k] = NoTurn
  <2> DEFINE o == [NoOperation EXCEPT !.phase = "queued", !.sid = s, !.followup = pc[t] = "queued"]
  <2>1. /\ pc' = [pc EXCEPT ![t] = "began"]
        /\ op' = [op EXCEPT ![t] = o]
        /\ runAt' = [runAt EXCEPT ![k] = t]
        /\ sidAt' = [sidAt EXCEPT ![k] = s]
        /\ keyAt' = [keyAt EXCEPT ![s] = k]
        /\ waitKeyAt' = [waitKeyAt EXCEPT ![s] = k]
    BY <1>3 DEF Begin
  <2>2. /\ o \in Operations /\ o.phase = "queued" /\ o.sid = s /\ ~o.cleared /\ ~o.aborted
        /\ o.result = "none"
    BY <1>1 DEF Operations, NoOperation, Phases, Results
  <2> HIDE DEF o, k, s
  <2>3. op' \in [Turns -> Operations] /\ op'[t] = o /\ \A u \in Turns \ {t} : op'[u] = op[u]
    BY <1>0, <2>1, <2>2, OpEdited
  <2>4. TypeOK'
    <3>1. pc' \in [Turns -> Pcs]
      BY <1>0, <2>1 DEF TypeOK, Pcs
    <3>2. /\ runAt' \in [Keys -> Turns \cup {NoTurn}] /\ sidAt' \in [Keys -> Sids \cup {NoSid}]
          /\ keyAt' \in [Sids -> Keys \cup {NoKey}] /\ waitKeyAt' \in [Sids -> Keys \cup {NoKey}]
      BY <1>0, <1>1, <2>1 DEF TypeOK
    <3> QED BY <1>0, <1>1, <2>3, <3>1, <3>2 DEF TypeOK
  <2>5. TurnsInOrder'
    BY <1>0, <1>1, <2>1, <2>2, <2>3 DEF TurnsInOrder, TypeOK
  <2>6. \A u \in Turns : KeyOf[u] = k => ~Holding(u)
    BY <1>0, <1>1, <1>3, NobodyAssumption DEF Registered
  <2>7. \A u \in Turns : Holding(u)' <=> Holding(u) \/ u = t
    BY <2>2, <2>3 DEF Holding
  <2>8. KeyOf[t] = k /\ sidOf[t] = s
    BY DEF k, s
  <2>9. Registered'
    BY <1>0, <1>1, <2>1, <2>6, <2>7, <2>8, NobodyAssumption DEF Registered, TypeOK
  <2>10. ASSUME NEW l \in Keys, l # k PROVE keyAt[s] # l /\ waitKeyAt[s] # l
    <3>1. s \in Uses(k)
      BY <1>1, <2>8 DEF Uses
    <3>2. s \notin Uses(l)
      BY <1>0, <1>1, <2>10, <3>1 DEF IdsApart
    <3>3. waitKeyAt[s] # l
      BY <1>1, <3>2 DEF Uses
    <3>4. CASE keyAt[s] = l
      <4>1. runAt[l] # NoTurn /\ sidAt[l] = s /\ sidAt[l] = op[runAt[l]].sid
        BY <1>0, <1>1, <3>4 DEF IndexesAgree
      <4>2. runAt[l] \in Turns /\ KeyOf[runAt[l]] = l
        BY <1>0, <4>1, FoundHolds
      <4> QED BY <1>1, <3>2, <4>1, <4>2 DEF Uses
    <3> QED BY <3>3, <3>4
  <2>11. IndexesAgree'
    <3> SUFFICES ASSUME NEW l \in Keys
                 PROVE  /\ sidAt'[l] = IF runAt'[l] = NoTurn THEN NoSid ELSE op'[runAt'[l]].sid
                        /\ \A x \in Sids : keyAt'[x] = l <=> runAt'[l] # NoTurn /\ sidAt'[l] = x
                        /\ \A x \in Sids : waitKeyAt'[x] = l => runAt'[l] # NoTurn
      BY DEF IndexesAgree
    <3>1. CASE l = k
      <4>1. runAt'[l] = t /\ sidAt'[l] = s /\ t # NoTurn
        BY <1>0, <1>1, <2>1, <3>1, NobodyAssumption DEF TypeOK
      <4>2. \A x \in Sids : keyAt[x] # k
        BY <1>0, <1>1, <1>3 DEF IndexesAgree
      <4>3. \A x \in Sids : keyAt'[x] = k <=> x = s
        BY <1>0, <1>1, <2>1, <4>2 DEF TypeOK
      <4> QED BY <2>2, <2>3, <3>1, <4>1, <4>3
    <3>2. CASE l # k
      <4>1. runAt'[l] = runAt[l] /\ sidAt'[l] = sidAt[l]
        BY <1>0, <2>1, <3>2 DEF TypeOK
      <4>2. runAt[l] # t
        BY <1>0, <2>8, <3>2 DEF Registered
      <4>3. runAt[l] # NoTurn => op'[runAt[l]] = op[runAt[l]]
        BY <1>0, <2>3, <4>2, FoundHolds
      <4>4. \A x \in Sids : (keyAt'[x] = l <=> keyAt[x] = l) /\ (waitKeyAt'[x] = l <=> waitKeyAt[x] = l)
        BY <1>0, <1>1, <2>1, <2>10, <3>2 DEF TypeOK
      <4> QED BY <1>0, <4>1, <4>3, <4>4 DEF IndexesAgree
    <3> QED BY <3>1, <3>2
  <2>12. IdsApart'
    <3>1. \A l \in Keys : Uses(l)' \subseteq Uses(l)
      <4> SUFFICES ASSUME NEW l \in Keys, NEW x \in Sids, x \in Uses(l)' PROVE x \in Uses(l)
        BY DEF Uses
      <4>1. CASE waitKeyAt'[x] = l
        BY <1>0, <1>1, <2>1, <2>8, <4>1 DEF Uses, TypeOK
      <4>2. CASE waitKeyAt'[x] # l
        BY <1>1, <2>2, <2>3, <2>8, <4>2 DEF Uses
      <4> QED BY <4>1, <4>2
    <3> QED BY <1>0, <1>1, <3>1, UsesKept
  <2>13. WaitersBacked'
    BY <1>0, <1>1, <2>1, NobodyAssumption DEF WaitersBacked, TypeOK
  <2>14. AbortedRunsNothing' /\ LaneExclusive' /\ HandlesHeld'
    BY <1>0, <1>1, <2>2, <2>3 DEF AbortedRunsNothing, Unheard, LaneExclusive, HandlesHeld
  <2> QED BY <2>4, <2>5, <2>9, <2>11, <2>12, <2>13, <2>14 DEF IInv
<1> QED BY <1>2, <1>3

\* An operation ends: failed, with its turn to go on, or complete.
LEMMA EndKeeps ==
  ASSUME IInv, NEW t \in Turns, Fail(t) \/ Complete(t)
  PROVE  IInv'
<1>0. TypeOK /\ TurnsInOrder /\ IdsApart /\ Registered /\ IndexesAgree /\ WaitersBacked
      /\ AbortedRunsNothing /\ LaneExclusive /\ HandlesHeld
  BY DEF IInv
<1> DEFINE ts == IF op[t].cleared THEN {} ELSE {t}
<1>1. /\ pc[t] \in {"began", "flushing", "running", "failing", "unwinding"} /\ run[t] = "out"
      /\ UNCHANGED <<store, issued, sidOf, attached, run, handleAt, handleSidAt, snapshots>>
      /\ Unregister(ts) /\ Notify({KeyOf[u] : u \in ts}, {})
  BY DEF Fail, Complete, FreeKey, ids, embedded
<1>2. op[t].phase # "none" /\ op[t].sid \in Sids /\ op[t] \in Operations
  BY <1>0, <1>1 DEF TurnsInOrder, TypeOK
<1>3. PICK o \in Operations :
        /\ op' = [op EXCEPT ![t] = o]
        /\ \/ o = NoOperation /\ pc' = [pc EXCEPT ![t] = "done"]
           \/ /\ o.phase # "none" /\ o.cleared /\ o.result # "none" /\ o.sid = op[t].sid
              /\ o.aborted = op[t].aborted
              /\ pc' = [pc EXCEPT ![t] = "unwinding"]
  <2>1. CASE Fail(t)
    <3> DEFINE first == op[t].result = "none"
               f == [op[t] EXCEPT !.result = IF first THEN "failed" ELSE op[t].result,
                                  !.phase = IF first THEN "failed" ELSE op[t].phase,
                                  !.cleared = TRUE]
    <3>1. f \in Operations /\ f.phase # "none" /\ f.cleared /\ f.result # "none"
          /\ f.sid = op[t].sid /\ f.aborted = op[t].aborted
      BY <1>2 DEF Operations, Phases, Results
    <3>2. op' = [op EXCEPT ![t] = f]
      BY <1>2, <2>1 DEF Fail
    <3>3. pc' = [pc EXCEPT ![t] = "unwinding"]
      BY <2>1 DEF Fail
    <3> HIDE DEF f, ts
    <3> QED BY <3>1, <3>2, <3>3
  <2>2. CASE Complete(t)
    <3>1. NoOperation \in Operations
      BY DEF Operations, NoOperation, Phases, Results
    <3> QED BY <2>2, <3>1 DEF Complete
  <2> QED BY <2>1, <2>2
<1>4. op' \in [Turns -> Operations] /\ op'[t] = o /\ \A u \in Turns \ {t} : op'[u] = op[u]
  BY <1>0, <1>3, OpEdited
<1>5. NoOperation.phase = "none" /\ ~NoOperation.aborted /\ ~NoOperation.cleared
      /\ NoOperation.sid = NoSid /\ NoOperation.result = "none"
  BY DEF NoOperation
<1>6. ts \in SUBSET {u \in Turns : Holding(u)}
  BY <1>2 DEF Holding
<1>7. \A u \in Turns : Holding(u)' <=> Holding(u) /\ u \notin ts
  BY <1>3, <1>4, <1>5 DEF Holding
<1>8. \A u \in Turns : Holding(u)' => op'[u].sid = op[u].sid
  BY <1>3, <1>4, <1>5 DEF Holding
<1> HIDE DEF ts
<1>9. /\ Registered' /\ IndexesAgree'
      /\ runAt' \in [Keys -> Turns \cup {NoTurn}]
      /\ sidAt' \in [Keys -> Sids \cup {NoSid}]
      /\ keyAt' \in [Sids -> Keys \cup {NoKey}]
      /\ waitKeyAt' \in [Sids -> Keys \cup {NoKey}]
      /\ \A s \in Sids : waitKeyAt'[s] \in {waitKeyAt[s], NoKey}
      /\ \A k \in Keys : (\A u \in ts : KeyOf[u] # k) => runAt'[k] = runAt[k]
  BY <1>0, <1>1, <1>6, <1>7, <1>8, Freeing
<1>10. WaitTypes' /\ WaitersBacked'
  <2> DEFINE told == {KeyOf[u] : u \in ts}
  <2>1. told \in SUBSET Keys /\ Notify(told, {})
    BY <1>1, <1>6, TurnsAssumption
  <2>2. \A k \in Keys \ told : runAt'[k] = runAt[k]
    BY <1>9
  <2> HIDE DEF told
  <2> QED BY <1>0, <1>1, <2>1, <2>2, Notified
<1>11. TypeOK'
  <2>1. pc' \in [Turns -> Pcs]
    BY <1>0, <1>3 DEF TypeOK, Pcs
  <2> QED BY <1>0, <1>1, <1>4, <1>9, <1>10, <2>1 DEF TypeOK, WaitTypes
<1>12. TurnsInOrder'
  BY <1>0, <1>1, <1>2, <1>3, <1>4, <1>5 DEF TurnsInOrder, TypeOK
<1>13. IdsApart'
  <2>1. \A u \in Turns : op'[u].sid = op[u].sid \/ op'[u].sid = NoSid
    BY <1>3, <1>4, <1>5
  <2>2. NoSid \notin Sids
    BY DEF NoSid, Sids
  <2>3. \A k \in Keys : Uses(k)' \subseteq Uses(k)
    BY <1>1, <1>9, <2>1, <2>2, NobodyAssumption DEF Uses
  <2> QED BY <1>0, <1>1, <2>3, UsesKept
<1>14. AbortedRunsNothing' /\ LaneExclusive' /\ HandlesHeld'
  BY <1>0, <1>1, <1>3, <1>4, <1>5 DEF AbortedRunsNothing, Unheard, LaneExclusive, HandlesHeld, Live
<1> QED BY <1>9, <1>10, <1>11, <1>12, <1>13, <1>14 DEF IInv

\* The operation follows the session store to another session id.
LEMMA FollowStoreKeeps ==
  ASSUME IInv, NEW t \in Turns, FollowStore(t)
  PROVE  IInv'
<1> DEFINE k == KeyOf[t]
           s == store'[KeyOf[t]]
           old == op[t].sid
<1>0. TypeOK /\ TurnsInOrder /\ IdsApart /\ Registered /\ IndexesAgree /\ WaitersBacked
      /\ AbortedRunsNothing /\ LaneExclusive /\ HandlesHeld
  BY DEF IInv
<1>1. /\ pc[t] = "flushing" /\ run[t] = "out" /\ k \in Keys
      /\ UNCHANGED <<pc, attached, run, handleAt, handleSidAt, snapshots, waitKey, waitSid, answer>>
      /\ sidOf' = [u \in Turns |-> IF u = t \/ (pc[u] = "queued" /\ KeyOf[u] = k /\ sidOf[u] = store[k])
                                   THEN s ELSE sidOf[u]]
      /\ Rebind(t, s)
  BY TurnsAssumption DEF FollowStore, FollowIds, embedded, waits
<1>2. op[t].phase # "none" /\ old \in Sids /\ op[t] \in Operations
  BY <1>0, <1>1 DEF TurnsInOrder, TypeOK
<1>3. /\ store' \in [Keys -> Sids] /\ issued' \in 0..MaxSid /\ s \in Sids
      /\ \/ store' = store /\ issued' = issued
         \/ issued' = NextSid /\ store' = [store EXCEPT ![k] = NextSid] /\ s = NextSid
  <2>1. CASE store' = store /\ issued' = issued
    BY <1>0, <1>1, <2>1 DEF TypeOK
  <2>2. CASE /\ issued < MaxSid
             /\ issued' = NextSid
             /\ store' = [store EXCEPT ![KeyOf[t]] = NextSid]
    <3>1. NextSid \in Sids /\ NextSid \in 0..MaxSid
      BY <1>0, <2>2, SidAssumption DEF NextSid, TypeOK, Sids
    <3>2. store' \in [Keys -> Sids] /\ s = NextSid
      BY <1>0, <1>1, <2>2, <3>1 DEF TypeOK
    <3> HIDE DEF s
    <3> QED BY <2>2, <3>1, <3>2
  <2> QED BY <2>1, <2>2 DEF FollowStore
<1> DEFINE free == op[t].result # "none" \/ s = old \/ keyAt[s] \notin {NoKey, k}
<1>4. /\ op' \in [Turns -> Operations]
      /\ \A u \in Turns \ {t} : op'[u] = op[u]
      /\ op'[t].sid = IF free THEN old ELSE s
      /\ op'[t].phase = op[t].phase /\ op'[t].result = op[t].result
      /\ op'[t].cleared = op[t].cleared /\ op'[t].aborted = op[t].aborted
      /\ op'[t].followup = op[t].followup
  <2>1. CASE free
    <3>1. op' = op
      BY <1>1, <2>1 DEF Rebind
    <3> QED BY <1>0, <2>1, <3>1 DEF TypeOK
  <2>2. CASE ~free
    <3> DEFINE o == [op[t] EXCEPT !.sid = s]
    <3>1. op' = [op EXCEPT ![t] = o]
      BY <1>1, <2>2 DEF Rebind
    <3>2. /\ o \in Operations /\ o.sid = s /\ o.phase = op[t].phase /\ o.result = op[t].result
          /\ o.cleared = op[t].cleared /\ o.aborted = op[t].aborted
          /\ o.followup = op[t].followup
      BY <1>2, <1>3 DEF Operations
    <3> HIDE DEF o, free, s
    <3> QED BY <1>0, <2>2, <3>1, <3>2, OpEdited
  <2> QED BY <2>1, <2>2
<1>5. \A u \in Turns : Holding(u)' <=> Holding(u)
  BY <1>4 DEF Holding
<1>6. runAt' = runAt
  BY <1>1 DEF Rebind, registry
<1>7. Registered' /\ WaitersBacked'
  BY <1>0, <1>1, <1>5, <1>6 DEF Registered, WaitersBacked
<1>8. free => UNCHANGED <<sidAt, keyAt, waitKeyAt>> /\ op' = op
  BY <1>1 DEF Rebind, registry
<1>9. ~free => /\ sidAt' = [sidAt EXCEPT ![k] = s]
               /\ keyAt' = [keyAt EXCEPT ![old] = NoKey, ![s] = k]
               /\ waitKeyAt' = [waitKeyAt EXCEPT ![old] = k, ![s] = k]
               /\ runAt[k] = t /\ t # NoTurn
               /\ s # old /\ keyAt[s] \in {NoKey, k}
  <2>1. ~free => ~op[t].cleared
    BY <1>0 DEF TurnsInOrder
  <2>2. ~free => runAt[k] = t
    BY <1>0, <1>1, <1>2, <2>1 DEF Registered, Holding
  <2> QED BY <1>1, <2>2, NobodyAssumption DEF Rebind
<1> HIDE DEF free, s
<1>10. TypeOK'
  <2>1. sidOf' \in [Turns -> Sids \cup {NoSid}]
    BY <1>0, <1>1, <1>3 DEF TypeOK
  <2>2. /\ sidAt' \in [Keys -> Sids \cup {NoSid}] /\ keyAt' \in [Sids -> Keys \cup {NoKey}]
        /\ waitKeyAt' \in [Sids -> Keys \cup {NoKey}]
    BY <1>0, <1>1, <1>2, <1>3, <1>8, <1>9 DEF TypeOK
  <2> QED BY <1>0, <1>1, <1>3, <1>4, <1>6, <2>1, <2>2 DEF TypeOK
<1>11. TurnsInOrder'
  BY <1>0, <1>1, <1>2, <1>3, <1>4 DEF TurnsInOrder, TypeOK
<1>12. \A u \in Turns : \/ sidOf'[u] = sidOf[u]
                        \/ KeyOf[u] = k /\ sidOf'[u] = s /\ run[u] = "out"
  <2>1. \A u \in Turns : pc[u] = "queued" => run[u] = "out"
    BY <1>0 DEF TurnsInOrder
  <2> HIDE DEF k
  <2>2. KeyOf[t] = k
    BY DEF k
  <2> QED BY <1>1, <2>1, <2>2
<1>13. \A l \in Keys \ {k}, x \in Sids : waitKeyAt'[x] = l => waitKeyAt[x] = l
  BY <1>0, <1>2, <1>3, <1>8, <1>9 DEF TypeOK
<1>14. \A x \in Sids : waitKeyAt'[x] = k => waitKeyAt[x] = k \/ x = old \/ x = s
  BY <1>0, <1>2, <1>3, <1>8, <1>9 DEF TypeOK
<1>15. IdsApart'
  <2>1. \A l \in Keys : l # k => Uses(l)' \subseteq Uses(l)
    BY <1>0, <1>3, <1>4, <1>12, <1>13 DEF Uses, TypeOK
  <2>2. Uses(k)' \subseteq Uses(k) \cup {s}
    BY <1>0, <1>1, <1>3, <1>4, <1>12, <1>14 DEF Uses, TypeOK
  <2>3. CASE store' = store /\ issued' = issued
    <3>1. s = store[k]
      BY <2>3 DEF s
    <3>2. s \in Uses(k)
      BY <1>3, <3>1 DEF Uses
    <3> QED BY <1>0, <2>1, <2>2, <2>3, <3>2, UsesKept
  <2>4. CASE issued' = NextSid /\ s = NextSid
    BY <1>0, <1>1, <2>1, <2>2, <2>4, UsesFresh
  <2> QED BY <1>3, <2>3, <2>4
<1>16. IndexesAgree'
  <2>1. CASE free
    BY <1>0, <1>6, <1>8, <2>1 DEF IndexesAgree
  <2>2. CASE ~free
    <3> SUFFICES ASSUME NEW l \in Keys
                 PROVE  /\ sidAt'[l] = IF runAt'[l] = NoTurn THEN NoSid ELSE op'[runAt'[l]].sid
                        /\ \A x \in Sids : keyAt'[x] = l <=> runAt'[l] # NoTurn /\ sidAt'[l] = x
                        /\ \A x \in Sids : waitKeyAt'[x] = l => runAt'[l] # NoTurn
      BY DEF IndexesAgree
    <3>1. CASE l = k
      <4>1. sidAt'[k] = s /\ op'[t].sid = s
        BY <1>0, <1>1, <1>4, <1>9, <2>2 DEF TypeOK
      <4>2. \A x \in Sids : keyAt[x] = k <=> x = old
        BY <1>0, <1>1, <1>2, <1>9, <2>2 DEF IndexesAgree
      <4>3. \A x \in Sids : keyAt'[x] = k <=> x = s
        BY <1>0, <1>1, <1>2, <1>3, <1>9, <2>2, <4>2, NobodyAssumption DEF TypeOK
      <4> QED BY <1>6, <1>9, <2>2, <3>1, <4>1, <4>3
    <3>2. CASE l # k
      <4>1. sidAt'[l] = sidAt[l]
        BY <1>0, <1>9, <2>2, <3>2 DEF TypeOK
      <4>2. runAt[l] # NoTurn => runAt[l] \in Turns \ {t}
        BY <1>0, <3>2, FoundHolds
      <4>3. keyAt[old] = k
        BY <1>0, <1>1, <1>2, <1>9, <2>2 DEF IndexesAgree
      <4>4. \A x \in Sids : keyAt'[x] = l <=> keyAt[x] = l
        BY <1>0, <1>1, <1>2, <1>3, <1>9, <2>2, <3>2, <4>3, NobodyAssumption DEF TypeOK
      <4>5. \A x \in Sids : waitKeyAt'[x] = l => waitKeyAt[x] = l
        BY <1>13, <3>2
      <4> QED BY <1>0, <1>4, <1>6, <4>1, <4>2, <4>4, <4>5 DEF IndexesAgree
    <3> QED BY <3>1, <3>2
  <2> QED BY <2>1, <2>2
<1>17. AbortedRunsNothing'
  BY <1>0, <1>1, <1>4 DEF AbortedRunsNothing, Unheard
<1>18. LaneExclusive' /\ HandlesHeld'
  BY <1>0, <1>1, <1>12 DEF LaneExclusive, HandlesHeld, InAttempt, Live
<1> QED BY <1>7, <1>10, <1>11, <1>15, <1>16, <1>17, <1>18 DEF IInv

-----------------------------------------------------------------------------
(* Initially, and in every step. *)

\* The session id that a command or a reset aborts by is one of the ids.
LEMMA ActiveSids ==
  ASSUME TypeOK, NEW k \in Keys
  PROVE  ActiveSid(k) \in Sids
BY DEF TypeOK, ActiveSid, ActiveSidOr

LEMMA InterruptKeeps ==
  ASSUME IInv, NEW t \in Turns, InterruptLane(t) \/ ArriveInterrupting(t)
  PROVE  IInv'
<1>0. TypeOK /\ KeyOf[t] \in Keys /\ t \in Waiters
  BY TurnsAssumption DEF IInv, Waiters
<1> DEFINE s == ActiveSid(KeyOf[t])
<1>1. s \in Sids
  BY <1>0, ActiveSids
<1>2. /\ pc' \in [Turns -> Pcs]
      /\ \A u \in Turns : \/ pc'[u] = pc[u]
                          \/ pc[u] \in {"new", "interrupting"} /\ pc'[u] \in {"interrupting", "waiting"}
  BY <1>0 DEF InterruptLane, ArriveInterrupting, TypeOK, Pcs
<1>3. CASE InterruptLane(t)
  <2> DEFINE hs == {handleAt[s]} \ {NoTurn}
             ts == IF hs # {} THEN {} ELSE {OperationAt(s)} \ {NoTurn}
  <2>1. hs \in SUBSET Turns
    BY <1>0, <1>1 DEF TypeOK
  <2>2. ts \in SUBSET {u \in Turns : Holding(u)}
    BY <1>1, OperationFound
  <2>3. AbortThem(ts, hs, {KeyOf[t]}, "user") /\ Notify({KeyOf[u] : u \in LeftByAbort(ts)}, {})
    BY <1>3 DEF InterruptLane
  <2>4. "user" \in Results \ {"none"}
    BY DEF Results
  <2> HIDE DEF hs, ts
  <2> QED BY <1>2, <2>1, <2>2, <2>3, <2>4, AbortAndTell
<1>4. CASE ArriveInterrupting(t)
  <2>1. AbortAndWait(t, s, {})
    BY <1>4 DEF ArriveInterrupting
  <2> HIDE DEF s
  <2> QED BY <1>0, <1>1, <1>2, <2>1, AbortAndWaitKeeps
<1> QED BY <1>3, <1>4

LEMMA AbortCommandKeeps ==
  ASSUME IInv, NEW k \in Keys, AbortCommand(k)
  PROVE  IInv'
<1> DEFINE ts  == {runAt[k]} \ {NoTurn}
           sid == IF sidAt[k] # NoSid THEN sidAt[k] ELSE store[k]
           h   == {handleAt[sid]} \ {NoTurn}
<1>0. TypeOK /\ Registered
  BY DEF IInv
<1>1. sid \in Sids
  BY <1>0 DEF TypeOK
<1>2. h \in SUBSET Turns /\ ts \in SUBSET {u \in Turns : Holding(u)}
  BY <1>0, <1>1, FoundHolds DEF TypeOK
<1>3. PICK hs \in SUBSET Turns, ks \in {{}, {k}} : AbortThem(ts, hs, ks, "user")
  BY <1>2 DEF AbortCommand
<1>4. Notify({KeyOf[t] : t \in LeftByAbort(ts)}, {}) /\ \E of \in {{}, {k}} : ClearQueues(of)
  BY DEF AbortCommand
<1>5. pc' \in [Turns -> Pcs]
      /\ \A u \in Turns : pc'[u] = pc[u] \/ (pc[u] = "queued" /\ pc'[u] = "done")
  BY <1>0, <1>4 DEF ClearQueues, TypeOK, Pcs
<1>6. "user" \in Results \ {"none"}
  BY DEF Results
<1> HIDE DEF ts
<1> QED BY <1>2, <1>3, <1>4, <1>5, <1>6, AbortAndTell

LEMMA AbortForRestartKeeps ==
  ASSUME IInv, NEW C \in SUBSET Turns, AbortForRestart(C)
  PROVE  IInv'
<1> DEFINE registered == {t \in Turns : runAt[KeyOf[t]] = t}
           handles == {t \in Turns : \E s \in Sids : handleAt[s] = t}
<1>0. TypeOK /\ Registered
  BY DEF IInv
<1>1. registered \in SUBSET {t \in Turns : Holding(t)}
  BY <1>0, TurnsAssumption DEF Registered
<1> DEFINE compacting == {t \in registered :
                            \/ op[t].phase \in {"preflight_compacting", "memory_flushing"}
                            \/ op[t].phase = "running" /\ t \in attached \cap C}
           Ts(all) == IF all THEN registered ELSE compacting
           Hs(all) == IF all THEN handles ELSE handles \cap C
<1>2. PICK all \in BOOLEAN :
        AbortThem(Ts(all), Hs(all), {}, "restart")
        /\ Notify({KeyOf[t] : t \in LeftByAbort(Ts(all))}, {})
  BY DEF AbortForRestart
<1>3. pc' \in [Turns -> Pcs] /\ \A u \in Turns : pc'[u] = pc[u]
  BY <1>0 DEF AbortForRestart, TypeOK
<1>4. "restart" \in Results \ {"none"}
  BY DEF Results
<1>5. Ts(all) \in SUBSET {t \in Turns : Holding(t)} /\ Hs(all) \in SUBSET Turns
  BY <1>1
<1> HIDE DEF Ts, Hs
<1> QED BY <1>2, <1>3, <1>4, <1>5, AbortAndTell

LEMMA ResetKeeps ==
  ASSUME IInv, NEW c \in Callers, ResetRequest(c) \/ ResetEntry(c)
  PROVE  IInv'
<1>0. TypeOK /\ TurnsInOrder /\ IdsApart /\ Registered /\ IndexesAgree /\ WaitersBacked
      /\ AbortedRunsNothing /\ LaneExclusive /\ HandlesHeld
  BY DEF IInv
<1> DEFINE k == KeyOf[c]
<1>1. k \in Keys /\ c \in Waiters
  BY TurnsAssumption DEF Waiters
<1>2. CASE ResetRequest(c)
  <2>1. store[k] \in Sids /\ AbortAndWait(c, store[k], {k})
    BY <1>0, <1>1, <1>2 DEF ResetRequest, TypeOK
  <2>2. pc' \in [Turns -> Pcs]
        /\ \A u \in Turns : pc'[u] = pc[u] \/ (pc[u] = "queued" /\ pc'[u] = "done")
    BY <1>0, <1>2 DEF ResetRequest, ClearQueues, TypeOK, Pcs
  <2> QED BY <1>1, <2>1, <2>2, AbortAndWaitKeeps
<1>3. CASE ResetEntry(c)
  <2>1. /\ issued < MaxSid /\ issued' = NextSid /\ store' = [store EXCEPT ![k] = NextSid]
        /\ answer' = [answer EXCEPT ![c] = "used"]
        /\ UNCHANGED <<pc, sidOf, op, attached, run, runAt, sidAt, keyAt, waitKeyAt, handleAt,
                       handleSidAt, snapshots, waitKey, waitSid>>
    BY <1>3 DEF ResetEntry, registry, embedded
  <2>2. NextSid \in Sids /\ NextSid \in 0..MaxSid
    BY <1>0, <2>1, SidAssumption DEF NextSid, TypeOK, Sids
  <2>3. TypeOK'
    BY <1>0, <1>1, <2>1, <2>2 DEF TypeOK
  <2>4. TurnsInOrder'
    BY <1>0, <2>1 DEF TurnsInOrder
  <2>5. Uses(k)' \subseteq Uses(k) \cup {NextSid}
    BY <1>0, <1>1, <2>1 DEF Uses, TypeOK
  <2>6. \A l \in Keys : l # k => Uses(l)' \subseteq Uses(l)
    BY <1>0, <1>1, <2>1 DEF Uses, TypeOK
  <2>7. IdsApart'
    BY <1>0, <1>1, <2>1, <2>5, <2>6, UsesFresh
  <2>8. Registered' /\ IndexesAgree' /\ WaitersBacked'
    BY <1>0, <2>1 DEF Registered, Holding, IndexesAgree, WaitersBacked
  <2>9. AbortedRunsNothing' /\ LaneExclusive' /\ HandlesHeld'
    BY <1>0, <2>1 DEF AbortedRunsNothing, Unheard, LaneExclusive, HandlesHeld
  <2> QED BY <2>3, <2>4, <2>7, <2>8, <2>9 DEF IInv
<1> QED BY <1>2, <1>3

\* A wait that times out, and a step that does nothing.
LEMMA TimeoutKeeps ==
  ASSUME IInv, (\E w \in Waiters : WaitTimeout(w)) \/ UNCHANGED vars
  PROVE  IInv'
<1>0. TypeOK /\ TurnsInOrder /\ IdsApart /\ Registered /\ IndexesAgree /\ WaitersBacked
      /\ AbortedRunsNothing /\ LaneExclusive /\ HandlesHeld
  BY DEF IInv
<1>1. UNCHANGED <<store, issued, pc, sidOf, op, attached, run, runAt, sidAt, keyAt, waitKeyAt,
                  handleAt, handleSidAt, snapshots>>
  BY DEF WaitTimeout, ids, registry, embedded, vars
<1>2. WaitTypes'
  BY <1>0 DEF WaitTimeout, TypeOK, WaitTypes, vars
<1>3. TypeOK'
  BY <1>0, <1>1, <1>2 DEF TypeOK, WaitTypes
<1>4. WaitersBacked'
  BY <1>0, <1>1 DEF WaitTimeout, TypeOK, WaitersBacked, vars
<1>5. TurnsInOrder' /\ IdsApart'
  BY <1>0, <1>1 DEF TurnsInOrder, IdsApart, Uses
<1>6. Registered' /\ IndexesAgree'
  BY <1>0, <1>1 DEF Registered, Holding, IndexesAgree
<1>7. AbortedRunsNothing' /\ LaneExclusive' /\ HandlesHeld'
  BY <1>0, <1>1 DEF AbortedRunsNothing, Unheard, LaneExclusive, HandlesHeld
<1> QED BY <1>3, <1>4, <1>5, <1>6, <1>7 DEF IInv

\* A process that begins has no operation, no handle and no wait: the invariant holds.
THEOREM InitIInv == Init => IInv
<1> SUFFICES ASSUME Init PROVE IInv
  OBVIOUS
<1>1. issued \in 0..MaxSid /\ 1..issued \subseteq Sids /\ NoSid \notin Sids
  BY SidAssumption, FS_CardinalityType DEF Init, Sids, NoSid
<1>2. store \in [Keys -> Sids] /\ \A k \in Keys : store[k] \in 1..issued
  BY <1>1 DEF Init
<1>3. NoOperation \in Operations /\ NoOperation.phase = "none" /\ ~NoOperation.cleared
      /\ ~NoOperation.aborted /\ NoOperation.sid = NoSid /\ NoOperation.result = "none"
  BY DEF NoOperation, Operations, Phases, Results
<1>4. TypeOK
  <2>1. /\ pc \in [Turns -> Pcs] /\ op \in [Turns -> Operations] /\ sidOf \in [Turns -> Sids \cup {NoSid}]
        /\ run \in [Turns -> {"out", "queued", "held"} \cup InAttempt]
        /\ attached \in SUBSET {t \in Turns : run[t] \in InAttempt} /\ snapshots \in SUBSET Sids
    BY <1>3 DEF Init, Pcs
  <2>2. /\ runAt \in [Keys -> Turns \cup {NoTurn}] /\ sidAt \in [Keys -> Sids \cup {NoSid}]
        /\ keyAt \in [Sids -> Keys \cup {NoKey}] /\ waitKeyAt \in [Sids -> Keys \cup {NoKey}]
        /\ handleAt \in [Sids -> Turns \cup {NoTurn}] /\ handleSidAt \in [Keys -> Sids \cup {NoSid}]
    BY DEF Init
  <2>3. /\ waitKey \in [Waiters -> Keys \cup {NoKey}] /\ waitSid \in [Waiters -> Sids \cup {NoSid}]
        /\ answer \in [Waiters -> {"none", "ended", "late", "used"}]
    BY DEF Init
  <2> QED BY <1>1, <1>2, <2>1, <2>2, <2>3 DEF TypeOK
<1>5. TurnsInOrder
  BY <1>3 DEF Init, TurnsInOrder
<1>6. \A k \in Keys : Uses(k) = {store[k]}
  BY <1>1, <1>2, <1>3, NobodyAssumption DEF Init, Uses
<1>7. IdsApart
  BY <1>2, <1>6 DEF Init, IdsApart
<1>8. Registered /\ IndexesAgree /\ WaitersBacked
  BY <1>1, <1>3, NobodyAssumption DEF Init, Registered, Holding, IndexesAgree, WaitersBacked
<1>9. AbortedRunsNothing /\ LaneExclusive /\ HandlesHeld
  BY <1>3 DEF Init, AbortedRunsNothing, LaneExclusive, HandlesHeld, InAttempt, Live
<1> QED BY <1>4, <1>5, <1>7, <1>8, <1>9 DEF IInv

\* The invariant that ties operations, indexes, handles and lanes together holds in every
\* reachable state, whatever order turns, aborts, resets and timeouts come in.
THEOREM Invariance == Spec => []IInv
<1>1. IInv /\ [Next]_vars => IInv'
  <2> SUFFICES ASSUME IInv, [Next]_vars PROVE IInv'
    OBVIOUS
  <2>1. ASSUME NEW t \in Turns, TurnStep(t) \/ UpstreamAbort(t) PROVE IInv'
    BY <2>1, QuietKeeps, InterruptKeeps, BeginKeeps, EndKeeps, FollowStoreKeeps
    DEF TurnStep, QuietStep
  <2>2. ASSUME NEW C \in SUBSET {t \in Turns : run[t] \in InAttempt}, AbortForRestart(C) PROVE IInv'
    BY <2>2, AbortForRestartKeeps
  <2> QED BY <2>1, <2>2, AbortCommandKeeps, ResetKeeps, TimeoutKeeps DEF Next
<1> QED BY <1>1, InitIInv, PTL DEF Spec

-----------------------------------------------------------------------------
\* Every variable keeps its type.
THEOREM RunTypes == Spec => []TypeOK
<1>1. IInv => TypeOK
  BY DEF IInv
<1> QED BY <1>1, Invariance, PTL

\* A key is in the registry exactly while the operation that took it has not been
\* cleared (createReplyOperation, clearState).
THEOREM RegistrationIsOwn == Spec => []OwnRegistration
<1>1. IInv => OwnRegistration
  BY TurnsAssumption DEF IInv, Registered, OwnRegistration
<1> QED BY <1>1, Invariance, PTL

\* The maps of the reply run registry agree (createReplyOperation, updateSessionId,
\* clearReplyRunState).
THEOREM RegistryIndexesAgree == Spec => []IndexesAgree
<1>1. IInv => IndexesAgree
  BY DEF IInv
<1> QED BY <1>1, Invariance, PTL

\* No wait is left pending for a run or a key that is gone (notifyReplyRunEnded,
\* notifyEmbeddedRunEnded).
THEOREM WaitsAreBacked == Spec => []WaitersBacked
<1>1. IInv => WaitersBacked
  BY DEF IInv
<1> QED BY <1>1, Invariance, PTL

\* No attempt of an aborted turn goes on (attachBackend, abortByUser,
\* abortForRestart), but the live one of a followup turn whose caller alone aborted it
\* (abortInternally, followup-runner.ts).
THEOREM AbortsReachRuns == Spec => []AbortedRunsNothing
<1>1. IInv => AbortedRunsNothing
  BY DEF IInv
<1> QED BY <1>1, Invariance, PTL

\* The count is zero only when nothing is registered.
LEMMA ZeroIsIdle == IInv => DrainedIsIdle
<1> SUFFICES ASSUME IInv, RunCount = 0, NEW t \in Turns PROVE run[t] \notin InAttempt /\ ~Holding(t)
  BY DEF DrainedIsIdle
<1> DEFINE handles == {s \in Sids : handleAt[s] # NoTurn}
           others  == {k \in Keys : sidAt[k] # NoSid /\ sidAt[k] \notin handles}
           taken   == {k \in Keys : runAt[k] # NoTurn}
           bigger(a, b) == IF a > b THEN a ELSE b
<1>1. bigger(Cardinality(handles) + Cardinality(others), Cardinality(taken)) = 0
  BY DEF RunCount
<1>2. IsFiniteSet(handles) /\ IsFiniteSet(others) /\ IsFiniteSet(taken)
  <2>1. IsFiniteSet(Sids)
    BY FS_Interval, SidAssumption DEF Sids
  <2>2. handles \subseteq Sids /\ others \subseteq Keys /\ taken \subseteq Keys
    OBVIOUS
  <2> HIDE DEF handles, others, taken
  <2> QED BY <2>1, <2>2, FS_Subset, SidAssumption
<1>3. Cardinality(handles) \in Nat /\ Cardinality(others) \in Nat /\ Cardinality(taken) \in Nat
  <2> HIDE DEF handles, others, taken
  <2> QED BY <1>2, FS_CardinalityType
<1>4. Cardinality(handles) = 0 /\ Cardinality(taken) = 0
  <2> HIDE DEF handles, others, taken
  <2> QED BY <1>1, <1>3
<1>5. handles = {} /\ taken = {}
  <2> HIDE DEF handles, others, taken
  <2> QED BY <1>2, <1>4, FS_EmptySet
<1>6. ~Holding(t)
  <2>1. runAt[KeyOf[t]] = NoTurn
    BY <1>5, TurnsAssumption
  <2> QED BY <2>1, TurnsAssumption, NobodyAssumption DEF IInv, Registered
<1>7. run[t] \notin InAttempt
  <2> SUFFICES ASSUME run[t] \in InAttempt PROVE FALSE
    OBVIOUS
  <2>1. sidOf[t] \in Sids /\ handleAt[sidOf[t]] = t
    BY DEF IInv, TurnsInOrder, HandlesHeld, InAttempt, Live
  <2> QED BY <1>5, <2>1, NobodyAssumption
<1> QED BY <1>6, <1>7

\* A count of zero means that no attempt is in progress and no key is taken
\* (getActiveEmbeddedRunCount).
THEOREM ZeroMeansIdle == Spec => []DrainedIsIdle
<1> QED BY ZeroIsIdle, Invariance, PTL

\* What every step of IdsKeepFinding must do.
FindsStill == \A t \in Turns, s \in Sids :
                /\ Holding(t) /\ Holding(t)'
                /\ KeyOf[t] \in {keyAt[s], waitKeyAt[s]}
                => KeyOf[t] \in {keyAt[s]', waitKeyAt[s]'}

LEMMA FoundIsUsed ==
  ASSUME IInv, NEW k \in Keys, NEW s \in Sids, keyAt[s] = k \/ waitKeyAt[s] = k
  PROVE  s \in Uses(k)
<1>1. CASE waitKeyAt[s] = k
  BY <1>1 DEF Uses
<1>2. CASE keyAt[s] = k
  <2>1. runAt[k] # NoTurn /\ op[runAt[k]].sid = s
    BY <1>2 DEF IInv, IndexesAgree
  <2>2. runAt[k] \in Turns /\ KeyOf[runAt[k]] = k
    BY <2>1, FoundHolds DEF IInv
  <2> QED BY <2>1, <2>2 DEF Uses
<1> QED BY <1>1, <1>2

LEMMA UnregisterFinds ==
  ASSUME IInv, NEW ts \in SUBSET {u \in Turns : Holding(u)}, Unregister(ts),
         \A u \in ts : ~Holding(u)'
  PROVE  FindsStill
<1> SUFFICES ASSUME NEW t \in Turns, NEW s \in Sids, Holding(t), Holding(t)',
                    KeyOf[t] \in {keyAt[s], waitKeyAt[s]}
             PROVE  KeyOf[t] \in {keyAt'[s], waitKeyAt'[s]}
  BY DEF FindsStill
<1>1. KeyOf[t] \in Keys /\ \A u \in ts : KeyOf[u] \in Keys /\ KeyOf[u] # KeyOf[t]
  BY TurnsAssumption DEF IInv, Registered
<1>2. /\ keyAt' = [x \in Sids |-> IF \E u \in ts : op[u].sid = x /\ keyAt[x] = KeyOf[u]
                                  THEN NoKey ELSE keyAt[x]]
      /\ waitKeyAt' = [x \in Sids |-> IF waitKeyAt[x] \in {KeyOf[u] : u \in ts}
                                      THEN NoKey ELSE waitKeyAt[x]]
  BY DEF Unregister
<1> QED BY <1>1, <1>2

LEMMA NextFinds == IInv /\ [Next]_vars => FindsStill
<1> SUFFICES ASSUME IInv, [Next]_vars PROVE FindsStill
  OBVIOUS
<1>0. TypeOK /\ TurnsInOrder /\ IdsApart /\ Registered /\ IndexesAgree
  BY DEF IInv
<1>1. ASSUME UNCHANGED <<keyAt, waitKeyAt>> PROVE FindsStill
  BY <1>1 DEF FindsStill
<1>2. ASSUME NEW ts \in SUBSET {t \in Turns : Holding(t)}, NEW hs \in SUBSET Turns, NEW ks,
             NEW code \in Results \ {"none"}, AbortThem(ts, hs, ks, code)
      PROVE  FindsStill
  <2>1. Unregister(LeftByAbort(ts))
    BY <1>2 DEF AbortThem
  <2>2. /\ \A t \in Turns : Holding(t)' <=> Holding(t) /\ t \notin LeftByAbort(ts)
        /\ LeftByAbort(ts) \in SUBSET {t \in Turns : Holding(t)}
    BY <1>2, AbortOps
  <2> QED BY <2>1, <2>2, UnregisterFinds
<1>3. ASSUME NEW w \in Waiters, NEW s \in Sids, NEW ks, AbortAndWait(w, s, ks) PROVE FindsStill
  <2>1. CASE handleAt[s] # NoTurn
    <3>1. AbortThem({}, {handleAt[s]}, ks, "user") /\ {handleAt[s]} \in SUBSET Turns
      BY <1>0, <1>3, <2>1 DEF AbortAndWait, TypeOK
    <3> QED BY <1>2, <3>1 DEF Results
  <2>2. CASE handleAt[s] = NoTurn
    <3>1. AbortThem({OperationAt(s)} \ {NoTurn}, {}, ks, "user")
      BY <1>3, <2>2, NobodyAssumption, OperationFound DEF AbortAndWait
    <3>2. {OperationAt(s)} \ {NoTurn} \in SUBSET {u \in Turns : Holding(u)}
      BY OperationFound
    <3> QED BY <1>2, <3>1, <3>2 DEF Results
  <2> QED BY <2>1, <2>2
<1>4. ASSUME NEW t \in Turns, QuietStep(t) PROVE FindsStill
  BY <1>1, <1>4, QuietOps DEF registry
<1>5. ASSUME NEW t \in Turns, InterruptLane(t) \/ ArriveInterrupting(t) PROVE FindsStill
  <2> DEFINE s == ActiveSid(KeyOf[t])
             hs == {handleAt[s]} \ {NoTurn}
             ts == IF hs # {} THEN {} ELSE {OperationAt(s)} \ {NoTurn}
  <2>1. s \in Sids /\ t \in Waiters
    BY <1>0, ActiveSids, TurnsAssumption DEF Waiters
  <2>2. hs \in SUBSET Turns /\ ts \in SUBSET {u \in Turns : Holding(u)}
    BY <1>0, <2>1, OperationFound DEF TypeOK
  <2>3. CASE InterruptLane(t)
    <3>1. AbortThem(ts, hs, {KeyOf[t]}, "user")
      BY <2>3 DEF InterruptLane
    <3> HIDE DEF hs, ts
    <3> QED BY <1>2, <2>2, <3>1 DEF Results
  <2>4. CASE ArriveInterrupting(t)
    <3>1. AbortAndWait(t, s, {})
      BY <2>4 DEF ArriveInterrupting
    <3> HIDE DEF s
    <3> QED BY <1>3, <2>1, <3>1
  <2> QED BY <1>5, <2>3, <2>4
<1>6. ASSUME NEW t \in Turns, Begin(t) PROVE FindsStill
  <2> SUFFICES ASSUME NEW u \in Turns, NEW s \in Sids, Holding(u),
                      KeyOf[u] \in {keyAt[s], waitKeyAt[s]}
               PROVE  KeyOf[u] \in {keyAt'[s], waitKeyAt'[s]}
    BY DEF FindsStill
  <2>1. CASE runAt[KeyOf[t]] # NoTurn
    BY <1>6, <2>1 DEF Begin, registry
  <2>2. CASE runAt[KeyOf[t]] = NoTurn
    <3>1. KeyOf[u] # KeyOf[t] /\ KeyOf[u] \in Keys /\ KeyOf[t] \in Keys
      BY <1>0, <2>2, TurnsAssumption, NobodyAssumption DEF Registered
    <3>2. sidOf[t] \in Sids /\ sidOf[t] \in Uses(KeyOf[t])
      BY <1>0, <1>6 DEF Begin, TurnsInOrder, Uses
    <3>3. s # sidOf[t]
      BY <1>0, <3>1, <3>2, FoundIsUsed DEF IdsApart
    <3> QED BY <1>0, <1>6, <2>2, <3>3 DEF Begin, TypeOK
  <2> QED BY <2>1, <2>2
<1>7. ASSUME NEW t \in Turns, FollowStore(t) PROVE FindsStill
  <2> SUFFICES ASSUME NEW u \in Turns, NEW s \in Sids, Holding(u),
                      KeyOf[u] \in {keyAt[s], waitKeyAt[s]}
               PROVE  KeyOf[u] \in {keyAt'[s], waitKeyAt'[s]}
    BY DEF FindsStill
  <2> DEFINE k == KeyOf[t]
             new == store'[k]
             old == op[t].sid
  <2>1. Rebind(t, new) /\ old \in Sids /\ k \in Keys /\ KeyOf[u] \in Keys
    BY <1>0, <1>7, TurnsAssumption DEF FollowStore, TurnsInOrder
  <2>2. CASE UNCHANGED registry
    BY <2>2 DEF registry
  <2>3. CASE ~UNCHANGED registry
    <3>1. /\ keyAt' = [keyAt EXCEPT ![old] = NoKey, ![new] = k]
          /\ waitKeyAt' = [waitKeyAt EXCEPT ![old] = k, ![new] = k]
      BY <2>1, <2>3 DEF Rebind
    <3>2. CASE KeyOf[u] = k
      <4>1. keyAt[s] = k => keyAt'[s] = k \/ s = old
        BY <1>0, <2>1, <3>1 DEF TypeOK
      <4>2. waitKeyAt[s] = k => waitKeyAt'[s] = k
        BY <1>0, <2>1, <3>1 DEF TypeOK
      <4>3. waitKeyAt'[old] = k
        BY <1>0, <2>1, <3>1 DEF TypeOK
      <4> QED BY <3>2, <4>1, <4>2, <4>3
    <3>3. CASE KeyOf[u] # k
      <4>1. old \in Uses(k)
        BY <2>1 DEF Uses
      <4>2. s \in Uses(KeyOf[u])
        BY <2>1, FoundIsUsed
      <4>3. s # old
        BY <1>0, <2>1, <3>3, <4>1, <4>2 DEF IdsApart
      <4>4. s # new
        <5>1. new = store[k] \/ new = NextSid
          BY <1>0, <1>7, <2>1 DEF FollowStore, TypeOK
        <5>2. store[k] \in Uses(k)
          BY <1>0, <2>1 DEF Uses, TypeOK
        <5>3. s \in 1..issued /\ issued \in Nat
          BY <1>0, <2>1, <4>2, SidAssumption DEF IdsApart, TypeOK
        <5>4. s # NextSid
          BY <5>3 DEF NextSid
        <5>5. s # store[k]
          BY <1>0, <2>1, <3>3, <4>2, <5>2 DEF IdsApart
        <5> QED BY <5>1, <5>4, <5>5
      <4> HIDE DEF new
      <4> QED BY <1>0, <2>1, <3>1, <4>3, <4>4 DEF TypeOK
    <3> QED BY <3>2, <3>3
  <2> QED BY <2>2, <2>3
<1>8. ASSUME NEW t \in Turns, Fail(t) \/ Complete(t) PROVE FindsStill
  <2> DEFINE ts == IF op[t].cleared THEN {} ELSE {t}
  <2>1. Unregister(ts)
    BY <1>8 DEF Fail, Complete, FreeKey
  <2>2. op[t].phase # "none"
    BY <1>0, <1>8 DEF Fail, Complete, TurnsInOrder
  <2>3. ts \in SUBSET {u \in Turns : Holding(u)}
    BY <2>2 DEF Holding
  <2>4. ~Holding(t)'
    BY <1>0, <1>8 DEF Fail, Complete, Holding, TypeOK, Operations, NoOperation
  <2>5. \A u \in ts : ~Holding(u)'
    BY <2>4
  <2> HIDE DEF ts
  <2> QED BY <2>1, <2>3, <2>5, UnregisterFinds
<1>9. ASSUME NEW k \in Keys, AbortCommand(k) PROVE FindsStill
  <2> DEFINE ts  == {runAt[k]} \ {NoTurn}
             sid == IF sidAt[k] # NoSid THEN sidAt[k] ELSE store[k]
             h   == {handleAt[sid]} \ {NoTurn}
  <2>1. sid \in Sids
    BY <1>0 DEF TypeOK
  <2>2. h \in SUBSET Turns /\ ts \in SUBSET {u \in Turns : Holding(u)}
    BY <1>0, <2>1, FoundHolds DEF TypeOK
  <2>3. PICK hs \in SUBSET Turns, ks \in {{}, {k}} : AbortThem(ts, hs, ks, "user")
    BY <1>9, <2>2 DEF AbortCommand
  <2> HIDE DEF ts
  <2> QED BY <1>2, <2>2, <2>3 DEF Results
<1>10. ASSUME NEW C \in SUBSET Turns, AbortForRestart(C) PROVE FindsStill
  <2> DEFINE registered == {t \in Turns : runAt[KeyOf[t]] = t}
             handles == {t \in Turns : \E s \in Sids : handleAt[s] = t}
             compacting == {t \in registered :
                              \/ op[t].phase \in {"preflight_compacting", "memory_flushing"}
                              \/ op[t].phase = "running" /\ t \in attached \cap C}
             Ts(all) == IF all THEN registered ELSE compacting
             Hs(all) == IF all THEN handles ELSE handles \cap C
  <2>1. registered \in SUBSET {t \in Turns : Holding(t)}
    BY <1>0, TurnsAssumption DEF Registered
  <2>2. PICK all \in BOOLEAN : AbortThem(Ts(all), Hs(all), {}, "restart")
    BY <1>10 DEF AbortForRestart
  <2>3. Ts(all) \in SUBSET {t \in Turns : Holding(t)} /\ Hs(all) \in SUBSET Turns
    BY <2>1
  <2> HIDE DEF Ts, Hs
  <2> QED BY <1>2, <2>2, <2>3 DEF Results
<1>11. ASSUME NEW c \in Callers, ResetRequest(c) PROVE FindsStill
  <2>1. c \in Waiters /\ store[KeyOf[c]] \in Sids
    BY <1>0, TurnsAssumption DEF Waiters, TypeOK
  <2> QED BY <1>3, <1>11, <2>1 DEF ResetRequest
<1>12. ASSUME NEW c \in Callers, ResetEntry(c) PROVE FindsStill
  BY <1>1, <1>12 DEF ResetEntry, registry
<1>13. ASSUME NEW w \in Waiters, WaitTimeout(w) PROVE FindsStill
  BY <1>1, <1>13 DEF WaitTimeout, registry
<1>14. CASE UNCHANGED vars
  BY <1>1, <1>14 DEF vars
<1>15. ASSUME NEW t \in Turns, TurnStep(t) \/ UpstreamAbort(t) PROVE FindsStill
  BY <1>4, <1>5, <1>6, <1>7, <1>8, <1>15 DEF TurnStep, QuietStep
<1>16. ASSUME NEW C \in SUBSET {t \in Turns : run[t] \in InAttempt}, AbortForRestart(C)
       PROVE  FindsStill
  BY <1>10, <1>16
<1> QED BY <1>9, <1>11, <1>12, <1>13, <1>14, <1>15, <1>16 DEF Next

\* While an operation holds its key, every session id that found it for a wait goes
\* on to find it (updateSessionId, waitForReplyRunEndBySessionId).
THEOREM IdsGoOnFinding == Spec => IdsKeepFinding
<1>1. IInv /\ [Next]_vars => [FindsStill]_vars
  BY NextFinds
<1> QED BY <1>1, Invariance, PTL DEF Spec, IdsKeepFinding, FindsStill
=============================================================================
