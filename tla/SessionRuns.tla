----------------------------- MODULE SessionRuns -----------------------------
(***************************************************************************)
(* Who runs a session: the reply run registry                              *)
(* (auto-reply/reply/reply-run-registry.ts) and the embedded run registry  *)
(* (agents/pi-embedded-runner/runs.ts), two sets of maps that agent turns, *)
(* aborts, session resets and the restart use together.                    *)
(*                                                                         *)
(* A turn of a session key holds a reply operation from its begin to its   *)
(* completion, and is its identity here.  Inside, it runs the model in one *)
(* or more embedded runs, each in the session's lane; only while an        *)
(* attempt of a run is live is its handle in the embedded registry.  A     *)
(* message that finds its session busy may wait in the followup queue and  *)
(* become a followup turn, whose runs are not given the operation's abort  *)
(* signal (followup-runner.ts).  A plain turn (cron, probes) runs the      *)
(* model without a reply operation.                                        *)
(* Session ids are numbered in the order they are issued and never reused. *)
(*                                                                         *)
(* An action is the code between two awaits.  What the lanes do when they  *)
(* are reset is left to CommandLanes and GatewayRunLoop: here a lane runs  *)
(* one task.                                                               *)
(***************************************************************************)
EXTENDS Integers, FiniteSets

CONSTANTS
  Keys,         \* session keys
  MaxSid,       \* bound on the session ids issued
  Turns,        \* agent turns
  Callers,      \* gateway requests that reset a session
  KeyOf,        \* turn or caller -> its session key
  NoKey, NoTurn

ASSUME TurnsAssumption == KeyOf \in [Turns \cup Callers -> Keys]
ASSUME NobodyAssumption == NoKey \notin Keys /\ NoTurn \notin Turns /\ Turns \cap Callers = {}
ASSUME SidAssumption == MaxSid \in Nat /\ IsFiniteSet(Keys) /\ Cardinality(Keys) <= MaxSid

Sids == 1..MaxSid
NoSid == 0
Waiters == Turns \cup Callers

VARIABLES
  store,       \* key -> the session id of its entry in the session store
  issued,      \* number of session ids issued
  pc,          \* turn -> where it is
  sidOf,       \* turn -> followupRun.run.sessionId
  op,          \* turn -> its reply operation
  attached,    \* the operations with a backend attached
  run,         \* turn -> its embedded run
  runAt,       \* activeRunsByKey
  sidAt,       \* activeSessionIdsByKey
  keyAt,       \* activeKeysBySessionId
  waitKeyAt,   \* waitKeysBySessionId
  handleAt,    \* ACTIVE_EMBEDDED_RUNS
  handleSidAt, \* ACTIVE_EMBEDDED_RUN_SESSION_IDS_BY_KEY
  snapshots,   \* ACTIVE_EMBEDDED_RUN_SNAPSHOTS, its session ids
  waitKey,     \* waiter -> the key it waits on in waitersByKey, or NoKey
  waitSid,     \* waiter -> the session id it waits on in EMBEDDED_RUN_WAITERS, or NoSid
  answer       \* waiter -> what its wait returned

registry == <<runAt, sidAt, keyAt, waitKeyAt>>
embedded == <<handleAt, handleSidAt, snapshots>>
waits == <<waitKey, waitSid, answer>>
ids == <<store, issued, sidOf>>
vars == <<store, issued, pc, sidOf, op, attached, run, runAt, sidAt, keyAt, waitKeyAt, handleAt,
          handleSidAt, snapshots, waitKey, waitSid, answer>>

Pcs == {"new", "interrupting", "busy", "queued", "waiting", "rereading", "ready", "began",
        "flushing", "running", "failing", "unwinding", "plain", "done"}
Phases == {"none", "queued", "preflight_compacting", "memory_flushing", "running",
           "failed", "aborted"}
Results == {"none", "failed", "user", "restart"}
Operations == [phase : Phases, result : Results, aborted : BOOLEAN, cleared : BOOLEAN,
               followup : BOOLEAN, sid : Sids \cup {NoSid}]
NoOperation == [phase |-> "none", result |-> "none", aborted |-> FALSE, cleared |-> FALSE,
                followup |-> FALSE, sid |-> NoSid]

\* An embedded run is out of its lane, queued in it, holds it between attempts,
\* or is in an attempt: live, past its last model call (settling), or ending
\* because it was cancelled or failed.
Live == {"live", "settling"}
InAttempt == Live \cup {"cancelled"}

TypeOK ==
  /\ store \in [Keys -> Sids]
  /\ issued \in 0..MaxSid
  /\ pc \in [Turns -> Pcs]
  /\ sidOf \in [Turns -> Sids \cup {NoSid}]
  /\ op \in [Turns -> Operations]
  /\ attached \in SUBSET {t \in Turns : run[t] \in InAttempt}
  /\ run \in [Turns -> {"out", "queued", "held"} \cup InAttempt]
  /\ runAt \in [Keys -> Turns \cup {NoTurn}]
  /\ sidAt \in [Keys -> Sids \cup {NoSid}]
  /\ keyAt \in [Sids -> Keys \cup {NoKey}]
  /\ waitKeyAt \in [Sids -> Keys \cup {NoKey}]
  /\ handleAt \in [Sids -> Turns \cup {NoTurn}]
  /\ handleSidAt \in [Keys -> Sids \cup {NoSid}]
  /\ snapshots \in SUBSET Sids
  /\ waitKey \in [Waiters -> Keys \cup {NoKey}]
  /\ waitSid \in [Waiters -> Sids \cup {NoSid}]
  /\ answer \in [Waiters -> {"none", "ended", "late", "used"}]

\* Every key has an entry with an id of its own; nothing runs.
Init ==
  /\ issued = Cardinality(Keys)
  /\ store \in [Keys -> 1..issued] /\ \A k, l \in Keys : store[k] = store[l] => k = l
  /\ pc = [t \in Turns |-> "new"]
  /\ sidOf = [t \in Turns |-> NoSid]
  /\ op = [t \in Turns |-> NoOperation]
  /\ attached = {}
  /\ run = [t \in Turns |-> "out"]
  /\ runAt = [k \in Keys |-> NoTurn]
  /\ sidAt = [k \in Keys |-> NoSid]
  /\ keyAt = [s \in Sids |-> NoKey]
  /\ waitKeyAt = [s \in Sids |-> NoKey]
  /\ handleAt = [s \in Sids |-> NoTurn]
  /\ handleSidAt = [k \in Keys |-> NoSid]
  /\ snapshots = {}
  /\ waitKey = [w \in Waiters |-> NoKey]
  /\ waitSid = [w \in Waiters |-> NoSid]
  /\ answer = [w \in Waiters |-> "none"]

-----------------------------------------------------------------------------
\* resolveActiveEmbeddedRunSessionId, or else s.
ActiveSidOr(k, s) == IF sidAt[k] # NoSid THEN sidAt[k]
                     ELSE IF handleSidAt[k] # NoSid THEN handleSidAt[k] ELSE s
ActiveSid(k) == ActiveSidOr(k, store[k])

\* resolveReplyRunForCurrentSessionId, or NoTurn.
OperationAt(s) == IF keyAt[s] = NoKey THEN NoTurn ELSE runAt[keyAt[s]]

\* isEmbeddedPiRunActive
RunActive(s) == handleAt[s] # NoTurn \/ OperationAt(s) # NoTurn

\* Mutant of RunCount: the handles alone.
HandleCount == Cardinality({s \in Sids : handleAt[s] # NoTurn})

\* getActiveEmbeddedRunCount
RunCount ==
  LET handles == {s \in Sids : handleAt[s] # NoTurn}
      others  == {k \in Keys : sidAt[k] # NoSid /\ sidAt[k] \notin handles}
      bigger(a, b) == IF a > b THEN a ELSE b
  IN  bigger(Cardinality(handles) + Cardinality(others),
             Cardinality({k \in Keys : runAt[k] # NoTurn}))

\* A fresh session id.
NextSid == issued + 1

\* The operation's abort signal is aborted, and its runs are given that signal.
HeardAbort(t) == op[t].aborted /\ ~op[t].followup

Holding(t) == op[t].phase # "none" /\ ~op[t].cleared

Waiting(w) == waitKey[w] # NoKey \/ waitSid[w] # NoSid

\* notifyReplyRunEnded and notifyEmbeddedRunEnded for these keys and ids.
Notify(ks, ss) ==
  LET told == {w \in Waiters : waitKey[w] \in ks \/ waitSid[w] \in ss}
  IN  /\ waitKey' = [w \in Waiters |-> IF w \in told THEN NoKey ELSE waitKey[w]]
      /\ waitSid' = [w \in Waiters |-> IF w \in told THEN NoSid ELSE waitSid[w]]
      /\ answer'  = [w \in Waiters |-> IF w \in told THEN "ended" ELSE answer[w]]

\* A wait begins: on a key, on a session id, or on nothing (it has ended).
WaitOn(w, k, s) ==
  /\ waitKey' = [waitKey EXCEPT ![w] = k]
  /\ waitSid' = [waitSid EXCEPT ![w] = s]
  /\ answer'  = [answer EXCEPT ![w] = IF k = NoKey /\ s = NoSid THEN "ended" ELSE "none"]

\* clearReplyRunState of these operations, the notification left out.
Unregister(ts) ==
  LET ks == {KeyOf[t] : t \in ts}
  IN  /\ runAt' = [k \in Keys |-> IF k \in ks THEN NoTurn ELSE runAt[k]]
      /\ sidAt' = [k \in Keys |-> IF k \in ks THEN NoSid ELSE sidAt[k]]
      /\ keyAt' = [s \in Sids |->
                     IF \E t \in ts : op[t].sid = s /\ keyAt[s] = KeyOf[t]
                     THEN NoKey ELSE keyAt[s]]
      /\ waitKeyAt' = [s \in Sids |-> IF waitKeyAt[s] \in ks THEN NoKey ELSE waitKeyAt[s]]

\* abortByUser and abortForRestart: the first result stays, and the backend of a
\* live attempt, which is attached to the operation, is cancelled.
Aborted(o, code) ==
  [o EXCEPT !.phase = "aborted", !.aborted = TRUE,
            !.result = IF o.result = "none" THEN code ELSE o.result,
            !.cleared = o.cleared \/ o.phase = "queued"]

\* clearState runs in abortBy... only from the phase queued, and once.
LeftByAbort(ts) == {t \in ts : op[t].phase = "queued" /\ ~op[t].cleared}

\* The operations ts are aborted and the handles of the turns hs as well, and the
\* lanes of ks are cleared: a run queued in one is rejected.
AbortThem(ts, hs, ks, code) ==
  /\ op' = [t \in Turns |-> IF t \in ts THEN Aborted(op[t], code) ELSE op[t]]
  /\ run' = [t \in Turns |-> IF t \in ts \cup hs /\ run[t] \in Live THEN "cancelled"
                              ELSE IF run[t] = "queued" /\ KeyOf[t] \in ks THEN "out" ELSE run[t]]
  /\ Unregister(LeftByAbort(ts))
  /\ UNCHANGED <<attached, ids, embedded>>

\* abortEmbeddedPiRun(s), then waitForEmbeddedPiRunEnd(s) by w: a handle hides
\* the operation from both.
AbortAndWait(w, s, ks) ==
  IF handleAt[s] # NoTurn
  THEN AbortThem({}, {handleAt[s]}, ks, "user") /\ WaitOn(w, NoKey, s)
  ELSE LET t == OperationAt(s)
           k == IF keyAt[s] # NoKey THEN keyAt[s] ELSE waitKeyAt[s]
       IN  IF t # NoTurn /\ op[t].phase = "queued"
           THEN /\ AbortThem({t}, {}, ks, "user")
                /\ LET told == {x \in Waiters : waitKey[x] = KeyOf[t]} \cup {w}
                   IN  /\ waitKey' = [x \in Waiters |-> IF x \in told THEN NoKey ELSE waitKey[x]]
                       /\ answer' = [x \in Waiters |-> IF x \in told THEN "ended" ELSE answer[x]]
                       /\ UNCHANGED waitSid
           ELSE /\ AbortThem({t} \ {NoTurn}, {}, ks, "user")
                /\ WaitOn(w, IF k # NoKey /\ runAt[k] # NoTurn THEN k ELSE NoKey, NoSid)

-----------------------------------------------------------------------------
\* In interrupt mode a message first clears a lane that is not empty and aborts
\* the active run; the modules of the turn are then loaded.
InterruptLane(t) ==
  /\ pc[t] = "new"
  /\ \E u \in Turns : KeyOf[u] = KeyOf[t] /\ run[u] # "out"
  /\ LET s  == ActiveSid(KeyOf[t])
         hs == {handleAt[s]} \ {NoTurn}
         ts == IF hs # {} THEN {} ELSE {OperationAt(s)} \ {NoTurn}
     IN  /\ AbortThem(ts, hs, {KeyOf[t]}, "user")
         /\ Notify({KeyOf[u] : u \in LeftByAbort(ts)}, {})
  /\ pc' = [pc EXCEPT ![t] = "interrupting"]

\* A message arrives for an idle session, or finds it busy and will be steered
\* or queued (the followup queue is FollowupQueue's).
Arrive(t) ==
  /\ \/ pc[t] = "new"
     \/ pc[t] = "interrupting" /\ ~RunActive(ActiveSid(KeyOf[t]))
  /\ LET k == KeyOf[t]
     IN  /\ sidOf' = [sidOf EXCEPT ![t] = store[k]]
         /\ pc' = [pc EXCEPT ![t] = IF RunActive(ActiveSid(k)) THEN "busy" ELSE "ready"]
  /\ UNCHANGED <<store, issued, op, attached, run, registry, embedded, waits>>

\* In interrupt mode it aborts the active run and waits for its end.
ArriveInterrupting(t) ==
  /\ pc[t] \in {"new", "interrupting"}
  /\ RunActive(ActiveSid(KeyOf[t]))
  /\ pc' = [pc EXCEPT ![t] = "waiting"]
  /\ AbortAndWait(t, ActiveSid(KeyOf[t]), {})

\* After the wait, whatever it returned, the session entry is read again, ...
Reread(t) ==
  /\ pc[t] = "waiting" /\ answer[t] # "none"
  /\ sidOf' = [sidOf EXCEPT ![t] = store[KeyOf[t]]]
  /\ pc' = [pc EXCEPT ![t] = "rereading"]
  /\ answer' = [answer EXCEPT ![t] = "none"]
  /\ UNCHANGED <<store, issued, op, attached, run, registry, embedded, waitKey, waitSid>>

\* ... and, when the prompt is rebuilt, the registries are asked for the last time.
Recheck(t) ==
  /\ pc[t] = "rereading"
  /\ LET busy == RunActive(ActiveSidOr(KeyOf[t], sidOf[t]))
     IN  pc' = [pc EXCEPT ![t] = IF busy THEN "done" ELSE "ready"]
  /\ UNCHANGED <<ids, op, attached, run, registry, embedded, waits>>

\* A message that finds the session busy waits in the followup queue, or is steered
\* into the live attempt or dropped, as one that waits may still be: no registry
\* changes.
Leave(t) ==
  /\ pc[t] \in {"busy", "queued"}
  /\ \E where \in {"queued", "done"} \ {pc[t]} : pc' = [pc EXCEPT ![t] = where]
  /\ UNCHANGED <<ids, op, attached, run, registry, embedded, waits>>

\* createReplyOperation, by a turn or by the drain of the followup queue.  A key that
\* is taken ends the turn with a notice; the drain tries again later.
Begin(t) ==
  /\ pc[t] \in {"ready", "queued"}
  /\ LET k == KeyOf[t]
         s == sidOf[t]
     IN  IF runAt[k] # NoTurn
         THEN /\ pc' = [pc EXCEPT ![t] = IF @ = "ready" THEN "done" ELSE @]
              /\ UNCHANGED <<op, registry>>
         ELSE /\ pc' = [pc EXCEPT ![t] = "began"]
              /\ op' = [op EXCEPT ![t] = [NoOperation EXCEPT !.phase = "queued", !.sid = s,
                                                             !.followup = pc[t] = "queued"]]
              /\ runAt' = [runAt EXCEPT ![k] = t]
              /\ sidAt' = [sidAt EXCEPT ![k] = s]
              /\ keyAt' = [keyAt EXCEPT ![s] = k]
              /\ waitKeyAt' = [waitKeyAt EXCEPT ![s] = k]
  /\ UNCHANGED <<ids, attached, run, embedded, waits>>

\* setPhase
InPhase(t, phase) == [op EXCEPT ![t].phase = IF op[t].result = "none" THEN phase ELSE @]

\* Preflight compaction and, in a turn that is no followup, the memory flush, each
\* optional.
Maintain(t) ==
  /\ pc[t] \in {"began", "flushing"} /\ run[t] = "out"
  /\ \/ /\ pc[t] = "began"
        /\ op' = InPhase(t, "preflight_compacting")
        /\ UNCHANGED pc
     \/ /\ ~op[t].followup
        /\ op' = InPhase(t, "memory_flushing")
        /\ pc' = [pc EXCEPT ![t] = "flushing"]
  /\ UNCHANGED <<ids, attached, run, registry, embedded, waits>>

\* Mutant of Rebind: the ids the operation had before are forgotten.
RebindForgetting(t, s) ==
  LET k == KeyOf[t]
      old == op[t].sid
  IN  IF op[t].result # "none" \/ s = old \/ keyAt[s] \notin {NoKey, k}
      THEN UNCHANGED <<op, registry>>
      ELSE /\ op' = [op EXCEPT ![t].sid = s]
           /\ sidAt' = [sidAt EXCEPT ![k] = s]
           /\ keyAt' = [keyAt EXCEPT ![old] = NoKey, ![s] = k]
           /\ waitKeyAt' = [x \in Sids |-> IF x = s THEN k
                                           ELSE IF waitKeyAt[x] = k THEN NoKey ELSE waitKeyAt[x]]
           /\ UNCHANGED runAt

\* Mutant of Rebind: the old id still names the key.
RebindKeeping(t, s) ==
  LET k == KeyOf[t]
      old == op[t].sid
  IN  IF op[t].result # "none" \/ s = old \/ keyAt[s] \notin {NoKey, k}
      THEN UNCHANGED <<op, registry>>
      ELSE /\ op' = [op EXCEPT ![t].sid = s]
           /\ sidAt' = [sidAt EXCEPT ![k] = s]
           /\ keyAt' = [keyAt EXCEPT ![s] = k]
           /\ waitKeyAt' = [waitKeyAt EXCEPT ![old] = k, ![s] = k]
           /\ UNCHANGED runAt

\* updateSessionId(s), without effect on an operation that has a result.
Rebind(t, s) ==
  LET k == KeyOf[t]
      old == op[t].sid
  IN  IF op[t].result # "none" \/ s = old \/ keyAt[s] \notin {NoKey, k}
      THEN UNCHANGED <<op, registry>>
      ELSE /\ op' = [op EXCEPT ![t].sid = s]
           /\ sidAt' = [sidAt EXCEPT ![k] = s]
           /\ keyAt' = [keyAt EXCEPT ![old] = NoKey, ![s] = k]
           /\ waitKeyAt' = [waitKeyAt EXCEPT ![old] = k, ![s] = k]
           /\ UNCHANGED runAt

\* refreshQueuedFollowupSession: the turn and the queued messages of its session
\* follow the session store.
FollowIds(t) ==
  sidOf' = [u \in Turns |->
              IF u = t \/ (pc[u] = "queued" /\ KeyOf[u] = KeyOf[t] /\ sidOf[u] = store[KeyOf[t]])
              THEN store'[KeyOf[t]] ELSE sidOf[u]]

\* The flush ends: compaction may have issued a new session id, and the turn
\* and its operation follow the session store.
FollowStore(t) ==
  /\ pc[t] = "flushing" /\ run[t] = "out"
  /\ \/ UNCHANGED <<store, issued>>
     \/ /\ issued < MaxSid
        /\ issued' = NextSid
        /\ store' = [store EXCEPT ![KeyOf[t]] = NextSid]
  /\ FollowIds(t)
  /\ Rebind(t, store'[KeyOf[t]])
  /\ UNCHANGED <<pc, attached, run, embedded, waits>>

SetRunning(t) ==
  /\ pc[t] \in {"began", "flushing"} /\ run[t] = "out"
  /\ op' = InPhase(t, "running")
  /\ pc' = [pc EXCEPT ![t] = "running"]
  /\ UNCHANGED <<ids, attached, run, registry, embedded, waits>>

-----------------------------------------------------------------------------
\* runEmbeddedPiAgent is queued in the session's lane, unless the signal it is given
\* is aborted; a plain turn starts here.
AskLane(t) ==
  /\ \/ pc[t] \in {"flushing", "running"} /\ UNCHANGED <<pc, sidOf>>
     \/ /\ pc[t] = "new"
        /\ pc' = [pc EXCEPT ![t] = "plain"]
        /\ sidOf' = [sidOf EXCEPT ![t] = store[KeyOf[t]]]
  /\ run[t] = "out" /\ ~HeardAbort(t)
  /\ run' = [run EXCEPT ![t] = "queued"]
  /\ UNCHANGED <<store, issued, op, attached, registry, embedded, waits>>

LaneIsFree(t) == \A u \in Turns : KeyOf[u] = KeyOf[t] => run[u] \in {"out", "queued"}

\* Its turn comes: throwIfAborted throws, or the lane is its.
EnterLane(t) ==
  /\ run[t] = "queued" /\ LaneIsFree(t)
  /\ run' = [run EXCEPT ![t] = IF HeardAbort(t) THEN "out" ELSE "held"]
  /\ pc' = [pc EXCEPT ![t] = IF @ = "plain" /\ HeardAbort(t) THEN "done" ELSE @]
  /\ UNCHANGED <<ids, op, attached, registry, embedded, waits>>

\* Mutant of Attach: the state read before the awaits of the attempt is kept.
AttachBlindly(t) ==
  /\ run[t] = "held"
  /\ attached' = IF pc[t] = "plain" THEN attached ELSE attached \cup {t}
  /\ run' = [run EXCEPT ![t] = "live"]
  /\ handleAt' = [handleAt EXCEPT ![sidOf[t]] = t]
  /\ handleSidAt' = [handleSidAt EXCEPT ![KeyOf[t]] = sidOf[t]]
  /\ UNCHANGED <<ids, pc, op, registry, snapshots, waits>>

\* attachBackend, which looks at the operation's signal itself, setActiveEmbeddedRun
\* and the listener on the signal that is given.
Attach(t) ==
  /\ run[t] = "held"
  /\ attached' = IF pc[t] = "plain" \/ op[t].result # "none" THEN attached ELSE attached \cup {t}
  /\ run' = [run EXCEPT ![t] = IF op[t].result # "none" \/ op[t].aborted
                               THEN "cancelled" ELSE "live"]
  /\ handleAt' = [handleAt EXCEPT ![sidOf[t]] = t]
  /\ handleSidAt' = [handleSidAt EXCEPT ![KeyOf[t]] = sidOf[t]]
  /\ UNCHANGED <<ids, pc, op, registry, snapshots, waits>>

\* updateActiveEmbeddedRunSnapshot, when the prompt is sent.
Prompt(t) ==
  /\ run[t] = "live"
  /\ snapshots' = IF handleAt[sidOf[t]] = NoTurn THEN snapshots ELSE snapshots \cup {sidOf[t]}
  /\ UNCHANGED <<ids, pc, op, attached, run, registry, handleAt, handleSidAt, waits>>

\* The last model call returns.
Settle(t) ==
  /\ run[t] = "live"
  /\ run' = [run EXCEPT ![t] = "settling"]
  /\ UNCHANGED <<ids, pc, op, attached, registry, embedded, waits>>

\* The attempt's own timeout, or an error.
RunTimeout(t) ==
  /\ run[t] \in Live
  /\ run' = [run EXCEPT ![t] = "cancelled"]
  /\ UNCHANGED <<ids, pc, op, attached, registry, embedded, waits>>

\* Mutant of EndAttempt: the backend stays attached.
EndAttemptAttached(t) ==
  /\ run[t] \in {"settling", "cancelled"}
  /\ run' = [run EXCEPT ![t] = "held"]
  /\ handleAt' = [handleAt EXCEPT ![sidOf[t]] = IF @ = t THEN NoTurn ELSE @]
  /\ handleSidAt' = [handleSidAt EXCEPT ![KeyOf[t]] = IF @ = sidOf[t] THEN NoSid ELSE @]
  /\ snapshots' = snapshots \ {sidOf[t]}
  /\ Notify({}, {sidOf[t]})
  /\ UNCHANGED <<ids, pc, op, attached, registry>>

\* Mutant of EndAttempt: those who wait for the attempt are not told.
EndAttemptSilently(t) ==
  /\ run[t] \in {"settling", "cancelled"}
  /\ run' = [run EXCEPT ![t] = "held"]
  /\ attached' = attached \ {t}
  /\ LET s == sidOf[t]
     IN  IF handleAt[s] = t
         THEN /\ handleAt' = [handleAt EXCEPT ![s] = NoTurn]
              /\ handleSidAt' = [handleSidAt EXCEPT ![KeyOf[t]] = IF @ = s THEN NoSid ELSE @]
              /\ snapshots' = snapshots \ {s}
         ELSE UNCHANGED embedded
  /\ UNCHANGED <<ids, pc, op, registry, waits>>

\* The finally of an attempt: detachBackend and clearActiveEmbeddedRun.
EndAttempt(t) ==
  /\ run[t] \in {"settling", "cancelled"}
  /\ run' = [run EXCEPT ![t] = "held"]
  /\ attached' = attached \ {t}
  /\ LET s == sidOf[t]
         k == KeyOf[t]
     IN  IF handleAt[s] = t
         THEN /\ handleAt' = [handleAt EXCEPT ![s] = NoTurn]
              /\ handleSidAt' = [handleSidAt EXCEPT ![k] = IF @ = s THEN NoSid ELSE @]
              /\ snapshots' = snapshots \ {s}
              /\ Notify({}, {s})
         ELSE UNCHANGED <<embedded, waits>>
  /\ UNCHANGED <<ids, pc, op, registry>>

LeaveLane(t) ==
  /\ run[t] = "held"
  /\ run' = [run EXCEPT ![t] = "out"]
  /\ pc' = [pc EXCEPT ![t] = IF @ = "plain" THEN "done" ELSE @]
  /\ UNCHANGED <<ids, op, attached, registry, embedded, waits>>

\* resetSession: a new session id the operation is not told of; the turn fails
\* once the store is written.
ResetSession(t) ==
  /\ pc[t] = "running" /\ run[t] = "out" /\ ~op[t].followup /\ issued < MaxSid
  /\ issued' = NextSid
  /\ store' = [store EXCEPT ![KeyOf[t]] = NextSid]
  /\ FollowIds(t)
  /\ pc' = [pc EXCEPT ![t] = "failing"]
  /\ UNCHANGED <<op, attached, run, registry, embedded, waits>>

\* Mutant of FreeKey: without the latch.
FreeKeyAgain(t) == Unregister({t}) /\ Notify({KeyOf[t]}, {})

\* Mutant of FreeKey: those who wait are not told.
FreeKeySilently(t) ==
  Unregister(IF op[t].cleared THEN {} ELSE {t}) /\ UNCHANGED waits

\* clearState: the key is freed, and those who wait for it are told, once.
FreeKey(t) ==
  LET ts == IF op[t].cleared THEN {} ELSE {t}
  IN  Unregister(ts) /\ Notify({KeyOf[u] : u \in ts}, {})

\* The execution fails the operation, which keeps its first result, and the turn
\* goes on to its end.
Fail(t) ==
  /\ pc[t] \in {"began", "flushing", "running", "failing"} /\ run[t] = "out"
  /\ pc' = [pc EXCEPT ![t] = "unwinding"]
  /\ LET first == op[t].result = "none"
     IN  op' = [op EXCEPT ![t].result = IF first THEN "failed" ELSE @,
                          ![t].phase = IF first THEN "failed" ELSE @,
                          ![t].cleared = TRUE]
  /\ FreeKey(t)
  /\ UNCHANGED <<ids, attached, run, embedded>>

\* complete(), in the finally of the turn; nobody has the operation after it.
Complete(t) ==
  /\ pc[t] \in {"began", "flushing", "running", "unwinding"} /\ run[t] = "out"
  /\ pc' = [pc EXCEPT ![t] = "done"]
  /\ op' = [op EXCEPT ![t] = NoOperation]
  /\ FreeKey(t)
  /\ UNCHANGED <<ids, attached, run, embedded>>

-----------------------------------------------------------------------------
\* The caller's abort signal (opts.abortSignal) is aborted, and with it the
\* operation's: the live attempt of a turn listens to that, unless it is a followup.
UpstreamAbort(t) ==
  /\ Holding(t) /\ ~op[t].aborted
  /\ op' = [op EXCEPT ![t].aborted = TRUE]
  /\ run' = [run EXCEPT ![t] = IF @ \in Live /\ ~op[t].followup THEN "cancelled" ELSE @]
  /\ UNCHANGED <<ids, pc, attached, registry, embedded, waits>>

\* The followup queues of ks are cleared (clearSessionQueues).
ClearQueues(ks) ==
  pc' = [t \in Turns |-> IF pc[t] = "queued" /\ KeyOf[t] \in ks THEN "done" ELSE pc[t]]

\* An abort command: the operation of the key, then the embedded run of its session
\* id; a fast abort reaches the second only if there is no operation.  /stop and the
\* fast abort clear the lane and the followup queue.
AbortCommand(k) ==
  LET ts  == {runAt[k]} \ {NoTurn}
      sid == IF sidAt[k] # NoSid THEN sidAt[k] ELSE store[k]
      h   == {handleAt[sid]} \ {NoTurn}
  IN  /\ \/ \E ks \in {{}, {k}} : AbortThem(ts, h, ks, "user") /\ ClearQueues(ks)
         \/ AbortThem(ts, IF ts = {} THEN h ELSE {}, {k}, "user") /\ ClearQueues({k})
      /\ Notify({KeyOf[t] : t \in LeftByAbort(ts)}, {})

\* abortEmbeddedPiRun without an id, by the restart: the compacting runs, then
\* all of them.  C is the set of handles that report they are compacting.
AbortForRestart(C) ==
  LET registered == {t \in Turns : runAt[KeyOf[t]] = t}
      handles == {t \in Turns : \E s \in Sids : handleAt[s] = t}
      compacting == {t \in registered :
                       \/ op[t].phase \in {"preflight_compacting", "memory_flushing"}
                       \/ op[t].phase = "running" /\ t \in attached \cap C}
  IN  \E all \in BOOLEAN :
        LET ts == IF all THEN registered ELSE compacting
        IN  /\ AbortThem(ts, IF all THEN handles ELSE handles \cap C, {}, "restart")
            /\ Notify({KeyOf[t] : t \in LeftByAbort(ts)}, {})
            /\ UNCHANGED pc

\* A session is reset over the gateway: its queues are cleared, its run is aborted and
\* awaited, ...
ResetRequest(c) ==
  /\ answer[c] = "none" /\ ~Waiting(c)
  /\ AbortAndWait(c, store[KeyOf[c]], {KeyOf[c]})
  /\ ClearQueues({KeyOf[c]})

\* ... and when it has ended the entry gets a new session id.
ResetEntry(c) ==
  /\ answer[c] = "ended" /\ issued < MaxSid
  /\ answer' = [answer EXCEPT ![c] = "used"]
  /\ issued' = NextSid
  /\ store' = [store EXCEPT ![KeyOf[c]] = NextSid]
  /\ UNCHANGED <<pc, sidOf, op, attached, run, registry, embedded, waitKey, waitSid>>

\* The timer of a wait.
WaitTimeout(w) ==
  /\ Waiting(w)
  /\ waitKey' = [waitKey EXCEPT ![w] = NoKey]
  /\ waitSid' = [waitSid EXCEPT ![w] = NoSid]
  /\ answer' = [answer EXCEPT ![w] = "late"]
  /\ UNCHANGED <<ids, pc, op, attached, run, registry, embedded>>

TurnStep(t) ==
  \/ InterruptLane(t) \/ Arrive(t) \/ ArriveInterrupting(t) \/ Reread(t) \/ Recheck(t)
  \/ Leave(t) \/ Begin(t) \/ Maintain(t) \/ FollowStore(t) \/ SetRunning(t)
  \/ AskLane(t) \/ EnterLane(t) \/ LeaveLane(t)
  \/ Attach(t) \/ Prompt(t) \/ Settle(t) \/ RunTimeout(t) \/ EndAttempt(t)
  \/ ResetSession(t) \/ Fail(t) \/ Complete(t)

Next ==
  \/ \E t \in Turns : TurnStep(t) \/ UpstreamAbort(t)
  \/ \E k \in Keys : AbortCommand(k)
  \/ \E C \in SUBSET {t \in Turns : run[t] \in InAttempt} : AbortForRestart(C)
  \/ \E c \in Callers : ResetRequest(c) \/ ResetEntry(c)
  \/ \E w \in Waiters : WaitTimeout(w)

Spec == Init /\ [][Next]_vars

\* Every attempt has a timer and its end is awaited; a lane that is free again
\* and again serves its queue, the retries of a run are bounded, and so are the
\* runs of a turn.
FairSpec ==
  /\ Spec
  /\ \A t \in Turns : /\ WF_vars(RunTimeout(t) \/ EndAttempt(t))
                      /\ SF_vars(EnterLane(t) \/ LeaveLane(t))
                      /\ SF_vars(Fail(t) \/ Complete(t))

-----------------------------------------------------------------------------
\* A key is in the registry exactly while the operation that took it has not
\* been cleared: the late complete() of an operation that an abort freed already
\* leaves the key to the next one (the latch of clearState).
OwnRegistration ==
  \A t \in Turns : runAt[KeyOf[t]] = t <=> Holding(t)

\* The five maps of the reply run registry agree: a key that is taken is found
\* by its operation's session id, and by no other, and a free key by none.
IndexesAgree ==
  \A k \in Keys :
    /\ sidAt[k] = IF runAt[k] = NoTurn THEN NoSid ELSE op[runAt[k]].sid
    /\ \A s \in Sids : keyAt[s] = k <=> runAt[k] # NoTurn /\ sidAt[k] = s
    /\ \A s \in Sids : waitKeyAt[s] = k => runAt[k] # NoTurn

\* A pending wait waits for something: whatever ends a run or frees a key, by
\* completion, failure or an abort, tells those who wait.
WaitersBacked ==
  \A w \in Waiters : /\ waitKey[w] # NoKey => runAt[waitKey[w]] # NoTurn
                     /\ waitSid[w] # NoSid => handleAt[waitSid[w]] # NoTurn

\* No attempt of an aborted turn goes on, whether the abort came before the
\* attempt registered its handle, between two attempts or during one.  The attempt of
\* a followup turn is out of reach of its caller's signal while it is live.
Unheard(t) == op[t].followup /\ op[t].result = "none"

AbortedRunsNothing == \A t \in Turns : op[t].aborted /\ ~Unheard(t) => run[t] \notin Live

\* The count the restart waits for is zero only when no attempt is in progress
\* and no key is taken.
DrainedIsIdle ==
  RunCount = 0 => \A t \in Turns : run[t] \notin InAttempt /\ ~Holding(t)

\* While an operation holds its key, every session id that found it for a wait
\* goes on to find it: the ids a compaction left behind included.
IdsKeepFinding ==
  [][\A t \in Turns, s \in Sids :
       /\ Holding(t) /\ Holding(t)'
       /\ KeyOf[t] \in {keyAt[s], waitKeyAt[s]}
       => KeyOf[t] \in {keyAt[s]', waitKeyAt[s]'}]_vars

\* The wait of a session reset returns before its timer: the attempt it waits
\* for ends, and the key it waits for is freed by the turn that holds it.
WaitsEnd == \A c \in Callers : Waiting(c) ~> ~Waiting(c)
=============================================================================
