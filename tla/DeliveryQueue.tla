---------------------------- MODULE DeliveryQueue ----------------------------
(***************************************************************************)
(* The write-ahead queue of outbound messages: delivery-queue-storage.ts,  *)
(* delivery-queue-recovery.ts and deliverOutboundPayloads (deliver.ts) of  *)
(* src/src/infra/outbound.                                                 *)
(*                                                                         *)
(* An entry is written to <id>.json before it is sent; after the send the  *)
(* file is renamed to <id>.delivered and that marker unlinked, or its      *)
(* retryCount is raised.  Every start of the server, in a new process or   *)
(* in the same one, scans the directory and sends what it finds, while     *)
(* deliveries of the running process, and scans of earlier starts, go on.  *)
(*                                                                         *)
(* Actors are the coroutines: Live, the deliverers of the callers (one per *)
(* entry), and the scans.  An action runs from one file operation or send  *)
(* to the next.  A crash ends every actor; the disk stays.                 *)
(*                                                                         *)
(* Left out: an enqueue whose write fails (the message is sent without an  *)
(* entry), a rename that fails inside writeQueueEntry, entries older       *)
(* releases wrote without lastAttemptAt (so an entry has one exactly when  *)
(* its retryCount is positive), and the clock: the backoff may or may not  *)
(* have elapsed, and the scan's budget may end at any time.                *)
(***************************************************************************)
EXTENDS Integers, FiniteSets

CONSTANTS
  MaxEntries,   \* bound on the entries; they are numbered in enqueuedAt order
  BestEffort,   \* entries with bestEffort: a failed payload does not throw
  Reported,     \* those whose caller passes onError
  Scans,        \* recovery scans that may run at once
  Live,         \* the callers' deliverers
  MaxRetries,   \* MAX_RETRIES
  MaxScans,     \* bound on the server starts
  MaxCrashes,   \* bound on the crashes
  MaxIoErrors   \* bound on the renames that fail

Ids == 1..MaxEntries
NoFile == -1
Actors == Scans \cup {Live}

ASSUME EntriesAssumption == MaxEntries \in Nat /\ BestEffort \subseteq Ids /\ Reported \subseteq BestEffort
ASSUME ActorsAssumption == Live \notin Scans
ASSUME BoundsAssumption ==
  MaxRetries \in Nat /\ MaxScans \in Nat /\ MaxCrashes \in Nat /\ MaxIoErrors \in Nat

VARIABLES
  json,         \* entry -> retryCount in <id>.json, or NoFile
  marker,       \* entries with a <id>.delivered
  failed,       \* entries in failed/
  step,         \* actor -> entry -> what the actor does with it
  files,        \* scan -> names of readdir it has yet to read
  todo,         \* scan -> entry -> retryCount it read and has yet to handle
  scans, crashes, ioErrors,    \* bounded counters
  accepted,     \* history: entries written
  sent,         \* history: entries all of whose payloads a send has sent
  dismissed,    \* history: entries the caller aborted or a hook cancelled
  timedOut,     \* history: entries whose send the channel's transport aborted
  rejected,     \* history: entries a permanent error was met for
  tries,        \* history: entry -> failures and deferrals so far
  torn          \* history: entries sent that could not be marked in time

diskVars == <<json, marker, failed>>
scanVars == <<files, todo>>
boundVars == <<scans, crashes, ioErrors>>
historyVars == <<accepted, sent, dismissed, timedOut, rejected, tries, torn>>
vars == <<diskVars, step, scanVars, boundVars, historyVars>>

At(where) == [pc |-> where, count |-> 0]
None == At("none")
Steps == [pc : {"none", "sending", "acking", "unlinking", "failing", "rewriting", "moving"},
          count : Nat]

TypeOK ==
  /\ json \in [Ids -> {NoFile} \cup (0..scans + 1)]
  /\ marker \in SUBSET Ids /\ failed \in SUBSET Ids
  /\ step \in [Actors -> [Ids -> Steps]]
  /\ files \in [Scans -> SUBSET Ids]
  /\ todo \in [Scans -> [Ids -> Nat \cup {NoFile}]]
  /\ scans \in 0..MaxScans /\ crashes \in 0..MaxCrashes /\ ioErrors \in 0..MaxIoErrors
  /\ accepted \in SUBSET Ids /\ sent \in SUBSET Ids /\ dismissed \in SUBSET Ids
  /\ timedOut \in SUBSET Ids /\ rejected \in SUBSET Ids /\ tries \in [Ids -> Nat] /\ torn \in SUBSET Ids

Nothing == [e \in Ids |-> NoFile]
Idle == [e \in Ids |-> None]

Init ==
  /\ json = Nothing /\ marker = {} /\ failed = {}
  /\ step = [a \in Actors |-> Idle]
  /\ files = [s \in Scans |-> {}] /\ todo = [s \in Scans |-> Nothing]
  /\ scans = 0 /\ crashes = 0 /\ ioErrors = 0
  /\ accepted = {} /\ sent = {} /\ dismissed = {} /\ timedOut = {} /\ rejected = {} /\ torn = {}
  /\ tries = [e \in Ids |-> 0]

-----------------------------------------------------------------------------
Does(a, e, where) == step[a][e].pc = where
Goes(a, e, where) == step' = [step EXCEPT ![a][e] = At(where)]
Tried(es) == tries' = [e \in Ids |-> IF e \in es THEN tries[e] + 1 ELSE tries[e]]

Todo(s) == {e \in Ids : todo[s][e] # NoFile}

\* Another actor is about to handle e, or does.
Shared(a, e) == \E b \in Actors \ {a} : step[b][e] # None \/ (b \in Scans /\ e \in Todo(b))

-----------------------------------------------------------------------------
(* deliverOutboundPayloads. *)

\* enqueueDelivery; the send begins.
Enqueue(e) ==
  /\ accepted = 1..(e - 1)
  /\ accepted' = accepted \cup {e}
  /\ json' = [json EXCEPT ![e] = 0]
  /\ Goes(Live, e, "sending")
  /\ UNCHANGED <<marker, failed, scanVars, boundVars, sent, dismissed, timedOut, rejected, tries, torn>>

\* Every payload was sent.
SendSucceeds(a, e) ==
  /\ Does(a, e, "sending")
  /\ Goes(a, e, "acking")
  /\ sent' = sent \cup {e}
  /\ torn' = IF Shared(a, e) THEN torn \cup {e} ELSE torn
  /\ UNCHANGED <<diskVars, scanVars, boundVars, accepted, dismissed, timedOut, rejected, tries>>

\* The caller's signal aborts it, or the message_sending hook cancels it.
SendDismissed(a, e) ==
  /\ Does(a, e, "sending")
  /\ Goes(a, e, "acking")
  /\ dismissed' = dismissed \cup {e}
  /\ UNCHANGED <<diskVars, scanVars, boundVars, accepted, sent, timedOut, rejected, tries, torn>>

\* A send that a caller awaits throws an AbortError of another origin, as the timeout
\* of a channel's transport: isAbortError does not tell them apart.
SendTimesOut(e) ==
  /\ Does(Live, e, "sending") /\ e \notin BestEffort
  /\ Goes(Live, e, "acking")
  /\ timedOut' = timedOut \cup {e}
  /\ UNCHANGED <<diskVars, scanVars, boundVars, accepted, sent, dismissed, rejected, tries, torn>>

\* Mutant of SendThrows: the finally branch acknowledges in every case.
ThrowsAcked(a, e, isPermanent) ==
  /\ Does(a, e, "sending")
  /\ Goes(a, e, "acking")
  /\ Tried({e})
  /\ UNCHANGED <<diskVars, scanVars, boundVars, accepted, sent, dismissed, timedOut, rejected, torn>>

\* It throws, for a caller another error than an AbortError (a scan sends with
\* skipQueue and treats that as any other).  Only a scan looks further at the
\* error, and gives up on a permanent one.
SendThrows(a, e, isPermanent) ==
  /\ Does(a, e, "sending")
  /\ Tried({e})
  /\ IF isPermanent /\ a # Live
     THEN Goes(a, e, "moving") /\ rejected' = rejected \cup {e}
     ELSE Goes(a, e, "failing") /\ UNCHANGED rejected
  /\ UNCHANGED <<diskVars, scanVars, boundVars, accepted, sent, dismissed, timedOut, torn>>

\* Every payload was sent, and the append to the session transcript throws.
MirrorThrows(a, e) ==
  /\ Does(a, e, "sending")
  /\ Goes(a, e, "failing")
  /\ sent' = sent \cup {e} /\ torn' = torn \cup {e}
  /\ Tried({e})
  /\ UNCHANGED <<diskVars, scanVars, boundVars, accepted, dismissed, timedOut, rejected>>

\* Under bestEffort a failed payload is only reported to onError, which the
\* caller may not have passed and the recovery never passes.
PayloadFails(a, e) ==
  /\ Does(a, e, "sending") /\ e \in BestEffort
  /\ IF a = Live /\ e \in Reported
     THEN Goes(a, e, "failing") /\ Tried({e})
     ELSE Goes(a, e, "acking") /\ UNCHANGED tries
  /\ UNCHANGED <<diskVars, scanVars, boundVars, accepted, sent, dismissed, timedOut, rejected, torn>>

-----------------------------------------------------------------------------
(* ackDelivery, failDelivery and moveToFailed. *)

\* Mutant of AckRename: the entry is copied, not renamed.
AckCopy(a, e) ==
  /\ Does(a, e, "acking")
  /\ marker' = IF json[e] # NoFile THEN marker \cup {e} ELSE marker
  /\ Goes(a, e, "unlinking")
  /\ UNCHANGED <<json, failed, scanVars, boundVars, historyVars>>

\* Phase 1; an entry that is gone is no error.
AckRename(a, e) ==
  /\ Does(a, e, "acking")
  /\ marker' = IF json[e] # NoFile THEN marker \cup {e} ELSE marker
  /\ json' = [json EXCEPT ![e] = NoFile]
  /\ Goes(a, e, "unlinking")
  /\ UNCHANGED <<failed, scanVars, boundVars, historyVars>>

\* The rename fails: a caller does not mind, a scan treats it as a failed send.
AckFails(a, e) ==
  /\ Does(a, e, "acking") /\ json[e] # NoFile
  /\ ioErrors < MaxIoErrors /\ ioErrors' = ioErrors + 1
  /\ IF a = Live THEN Goes(a, e, "none") /\ UNCHANGED tries
                 ELSE Goes(a, e, "failing") /\ Tried({e})
  /\ torn' = IF e \in sent THEN torn \cup {e} ELSE torn
  /\ UNCHANGED <<diskVars, scanVars, scans, crashes, accepted, sent, dismissed, timedOut, rejected>>

\* Phase 2.
AckUnlink(a, e) ==
  /\ Does(a, e, "unlinking")
  /\ marker' = marker \ {e}
  /\ Goes(a, e, "none")
  /\ UNCHANGED <<json, failed, scanVars, boundVars, historyVars>>

\* failDelivery reads the entry, which throws if it is gone, ...
FailRead(a, e) ==
  /\ Does(a, e, "failing")
  /\ step' = [step EXCEPT ![a][e] = IF json[e] = NoFile THEN None
                                    ELSE [pc |-> "rewriting", count |-> json[e]]]
  /\ UNCHANGED <<diskVars, scanVars, boundVars, historyVars>>

\* Mutant of FailWrite: the send is tried again at once.
RewriteRetries(a, e) ==
  /\ Does(a, e, "rewriting")
  /\ json' = [json EXCEPT ![e] = step[a][e].count + 1]
  /\ Goes(a, e, "sending")
  /\ UNCHANGED <<marker, failed, scanVars, boundVars, historyVars>>

\* ... and writes it back, whatever has happened to the file since.
FailWrite(a, e) ==
  /\ Does(a, e, "rewriting")
  /\ json' = [json EXCEPT ![e] = step[a][e].count + 1]
  /\ Goes(a, e, "none")
  /\ UNCHANGED <<marker, failed, scanVars, boundVars, historyVars>>

MoveToFailed(a, e) ==
  /\ Does(a, e, "moving")
  /\ failed' = IF json[e] # NoFile THEN failed \cup {e} ELSE failed
  /\ json' = [json EXCEPT ![e] = NoFile]
  /\ Goes(a, e, "none")
  /\ UNCHANGED <<marker, scanVars, boundVars, historyVars>>

-----------------------------------------------------------------------------
(* recoverPendingDeliveries. *)

Quiet(s) == files[s] = {} /\ Todo(s) = {} /\ step[s] = Idle

\* loadPendingDeliveries lists the directory and unlinks the markers it lists.
ScanStarts(s) ==
  /\ Quiet(s)
  /\ scans < MaxScans /\ scans' = scans + 1
  /\ files' = [files EXCEPT ![s] = {e \in Ids : json[e] # NoFile}]
  /\ marker' = {}
  /\ UNCHANGED <<json, failed, step, todo, crashes, ioErrors, historyVars>>

\* It reads one file; one that is gone by now is skipped.
ScanReads(s, e) ==
  /\ e \in files[s]
  /\ files' = [files EXCEPT ![s] = @ \ {e}]
  /\ todo' = [todo EXCEPT ![s][e] = json[e]]
  /\ torn' = IF json[e] # NoFile /\ \E a \in Actors : Does(a, e, "acking") THEN torn \cup {e} ELSE torn
  /\ UNCHANGED <<diskVars, step, boundVars, accepted, sent, dismissed, timedOut, rejected, tries>>

\* The loop comes to entry e, the oldest left.
Turn(s, e) ==
  /\ files[s] = {} /\ step[s] = Idle
  /\ e \in Todo(s) /\ \A d \in Todo(s) : e <= d

Handles(s, e, where) ==
  /\ Goes(s, e, where)
  /\ todo' = [todo EXCEPT ![s][e] = NoFile]
  /\ UNCHANGED <<diskVars, files, boundVars, historyVars>>

\* Mutant of GiveUp: off by one.
GiveUpEarly(s, e) ==
  Turn(s, e) /\ todo[s][e] + 1 >= MaxRetries /\ Handles(s, e, "moving")

GiveUp(s, e) == Turn(s, e) /\ todo[s][e] >= MaxRetries /\ Handles(s, e, "moving")

\* The first replay after a crash waits for no backoff.
BackOff(s, e) == Turn(s, e) /\ todo[s][e] \in 1..(MaxRetries - 1) /\ Handles(s, e, "none")

Replay(s, e) == Turn(s, e) /\ todo[s][e] < MaxRetries /\ Handles(s, e, "sending")

\* The time budget is over: failDelivery on all that is left, in parallel.
DeferRemaining(s) ==
  /\ \E e \in Ids : Turn(s, e)
  /\ step' = [step EXCEPT ![s] = [e \in Ids |-> IF e \in Todo(s) THEN At("failing") ELSE None]]
  /\ todo' = [todo EXCEPT ![s] = Nothing]
  /\ Tried(Todo(s))
  /\ UNCHANGED <<diskVars, files, boundVars, accepted, sent, dismissed, timedOut, rejected, torn>>

\* The process dies: what was sent and is not marked yet will be replayed.
Crash ==
  /\ crashes < MaxCrashes /\ crashes' = crashes + 1
  /\ torn' = torn \cup {e \in sent : \E a \in Actors : Does(a, e, "acking")}
  /\ step' = [a \in Actors |-> Idle]
  /\ files' = [s \in Scans |-> {}] /\ todo' = [s \in Scans |-> Nothing]
  /\ UNCHANGED <<diskVars, scans, ioErrors, accepted, sent, dismissed, timedOut, rejected, tries>>

Send(a, e) ==
  \/ SendSucceeds(a, e) \/ SendDismissed(a, e) \/ MirrorThrows(a, e) \/ PayloadFails(a, e)
  \/ a = Live /\ SendTimesOut(e)
  \/ \E isPermanent \in BOOLEAN : SendThrows(a, e, isPermanent)

Settle(a, e) ==
  \/ AckRename(a, e) \/ AckFails(a, e) \/ AckUnlink(a, e)
  \/ FailRead(a, e) \/ FailWrite(a, e) \/ MoveToFailed(a, e)

Recover(s) ==
  \/ ScanStarts(s) \/ DeferRemaining(s)
  \/ \E e \in Ids : ScanReads(s, e) \/ GiveUp(s, e) \/ BackOff(s, e) \/ Replay(s, e)

Next ==
  \/ \E e \in Ids : Enqueue(e)
  \/ \E a \in Actors, e \in Ids : Send(a, e) \/ Settle(a, e)
  \/ \E s \in Scans : Recover(s)
  \/ Crash

Spec == Init /\ [][Next]_vars

-----------------------------------------------------------------------------
(* Correctness. *)

\* An accepted message was sent, or given up by its caller, or it is still on
\* disk to be retried or inspected: crashes and concurrent scans lose none.  One
\* whose first send the transport aborted may be lost: deliver.ts acknowledges it,
\* although its comment (line 555) has an entry removed after success.
Kept(e) == e \in sent \cup dismissed \cup timedOut \cup failed \/ json[e] # NoFile

StrictNeverLost == \A e \in accepted \ BestEffort : Kept(e)

\* A message is given up only after a permanent error or MAX_RETRIES attempts and
\* deferrals: concurrent read-modify-writes never count one that did not happen.
GivenUpForCause ==
  \A e \in Ids :
    /\ e \in failed => e \in rejected \/ tries[e] >= MaxRetries
    /\ json[e] <= tries[e]

\* A message sent completely is sent again only if, between its send and its
\* marking, the process died or the rename failed, its transcript could not be
\* written, or another actor had hold of the entry.
ReplayBegins ==
  \A a \in Actors, e \in Ids :
    step[a][e].pc # "sending" /\ step'[a][e].pc = "sending" /\ e \in sent => e \in torn

NoReplay == [][ReplayBegins]_vars
=============================================================================
