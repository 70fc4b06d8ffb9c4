------------------------- MODULE DeliveryQueueProofs -------------------------
(***************************************************************************)
(* Theorems about DeliveryQueue, for every number of entries, scans,       *)
(* retries, crashes and failing renames.                                   *)
(***************************************************************************)
EXTENDS DeliveryQueue, FiniteSetTheorems, TLAPS

\* The types; nothing but accepted entries leaves a trace anywhere; a scan handles
\* what it has read and taken off its list.
Types ==
  /\ json \in [Ids -> Nat \cup {NoFile}]
  /\ step \in [Actors -> [Ids -> Steps]]
  /\ files \in [Scans -> SUBSET Ids]
  /\ todo \in [Scans -> [Ids -> Nat \cup {NoFile}]]
  /\ tries \in [Ids -> Nat]

Known ==
  /\ \A e \in Ids : e \notin accepted => e \notin sent /\ json[e] = NoFile
  /\ \A a \in Actors, e \in Ids : step[a][e] # None => e \in accepted
  /\ \A s \in Scans, e \in Ids : e \in files[s] \/ todo[s][e] # NoFile => e \in accepted
  /\ \A s \in Scans, e \in Ids : step[s][e] # None => files[s] = {} /\ todo[s][e] = NoFile

Base == Types /\ Known

\* An acknowledgement is on its way only for what was sent, dismissed or timed
\* out, or is best-effort.
AckedForCause ==
  \A a \in Actors, e \in Ids :
    step[a][e].pc = "acking" => e \in sent \cup dismissed \cup timedOut \cup BestEffort

\* What was sent and is not torn is in one pair of hands: no scan has it, and
\* every actor is done with it, or settles it as sent.
InGoodHands(e) ==
  /\ \A s \in Scans : todo[s][e] = NoFile
  /\ \A a \in Actors : step[a][e].pc \in {"none", "acking", "unlinking"}
  /\ json[e] # NoFile => \E a \in Actors : step[a][e].pc = "acking"

SentIsSettled == \A e \in Ids : e \in sent \ torn => InGoodHands(e)

\* The failures of e that some actor has yet to count.
Counting(e) == {a \in Actors : step[a][e].pc \in {"failing", "rewriting"}}

CountOk(e) ==
  /\ IsFiniteSet(Counting(e))
  /\ json[e] + Cardinality(Counting(e)) <= tries[e]
  /\ \A a \in Actors : step[a][e].pc = "rewriting" =>
       step[a][e].count + Cardinality(Counting(e)) <= tries[e]
  /\ \A s \in Scans : todo[s][e] <= tries[e]
  /\ \A a \in Actors : step[a][e].pc = "moving" => e \in rejected \/ tries[e] >= MaxRetries
  /\ e \in failed => e \in rejected \/ tries[e] >= MaxRetries

CountsBacked == \A e \in Ids : CountOk(e)

-----------------------------------------------------------------------------
\* A step of one actor with one entry.
LEMMA GoesAt ==
  ASSUME Types, NEW a \in Actors, NEW e \in Ids, NEW v \in Steps,
         step' = [step EXCEPT ![a][e] = v]
  PROVE  /\ step' \in [Actors -> [Ids -> Steps]]
         /\ step'[a][e] = v
         /\ \A b \in Actors, d \in Ids : b # a \/ d # e => step'[b][d] = step[b][d]
BY DEF Types

\* The records an actor's step is given.
LEMMA AtIsStep ==
  ASSUME NEW where \in {"none", "sending", "acking", "unlinking", "failing", "rewriting", "moving"}
  PROVE  /\ At(where) \in Steps /\ At(where).pc = where
         /\ None \in Steps /\ None.pc = "none" /\ At("none") = None
         /\ where # "none" => At(where) # None
BY DEF At, None, Steps

\* The same for all of them, and who the actors are.
LEMMA ActorFacts ==
  /\ Live \in Actors /\ Scans \subseteq Actors /\ NoFile = -1
  /\ \A w \in {"none", "sending", "acking", "unlinking", "failing", "rewriting", "moving"} :
       /\ At(w) \in Steps /\ At(w).pc = w /\ (w # "none" => At(w) # None)
  /\ None \in Steps /\ None.pc = "none" /\ At("none") = None
BY AtIsStep DEF Actors, NoFile

\* Nothing has happened yet.
LEMMA InitBase == Init => Base
<1> SUFFICES ASSUME Init PROVE Base
  OBVIOUS
<1>1. None \in Steps
  BY AtIsStep
<1>2. Live \in Actors /\ Scans \subseteq Actors
  BY DEF Actors
<1> QED
  BY <1>1, <1>2 DEF Init, Base, Types, Known, Nothing, Idle, NoFile

\* An actor that works on e goes on, and the disk and the scans stay as they are.
LEMMA BaseGoes ==
  ASSUME Base, NEW a \in Actors, NEW e \in Ids, NEW v \in Steps,
         step[a][e] # None, step' = [step EXCEPT ![a][e] = v],
         UNCHANGED <<json, files, todo, accepted>>,
         tries' = tries \/ Tried({e}), sent' = sent \/ sent' = sent \cup {e}
  PROVE  Base'
<1>1. tries' \in [Ids -> Nat]
  BY DEF Base, Types, Tried
<1>2. Types'
  BY <1>1, GoesAt DEF Base, Types
<1>3. e \in accepted
  BY DEF Base, Known
<1> QED
  BY <1>2, <1>3, GoesAt DEF Base, Known

\* One step per action; a failing send or rename by BaseGoes.
LEMMA BaseStep == Base /\ [Next]_vars => Base'
<1> SUFFICES ASSUME Base, [Next]_vars PROVE Base'
  OBVIOUS
<1> USE DEF Base, Types, Known
<1>1. ASSUME NEW e \in Ids, Enqueue(e) PROVE Base'
  <2>1. step' = [step EXCEPT ![Live][e] = At("sending")]
    BY <1>1 DEF Enqueue, Goes
  <2>2. \A s \in Scans, d \in Ids : step'[s][d] = step[s][d]
    BY ActorFacts, <2>1, GoesAt, ActorsAssumption
  <2>3. json' = [json EXCEPT ![e] = 0] /\ accepted' = accepted \cup {e}
        /\ UNCHANGED <<files, todo, tries, sent>>
    BY <1>1 DEF Enqueue, scanVars
  <2>4. Types'
    BY ActorFacts, <2>1, <2>3, GoesAt
  <2>5. \A b \in Actors, d \in Ids : step'[b][d] # None => d \in accepted'
    BY ActorFacts, <2>1, <2>3, GoesAt
  <2> QED
    BY ActorFacts, <2>2, <2>3, <2>4, <2>5
<1>2. ASSUME NEW a \in Actors, NEW e \in Ids, Send(a, e) PROVE Base'
  <2>1. CASE SendSucceeds(a, e)
    BY ActorFacts, <2>1, GoesAt DEF SendSucceeds, Goes, Does, diskVars, scanVars, boundVars
  <2>2. CASE SendDismissed(a, e)
    BY ActorFacts, <2>2, GoesAt DEF SendDismissed, Goes, Does, diskVars, scanVars, boundVars
  <2>6. CASE a = Live /\ SendTimesOut(e)
    BY ActorFacts, <2>6, GoesAt DEF SendTimesOut, Goes, Does, diskVars, scanVars, boundVars
  <2>3. CASE MirrorThrows(a, e)
    BY ActorFacts, <2>3, GoesAt DEF MirrorThrows, Goes, Does, Tried, diskVars, scanVars, boundVars
  <2>4. CASE PayloadFails(a, e)
    <3>1. PICK w \in {"failing", "acking"} : step' = [step EXCEPT ![a][e] = At(w)]
      BY <2>4 DEF PayloadFails, Goes
    <3>2. step[a][e] # None
      BY ActorFacts, <2>4 DEF PayloadFails, Does
    <3>3. tries' = tries \/ Tried({e})
      BY <2>4 DEF PayloadFails
    <3>4. UNCHANGED <<json, files, todo, accepted, sent>>
      BY <2>4 DEF PayloadFails, diskVars, scanVars, boundVars
    <3> QED
      BY ActorFacts, <3>1, <3>2, <3>3, <3>4, BaseGoes DEF Base
  <2>5. ASSUME NEW isPermanent \in BOOLEAN, SendThrows(a, e, isPermanent) PROVE Base'
    <3>1. PICK w \in {"failing", "moving"} : step' = [step EXCEPT ![a][e] = At(w)]
      BY <2>5 DEF SendThrows, Goes
    <3>2. step[a][e] # None
      BY ActorFacts, <2>5 DEF SendThrows, Does
    <3>3. tries' = tries \/ Tried({e})
      BY <2>5 DEF SendThrows
    <3>4. UNCHANGED <<json, files, todo, accepted, sent>>
      BY <2>5 DEF SendThrows, diskVars, scanVars, boundVars
    <3> QED
      BY ActorFacts, <3>1, <3>2, <3>3, <3>4, BaseGoes DEF Base
  <2> QED
    BY <1>2, <2>1, <2>2, <2>3, <2>4, <2>5, <2>6 DEF Send
<1>3. ASSUME NEW a \in Actors, NEW e \in Ids, Settle(a, e) PROVE Base'
  <2>1. CASE AckRename(a, e)
    BY ActorFacts, <2>1, GoesAt DEF AckRename, Goes, Does, scanVars, boundVars, historyVars
  <2>2. CASE AckFails(a, e)
    <3>1. PICK w \in {"none", "failing"} : step' = [step EXCEPT ![a][e] = At(w)]
      BY <2>2 DEF AckFails, Goes
    <3>2. step[a][e] # None
      BY ActorFacts, <2>2 DEF AckFails, Does
    <3>3. tries' = tries \/ Tried({e})
      BY <2>2 DEF AckFails
    <3>4. UNCHANGED <<json, files, todo, accepted, sent>>
      BY <2>2 DEF AckFails, diskVars, scanVars
    <3> QED
      BY ActorFacts, <3>1, <3>2, <3>3, <3>4, BaseGoes DEF Base
  <2>3. CASE AckUnlink(a, e)
    BY ActorFacts, <2>3, GoesAt DEF AckUnlink, Goes, Does, scanVars, boundVars, historyVars
  <2>4. CASE FailRead(a, e)
    BY ActorFacts, <2>4, GoesAt DEF FailRead, Does, Steps, diskVars, scanVars, boundVars, historyVars
  <2>5. CASE FailWrite(a, e)
    BY ActorFacts, <2>5, GoesAt DEF FailWrite, Goes, Does, Steps, scanVars, boundVars, historyVars
  <2>6. CASE MoveToFailed(a, e)
    BY ActorFacts, <2>6, GoesAt DEF MoveToFailed, Goes, Does, scanVars, boundVars, historyVars
  <2> QED
    BY <1>3, <2>1, <2>2, <2>3, <2>4, <2>5, <2>6 DEF Settle
<1>4. ASSUME NEW s \in Scans, Recover(s) PROVE Base'
  <2>1. CASE ScanStarts(s)
    BY ActorFacts, <2>1 DEF ScanStarts, Quiet, Idle, historyVars
  <2>2. CASE DeferRemaining(s)
    BY ActorFacts, <2>2 DEF DeferRemaining, Turn, Idle, Nothing, Todo, Tried, diskVars, boundVars
  <2>3. ASSUME NEW e \in Ids, ScanReads(s, e) PROVE Base'
    BY ActorFacts, <2>3 DEF ScanReads, diskVars, boundVars
  <2>4. ASSUME NEW e \in Ids, NEW where \in {"none", "sending", "moving"}, Turn(s, e), Handles(s, e, where)
        PROVE  Base'
    BY ActorFacts, <2>4, GoesAt DEF Turn, Handles, Goes, Todo, diskVars, boundVars, historyVars
  <2> QED
    BY <1>4, <2>1, <2>2, <2>3, <2>4 DEF Recover, GiveUp, BackOff, Replay
<1>5. CASE Crash
  BY ActorFacts, <1>5 DEF Crash, Idle, Nothing, diskVars
<1>6. CASE UNCHANGED vars
  BY <1>6 DEF vars, diskVars, scanVars, boundVars, historyVars
<1> QED
  BY <1>1, <1>2, <1>3, <1>4, <1>5, <1>6 DEF Next

-----------------------------------------------------------------------------
(* Nothing is lost. *)

Keeping == AckedForCause /\ StrictNeverLost

\* An actor goes on, and what became of the entries stays as it is.
LEMMA KeepingGoes ==
  ASSUME Base, Keeping, NEW a \in Actors, NEW e \in Ids, NEW v \in Steps,
         step' = [step EXCEPT ![a][e] = v],
         v.pc = "acking" => e \in sent \cup dismissed \cup timedOut \cup BestEffort,
         UNCHANGED <<json, failed, accepted, sent, dismissed, timedOut>>
  PROVE  Keeping'
BY GoesAt DEF Base, Keeping, AckedForCause, StrictNeverLost, Kept

\* What may remove a file: a rename after an acknowledgement that has its reason, and
\* the move to failed/.
LEMMA KeepingStep == Base /\ Keeping /\ [Next]_vars => Keeping'
<1> SUFFICES ASSUME Base, Keeping, [Next]_vars PROVE Keeping'
  OBVIOUS
<1> USE DEF Base, Types, Keeping, AckedForCause, StrictNeverLost, Kept
<1>1. ASSUME NEW e \in Ids, Enqueue(e) PROVE Keeping'
  BY ActorFacts, <1>1, GoesAt DEF Enqueue, Goes, scanVars, boundVars
<1>2. ASSUME NEW a \in Actors, NEW e \in Ids, Send(a, e) PROVE Keeping'
  <2>1. CASE SendSucceeds(a, e)
    BY ActorFacts, <2>1, GoesAt DEF SendSucceeds, Goes, Does, diskVars, scanVars, boundVars
  <2>2. CASE SendDismissed(a, e)
    BY ActorFacts, <2>2, GoesAt DEF SendDismissed, Goes, Does, diskVars, scanVars, boundVars
  <2>6. CASE a = Live /\ SendTimesOut(e)
    BY ActorFacts, <2>6, GoesAt DEF SendTimesOut, Goes, Does, diskVars, scanVars, boundVars
  <2>3. CASE MirrorThrows(a, e)
    BY ActorFacts, <2>3, GoesAt DEF MirrorThrows, Goes, Does, Tried, diskVars, scanVars, boundVars
  <2>4. CASE PayloadFails(a, e)
    <3>1. PICK w \in {"failing", "acking"} : step' = [step EXCEPT ![a][e] = At(w)]
      BY <2>4 DEF PayloadFails, Goes
    <3>2. e \in BestEffort /\ UNCHANGED <<json, failed, accepted, sent, dismissed, timedOut>>
      BY <2>4 DEF PayloadFails, diskVars
    <3> QED
      BY ActorFacts, <3>1, <3>2, KeepingGoes
  <2>5. ASSUME NEW isPermanent \in BOOLEAN, SendThrows(a, e, isPermanent) PROVE Keeping'
    <3>1. PICK w \in {"failing", "moving"} : step' = [step EXCEPT ![a][e] = At(w)]
      BY <2>5 DEF SendThrows, Goes
    <3>2. UNCHANGED <<json, failed, accepted, sent, dismissed, timedOut>>
      BY <2>5 DEF SendThrows, diskVars
    <3> QED
      BY ActorFacts, <3>1, <3>2, KeepingGoes
  <2> QED
    BY <1>2, <2>1, <2>2, <2>3, <2>4, <2>5, <2>6 DEF Send
<1>3. ASSUME NEW a \in Actors, NEW e \in Ids, Settle(a, e) PROVE Keeping'
  <2>1. CASE AckRename(a, e)
    BY ActorFacts, <2>1, GoesAt DEF AckRename, Goes, Does, scanVars, boundVars, historyVars
  <2>2. CASE AckFails(a, e)
    <3>1. PICK w \in {"none", "failing"} : step' = [step EXCEPT ![a][e] = At(w)]
      BY <2>2 DEF AckFails, Goes
    <3>2. UNCHANGED <<json, failed, accepted, sent, dismissed, timedOut>>
      BY <2>2 DEF AckFails, diskVars
    <3> QED
      BY ActorFacts, <3>1, <3>2, KeepingGoes
  <2>3. CASE AckUnlink(a, e)
    BY ActorFacts, <2>3, GoesAt DEF AckUnlink, Goes, Does, scanVars, boundVars, historyVars
  <2>4. CASE FailRead(a, e)
    BY ActorFacts, <2>4, GoesAt DEF FailRead, Does, diskVars, scanVars, boundVars, historyVars
  <2>5. CASE FailWrite(a, e)
    <3>1. step[a][e].count \in Nat
      BY DEF Steps
    <3>2. \A d \in Ids : json[d] # NoFile => json'[d] # NoFile
      BY ActorFacts, <2>5, <3>1 DEF FailWrite
    <3> QED
      BY ActorFacts, <2>5, <3>2, GoesAt DEF FailWrite, Goes, scanVars, boundVars, historyVars
  <2>6. CASE MoveToFailed(a, e)
    BY ActorFacts, <2>6, GoesAt DEF MoveToFailed, Goes, Does, scanVars, boundVars, historyVars
  <2> QED
    BY <1>3, <2>1, <2>2, <2>3, <2>4, <2>5, <2>6 DEF Settle
<1>4. ASSUME NEW s \in Scans, Recover(s) PROVE Keeping'
  <2>1. CASE ScanStarts(s)
    BY ActorFacts, <2>1 DEF ScanStarts, historyVars
  <2>2. CASE DeferRemaining(s)
    BY ActorFacts, <2>2 DEF DeferRemaining, Nothing, Turn, Idle, Todo, Tried, diskVars, boundVars
  <2>3. ASSUME NEW e \in Ids, ScanReads(s, e) PROVE Keeping'
    BY ActorFacts, <2>3 DEF ScanReads, Does, diskVars, boundVars
  <2>4. ASSUME NEW e \in Ids, NEW where \in {"none", "sending", "moving"}, Turn(s, e), Handles(s, e, where)
        PROVE  Keeping'
    BY ActorFacts, <2>4, GoesAt DEF Turn, Handles, Goes, Todo, diskVars, boundVars, historyVars
  <2> QED
    BY <1>4, <2>1, <2>2, <2>3, <2>4 DEF Recover, GiveUp, BackOff, Replay
<1>5. CASE Crash
  BY ActorFacts, <1>5 DEF Crash, Idle, Nothing, Does, diskVars
<1>6. CASE UNCHANGED vars
  BY <1>6 DEF vars, diskVars, scanVars, boundVars, historyVars
<1> QED
  BY <1>1, <1>2, <1>3, <1>4, <1>5, <1>6 DEF Next

-----------------------------------------------------------------------------
(* Nothing is sent twice but in the windows of torn. *)

\* An actor goes on with an entry that need not be settled, or has it no more.
LEMMA SettledGoes ==
  ASSUME Base, SentIsSettled, NEW a \in Actors, NEW e \in Ids, NEW v \in Steps,
         step' = [step EXCEPT ![a][e] = v], UNCHANGED todo,
         \A d \in Ids : d # e => json'[d] = json[d] /\ (d \in sent' \ torn' => d \in sent \ torn),
         \/ e \notin sent' \ torn'
         \/ e \in sent \ torn /\ json'[e] = NoFile /\ v.pc \in {"none", "unlinking"}
  PROVE  SentIsSettled'
<1>1. \A d \in Ids : d # e => \A b \in Actors : step'[b][d] = step[b][d]
  BY GoesAt DEF Base
<1>2. \A d \in Ids : d # e /\ d \in sent' \ torn' => InGoodHands(d)'
  BY <1>1 DEF SentIsSettled, InGoodHands
<1>3. e \in sent' \ torn' => InGoodHands(e)'
  <2>1. step'[a][e] = v /\ \A b \in Actors : b # a => step'[b][e] = step[b][e]
    BY GoesAt DEF Base
  <2> QED
    BY <2>1 DEF SentIsSettled, InGoodHands
<1> QED
  BY <1>2, <1>3 DEF SentIsSettled

\* A step that leads to no send begins no replay.
LEMMA ReplayGoes ==
  ASSUME Base, NEW a \in Actors, NEW e \in Ids, NEW v \in Steps,
         step' = [step EXCEPT ![a][e] = v], v.pc # "sending"
  PROVE  ReplayBegins
BY GoesAt DEF Base, ReplayBegins

\* Only a scan that reads an entry while it is being acknowledged, or a second actor,
\* brings a sent entry back into play, and both make it torn.
LEMMA SettledStep == Base /\ SentIsSettled /\ [Next]_vars => SentIsSettled'
<1> SUFFICES ASSUME Base, SentIsSettled, [Next]_vars PROVE SentIsSettled'
  OBVIOUS
<1> USE DEF Base, Types, Known, SentIsSettled, InGoodHands
<1>1. ASSUME NEW e \in Ids, Enqueue(e) PROVE SentIsSettled'
  BY ActorFacts, <1>1, GoesAt DEF Enqueue, Goes, scanVars, boundVars
<1>2. ASSUME NEW a \in Actors, NEW e \in Ids, Send(a, e) PROVE SentIsSettled'
  <2>1. CASE SendSucceeds(a, e)
    <3>1. step' = [step EXCEPT ![a][e] = At("acking")] /\ UNCHANGED <<json, todo>>
      BY <2>1 DEF SendSucceeds, Goes, diskVars, scanVars
    <3>2. sent' = sent \cup {e} /\ torn' = IF Shared(a, e) THEN torn \cup {e} ELSE torn
      BY <2>1 DEF SendSucceeds
    <3>3. CASE Shared(a, e)
      BY ActorFacts, <3>1, <3>2, <3>3, SettledGoes
    <3>4. CASE ~Shared(a, e)
      <4>1. \A b \in Actors \ {a} : step[b][e] = None
        BY <3>4 DEF Shared
      <4>2. \A s \in Scans \ {a} : todo[s][e] = NoFile
        BY ActorFacts, <3>4 DEF Shared, Todo
      <4>3. a \in Scans => todo[a][e] = NoFile
        BY ActorFacts, <2>1 DEF SendSucceeds, Does
      <4>4. step'[a][e].pc = "acking" /\ \A b \in Actors \ {a} : step'[b][e].pc = "none"
        BY ActorFacts, <3>1, <4>1, GoesAt
      <4>5. InGoodHands(e)'
        BY ActorFacts, <3>1, <4>2, <4>3, <4>4
      <4>6. \A d \in Ids : d # e => \A b \in Actors : step'[b][d] = step[b][d]
        BY ActorFacts, <3>1, GoesAt
      <4> QED
        BY <3>1, <3>2, <4>5, <4>6
    <3> QED
      BY <3>3, <3>4
  <2>2. CASE SendDismissed(a, e)
    BY ActorFacts, <2>2, GoesAt DEF SendDismissed, Goes, Does, diskVars, scanVars, boundVars
  <2>6. CASE a = Live /\ SendTimesOut(e)
    BY ActorFacts, <2>6, GoesAt DEF SendTimesOut, Goes, Does, diskVars, scanVars, boundVars
  <2>3. CASE MirrorThrows(a, e)
    BY ActorFacts, <2>3, GoesAt DEF MirrorThrows, Goes, Does, Tried, diskVars, scanVars, boundVars
  <2>4. CASE PayloadFails(a, e)
    <3>1. PICK w \in {"failing", "acking"} : step' = [step EXCEPT ![a][e] = At(w)]
      BY <2>4 DEF PayloadFails, Goes
    <3>2. e \notin sent \ torn
      BY <2>4 DEF PayloadFails, Does
    <3>3. UNCHANGED <<json, todo, sent, torn>>
      BY <2>4 DEF PayloadFails, diskVars, scanVars
    <3> QED
      BY ActorFacts, <3>1, <3>2, <3>3, SettledGoes
  <2>5. ASSUME NEW isPermanent \in BOOLEAN, SendThrows(a, e, isPermanent) PROVE SentIsSettled'
    <3>1. PICK w \in {"failing", "moving"} : step' = [step EXCEPT ![a][e] = At(w)]
      BY <2>5 DEF SendThrows, Goes
    <3>2. e \notin sent \ torn
      BY <2>5 DEF SendThrows, Does
    <3>3. UNCHANGED <<json, todo, sent, torn>>
      BY <2>5 DEF SendThrows, diskVars, scanVars
    <3> QED
      BY ActorFacts, <3>1, <3>2, <3>3, SettledGoes
  <2> QED
    BY <1>2, <2>1, <2>2, <2>3, <2>4, <2>5, <2>6 DEF Send
<1>3. ASSUME NEW a \in Actors, NEW e \in Ids, Settle(a, e) PROVE SentIsSettled'
  <2>1. CASE AckRename(a, e)
    <3>1. step' = [step EXCEPT ![a][e] = At("unlinking")] /\ UNCHANGED <<todo, sent, torn>>
      BY <2>1 DEF AckRename, Goes, scanVars, historyVars
    <3>2. json' = [json EXCEPT ![e] = NoFile]
      BY <2>1 DEF AckRename
    <3> QED
      BY ActorFacts, <3>1, <3>2, SettledGoes
  <2>2. CASE AckFails(a, e)
    <3>1. PICK w \in {"none", "failing"} : step' = [step EXCEPT ![a][e] = At(w)]
      BY <2>2 DEF AckFails, Goes
    <3>2. e \notin sent' \ torn'
      BY <2>2 DEF AckFails
    <3>3. UNCHANGED <<json, todo, sent>> /\ torn \subseteq torn'
      BY <2>2 DEF AckFails, diskVars, scanVars
    <3> QED
      BY ActorFacts, <3>1, <3>2, <3>3, SettledGoes
  <2>3. CASE AckUnlink(a, e)
    BY ActorFacts, <2>3, GoesAt DEF AckUnlink, Goes, Does, scanVars, boundVars, historyVars
  <2>4. CASE FailRead(a, e)
    BY ActorFacts, <2>4, GoesAt DEF FailRead, Does, diskVars, scanVars, boundVars, historyVars
  <2>5. CASE FailWrite(a, e)
    BY ActorFacts, <2>5, GoesAt DEF FailWrite, Goes, Does, scanVars, boundVars, historyVars
  <2>6. CASE MoveToFailed(a, e)
    BY ActorFacts, <2>6, GoesAt DEF MoveToFailed, Goes, Does, scanVars, boundVars, historyVars
  <2> QED
    BY <1>3, <2>1, <2>2, <2>3, <2>4, <2>5, <2>6 DEF Settle
<1>4. ASSUME NEW s \in Scans, Recover(s) PROVE SentIsSettled'
  <2>1. CASE ScanStarts(s)
    BY ActorFacts, <2>1 DEF ScanStarts, historyVars
  <2>2. CASE DeferRemaining(s)
    BY ActorFacts, <2>2 DEF DeferRemaining, Nothing, Turn, Idle, Todo, Tried, diskVars, boundVars
  <2>3. ASSUME NEW e \in Ids, ScanReads(s, e) PROVE SentIsSettled'
    BY ActorFacts, <2>3 DEF ScanReads, Does, diskVars, boundVars
  <2>4. ASSUME NEW e \in Ids, NEW where \in {"none", "sending", "moving"}, Turn(s, e), Handles(s, e, where)
        PROVE  SentIsSettled'
    BY ActorFacts, <2>4, GoesAt DEF Turn, Handles, Goes, Todo, diskVars, boundVars, historyVars
  <2> QED
    BY <1>4, <2>1, <2>2, <2>3, <2>4 DEF Recover, GiveUp, BackOff, Replay
<1>5. CASE Crash
  BY ActorFacts, <1>5 DEF Crash, Idle, Nothing, Does, diskVars
<1>6. CASE UNCHANGED vars
  BY <1>6 DEF vars, diskVars, scanVars, boundVars, historyVars, Shared
<1> QED
  BY <1>1, <1>2, <1>3, <1>4, <1>5, <1>6 DEF Next

\* A send begins with a fresh entry or with one a scan has read.
LEMMA ReplayStep == Base /\ SentIsSettled /\ [Next]_vars => ReplayBegins
<1> SUFFICES ASSUME Base, SentIsSettled, [Next]_vars PROVE ReplayBegins
  OBVIOUS
<1> USE DEF Base, Types, Known, SentIsSettled, InGoodHands, ReplayBegins
<1>1. ASSUME NEW e \in Ids, Enqueue(e) PROVE ReplayBegins
  BY ActorFacts, <1>1, GoesAt DEF Enqueue, Goes, scanVars, boundVars
<1>2. ASSUME NEW a \in Actors, NEW e \in Ids, Send(a, e) PROVE ReplayBegins
  <2>1. CASE SendSucceeds(a, e)
    BY ActorFacts, <2>1, GoesAt DEF SendSucceeds, Goes, Does, diskVars, scanVars, boundVars
  <2>2. CASE SendDismissed(a, e)
    BY ActorFacts, <2>2, GoesAt DEF SendDismissed, Goes, Does, diskVars, scanVars, boundVars
  <2>6. CASE a = Live /\ SendTimesOut(e)
    BY ActorFacts, <2>6, GoesAt DEF SendTimesOut, Goes, Does, diskVars, scanVars, boundVars
  <2>3. CASE MirrorThrows(a, e)
    BY ActorFacts, <2>3, GoesAt DEF MirrorThrows, Goes, Does, Tried, diskVars, scanVars, boundVars
  <2>4. CASE PayloadFails(a, e)
    <3>1. PICK w \in {"failing", "acking"} : step' = [step EXCEPT ![a][e] = At(w)]
      BY <2>4 DEF PayloadFails, Goes
    <3> QED
      BY ActorFacts, <3>1, ReplayGoes
  <2>5. ASSUME NEW isPermanent \in BOOLEAN, SendThrows(a, e, isPermanent) PROVE ReplayBegins
    <3>1. PICK w \in {"failing", "moving"} : step' = [step EXCEPT ![a][e] = At(w)]
      BY <2>5 DEF SendThrows, Goes
    <3> QED
      BY ActorFacts, <3>1, ReplayGoes
  <2> QED
    BY <1>2, <2>1, <2>2, <2>3, <2>4, <2>5, <2>6 DEF Send
<1>3. ASSUME NEW a \in Actors, NEW e \in Ids, Settle(a, e) PROVE ReplayBegins
  <2>1. CASE AckRename(a, e)
    BY ActorFacts, <2>1, GoesAt DEF AckRename, Goes, Does, scanVars, boundVars, historyVars
  <2>2. CASE AckFails(a, e)
    <3>1. PICK w \in {"none", "failing"} : step' = [step EXCEPT ![a][e] = At(w)]
      BY <2>2 DEF AckFails, Goes
    <3> QED
      BY ActorFacts, <3>1, ReplayGoes
  <2>3. CASE AckUnlink(a, e)
    BY ActorFacts, <2>3, GoesAt DEF AckUnlink, Goes, Does, scanVars, boundVars, historyVars
  <2>4. CASE FailRead(a, e)
    BY ActorFacts, <2>4, GoesAt DEF FailRead, Does, diskVars, scanVars, boundVars, historyVars
  <2>5. CASE FailWrite(a, e)
    BY ActorFacts, <2>5, GoesAt DEF FailWrite, Goes, Does, scanVars, boundVars, historyVars
  <2>6. CASE MoveToFailed(a, e)
    BY ActorFacts, <2>6, GoesAt DEF MoveToFailed, Goes, Does, scanVars, boundVars, historyVars
  <2> QED
    BY <1>3, <2>1, <2>2, <2>3, <2>4, <2>5, <2>6 DEF Settle
<1>4. ASSUME NEW s \in Scans, Recover(s) PROVE ReplayBegins
  <2>1. CASE ScanStarts(s)
    BY ActorFacts, <2>1 DEF ScanStarts, historyVars
  <2>2. CASE DeferRemaining(s)
    BY ActorFacts, <2>2 DEF DeferRemaining, Nothing, Turn, Idle, Todo, Tried, diskVars, boundVars
  <2>3. ASSUME NEW e \in Ids, ScanReads(s, e) PROVE ReplayBegins
    BY ActorFacts, <2>3 DEF ScanReads, Does, diskVars, boundVars
  <2>4. ASSUME NEW e \in Ids, NEW where \in {"none", "sending", "moving"}, Turn(s, e), Handles(s, e, where)
        PROVE  ReplayBegins
    BY ActorFacts, <2>4, GoesAt DEF Turn, Handles, Goes, Todo, diskVars, boundVars, historyVars
  <2> QED
    BY <1>4, <2>1, <2>2, <2>3, <2>4 DEF Recover, GiveUp, BackOff, Replay
<1>5. CASE Crash
  BY ActorFacts, <1>5 DEF Crash, Idle, Nothing, Does, diskVars
<1>6. CASE UNCHANGED vars
  BY <1>6 DEF vars, diskVars, scanVars, boundVars, historyVars
<1> QED
  BY <1>1, <1>2, <1>3, <1>4, <1>5, <1>6 DEF Next

-----------------------------------------------------------------------------
(* No failure is counted that did not happen. *)

\* One actor takes up or ends a failure of e.
LEMMA CountingMoves ==
  ASSUME NEW a \in Actors, NEW e \in Ids, IsFiniteSet(Counting(e)),
         \A b \in Actors \ {a} : step'[b][e] = step[b][e]
  PROVE  /\ IsFiniteSet(Counting(e)')
         /\ Cardinality(Counting(e)) \in Nat /\ Cardinality(Counting(e)') \in Nat
         /\ a \in Counting(e)' /\ a \notin Counting(e)
              => Cardinality(Counting(e)') = Cardinality(Counting(e)) + 1
         /\ a \notin Counting(e)' /\ a \in Counting(e)
              => Cardinality(Counting(e)') = Cardinality(Counting(e)) - 1
         /\ (a \in Counting(e)' <=> a \in Counting(e)) => Counting(e)' = Counting(e)
<1> DEFINE C == Counting(e)
           D == Counting(e)'
<1>1. D \ {a} = C \ {a}
  BY DEF Counting
<1>2. D \in {C, C \cup {a}, C \ {a}}
  BY <1>1
<1>3. IsFiniteSet(D)
  BY <1>2, FS_AddElement, FS_RemoveElement
<1>4. Cardinality(C) \in Nat /\ Cardinality(D) \in Nat
  BY <1>3, FS_CardinalityType
<1>5. ASSUME a \in D, a \notin C PROVE Cardinality(D) = Cardinality(C) + 1
  <2>1. D = C \cup {a}
    BY <1>1, <1>5
  <2> QED
    BY <1>5, <2>1, FS_AddElement
<1>6. ASSUME a \notin D, a \in C PROVE Cardinality(D) = Cardinality(C) - 1
  <2>1. D = C \ {a}
    BY <1>1, <1>6
  <2> QED
    BY <1>6, <2>1, FS_RemoveElement
<1>7. (a \in D <=> a \in C) => D = C
  BY <1>1
<1> QED
  BY <1>3, <1>4, <1>5, <1>6, <1>7

\* Nothing happens to e but that its file goes, a scan forgets it, an actor ends
\* with it, or one has cause to move it.
LEMMA CountRests ==
  ASSUME Base, Base', NEW a \in Actors, NEW e \in Ids, CountOk(e),
         \A b \in Actors \ {a} : step'[b][e] = step[b][e],
         \/ step'[a][e] = step[a][e]
         \/ step'[a][e].pc \in {"none", "sending", "acking", "unlinking"}
         \/ step'[a][e].pc = "moving" /\ (e \in rejected' \/ tries[e] >= MaxRetries),
         json'[e] \in {json[e], NoFile},
         \A s \in Scans : todo'[s][e] \in {todo[s][e], json[e], NoFile},
         tries'[e] = tries[e], e \in rejected => e \in rejected',
         e \in failed' => e \in failed \/ step[a][e].pc = "moving"
  PROVE  CountOk(e)'
<1>1. /\ IsFiniteSet(Counting(e)') /\ Cardinality(Counting(e)) \in Nat /\ Cardinality(Counting(e)') \in Nat
      /\ Cardinality(Counting(e)') <= Cardinality(Counting(e))
  <2>1. a \in Counting(e)' => a \in Counting(e)
    BY DEF Counting
  <2> QED
    BY <2>1, CountingMoves DEF CountOk
<1>2. json[e] \in Int /\ json'[e] <= json[e] /\ tries[e] \in Nat /\ json'[e] \in Int
  BY DEF Base, Types, NoFile
<1>3. \A b \in Actors : step'[b][e].pc = "rewriting" => step'[b][e] = step[b][e] /\ step[b][e].count \in Nat
  BY DEF Base, Types, Steps
<1>4. \A s \in Scans : todo'[s][e] <= tries[e]
  BY <1>1, <1>2 DEF CountOk, Base, Types, NoFile
<1>5. \A b \in Actors : step'[b][e].pc = "moving" => e \in rejected' \/ tries[e] >= MaxRetries
  BY DEF CountOk
<1> QED
  BY <1>1, <1>2, <1>3, <1>4, <1>5 DEF CountOk

\* An actor meets a failure of e.
LEMMA CountGains ==
  ASSUME Base, NEW a \in Actors, NEW e \in Ids, CountOk(e),
         \A b \in Actors \ {a} : step'[b][e] = step[b][e],
         step[a][e].pc \notin {"failing", "rewriting"}, step'[a][e].pc = "failing",
         json'[e] = json[e], \A s \in Scans : todo'[s][e] \in {todo[s][e], NoFile},
         tries'[e] = tries[e] + 1, e \in rejected => e \in rejected', e \in failed' => e \in failed
  PROVE  CountOk(e)'
<1>1. /\ IsFiniteSet(Counting(e)') /\ Cardinality(Counting(e)) \in Nat
      /\ Cardinality(Counting(e)') = Cardinality(Counting(e)) + 1
  <2>1. a \in Counting(e)' /\ a \notin Counting(e)
    BY DEF Counting
  <2> QED
    BY <2>1, CountingMoves DEF CountOk
<1>2. json[e] \in Int /\ tries[e] \in Nat /\ MaxRetries \in Nat
  BY BoundsAssumption DEF Base, Types, NoFile
<1>3. \A b \in Actors : step'[b][e].pc = "rewriting" => step'[b][e] = step[b][e] /\ step[b][e].count \in Nat
  BY DEF Base, Types, Steps
<1>4. \A s \in Scans : todo'[s][e] <= tries'[e]
  BY <1>2 DEF CountOk, Base, Types, NoFile
<1>5. \A b \in Actors : step'[b][e].pc = "moving" => e \in rejected' \/ tries'[e] >= MaxRetries
  BY <1>2 DEF CountOk
<1> QED
  BY <1>1, <1>2, <1>3, <1>4, <1>5 DEF CountOk

\* An actor reads the retryCount of e, to write it back.
LEMMA CountReads ==
  ASSUME Base, NEW a \in Actors, NEW e \in Ids, CountOk(e),
         \A b \in Actors \ {a} : step'[b][e] = step[b][e],
         step[a][e].pc = "failing", step'[a][e] = [pc |-> "rewriting", count |-> json[e]],
         UNCHANGED <<json, todo, tries, rejected, failed>>
  PROVE  CountOk(e)'
<1>1. IsFiniteSet(Counting(e)') /\ Counting(e)' = Counting(e)
  <2>1. a \in Counting(e)' /\ a \in Counting(e)
    BY DEF Counting
  <2> QED
    BY <2>1, CountingMoves DEF CountOk
<1>2. \A b \in Actors : b # a => step'[b][e] = step[b][e]
  OBVIOUS
<1> QED
  BY <1>1, <1>2 DEF CountOk

\* It writes it back, one higher.
LEMMA CountWrites ==
  ASSUME Base, NEW a \in Actors, NEW e \in Ids, CountOk(e),
         \A b \in Actors \ {a} : step'[b][e] = step[b][e],
         step[a][e].pc = "rewriting", step'[a][e] = None,
         json'[e] = step[a][e].count + 1,
         UNCHANGED <<todo, tries, rejected, failed>>
  PROVE  CountOk(e)'
<1>0. None.pc = "none" /\ step[a][e].count \in Nat /\ tries[e] \in Nat
  BY AtIsStep DEF Base, Types, Steps
<1>1. /\ IsFiniteSet(Counting(e)') /\ Cardinality(Counting(e)) \in Nat
      /\ Cardinality(Counting(e)') = Cardinality(Counting(e)) - 1
  <2>1. a \notin Counting(e)' /\ a \in Counting(e)
    BY <1>0 DEF Counting
  <2> QED
    BY <2>1, CountingMoves DEF CountOk
<1>3. \A b \in Actors : step'[b][e].pc = "rewriting" => step'[b][e] = step[b][e] /\ step[b][e].count \in Nat
  BY <1>0 DEF Base, Types, Steps
<1>4. \A b \in Actors : step'[b][e].pc = "moving" => step'[b][e] = step[b][e]
  BY <1>0
<1> QED
  BY <1>0, <1>1, <1>3, <1>4 DEF CountOk

\* The entries an actor does not work on.
LEMMA Others ==
  ASSUME Base, Base', CountsBacked, NEW a \in Actors, NEW e \in Ids, NEW v \in Steps,
         step' = [step EXCEPT ![a][e] = v], CountOk(e)',
         \A d \in Ids : d # e => /\ json'[d] = json[d] /\ tries'[d] = tries[d]
                                 /\ \A s \in Scans : todo'[s][d] = todo[s][d]
                                 /\ d \in failed' => d \in failed,
         rejected \subseteq rejected'
  PROVE  CountsBacked'
<1>1. \A d \in Ids : d # e => \A b \in Actors : step'[b][d] = step[b][d]
  BY GoesAt DEF Base
<1>2. ASSUME NEW d \in Ids, d # e PROVE CountOk(d)'
  BY <1>1, <1>2, CountRests DEF CountsBacked
<1> QED
  BY <1>2 DEF CountsBacked

\* A failure an actor meets.
LEMMA FailureStep ==
  ASSUME Base, Base', CountsBacked, NEW a \in Actors, NEW e \in Ids,
         step[a][e].pc \notin {"failing", "rewriting"}, Goes(a, e, "failing"), Tried({e}),
         UNCHANGED <<json, failed, todo>>, rejected \subseteq rejected'
  PROVE  CountsBacked'
<1>1. At("failing") \in Steps /\ At("failing").pc = "failing"
  BY AtIsStep
<1>2. step' = [step EXCEPT ![a][e] = At("failing")]
  BY DEF Goes
<1>3. tries'[e] = tries[e] + 1 /\ \A d \in Ids : d # e => tries'[d] = tries[d]
  BY DEF Tried
<1>4. step'[a][e].pc = "failing" /\ \A b \in Actors \ {a} : step'[b][e] = step[b][e]
  BY <1>1, <1>2, GoesAt DEF Base
<1>5. CountOk(e)
  BY DEF CountsBacked
<1>6. CountOk(e)'
  BY <1>3, <1>4, <1>5, CountGains
<1> QED
  BY <1>1, <1>2, <1>3, <1>6, Others

\* Any other step of an actor that fails, reads and writes nothing.
LEMMA QuietStep ==
  ASSUME Base, Base', CountsBacked, NEW a \in Actors, NEW e \in Ids,
         NEW where \in {"none", "sending", "acking", "unlinking", "moving"}, Goes(a, e, where),
         where = "moving" => e \in rejected' \/ tries[e] >= MaxRetries,
         json' = json \/ json' = [json EXCEPT ![e] = NoFile],
         failed' = failed \/ (failed' = failed \cup {e} /\ step[a][e].pc = "moving"),
         \A s \in Scans, d \in Ids : todo'[s][d] = todo[s][d] \/ (d = e /\ todo'[s][d] = NoFile),
         tries' = tries, rejected \subseteq rejected'
  PROVE  CountsBacked'
<1>1. At(where) \in Steps /\ At(where).pc = where
  BY AtIsStep
<1>2. step' = [step EXCEPT ![a][e] = At(where)]
  BY DEF Goes
<1>3. step'[a][e].pc = where /\ \A b \in Actors \ {a} : step'[b][e] = step[b][e]
  BY <1>1, <1>2, GoesAt DEF Base
<1>4. CountOk(e) /\ json'[e] \in {json[e], NoFile} /\ \A d \in Ids : d # e => json'[d] = json[d]
  BY DEF CountsBacked, Base, Types
<1>5. CountOk(e)'
  BY <1>3, <1>4, CountRests
<1> QED
  BY <1>1, <1>2, <1>4, <1>5, Others

\* A permanent error: the entry is to be moved, and the failure is counted in tries.
LEMMA RejectedStep ==
  ASSUME Base, Base', CountsBacked, NEW a \in Actors, NEW e \in Ids,
         step' = [step EXCEPT ![a][e] = At("moving")], step[a][e].pc = "sending",
         Tried({e}), UNCHANGED <<json, failed, todo>>, rejected' = rejected \cup {e}
  PROVE  CountsBacked'
<1>1. At("moving") \in Steps /\ At("moving").pc = "moving"
  BY AtIsStep
<1>2. tries'[e] = tries[e] + 1 /\ \A d \in Ids : d # e => tries'[d] = tries[d]
  BY DEF Tried
<1>3. step'[a][e].pc = "moving" /\ \A b \in Actors \ {a} : step'[b][e] = step[b][e]
  BY <1>1, GoesAt DEF Base
<1>4. CountOk(e)
  BY DEF CountsBacked
<1>5. IsFiniteSet(Counting(e)) /\ Counting(e)' = Counting(e) /\ Cardinality(Counting(e)) \in Nat
  <2>1. a \notin Counting(e)' /\ a \notin Counting(e)
    BY <1>3 DEF Counting
  <2> QED
    BY <1>3, <1>4, <2>1, CountingMoves DEF CountOk
<1>6. /\ json[e] \in Int /\ tries[e] \in Nat /\ MaxRetries \in Nat
      /\ \A s \in Scans : todo[s][e] \in Int
      /\ \A b \in Actors : step'[b][e].pc = "rewriting" => step'[b][e] = step[b][e] /\ step[b][e].count \in Nat
  BY <1>3, BoundsAssumption DEF Base, Types, NoFile, Steps
<1>7. CountOk(e)'
  BY <1>2, <1>3, <1>4, <1>5, <1>6 DEF CountOk
<1> QED
  BY <1>1, <1>2, <1>7, Others

\* Every action is a failure, a quiet step, a read, a write or a deferral.
LEMMA CountsStep == Base /\ Base' /\ CountsBacked /\ [Next]_vars => CountsBacked'
<1> SUFFICES ASSUME Base, Base', CountsBacked, [Next]_vars PROVE CountsBacked'
  OBVIOUS
<1>1. ASSUME NEW e \in Ids, Enqueue(e) PROVE CountsBacked'
  <2>1. step' = [step EXCEPT ![Live][e] = At("sending")] /\ json' = [json EXCEPT ![e] = 0]
    BY <1>1 DEF Enqueue, Goes
  <2>2. UNCHANGED <<todo, tries, rejected, failed>>
    BY <1>1 DEF Enqueue, scanVars
  <2>3. e \notin accepted
    BY <1>1 DEF Enqueue, Ids
  <2>4. \A a \in Actors : step[a][e] = None
    BY <2>3 DEF Base, Known
  <2>5. \A a \in Actors : step'[a][e].pc \in {"none", "sending"}
    BY ActorFacts, <2>1, <2>4, AtIsStep, GoesAt DEF Base
  <2>6. Counting(e)' = {}
    BY <2>5 DEF Counting
  <2>7. json'[e] = 0 /\ tries[e] \in Nat
    BY <2>1 DEF Base, Types
  <2>8. CountOk(e)'
    BY <2>2, <2>5, <2>6, <2>7, FS_EmptySet DEF CountOk, CountsBacked
  <2> QED
    BY ActorFacts, <2>1, <2>2, <2>8, Others, AtIsStep DEF Base, Types
<1>2. ASSUME NEW a \in Actors, NEW e \in Ids, Send(a, e) PROVE CountsBacked'
  <2>1. CASE SendSucceeds(a, e)
    BY <2>1, QuietStep DEF SendSucceeds, diskVars, scanVars
  <2>2. CASE SendDismissed(a, e)
    BY <2>2, QuietStep DEF SendDismissed, diskVars, scanVars
  <2>6. CASE a = Live /\ SendTimesOut(e)
    BY <2>6, QuietStep DEF SendTimesOut, diskVars, scanVars
  <2>3. CASE MirrorThrows(a, e)
    BY <2>3, FailureStep DEF MirrorThrows, Does, diskVars, scanVars
  <2>4. CASE PayloadFails(a, e)
    <3>1. CASE a = Live /\ e \in Reported
      BY <2>4, <3>1, FailureStep DEF PayloadFails, Does, diskVars, scanVars
    <3>2. CASE ~(a = Live /\ e \in Reported)
      BY <2>4, <3>2, QuietStep DEF PayloadFails, diskVars, scanVars
    <3> QED
      BY <3>1, <3>2
  <2>5. ASSUME NEW isPermanent \in BOOLEAN, SendThrows(a, e, isPermanent) PROVE CountsBacked'
    <3>1. CASE ~(isPermanent /\ a # Live)
      BY <2>5, <3>1, FailureStep DEF SendThrows, Does, diskVars, scanVars
    <3>2. CASE isPermanent /\ a # Live
      <4>1. step' = [step EXCEPT ![a][e] = At("moving")] /\ rejected' = rejected \cup {e}
        BY <2>5, <3>2 DEF SendThrows, Goes
      <4>2. step[a][e].pc = "sending" /\ Tried({e}) /\ UNCHANGED <<json, failed, todo>>
        BY <2>5 DEF SendThrows, Does, diskVars, scanVars
      <4> QED
        BY <4>1, <4>2, RejectedStep
    <3> QED
      BY <3>1, <3>2
  <2> QED
    BY <1>2, <2>1, <2>2, <2>3, <2>4, <2>5, <2>6 DEF Send
<1>3. ASSUME NEW a \in Actors, NEW e \in Ids, Settle(a, e) PROVE CountsBacked'
  <2>1. CASE AckRename(a, e)
    BY <2>1, QuietStep DEF AckRename, scanVars, historyVars
  <2>2. CASE AckFails(a, e)
    <3>1. CASE a = Live
      BY <2>2, <3>1, QuietStep DEF AckFails, diskVars, scanVars
    <3>2. CASE a # Live
      BY <2>2, <3>2, FailureStep DEF AckFails, Does, diskVars, scanVars
    <3> QED
      BY <3>1, <3>2
  <2>3. CASE AckUnlink(a, e)
    BY <2>3, QuietStep DEF AckUnlink, scanVars, historyVars
  <2>4. CASE FailRead(a, e)
    <3>1. CASE json[e] = NoFile
      <4>1. Goes(a, e, "none")
        BY <2>4, <3>1, AtIsStep DEF FailRead, Goes
      <4> QED
        BY <2>4, <4>1, QuietStep DEF FailRead, diskVars, scanVars, historyVars
    <3>2. CASE json[e] # NoFile
      <4> DEFINE v == [pc |-> "rewriting", count |-> json[e]]
      <4>1. v \in Steps
        BY <3>2 DEF Base, Types, Steps
      <4>2. step' = [step EXCEPT ![a][e] = v] /\ step[a][e].pc = "failing"
        BY <2>4, <3>2 DEF FailRead, Does
      <4>3. UNCHANGED <<json, todo, tries, rejected, failed>>
        BY <2>4 DEF FailRead, diskVars, scanVars, historyVars
      <4>4. step'[a][e] = v /\ \A b \in Actors \ {a} : step'[b][e] = step[b][e]
        BY <4>1, <4>2, GoesAt DEF Base
      <4>5. CountOk(e)'
        BY <4>2, <4>3, <4>4, CountReads DEF CountsBacked
      <4> QED
        BY <4>1, <4>2, <4>3, <4>5, Others
    <3> QED
      BY <3>1, <3>2
  <2>5. CASE FailWrite(a, e)
    <3>1. None \in Steps /\ At("none") = None
      BY AtIsStep
    <3>2. step' = [step EXCEPT ![a][e] = None] /\ step[a][e].pc = "rewriting"
      BY <2>5, <3>1 DEF FailWrite, Does, Goes
    <3>3. json' = [json EXCEPT ![e] = step[a][e].count + 1] /\ UNCHANGED <<todo, tries, rejected, failed>>
      BY <2>5 DEF FailWrite, scanVars, historyVars
    <3>4. step'[a][e] = None /\ \A b \in Actors \ {a} : step'[b][e] = step[b][e]
      BY <3>1, <3>2, GoesAt DEF Base
    <3>5. json'[e] = step[a][e].count + 1 /\ \A d \in Ids : d # e => json'[d] = json[d]
      BY <3>3 DEF Base, Types
    <3>6. CountOk(e)'
      BY <3>2, <3>3, <3>4, <3>5, CountWrites DEF CountsBacked
    <3> QED
      BY <3>1, <3>2, <3>3, <3>5, <3>6, Others
  <2>6. CASE MoveToFailed(a, e)
    BY <2>6, QuietStep DEF MoveToFailed, Does, scanVars, historyVars
  <2> QED
    BY <1>3, <2>1, <2>2, <2>3, <2>4, <2>5, <2>6 DEF Settle
<1>4. ASSUME NEW s \in Scans, Recover(s) PROVE CountsBacked'
  <2>1. CASE ScanStarts(s)
    <3>1. UNCHANGED <<json, step, todo, tries, rejected, failed>>
      BY <2>1 DEF ScanStarts, historyVars
    <3> QED
      BY <3>1 DEF CountsBacked, CountOk, Counting
  <2>2. CASE DeferRemaining(s)
    <3> SUFFICES ASSUME NEW e \in Ids PROVE CountOk(e)'
      BY DEF CountsBacked
    <3>1. \A b \in Actors \ {s} : step'[b][e] = step[b][e]
      BY <2>2 DEF DeferRemaining, Base, Types
    <3>2. step[s][e] = None
      BY <2>2 DEF DeferRemaining, Turn, Idle
    <3>3. UNCHANGED <<json, rejected, failed>> /\ \A t \in Scans : todo'[t][e] \in {todo[t][e], NoFile}
      BY <2>2 DEF DeferRemaining, Nothing, diskVars, Base, Types
    <3>4. step'[s][e] = IF e \in Todo(s) THEN At("failing") ELSE None
      BY ActorFacts, <2>2 DEF DeferRemaining, Base, Types
    <3>5. tries'[e] = IF e \in Todo(s) THEN tries[e] + 1 ELSE tries[e]
      BY <2>2 DEF DeferRemaining, Tried
    <3>6. CountOk(e) /\ At("failing").pc = "failing"
      BY AtIsStep DEF CountsBacked
    <3>7. CASE e \in Todo(s)
      BY ActorFacts, <3>1, <3>2, <3>3, <3>4, <3>5, <3>6, <3>7, CountGains
    <3>8. CASE e \notin Todo(s)
      BY ActorFacts, <3>1, <3>2, <3>3, <3>4, <3>5, <3>6, <3>8, CountRests
    <3> QED
      BY <3>7, <3>8
  <2>3. ASSUME NEW e \in Ids, ScanReads(s, e) PROVE CountsBacked'
    <3> SUFFICES ASSUME NEW d \in Ids PROVE CountOk(d)'
      BY DEF CountsBacked
    <3>1. UNCHANGED <<json, step, tries, rejected, failed>>
      BY <2>3 DEF ScanReads, diskVars
    <3>2. \A t \in Scans : todo'[t][d] \in {todo[t][d], json[d]}
      BY <2>3 DEF ScanReads, Base, Types
    <3> QED
      BY ActorFacts, <3>1, <3>2, CountRests DEF CountsBacked
  <2>4. ASSUME NEW e \in Ids, NEW where \in {"none", "sending", "moving"}, Turn(s, e), Handles(s, e, where),
               where = "moving" => todo[s][e] >= MaxRetries
        PROVE  CountsBacked'
    <3>1. UNCHANGED <<json, failed, tries, rejected>> /\ Goes(s, e, where)
      BY <2>4 DEF Handles, diskVars, historyVars
    <3>2. \A t \in Scans, d \in Ids : todo'[t][d] = todo[t][d] \/ (d = e /\ todo'[t][d] = NoFile)
      BY <2>4 DEF Handles, Base, Types
    <3>3. todo[s][e] \in Int /\ tries[e] \in Nat /\ todo[s][e] <= tries[e] /\ MaxRetries \in Nat
      BY BoundsAssumption DEF CountsBacked, CountOk, Base, Types, NoFile
    <3>4. where = "moving" => tries[e] >= MaxRetries
      BY <2>4, <3>3
    <3> QED
      BY ActorFacts, <3>1, <3>2, <3>4, QuietStep
  <2> QED
    BY <1>4, <2>1, <2>2, <2>3, <2>4 DEF Recover, GiveUp, BackOff, Replay
<1>5. CASE Crash
  <2> SUFFICES ASSUME NEW e \in Ids PROVE CountOk(e)'
    BY DEF CountsBacked
  <2>1. \A a \in Actors : step'[a][e] = None
    BY <1>5 DEF Crash, Idle
  <2>2. UNCHANGED <<json, tries, rejected, failed>> /\ \A s \in Scans : todo'[s][e] = NoFile
    BY <1>5 DEF Crash, Nothing, diskVars
  <2>3. Counting(e)' = {} /\ Cardinality(Counting(e)) \in Nat
    BY ActorFacts, <2>1, FS_CardinalityType DEF Counting, CountsBacked, CountOk
  <2>4. json[e] \in Int /\ tries[e] \in Nat /\ NoFile = -1 /\ CountOk(e)
    BY DEF Base, Types, NoFile, CountsBacked
  <2> QED
    BY ActorFacts, <2>1, <2>2, <2>3, <2>4, FS_EmptySet DEF CountOk
<1>6. CASE UNCHANGED vars
  <2>1. UNCHANGED <<json, step, todo, tries, rejected, failed>>
    BY <1>6 DEF vars, diskVars, scanVars, historyVars
  <2> QED
    BY <2>1 DEF CountsBacked, CountOk, Counting
<1> QED
  BY <1>1, <1>2, <1>3, <1>4, <1>5, <1>6 DEF Next

-----------------------------------------------------------------------------
(* The theorems. *)

IInv == Base /\ Keeping /\ SentIsSettled /\ CountsBacked

\* Nothing is accepted, sent or counted yet.
LEMMA InitIInv == Init => IInv
<1> SUFFICES ASSUME Init PROVE IInv
  OBVIOUS
<1>1. Base
  BY InitBase
<1>2. \A a \in Actors, e \in Ids : step[a][e] = None /\ None.pc = "none"
  BY AtIsStep DEF Init, Idle
<1>3. Keeping
  BY <1>2 DEF Init, Keeping, AckedForCause, StrictNeverLost
<1>4. SentIsSettled
  BY DEF Init, SentIsSettled
<1>5. ASSUME NEW e \in Ids PROVE CountOk(e)
  <2>1. Counting(e) = {}
    BY <1>2 DEF Counting
  <2>2. /\ tries[e] = 0 /\ failed = {} /\ json[e] = -1
        /\ \A s \in Scans : todo[s][e] = -1
    BY DEF Init, Nothing, NoFile
  <2> QED
    BY <1>2, <2>1, <2>2, FS_EmptySet DEF CountOk
<1> QED
  BY <1>1, <1>3, <1>4, <1>5 DEF IInv, CountsBacked

\* The inductive invariant: in every reachable state an acknowledgement on its way
\* has its reason, what was sent is in good hands, and every count has its failures.
THEOREM Inductive == Spec => []IInv
<1>1. Init => IInv
  BY InitIInv
<1>2. IInv /\ [Next]_vars => IInv'
  BY BaseStep, KeepingStep, SettledStep, CountsStep DEF IInv
<1> QED
  BY <1>1, <1>2, PTL DEF Spec

\* No crash, failing rename or race of scans and deliverers (deliver.ts, recovery and
\* storage of the delivery queue) loses a message that is not best-effort: only an
\* AbortError of its own first send, the caller's or the transport's, gives it up.
THEOREM StrictKept == Spec => []StrictNeverLost
<1>1. IInv => StrictNeverLost
  BY DEF IInv, Keeping
<1> QED
  BY <1>1, Inductive, PTL

\* An entry reaches failed/ only after a permanent error or MAX_RETRIES failures and
\* deferrals, and its retryCount never exceeds them, although failDelivery reads and
\* writes the file without a lock.
THEOREM GivenUpOnlyForCause == Spec => []GivenUpForCause
<1>1. IInv => GivenUpForCause
  <2> SUFFICES ASSUME IInv, NEW e \in Ids
               PROVE  /\ e \in failed => e \in rejected \/ tries[e] >= MaxRetries
                      /\ json[e] <= tries[e]
    BY DEF GivenUpForCause
  <2>1. CountOk(e) /\ json[e] \in Int /\ tries[e] \in Nat
    BY DEF IInv, CountsBacked, Base, Types, NoFile
  <2>2. Cardinality(Counting(e)) \in Nat
    BY <2>1, FS_CardinalityType DEF CountOk
  <2> QED
    BY <2>1, <2>2 DEF CountOk
<1> QED
  BY <1>1, Inductive, PTL

\* A message whose payloads were all sent is sent again only in the windows that
\* torn lists: recoverPendingDeliveries never meets another marked or settled entry.
THEOREM OnlyTornReplays == Spec => NoReplay
<1>1. IInv /\ [Next]_vars => [ReplayBegins]_vars
  BY ReplayStep DEF IInv
<1> QED
  BY <1>1, Inductive, PTL DEF Spec, NoReplay

-----------------------------------------------------------------------------
(* How high a retryCount gets. *)

\* The actors that may yet raise the retryCount of e by one: those that send it or
\* count its failure, and the scans that have it before them.
MayCount(a, e) ==
  \/ step[a][e].pc \in {"sending", "acking", "failing", "rewriting"}
  \/ a \in Scans /\ (e \in files[a] \/ todo[a][e] # NoFile)

Chances(e) == {a \in Actors : MayCount(a, e)}

\* Each scan raises it once at most, and so does the deliverer of the caller.
BoundOk(e) ==
  e \in accepted =>
    /\ IsFiniteSet(Chances(e))
    /\ json[e] + Cardinality(Chances(e)) <= scans + 1
    /\ \A a \in Actors : step[a][e].pc = "rewriting" =>
         step[a][e].count + Cardinality(Chances(e)) <= scans + 1

CountsBounded == \A e \in Ids : BoundOk(e)

\* The rest of the types.
Bounds ==
  /\ marker \in SUBSET Ids /\ failed \in SUBSET Ids
  /\ scans \in 0..MaxScans /\ crashes \in 0..MaxCrashes /\ ioErrors \in 0..MaxIoErrors
  /\ accepted \in SUBSET Ids /\ sent \in SUBSET Ids /\ dismissed \in SUBSET Ids
  /\ timedOut \in SUBSET Ids /\ rejected \in SUBSET Ids /\ torn \in SUBSET Ids

LEMMA BoundsStep == Bounds /\ [Next]_vars => Bounds'
<1> SUFFICES ASSUME Bounds, [Next]_vars PROVE Bounds'
  OBVIOUS
<1> USE BoundsAssumption DEF Bounds
<1>1. ASSUME NEW e \in Ids, Enqueue(e) PROVE Bounds'
  BY <1>1 DEF Enqueue, boundVars
<1>2. ASSUME NEW a \in Actors, NEW e \in Ids, Send(a, e) PROVE Bounds'
  <2>1. CASE SendSucceeds(a, e)
    BY <2>1 DEF SendSucceeds, diskVars, boundVars
  <2>2. CASE SendDismissed(a, e)
    BY <2>2 DEF SendDismissed, diskVars, boundVars
  <2>6. CASE a = Live /\ SendTimesOut(e)
    BY <2>6 DEF SendTimesOut, diskVars, boundVars
  <2>3. CASE MirrorThrows(a, e)
    BY <2>3 DEF MirrorThrows, diskVars, boundVars
  <2>4. CASE PayloadFails(a, e)
    BY <2>4 DEF PayloadFails, diskVars, boundVars
  <2>5. ASSUME NEW isPermanent \in BOOLEAN, SendThrows(a, e, isPermanent) PROVE Bounds'
    BY <2>5 DEF SendThrows, diskVars, boundVars
  <2> QED
    BY <1>2, <2>1, <2>2, <2>3, <2>4, <2>5, <2>6 DEF Send
<1>3. ASSUME NEW a \in Actors, NEW e \in Ids, Settle(a, e) PROVE Bounds'
  <2>1. CASE AckRename(a, e)
    BY <2>1 DEF AckRename, boundVars, historyVars
  <2>2. CASE AckFails(a, e)
    BY <2>2 DEF AckFails, diskVars
  <2>3. CASE AckUnlink(a, e) \/ FailWrite(a, e)
    BY <2>3 DEF AckUnlink, FailWrite, boundVars, historyVars
  <2>4. CASE FailRead(a, e)
    BY <2>4 DEF FailRead, diskVars, boundVars, historyVars
  <2>5. CASE MoveToFailed(a, e)
    BY <2>5 DEF MoveToFailed, boundVars, historyVars
  <2> QED
    BY <1>3, <2>1, <2>2, <2>3, <2>4, <2>5 DEF Settle
<1>4. ASSUME NEW s \in Scans, Recover(s) PROVE Bounds'
  <2>1. CASE ScanStarts(s)
    BY <2>1 DEF ScanStarts, historyVars
  <2>2. CASE DeferRemaining(s)
    BY <2>2 DEF DeferRemaining, diskVars, boundVars
  <2>3. ASSUME NEW e \in Ids, ScanReads(s, e) PROVE Bounds'
    BY <2>3 DEF ScanReads, diskVars, boundVars
  <2>4. ASSUME NEW e \in Ids, GiveUp(s, e) \/ BackOff(s, e) \/ Replay(s, e) PROVE Bounds'
    BY <2>4 DEF GiveUp, BackOff, Replay, Handles, diskVars, boundVars, historyVars
  <2> QED
    BY <1>4, <2>1, <2>2, <2>3, <2>4 DEF Recover
<1>5. CASE Crash
  BY <1>5 DEF Crash, diskVars
<1>6. CASE UNCHANGED vars
  BY <1>6 DEF vars, diskVars, boundVars, historyVars
<1> QED
  BY <1>1, <1>2, <1>3, <1>4, <1>5, <1>6 DEF Next

\* No actor gains a chance, and nothing is written but that a file may go.
LEMMA BoundRests ==
  ASSUME Base, Base', Bounds, NEW e \in Ids, BoundOk(e),
         \A a \in Actors : MayCount(a, e)' => MayCount(a, e),
         json'[e] \in {json[e], NoFile},
         \A a \in Actors : step'[a][e].pc = "rewriting" =>
           step'[a][e] = step[a][e] \/ step'[a][e].count = json[e],
         e \in accepted' => e \in accepted, scans' = scans
  PROVE  BoundOk(e)'
<1> SUFFICES ASSUME e \in accepted' PROVE BoundOk(e)'
  BY DEF BoundOk
<1>1. /\ IsFiniteSet(Chances(e)) /\ json[e] + Cardinality(Chances(e)) <= scans + 1
      /\ \A a \in Actors : step[a][e].pc = "rewriting" =>
           step[a][e].count + Cardinality(Chances(e)) <= scans + 1
  BY DEF BoundOk
<1>2. Chances(e)' \subseteq Chances(e)
  BY DEF Chances
<1>3. /\ IsFiniteSet(Chances(e)') /\ Cardinality(Chances(e)') <= Cardinality(Chances(e))
      /\ Cardinality(Chances(e)') \in Nat /\ Cardinality(Chances(e)) \in Nat
  BY <1>1, <1>2, FS_Subset, FS_CardinalityType
<1>4. json[e] \in Int /\ json'[e] \in Int /\ json'[e] <= json[e] /\ scans \in Nat
  BY BoundsAssumption DEF Base, Types, NoFile, Bounds
<1>5. \A a \in Actors : step[a][e].count \in Nat /\ step'[a][e].count \in Nat
  BY DEF Base, Types, Steps
<1>6. json'[e] + Cardinality(Chances(e)') <= scans' + 1
  BY <1>1, <1>3, <1>4
<1>7. ASSUME NEW a \in Actors, step'[a][e].pc = "rewriting"
      PROVE  step'[a][e].count + Cardinality(Chances(e)') <= scans' + 1
  <2>1. step'[a][e].count + Cardinality(Chances(e)) <= scans + 1
    <3>1. CASE step'[a][e] = step[a][e]
      BY <1>1, <1>7, <3>1
    <3>2. CASE step'[a][e].count = json[e]
      BY <1>1, <3>2
    <3> QED
      BY <1>7, <3>1, <3>2
  <2> QED
    BY <1>3, <1>4, <1>5, <2>1
<1> QED
  BY <1>3, <1>6, <1>7 DEF BoundOk

\* A step of one actor with one entry that raises nothing.
LEMMA ActorBound ==
  ASSUME Base, Base', Bounds, CountsBounded, NEW a \in Actors, NEW e \in Ids, NEW v \in Steps,
         step' = [step EXCEPT ![a][e] = v],
         MayCount(a, e) \/ v.pc \in {"none", "unlinking", "moving"},
         v.pc = "rewriting" => v.count = json[e],
         \A s \in Scans, d \in Ids : todo'[s][d] \in {todo[s][d], NoFile},
         \A d \in Ids : json'[d] \in {json[d], NoFile},
         UNCHANGED <<files, accepted, scans>>
  PROVE  CountsBounded'
<1> SUFFICES ASSUME NEW d \in Ids PROVE BoundOk(d)'
  BY DEF CountsBounded
<1>0. Types
  BY DEF Base
<1>1. step'[a][e] = v /\ \A b \in Actors, c \in Ids : b # a \/ c # e => step'[b][c] = step[b][c]
  BY <1>0 DEF Types
<1>2. \A b \in Actors : MayCount(b, d)' => MayCount(b, d)
  <2> SUFFICES ASSUME NEW b \in Actors, MayCount(b, d)' PROVE MayCount(b, d)
    OBVIOUS
  <2>1. CASE b = a /\ d = e
    BY <1>1, <2>1 DEF MayCount
  <2>2. CASE b # a \/ d # e
    BY <1>1, <2>2 DEF MayCount
  <2> QED
    BY <2>1, <2>2
<1>3. \A b \in Actors : step'[b][d].pc = "rewriting" =>
        step'[b][d] = step[b][d] \/ step'[b][d].count = json[d]
  BY <1>1
<1>4. BoundOk(d) /\ json'[d] \in {json[d], NoFile}
  BY DEF CountsBounded
<1> QED
  BY <1>2, <1>3, <1>4, BoundRests

LEMMA WriteBound ==
  ASSUME Base, Base', Bounds, CountsBounded, NEW a \in Actors, NEW e \in Ids, FailWrite(a, e)
  PROVE  CountsBounded'
<1>0. None \in Steps /\ None.pc = "none" /\ At("none") = None
  BY AtIsStep
<1>1. /\ step[a][e].pc = "rewriting" /\ step' = [step EXCEPT ![a][e] = None]
      /\ json' = [json EXCEPT ![e] = step[a][e].count + 1]
      /\ UNCHANGED <<files, todo, accepted, scans>>
  BY <1>0 DEF FailWrite, Does, Goes, scanVars, boundVars, historyVars
<1>5. Types
  BY DEF Base
<1>2. step'[a][e] = None /\ \A b \in Actors, c \in Ids : b # a \/ c # e => step'[b][c] = step[b][c]
  BY <1>1, <1>5 DEF Types
<1>3. ASSUME NEW d \in Ids, d # e PROVE BoundOk(d)'
  <2>1. json'[d] = json[d]
    BY <1>1, <1>3 DEF Base, Types
  <2>2. \A b \in Actors : MayCount(b, d)' => MayCount(b, d)
    BY <1>1, <1>2, <1>3 DEF MayCount
  <2>3. BoundOk(d) /\ \A b \in Actors : step'[b][d] = step[b][d]
    BY <1>2, <1>3 DEF CountsBounded
  <2> QED
    BY <1>1, <2>1, <2>2, <2>3, BoundRests
<1>4. BoundOk(e)'
  <2> DEFINE C == Chances(e)
             D == Chances(e)'
  <2>1. e \in accepted
    BY <1>0, <1>1 DEF Base, Known
  <2>2. /\ IsFiniteSet(C)
        /\ \A b \in Actors : step[b][e].pc = "rewriting" =>
             step[b][e].count + Cardinality(C) <= scans + 1
    BY <2>1 DEF CountsBounded, BoundOk
  <2>3. a \in C
    BY <1>1 DEF Chances, MayCount
  <2>4. D = C \ {a}
    <3>1. ~MayCount(a, e)'
      BY <1>0, <1>1, <1>2 DEF MayCount, Base, Known
    <3>2. \A b \in Actors : b # a => (MayCount(b, e)' <=> MayCount(b, e))
      BY <1>1, <1>2 DEF MayCount
    <3> QED
      BY <3>1, <3>2 DEF Chances
  <2> HIDE DEF C, D
  <2>5. /\ IsFiniteSet(D) /\ Cardinality(D) = Cardinality(C) - 1
        /\ Cardinality(C) \in Nat /\ Cardinality(D) \in Nat
    BY <2>2, <2>3, <2>4, FS_RemoveElement, FS_CardinalityType
  <2>6. \A b \in Actors : step[b][e].count \in Nat
    BY DEF Base, Types, Steps
  <2>7. json'[e] = step[a][e].count + 1 /\ scans \in Nat
    BY <1>1 DEF Base, Types, Bounds
  <2>8. json'[e] + Cardinality(D) <= scans' + 1
    BY <1>1, <2>2, <2>5, <2>6, <2>7
  <2>9. \A b \in Actors : step'[b][e].pc = "rewriting" =>
          step'[b][e].count + Cardinality(D) <= scans' + 1
    BY <1>0, <1>1, <1>2, <2>2, <2>5, <2>6, <2>7
  <2> QED
    BY <2>5, <2>8, <2>9 DEF BoundOk, D
<1> QED
  BY <1>3, <1>4 DEF CountsBounded

\* A scan that starts lists every entry, and so has one chance with each.
LEMMA StartBound ==
  ASSUME Base, Base', Bounds, CountsBounded, NEW s \in Scans, ScanStarts(s)
  PROVE  CountsBounded'
<1> SUFFICES ASSUME NEW e \in Ids, e \in accepted' PROVE BoundOk(e)'
  BY DEF CountsBounded, BoundOk
<1>1. /\ files' = [files EXCEPT ![s] = {d \in Ids : json[d] # NoFile}]
      /\ scans' = scans + 1 /\ UNCHANGED <<json, step, todo, accepted>>
  BY DEF ScanStarts, historyVars
<1> DEFINE C == Chances(e)
           D == Chances(e)'
<1>2. /\ IsFiniteSet(C) /\ json[e] + Cardinality(C) <= scans + 1
      /\ \A a \in Actors : step[a][e].pc = "rewriting" => step[a][e].count + Cardinality(C) <= scans + 1
  BY <1>1 DEF CountsBounded, BoundOk
<1>3. D \subseteq C \cup {s}
  <2>1. \A a \in Actors : a # s => (MayCount(a, e)' <=> MayCount(a, e))
    BY <1>1 DEF MayCount, Base, Types
  <2> QED
    BY <2>1 DEF Chances
<1> HIDE DEF C, D
<1>4. /\ IsFiniteSet(C \cup {s}) /\ Cardinality(C \cup {s}) <= Cardinality(C) + 1
      /\ Cardinality(C) \in Nat /\ Cardinality(C \cup {s}) \in Nat
  <2>1. IsFiniteSet(C \cup {s})
    BY <1>2, FS_AddElement
  <2>2. Cardinality(C \cup {s}) = IF s \in C THEN Cardinality(C) ELSE Cardinality(C) + 1
    BY <1>2, FS_AddElement
  <2> QED
    BY <1>2, <2>1, <2>2, FS_CardinalityType
<1>5. IsFiniteSet(D) /\ Cardinality(D) <= Cardinality(C \cup {s}) /\ Cardinality(D) \in Nat
  BY <1>3, <1>4, FS_Subset, FS_CardinalityType
<1>6. json[e] \in Int /\ scans \in Nat /\ \A a \in Actors : step[a][e].count \in Nat
  BY DEF Base, Types, NoFile, Steps, Bounds
<1>7. json'[e] + Cardinality(D) <= scans' + 1
  BY <1>1, <1>2, <1>4, <1>5, <1>6
<1>8. \A a \in Actors : step'[a][e].pc = "rewriting" => step'[a][e].count + Cardinality(D) <= scans' + 1
  BY <1>1, <1>2, <1>4, <1>5, <1>6
<1> QED
  BY <1>5, <1>7, <1>8 DEF BoundOk, D

\* A new entry is in the hands of its deliverer alone.
LEMMA EnqueueBound ==
  ASSUME Base, Base', Bounds, CountsBounded, NEW e \in Ids, Enqueue(e)
  PROVE  CountsBounded'
<1>1. step' = [step EXCEPT ![Live][e] = At("sending")] /\ json' = [json EXCEPT ![e] = 0]
  BY DEF Enqueue, Goes
<1>2. UNCHANGED <<files, todo, scans>> /\ accepted' = accepted \cup {e} /\ e \notin accepted
  BY DEF Enqueue, scanVars, boundVars, Ids
<1>3. \A b \in Actors, d \in Ids : b # Live \/ d # e => step'[b][d] = step[b][d]
  BY ActorFacts, <1>1, GoesAt DEF Base
<1>4. ASSUME NEW d \in Ids, d # e PROVE BoundOk(d)'
  <2>1. json'[d] = json[d] /\ \A b \in Actors : step'[b][d] = step[b][d]
    BY <1>1, <1>3, <1>4 DEF Base, Types
  <2>2. \A b \in Actors : MayCount(b, d)' => MayCount(b, d)
    BY <1>2, <2>1 DEF MayCount
  <2>3. BoundOk(d)
    BY DEF CountsBounded
  <2> QED
    BY <1>2, <1>4, <2>1, <2>2, <2>3, BoundRests
<1>5. BoundOk(e)'
  <2>1. \A b \in Actors : step[b][e] = None /\ (b \in Scans => e \notin files[b] /\ todo[b][e] = NoFile)
    BY <1>2 DEF Base, Known
  <2>2. \A b \in Actors : b # Live => ~MayCount(b, e)'
    BY ActorFacts, <1>2, <1>3, <2>1 DEF MayCount
  <2>3. Chances(e)' \subseteq {Live}
    BY <2>2 DEF Chances
  <2>4. IsFiniteSet({Live}) /\ Cardinality({Live}) = 1
    BY FS_Singleton
  <2>5. IsFiniteSet(Chances(e)') /\ Cardinality(Chances(e)') <= 1 /\ Cardinality(Chances(e)') \in Nat
    BY <2>3, <2>4, FS_Subset, FS_CardinalityType
  <2>6. json'[e] = 0 /\ scans \in Nat
    BY <1>1 DEF Base, Types, Bounds
  <2>7. \A b \in Actors : step'[b][e].pc # "rewriting"
    <3>1. step'[Live][e] = At("sending")
      BY ActorFacts, <1>1 DEF Base, Types
    <3> QED
      BY ActorFacts, <1>3, <2>1, <3>1
  <2>8. json'[e] + Cardinality(Chances(e)') <= scans' + 1
    BY <1>2, <2>5, <2>6
  <2> QED
    BY <2>5, <2>7, <2>8 DEF BoundOk
<1> QED
  BY <1>4, <1>5 DEF CountsBounded

\* A step that leaves every actor where it was, or with nothing.
LEMMA StillBound ==
  ASSUME Base, Base', Bounds, CountsBounded, UNCHANGED <<json, accepted, scans>>,
         \A a \in Actors, e \in Ids : MayCount(a, e)' => MayCount(a, e),
         \A a \in Actors, e \in Ids : step'[a][e].pc = "rewriting" => step'[a][e] = step[a][e]
  PROVE  CountsBounded'
<1> SUFFICES ASSUME NEW e \in Ids PROVE BoundOk(e)'
  BY DEF CountsBounded
<1>1. BoundOk(e)
  BY DEF CountsBounded
<1> QED
  BY <1>1, BoundRests

\* Only a send and the failure that follows it keep a chance, and a write uses it.
LEMMA BoundedStep == Base /\ Base' /\ Bounds /\ CountsBounded /\ [Next]_vars => CountsBounded'
<1> SUFFICES ASSUME Base, Base', Bounds, CountsBounded, [Next]_vars PROVE CountsBounded'
  OBVIOUS
<1>0. ASSUME NEW a \in Actors, NEW e \in Ids,
             NEW w \in {"none", "sending", "acking", "unlinking", "failing", "moving"}, Goes(a, e, w),
             MayCount(a, e) \/ w \in {"none", "unlinking", "moving"},
             \A s \in Scans, d \in Ids : todo'[s][d] \in {todo[s][d], NoFile},
             json' = json \/ json' = [json EXCEPT ![e] = NoFile],
             UNCHANGED <<files, accepted, scans>>
      PROVE  CountsBounded'
  <2>1. At(w) \in Steps /\ At(w).pc = w /\ step' = [step EXCEPT ![a][e] = At(w)]
    BY <1>0, AtIsStep DEF Goes
  <2>2. \A d \in Ids : json'[d] \in {json[d], NoFile}
    BY <1>0 DEF Base, Types
  <2> QED
    BY <1>0, <2>1, <2>2, ActorBound
<1>1. ASSUME NEW e \in Ids, Enqueue(e) PROVE CountsBounded'
  BY <1>1, EnqueueBound
<1>2. ASSUME NEW a \in Actors, NEW e \in Ids, Send(a, e) PROVE CountsBounded'
  <2>1. /\ UNCHANGED <<json, files, todo, accepted, scans>> /\ step[a][e].pc = "sending"
        /\ Goes(a, e, "acking") \/ Goes(a, e, "failing") \/ Goes(a, e, "moving")
    <3>1. CASE SendSucceeds(a, e) \/ SendDismissed(a, e) \/ (a = Live /\ SendTimesOut(e))
      BY <3>1 DEF SendSucceeds, SendDismissed, SendTimesOut, Does, diskVars, scanVars, boundVars
    <3>2. CASE MirrorThrows(a, e) \/ PayloadFails(a, e)
      BY <3>2 DEF MirrorThrows, PayloadFails, Does, diskVars, scanVars, boundVars
    <3>3. ASSUME NEW isPermanent \in BOOLEAN, SendThrows(a, e, isPermanent)
          PROVE  /\ UNCHANGED <<json, files, todo, accepted, scans>> /\ step[a][e].pc = "sending"
                 /\ Goes(a, e, "acking") \/ Goes(a, e, "failing") \/ Goes(a, e, "moving")
      BY <3>3 DEF SendThrows, Does, diskVars, scanVars, boundVars
    <3> QED
      BY <1>2, <3>1, <3>2, <3>3 DEF Send
  <2>2. MayCount(a, e)
    BY <2>1 DEF MayCount
  <2> QED
    BY <1>0, <2>1, <2>2
<1>3. ASSUME NEW a \in Actors, NEW e \in Ids, Settle(a, e) PROVE CountsBounded'
  <2>1. CASE AckRename(a, e)
    BY <1>0, <2>1 DEF AckRename, scanVars, boundVars, historyVars
  <2>2. CASE AckFails(a, e)
    <3>1. MayCount(a, e) /\ UNCHANGED <<json, files, todo, accepted, scans>>
      BY <2>2 DEF AckFails, Does, MayCount, diskVars, scanVars
    <3>2. Goes(a, e, "none") \/ Goes(a, e, "failing")
      BY <2>2 DEF AckFails
    <3> QED
      BY <1>0, <3>1, <3>2
  <2>3. CASE AckUnlink(a, e)
    BY <1>0, <2>3 DEF AckUnlink, scanVars, boundVars, historyVars
  <2>4. CASE FailRead(a, e)
    <3> DEFINE v == IF json[e] = NoFile THEN None ELSE [pc |-> "rewriting", count |-> json[e]]
    <3>1. v \in Steps /\ (v.pc = "rewriting" => v.count = json[e])
      BY ActorFacts DEF Base, Types, Steps
    <3>2. /\ step' = [step EXCEPT ![a][e] = v] /\ step[a][e].pc = "failing"
          /\ UNCHANGED <<json, files, todo, accepted, scans>>
      BY <2>4 DEF FailRead, Does, diskVars, scanVars, boundVars, historyVars
    <3> HIDE DEF v
    <3>3. MayCount(a, e)
      BY <3>2 DEF MayCount
    <3> QED
      BY <3>1, <3>2, <3>3, ActorBound
  <2>5. CASE FailWrite(a, e)
    BY <2>5, WriteBound
  <2>6. CASE MoveToFailed(a, e)
    BY <1>0, <2>6 DEF MoveToFailed, scanVars, boundVars, historyVars
  <2> QED
    BY <1>3, <2>1, <2>2, <2>3, <2>4, <2>5, <2>6 DEF Settle
<1>4. ASSUME NEW s \in Scans, Recover(s) PROVE CountsBounded'
  <2>1. CASE ScanStarts(s)
    BY <2>1, StartBound
  <2>2. CASE DeferRemaining(s)
    <3>1. \A b \in Actors, e \in Ids : b # s => step'[b][e] = step[b][e]
      BY <2>2 DEF DeferRemaining, Base, Types
    <3>2. \A e \in Ids : step'[s][e] = IF e \in Todo(s) THEN At("failing") ELSE None
      BY ActorFacts, <2>2 DEF DeferRemaining, Base, Types
    <3>3. \A t \in Scans, e \in Ids : todo'[t][e] \in {todo[t][e], NoFile}
      BY <2>2 DEF DeferRemaining, Nothing, Base, Types
    <3>4. UNCHANGED <<json, files, accepted, scans>>
      BY <2>2 DEF DeferRemaining, diskVars, boundVars
    <3>5. \A e \in Ids : e \in Todo(s) => MayCount(s, e)
      BY DEF MayCount, Todo
    <3>6. \A a \in Actors, e \in Ids : MayCount(a, e)' => MayCount(a, e)
      <4> SUFFICES ASSUME NEW a \in Actors, NEW e \in Ids, MayCount(a, e)' PROVE MayCount(a, e)
        OBVIOUS
      <4>1. CASE a # s
        BY <3>1, <3>3, <3>4, <4>1 DEF MayCount
      <4>2. CASE a = s
        BY ActorFacts, <3>2, <3>3, <3>4, <3>5, <4>2 DEF MayCount
      <4> QED
        BY <4>1, <4>2
    <3>7. \A a \in Actors, e \in Ids : step'[a][e].pc = "rewriting" => step'[a][e] = step[a][e]
      BY ActorFacts, <3>1, <3>2
    <3> QED
      BY <3>4, <3>6, <3>7, StillBound
  <2>3. ASSUME NEW e \in Ids, ScanReads(s, e) PROVE CountsBounded'
    <3>1. /\ UNCHANGED <<json, step, accepted, scans>> /\ e \in files[s]
          /\ files' = [files EXCEPT ![s] = @ \ {e}]
          /\ todo' = [todo EXCEPT ![s][e] = json[e]]
      BY <2>3 DEF ScanReads, diskVars, boundVars
    <3>2. \A a \in Actors, d \in Ids : MayCount(a, d)' => MayCount(a, d)
      BY <3>1 DEF MayCount, Base, Types
    <3> QED
      BY <3>1, <3>2, StillBound
  <2>4. ASSUME NEW e \in Ids, NEW where \in {"none", "sending", "moving"}, Turn(s, e), Handles(s, e, where)
        PROVE  CountsBounded'
    <3>1. UNCHANGED <<json, files, accepted, scans>> /\ Goes(s, e, where)
      BY <2>4 DEF Handles, diskVars, boundVars, historyVars
    <3>2. \A t \in Scans, d \in Ids : todo'[t][d] \in {todo[t][d], NoFile}
      BY <2>4 DEF Handles, Base, Types
    <3>3. MayCount(s, e) /\ s \in Actors
      BY ActorFacts, <2>4 DEF Turn, Todo, MayCount
    <3> QED
      BY <1>0, <3>1, <3>2, <3>3
  <2> QED
    BY <1>4, <2>1, <2>2, <2>3, <2>4 DEF Recover, GiveUp, BackOff, Replay
<1>5. CASE Crash
  <2>1. /\ UNCHANGED <<json, accepted, scans>>
        /\ \A a \in Actors, e \in Ids : step'[a][e] = None
        /\ \A s \in Scans, e \in Ids : e \notin files'[s] /\ todo'[s][e] = NoFile
    BY <1>5 DEF Crash, Idle, Nothing, diskVars
  <2>2. \A a \in Actors, e \in Ids : ~MayCount(a, e)'
    BY ActorFacts, <2>1 DEF MayCount
  <2> QED
    BY ActorFacts, <2>1, <2>2, StillBound
<1>6. CASE UNCHANGED vars
  BY <1>6, StillBound DEF vars, diskVars, scanVars, boundVars, historyVars, MayCount
<1> QED
  BY <1>1, <1>2, <1>3, <1>4, <1>5, <1>6 DEF Next

\* The types, and with them a bound no type gives: the retryCount of an entry is at
\* most the number of server starts and one, since its deliverer and every scan write
\* it once at most and failDelivery adds one to a count that was the file's.
THEOREM TypeCorrect == Spec => []TypeOK
<1>1. Init => Bounds /\ CountsBounded
  BY BoundsAssumption DEF Init, Bounds, CountsBounded, BoundOk
<1>2. IInv => Base
  BY DEF IInv
<1>3. IInv /\ Bounds /\ CountsBounded => TypeOK
  <2> SUFFICES ASSUME IInv, Bounds, CountsBounded PROVE TypeOK
    OBVIOUS
  <2>1. ASSUME NEW e \in Ids PROVE json[e] \in {NoFile} \cup (0..scans + 1)
    <3>1. json[e] \in Nat \cup {NoFile} /\ scans \in Nat
      BY DEF IInv, Base, Types, Bounds
    <3>2. CASE e \notin accepted
      BY <3>2 DEF IInv, Base, Known
    <3>3. CASE e \in accepted
      <4>1. IsFiniteSet(Chances(e)) /\ json[e] + Cardinality(Chances(e)) <= scans + 1
        BY <3>3 DEF CountsBounded, BoundOk
      <4>2. Cardinality(Chances(e)) \in Nat
        BY <4>1, FS_CardinalityType
      <4> QED
        BY <3>1, <4>1, <4>2
    <3> QED
      BY <3>2, <3>3
  <2>2. json \in [Ids -> {NoFile} \cup (0..scans + 1)]
    BY <2>1 DEF IInv, Base, Types
  <2> QED
    BY <2>2 DEF IInv, Base, Types, Bounds, TypeOK
<1> QED
  BY <1>1, <1>2, <1>3, Inductive, BoundsStep, BoundedStep, PTL DEF Spec
=============================================================================
