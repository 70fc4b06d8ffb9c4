-------------------------- MODULE SessionWriteLock --------------------------
(***************************************************************************)
(* The write lock of one session file: agents/session-write-lock.ts.       *)
(*                                                                         *)
(* The lock is a file that is created exclusively and then given a payload *)
(* with the owner's pid and start time.  Processes (gateways, command      *)
(* lines) contend for it; inside one process it is shared by reference     *)
(* count.  A lock whose owner is dead, or that is too old, is removed by   *)
(* who contends for it and by the scan of a server that starts, and both   *)
(* remove by path, an await after they have looked.                        *)
(*                                                                         *)
(* Each creation of the file makes a lock of its own number, which stands  *)
(* for the file and for the HeldLock object.  An action runs from one file *)
(* operation to the next; of the payload and the mtime, read one after the *)
(* other, only the last counts.  Reads and removals may fail, which the    *)
(* code takes for a stale lock, swallows or throws on.                     *)
(* Start times are taken to be readable, as on Linux: a pid that is used   *)
(* again is then told from the owner's, and a lock of this very process    *)
(* never looks like an orphan.                                             *)
(***************************************************************************)
EXTENDS Integers, FiniteSets

CONSTANTS
  Processes,
  Callers, ProcessOf,                  \* coroutines that use the lock, and where
  MaxLocks, MaxCrashes, MaxSignals,    \* bounds
  MaxErrors                            \* bound on the file operations that fail

ASSUME CallersAssumption == IsFiniteSet(Callers) /\ ProcessOf \in [Callers -> Processes]
ASSUME LockBoundsAssumption == {MaxLocks, MaxCrashes, MaxSignals, MaxErrors} \subseteq Nat

Locks == 1..MaxLocks
None == 0

VARIABLES
  file,      \* the lock whose file is at the path, or None
  filled,    \* locks with their payload written
  old,       \* locks older than staleMs
  owner,     \* lock -> the process that created it
  dead,      \* locks whose process has died since
  held,      \* process -> the lock in its HELD_LOCKS, or None
  count,     \* process -> the count of that lock
  closing,   \* locks being released: out of HELD_LOCKS, the file not yet removed
  pc, lock,  \* caller -> where it is, and the lock it created, has or looked at
  torn,      \* history: locks whose file may have gone, or will, under their holders
  left,      \* history: locks whose process failed to remove them
  used       \* counters of what is bounded

vars == <<file, filled, old, owner, dead, held, count, closing, pc, lock, torn, left, used>>
ages == <<filled, old>>
registry == <<held, count, closing>>

Places == {"idle", "opening", "writing", "holding", "blocked", "reclaiming", "listed", "sweeping"}
Counters == [locks : 0..MaxLocks, crashes : 0..MaxCrashes, signals : 0..MaxSignals,
             errors : 0..MaxErrors]

TypeOK ==
  /\ file \in (1..used.locks) \cup {None}
  /\ {filled, old, dead, closing, torn, left} \subseteq SUBSET (1..used.locks)
  /\ owner \in [1..used.locks -> Processes]
  /\ held \in [Processes -> (1..used.locks) \cup {None}]
  /\ count \in [Processes -> 0..Cardinality(Callers)]
  /\ pc \in [Callers -> Places]
  /\ lock \in [Callers -> (1..used.locks) \cup {None}]
  /\ used \in Counters

Init ==
  /\ file = None
  /\ filled = {} /\ old = {} /\ dead = {} /\ closing = {} /\ torn = {} /\ left = {}
  /\ owner = << >>
  /\ held = [p \in Processes |-> None] /\ count = [p \in Processes |-> 0]
  /\ pc = [c \in Callers |-> "idle"] /\ lock = [c \in Callers |-> None]
  /\ used = [locks |-> 0, crashes |-> 0, signals |-> 0, errors |-> 0]

Use(what, max) == used[what] < max /\ used' = [used EXCEPT ![what] = @ + 1]

Goes(c, from, to, i) ==
  /\ pc[c] = from
  /\ pc' = [pc EXCEPT ![c] = to]
  /\ lock' = [lock EXCEPT ![c] = i]

-----------------------------------------------------------------------------
(* Taking the lock. *)

\* Mutant of Share: it is not counted.
ShareUncounted(c) ==
  LET p == ProcessOf[c]
  IN  /\ held[p] # None
      /\ Goes(c, "idle", "holding", held[p])
      /\ UNCHANGED <<file, ages, owner, dead, registry, torn, left, used>>

\* acquireSessionWriteLock of a process that holds the lock shares it, ...
Share(c) ==
  LET p == ProcessOf[c]
  IN  /\ held[p] # None
      /\ Goes(c, "idle", "holding", held[p])
      /\ count' = [count EXCEPT ![p] = @ + 1]
      /\ UNCHANGED <<file, ages, owner, dead, held, closing, torn, left, used>>

\* ... and otherwise goes for the file, ...
Contend(c) ==
  /\ held[ProcessOf[c]] = None
  /\ Goes(c, "idle", "opening", None)
  /\ UNCHANGED <<file, ages, owner, dead, registry, torn, left, used>>

\* ... until its time is out.
GiveUp(c) ==
  /\ Goes(c, "opening", "idle", None)
  /\ UNCHANGED <<file, ages, owner, dead, registry, torn, left, used>>

Create(c) ==
  LET i == used.locks + 1
  IN  /\ file = None
      /\ Use("locks", MaxLocks)
      /\ Goes(c, "opening", "writing", i)
      /\ file' = i
      /\ owner' = [j \in 1..i |-> IF j = i THEN ProcessOf[c] ELSE owner[j]]
      /\ UNCHANGED <<ages, dead, registry, torn, left>>

\* The payload is written, be the file at its path or not, and the lock put in
\* HELD_LOCKS, be there another or not.
Fill(c) ==
  LET p == ProcessOf[c]
  IN  /\ Goes(c, "writing", "holding", lock[c])
      /\ filled' = filled \cup {lock[c]}
      /\ held' = [held EXCEPT ![p] = lock[c]] /\ count' = [count EXCEPT ![p] = 1]
      /\ UNCHANGED <<file, old, owner, dead, closing, torn, left, used>>

\* Who gives lock i back removes what is at the path.  If i is torn, that may be
\* another's.
Unlink(i) ==
  /\ file' = None
  /\ torn' = IF i \in torn THEN torn \cup ({file} \ {None}) ELSE torn
  /\ left' = left

\* The removal fails and nobody is told.
UnlinkFails(i) ==
  /\ left' = left \cup {j \in {file} \ {None} : owner[j] = owner[i]}
  /\ UNCHANGED <<file, torn>>

\* Mutant of FillFails: the file is left.
FillFailsSilently(c) ==
  /\ Goes(c, "writing", "idle", None)
  /\ UNCHANGED <<file, torn, left, ages, owner, dead, registry, used>>

FillFails(c) ==
  /\ Goes(c, "writing", "idle", None)
  /\ \/ Unlink(lock[c]) /\ UNCHANGED used
     \/ UnlinkFails(lock[c]) /\ Use("errors", MaxErrors)
  /\ UNCHANGED <<ages, owner, dead, registry>>

-----------------------------------------------------------------------------
(* Stale locks. *)

\* Mutant of Reclaimable: a fresh file without a payload is taken for stale.
ReclaimableBlank(i) == i \in old \/ i \in dead \/ i \notin filled

\* shouldReclaimContendedLockFile: its process is dead, or it is too old.  Of a
\* file without a payload only the age tells.
Reclaimable(i) == i \in old \/ (i \in dead /\ i \in filled)

\* The open fails, since there is a file.
Blocked(c) ==
  /\ file # None
  /\ Goes(c, "opening", "blocked", None)
  /\ UNCHANGED <<file, ages, owner, dead, registry, torn, left, used>>

\* What is at the path will be removed although it may be in use: its age, or an
\* error, does not tell that it is not.
Condemn(S) == torn' = torn \cup ({file} \cap S)

\* Who contends reads the file, if it is still there, and decides to remove it; so
\* it does if neither payload nor age can be read but for want of a file.
Inspect(c) ==
  /\ Goes(c, "blocked", "reclaiming", file)
  /\ \/ file # None /\ Reclaimable(file) /\ Condemn(old) /\ UNCHANGED used
     \/ Use("errors", MaxErrors) /\ Condemn(Locks)
  /\ UNCHANGED <<file, ages, owner, dead, registry, left>>

\* Else it tries again.
Recheck(c) ==
  /\ file # None => ~Reclaimable(file)
  /\ Goes(c, "blocked", "opening", None)
  /\ UNCHANGED <<file, ages, owner, dead, registry, torn, left, used>>

\* cleanStaleLockFiles lists the lock file, ...
List(c) ==
  /\ file # None
  /\ Goes(c, "idle", "listed", None)
  /\ UNCHANGED <<file, ages, owner, dead, registry, torn, left, used>>

\* ... reads what is there by then, and will remove it if it is stale, and also if
\* it is gone, has no payload or cannot be read: it does not wait for its age.
Scan(c) ==
  /\ Goes(c, "listed", "sweeping", file)
  /\ \/ /\ file \in filled => Reclaimable(file)
        /\ Condemn(old \cup (Locks \ filled)) /\ UNCHANGED used
     \/ Use("errors", MaxErrors) /\ Condemn(Locks)
  /\ UNCHANGED <<file, ages, owner, dead, registry, left>>

Spare(c) ==
  /\ file \in filled /\ ~Reclaimable(file)
  /\ Goes(c, "listed", "idle", None)
  /\ UNCHANGED <<file, ages, owner, dead, registry, torn, left, used>>

\* The file is removed, which may be another than the one looked at.
Remove(i) ==
  /\ file' = None
  /\ torn' = torn \cup ({file} \ {None, i})

Reclaim(c) ==
  /\ Goes(c, "reclaiming", "opening", None)
  /\ Remove(lock[c])
  /\ UNCHANGED <<ages, owner, dead, registry, left, used>>

Sweep(c) ==
  /\ Goes(c, "sweeping", "idle", None)
  /\ Remove(lock[c])
  /\ UNCHANGED <<ages, owner, dead, registry, left, used>>

\* The removal fails: acquireSessionWriteLock, and the scan, throw.
RemovalThrows(c) ==
  /\ Goes(c, "reclaiming", "idle", None) \/ Goes(c, "sweeping", "idle", None)
  /\ Use("errors", MaxErrors)
  /\ UNCHANGED <<file, ages, owner, dead, registry, torn, left>>

Age ==
  /\ file # None /\ file \notin old
  /\ old' = old \cup {file}
  /\ UNCHANGED <<file, filled, owner, dead, registry, pc, lock, torn, left, used>>

-----------------------------------------------------------------------------
(* Giving it back. *)

\* Mutant of Release: it is not asked whether the lock held is still this one.
ReleaseUnasked(c) ==
  LET p == ProcessOf[c]
      last == count[p] = 1
  IN  /\ Goes(c, "holding", "idle", None)
      /\ held' = [held EXCEPT ![p] = IF last THEN None ELSE @]
      /\ count' = [count EXCEPT ![p] = @ - 1]
      /\ closing' = IF last THEN closing \cup {lock[c]} ELSE closing
      /\ UNCHANGED <<file, ages, owner, dead, torn, left, used>>

\* releaseHeldLock up to the close: nothing, if the lock was taken away meanwhile.
Release(c) ==
  LET p == ProcessOf[c]
      mine == held[p] = lock[c]
      last == mine /\ count[p] = 1
  IN  /\ Goes(c, "holding", "idle", None)
      /\ held' = [held EXCEPT ![p] = IF last THEN None ELSE @]
      /\ count' = [count EXCEPT ![p] = IF mine THEN @ - 1 ELSE @]
      /\ closing' = IF last THEN closing \cup {lock[c]} ELSE closing
      /\ UNCHANGED <<file, ages, owner, dead, torn, left, used>>

\* ... and its end.
Closed(i) ==
  /\ i \in closing
  /\ closing' = closing \ {i}
  /\ \/ Unlink(i) /\ UNCHANGED used
     \/ UnlinkFails(i) /\ Use("errors", MaxErrors)
  /\ UNCHANGED <<ages, owner, dead, held, count, pc, lock>>

\* The watchdog releases a lock held for too long; its holders do not know.
Watchdog(p) ==
  /\ held[p] # None
  /\ held' = [held EXCEPT ![p] = None] /\ count' = [count EXCEPT ![p] = 0]
  /\ closing' = closing \cup {held[p]}
  /\ torn' = torn \cup {held[p]}
  /\ UNCHANGED <<file, ages, owner, dead, pc, lock, left, used>>

\* A signal, or the end of the process, removes the file at once; a gateway that
\* handles the signal itself goes on for a while, and so do the holders.
Signal(p) ==
  LET i == held[p]
  IN  /\ i # None
      /\ held' = [held EXCEPT ![p] = None] /\ count' = [count EXCEPT ![p] = 0]
      /\ used.signals < MaxSignals
      /\ \/ /\ file' = None
            /\ torn' = torn \cup {i} \cup (IF i \in torn THEN {file} \ {None} ELSE {})
            /\ left' = left
            /\ used' = [used EXCEPT !.signals = @ + 1]
         \/ /\ UnlinkFails(i)
            /\ used.errors < MaxErrors
            /\ used' = [used EXCEPT !.signals = @ + 1, !.errors = @ + 1]
      /\ UNCHANGED <<ages, owner, dead, closing, pc, lock>>

\* The process dies; another with its callers may follow.
Crash(p) ==
  /\ Use("crashes", MaxCrashes)
  /\ dead' = dead \cup {i \in 1..used.locks : owner[i] = p}
  /\ held' = [held EXCEPT ![p] = None] /\ count' = [count EXCEPT ![p] = 0]
  /\ closing' = {i \in closing : owner[i] # p}
  /\ pc' = [c \in Callers |-> IF ProcessOf[c] = p THEN "idle" ELSE pc[c]]
  /\ lock' = [c \in Callers |-> IF ProcessOf[c] = p THEN None ELSE lock[c]]
  /\ UNCHANGED <<file, ages, owner, torn, left>>

CallerStep(c) ==
  \/ Share(c) \/ Contend(c) \/ GiveUp(c) \/ Create(c) \/ Fill(c) \/ FillFails(c)
  \/ Blocked(c) \/ Inspect(c) \/ Recheck(c) \/ Reclaim(c)
  \/ List(c) \/ Scan(c) \/ Spare(c) \/ Sweep(c) \/ RemovalThrows(c)
  \/ Release(c)

Next ==
  \/ \E c \in Callers : CallerStep(c)
  \/ \E p \in Processes : Watchdog(p) \/ Signal(p) \/ Crash(p)
  \/ \E i \in Locks : Closed(i)
  \/ Age

Spec == Init /\ [][Next]_vars

-----------------------------------------------------------------------------
\* Two holders at a time have the lock in common, unless the lock of one is torn:
\* a contender or a scan removed it after it had looked at another, at a file gone
\* by then or at one it could not read; a scan met it between its creation and its
\* payload; it was in use although older than staleMs; the watchdog or a signal
\* took it away; or the owner of a torn one removed it.  Nothing else, and no
\* crash, takes the file from under its holders.
Exclusive ==
  \A c, d \in Callers :
    pc[c] = "holding" /\ pc[d] = "holding" /\ lock[c] # lock[d] => {lock[c], lock[d]} \cap torn # {}

\* No lock file of a process that lives is left behind but by a removal that
\* failed: the process is creating it, or has a lock to release, and every release
\* removes what is at the path.
FileIsBacked ==
  file # None /\ file \notin dead \cup left =>
    LET p == owner[file]
    IN  \/ held[p] # None
        \/ \E i \in closing : owner[i] = p
        \/ \E c \in Callers : ProcessOf[c] = p /\ pc[c] = "writing"

\* The count is the number of callers that have yet to release, whatever was
\* taken away by force, taken again and released late.
CountsHolders ==
  \A p \in Processes :
    count[p] = IF held[p] = None THEN 0
               ELSE Cardinality({c \in Callers : pc[c] = "holding" /\ lock[c] = held[p]})
=============================================================================
