----------------------- MODULE SessionWriteLockProofs -----------------------
(***************************************************************************)
(* Theorems about SessionWriteLock, for any processes, any finite set of   *)
(* callers and all bounds.                                                 *)
(***************************************************************************)
EXTENDS SessionWriteLock, FiniteSetTheorems, TLAPS

HasLock(c) == pc[c] \in {"writing", "holding"}
Looked(c) == pc[c] \in {"reclaiming", "sweeping"}
Holders(p) == {c \in Callers : pc[c] = "holding" /\ lock[c] = held[p]}

\* A caller has a lock, or has looked at one or at none, or is at neither.
Placed ==
  \A c \in Callers : /\ HasLock(c) => lock[c] # None
                     /\ lock[c] # None => HasLock(c) \/ Looked(c)

\* What a caller has, a process holds or releases is its own, and the process lives.
Owned ==
  /\ \A c \in Callers : HasLock(c) => owner[lock[c]] = ProcessOf[c] /\ lock[c] \notin dead
  /\ \A p \in Processes : held[p] # None => owner[held[p]] = p /\ held[p] \notin dead
  /\ closing \cap dead = {}

\* The lock that is being written is its writer's alone.
WritersAlone ==
  \A c \in Callers : pc[c] = "writing" =>
    /\ \A d \in Callers \ {c} : HasLock(d) => lock[d] # lock[c]
    /\ \A p \in Processes : held[p] # lock[c]
    /\ lock[c] \notin closing

\* A lock that is being released is held no more, and has holders only if it was
\* taken away from them.
ReleasedAlone ==
  \A i \in closing :
    /\ \A p \in Processes : held[p] # i
    /\ i \notin torn => \A c \in Callers : HasLock(c) => lock[c] # i

\* The file of a lock in use is at the path, unless the lock is torn.
InUse(i) ==
  \/ \E c \in Callers : HasLock(c) /\ lock[c] = i
  \/ \E p \in Processes : held[p] = i
  \/ i \in closing

Kept == \A i \in 1..used.locks : InUse(i) /\ i \notin torn => file = i

\* What is to be removed is torn, or its owner dead, or was gone.
StaleSeen == \A c \in Callers : Looked(c) => lock[c] \in torn \cup dead \cup {None}

IInv == /\ TypeOK /\ Placed /\ Owned /\ WritersAlone /\ ReleasedAlone /\ Kept /\ StaleSeen
        /\ FileIsBacked /\ CountsHolders

-----------------------------------------------------------------------------
\* The counts stay exact where the holders of a lock stay, or are counted anew.
SameHolders(p) ==
  /\ held'[p] = held[p] /\ count'[p] = count[p]
  /\ held[p] # None => Holders(p)' = Holders(p)

Counted(p) == count'[p] = IF held'[p] = None THEN 0 ELSE Cardinality(Holders(p)')

LEMMA CountsFollow ==
  ASSUME CountsHolders, \A p \in Processes : SameHolders(p) \/ Counted(p)
  PROVE  CountsHolders'
<1> SUFFICES ASSUME NEW p \in Processes PROVE Counted(p)
  BY DEF CountsHolders, Counted, Holders
<1>1. CASE SameHolders(p) /\ held[p] = None
  BY <1>1 DEF SameHolders, Counted, CountsHolders
<1>2. CASE SameHolders(p) /\ held[p] # None
  <2>1. count[p] = Cardinality(Holders(p))
    BY <1>2 DEF CountsHolders, Holders
  <2> QED BY <1>2, <2>1 DEF SameHolders, Counted
<1> QED BY <1>1, <1>2

\* Locks are numbered from 1.
LEMMA Made == TypeOK => None \notin 1..used.locks /\ used.locks \in Nat /\ used.locks + 1 \notin 1..used.locks
BY LockBoundsAssumption DEF TypeOK, None, Counters

LEMMA Numbers == TypeOK => 1..used.locks \subseteq Locks /\ None \notin Locks
BY LockBoundsAssumption DEF TypeOK, Counters, Locks, None

\* An operation that fails is counted, and creates no lock.
LEMMA ErrorCounted ==
  ASSUME TypeOK, Use("errors", MaxErrors) PROVE used'.locks = used.locks /\ used' \in Counters
<1>1. used.errors \in 0..MaxErrors /\ used.errors + 1 \in 0..MaxErrors
  BY LockBoundsAssumption DEF TypeOK, Counters, Use
<1>2. used' = [used EXCEPT !.errors = used.errors + 1]
  BY DEF Use
<1> QED BY <1>1, <1>2 DEF TypeOK, Counters

\* Sets of callers can be counted.
LEMMA CallersCounted ==
  ASSUME NEW S \in SUBSET Callers
  PROVE  IsFiniteSet(S) /\ Cardinality(S) \in 0..Cardinality(Callers)
BY CallersAssumption, FS_Subset, FS_CardinalityType

\* A count that is exact has its type.
LEMMA CountTypes ==
  CountsHolders' /\ count' \in [Processes -> Int] => count' \in [Processes -> 0..Cardinality(Callers)]
<1> SUFFICES ASSUME CountsHolders', NEW p \in Processes
             PROVE  count'[p] \in 0..Cardinality(Callers)
  OBVIOUS
<1>1. Holders(p)' \in SUBSET Callers
  BY DEF Holders
<1>2. count'[p] \in {0, Cardinality(Holders(p)')}
  BY DEF CountsHolders, Holders
<1>3. Cardinality(Holders(p)') \in 0..Cardinality(Callers) /\ Cardinality(Callers) \in Nat
  BY <1>1, CallersCounted, CallersAssumption, FS_CardinalityType
<1> QED BY <1>2, <1>3

-----------------------------------------------------------------------------
\* A process that holds the lock counts one holder more.
LEMMA ShareKeeps == ASSUME IInv, NEW c \in Callers, Share(c) PROVE IInv'
<1> DEFINE p == ProcessOf[c]
<1>0. TypeOK /\ p \in Processes /\ c \notin Holders(p)
  BY CallersAssumption DEF IInv, Share, Goes, Holders
<1>1. /\ held[p] # None /\ pc[c] = "idle"
      /\ pc' = [pc EXCEPT ![c] = "holding"] /\ lock' = [lock EXCEPT ![c] = held[p]]
      /\ count' = [count EXCEPT ![p] = count[p] + 1]
      /\ UNCHANGED <<file, filled, old, owner, dead, held, closing, torn, left, used>>
  BY DEF Share, Goes, ages
<1>2. Placed' /\ Owned' /\ StaleSeen'
  BY <1>0, <1>1 DEF IInv, TypeOK, Placed, Owned, StaleSeen, HasLock, Looked
<1>3. WritersAlone' /\ ReleasedAlone'
  BY <1>0, <1>1 DEF IInv, TypeOK, WritersAlone, ReleasedAlone, HasLock
<1>4. Kept'
  BY <1>0, <1>1 DEF IInv, TypeOK, Kept, InUse, HasLock
<1>5. FileIsBacked'
  BY <1>0, <1>1 DEF IInv, TypeOK, FileIsBacked
<1>6. CountsHolders'
  <2>1. Holders(p)' = Holders(p) \cup {c}
    BY <1>0, <1>1 DEF Holders, TypeOK
  <2>2. IsFiniteSet(Holders(p))
    BY CallersCounted DEF Holders
  <2>3. Cardinality(Holders(p)') = Cardinality(Holders(p)) + 1
    BY <2>1, <2>2, <1>0, FS_AddElement
  <2>4. \A q \in Processes \ {p} : SameHolders(q)
    BY <1>0, <1>1 DEF SameHolders, Holders, TypeOK, IInv, Owned
  <2>5. count[p] = Cardinality(Holders(p))
    BY <1>0, <1>1 DEF CountsHolders, Holders, IInv
  <2>6. Counted(p)
    BY <1>0, <1>1, <2>3, <2>5 DEF Counted, TypeOK
  <2> QED BY <2>4, <2>6, CountsFollow DEF IInv
<1>7. TypeOK'
  <2>1. count' \in [Processes -> 0..Cardinality(Callers)]
    BY <1>0, <1>1, <1>6, CountTypes DEF TypeOK
  <2> QED BY <1>0, <1>1, <2>1 DEF TypeOK, Places
<1> QED BY <1>2, <1>3, <1>4, <1>5, <1>6, <1>7 DEF IInv

\* A caller that has no lock goes to another place where it has none.
LEMMA LookingKeeps ==
  ASSUME IInv, NEW c \in Callers,
         \/ Contend(c) \/ GiveUp(c) \/ Blocked(c) \/ Inspect(c) \/ Recheck(c)
         \/ List(c) \/ Scan(c) \/ Spare(c) \/ RemovalThrows(c)
  PROVE  IInv'
<1> DEFINE Away == Places \ {"writing", "holding"}
<1>0. TypeOK /\ ProcessOf[c] \in Processes
  BY CallersAssumption DEF IInv
<1>1. /\ pc[c] \in Away
      /\ \E to \in Away : \E i \in {None, file} :
           /\ pc' = [pc EXCEPT ![c] = to] /\ lock' = [lock EXCEPT ![c] = i]
           /\ i # None => to \in {"reclaiming", "sweeping"} /\ i \in torn' \cup dead
      /\ torn' = torn \/ \E S \in SUBSET (1..used.locks) : torn' = torn \cup S
      /\ used' = used \/ Use("errors", MaxErrors)
      /\ UNCHANGED <<file, filled, old, owner, dead, held, count, closing, left>>
  <2>1. CASE \/ Contend(c) \/ GiveUp(c) \/ Blocked(c) \/ Recheck(c)
             \/ List(c) \/ Spare(c) \/ RemovalThrows(c)
    BY <2>1 DEF Contend, GiveUp, Blocked, Recheck, List, Spare, RemovalThrows, Goes, ages, registry, Places
  <2>2. CASE Inspect(c) \/ Scan(c)
    <3>1. \E to \in {"reclaiming", "sweeping"} :
            pc' = [pc EXCEPT ![c] = to] /\ lock' = [lock EXCEPT ![c] = file]
      BY <2>2 DEF Inspect, Scan, Goes
    <3>2. torn' = torn \cup ({file} \ {None}) \/ torn' = torn \cup ({file} \cap old)
          \/ torn' = torn \cup ({file} \cap (old \cup (Locks \ filled)))
      BY <2>2, <1>0, Numbers DEF Inspect, Scan, Condemn, TypeOK
    <3>3. file # None => file \in torn' \cup dead
      BY <2>2, <1>0, Numbers DEF Inspect, Scan, Condemn, Reclaimable, TypeOK
    <3>4. {file} \ {None} \subseteq 1..used.locks /\ old \subseteq 1..used.locks /\ None \notin Locks
      BY <1>0, Numbers DEF TypeOK
    <3>5. \E S \in SUBSET (1..used.locks) : torn' = torn \cup S
      BY <3>2, <3>4, <1>0 DEF TypeOK
    <3>6. /\ pc[c] \in Away /\ {"reclaiming", "sweeping"} \subseteq Away
          /\ used' = used \/ Use("errors", MaxErrors)
          /\ UNCHANGED <<file, filled, old, owner, dead, held, count, closing, left>>
      BY <2>2 DEF Inspect, Scan, Goes, ages, registry, Places
    <3>7. PICK to \in {"reclaiming", "sweeping"} :
            pc' = [pc EXCEPT ![c] = to] /\ lock' = [lock EXCEPT ![c] = file]
      BY <3>1
    <3> HIDE DEF Away
    <3>8. to \in Away /\ file \in {None, file}
      BY <3>6
    <3> QED BY <3>3, <3>5, <3>6, <3>7, <3>8
  <2> QED BY <2>1, <2>2
<1>2. torn \subseteq torn' /\ torn' \subseteq 1..used.locks
  BY <1>0, <1>1 DEF TypeOK
<1>3. used'.locks = used.locks /\ used' \in Counters
  BY <1>0, <1>1, ErrorCounted DEF TypeOK
<1>4. TypeOK'
  BY <1>0, <1>1, <1>2, <1>3 DEF TypeOK
<1>5. Placed' /\ Owned' /\ StaleSeen'
  BY <1>0, <1>1, <1>2 DEF IInv, TypeOK, Placed, Owned, StaleSeen, HasLock, Looked
<1>6. WritersAlone' /\ ReleasedAlone' /\ Kept'
  BY <1>0, <1>1, <1>2, <1>3 DEF IInv, TypeOK, WritersAlone, ReleasedAlone, Kept, InUse, HasLock
<1>7. FileIsBacked'
  BY <1>0, <1>1 DEF IInv, TypeOK, FileIsBacked
<1>8. CountsHolders'
  BY <1>0, <1>1, CountsFollow DEF IInv, TypeOK, SameHolders, Holders
<1> QED BY <1>4, <1>5, <1>6, <1>7, <1>8 DEF IInv

\* The lock just created is its writer's alone.
LEMMA CreateKeeps == ASSUME IInv, NEW c \in Callers, Create(c) PROVE IInv'
<1> DEFINE i == used.locks + 1
           p == ProcessOf[c]
<1>0. /\ TypeOK /\ p \in Processes
      /\ i \notin 1..used.locks /\ used.locks \in Nat /\ i # None /\ None \notin 1..used.locks
  BY CallersAssumption, Made DEF IInv, TypeOK, None, Counters
<1>1. /\ file = None /\ used.locks < MaxLocks /\ used' = [used EXCEPT !.locks = i]
      /\ pc[c] = "opening"
      /\ pc' = [pc EXCEPT ![c] = "writing"] /\ lock' = [lock EXCEPT ![c] = i]
      /\ file' = i
      /\ owner' = [j \in 1..i |-> IF j = i THEN p ELSE owner[j]]
      /\ UNCHANGED <<filled, old, dead, held, count, closing, torn, left>>
  BY DEF Create, Goes, Use, ages, registry
<1>2. /\ used'.locks = i /\ used' \in Counters
      /\ i \in 1..i /\ 1..used.locks \subseteq 1..i /\ 1..i = (1..used.locks) \cup {i}
  <2>1. i \in 1..i /\ 1..used.locks \subseteq 1..i /\ 1..i = (1..used.locks) \cup {i}
    BY <1>0
  <2>2. i \in 0..MaxLocks
    BY <1>0, <1>1, LockBoundsAssumption DEF TypeOK
  <2> HIDE DEF i
  <2> QED BY <1>0, <1>1, <2>1, <2>2 DEF TypeOK, Counters
<1>3. owner'[i] = p /\ \A j \in 1..used.locks : owner'[j] = owner[j]
  BY <1>0, <1>1, <1>2
<1>4. TypeOK'
  <2>1. owner' \in [1..i -> Processes]
    BY <1>0, <1>1, <1>2 DEF TypeOK
  <2>2. {filled', old', dead', closing', torn', left'} \subseteq SUBSET (1..i)
    BY <1>0, <1>1, <1>2 DEF TypeOK
  <2>3. lock' \in [Callers -> (1..i) \cup {None}] /\ held' \in [Processes -> (1..i) \cup {None}]
    BY <1>0, <1>1, <1>2 DEF TypeOK
  <2>4. pc' \in [Callers -> Places]
    BY <1>0, <1>1 DEF TypeOK, Places
  <2> QED BY <1>0, <1>1, <1>2, <2>1, <2>2, <2>3, <2>4 DEF TypeOK
<1>5. Placed' /\ StaleSeen'
  BY <1>0, <1>1 DEF IInv, TypeOK, Placed, StaleSeen, HasLock, Looked
<1>6. Owned'
  BY <1>0, <1>1, <1>3 DEF IInv, TypeOK, Placed, Owned, HasLock
<1>7. WritersAlone' /\ ReleasedAlone'
  BY <1>0, <1>1 DEF IInv, TypeOK, WritersAlone, ReleasedAlone, HasLock
<1>8. Kept'
  BY <1>0, <1>1, <1>2 DEF IInv, TypeOK, Kept, InUse, HasLock
<1>9. FileIsBacked'
  BY <1>0, <1>1, <1>3 DEF TypeOK, FileIsBacked
<1>10. CountsHolders'
  BY <1>0, <1>1, CountsFollow DEF IInv, TypeOK, SameHolders, Holders
<1> QED BY <1>4, <1>5, <1>6, <1>7, <1>8, <1>9, <1>10 DEF IInv

\* The writer becomes the one holder, of the file it made or of none.
LEMMA FillKeeps == ASSUME IInv, NEW c \in Callers, Fill(c) PROVE IInv'
<1> DEFINE p == ProcessOf[c]
<1>0. TypeOK /\ p \in Processes
  BY CallersAssumption DEF IInv
<1>1. /\ pc[c] = "writing"
      /\ pc' = [pc EXCEPT ![c] = "holding"] /\ lock' = lock
      /\ filled' = filled \cup {lock[c]}
      /\ held' = [held EXCEPT ![p] = lock[c]] /\ count' = [count EXCEPT ![p] = 1]
      /\ UNCHANGED <<file, old, owner, dead, closing, torn, left, used>>
  BY <1>0 DEF Fill, Goes, TypeOK
<1>2. lock[c] # None /\ lock[c] \in 1..used.locks
  BY <1>0, <1>1 DEF IInv, Placed, HasLock, TypeOK
<1>3. Placed' /\ Owned' /\ StaleSeen'
  BY <1>0, <1>1, <1>2 DEF IInv, TypeOK, Placed, Owned, StaleSeen, HasLock, Looked
<1>4. WritersAlone' /\ ReleasedAlone'
  BY <1>0, <1>1, <1>2 DEF IInv, TypeOK, WritersAlone, ReleasedAlone, HasLock
<1>5. Kept'
  BY <1>0, <1>1, <1>2 DEF IInv, TypeOK, Kept, InUse, HasLock
<1>6. FileIsBacked'
  BY <1>0, <1>1, <1>2 DEF IInv, TypeOK, FileIsBacked
<1>7. CountsHolders'
  <2>1. Holders(p)' = {c}
    BY <1>0, <1>1, <1>2 DEF IInv, WritersAlone, HasLock, Holders, TypeOK
  <2>2. Counted(p)
    BY <1>0, <1>1, <1>2, <2>1, FS_Singleton DEF Counted, TypeOK
  <2>3. \A q \in Processes \ {p} : SameHolders(q)
    BY <1>0, <1>1, <1>2 DEF SameHolders, Holders, TypeOK, IInv, WritersAlone
  <2> QED BY <2>2, <2>3, CountsFollow DEF IInv
<1>8. TypeOK'
  <2>1. count' \in [Processes -> 0..Cardinality(Callers)]
    BY <1>0, <1>1, <1>7, CountTypes DEF TypeOK
  <2> QED BY <1>0, <1>1, <1>2, <2>1 DEF TypeOK, Places
<1> QED BY <1>3, <1>4, <1>5, <1>6, <1>7, <1>8 DEF IInv

\* A lock whose payload cannot be written is removed, and with it what no one uses,
\* or it is left.
LEMMA FillFailsKeeps == ASSUME IInv, NEW c \in Callers, FillFails(c) PROVE IInv'
<1> DEFINE p == ProcessOf[c]
<1>0. TypeOK /\ p \in Processes
  BY CallersAssumption DEF IInv
<1>1. /\ pc[c] = "writing"
      /\ pc' = [pc EXCEPT ![c] = "idle"] /\ lock' = [lock EXCEPT ![c] = None]
      /\ \/ Unlink(lock[c]) /\ used' = used
         \/ UnlinkFails(lock[c]) /\ Use("errors", MaxErrors)
      /\ UNCHANGED <<filled, old, owner, dead, held, count, closing>>
  BY DEF FillFails, Goes, ages, registry
<1>2. lock[c] # None /\ lock[c] \in 1..used.locks /\ owner[lock[c]] = p
  BY <1>0, <1>1 DEF IInv, Placed, Owned, HasLock, TypeOK
<1>3. /\ torn \subseteq torn' /\ {torn', left'} \subseteq SUBSET (1..used.locks)
      /\ file' \in (1..used.locks) \cup {None}
  BY <1>0, <1>1 DEF TypeOK, Unlink, UnlinkFails
<1>a. used'.locks = used.locks /\ used' \in Counters
  BY <1>0, <1>1, ErrorCounted DEF TypeOK
<1>b. "idle" \in Places
  BY DEF Places
<1>4. TypeOK'
  BY <1>0, <1>1, <1>3, <1>a, <1>b DEF TypeOK
<1>5. Placed' /\ Owned' /\ StaleSeen'
  BY <1>0, <1>1, <1>3 DEF IInv, TypeOK, Placed, Owned, StaleSeen, HasLock, Looked
<1>6. WritersAlone' /\ ReleasedAlone'
  BY <1>0, <1>1, <1>3 DEF IInv, TypeOK, WritersAlone, ReleasedAlone, HasLock
<1>7. Kept'
  <2> SUFFICES ASSUME NEW i \in 1..used.locks, InUse(i)', i \notin torn' PROVE file' = i
    BY <1>a DEF Kept
  <2>1. InUse(i) /\ i # lock[c]
    BY <1>0, <1>1, <1>2 DEF InUse, HasLock, TypeOK, IInv, WritersAlone
  <2>2. file = i /\ i # None
    BY <2>1, <1>0, <1>3, Made DEF IInv, Kept
  <2>3. CASE Unlink(lock[c])
    <3>1. lock[c] \notin torn
      BY <2>2, <2>3 DEF Unlink
    <3>2. file = lock[c]
      BY <1>1, <1>2, <3>1 DEF IInv, Kept, InUse, HasLock
    <3> QED BY <2>1, <2>2, <3>2
  <2>4. CASE UnlinkFails(lock[c])
    BY <2>2, <2>4 DEF UnlinkFails
  <2> QED BY <2>3, <2>4, <1>1
<1>8. FileIsBacked'
  <2> SUFFICES ASSUME file' # None, file' \notin dead \cup left' PROVE FileIsBacked'
    BY <1>1 DEF FileIsBacked
  <2>1. file' = file /\ file \notin left /\ owner[file] # p
    BY <1>1, <1>2 DEF Unlink, UnlinkFails
  <2> QED BY <2>1, <1>0, <1>1 DEF IInv, TypeOK, FileIsBacked
<1>9. CountsHolders'
  BY <1>0, <1>1, CountsFollow DEF IInv, TypeOK, SameHolders, Holders
<1> QED BY <1>4, <1>5, <1>6, <1>7, <1>8, <1>9 DEF IInv

\* Who has looked at a lock removes what is at the path.
LEMMA RemoveKeeps ==
  ASSUME IInv, NEW c \in Callers, Reclaim(c) \/ Sweep(c) PROVE IInv'
<1>0. TypeOK /\ ProcessOf[c] \in Processes
  BY CallersAssumption DEF IInv
<1>1. /\ Looked(c)
      /\ \E to \in {"idle", "opening"} : pc' = [pc EXCEPT ![c] = to]
      /\ lock' = [lock EXCEPT ![c] = None]
      /\ file' = None
      /\ torn' = torn \cup ({file} \ {None, lock[c]})
      /\ UNCHANGED <<filled, old, owner, dead, held, count, closing, left, used>>
  BY DEF Reclaim, Sweep, Remove, Goes, ages, registry, Looked
<1>2. torn \subseteq torn' /\ torn' \subseteq 1..used.locks
  BY <1>0, <1>1 DEF TypeOK
<1>3. TypeOK'
  BY <1>0, <1>1, <1>2 DEF TypeOK, Places
<1>4. Placed' /\ Owned' /\ StaleSeen'
  BY <1>0, <1>1, <1>2 DEF IInv, TypeOK, Placed, Owned, StaleSeen, HasLock, Looked
<1>5. WritersAlone' /\ ReleasedAlone'
  BY <1>0, <1>1, <1>2 DEF IInv, TypeOK, WritersAlone, ReleasedAlone, HasLock, Looked
<1>6. Kept'
  <2> SUFFICES ASSUME NEW i \in 1..used.locks, InUse(i)', i \notin torn' PROVE FALSE
    BY <1>1 DEF Kept
  <2>1. InUse(i)
    BY <1>0, <1>1 DEF InUse, HasLock, Looked, TypeOK
  <2>2. file = i /\ i # None
    BY <2>1, <1>0, <1>2, Made DEF IInv, Kept
  <2>3. i = lock[c] /\ i \in dead
    BY <2>1, <2>2, <1>1, <1>2 DEF IInv, StaleSeen
  <2> QED BY <2>1, <2>2, <2>3 DEF IInv, Owned, InUse
<1>7. FileIsBacked'
  BY <1>1 DEF FileIsBacked
<1>8. CountsHolders'
  BY <1>0, <1>1, CountsFollow DEF IInv, TypeOK, SameHolders, Holders, Looked
<1> QED BY <1>3, <1>4, <1>5, <1>6, <1>7, <1>8 DEF IInv

\* Age alone takes nothing away.
LEMMA AgeKeeps == ASSUME IInv, Age PROVE IInv'
<1>1. /\ file # None /\ old' = old \cup {file}
      /\ UNCHANGED <<file, filled, owner, dead, held, count, closing, pc, lock, torn, left, used>>
  BY DEF Age, registry
<1>2. TypeOK'
  BY <1>1 DEF IInv, TypeOK
<1>3. Placed' /\ Owned' /\ StaleSeen' /\ WritersAlone' /\ ReleasedAlone' /\ Kept'
  BY <1>1 DEF IInv, Placed, Owned, StaleSeen, WritersAlone, ReleasedAlone, Kept, InUse, HasLock, Looked
<1>4. FileIsBacked' /\ CountsHolders'
  BY <1>1 DEF IInv, FileIsBacked, CountsHolders
<1> QED BY <1>2, <1>3, <1>4 DEF IInv

\* The last to release lets the lock go, the others count one holder less.
LEMMA ReleaseKeeps == ASSUME IInv, NEW c \in Callers, Release(c) PROVE IInv'
<1> DEFINE p == ProcessOf[c]
           mine == held[p] = lock[c]
           last == mine /\ count[p] = 1
<1>0. TypeOK /\ p \in Processes
  BY CallersAssumption DEF IInv
<1>1. /\ pc[c] = "holding"
      /\ pc' = [pc EXCEPT ![c] = "idle"] /\ lock' = [lock EXCEPT ![c] = None]
      /\ held' = [held EXCEPT ![p] = IF last THEN None ELSE held[p]]
      /\ count' = [count EXCEPT ![p] = IF mine THEN count[p] - 1 ELSE count[p]]
      /\ closing' = IF last THEN closing \cup {lock[c]} ELSE closing
      /\ UNCHANGED <<file, filled, old, owner, dead, torn, left, used>>
  BY DEF Release, Goes, ages
<1>2. lock[c] # None /\ lock[c] \in 1..used.locks /\ owner[lock[c]] = p /\ lock[c] \notin dead
  BY <1>0, <1>1 DEF IInv, Placed, Owned, HasLock, TypeOK
<1>a. /\ pc'[c] = "idle" /\ lock'[c] = None
      /\ \A d \in Callers \ {c} : pc'[d] = pc[d] /\ lock'[d] = lock[d]
      /\ \A d \in Callers : HasLock(d)' => d # c /\ HasLock(d) /\ lock'[d] = lock[d]
  BY <1>0, <1>1 DEF TypeOK, HasLock
<1>b. /\ \A q \in Processes \ {p} : held'[q] = held[q] /\ count'[q] = count[q]
      /\ held'[p] = IF last THEN None ELSE held[p]
      /\ \A q \in Processes : held'[q] \in {None, held[q]}
      /\ count'[p] = IF mine THEN count[p] - 1 ELSE count[p]
  <2> HIDE DEF last, mine
  <2> QED BY <1>0, <1>1 DEF TypeOK
<1>c. \A i \in closing : i # None
  BY <1>0, Made DEF TypeOK
\* The holders of the lock are its process's, and are one fewer.
<1>3. /\ mine => (~last => Holders(p)' = Holders(p) \ {c}) /\ Cardinality(Holders(p) \ {c}) = count[p] - 1
      /\ last => Holders(p) = {c}
  <2>0. IsFiniteSet(Holders(p))
    BY CallersCounted DEF Holders
  <2>1. mine => c \in Holders(p) /\ count[p] = Cardinality(Holders(p))
    BY <1>0, <1>1, <1>2 DEF Holders, IInv, CountsHolders
  <2>2. mine => Cardinality(Holders(p) \ {c}) = count[p] - 1
    BY <2>0, <2>1, FS_RemoveElement
  <2>3. last => Holders(p) = {c}
    <3>1. last => Cardinality(Holders(p) \ {c}) = 0
      BY <2>2
    <3>2. IsFiniteSet(Holders(p) \ {c})
      BY CallersCounted DEF Holders
    <3>3. last => Holders(p) \ {c} = {}
      BY <3>1, <3>2, FS_EmptySet
    <3> QED BY <2>1, <3>3
  <2>4. mine /\ ~last => Holders(p)' = Holders(p) \ {c}
    BY <1>2, <1>a, <1>b DEF Holders
  <2> QED BY <2>2, <2>3, <2>4
<1>4. Placed' /\ StaleSeen'
  BY <1>0, <1>1 DEF IInv, TypeOK, Placed, StaleSeen, HasLock, Looked
<1>5. Owned'
  BY <1>0, <1>1, <1>2 DEF IInv, TypeOK, Owned, HasLock
<1>6. WritersAlone'
  <2> SUFFICES ASSUME NEW d \in Callers, pc'[d] = "writing" PROVE
        /\ \A e \in Callers \ {d} : HasLock(e)' => lock'[e] # lock'[d]
        /\ \A q \in Processes : held'[q] # lock'[d]
        /\ lock'[d] \notin closing'
    BY DEF WritersAlone
  <2>1. d # c /\ HasLock(d) /\ pc[d] = "writing" /\ lock'[d] = lock[d]
    BY <1>a DEF HasLock
  <2>2. /\ \A e \in Callers \ {d} : HasLock(e) => lock[e] # lock[d]
        /\ \A q \in Processes : held[q] # lock[d]
        /\ lock[d] \notin closing /\ lock[d] # None
    BY <2>1 DEF IInv, WritersAlone, Placed
  <2>3. lock[d] # lock[c]
    BY <1>1, <2>1, <2>2 DEF HasLock
  <2>4. lock'[d] \notin closing'
    BY <1>1, <2>1, <2>2, <2>3
  <2> QED BY <2>1, <2>2, <2>4, <1>a, <1>b
<1>7. ReleasedAlone'
  <2> SUFFICES ASSUME NEW i \in closing' PROVE
        /\ \A q \in Processes : held'[q] # i
        /\ i \notin torn => \A d \in Callers : HasLock(d)' => lock'[d] # i
    BY <1>1 DEF ReleasedAlone
  <2>1. CASE i \in closing
    BY <2>1, <1>a, <1>b, <1>c DEF IInv, ReleasedAlone
  <2>2. CASE i \notin closing
    <3>1. last /\ i = lock[c] /\ held[p] = i
      BY <2>2, <1>1
    <3>2. \A q \in Processes : held'[q] # i
      BY <3>1, <1>0, <1>1, <1>2 DEF IInv, Owned, TypeOK
    <3>3. \A d \in Callers : HasLock(d)' => lock'[d] # i
      BY <3>1, <1>0, <1>1, <1>2, <1>3 DEF IInv, WritersAlone, HasLock, Holders, TypeOK
    <3> QED BY <3>2, <3>3
  <2> QED BY <2>1, <2>2
<1>8. Kept'
  <2> SUFFICES ASSUME NEW i \in 1..used.locks, InUse(i)', i \notin torn PROVE file = i
    BY <1>1 DEF Kept
  <2>1. i # None
    BY <1>0, Made
  <2>2. InUse(i)
    BY <2>1, <1>1, <1>a, <1>b DEF InUse, HasLock
  <2> QED BY <2>2 DEF IInv, Kept
<1>9. FileIsBacked'
  <2> SUFFICES ASSUME file # None, file \notin dead \cup left PROVE FileIsBacked'
    BY <1>1 DEF FileIsBacked
  <2>1. owner[file] \in Processes
    BY <1>0 DEF TypeOK
  <2>2. CASE last /\ owner[file] = p
    <3>1. lock[c] \in closing' /\ owner'[lock[c]] = owner'[file']
      BY <2>2, <1>1, <1>2
    <3> QED BY <3>1 DEF FileIsBacked
  <2>3. CASE ~(last /\ owner[file] = p)
    BY <2>1, <2>3, <1>0, <1>1 DEF IInv, TypeOK, FileIsBacked
  <2> QED BY <2>2, <2>3
<1>10. CountsHolders'
  <2>1. CASE mine
    <3>1. Counted(p)
      <4>1. CASE last
        BY <2>1, <4>1, <1>0, <1>b DEF Counted
      <4>2. CASE ~last
        BY <2>1, <4>2, <1>2, <1>3, <1>b DEF Counted
      <4> QED BY <4>1, <4>2
    <3>2. \A q \in Processes \ {p} : SameHolders(q)
      BY <1>0, <1>1, <1>2 DEF SameHolders, Holders, TypeOK, IInv, Owned
    <3> QED BY <3>1, <3>2, CountsFollow DEF IInv
  <2>2. CASE ~mine
    <3>1. \A q \in Processes : SameHolders(q)
      BY <2>2, <1>0, <1>1, <1>2 DEF SameHolders, Holders, TypeOK, IInv, Owned
    <3> QED BY <3>1, CountsFollow DEF IInv
  <2> QED BY <2>1, <2>2
<1>11. TypeOK'
  <2>1. count' \in [Processes -> 0..Cardinality(Callers)]
    <3>1. Cardinality(Callers) \in Nat
      BY CallersAssumption, FS_CardinalityType
    <3>2. count' \in [Processes -> Int]
      BY <3>1, <1>0, <1>1 DEF TypeOK
    <3> QED BY <3>2, <1>10, CountTypes
  <2> QED BY <1>0, <1>1, <1>2, <2>1 DEF TypeOK, Places
<1> QED BY <1>4, <1>5, <1>6, <1>7, <1>8, <1>9, <1>10, <1>11 DEF IInv

\* The file of a released lock is gone, and of no other that is not torn, or is left.
LEMMA ClosedKeeps == ASSUME IInv, NEW i \in closing, Closed(i) PROVE IInv'
<1>0. TypeOK
  BY DEF IInv
<1>1. /\ closing' = closing \ {i}
      /\ \/ Unlink(i) /\ used' = used
         \/ UnlinkFails(i) /\ Use("errors", MaxErrors)
      /\ UNCHANGED <<filled, old, owner, dead, held, count, pc, lock>>
  BY DEF Closed, ages
<1>2. /\ torn \subseteq torn' /\ {torn', left'} \subseteq SUBSET (1..used.locks) /\ i \in 1..used.locks
      /\ file' \in (1..used.locks) \cup {None}
  BY <1>0, <1>1 DEF TypeOK, Unlink, UnlinkFails
<1>a. used'.locks = used.locks /\ used' \in Counters
  BY <1>0, <1>1, ErrorCounted DEF TypeOK
<1>3. TypeOK'
  BY <1>0, <1>1, <1>2, <1>a DEF TypeOK
<1>4. Placed' /\ Owned' /\ StaleSeen'
  BY <1>0, <1>1, <1>2 DEF IInv, Placed, Owned, StaleSeen, HasLock, Looked
<1>5. WritersAlone' /\ ReleasedAlone'
  BY <1>0, <1>1, <1>2 DEF IInv, WritersAlone, ReleasedAlone, HasLock
<1>6. Kept'
  <2> SUFFICES ASSUME NEW j \in 1..used.locks, InUse(j)', j \notin torn' PROVE file' = j
    BY <1>a DEF Kept
  <2>1. InUse(j)
    BY <1>1 DEF InUse, HasLock
  <2>2. file = j /\ j # None
    BY <2>1, <1>0, <1>2, Made DEF IInv, Kept
  <2>3. CASE Unlink(i)
    <3>1. i \notin torn
      BY <2>2, <2>3 DEF Unlink
    <3>2. file = i
      BY <3>1, <1>2 DEF IInv, Kept, InUse
    <3>3. \A c \in Callers : HasLock(c) => lock[c] # i
      BY <3>1 DEF IInv, ReleasedAlone
    <3>4. \A p \in Processes : held[p] # i
      BY DEF IInv, ReleasedAlone
    <3> QED BY <2>2, <3>2, <3>3, <3>4, <1>1 DEF InUse, HasLock
  <2>4. CASE UnlinkFails(i)
    BY <2>2, <2>4 DEF UnlinkFails
  <2> QED BY <2>3, <2>4, <1>1
<1>7. FileIsBacked'
  <2> SUFFICES ASSUME file' # None, file' \notin dead \cup left' PROVE FileIsBacked'
    BY <1>1 DEF FileIsBacked
  <2>1. file' = file /\ file \notin left /\ owner[file] # owner[i]
    BY <1>1 DEF Unlink, UnlinkFails
  <2> QED BY <2>1, <1>0, <1>1 DEF IInv, TypeOK, FileIsBacked
<1>8. CountsHolders'
  BY <1>1 DEF IInv, CountsHolders
<1> QED BY <1>3, <1>4, <1>5, <1>6, <1>7, <1>8 DEF IInv

\* A lock is taken away from its holders, and its file with it or not.
LEMMA TakeAwayKeeps == ASSUME IInv, NEW p \in Processes, Watchdog(p) \/ Signal(p) PROVE IInv'
<1> DEFINE i == held[p]
<1>0. TypeOK /\ i # None /\ i \in 1..used.locks /\ owner[i] = p /\ i \notin dead
  BY DEF IInv, TypeOK, Watchdog, Signal, Owned
<1>1. /\ held' = [held EXCEPT ![p] = None] /\ count' = [count EXCEPT ![p] = 0]
      /\ \/ file' = file /\ closing' = closing \cup {i} /\ torn' = torn \cup {i} /\ left' = left
         \/ /\ file' = None /\ closing' = closing /\ left' = left
            /\ torn' = torn \cup {i} \cup (IF i \in torn THEN {file} \ {None} ELSE {})
         \/ UnlinkFails(i) /\ closing' = closing
      /\ used'.locks = used.locks /\ used' \in Counters
      /\ UNCHANGED <<filled, old, owner, dead, pc, lock>>
  <2>1. CASE Watchdog(p)
    BY <2>1, <1>0 DEF Watchdog, ages, TypeOK
  <2>2. CASE Signal(p)
    <3>1. /\ used.signals \in 0..MaxSignals /\ used.signals + 1 \in 0..MaxSignals
          /\ used.errors < MaxErrors => used.errors + 1 \in 0..MaxErrors
      BY <2>2, <1>0, LockBoundsAssumption DEF TypeOK, Counters, Signal
    <3>2. \/ used' = [used EXCEPT !.signals = used.signals + 1]
          \/ /\ used.errors < MaxErrors
             /\ used' = [used EXCEPT !.signals = used.signals + 1, !.errors = used.errors + 1]
      BY <2>2 DEF Signal
    <3>3. used'.locks = used.locks /\ used' \in Counters
      BY <3>1, <3>2, <1>0 DEF TypeOK, Counters
    <3> QED BY <2>2, <3>3 DEF Signal, ages
  <2> QED BY <2>1, <2>2
<1>2. torn \subseteq torn' /\ {torn', left'} \subseteq SUBSET (1..used.locks)
  BY <1>0, <1>1 DEF TypeOK, UnlinkFails
<1>b. i \in torn' \/ (closing' = closing /\ file' = file)
  BY <1>1 DEF UnlinkFails
<1>a. /\ held'[p] = None /\ \A q \in Processes \ {p} : held'[q] = held[q] /\ held'[q] # i
      /\ \A c \in Callers : HasLock(c)' <=> HasLock(c)
  BY <1>0, <1>1 DEF IInv, TypeOK, Owned, HasLock
<1>3. CountsHolders'
  BY <1>0, <1>1, CountsFollow DEF IInv, TypeOK, SameHolders, Holders, Counted
<1>4. TypeOK'
  <2>1. count' \in [Processes -> 0..Cardinality(Callers)]
    BY <1>0, <1>1, CallersAssumption, FS_CardinalityType DEF TypeOK
  <2>2. /\ file' \in (1..used.locks) \cup {None} /\ closing' \subseteq 1..used.locks
        /\ held' \in [Processes -> (1..used.locks) \cup {None}]
    BY <1>0, <1>1 DEF TypeOK, UnlinkFails
  <2> QED BY <1>0, <1>1, <1>2, <2>1, <2>2 DEF TypeOK
<1>5. Placed' /\ Owned' /\ StaleSeen'
  BY <1>0, <1>1, <1>2 DEF IInv, TypeOK, Placed, Owned, StaleSeen, HasLock, Looked
<1>6. WritersAlone' /\ ReleasedAlone'
  <2>1. closing' \subseteq closing \cup {i} /\ None \notin closing
    BY <1>0, <1>1, <1>2, Made DEF TypeOK
  <2>2. WritersAlone'
    <3> SUFFICES ASSUME NEW c \in Callers, pc[c] = "writing" PROVE
          /\ \A d \in Callers \ {c} : HasLock(d) => lock[d] # lock[c]
          /\ \A q \in Processes : held'[q] # lock[c]
          /\ lock[c] \notin closing'
      BY <1>1, <1>a DEF WritersAlone
    <3>1. /\ \A d \in Callers \ {c} : HasLock(d) => lock[d] # lock[c]
          /\ \A q \in Processes : held[q] # lock[c]
          /\ lock[c] \notin closing /\ lock[c] # None
      BY DEF IInv, WritersAlone, Placed, HasLock
    <3> QED BY <3>1, <2>1, <1>a
  <2>3. ReleasedAlone'
    BY <2>1, <1>0, <1>1, <1>2, <1>a, <1>b DEF IInv, ReleasedAlone
  <2> QED BY <2>2, <2>3
<1>7. Kept'
  <2> SUFFICES ASSUME NEW j \in 1..used.locks, InUse(j)', j \notin torn' PROVE file' = j
    BY <1>1 DEF Kept
  <2>1. InUse(j)
    <3>1. j # None
      BY <1>0, Made
    <3>2. j \in closing' => j \in closing \/ j = i
      BY <1>1
    <3> QED BY <3>1, <3>2, <1>0, <1>1, <1>a DEF InUse
  <2>2. file = j /\ j # None
    BY <2>1, <1>0, <1>2, Made DEF IInv, Kept
  <2>3. CASE file' = file
    BY <2>2, <2>3
  <2>4. CASE file' # file
    <3>1. i \in torn' /\ j # i
      BY <2>4, <1>b, <1>1 DEF UnlinkFails
    <3>2. i \in torn
      BY <2>2, <3>1, <1>0 DEF IInv, Kept, InUse
    <3> QED BY <2>2, <3>2, <2>4, <1>1 DEF UnlinkFails
  <2> QED BY <2>3, <2>4
<1>8. FileIsBacked'
  <2> SUFFICES ASSUME file' # None, file' \notin dead \cup left' PROVE FileIsBacked'
    BY <1>1 DEF FileIsBacked
  <2>1. /\ file' = file /\ owner[file] \in Processes /\ file \notin left
        /\ closing' = closing \cup {i} \/ (closing' = closing /\ owner[file] # p)
    BY <1>0, <1>1 DEF TypeOK, UnlinkFails
  <2> QED BY <2>1, <1>0, <1>1 DEF IInv, TypeOK, FileIsBacked
<1> QED BY <1>3, <1>4, <1>5, <1>6, <1>7, <1>8 DEF IInv

\* What a dead process had is no one's.
LEMMA CrashKeeps == ASSUME IInv, NEW p \in Processes, Crash(p) PROVE IInv'
<1>0. TypeOK
  BY DEF IInv
<1>1. /\ dead' = dead \cup {i \in 1..used.locks : owner[i] = p}
      /\ held' = [held EXCEPT ![p] = None] /\ count' = [count EXCEPT ![p] = 0]
      /\ closing' = {i \in closing : owner[i] # p}
      /\ pc' = [c \in Callers |-> IF ProcessOf[c] = p THEN "idle" ELSE pc[c]]
      /\ lock' = [c \in Callers |-> IF ProcessOf[c] = p THEN None ELSE lock[c]]
      /\ used'.locks = used.locks
      /\ used' \in Counters
      /\ UNCHANGED <<file, filled, old, owner, torn, left>>
  <2>1. used.crashes < MaxCrashes /\ used' = [used EXCEPT !.crashes = used.crashes + 1]
    BY DEF Crash, Use
  <2>2. /\ used'.locks = used.locks
        /\ used' \in Counters
    <3>1. used.crashes + 1 \in 0..MaxCrashes
      BY <1>0, <2>1, LockBoundsAssumption DEF TypeOK, Counters
    <3> QED BY <3>1, <1>0, <2>1 DEF TypeOK, Counters
  <2> QED BY <2>2 DEF Crash, ages
<1>2. \A c \in Callers : ProcessOf[c] = p => pc'[c] = "idle" /\ lock'[c] = None
  BY <1>1
<1>3. \A c \in Callers : ProcessOf[c] # p => pc'[c] = pc[c] /\ lock'[c] = lock[c]
  BY <1>1
<1>a. /\ \A c \in Callers : HasLock(c)' => HasLock(c) /\ lock'[c] = lock[c]
      /\ \A q \in Processes : held'[q] \in {None, held[q]}
  BY <1>0, <1>1, <1>2, <1>3 DEF TypeOK, HasLock
<1>4. TypeOK'
  <2>1. count' \in [Processes -> 0..Cardinality(Callers)]
    BY <1>0, <1>1, CallersAssumption, FS_CardinalityType DEF TypeOK
  <2> QED BY <1>0, <1>1, <2>1 DEF TypeOK, Places
<1>5. Placed' /\ StaleSeen'
  BY <1>1, <1>2, <1>3 DEF IInv, Placed, StaleSeen, HasLock, Looked
<1>6. Owned'
  <2>1. \A c \in Callers : HasLock(c)' => owner'[lock'[c]] = ProcessOf[c] /\ lock'[c] \notin dead'
    BY <1>1, <1>2, <1>3 DEF IInv, Owned, HasLock
  <2>2. \A q \in Processes : held'[q] # None => owner'[held'[q]] = q /\ held'[q] \notin dead'
    BY <1>0, <1>1 DEF IInv, TypeOK, Owned
  <2>3. closing' \cap dead' = {}
    BY <1>0, <1>1 DEF IInv, Owned
  <2> QED BY <2>1, <2>2, <2>3 DEF Owned
<1>7. WritersAlone'
  BY <1>0, <1>1, <1>2, <1>3 DEF IInv, TypeOK, Placed, WritersAlone, HasLock
<1>8. ReleasedAlone'
  <2>1. \A i \in closing' : i \in closing /\ i # None
    BY <1>0, <1>1, Made DEF TypeOK
  <2> QED BY <2>1, <1>1, <1>a DEF IInv, ReleasedAlone
<1>9. Kept'
  <2>1. \A i \in 1..used.locks : InUse(i)' => InUse(i)
    <3>1. \A i \in 1..used.locks : i # None
      BY <1>0, Made
    <3> QED BY <3>1, <1>1, <1>a DEF InUse
  <2> QED BY <2>1, <1>1 DEF IInv, Kept
<1>10. FileIsBacked'
  <2> SUFFICES ASSUME file # None, file \notin dead' \cup left PROVE FileIsBacked'
    BY <1>1 DEF FileIsBacked
  <2>1. file \in 1..used.locks /\ owner[file] \in Processes \ {p} /\ file \notin dead \cup left
    BY <1>0, <1>1 DEF TypeOK
  <2> QED BY <2>1, <1>0, <1>1, <1>3 DEF IInv, TypeOK, FileIsBacked
<1>11. CountsHolders'
  <2>1. Counted(p)
    BY <1>0, <1>1 DEF Counted, TypeOK
  <2>2. \A q \in Processes \ {p} : SameHolders(q)
    <3> SUFFICES ASSUME NEW q \in Processes \ {p}, held[q] # None PROVE Holders(q)' = Holders(q)
      BY <1>0, <1>1 DEF SameHolders, TypeOK
    <3>1. \A c \in Holders(q) : ProcessOf[c] # p
      BY DEF Holders, IInv, Owned, HasLock
    <3>2. held'[q] = held[q]
      BY <1>0, <1>1 DEF TypeOK
    <3> QED BY <3>1, <3>2, <1>2, <1>3 DEF Holders
  <2> QED BY <2>1, <2>2, CountsFollow DEF IInv
<1> QED BY <1>4, <1>5, <1>6, <1>7, <1>8, <1>9, <1>10, <1>11 DEF IInv

-----------------------------------------------------------------------------
\* No file, no lock, no holder.
LEMMA InitIInv == Init => IInv
<1> SUFFICES ASSUME Init PROVE IInv
  OBVIOUS
<1>1. TypeOK
  <2>1. owner \in [1..used.locks -> Processes]
    BY DEF Init
  <2>2. count \in [Processes -> 0..Cardinality(Callers)]
    BY CallersAssumption, FS_CardinalityType DEF Init
  <2> QED BY <2>1, <2>2, LockBoundsAssumption DEF Init, TypeOK, None, Places, Counters
<1>2. Placed /\ Owned /\ WritersAlone /\ ReleasedAlone /\ Kept /\ StaleSeen
  BY LockBoundsAssumption DEF Init, Placed, Owned, WritersAlone, ReleasedAlone, Kept, StaleSeen, HasLock, Looked, None
<1>3. FileIsBacked /\ CountsHolders
  BY DEF Init, FileIsBacked, CountsHolders
<1> QED BY <1>1, <1>2, <1>3 DEF IInv

\* Every step keeps the invariant.
LEMMA NextIInv == IInv /\ [Next]_vars => IInv'
<1> SUFFICES ASSUME IInv, [Next]_vars PROVE IInv'
  OBVIOUS
<1>1. CASE UNCHANGED vars
  <2>1. TypeOK' /\ Placed' /\ Owned' /\ StaleSeen'
    BY <1>1 DEF vars, IInv, TypeOK, Placed, Owned, StaleSeen, HasLock, Looked
  <2>2. WritersAlone' /\ ReleasedAlone' /\ Kept' /\ FileIsBacked' /\ CountsHolders'
    BY <1>1 DEF vars, IInv, WritersAlone, ReleasedAlone, Kept, FileIsBacked, CountsHolders, InUse, HasLock
  <2> QED BY <2>1, <2>2 DEF IInv
<1>2. ASSUME NEW c \in Callers, CallerStep(c) PROVE IInv'
  BY <1>2, ShareKeeps, LookingKeeps, CreateKeeps, FillKeeps, FillFailsKeeps, RemoveKeeps, ReleaseKeeps
     DEF CallerStep
<1>3. ASSUME NEW p \in Processes, Watchdog(p) \/ Signal(p) \/ Crash(p) PROVE IInv'
  BY <1>3, TakeAwayKeeps, CrashKeeps
<1>4. ASSUME NEW i \in Locks, Closed(i) PROVE IInv'
  BY <1>4, ClosedKeeps DEF Closed
<1>5. CASE Age
  BY <1>5, AgeKeeps
<1> QED BY <1>1, <1>2, <1>3, <1>4, <1>5 DEF Next

\* The inductive invariant: who has a lock and who may still remove its file.
THEOREM Invariance == Spec => []IInv
BY InitIInv, NextIInv, PTL DEF Spec

\* The lock's registry, files and callers keep their types; the count of a lock
\* never exceeds the callers of acquireSessionWriteLock.
THEOREM LockTypes == Spec => []TypeOK
<1>1. IInv => TypeOK
  BY DEF IInv
<1> QED BY <1>1, Invariance, PTL

\* Two write locks of a session file are held at a time only if one of them was
\* taken away: by the removal of a lock taken for stale or of its successor, the
\* watchdog, a signal, or the owner of a lock that was.
THEOREM LocksAreExclusive == Spec => []Exclusive
<1>1. IInv => Exclusive
  <2> SUFFICES ASSUME IInv, NEW c \in Callers, NEW d \in Callers,
                      pc[c] = "holding", pc[d] = "holding", {lock[c], lock[d]} \cap torn = {}
               PROVE  lock[c] = lock[d]
    BY DEF Exclusive
  <2>1. ASSUME NEW e \in {c, d} PROVE lock[e] = file
    <3>1. HasLock(e) /\ lock[e] \in 1..used.locks
      BY DEF IInv, Placed, TypeOK, HasLock
    <3> QED BY <3>1 DEF IInv, Kept, InUse
  <2> QED BY <2>1
<1> QED BY <1>1, Invariance, PTL

\* No lock file is left behind by a process that lives, whichever way it let go,
\* unless its removal failed.
THEOREM FilesAreBacked == Spec => []FileIsBacked
<1>1. IInv => FileIsBacked
  BY DEF IInv
<1> QED BY <1>1, Invariance, PTL

\* HELD_LOCKS counts exactly the callers that have yet to release the lock held.
THEOREM CountsAreExact == Spec => []CountsHolders
<1>1. IInv => CountsHolders
  BY DEF IInv
<1> QED BY <1>1, Invariance, PTL
=============================================================================
