------------------------- MODULE CommandLanesProofs -------------------------
(***************************************************************************)
(* Proofs about CommandLanes, for every set of lanes, entries and waiters. *)
(*                                                                         *)
(* Every operation of the module that starts tasks does it through         *)
(* DrainLanes, from lane data the operation has just changed.  So the      *)
(* argument has one lemma about drainLane (DrainEstablishes): from data    *)
(* that are Ready it produces a state where the invariant holds.  Each     *)
(* operation then only has to be shown to hand Ready data to drainLane.    *)
(***************************************************************************)
EXTENDS CommandLanes, FiniteSetTheorems, SequenceTheorems, TLAPS

-----------------------------------------------------------------------------
(* The inductive invariant. *)

\* No task carries a generation its lane has not reached yet.
GenerationBound == \A e \in Entries : taskGeneration[e] <= generation[LaneOf[e]]

\* A waiter's snapshot holds only tasks that were started.
AwaitedWereStarted ==
  \A w \in Waiters : \A e \in awaited[w] : status[e] \notin {"none", "queued"}

LaneInv == /\ SlotsAreCurrentTasks
           /\ QueuesBackPromises
           /\ GenerationBound
           /\ WorkConserving

IInv == TypeOK /\ LaneInv /\ AwaitedWereStarted /\ WaitersExact

\* Lane data in the middle of an operation, just before drainLane runs: the
\* invariant holds of them, except that a lane may have a free slot and a queue.
Ready(q, a, cap, gen, st) ==
  /\ q \in [Lanes -> Seq(Entries)]
  /\ a \in [Lanes -> SUBSET Entries]
  /\ cap \in [Lanes -> Nat \ {0}]
  /\ gen \in [Lanes -> Nat]
  /\ st \in [Entries -> Unsettled \cup Settled]
  /\ taskGeneration \in [Entries -> Nat]
  /\ \A e \in Entries : taskGeneration[e] <= gen[LaneOf[e]]
  /\ \A l \in Lanes :
       a[l] = {e \in Entries : LaneOf[e] = l /\ st[e] = "running" /\ taskGeneration[e] = gen[l]}
  /\ \A e \in Entries :
       st[e] = "queued" <=> \E i \in 1..Len(q[LaneOf[e]]) : q[LaneOf[e]][i] = e
  /\ \A l \in Lanes : \A i, j \in 1..Len(q[l]) :
       LaneOf[q[l][i]] = l /\ (q[l][i] = q[l][j] => i = j)

\* t is what is left of s when its first elements are taken away.
EndOf(t, s) ==
  \E n \in Nat : /\ Len(t) = Len(s) - n
                 /\ \A i \in 1..Len(t) : t[i] = s[n + i]

\* The lanes ls keep no entry waiting while they have a free slot.
Occupied(ls, q, a, cap) ==
  \A l \in ls : q[l] # << >> => Cardinality(a[l]) >= cap[l]

-----------------------------------------------------------------------------
(* The loop of pump. *)

\* pump takes no more than the queue has, stops short only at the cap, and
\* takes something only up to the cap.
LEMMA StartCountBounds ==
  ASSUME NEW q \in Seq(Entries), NEW a \in SUBSET Entries, NEW cap \in Nat
  PROVE  LET k == StartCount(q, a, cap)
         IN  /\ k \in 0..Len(q)
             /\ k < Len(q) => Cardinality(a) + k >= cap
             /\ k > 0 => Cardinality(a) + k <= cap
<1>1. Cardinality(a) \in Nat
  BY LanesAssumption, FS_Subset, FS_CardinalityType
<1>2. Len(q) \in Nat
  BY LenProperties
<1> QED
  BY <1>1, <1>2 DEF StartCount

\* Shifting k distinct entries that are not active adds k tasks.
LEMMA ShiftedCardinality ==
  ASSUME NEW q \in Seq(Entries), NEW a \in SUBSET Entries, NEW k \in 0..Len(q),
         \A i, j \in 1..Len(q) : q[i] = q[j] => i = j,
         FirstOf(q, k) \cap a = {}
  PROVE  /\ FirstOf(q, k) \in SUBSET Entries
         /\ Cardinality(a \cup FirstOf(q, k)) = Cardinality(a) + k
<1> DEFINE f == [i \in 1..k |-> q[i]]
           F == FirstOf(q, k)
<1>1. Len(q) \in Nat /\ q \in [1..Len(q) -> Entries]
  BY LenProperties
<1>2. F \in SUBSET Entries
  BY <1>1 DEF FirstOf
<1>3. f \in Bijection(1..k, F)
  <2>1. f \in [1..k -> F]
    BY DEF FirstOf
  <2>2. \A i, j \in 1..k : f[i] = f[j] => i = j
    BY <1>1
  <2>3. \A e \in F : \E i \in 1..k : f[i] = e
    BY DEF FirstOf
  <2> QED
    BY <2>1, <2>2, <2>3 DEF Bijection, Injection, Surjection, IsInjective
<1>4. IsFiniteSet(1..k) /\ Cardinality(1..k) = k
  BY <1>1, FS_Interval
<1>5. IsFiniteSet(F) /\ Cardinality(F) = k
  BY <1>3, <1>4, FS_Bijection DEF ExistsBijection
<1>6. IsFiniteSet(a) /\ Cardinality(a) \in Nat
  BY LanesAssumption, FS_Subset, FS_CardinalityType
<1>7. Cardinality(a \cup F) = Cardinality(a) + Cardinality(F) - Cardinality(a \cap F)
  BY <1>5, <1>6, FS_Union
<1>8. Cardinality(a \cap F) = 0
  BY FS_EmptySet
<1> QED
  BY <1>1, <1>2, <1>5, <1>6, <1>7, <1>8

-----------------------------------------------------------------------------
(* drainLane. *)

\* What one lane's pump takes from Ready data and what it leaves: its shifted
\* entries were queued on it, the rest keeps its order, and the lane is then
\* full or its queue is empty.
LEMMA PumpOneLane ==
  ASSUME NEW q, NEW a, NEW cap, NEW gen, NEW st, NEW l \in Lanes,
         Ready(q, a, cap, gen, st)
  PROVE  LET S == Shifted(q[l], a[l], cap[l])
             k == StartCount(q[l], a[l], cap[l])
             R == Rest(q[l], a[l], cap[l])
         IN  /\ k \in 0..Len(q[l])
             /\ S \in SUBSET Entries
             /\ \A e \in S : LaneOf[e] = l /\ st[e] = "queued"
             /\ R \in Seq(Entries)
             /\ Len(R) = Len(q[l]) - k
             /\ \A i \in 1..Len(R) : R[i] = q[l][k + i]
             /\ R # << >> => Cardinality(a[l] \cup S) >= cap[l]
             /\ S # {} => Cardinality(a[l] \cup S) <= cap[l]
<1> DEFINE k == StartCount(q[l], a[l], cap[l])
           S == FirstOf(q[l], k)
           R == SubSeq(q[l], k + 1, Len(q[l]))
<1>1. /\ q[l] \in Seq(Entries) /\ a[l] \in SUBSET Entries /\ cap[l] \in Nat
      /\ \A i, j \in 1..Len(q[l]) : LaneOf[q[l][i]] = l /\ (q[l][i] = q[l][j] => i = j)
  BY DEF Ready
<1>2. Len(q[l]) \in Nat /\ q[l] \in [1..Len(q[l]) -> Entries]
  BY <1>1, LenProperties
<1>3. /\ k \in 0..Len(q[l])
      /\ k < Len(q[l]) => Cardinality(a[l]) + k >= cap[l]
      /\ k > 0 => Cardinality(a[l]) + k <= cap[l]
  BY <1>1, StartCountBounds
<1>4. \A e \in S : e \in Entries /\ LaneOf[e] = l /\ st[e] = "queued"
  <2> SUFFICES ASSUME NEW e \in S PROVE e \in Entries /\ LaneOf[e] = l /\ st[e] = "queued"
    OBVIOUS
  <2>1. PICK i \in 1..k : q[l][i] = e
    BY DEF FirstOf
  <2>2. i \in 1..Len(q[l])
    BY <1>2, <1>3
  <2>3. e \in Entries /\ LaneOf[e] = l
    BY <1>1, <1>2, <2>1, <2>2
  <2> QED
    BY <2>1, <2>2, <2>3 DEF Ready
<1>5. S \cap a[l] = {}
  <2>1. \A e \in a[l] : st[e] = "running"
    BY DEF Ready
  <2> QED
    BY <1>4, <2>1
<1>6. Cardinality(a[l] \cup S) = Cardinality(a[l]) + k
  BY <1>1, <1>3, <1>5, ShiftedCardinality
<1>7. \A i \in k + 1..Len(q[l]) : q[l][i] \in Entries
  BY <1>2, <1>3
<1>8. /\ R \in Seq(Entries)
      /\ Len(R) = Len(q[l]) - k
      /\ \A i \in 1..Len(R) : R[i] = q[l][k + i]
  <2>1. k + 1 \in Int /\ Len(q[l]) \in Int
    BY <1>2, <1>3
  <2>2. /\ R \in Seq(Entries)
        /\ Len(R) = IF k + 1 <= Len(q[l]) THEN Len(q[l]) - (k + 1) + 1 ELSE 0
        /\ \A i \in 1..Len(q[l]) - (k + 1) + 1 : R[i] = q[l][(k + 1) + i - 1]
    BY <1>7, <2>1, SubSeqProperties
  <2>3. Len(R) = Len(q[l]) - k
    BY <1>2, <1>3, <2>2
  <2>4. ASSUME NEW i \in 1..Len(R) PROVE R[i] = q[l][k + i]
    <3>1. i \in 1..Len(q[l]) - (k + 1) + 1 /\ (k + 1) + i - 1 = k + i
      BY <1>2, <1>3, <2>3
    <3> QED
      BY <2>2, <3>1
  <2> QED
    BY <2>2, <2>3, <2>4
<1>9. R # << >> => k < Len(q[l])
  BY <1>2, <1>3, <1>8, EmptySeq
<1>10. S # {} => k > 0
  BY <1>3 DEF FirstOf
<1> QED
  BY <1>3, <1>4, <1>6, <1>8, <1>9, <1>10 DEF Shifted, Rest

\* All that drainLane on Ready data ensures.
LEMMA DrainFacts ==
  ASSUME NEW q, NEW a, NEW cap, NEW gen, NEW st, NEW ls \in SUBSET Lanes,
         Ready(q, a, cap, gen, st),
         Occupied(Lanes \ ls, q, a, cap),
         DrainLanes(ls, q, a, cap, gen, st),
         maxConcurrent' = cap, generation' = gen
  PROVE  /\ queue' \in [Lanes -> Seq(Entries)]
         /\ active' \in [Lanes -> SUBSET Entries]
         /\ status' \in [Entries -> Unsettled \cup Settled]
         /\ taskGeneration' \in [Entries -> Nat]
         /\ LaneInv'
         /\ \A e \in Entries : st[e] # "queued" => status'[e] = st[e]
         /\ \A e \in Entries : st[e] = "queued" => status'[e] \in {"queued", "running"}
         /\ \A l \in Lanes : \A e \in a[l] : e \in active'[l]
         /\ \A l \in Lanes : \A e \in active'[l] \ a[l] : st[e] = "queued"
         /\ \A l \in Lanes : active'[l] # a[l] => Cardinality(active'[l]) <= cap[l]
         /\ \A l \in Lanes : \A i, j \in 1..Len(q[l]) :
              i < j /\ status'[q[l][j]] = "running" => status'[q[l][i]] # "queued"
         /\ \A l \in Lanes : EndOf(queue'[l], q[l])
<1> DEFINE S(l) == Shifted(q[l], a[l], cap[l])
           R(l) == Rest(q[l], a[l], cap[l])
           k(l) == StartCount(q[l], a[l], cap[l])
           started == UNION {S(l) : l \in ls}
<1>1. \A l \in Lanes : /\ k(l) \in 0..Len(q[l])
                       /\ S(l) \in SUBSET Entries
                       /\ \A e \in S(l) : LaneOf[e] = l /\ st[e] = "queued"
                       /\ R(l) \in Seq(Entries)
                       /\ Len(R(l)) = Len(q[l]) - k(l)
                       /\ \A i \in 1..Len(R(l)) : R(l)[i] = q[l][k(l) + i]
                       /\ R(l) # << >> => Cardinality(a[l] \cup S(l)) >= cap[l]
                       /\ S(l) # {} => Cardinality(a[l] \cup S(l)) <= cap[l]
  BY PumpOneLane
<1>2. \A e \in Entries : e \in started <=> LaneOf[e] \in ls /\ e \in S(LaneOf[e])
  <2>1. \A l \in ls : \A e \in S(l) : LaneOf[e] = l
    BY <1>1
  <2> HIDE DEF S, R, k
  <2>2. \A e \in Entries : e \in started <=> \E l \in ls : e \in S(l)
    OBVIOUS
  <2> HIDE DEF started
  <2> QED
    BY <2>1, <2>2
<1>3. /\ queue'  = [l \in Lanes |-> IF l \in ls THEN R(l) ELSE q[l]]
      /\ active' = [l \in Lanes |-> IF l \in ls THEN a[l] \cup S(l) ELSE a[l]]
      /\ status' = [e \in Entries |-> IF e \in started THEN "running" ELSE st[e]]
      /\ taskGeneration' = [e \in Entries |-> IF e \in started THEN gen[LaneOf[e]]
                                                               ELSE taskGeneration[e]]
  BY DEF DrainLanes
<1> HIDE DEF S, R, k, started
<1>4. LaneOf \in [Entries -> Lanes]
  BY LanesAssumption
<1>5. \A e \in started : e \in Entries => st[e] = "queued"
  BY <1>1, <1>2, <1>4
<1>6. /\ queue' \in [Lanes -> Seq(Entries)]
      /\ active' \in [Lanes -> SUBSET Entries]
      /\ status' \in [Entries -> Unsettled \cup Settled]
      /\ taskGeneration' \in [Entries -> Nat]
  <2>1. queue' \in [Lanes -> Seq(Entries)]
    BY <1>1, <1>3 DEF Ready
  <2>2. active' \in [Lanes -> SUBSET Entries]
    BY <1>1, <1>3 DEF Ready
  <2>3. status' \in [Entries -> Unsettled \cup Settled]
    BY <1>3 DEF Ready, Unsettled
  <2>4. taskGeneration' \in [Entries -> Nat]
    BY <1>3, <1>4 DEF Ready
  <2> QED
    BY <2>1, <2>2, <2>3, <2>4
<1>7. SlotsAreCurrentTasks'
  <2> SUFFICES ASSUME NEW l \in Lanes, NEW e \in Entries
               PROVE  e \in active'[l] <=> /\ LaneOf[e] = l
                                           /\ status'[e] = "running"
                                           /\ taskGeneration'[e] = generation'[l]
    BY <1>6 DEF SlotsAreCurrentTasks
  <2>1. e \in a[l] <=> LaneOf[e] = l /\ st[e] = "running" /\ taskGeneration[e] = gen[l]
    BY DEF Ready
  <2>2. CASE e \in started
    <3>1. st[e] = "queued"
      BY <1>5, <2>2
    <3>2. e \in active'[l] <=> LaneOf[e] = l
      BY <1>1, <1>2, <1>3, <2>1, <2>2, <3>1
    <3> QED
      BY <1>3, <2>2, <3>2
  <2>3. CASE e \notin started
    <3>1. e \in active'[l] <=> e \in a[l]
      <4>1. l \in ls => e \notin S(l)
        BY <1>1, <1>2, <2>3
      <4> QED
        BY <1>3, <4>1
    <3> QED
      BY <1>3, <2>1, <2>3, <3>1
  <2> QED
    BY <2>2, <2>3
<1>8. QueuesBackPromises'
  <2>1. ASSUME NEW l \in Lanes, NEW i \in 1..Len(queue'[l]), NEW j \in 1..Len(queue'[l])
        PROVE  LaneOf[queue'[l][i]] = l /\ (queue'[l][i] = queue'[l][j] => i = j)
    <3>1. \A x, y \in 1..Len(q[l]) : LaneOf[q[l][x]] = l /\ (q[l][x] = q[l][y] => x = y)
      BY DEF Ready
    <3>2. CASE l \in ls
      <4>1. queue'[l] = R(l)
        BY <1>3, <3>2
      <4>2. Len(q[l]) \in Nat
        BY LenProperties DEF Ready
      <4>3. k(l) \in 0..Len(q[l]) /\ Len(R(l)) = Len(q[l]) - k(l)
        BY <1>1
      <4>4. k(l) + i \in 1..Len(q[l]) /\ k(l) + j \in 1..Len(q[l])
        BY <4>1, <4>2, <4>3
      <4>5. R(l)[i] = q[l][k(l) + i] /\ R(l)[j] = q[l][k(l) + j]
        BY <1>1, <4>1
      <4>6. k(l) + i = k(l) + j => i = j
        BY <4>1, <4>2, <4>3
      <4> QED
        BY <3>1, <4>1, <4>4, <4>5, <4>6
    <3>3. CASE l \notin ls
      BY <1>3, <3>1, <3>3
    <3> QED
      BY <3>2, <3>3
  <2>2. ASSUME NEW e \in Entries
        PROVE  status'[e] = "queued" <=>
                 \E i \in 1..Len(queue'[LaneOf[e]]) : queue'[LaneOf[e]][i] = e
    <3> DEFINE l == LaneOf[e]
    <3>1. l \in Lanes
      BY <1>4
    <3>2. st[e] = "queued" <=> \E i \in 1..Len(q[l]) : q[l][i] = e
      BY DEF Ready
    <3>3. \A x, y \in 1..Len(q[l]) : q[l][x] = q[l][y] => x = y
      BY <3>1 DEF Ready
    <3>4. Len(q[l]) \in Nat
      BY <3>1, LenProperties DEF Ready
    <3>5. S(l) = {q[l][i] : i \in 1..k(l)}
      BY DEF S, k, Shifted, FirstOf
    <3> HIDE DEF l
    <3>6. CASE l \in ls
      <4>1. queue'[l] = R(l)
        BY <1>3, <3>1, <3>6
      <4>2. e \in started <=> \E i \in 1..k(l) : q[l][i] = e
        BY <1>2, <3>5, <3>6 DEF l
      <4>3. k(l) \in 0..Len(q[l]) /\ Len(R(l)) = Len(q[l]) - k(l)
        BY <1>1, <3>1
      <4>4. \A i \in 1..Len(R(l)) : R(l)[i] = q[l][k(l) + i]
        BY <1>1, <3>1
      <4>5. (\E i \in 1..Len(R(l)) : R(l)[i] = e)
               <=> \E x \in k(l) + 1..Len(q[l]) : q[l][x] = e
        <5>1. ASSUME NEW i \in 1..Len(R(l)), R(l)[i] = e
              PROVE  \E x \in k(l) + 1..Len(q[l]) : q[l][x] = e
          <6>1. k(l) + i \in k(l) + 1..Len(q[l])
            BY <3>4, <4>3
          <6>2. q[l][k(l) + i] = e
            BY <4>4, <5>1
          <6> QED
            BY <6>1, <6>2
        <5>2. ASSUME NEW x \in k(l) + 1..Len(q[l]), q[l][x] = e
              PROVE  \E i \in 1..Len(R(l)) : R(l)[i] = e
          <6>1. x - k(l) \in 1..Len(R(l)) /\ k(l) + (x - k(l)) = x
            BY <3>4, <4>3
          <6>2. R(l)[x - k(l)] = e
            BY <4>4, <5>2, <6>1
          <6> QED
            BY <6>1, <6>2
        <5> QED
          BY <5>1, <5>2
      <4>6. CASE e \in started
        <5>1. PICK i \in 1..k(l) : q[l][i] = e
          BY <4>2, <4>6
        <5>2. ~ \E x \in k(l) + 1..Len(q[l]) : q[l][x] = e
          BY <3>3, <3>4, <4>3, <5>1
        <5>3. status'[e] = "running"
          BY <1>3, <4>6
        <5> QED
          BY <4>1, <4>5, <5>2, <5>3 DEF l
      <4>7. CASE e \notin started
        <5>1. status'[e] = st[e]
          BY <1>3, <4>7
        <5>2. (\E i \in 1..Len(q[l]) : q[l][i] = e)
                 <=> \E x \in k(l) + 1..Len(q[l]) : q[l][x] = e
          BY <3>4, <4>2, <4>3, <4>7
        <5> QED
          BY <3>2, <4>1, <4>5, <5>1, <5>2 DEF l
      <4> QED
        BY <4>6, <4>7
    <3>7. CASE l \notin ls
      BY <1>2, <1>3, <3>1, <3>2, <3>7 DEF l
    <3> QED
      BY <3>6, <3>7
  <2> QED
    BY <2>1, <2>2 DEF QueuesBackPromises
<1>9. GenerationBound'
  <2> SUFFICES ASSUME NEW e \in Entries PROVE taskGeneration'[e] <= gen[LaneOf[e]]
    BY DEF GenerationBound
  <2>1. gen[LaneOf[e]] \in Nat /\ taskGeneration[e] <= gen[LaneOf[e]]
    BY <1>4 DEF Ready
  <2> QED
    BY <1>3, <2>1
<1>10. WorkConserving'
  BY <1>1, <1>3 DEF WorkConserving, Occupied
<1>11. \A l \in Lanes : /\ \A e \in a[l] : e \in active'[l]
                        /\ \A e \in active'[l] \ a[l] : st[e] = "queued"
                        /\ active'[l] # a[l] => Cardinality(active'[l]) <= cap[l]
  BY <1>1, <1>3
<1>12. \A e \in Entries : /\ st[e] # "queued" => status'[e] = st[e]
                          /\ st[e] = "queued" => status'[e] \in {"queued", "running"}
  BY <1>3, <1>5
<1>13. ASSUME NEW l \in Lanes, NEW i \in 1..Len(q[l]), NEW j \in 1..Len(q[l]),
              i < j, status'[q[l][j]] = "running"
       PROVE  status'[q[l][i]] # "queued"
  <2>1. Len(q[l]) \in Nat /\ q[l][i] \in Entries /\ q[l][j] \in Entries
    BY LenProperties, ElementOfSeq DEF Ready
  <2>2. \A x, y \in 1..Len(q[l]) : LaneOf[q[l][x]] = l /\ (q[l][x] = q[l][y] => x = y)
    BY DEF Ready
  <2>3. st[q[l][j]] = "queued"
    <3>1. LaneOf[q[l][j]] = l
      BY <2>2
    <3>2. st[q[l][j]] = "queued" <=>
            \E x \in 1..Len(q[LaneOf[q[l][j]]]) : q[LaneOf[q[l][j]]][x] = q[l][j]
      BY <2>1 DEF Ready
    <3> QED
      BY <3>1, <3>2
  <2>4. q[l][j] \in started
    BY <1>3, <1>13, <2>1, <2>3
  <2>5. l \in ls /\ q[l][j] \in S(l)
    BY <1>2, <2>1, <2>2, <2>4
  <2>6. S(l) = {q[l][x] : x \in 1..k(l)}
    BY DEF S, k, Shifted, FirstOf
  <2>7. PICK x \in 1..k(l) : q[l][x] = q[l][j]
    BY <2>5, <2>6
  <2>8. k(l) \in 0..Len(q[l])
    BY <1>1
  <2>9. j \in 1..k(l)
    BY <2>1, <2>2, <2>7, <2>8
  <2>10. i \in 1..k(l)
    BY <1>13, <2>1, <2>8, <2>9
  <2>11. q[l][i] \in started
    BY <1>2, <2>1, <2>2, <2>5, <2>6, <2>10
  <2> QED
    BY <1>3, <2>1, <2>11
<1>14. ASSUME NEW l \in Lanes
       PROVE  EndOf(queue'[l], q[l])
  <2>1. Len(q[l]) \in Nat
    BY LenProperties DEF Ready
  <2>2. CASE l \in ls
    <3>1. queue'[l] = R(l)
      BY <1>3, <2>2
    <3>2. k(l) \in 0..Len(q[l]) /\ Len(R(l)) = Len(q[l]) - k(l)
      BY <1>1
    <3>3. \A i \in 1..Len(R(l)) : R(l)[i] = q[l][k(l) + i]
      BY <1>1
    <3>4. k(l) \in Nat
      BY <2>1, <3>2
    <3> QED
      BY <3>1, <3>2, <3>3, <3>4 DEF EndOf
  <2>3. CASE l \notin ls
    <3>1. queue'[l] = q[l]
      BY <1>3, <2>3
    <3>2. /\ Len(queue'[l]) = Len(q[l]) - 0
          /\ \A i \in 1..Len(queue'[l]) : queue'[l][i] = q[l][0 + i]
      BY <2>1, <3>1
    <3> QED
      BY <3>2 DEF EndOf
  <2> QED
    BY <2>2, <2>3
<1> QED
  BY <1>6, <1>7, <1>8, <1>9, <1>10, <1>11, <1>12, <1>13, <1>14 DEF LaneInv

\* drainLane on Ready data establishes the lane invariant, keeps what is not
\* queued as it is, and starts queued entries only, within the caps.
LEMMA DrainEstablishes ==
  ASSUME NEW q, NEW a, NEW cap, NEW gen, NEW st, NEW ls \in SUBSET Lanes,
         Ready(q, a, cap, gen, st),
         Occupied(Lanes \ ls, q, a, cap),
         DrainLanes(ls, q, a, cap, gen, st),
         maxConcurrent' = cap, generation' = gen
  PROVE  /\ queue' \in [Lanes -> Seq(Entries)]
         /\ active' \in [Lanes -> SUBSET Entries]
         /\ status' \in [Entries -> Unsettled \cup Settled]
         /\ taskGeneration' \in [Entries -> Nat]
         /\ LaneInv'
         /\ \A e \in Entries : st[e] # "queued" => status'[e] = st[e]
         /\ \A e \in Entries : st[e] = "queued" => status'[e] \in {"queued", "running"}
         /\ \A l \in Lanes : \A e \in a[l] : e \in active'[l]
         /\ \A l \in Lanes : \A e \in active'[l] \ a[l] : st[e] = "queued"
         /\ \A l \in Lanes : active'[l] # a[l] => Cardinality(active'[l]) <= cap[l]
BY DrainFacts

\* drainLane starts the entries of a queue from the front, in their order.
LEMMA DrainInOrder ==
  ASSUME NEW q, NEW a, NEW cap, NEW gen, NEW st, NEW ls \in SUBSET Lanes,
         Ready(q, a, cap, gen, st),
         Occupied(Lanes \ ls, q, a, cap),
         DrainLanes(ls, q, a, cap, gen, st),
         maxConcurrent' = cap, generation' = gen
  PROVE  /\ \A l \in Lanes : \A i, j \in 1..Len(q[l]) :
              i < j /\ status'[q[l][j]] = "running" => status'[q[l][i]] # "queued"
         /\ \A l \in Lanes : EndOf(queue'[l], q[l])
BY DrainFacts

-----------------------------------------------------------------------------
(* The operations. *)

\* The invariant makes the lane data Ready, every lane being served.
LEMMA ReadyNow ==
  ASSUME IInv
  PROVE  /\ Ready(queue, active, maxConcurrent, generation, status)
         /\ Occupied(Lanes, queue, active, maxConcurrent)
BY DEF IInv, LaneInv, TypeOK, SlotsAreCurrentTasks, QueuesBackPromises,
       GenerationBound, WorkConserving, Ready, Occupied

\* Appending a new entry to its lane's queue.
LEMMA EnqueueReady ==
  ASSUME IInv, NEW e \in Entries, status[e] = "none"
  PROVE  Ready([queue EXCEPT ![LaneOf[e]] = Append(@, e)], active, maxConcurrent,
               generation, [status EXCEPT ![e] = "queued"])
<1> DEFINE l == LaneOf[e]
           Q == queue[l]
           q == [queue EXCEPT ![l] = Append(Q, e)]
           st == [status EXCEPT ![e] = "queued"]
<1>1. Ready(queue, active, maxConcurrent, generation, status)
  BY ReadyNow
<1>2. l \in Lanes /\ Q \in Seq(Entries)
  BY <1>1, LanesAssumption DEF Ready
<1>3. /\ Append(Q, e) \in Seq(Entries)
      /\ Len(Append(Q, e)) = Len(Q) + 1
      /\ \A i \in 1..Len(Q) : Append(Q, e)[i] = Q[i]
      /\ Append(Q, e)[Len(Q) + 1] = e
  BY <1>2, AppendProperties
<1>4. Len(Q) \in Nat
  BY <1>2, LenProperties
<1>5. q \in [Lanes -> Seq(Entries)] /\ st \in [Entries -> Unsettled \cup Settled]
  BY <1>1, <1>2, <1>3 DEF Ready, Unsettled
<1>6. q[l] = Append(Q, e) /\ \A m \in Lanes : m # l => q[m] = queue[m]
  BY <1>1, <1>2 DEF Ready
<1>7. st[e] = "queued" /\ \A d \in Entries : d # e => st[d] = status[d]
  BY <1>1 DEF Ready
<1>8. ~ \E i \in 1..Len(Q) : Q[i] = e
  BY <1>1 DEF Ready
<1>9. \A m \in Lanes :
        active[m] = {d \in Entries : /\ LaneOf[d] = m
                                     /\ st[d] = "running"
                                     /\ taskGeneration[d] = generation[m]}
  <2>1. \A d \in Entries : status[d] = "running" <=> st[d] = "running"
    BY <1>7
  <2> QED
    BY <1>1, <2>1 DEF Ready
<1>10. \A d \in Entries :
         st[d] = "queued" <=> \E i \in 1..Len(q[LaneOf[d]]) : q[LaneOf[d]][i] = d
  <2> SUFFICES ASSUME NEW d \in Entries
               PROVE  st[d] = "queued" <=>
                        \E i \in 1..Len(q[LaneOf[d]]) : q[LaneOf[d]][i] = d
    OBVIOUS
  <2>1. status[d] = "queued" <=>
          \E i \in 1..Len(queue[LaneOf[d]]) : queue[LaneOf[d]][i] = d
    BY <1>1 DEF Ready
  <2>2. LaneOf[d] \in Lanes
    BY LanesAssumption
  <2>3. CASE d = e
    <3>1. Len(Q) + 1 \in 1..Len(q[l]) /\ q[l][Len(Q) + 1] = e
      BY <1>3, <1>4, <1>6
    <3> QED
      BY <1>7, <2>3, <3>1
  <2>4. CASE d # e /\ LaneOf[d] = l
    <3>1. (\E i \in 1..Len(q[l]) : q[l][i] = d) <=> \E i \in 1..Len(Q) : Q[i] = d
      BY <1>3, <1>4, <1>6, <2>4
    <3> QED
      BY <1>7, <2>1, <2>4, <3>1
  <2>5. CASE LaneOf[d] # l
    BY <1>6, <1>7, <2>1, <2>2, <2>5
  <2> QED
    BY <2>3, <2>4, <2>5
<1>11. \A m \in Lanes : \A i, j \in 1..Len(q[m]) :
         LaneOf[q[m][i]] = m /\ (q[m][i] = q[m][j] => i = j)
  <2> SUFFICES ASSUME NEW m \in Lanes, NEW i \in 1..Len(q[m]), NEW j \in 1..Len(q[m])
               PROVE  LaneOf[q[m][i]] = m /\ (q[m][i] = q[m][j] => i = j)
    OBVIOUS
  <2>1. \A x, y \in 1..Len(queue[m]) :
          LaneOf[queue[m][x]] = m /\ (queue[m][x] = queue[m][y] => x = y)
    BY <1>1 DEF Ready
  <2>2. CASE m = l
    <3>1. \A x \in 1..Len(q[l]) : x \in 1..Len(Q) \/ x = Len(Q) + 1
      BY <1>3, <1>4, <1>6
    <3>2. i \in 1..Len(Q) => q[m][i] = Q[i] /\ LaneOf[q[m][i]] = m /\ q[m][i] # e
      BY <1>3, <1>6, <1>8, <2>1, <2>2
    <3>3. j \in 1..Len(Q) => q[m][j] = Q[j] /\ q[m][j] # e
      BY <1>3, <1>6, <1>8, <2>2
    <3>4. /\ i = Len(Q) + 1 => q[m][i] = e /\ LaneOf[q[m][i]] = m
          /\ j = Len(Q) + 1 => q[m][j] = e
      BY <1>3, <1>6, <2>2
    <3> QED
      BY <2>1, <2>2, <3>1, <3>2, <3>3, <3>4
  <2>3. CASE m # l
    BY <1>6, <2>1, <2>3
  <2> QED
    BY <2>2, <2>3
<1> HIDE DEF q, st
<1>12. Ready(q, active, maxConcurrent, generation, st)
  BY <1>1, <1>5, <1>9, <1>10, <1>11 DEF Ready
<1> QED
  BY <1>12 DEF q, st, l, Q

\* Freeing the slot of a current task and settling its promise.
LEMMA SettleReady ==
  ASSUME IInv, NEW e \in Entries, NEW outcome \in Settled,
         status[e] = "running", taskGeneration[e] = generation[LaneOf[e]]
  PROVE  Ready(queue, [active EXCEPT ![LaneOf[e]] = @ \ {e}], maxConcurrent,
               generation, [status EXCEPT ![e] = outcome])
<1> DEFINE freed == [active EXCEPT ![LaneOf[e]] = @ \ {e}]
           st == [status EXCEPT ![e] = outcome]
<1>1. Ready(queue, active, maxConcurrent, generation, status)
  BY ReadyNow
<1>2. LaneOf[e] \in Lanes
  BY LanesAssumption
<1>3. freed \in [Lanes -> SUBSET Entries] /\ st \in [Entries -> Unsettled \cup Settled]
  BY <1>1, <1>2 DEF Ready
<1>4. st[e] = outcome /\ outcome \notin {"queued", "running"}
  BY <1>1 DEF Ready, Settled
<1>5. \A d \in Entries : d # e => st[d] = status[d]
  BY <1>1 DEF Ready
<1>6. \A l \in Lanes :
        freed[l] = {d \in Entries : /\ LaneOf[d] = l
                                    /\ st[d] = "running"
                                    /\ taskGeneration[d] = generation[l]}
  <2> SUFFICES ASSUME NEW l \in Lanes, NEW d \in Entries
               PROVE  d \in freed[l] <=> /\ LaneOf[d] = l
                                         /\ st[d] = "running"
                                         /\ taskGeneration[d] = generation[l]
    BY <1>3
  <2>1. d \in active[l] <=> /\ LaneOf[d] = l
                            /\ status[d] = "running"
                            /\ taskGeneration[d] = generation[l]
    BY <1>1 DEF Ready
  <2>2. d \in freed[l] <=> d \in active[l] /\ d # e
    BY <1>1, <1>2, <2>1 DEF Ready
  <2> QED
    BY <1>4, <1>5, <2>1, <2>2
<1>7. \A d \in Entries : st[d] = "queued" <=> status[d] = "queued"
  BY <1>4, <1>5
<1> HIDE DEF freed, st
<1>8. Ready(queue, freed, maxConcurrent, generation, st)
  BY <1>1, <1>3, <1>6, <1>7 DEF Ready
<1> QED
  BY <1>8 DEF freed, st

\* Forgetting every active task and starting a new generation of every lane.
LEMMA ResetReady ==
  ASSUME IInv
  PROVE  Ready(queue, [l \in Lanes |-> {}], maxConcurrent,
               [l \in Lanes |-> generation[l] + 1], status)
<1>1. Ready(queue, active, maxConcurrent, generation, status)
  BY ReadyNow
<1>2. \A e \in Entries : /\ generation[LaneOf[e]] \in Nat
                         /\ taskGeneration[e] \in Nat
                         /\ taskGeneration[e] <= generation[LaneOf[e]]
  BY <1>1, LanesAssumption DEF Ready
<1>3. \A l \in Lanes : {} = {e \in Entries : /\ LaneOf[e] = l
                                             /\ status[e] = "running"
                                             /\ taskGeneration[e] = generation[l] + 1}
  BY <1>2
<1>4. \A e \in Entries :
        taskGeneration[e] <= [l \in Lanes |-> generation[l] + 1][LaneOf[e]]
  BY <1>2, LanesAssumption
<1>5. [l \in Lanes |-> generation[l] + 1] \in [Lanes -> Nat]
  BY <1>1 DEF Ready
<1> QED
  BY <1>1, <1>3, <1>4, <1>5 DEF Ready

\* Clearing one lane's queue leaves Ready data, and serves every lane.
LEMMA ClearReady ==
  ASSUME IInv, NEW l \in Lanes, ClearCommandLane(l)
  PROVE  TypeOK' /\ LaneInv' /\ \A e \in Entries : status[e] # "queued" => status'[e] = status[e]
<1>1. Ready(queue, active, maxConcurrent, generation, status)
  BY ReadyNow
<1>2. /\ queue' = [queue EXCEPT ![l] = << >>]
      /\ status' = [e \in Entries |-> IF e \in FirstOf(queue[l], Len(queue[l]))
                                      THEN "cleared" ELSE status[e]]
      /\ UNCHANGED <<gatewayDraining, active, maxConcurrent, generation,
                     taskGeneration, waiter, awaited>>
  BY DEF ClearCommandLane
<1>3. \A e \in Entries : e \in FirstOf(queue[l], Len(queue[l]))
                           <=> LaneOf[e] = l /\ status[e] = "queued"
  <2> SUFFICES ASSUME NEW e \in Entries
               PROVE  (\E i \in 1..Len(queue[l]) : queue[l][i] = e)
                         <=> LaneOf[e] = l /\ status[e] = "queued"
    BY DEF FirstOf
  <2>1. status[e] = "queued" <=>
          \E i \in 1..Len(queue[LaneOf[e]]) : queue[LaneOf[e]][i] = e
    BY <1>1 DEF Ready
  <2>2. \A i \in 1..Len(queue[l]) : LaneOf[queue[l][i]] = l
    BY <1>1 DEF Ready
  <2> QED
    BY <2>1, <2>2
<1>4. queue' \in [Lanes -> Seq(Entries)] /\ status' \in [Entries -> Unsettled \cup Settled]
  BY <1>1, <1>2 DEF Ready, Settled
<1>5. TypeOK'
  BY <1>2, <1>4 DEF IInv, TypeOK
<1>6. \A e \in Entries :
        /\ status[e] # "queued" => status'[e] = status[e]
        /\ status[e] = "queued" => status'[e] = IF LaneOf[e] = l THEN "cleared" ELSE "queued"
  BY <1>2, <1>3
<1>7. queue'[l] = << >> /\ \A m \in Lanes : m # l => queue'[m] = queue[m]
  BY <1>1, <1>2 DEF Ready
<1>8. SlotsAreCurrentTasks'
  <2>1. \A e \in Entries : status'[e] = "running" <=> status[e] = "running"
    BY <1>6
  <2> QED
    BY <1>1, <1>2, <2>1 DEF Ready, SlotsAreCurrentTasks
<1>9. QueuesBackPromises'
  <2>1. ASSUME NEW e \in Entries
        PROVE  status'[e] = "queued" <=>
                 \E i \in 1..Len(queue'[LaneOf[e]]) : queue'[LaneOf[e]][i] = e
    <3>1. LaneOf[e] \in Lanes
      BY LanesAssumption
    <3>2. CASE LaneOf[e] = l
      BY <1>6, <1>7, <3>2
    <3>3. CASE LaneOf[e] # l
      <4>1. status[e] = "queued" <=>
              \E i \in 1..Len(queue[LaneOf[e]]) : queue[LaneOf[e]][i] = e
        BY <1>1 DEF Ready
      <4>2. status'[e] = "queued" <=> status[e] = "queued"
        BY <1>6, <3>3
      <4>3. queue'[LaneOf[e]] = queue[LaneOf[e]]
        BY <1>7, <3>1, <3>3
      <4> QED
        BY <4>1, <4>2, <4>3
    <3> QED
      BY <3>2, <3>3
  <2>2. \A m \in Lanes : \A i, j \in 1..Len(queue'[m]) :
          LaneOf[queue'[m][i]] = m /\ (queue'[m][i] = queue'[m][j] => i = j)
    BY <1>1, <1>7 DEF Ready
  <2> QED
    BY <2>1, <2>2 DEF QueuesBackPromises
<1>10. GenerationBound'
  BY <1>2 DEF IInv, LaneInv, GenerationBound
<1>11. WorkConserving'
  BY <1>2, <1>7 DEF IInv, LaneInv, WorkConserving
<1> QED
  BY <1>5, <1>6, <1>8, <1>9, <1>10, <1>11 DEF LaneInv

-----------------------------------------------------------------------------
(* The waiters. *)

\* Lane steps that start queued tasks only, and free no slot a waiter watches,
\* leave the waiters' part of the invariant alone.
LEMMA WaitersUndisturbed ==
  ASSUME IInv, UNCHANGED <<waiter, awaited>>,
         \A e \in Entries : status[e] \notin {"none", "queued"}
                              => status'[e] \notin {"none", "queued"},
         \A l \in Lanes : active[l] \in SUBSET active'[l],
         \A l \in Lanes : \A e \in active'[l] \ active[l] :
            e \in Entries /\ status[e] \in {"none", "queued"}
  PROVE  AwaitedWereStarted' /\ WaitersExact'
<1>1. AwaitedWereStarted'
  BY DEF IInv, TypeOK, AwaitedWereStarted
<1>2. \A w \in Waiters : \A l \in Lanes : awaited[w] \cap active'[l] = awaited[w] \cap active[l]
  BY DEF IInv, AwaitedWereStarted
<1>3. WaitersExact'
  BY <1>2 DEF IInv, WaitersExact
<1> QED
  BY <1>1, <1>3

\* notifyActiveTaskWaiters makes the waiters exact again, whichever slots were
\* freed, when only queued tasks have been started since.
LEMMA NotifyExact ==
  ASSUME IInv, NEW a, NotifyActiveTaskWaiters(a),
         \A e \in Entries : status[e] \notin {"none", "queued"}
                              => status'[e] \notin {"none", "queued"},
         \A l \in Lanes : \A e \in a[l] \ active[l] :
            e \in Entries /\ status[e] \in {"none", "queued"},
         \A l \in Lanes : a[l] \in SUBSET active'[l],
         \A l \in Lanes : \A e \in active'[l] \ a[l] :
            e \in Entries /\ status[e] \in {"none", "queued"}
  PROVE  /\ waiter' \in [Waiters -> WaiterStates]
         /\ awaited' \in [Waiters -> SUBSET Entries]
         /\ AwaitedWereStarted'
         /\ WaitersExact'
<1>1. /\ awaited' = awaited
      /\ waiter' = [w \in Waiters |->
                      IF waiter[w] = "waiting" /\ \A l \in Lanes : awaited[w] \cap a[l] = {}
                      THEN "drained" ELSE waiter[w]]
  BY DEF NotifyActiveTaskWaiters
<1>2. waiter' \in [Waiters -> WaiterStates] /\ awaited' \in [Waiters -> SUBSET Entries]
  BY <1>1 DEF IInv, TypeOK, WaiterStates
<1>3. AwaitedWereStarted'
  BY <1>1 DEF IInv, TypeOK, AwaitedWereStarted
<1>4. \A w \in Waiters : \A l \in Lanes : awaited[w] \cap active'[l] = awaited[w] \cap a[l]
  BY DEF IInv, AwaitedWereStarted
<1>5. ASSUME NEW w \in Waiters, waiter[w] = "drained"
      PROVE  \A l \in Lanes : awaited[w] \cap active'[l] = {}
  <2>1. \A l \in Lanes : awaited[w] \cap active[l] = {}
    BY <1>5 DEF IInv, WaitersExact
  <2>2. \A l \in Lanes : awaited[w] \cap a[l] \in SUBSET active[l]
    BY DEF IInv, AwaitedWereStarted
  <2> QED
    BY <1>4, <2>1, <2>2
<1>6. WaitersExact'
  BY <1>1, <1>4, <1>5 DEF WaitersExact
<1> QED
  BY <1>2, <1>3, <1>6

-----------------------------------------------------------------------------
(* Every step preserves the invariant. *)

LEMMA InitIInv == Init => IInv
<1> SUFFICES ASSUME Init PROVE IInv
  OBVIOUS
<1> USE DEF Init
<1>1. TypeOK
  <2>1. queue \in [Lanes -> Seq(Entries)]
    OBVIOUS
  <2>2. status \in [Entries -> Unsettled \cup Settled]
    BY DEF Unsettled
  <2>3. waiter \in [Waiters -> WaiterStates]
    BY DEF WaiterStates
  <2>4. /\ active \in [Lanes -> SUBSET Entries]
        /\ maxConcurrent \in [Lanes -> Nat \ {0}]
        /\ generation \in [Lanes -> Nat]
        /\ taskGeneration \in [Entries -> Nat]
    OBVIOUS
  <2>5. gatewayDraining \in BOOLEAN /\ awaited \in [Waiters -> SUBSET Entries]
    OBVIOUS
  <2> HIDE DEF Init
  <2> QED
    BY <2>1, <2>2, <2>3, <2>4, <2>5 DEF TypeOK
<1>2. \A l \in Lanes : Len(queue[l]) = 0
  OBVIOUS
<1>3. QueuesBackPromises
  BY <1>2, LanesAssumption DEF QueuesBackPromises
<1>4. GenerationBound
  BY LanesAssumption DEF GenerationBound
<1> QED
  BY <1>1, <1>3, <1>4 DEF IInv, LaneInv, SlotsAreCurrentTasks, WorkConserving,
                          AwaitedWereStarted, WaitersExact

\* What a queue holds after a step is queued, and was not new before it when the
\* step accepts nothing.
LEMMA QueueNowBacked ==
  ASSUME QueuesBackPromises', queue' \in [Lanes -> Seq(Entries)],
         \A e \in Entries : status[e] = "none" => status'[e] # "queued"
  PROVE  \A l \in Lanes : \A i \in 1..Len(queue'[l]) : status[queue'[l][i]] # "none"
<1> SUFFICES ASSUME NEW l \in Lanes, NEW i \in 1..Len(queue'[l])
             PROVE  status[queue'[l][i]] # "none"
  OBVIOUS
<1>1. queue'[l][i] \in Entries
  BY ElementOfSeq
<1>2. status'[queue'[l][i]] = "queued"
  BY <1>1 DEF QueuesBackPromises
<1> QED
  BY <1>1, <1>2

\* Steps that start nothing and accept nothing start nothing out of turn.
LEMMA NothingStarted ==
  ASSUME IInv, QueuesBackPromises', queue' \in [Lanes -> Seq(Entries)], UNCHANGED active,
         \A e \in Entries : status[e] = "none" => status'[e] # "queued",
         \A e \in Entries : status'[e] = "running" => status[e] = "running"
  PROVE  StartsWithinCap /\ StartsOldestFirst
<1>1. StartsWithinCap
  BY DEF StartsWithinCap
<1>2. ASSUME NEW l \in Lanes, NEW j \in 1..Len(queue[l])
      PROVE  status'[queue[l][j]] # "running"
  <2>1. queue[l][j] \in Entries /\ LaneOf[queue[l][j]] = l
    BY ElementOfSeq DEF IInv, LaneInv, TypeOK, QueuesBackPromises
  <2>2. status[queue[l][j]] = "queued"
    BY <2>1 DEF IInv, LaneInv, QueuesBackPromises
  <2> QED
    BY <2>1, <2>2
<1>3. \A l \in Lanes : \A i \in 1..Len(queue'[l]) : status[queue'[l][i]] # "none"
  BY QueueNowBacked DEF IInv, LaneInv, TypeOK
<1>4. \A e \in Entries : status[e] = "none" => status'[e] # "running"
  OBVIOUS
<1> QED
  BY <1>1, <1>2, <1>3, <1>4 DEF StartsOldestFirst

\* drainLane on the queues as they stand starts queued entries in their order.
LEMMA DrainedInTurn ==
  ASSUME QueuesBackPromises', queue' \in [Lanes -> Seq(Entries)],
         \A l \in Lanes : \A i, j \in 1..Len(queue[l]) :
           i < j /\ status'[queue[l][j]] = "running" => status'[queue[l][i]] # "queued",
         \A e \in Entries : status[e] = "none" => status'[e] = "none"
  PROVE  StartsOldestFirst
<1>1. \A l \in Lanes : \A i \in 1..Len(queue'[l]) : status[queue'[l][i]] # "none"
  BY QueueNowBacked
<1> QED
  BY <1>1 DEF StartsOldestFirst

LEMMA EnqueueStep ==
  ASSUME IInv, NEW e \in Entries, EnqueueCommandInLane(e)
  PROVE  IInv' /\ StartsWithinCap /\ StartsOldestFirst
<1> USE DEF EnqueueCommandInLane
<1>1. CASE gatewayDraining
  <2>1. /\ status' = [status EXCEPT ![e] = "refused"]
        /\ UNCHANGED <<gatewayDraining, queue, active, maxConcurrent, generation,
                       taskGeneration, waiter, awaited>>
    BY <1>1
  <2>2. TypeOK'
    BY <2>1 DEF IInv, TypeOK, Settled
  <2>3. \A d \in Entries : /\ status'[d] = "queued" <=> status[d] = "queued"
                           /\ status'[d] = "running" <=> status[d] = "running"
                           /\ status[d] \notin {"none", "queued"}
                                => status'[d] \notin {"none", "queued"}
    BY <2>1 DEF IInv, TypeOK
  <2>4. SlotsAreCurrentTasks'
    BY <2>1, <2>3 DEF IInv, LaneInv, SlotsAreCurrentTasks
  <2>5. QueuesBackPromises'
    BY <2>1, <2>3 DEF IInv, LaneInv, QueuesBackPromises
  <2>6. GenerationBound' /\ WorkConserving'
    BY <2>1 DEF IInv, LaneInv, GenerationBound, WorkConserving
  <2>7. AwaitedWereStarted' /\ WaitersExact'
    BY <2>1, <2>3, WaitersUndisturbed
  <2>8. StartsWithinCap /\ StartsOldestFirst
    <3>1. \A d \in Entries : status[d] = "none" => status'[d] # "queued"
      BY <2>3
    <3>2. queue' \in [Lanes -> Seq(Entries)] /\ UNCHANGED active
      BY <2>1, <2>2 DEF TypeOK
    <3> QED
      BY <2>3, <2>5, <3>1, <3>2, NothingStarted
  <2> QED
    BY <2>2, <2>4, <2>5, <2>6, <2>7, <2>8 DEF IInv, LaneInv
<1>2. CASE ~gatewayDraining
  <2> DEFINE q == [queue EXCEPT ![LaneOf[e]] = Append(@, e)]
             st == [status EXCEPT ![e] = "queued"]
             ls == {LaneOf[e]}
             Q == queue[LaneOf[e]]
  <2>1. Ready(q, active, maxConcurrent, generation, st)
    BY EnqueueReady
  <2>2. Occupied(Lanes \ ls, q, active, maxConcurrent)
    BY ReadyNow DEF Occupied, Ready
  <2>3. /\ DrainLanes(ls, q, active, maxConcurrent, generation, st)
        /\ maxConcurrent' = maxConcurrent /\ generation' = generation
        /\ UNCHANGED <<gatewayDraining, waiter, awaited>>
    BY <1>2
  <2>4. ls \in SUBSET Lanes
    BY LanesAssumption
  <2>5. status[e] = "none" /\ \A d \in Entries : d # e => st[d] = status[d]
    BY DEF IInv, TypeOK
  <2>6. Q \in Seq(Entries) /\ Len(Q) \in Nat
    BY LanesAssumption, LenProperties DEF IInv, TypeOK
  <2>7. /\ Len(q[LaneOf[e]]) = Len(Q) + 1
        /\ \A i \in 1..Len(Q) : q[LaneOf[e]][i] = Q[i]
        /\ q[LaneOf[e]][Len(Q) + 1] = e
        /\ \A l \in Lanes : l # LaneOf[e] => q[l] = queue[l]
    BY <2>6, AppendProperties, LanesAssumption DEF IInv, TypeOK
  <2> HIDE DEF EnqueueCommandInLane, q, st, ls, Q
  <2>8. /\ queue' \in [Lanes -> Seq(Entries)]
        /\ active' \in [Lanes -> SUBSET Entries]
        /\ status' \in [Entries -> Unsettled \cup Settled]
        /\ taskGeneration' \in [Entries -> Nat]
        /\ LaneInv'
        /\ \A d \in Entries : st[d] # "queued" => status'[d] = st[d]
        /\ \A d \in Entries : st[d] = "queued" => status'[d] \in {"queued", "running"}
        /\ \A l \in Lanes : \A d \in active[l] : d \in active'[l]
        /\ \A l \in Lanes : \A d \in active'[l] \ active[l] : st[d] = "queued"
        /\ \A l \in Lanes : active'[l] # active[l] => Cardinality(active'[l]) <= maxConcurrent[l]
    BY <2>1, <2>2, <2>3, <2>4, DrainEstablishes
  <2>9. /\ \A l \in Lanes : \A i, j \in 1..Len(q[l]) :
             i < j /\ status'[q[l][j]] = "running" => status'[q[l][i]] # "queued"
        /\ \A l \in Lanes : EndOf(queue'[l], q[l])
    BY <2>1, <2>2, <2>3, <2>4, DrainInOrder
  <2>10. TypeOK'
    BY <2>3, <2>8 DEF IInv, TypeOK
  <2>11. AwaitedWereStarted' /\ WaitersExact'
    <3>1. UNCHANGED <<waiter, awaited>>
      BY <2>3
    <3>2. \A d \in Entries : status[d] \notin {"none", "queued"}
                               => status'[d] \notin {"none", "queued"}
      BY <2>5, <2>8
    <3>3. \A l \in Lanes : \A d \in active'[l] \ active[l] :
             d \in Entries /\ status[d] \in {"none", "queued"}
      BY <2>5, <2>8
    <3> QED
      BY <2>8, <3>1, <3>2, <3>3, WaitersUndisturbed
  <2>12. StartsWithinCap
    BY <2>3, <2>8 DEF StartsWithinCap
  <2>13. ASSUME NEW l \in Lanes, NEW i \in 1..Len(queue[l]), NEW j \in 1..Len(queue[l]),
                i < j, status'[queue[l][j]] = "running"
         PROVE  status'[queue[l][i]] # "queued"
    <3>1. CASE l = LaneOf[e]
      <4>1. i \in 1..Len(q[l]) /\ j \in 1..Len(q[l])
        BY <2>6, <2>7, <3>1 DEF Q
      <4>2. queue[l][i] = q[l][i] /\ queue[l][j] = q[l][j]
        BY <2>7, <3>1 DEF Q
      <4> QED
        BY <2>13, <2>9, <4>1, <4>2
    <3>2. CASE l # LaneOf[e]
      <4>1. q[l] = queue[l]
        BY <2>7, <3>2
      <4> QED
        BY <2>13, <2>9, <4>1
    <3> QED
      BY <3>1, <3>2
  <2>14. ASSUME NEW d \in Entries, status[d] = "none", status'[d] = "running"
         PROVE  queue'[LaneOf[d]] = << >>
    <3>1. d = e
      BY <2>5, <2>8, <2>14
    <3>2. SUFFICES ASSUME queue'[LaneOf[e]] # << >> PROVE FALSE
      BY <3>1
    <3> DEFINE R == queue'[LaneOf[e]]
    <3>3. R \in Seq(Entries) /\ 1 \in 1..Len(R)
      BY <2>8, <3>2, LanesAssumption, LenProperties, EmptySeq
    <3>4. R[1] \in Entries /\ LaneOf[R[1]] = LaneOf[e]
      BY <2>8, <3>3, ElementOfSeq, LanesAssumption DEF LaneInv, QueuesBackPromises
    <3> DEFINE x == R[1]
    <3>5. status'[x] = "queued"
      BY <2>8, <3>3, <3>4 DEF LaneInv, QueuesBackPromises
    <3> HIDE DEF R
    <3>6. x # e /\ status[x] = "queued"
      <4>1. x # e
        BY <2>14, <3>1, <3>5
      <4>2. st[x] = "queued"
        BY <2>8, <3>4, <3>5
      <4> QED
        BY <2>5, <3>4, <4>1, <4>2
    <3>7. PICK i \in 1..Len(Q) : Q[i] = x
      BY <3>4, <3>6 DEF IInv, LaneInv, QueuesBackPromises, Q
    <3>8. i \in 1..Len(q[LaneOf[e]]) /\ Len(Q) + 1 \in 1..Len(q[LaneOf[e]]) /\ i < Len(Q) + 1
      BY <2>6, <2>7
    <3>9. q[LaneOf[e]][i] = x /\ q[LaneOf[e]][Len(Q) + 1] = e
      BY <2>7, <3>7
    <3>10. status'[e] = "running" /\ LaneOf[e] \in Lanes
      BY <2>14, <3>1, LanesAssumption
    <3> QED
      BY <2>9, <3>5, <3>8, <3>9, <3>10
  <2>15. ASSUME NEW l \in Lanes, NEW i \in 1..Len(queue'[l]), NEW j \in 1..Len(queue'[l]),
                i < j, status[queue'[l][i]] = "none"
         PROVE  FALSE
    <3>1. PICK n \in Nat : /\ Len(queue'[l]) = Len(q[l]) - n
                           /\ \A x \in 1..Len(queue'[l]) : queue'[l][x] = q[l][n + x]
      BY <2>9 DEF EndOf
    <3>2. queue'[l][i] \in Entries /\ LaneOf[queue'[l][i]] = l
      BY <2>8, ElementOfSeq DEF LaneInv, QueuesBackPromises
    <3>3. queue'[l][i] = e
      <4>1. status'[queue'[l][i]] = "queued"
        BY <2>8, <3>2 DEF LaneInv, QueuesBackPromises
      <4> QED
        BY <2>5, <2>8, <2>15, <3>2, <4>1
    <3>4. l = LaneOf[e] /\ q[l][n + i] = e
      BY <3>1, <3>2, <3>3
    <3>5. Len(queue'[l]) \in Nat /\ i \in Nat /\ j \in Nat /\ j <= Len(queue'[l])
      BY <2>8, LenProperties
    <3>6. n + i \in 1..Len(Q)
      <4>1. Len(queue'[l]) = Len(Q) + 1 - n /\ n \in Nat /\ i < j
        <5>1. Len(q[l]) = Len(Q) + 1
          BY <2>7, <3>4
        <5>2. Len(queue'[l]) = Len(q[l]) - n /\ n \in Nat
          BY <3>1
        <5>3. i < j
          BY <2>15
        <5> QED
          BY <2>6, <5>1, <5>2, <5>3
      <4>2. i >= 1
        BY <2>15, <3>5
      <4> QED
        BY <2>6, <3>5, <4>1, <4>2
    <3>7. \E x \in 1..Len(Q) : q[LaneOf[e]][x] = e
      BY <3>4, <3>6
    <3>8. \E x \in 1..Len(Q) : Q[x] = e
      BY <2>7, <3>7
    <3> QED
      BY <2>5, <3>8 DEF IInv, LaneInv, QueuesBackPromises, Q
  <2>16. StartsOldestFirst
    BY <2>13, <2>14, <2>15 DEF StartsOldestFirst
  <2> QED
    BY <2>8, <2>10, <2>11, <2>12, <2>16 DEF IInv
<1> QED
  BY <1>1, <1>2

LEMMA TaskSettlesStep ==
  ASSUME IInv, NEW e \in Entries, NEW outcome \in {"resolved", "rejected"},
         TaskSettles(e, outcome)
  PROVE  IInv' /\ StartsWithinCap /\ StartsOldestFirst
<1> DEFINE freed == [active EXCEPT ![LaneOf[e]] = @ \ {e}]
           settled == [status EXCEPT ![e] = outcome]
           ls == {LaneOf[e]}
<1>1. LaneOf[e] \in Lanes /\ outcome \in Settled /\ status[e] = "running"
  BY LanesAssumption DEF Settled, TaskSettles
<1>2. \A d \in Entries : d # e => settled[d] = status[d]
  BY DEF IInv, TypeOK
<1>3. settled[e] = outcome
  BY DEF IInv, TypeOK
<1>4. CASE taskGeneration[e] = generation[LaneOf[e]]
  <2>1. Ready(queue, freed, maxConcurrent, generation, settled)
    BY <1>1, <1>4, SettleReady
  <2>2. Occupied(Lanes \ ls, queue, freed, maxConcurrent)
    BY ReadyNow DEF Occupied, Ready
  <2>3. /\ DrainLanes(ls, queue, freed, maxConcurrent, generation, settled)
        /\ NotifyActiveTaskWaiters(freed)
        /\ maxConcurrent' = maxConcurrent /\ generation' = generation
        /\ UNCHANGED gatewayDraining
    BY <1>4 DEF TaskSettles
  <2>4. \A l \in Lanes : freed[l] \in SUBSET active[l]
    BY DEF IInv, TypeOK
  <2>5. ls \in SUBSET Lanes
    BY <1>1
  <2> HIDE DEF freed, settled, ls
  <2>6. /\ queue' \in [Lanes -> Seq(Entries)]
        /\ active' \in [Lanes -> SUBSET Entries]
        /\ status' \in [Entries -> Unsettled \cup Settled]
        /\ taskGeneration' \in [Entries -> Nat]
        /\ LaneInv'
        /\ \A d \in Entries : settled[d] # "queued" => status'[d] = settled[d]
        /\ \A d \in Entries : settled[d] = "queued" => status'[d] \in {"queued", "running"}
        /\ \A l \in Lanes : \A d \in freed[l] : d \in active'[l]
        /\ \A l \in Lanes : \A d \in active'[l] \ freed[l] : settled[d] = "queued"
        /\ \A l \in Lanes : active'[l] # freed[l] => Cardinality(active'[l]) <= maxConcurrent[l]
    BY <2>1, <2>2, <2>3, <2>5, DrainEstablishes
  <2>7. \A l \in Lanes : \A i, j \in 1..Len(queue[l]) :
           i < j /\ status'[queue[l][j]] = "running" => status'[queue[l][i]] # "queued"
    BY <2>1, <2>2, <2>3, <2>5, DrainInOrder
  <2>8. \A d \in Entries : status[d] \notin {"none", "queued"}
                             => status'[d] \notin {"none", "queued"}
    BY <1>1, <1>2, <1>3, <2>6 DEF Settled
  <2>9. \A l \in Lanes : \A d \in active'[l] \ freed[l] :
           d \in Entries /\ status[d] \in {"none", "queued"}
    BY <1>1, <1>2, <1>3, <2>6 DEF Settled
  <2>10. /\ waiter' \in [Waiters -> WaiterStates]
         /\ awaited' \in [Waiters -> SUBSET Entries]
         /\ AwaitedWereStarted'
         /\ WaitersExact'
    BY <2>3, <2>4, <2>6, <2>8, <2>9, NotifyExact
  <2>11. StartsWithinCap
    BY <2>3, <2>6, <2>9, <2>4 DEF StartsWithinCap
  <2>12. StartsOldestFirst
    <3>1. \A d \in Entries : status[d] = "none" => status'[d] = "none"
      BY <1>1, <1>2, <2>6
    <3> QED
      BY <2>6, <2>7, <3>1, DrainedInTurn DEF LaneInv
  <2> QED
    BY <2>3, <2>6, <2>10, <2>11, <2>12 DEF IInv, TypeOK
<1>5. CASE taskGeneration[e] # generation[LaneOf[e]]
  <2>1. /\ status' = settled
        /\ UNCHANGED <<gatewayDraining, queue, active, maxConcurrent, generation,
                       taskGeneration, waiter, awaited>>
    BY <1>5 DEF TaskSettles
  <2>2. TypeOK'
    BY <1>1, <2>1 DEF IInv, TypeOK
  <2>3. \A d \in Entries : /\ status'[d] = "queued" <=> status[d] = "queued"
                           /\ d # e => status'[d] = status[d]
                           /\ status[d] \notin {"none", "queued"}
                                => status'[d] \notin {"none", "queued"}
    BY <1>1, <1>2, <1>3, <2>1 DEF Settled
  <2>4. SlotsAreCurrentTasks'
    <3>1. status'[e] # "running"
      BY <1>3, <2>1
    <3> QED
      BY <1>1, <1>5, <2>1, <2>3, <3>1 DEF IInv, LaneInv, SlotsAreCurrentTasks
  <2>5. QueuesBackPromises'
    <3>1. \A d \in Entries : status'[d] = "queued" <=> status[d] = "queued"
      BY <2>3
    <3>2. queue' = queue
      BY <2>1
    <3> QED
      BY <3>1, <3>2 DEF IInv, LaneInv, QueuesBackPromises
  <2>6. GenerationBound' /\ WorkConserving'
    BY <2>1 DEF IInv, LaneInv, GenerationBound, WorkConserving
  <2>7. AwaitedWereStarted' /\ WaitersExact'
    BY <2>1, <2>3, WaitersUndisturbed
  <2>8. StartsWithinCap /\ StartsOldestFirst
    <3>1. \A d \in Entries : status'[d] = "running" => status[d] = "running"
      BY <1>1, <2>3
    <3>2. \A d \in Entries : status[d] = "none" => status'[d] # "queued"
      BY <2>3
    <3>3. queue' \in [Lanes -> Seq(Entries)] /\ UNCHANGED active
      BY <2>1, <2>2 DEF TypeOK
    <3> QED
      BY <2>5, <3>1, <3>2, <3>3, NothingStarted
  <2> QED
    BY <2>2, <2>4, <2>5, <2>6, <2>7, <2>8 DEF IInv, LaneInv
<1> QED
  BY <1>4, <1>5

LEMMA SetConcurrencyStep ==
  ASSUME IInv, NEW l \in Lanes, NEW n \in Caps, SetCommandLaneConcurrency(l, n)
  PROVE  IInv' /\ StartsWithinCap /\ StartsOldestFirst
<1> DEFINE cap == [maxConcurrent EXCEPT ![l] = IF n < 1 THEN 1 ELSE n]
           ls == {l}
<1>1. n \in Int
  BY CapsAssumption
<1>2. cap \in [Lanes -> Nat \ {0}]
  BY <1>1 DEF IInv, TypeOK
<1>3. Ready(queue, active, cap, generation, status)
  BY <1>2, ReadyNow DEF Ready
<1>4. Occupied(Lanes \ ls, queue, active, cap)
  BY ReadyNow DEF Occupied, Ready
<1>5. /\ DrainLanes(ls, queue, active, cap, generation, status)
      /\ maxConcurrent' = cap /\ generation' = generation
      /\ UNCHANGED <<gatewayDraining, waiter, awaited>>
  BY DEF SetCommandLaneConcurrency
<1>6. ls \in SUBSET Lanes
  OBVIOUS
<1> HIDE DEF cap, ls
<1>7. /\ queue' \in [Lanes -> Seq(Entries)]
      /\ active' \in [Lanes -> SUBSET Entries]
      /\ status' \in [Entries -> Unsettled \cup Settled]
      /\ taskGeneration' \in [Entries -> Nat]
      /\ LaneInv'
      /\ \A d \in Entries : status[d] # "queued" => status'[d] = status[d]
      /\ \A m \in Lanes : \A d \in active[m] : d \in active'[m]
      /\ \A m \in Lanes : \A d \in active'[m] \ active[m] : status[d] = "queued"
      /\ \A m \in Lanes : active'[m] # active[m] => Cardinality(active'[m]) <= cap[m]
  BY <1>3, <1>4, <1>5, <1>6, DrainEstablishes, SMTT(60)
<1>8. AwaitedWereStarted' /\ WaitersExact'
  <2>1. \A d \in Entries : status[d] \notin {"none", "queued"}
                             => status'[d] \notin {"none", "queued"}
    BY <1>7
  <2>2. \A m \in Lanes : \A d \in active'[m] \ active[m] :
           d \in Entries /\ status[d] \in {"none", "queued"}
    BY <1>7
  <2> QED
    BY <1>5, <1>7, <2>1, <2>2, WaitersUndisturbed
<1>9. StartsWithinCap
  BY <1>5, <1>7 DEF StartsWithinCap
<1>10. StartsOldestFirst
  <2>1. \A e \in Entries : status[e] = "none" => status'[e] = "none"
    BY <1>7
  <2>2. \A m \in Lanes : \A i, j \in 1..Len(queue[m]) :
           i < j /\ status'[queue[m][j]] = "running" => status'[queue[m][i]] # "queued"
    BY <1>3, <1>4, <1>5, <1>6, DrainInOrder
  <2> QED
    BY <1>7, <2>1, <2>2, DrainedInTurn DEF LaneInv
<1> QED
  BY <1>2, <1>5, <1>7, <1>8, <1>9, <1>10 DEF IInv, TypeOK

LEMMA ResetStep ==
  ASSUME IInv, ResetAllLanes
  PROVE  IInv' /\ StartsWithinCap /\ StartsOldestFirst
<1> DEFINE gen == [l \in Lanes |-> generation[l] + 1]
           a == [l \in Lanes |-> {}]
<1>1. Ready(queue, a, maxConcurrent, gen, status)
  BY ResetReady
<1>2. Occupied(Lanes \ Lanes, queue, a, maxConcurrent)
  BY DEF Occupied
<1>3. /\ DrainLanes(Lanes, queue, a, maxConcurrent, gen, status)
      /\ NotifyActiveTaskWaiters(active')
      /\ maxConcurrent' = maxConcurrent /\ generation' = gen
      /\ gatewayDraining' = FALSE
  BY DEF ResetAllLanes
<1>4. \A l \in Lanes : a[l] = {}
  OBVIOUS
<1>5. gen \in [Lanes -> Nat]
  BY DEF IInv, TypeOK
<1> HIDE DEF gen, a
<1>6. /\ queue' \in [Lanes -> Seq(Entries)]
      /\ active' \in [Lanes -> SUBSET Entries]
      /\ status' \in [Entries -> Unsettled \cup Settled]
      /\ taskGeneration' \in [Entries -> Nat]
      /\ LaneInv'
      /\ \A d \in Entries : status[d] # "queued" => status'[d] = status[d]
      /\ \A l \in Lanes : \A d \in active'[l] \ a[l] : status[d] = "queued"
      /\ \A l \in Lanes : active'[l] # a[l] => Cardinality(active'[l]) <= maxConcurrent[l]
  BY <1>1, <1>2, <1>3, DrainEstablishes
<1>7. \A d \in Entries : status[d] \notin {"none", "queued"}
                           => status'[d] \notin {"none", "queued"}
  BY <1>6
<1>8. \A l \in Lanes : \A d \in active'[l] \ active[l] :
         d \in Entries /\ status[d] \in {"none", "queued"}
  BY <1>4, <1>6
<1>9. \A l \in Lanes : \A d \in active'[l] \ active'[l] :
         d \in Entries /\ status[d] \in {"none", "queued"}
  OBVIOUS
<1>10. /\ waiter' \in [Waiters -> WaiterStates]
       /\ awaited' \in [Waiters -> SUBSET Entries]
       /\ AwaitedWereStarted'
       /\ WaitersExact'
  BY <1>3, <1>7, <1>8, <1>9, NotifyExact
<1>11. StartsWithinCap
  BY <1>3, <1>4, <1>6 DEF StartsWithinCap
<1>12. StartsOldestFirst
  <2>1. \A e \in Entries : status[e] = "none" => status'[e] = "none"
    BY <1>6
  <2>2. \A m \in Lanes : \A i, j \in 1..Len(queue[m]) :
           i < j /\ status'[queue[m][j]] = "running" => status'[queue[m][i]] # "queued"
    BY <1>1, <1>2, <1>3, DrainInOrder
  <2> QED
    BY <1>6, <2>1, <2>2, DrainedInTurn DEF LaneInv
<1> QED
  BY <1>3, <1>5, <1>6, <1>10, <1>11, <1>12 DEF IInv, TypeOK

LEMMA ClearStep ==
  ASSUME IInv, NEW l \in Lanes, ClearCommandLane(l)
  PROVE  IInv' /\ StartsWithinCap /\ StartsOldestFirst
<1>1. TypeOK' /\ LaneInv' /\ \A e \in Entries : status[e] # "queued" => status'[e] = status[e]
  BY ClearReady
<1>2. UNCHANGED <<waiter, awaited, active>>
  BY DEF ClearCommandLane
<1>3. AwaitedWereStarted' /\ WaitersExact'
  <2>1. \A e \in Entries : status[e] \notin {"none", "queued"}
                             => status'[e] \notin {"none", "queued"}
    BY <1>1
  <2> QED
    BY <1>2, <2>1, WaitersUndisturbed
<1>4. StartsWithinCap /\ StartsOldestFirst
  <2>1. \A e \in Entries : status'[e] = "running" => status[e] = "running"
    BY DEF ClearCommandLane
  <2>2. \A e \in Entries : status[e] = "none" => status'[e] # "queued"
    BY <1>1
  <2>3. queue' \in [Lanes -> Seq(Entries)]
    BY <1>1 DEF TypeOK
  <2> QED
    BY <1>1, <1>2, <2>1, <2>2, <2>3, NothingStarted DEF LaneInv
<1> QED
  BY <1>1, <1>3, <1>4 DEF IInv

\* The steps that leave the lanes alone: markGatewayDraining and the waiters'.
LEMMA OtherSteps ==
  ASSUME IInv,
         \/ MarkGatewayDraining
         \/ \E w \in Waiters, instant \in BOOLEAN : WaitForActiveTasks(w, instant)
         \/ \E w \in Waiters : WaiterTimesOut(w)
         \/ UNCHANGED vars
  PROVE  IInv' /\ StartsWithinCap /\ StartsOldestFirst
<1>1. UNCHANGED <<queue, active, maxConcurrent, generation, status, taskGeneration>>
  BY DEF MarkGatewayDraining, WaitForActiveTasks, WaiterTimesOut, laneVars, vars
<1>2. LaneInv'
  BY <1>1 DEF IInv, LaneInv, SlotsAreCurrentTasks, QueuesBackPromises,
              GenerationBound, WorkConserving
<1>3. ASSUME MarkGatewayDraining \/ UNCHANGED vars PROVE IInv'
  BY <1>1, <1>2, <1>3 DEF IInv, TypeOK, AwaitedWereStarted, WaitersExact,
                          MarkGatewayDraining, laneVars, vars
<1>4. ASSUME NEW w \in Waiters, NEW instant \in BOOLEAN, WaitForActiveTasks(w, instant)
      PROVE  IInv'
  <2> DEFINE running == UNION {active[l] : l \in Lanes}
  <2>1. /\ awaited' = [awaited EXCEPT ![w] = running]
        /\ waiter' = [waiter EXCEPT ![w] = IF running = {} THEN "drained"
                                           ELSE IF instant THEN "timedOut" ELSE "waiting"]
        /\ gatewayDraining' = gatewayDraining
    BY <1>4 DEF WaitForActiveTasks, laneVars
  <2>2. running \in SUBSET Entries
    BY DEF IInv, TypeOK
  <2>3. TypeOK'
    BY <1>1, <2>1, <2>2 DEF IInv, TypeOK, WaiterStates
  <2>4. \A e \in running : status[e] = "running"
    BY DEF IInv, LaneInv, SlotsAreCurrentTasks
  <2>5. /\ awaited'[w] = running
        /\ \A x \in Waiters : x # w => awaited'[x] = awaited[x] /\ waiter'[x] = waiter[x]
        /\ waiter'[w] = "waiting" => running # {}
        /\ waiter'[w] = "drained" => running = {}
    BY <2>1 DEF IInv, TypeOK
  <2>6. AwaitedWereStarted'
    BY <1>1, <2>4, <2>5 DEF IInv, AwaitedWereStarted
  <2>7. WaitersExact'
    <3> SUFFICES ASSUME NEW x \in Waiters
                 PROVE  LET pending == \E l \in Lanes : awaited'[x] \cap active'[l] # {}
                        IN  /\ waiter'[x] = "waiting" => pending
                            /\ waiter'[x] = "drained" => ~pending
      BY DEF WaitersExact
    <3>1. CASE x = w
      BY <1>1, <2>5, <3>1
    <3>2. CASE x # w
      BY <1>1, <2>5, <3>2 DEF IInv, WaitersExact
    <3> QED
      BY <3>1, <3>2
  <2> QED
    BY <1>2, <2>3, <2>6, <2>7 DEF IInv
<1>5. ASSUME NEW w \in Waiters, WaiterTimesOut(w)
      PROVE  IInv'
  <2>1. waiter' = [waiter EXCEPT ![w] = "timedOut"]
        /\ gatewayDraining' = gatewayDraining /\ awaited' = awaited
    BY <1>5 DEF WaiterTimesOut, laneVars
  <2>2. TypeOK'
    BY <1>1, <2>1 DEF IInv, TypeOK, WaiterStates
  <2>3. AwaitedWereStarted' /\ WaitersExact'
    BY <1>1, <2>1 DEF IInv, TypeOK, AwaitedWereStarted, WaitersExact
  <2> QED
    BY <1>2, <2>2, <2>3 DEF IInv
<1>6. StartsWithinCap /\ StartsOldestFirst
  <2>1. \A e \in Entries : status[e] = "none" => status'[e] # "queued"
    BY <1>1
  <2>2. queue' \in [Lanes -> Seq(Entries)]
    BY <1>1 DEF IInv, TypeOK
  <2> QED
    BY <1>1, <1>2, <2>1, <2>2, NothingStarted DEF LaneInv
<1> QED
  BY <1>3, <1>4, <1>5, <1>6

LEMMA NextIInv == IInv /\ [Next]_vars => IInv' /\ StartsWithinCap /\ StartsOldestFirst
<1> SUFFICES ASSUME IInv, [Next]_vars PROVE IInv' /\ StartsWithinCap /\ StartsOldestFirst
  OBVIOUS
<1>1. ASSUME NEW e \in Entries, EnqueueCommandInLane(e) PROVE IInv' /\ StartsWithinCap /\ StartsOldestFirst
  BY <1>1, EnqueueStep
<1>2. ASSUME NEW e \in Entries, NEW outcome \in {"resolved", "rejected"},
             TaskSettles(e, outcome)
      PROVE  IInv' /\ StartsWithinCap /\ StartsOldestFirst
  BY <1>2, TaskSettlesStep
<1>3. ASSUME NEW l \in Lanes, NEW n \in Caps, SetCommandLaneConcurrency(l, n) PROVE IInv' /\ StartsWithinCap /\ StartsOldestFirst
  BY <1>3, SetConcurrencyStep
<1>4. ASSUME NEW l \in Lanes, ClearCommandLane(l) PROVE IInv' /\ StartsWithinCap /\ StartsOldestFirst
  BY <1>4, ClearStep
<1>5. CASE ResetAllLanes
  BY <1>5, ResetStep
<1>6. CASE \/ MarkGatewayDraining
           \/ \E w \in Waiters, instant \in BOOLEAN : WaitForActiveTasks(w, instant)
           \/ \E w \in Waiters : WaiterTimesOut(w)
           \/ UNCHANGED vars
  BY <1>6, OtherSteps
<1> QED
  BY <1>1, <1>2, <1>3, <1>4, <1>5, <1>6 DEF Next

\* The inductive invariant holds in every reachable state of the command queue.
THEOREM Inductive == Spec => []IInv
<1>1. Init => IInv
  BY InitIInv
<1>2. IInv /\ [Next]_vars => IInv'
  BY NextIInv
<1> QED
  BY <1>1, <1>2, PTL DEF Spec

-----------------------------------------------------------------------------
(* What the module promises. *)

\* Type correctness of the command queue's state (command-queue.ts).
THEOREM TypeCorrect == Spec => []TypeOK
<1>1. IInv => TypeOK
  BY DEF IInv
<1> QED
  BY <1>1, Inductive, PTL

\* drainLane after every operation loses no wake-up: a lane with a free slot
\* has an empty queue.
THEOREM NoLostWakeUp == Spec => []WorkConserving
<1>1. IInv => WorkConserving
  BY DEF IInv, LaneInv
<1> QED
  BY <1>1, Inductive, PTL

\* completeTask's generation check keeps the slots of a lane equal to the
\* tasks started since its last reset that still run.
THEOREM SlotsExact == Spec => []SlotsAreCurrentTasks
<1>1. IInv => SlotsAreCurrentTasks
  BY DEF IInv, LaneInv
<1> QED
  BY <1>1, Inductive, PTL

\* A pending promise of enqueueCommandInLane is backed by one queue element, and
\* a queue holds nobody else's.
THEOREM PromisesBacked == Spec => []QueuesBackPromises
<1>1. IInv => QueuesBackPromises
  BY DEF IInv, LaneInv
<1> QED
  BY <1>1, Inductive, PTL

\* waitForActiveTasks waits while, and only while, a task of its snapshot runs.
THEOREM WaitersAreExact == Spec => []WaitersExact
<1>1. IInv => WaitersExact
  BY DEF IInv
<1> QED
  BY <1>1, Inductive, PTL

\* pump starts a task only into a free slot of the cap then in force, whichever
\* operation calls it.
THEOREM CapsRespected == Spec => CapRespected
<1>1. IInv /\ [Next]_vars => [StartsWithinCap]_vars
  BY NextIInv
<1> QED
  BY <1>1, Inductive, PTL DEF Spec, CapRespected

\* pump starts the entries of a lane in the order enqueueCommandInLane accepted
\* them.
THEOREM LanesAreFifo == Spec => StartsInOrder
<1>1. IInv /\ [Next]_vars => [StartsOldestFirst]_vars
  BY NextIInv
<1> QED
  BY <1>1, Inductive, PTL DEF Spec, StartsInOrder

-----------------------------------------------------------------------------
(* The lanes implement LaneContract. *)

\* What callers see of the promise states st.
Seen(st) == [e \in Entries |-> IF st[e] \in Settled THEN "over"
                               ELSE IF st[e] = "queued" THEN "waiting" ELSE st[e]]

LEMMA SeenNow == Seen(status) = [e \in Entries |-> CallOf(e)]
BY DEF Seen, CallOf

LEMMA CardinalityOfContract == \A S : Contract!Cardinality(S) = Cardinality(S)
BY DEF Contract!Cardinality, Cardinality

\* A queue is no longer than there are calls.
LEMMA ShiftedFew ==
  ASSUME NEW q \in Seq(Entries), NEW k \in 0..Len(q),
         \A i, j \in 1..Len(q) : q[i] = q[j] => i = j
  PROVE  k \in 0..Cardinality(Entries)
<1>1. FirstOf(q, k) \in SUBSET Entries /\ Cardinality({} \cup FirstOf(q, k)) = Cardinality({}) + k
  BY ShiftedCardinality
<1>2. Cardinality({}) = 0 /\ {} \cup FirstOf(q, k) = FirstOf(q, k)
  BY FS_EmptySet
<1>3. Cardinality(FirstOf(q, k)) <= Cardinality(Entries)
  BY <1>1, LanesAssumption, FS_Subset
<1>4. Cardinality(Entries) \in Nat
  BY LanesAssumption, FS_CardinalityType
<1> QED
  BY <1>1, <1>2, <1>3, <1>4

\* drainLane on Ready data serves the lines as the contract asks.
LEMMA DrainServes ==
  ASSUME NEW q, NEW a, NEW cap, NEW gen, NEW st, NEW ls \in SUBSET Lanes,
         Ready(q, a, cap, gen, st),
         Occupied(Lanes \ ls, q, a, cap),
         DrainLanes(ls, q, a, cap, gen, st),
         maxConcurrent' = cap
  PROVE  Contract!Served(q, a, cap, Seen(st))
<1> DEFINE k(l) == IF l \in ls THEN StartCount(q[l], a[l], cap[l]) ELSE 0
           n == [l \in Lanes |-> k(l)]
           F(l) == FirstOf(q[l], k(l))
           S(l) == Shifted(q[l], a[l], cap[l])
           R(l) == Rest(q[l], a[l], cap[l])
           K(l) == StartCount(q[l], a[l], cap[l])
<1>0. \A l \in Lanes : /\ K(l) \in 0..Len(q[l])
                       /\ S(l) \in SUBSET Entries
                       /\ \A e \in S(l) : LaneOf[e] = l /\ st[e] = "queued"
                       /\ R(l) \in Seq(Entries)
                       /\ Len(R(l)) = Len(q[l]) - K(l)
                       /\ \A i \in 1..Len(R(l)) : R(l)[i] = q[l][K(l) + i]
                       /\ R(l) # << >> => Cardinality(a[l] \cup S(l)) >= cap[l]
                       /\ S(l) # {} => Cardinality(a[l] \cup S(l)) <= cap[l]
  BY PumpOneLane
<1>1. ASSUME NEW l \in Lanes
      PROVE  /\ q[l] \in Seq(Entries) /\ a[l] \in SUBSET Entries
             /\ \A i, j \in 1..Len(q[l]) : LaneOf[q[l][i]] = l /\ (q[l][i] = q[l][j] => i = j)
  BY <1>1 DEF Ready
<1>2. ASSUME NEW l \in Lanes PROVE k(l) \in 0..Len(q[l])
  <2>1. CASE l \in ls
    BY <2>1, <1>2, PumpOneLane
  <2>2. CASE l \notin ls
    BY <2>2, <1>1, <1>2, LenProperties
  <2> QED
    BY <2>1, <2>2
<1>3. n \in [Lanes -> 0..Cardinality(Entries)]
  BY <1>1, <1>2, ShiftedFew
<1>4. \A l \in Lanes : n[l] = k(l) /\ n[l] <= Len(q[l])
  BY <1>1, <1>2, LenProperties
<1>5. ASSUME NEW l \in Lanes
      PROVE  /\ queue'[l] = SubSeq(q[l], k(l) + 1, Len(q[l]))
             /\ active'[l] = a[l] \cup F(l)
  <2>1. CASE l \in ls
    BY <2>1, <1>5 DEF DrainLanes, Shifted, Rest
  <2>2. CASE l \notin ls
    <3>1. queue'[l] = q[l] /\ active'[l] = a[l]
      BY <2>2, <1>5 DEF DrainLanes
    <3>2. SubSeq(q[l], 1, Len(q[l])) = q[l]
      BY <1>1, <1>5, LenProperties
    <3>3. F(l) = {}
      BY <2>2 DEF FirstOf
    <3> QED
      BY <2>2, <3>1, <3>2, <3>3
  <2> QED
    BY <2>1, <2>2
<1>6. /\ queue' = [l \in Lanes |-> SubSeq(q[l], n[l] + 1, Len(q[l]))]
      /\ active' = [l \in Lanes |-> a[l] \cup Contract!Front(q[l], n[l])]
  <2>1. queue' = [l \in Lanes |-> queue'[l]] /\ active' = [l \in Lanes |-> active'[l]]
    BY DEF DrainLanes
  <2>2. \A l \in Lanes : Contract!Front(q[l], n[l]) = F(l)
    BY <1>4 DEF Contract!Front, FirstOf
  <2> QED
    BY <1>4, <1>5, <2>1, <2>2
<1>7. ASSUME NEW l \in Lanes
      PROVE  /\ n[l] > 0 => Cardinality(active'[l]) <= cap[l]
             /\ n[l] < Len(q[l]) => Cardinality(active'[l]) >= cap[l]
  <2>1. CASE l \in ls
    <3>1. /\ Len(R(l)) = Len(q[l]) - k(l) /\ R(l) \in Seq(Entries)
          /\ R(l) # << >> => Cardinality(a[l] \cup S(l)) >= cap[l]
          /\ S(l) # {} => Cardinality(a[l] \cup S(l)) <= cap[l]
      BY <2>1, <1>7, <1>0
    <3>2. active'[l] = a[l] \cup S(l)
      BY <2>1, <1>7 DEF DrainLanes
    <3>3. n[l] > 0 => S(l) # {}
      BY <2>1, <1>2, <1>4, <1>7 DEF Shifted, FirstOf
    <3>4. n[l] < Len(q[l]) => R(l) # << >>
      BY <1>1, <1>2, <1>4, <1>7, <3>1, LenProperties
    <3> QED
      BY <3>1, <3>2, <3>3, <3>4
  <2>2. CASE l \notin ls
    <3>1. n[l] = 0 /\ active'[l] = a[l]
      BY <2>2, <1>4, <1>7 DEF DrainLanes
    <3>2. q[l] # << >> => Cardinality(a[l]) >= cap[l]
      BY <2>2, <1>7 DEF Occupied
    <3> QED
      BY <1>1, <3>1, <3>2, LenProperties
  <2> QED
    BY <2>1, <2>2
<1>8. [e \in Entries |-> CallOf(e)]'
        = [e \in Entries |-> IF e \in Contract!Front(q[LaneOf[e]], n[LaneOf[e]])
                             THEN "running" ELSE Seen(st)[e]]
  <2> SUFFICES ASSUME NEW e \in Entries
               PROVE  CallOf(e)' = IF e \in F(LaneOf[e]) THEN "running" ELSE Seen(st)[e]
    BY <1>4, LanesAssumption DEF Contract!Front, FirstOf
  <2>1. status'[e] = IF \E l \in ls : e \in Shifted(q[l], a[l], cap[l]) THEN "running" ELSE st[e]
    BY DEF DrainLanes
  <2>2. (\E l \in ls : e \in Shifted(q[l], a[l], cap[l])) <=> e \in F(LaneOf[e])
    <3>1. ASSUME NEW l \in ls, e \in Shifted(q[l], a[l], cap[l]) PROVE LaneOf[e] = l /\ e \in F(l)
      <4>1. LaneOf[e] = l
        BY <3>1, <1>0
      <4> QED
        BY <3>1, <4>1 DEF Shifted
    <3>2. ASSUME e \in F(LaneOf[e]) PROVE LaneOf[e] \in ls /\ e \in Shifted(q[LaneOf[e]], a[LaneOf[e]], cap[LaneOf[e]])
      BY <3>2 DEF Shifted, FirstOf
    <3> QED
      BY <3>1, <3>2
  <2> QED
    BY <2>1, <2>2 DEF CallOf, Seen, Settled
<1> HIDE DEF n
<1>9. Contract!ServedBy(n, q, a, cap, Seen(st))
  BY <1>4, <1>6, <1>7, <1>8, CardinalityOfContract DEF Contract!ServedBy
<1> QED
  BY <1>3, <1>9, CardinalityOfContract DEF Contract!Served

\* Where no lane has both a line and a free place, serving changes nothing: the
\* contract's view of a step that pumps no lane.
LEMMA NobodyServed ==
  ASSUME NEW h, NEW p, h = active,
         queue \in [Lanes -> Seq(Entries)], active \in [Lanes -> SUBSET Entries],
         WorkConserving, UNCHANGED <<queue, active, maxConcurrent>>,
         [d \in Entries |-> CallOf(d)]' = p
  PROVE  Contract!Served(queue, h, maxConcurrent, p)
<1> DEFINE n == [l \in Lanes |-> 0]
<1>1. n \in [Lanes -> 0..Cardinality(Entries)]
  BY LanesAssumption, FS_CardinalityType
<1>2. \A l \in Lanes : /\ Len(queue[l]) \in Nat /\ n[l] <= Len(queue[l])
                       /\ SubSeq(queue[l], n[l] + 1, Len(queue[l])) = queue[l]
                       /\ Contract!Front(queue[l], n[l]) = {}
                       /\ n[l] < Len(queue[l]) => queue[l] # << >>
  BY LenProperties DEF Contract!Front
<1>3. /\ queue' = [l \in Lanes |-> SubSeq(queue[l], n[l] + 1, Len(queue[l]))]
      /\ active' = [l \in Lanes |-> h[l] \cup Contract!Front(queue[l], n[l])]
  BY <1>2
<1>4. \A l \in Lanes : /\ ~(n[l] > 0)
                       /\ n[l] < Len(queue[l]) => Cardinality(active'[l]) >= maxConcurrent[l]
  BY <1>2 DEF WorkConserving
<1>5. p = [e \in Entries |-> IF e \in Contract!Front(queue[LaneOf[e]], n[LaneOf[e]])
                             THEN "running" ELSE p[e]]
  BY <1>2, LanesAssumption
<1> HIDE DEF n
<1>6. Contract!ServedBy(n, queue, h, maxConcurrent, p)
  BY <1>2, <1>3, <1>4, <1>5, CardinalityOfContract DEF Contract!ServedBy
<1> QED
  BY <1>1, <1>6, CardinalityOfContract DEF Contract!Served

LEMMA EnqueueKeeps ==
  ASSUME IInv, NEW e \in Entries, EnqueueCommandInLane(e)
  PROVE  Contract!Next
<1> DEFINE call == [d \in Entries |-> CallOf(d)]
<1>1. status[e] = "none" /\ call[e] = "none" /\ status \in [Entries -> Unsettled \cup Settled]
  BY DEF EnqueueCommandInLane, CallOf, Settled, IInv, TypeOK
<1>2. CASE gatewayDraining
  <2>1. call' = [call EXCEPT ![e] = "over"]
    BY <1>1, <1>2 DEF EnqueueCommandInLane, CallOf, Settled
  <2>2. Contract!Refuse(e)
    BY <1>1, <1>2, <2>1 DEF Contract!Refuse, EnqueueCommandInLane
  <2> QED
    BY <2>2 DEF Contract!Next
<1>3. CASE ~gatewayDraining
  <2> DEFINE q == [queue EXCEPT ![LaneOf[e]] = Append(@, e)]
             st == [status EXCEPT ![e] = "queued"]
  <2>1. Ready(q, active, maxConcurrent, generation, st)
    BY <1>1, EnqueueReady
  <2>2. Occupied(Lanes \ {LaneOf[e]}, q, active, maxConcurrent)
    BY ReadyNow DEF Occupied, Ready
  <2>3. /\ DrainLanes({LaneOf[e]}, q, active, maxConcurrent, generation, st)
        /\ maxConcurrent' = maxConcurrent
    BY <1>3 DEF EnqueueCommandInLane
  <2>4. {LaneOf[e]} \in SUBSET Lanes
    BY LanesAssumption
  <2> HIDE DEF q, st
  <2>5. Contract!Served(q, active, maxConcurrent, Seen(st))
    BY <2>1, <2>2, <2>3, <2>4, DrainServes
  <2>6. Seen(st) = [call EXCEPT ![e] = "waiting"]
    BY <1>1 DEF st, Seen, CallOf, Settled
  <2>7. Contract!Accept(e)
    BY <1>1, <2>5, <2>6 DEF Contract!Accept, q
  <2> QED
    BY <2>7 DEF Contract!Next
<1> QED
  BY <1>2, <1>3

LEMMA SettleKeeps ==
  ASSUME IInv, NEW e \in Entries, NEW outcome \in {"resolved", "rejected"},
         TaskSettles(e, outcome)
  PROVE  Contract!Next
<1> DEFINE call == [d \in Entries |-> CallOf(d)]
           freed == [active EXCEPT ![LaneOf[e]] = @ \ {e}]
           settled == [status EXCEPT ![e] = outcome]
<1>1. /\ status[e] = "running" /\ call[e] = "running" /\ outcome \in Settled
      /\ status \in [Entries -> Unsettled \cup Settled] /\ LaneOf[e] \in Lanes
  BY LanesAssumption DEF TaskSettles, CallOf, Settled, IInv, TypeOK
<1>2. Seen(settled) = [call EXCEPT ![e] = "over"]
  BY <1>1 DEF Seen, CallOf, Settled
<1>3. Contract!Served(queue, freed, maxConcurrent, Seen(settled))
  <2>1. CASE taskGeneration[e] = generation[LaneOf[e]]
    <3>1. Ready(queue, freed, maxConcurrent, generation, settled)
      BY <1>1, <2>1, SettleReady
    <3>2. Occupied(Lanes \ {LaneOf[e]}, queue, freed, maxConcurrent)
      BY ReadyNow DEF Occupied, Ready
    <3>3. /\ DrainLanes({LaneOf[e]}, queue, freed, maxConcurrent, generation, settled)
          /\ maxConcurrent' = maxConcurrent
      BY <2>1 DEF TaskSettles
    <3>4. {LaneOf[e]} \in SUBSET Lanes
      BY <1>1
    <3> HIDE DEF freed, settled
    <3> QED
      BY <3>1, <3>2, <3>3, <3>4, DrainServes
  <2>2. CASE taskGeneration[e] # generation[LaneOf[e]]
    <3>1. e \notin active[LaneOf[e]] /\ active \in [Lanes -> SUBSET Entries]
      BY <1>1, <2>2 DEF IInv, LaneInv, SlotsAreCurrentTasks, TypeOK
    <3>2. freed = active
      BY <3>1
    <3>3. status' = settled /\ UNCHANGED <<queue, active, maxConcurrent>>
      BY <2>2 DEF TaskSettles
    <3>4. call' = Seen(settled)
      BY <3>3 DEF Seen, CallOf
    <3>5. WorkConserving /\ queue \in [Lanes -> Seq(Entries)]
      BY DEF IInv, LaneInv, TypeOK
    <3> HIDE DEF settled, freed, call
    <3> QED
      BY <3>1, <3>2, <3>3, <3>4, <3>5, NobodyServed DEF call
  <2> QED
    BY <2>1, <2>2
<1>4. Contract!Finish(e)
  BY <1>1, <1>2, <1>3 DEF Contract!Finish
<1> QED
  BY <1>4 DEF Contract!Next

LEMMA SetConcurrencyKeeps ==
  ASSUME IInv, NEW l \in Lanes, NEW n \in Caps, SetCommandLaneConcurrency(l, n)
  PROVE  Contract!Next
<1> DEFINE c == IF n < 1 THEN 1 ELSE n
           cap == [maxConcurrent EXCEPT ![l] = c]
<1>1. n \in Int /\ cap \in [Lanes -> Nat \ {0}]
  BY CapsAssumption DEF IInv, TypeOK
<1>2. Ready(queue, active, cap, generation, status)
  BY <1>1, ReadyNow DEF Ready
<1>3. Occupied(Lanes \ {l}, queue, active, cap)
  BY ReadyNow DEF Occupied, Ready
<1>4. /\ DrainLanes({l}, queue, active, cap, generation, status)
      /\ maxConcurrent' = cap
  BY DEF SetCommandLaneConcurrency
<1>5. {l} \in SUBSET Lanes
  OBVIOUS
<1> HIDE DEF cap
<1>6. Contract!Served(queue, active, cap, Seen(status))
  BY <1>2, <1>3, <1>4, <1>5, DrainServes
<1>7. Contract!Resize(l, c)
  BY <1>6, SeenNow DEF Contract!Resize, cap
<1>8. c \in {IF m < 1 THEN 1 ELSE m : m \in Caps}
  OBVIOUS
<1> HIDE DEF c
<1> QED
  BY <1>7, <1>8 DEF Contract!Next

LEMMA ResetKeeps ==
  ASSUME IInv, ResetAllLanes
  PROVE  Contract!Next
<1> DEFINE gen == [l \in Lanes |-> generation[l] + 1]
           a == [l \in Lanes |-> {}]
<1>1. Ready(queue, a, maxConcurrent, gen, status)
  BY ResetReady
<1>2. Occupied(Lanes \ Lanes, queue, a, maxConcurrent)
  BY DEF Occupied
<1>3. /\ DrainLanes(Lanes, queue, a, maxConcurrent, gen, status)
      /\ maxConcurrent' = maxConcurrent
  BY DEF ResetAllLanes
<1> HIDE DEF gen, a
<1>4. Contract!Served(queue, a, maxConcurrent, Seen(status))
  BY <1>1, <1>2, <1>3, DrainServes
<1>5. Contract!Forfeit
  BY <1>4, SeenNow DEF Contract!Forfeit, a
<1> QED
  BY <1>5 DEF Contract!Next

LEMMA ClearKeeps ==
  ASSUME IInv, NEW l \in Lanes, ClearCommandLane(l)
  PROVE  Contract!Next
<1>1. [e \in Entries |-> CallOf(e)]'
        = [e \in Entries |-> IF e \in Contract!Front(queue[l], Len(queue[l]))
                             THEN "over" ELSE [d \in Entries |-> CallOf(d)][e]]
  <2>1. \A e \in Entries : status'[e] = IF e \in FirstOf(queue[l], Len(queue[l]))
                                        THEN "cleared" ELSE status[e]
    BY DEF ClearCommandLane
  <2>2. Contract!Front(queue[l], Len(queue[l])) = FirstOf(queue[l], Len(queue[l]))
    BY DEF Contract!Front, FirstOf
  <2> QED
    BY <2>1, <2>2 DEF CallOf, Settled
<1>2. Contract!Dismiss(l)
  BY <1>1 DEF Contract!Dismiss, ClearCommandLane
<1> QED
  BY <1>2 DEF Contract!Next

LEMMA StepKeeps == IInv /\ [Next]_vars => [Contract!Next]_(Contract!contractVars)
<1> SUFFICES ASSUME IInv, [Next]_vars PROVE Contract!Next \/ UNCHANGED Contract!contractVars
  OBVIOUS
<1>1. ASSUME NEW e \in Entries, EnqueueCommandInLane(e) PROVE Contract!Next
  BY <1>1, EnqueueKeeps
<1>2. ASSUME NEW e \in Entries, NEW outcome \in {"resolved", "rejected"},
             TaskSettles(e, outcome)
      PROVE  Contract!Next
  BY <1>2, SettleKeeps
<1>3. ASSUME NEW l \in Lanes, NEW n \in Caps, SetCommandLaneConcurrency(l, n)
      PROVE  Contract!Next
  BY <1>3, SetConcurrencyKeeps
<1>4. ASSUME NEW l \in Lanes, ClearCommandLane(l) PROVE Contract!Next
  BY <1>4, ClearKeeps
<1>5. CASE ResetAllLanes
  BY <1>5, ResetKeeps
<1>6. CASE \/ MarkGatewayDraining
           \/ \E w \in Waiters, instant \in BOOLEAN : WaitForActiveTasks(w, instant)
           \/ \E w \in Waiters : WaiterTimesOut(w)
           \/ UNCHANGED vars
  <2>1. UNCHANGED <<queue, active, maxConcurrent, status>>
    BY <1>6 DEF MarkGatewayDraining, WaitForActiveTasks, WaiterTimesOut, laneVars, vars
  <2> QED
    BY <2>1 DEF Contract!contractVars, CallOf
<1> QED
  BY <1>1, <1>2, <1>3, <1>4, <1>5, <1>6 DEF Next

\* command-queue.ts implements the abstract lanes: callers are served in the order
\* they came, within the capacity, with no place left free, whatever the generations,
\* the draining flag and the waiters do.
THEOREM LanesKeepContract == Spec => KeepsContract
<1>1. Init => Contract!Init
  BY DEF Init, Contract!Init, CallOf, Settled
<1>2. IInv /\ [Next]_vars => [Contract!Next]_(Contract!contractVars)
  BY StepKeeps
<1> QED
  BY <1>1, <1>2, Inductive, PTL DEF Spec, KeepsContract, Contract!Spec
=============================================================================
