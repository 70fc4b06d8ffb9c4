------------------------ MODULE FollowupQueueProofs ------------------------
(***************************************************************************)
(* Proofs about FollowupQueue, for every set of messages, routes and       *)
(* settings and every number of queue objects.                             *)
(*                                                                         *)
(* A drain removes what it ran by position, from a queue that enqueues     *)
(* append to and overflows cut at its front meanwhile.  The argument       *)
(* follows the elements: every message waits in one place only, and what a *)
(* run carries and still waits stands within the positions its end removes *)
(* (PlaceInv).  With a drop policy that cuts nothing the converse holds    *)
(* too, and until the first clear only one queue object is in use.         *)
(***************************************************************************)
EXTENDS FollowupQueue, FiniteSetTheorems, SequenceTheorems, WellFoundedInduction,
        NaturalsInduction, TLAPS

-----------------------------------------------------------------------------
(* Sequences. *)

\* splice(0, n): what stays is the tail, in order.
LEMMA WithoutFacts ==
  ASSUME NEW S, NEW s \in Seq(S), NEW n \in Nat
  PROVE  /\ Without(s, n) \in Seq(S)
         /\ Len(Without(s, n)) = IF n <= Len(s) THEN Len(s) - n ELSE 0
         /\ \A i \in 1..Len(Without(s, n)) :
              n + i \in 1..Len(s) /\ Without(s, n)[i] = s[n + i]
<1>0. Len(s) \in Nat
  BY LenProperties
<1>1. s \in [1..Len(s) -> S]
  BY LenProperties
<1>2. \A i \in n + 1..Len(s) : s[i] \in S
  BY <1>0, <1>1
<1>3. /\ Without(s, n) \in Seq(S)
      /\ Len(Without(s, n)) = IF n + 1 <= Len(s) THEN Len(s) - (n + 1) + 1 ELSE 0
      /\ \A i \in 1..Len(s) - (n + 1) + 1 : Without(s, n)[i] = s[(n + 1) + i - 1]
  BY <1>0, <1>2, SubSeqProperties DEF Without
<1> HIDE DEF Without
<1>4. n + 1 <= Len(s) => Len(Without(s, n)) = Len(s) - n
  <2>1. n + 1 <= Len(s) => Len(Without(s, n)) = Len(s) - (n + 1) + 1
    BY <1>3
  <2> QED
    BY <1>0, <2>1
<1>5. ~(n + 1 <= Len(s)) => Len(Without(s, n)) = 0
  BY <1>3
<1>6. /\ n <= Len(s) => Len(Without(s, n)) = Len(s) - n
      /\ ~(n <= Len(s)) => Len(Without(s, n)) = 0
  BY <1>0, <1>4, <1>5
<1>7. ASSUME NEW i \in 1..Len(Without(s, n))
      PROVE  n + i \in 1..Len(s) /\ Without(s, n)[i] = s[n + i]
  <2>1. n <= Len(s) /\ i \in 1..Len(s) - n
    BY <1>0, <1>6
  <2>2. n + i \in 1..Len(s) /\ i \in 1..Len(s) - (n + 1) + 1 /\ (n + 1) + i - 1 = n + i
    BY <1>0, <2>1
  <2> QED
    BY <1>3, <2>2
<1> QED
  BY <1>3, <1>6, <1>7

\* What applyQueueDropPolicy takes from the front.
LEMMA FrontFacts ==
  ASSUME NEW S, NEW s \in Seq(S), NEW n \in 0..Len(s)
  PROVE  /\ SubSeq(s, 1, n) \in Seq(S)
         /\ SetOf(SubSeq(s, 1, n)) = {s[i] : i \in 1..n}
<1>1. Len(s) \in Nat /\ s \in [1..Len(s) -> S]
  BY LenProperties
<1>2. \A i \in 1..n : s[i] \in S
  BY <1>1
<1>3. /\ SubSeq(s, 1, n) \in Seq(S)
      /\ Len(SubSeq(s, 1, n)) = IF 1 <= n THEN n - 1 + 1 ELSE 0
      /\ \A i \in 1..n - 1 + 1 : SubSeq(s, 1, n)[i] = s[1 + i - 1]
  BY <1>1, <1>2, SubSeqProperties
<1>4. Len(SubSeq(s, 1, n)) = n /\ \A i \in 1..n : SubSeq(s, 1, n)[i] = s[i]
  BY <1>1, <1>3
<1> QED
  BY <1>3, <1>4 DEF SetOf

\* A queue that is not empty has a first message.
LEMMA NotEmpty ==
  ASSUME NEW S, NEW s \in Seq(S)
  PROVE  /\ Len(s) \in Nat
         /\ s # << >> <=> Len(s) > 0
         /\ s # << >> => s[1] \in S
BY EmptySeq, LenProperties

\* A sequence of messages holds messages.
LEMMA SetOfTyped ==
  ASSUME NEW S, NEW s \in Seq(S)
  PROVE  SetOf(s) \subseteq S
BY LenProperties DEF SetOf

\* Of some queue objects one is the first, which getFollowupQueue takes.
LEMMA LeastQueue ==
  ASSUME NEW T \in SUBSET Nat, T # {}
  PROVE  \E o \in T : \A p \in T : o <= p
<1> DEFINE R == OpToRel(<, Nat)
<1>1. IsWellFoundedOn(R, Nat)
  BY NatLessThanWellFounded
<1>2. \A p, o \in T : <<p, o>> \in R <=> p < o
  BY DEF OpToRel
<1> HIDE DEF R
<1>3. \E o \in T : \A p \in T : ~(<<p, o>> \in R)
  BY <1>1, WFMin
<1>4. PICK o \in T : \A p \in T : ~(<<p, o>> \in R)
  BY <1>3
<1>5. \A p \in T : ~(p < o)
  BY <1>2, <1>4
<1> QED
  BY <1>4, <1>5

-----------------------------------------------------------------------------
(* The operators of the module. *)

\* Messages of one destination, which can be routed to.
OneRoute(T) == \A m, n \in T : RouteOf[m] = RouteOf[n] /\ RouteOf[m] # Unroutable

\* A drain that carries nothing; if it has compared destinations, they were one.
Quiet(d) == /\ d \in Drains /\ d.pc # "running"
            /\ d.msgs = << >> /\ d.notes = << >>
            /\ OneRoute(d.checked) /\ (d.pc = "checked" => ~d.forced)

LEMMA QuietDrains ==
  /\ Idle \in Drains /\ Quiet(Idle) /\ Idle.pc = "idle"
  /\ \A f \in BOOLEAN : /\ Quiet([Idle EXCEPT !.pc = "debounce", !.forced = f])
                        /\ [Idle EXCEPT !.pc = "debounce", !.forced = f].pc = "debounce"
  /\ Quiet([Idle EXCEPT !.pc = "debounce"]) /\ [Idle EXCEPT !.pc = "debounce"].pc = "debounce"
<1>1. << >> \in Seq(Msgs)
  BY EmptySeq
<1> QED
  BY <1>1 DEF Idle, Drains, Quiet, OneRoute

\* scheduleFollowupDrain changes at most the drain of the queue it is called for;
\* afterwards that queue is drained or, being empty, no longer registered.
LEMMA ScheduleFacts ==
  ASSUME NEW reg \in Queues \cup {NoQueue}, NEW its, NEW drp,
         NEW dr \in [Queues -> Drains], ScheduleDrain(reg, its, drp, dr)
  PROVE  /\ registered' \in {reg, NoQueue} /\ drain' \in [Queues -> Drains]
         /\ \A o \in Queues : drain'[o] = dr[o] \/ Quiet(drain'[o])
         /\ \A o \in Queues : o # reg => drain'[o] = dr[o]
         /\ registered' = NoQueue => drain' = dr
         /\ registered' = NoQueue /\ reg # NoQueue =>
              its[reg] = << >> /\ drp[reg] = << >> /\ dr[reg].pc = "idle"
         /\ registered' # NoQueue => drain'[registered'].pc # "idle"
<1> NoQueue \notin Queues
  BY BoundsAssumption DEF Queues, NoQueue
<1>1. CASE reg = NoQueue
  BY <1>1 DEF ScheduleDrain
<1>2. CASE reg \in Queues /\ dr[reg].pc # "idle"
  BY <1>2 DEF ScheduleDrain
<1>3. CASE reg \in Queues /\ dr[reg].pc = "idle" /\ its[reg] = << >> /\ drp[reg] = << >>
  BY <1>3 DEF ScheduleDrain
<1>4. CASE reg \in Queues /\ dr[reg].pc = "idle" /\ ~(its[reg] = << >> /\ drp[reg] = << >>)
  <2> DEFINE d == [Idle EXCEPT !.pc = "debounce"]
  <2>1. Quiet(d) /\ d.pc = "debounce" /\ d \in Drains
    BY QuietDrains DEF Quiet
  <2>2. registered' = reg /\ drain' = [dr EXCEPT ![reg] = d]
    BY <1>4 DEF ScheduleDrain
  <2> HIDE DEF d
  <2> QED
    BY <1>4, <2>1, <2>2
<1> QED
  BY <1>1, <1>2, <1>3, <1>4

\* What the end of a run or of a drain leaves: the drain of o carries nothing, no
\* other drain carries more than before, and if o is the registered queue it is
\* drained again or forgotten empty.
DrainGoesOn(o, its, drp) ==
  /\ registered' \in {registered, NoQueue} /\ drain' \in [Queues -> Drains]
  /\ \A p \in Queues : drain'[p] = drain[p] \/ Quiet(drain'[p])
  /\ Quiet(drain'[o])
  /\ o = registered =>
       /\ \A p \in Queues : p # o => drain'[p] = drain[p]
       /\ registered' = NoQueue => its[o] = << >> /\ drp[o] = << >> /\ drain'[o].pc = "idle"
       /\ registered' # NoQueue => drain'[o].pc # "idle"

LEMMA FinishFacts ==
  ASSUME registered \in Queues \cup {NoQueue}, drain \in [Queues -> Drains],
         NEW o \in Queues, NEW its, NEW drp, FinishDrain(o, its, drp)
  PROVE  DrainGoesOn(o, its, drp)
<1> NoQueue \notin Queues
  BY BoundsAssumption DEF Queues, NoQueue
<1> DEFINE dr == [drain EXCEPT ![o] = Idle]
<1>1. /\ dr \in [Queues -> Drains] /\ Quiet(dr[o]) /\ dr[o].pc = "idle"
      /\ \A p \in Queues : p # o => dr[p] = drain[p]
  BY QuietDrains
<1>2. CASE its[o] = << >> /\ drp[o] = << >>
  <2>1. registered' = NoQueue /\ drain' = dr
    BY <1>2 DEF FinishDrain
  <2> HIDE DEF dr
  <2> QED
    BY <1>1, <1>2, <2>1 DEF DrainGoesOn
<1>3. CASE ~(its[o] = << >> /\ drp[o] = << >>)
  <2>1. ScheduleDrain(registered, its, drp, dr)
    BY <1>3 DEF FinishDrain
  <2> HIDE DEF dr
  <2>2. /\ registered' \in {registered, NoQueue} /\ drain' \in [Queues -> Drains]
        /\ \A p \in Queues : drain'[p] = dr[p] \/ Quiet(drain'[p])
        /\ \A p \in Queues : p # registered => drain'[p] = dr[p]
        /\ registered' = NoQueue /\ registered # NoQueue =>
             its[registered] = << >> /\ drp[registered] = << >>
        /\ registered' # NoQueue => drain'[registered'].pc # "idle"
    BY <1>1, <2>1, ScheduleFacts
  <2> QED
    BY <1>1, <1>3, <2>2 DEF DrainGoesOn
<1> QED
  BY <1>2, <1>3

LEMMA LoopAgainFacts ==
  ASSUME registered \in Queues \cup {NoQueue}, drain \in [Queues -> Drains],
         NEW o \in Queues, NEW its, NEW drp, LoopAgain(o, its, drp)
  PROVE  DrainGoesOn(o, its, drp)
<1> NoQueue \notin Queues
  BY BoundsAssumption DEF Queues, NoQueue
<1>1. CASE its[o] = << >> /\ drp[o] = << >>
  BY <1>1, FinishFacts DEF LoopAgain
<1>2. CASE ~(its[o] = << >> /\ drp[o] = << >>)
  <2> DEFINE d == [Idle EXCEPT !.pc = "debounce", !.forced = drain[o].forced]
  <2>1. drain[o].forced \in BOOLEAN
    BY DEF Drains
  <2>2. Quiet(d) /\ d.pc = "debounce" /\ d \in Drains
    BY <2>1, QuietDrains DEF Quiet
  <2>3. registered' = registered /\ drain' = [drain EXCEPT ![o] = d]
    BY <1>2 DEF LoopAgain
  <2> HIDE DEF d
  <2> QED
    BY <2>2, <2>3 DEF DrainGoesOn
<1> QED
  BY <1>1, <1>2

\* getFollowupQueue: the registered queue, or an object nobody refers to.
LEMMA QueueForFacts ==
  ASSUME registered \in Queues \cup {NoQueue}, registered # NoQueue \/ Free # {}
  PROVE  /\ QueueFor \in Queues
         /\ registered # NoQueue => QueueFor = registered
         /\ registered = NoQueue => QueueFor \in Free
<1>1. CASE registered # NoQueue
  BY <1>1 DEF QueueFor
<1>2. CASE registered = NoQueue
  <2>1. Free \in SUBSET Nat /\ Free \subseteq Queues /\ Free # {}
    BY <1>2 DEF Free, Queues
  <2>2. \E o \in Free : \A p \in Free : o <= p
    BY <2>1, LeastQueue
  <2>3. QueueFor = CHOOSE o \in Free : \A p \in Free : o <= p
    BY <1>2 DEF QueueFor
  <2>4. QueueFor \in Free
    BY <2>2, <2>3
  <2> QED
    BY <1>2, <2>1, <2>4
<1> QED
  BY <1>1, <1>2

\* Whether enqueueFollowupRun pushes the message.
Accepted(m, s, o) == m \notin recent /\ ~(Overflow(items[o], s) > 0 /\ s.drop = "new")

\* A push keeps the rest in order, behind it comes the message, and the cap holds.
LEMMA PushFacts ==
  ASSUME NEW m \in Msgs, NEW s \in AllSettings, NEW o \in Queues,
         items \in [Queues -> Seq(Msgs)], Push(m, s, o), Accepted(m, s, o)
  PROVE  LET n == Overflow(items[o], s)
             t == items'[o]
         IN  /\ n \in 0..Len(items[o])
             /\ items' = [items EXCEPT ![o] = t]
             /\ t \in Seq(Msgs) /\ Len(t) = Len(items[o]) - n + 1 /\ Len(t) <= s.cap
             /\ \A i \in 1..Len(t) - 1 : n + i \in 1..Len(items[o]) /\ t[i] = items[o][n + i]
             /\ t[Len(t)] = m
<1> DEFINE q == items[o]
           n == Overflow(q, s)
           w == Without(q, n)
           t == Append(w, m)
<1>1. Len(q) \in Nat /\ q \in Seq(Msgs)
  BY LenProperties
<1>2. s.cap \in Nat \ {0}
  BY SettingsAssumption
<1>3. n \in 0..Len(q) /\ Len(q) - n + 1 <= s.cap
  BY <1>1, <1>2 DEF Overflow
<1>4. items' = [items EXCEPT ![o] = t]
  BY DEF Push, Accepted, IsDuplicate
<1>5. items'[o] = t
  BY <1>4
<1> HIDE DEF n, q
<1>6. n \in Nat
  BY <1>1, <1>3
<1>7. /\ w \in Seq(Msgs) /\ Len(w) = Len(q) - n
      /\ \A i \in 1..Len(w) : n + i \in 1..Len(q) /\ w[i] = q[n + i]
  <2>1. n <= Len(q)
    BY <1>1, <1>3
  <2> QED
    BY <1>1, <1>6, <2>1, WithoutFacts
<1> HIDE DEF w
<1>8. /\ t \in Seq(Msgs) /\ Len(t) = Len(w) + 1
      /\ \A i \in 1..Len(w) : t[i] = w[i]
      /\ t[Len(w) + 1] = m
  BY <1>7, AppendProperties
<1> HIDE DEF t
<1>9. Len(t) - 1 = Len(w) /\ Len(t) = Len(q) - n + 1
  BY <1>1, <1>3, <1>7, <1>8
<1>10. Len(t) <= s.cap /\ t[Len(t)] = m
  BY <1>3, <1>8, <1>9
<1>11. \A i \in 1..Len(t) - 1 : n + i \in 1..Len(q) /\ t[i] = q[n + i]
  BY <1>7, <1>8, <1>9
<1> QED
  BY <1>3, <1>4, <1>5, <1>8, <1>9, <1>10, <1>11 DEF n, q

\* A refused or repeated message leaves the queue as it is.
LEMMA RefusedFacts ==
  ASSUME NEW m \in Msgs, NEW s \in AllSettings, NEW o \in Queues,
         Push(m, s, o), ~Accepted(m, s, o)
  PROVE  /\ UNCHANGED <<items, dropped, recent>>
         /\ \/ fate' = fate
            \/ m \notin recent /\ fate' = [fate EXCEPT ![m] = "refused"]
BY DEF Push, Accepted, IsDuplicate

\* What a push does to the message, and to the messages the drop policy takes.
LEMMA MarkFacts ==
  ASSUME NEW m \in Msgs, NEW s \in AllSettings, NEW o \in Queues,
         items \in [Queues -> Seq(Msgs)], dropped \in [Queues -> Seq(Msgs)],
         fate \in [Msgs -> Fates], Push(m, s, o), Accepted(m, s, o)
  PROVE  LET gone == {items[o][i] : i \in 1..Overflow(items[o], s)}
         IN  /\ recent' = recent \cup {m}
             /\ fate' \in [Msgs -> Fates]
             /\ \A d \in Msgs :
                  fate'[d] = IF d = m /\ fate[d] \in {"new", "refused"} THEN "queued"
                             ELSE IF d \notin gone THEN fate[d]
                             ELSE IF s.drop = "summarize" THEN "summarized" ELSE "dropped"
             /\ dropped' \in [Queues -> Seq(Msgs)]
             /\ \A p \in Queues : SetOf(dropped'[p]) \subseteq SetOf(dropped[p]) \cup gone
             /\ s.drop # "summarize" => dropped' = dropped
<1> DEFINE q == items[o]
           n == Overflow(q, s)
           front == SubSeq(q, 1, n)
           gone == {q[i] : i \in 1..n}
<1>1. n \in 0..Len(q) /\ q \in Seq(Msgs)
  BY PushFacts
<1>2. front \in Seq(Msgs) /\ SetOf(front) = gone
  BY <1>1, FrontFacts
<1>3. /\ recent' = recent \cup {m}
      /\ dropped' = IF s.drop = "summarize" THEN [dropped EXCEPT ![o] = @ \o front] ELSE dropped
      /\ fate' = [d \in Msgs |->
                    IF d = m /\ fate[d] \in {"new", "refused"} THEN "queued"
                    ELSE IF d \in SetOf(front)
                         THEN IF s.drop = "summarize" THEN "summarized" ELSE "dropped"
                         ELSE fate[d]]
  BY DEF Push, Accepted, IsDuplicate
<1> HIDE DEF front
<1>4. /\ fate' \in [Msgs -> Fates]
      /\ \A d \in Msgs :
           fate'[d] = IF d = m /\ fate[d] \in {"new", "refused"} THEN "queued"
                      ELSE IF d \notin gone THEN fate[d]
                      ELSE IF s.drop = "summarize" THEN "summarized" ELSE "dropped"
  <2> HIDE DEF gone
  <2> QED
    BY <1>2, <1>3 DEF Fates
<1> HIDE DEF gone
<1>5. CASE s.drop = "summarize"
  <2> DEFINE r == dropped[o] \o front
  <2>1. /\ r \in Seq(Msgs) /\ Len(r) = Len(dropped[o]) + Len(front)
        /\ \A i \in 1..Len(dropped[o]) + Len(front) :
             r[i] = IF i <= Len(dropped[o]) THEN dropped[o][i] ELSE front[i - Len(dropped[o])]
    BY <1>2, ConcatProperties
  <2>2. Len(dropped[o]) \in Nat /\ Len(front) \in Nat
    BY <1>2, LenProperties
  <2> HIDE DEF r
  <2>3. SetOf(r) \subseteq SetOf(dropped[o]) \cup SetOf(front)
    <3> SUFFICES ASSUME NEW i \in 1..Len(r)
                 PROVE  r[i] \in SetOf(dropped[o]) \cup SetOf(front)
      BY DEF SetOf
    <3>1. CASE i <= Len(dropped[o])
      BY <2>1, <2>2, <3>1 DEF SetOf
    <3>2. CASE ~(i <= Len(dropped[o]))
      <4>1. i - Len(dropped[o]) \in 1..Len(front)
        BY <2>1, <2>2, <3>2
      <4> QED
        BY <2>1, <3>2, <4>1 DEF SetOf
    <3> QED
      BY <3>1, <3>2
  <2>4. dropped' = [dropped EXCEPT ![o] = r]
    BY <1>3, <1>5 DEF r
  <2> QED
    BY <1>2, <1>3, <1>4, <1>5, <2>1, <2>3, <2>4 DEF gone
<1>6. CASE s.drop # "summarize"
  BY <1>3, <1>4, <1>6 DEF gone
<1> QED
  BY <1>5, <1>6

\* The run a pass of the loop starts: the whole queue in one prompt, once its
\* destinations are compared, the first message for a summary of the dropped ones,
\* or the first message alone.
Whole(o, j) ==
  /\ j.msgs = items[o] /\ j.removes = Len(items[o])
  /\ drain[o].pc = "checked" /\ j.forced = drain[o].forced
ForSummary(o, j) ==
  /\ j.msgs = << >> /\ j.removes = 1 /\ items[o] # << >>
  /\ settings[o].drop = "summarize" /\ dropped[o] # << >>
First(o, j) == j.msgs = <<items[o][1]>> /\ j.removes = 1 /\ items[o] # << >>

JobOf(o, j) ==
  /\ j \in Drains /\ j.pc = "running" /\ j.checked = drain[o].checked
  /\ j.notes \in {<< >>, dropped[o]}
  /\ Whole(o, j) \/ ForSummary(o, j) \/ First(o, j)

LEMMA SummaryFacts ==
  ASSUME TypeOK, NEW o \in Queues
  PROVE  /\ Summary(o) \in Seq(Msgs) /\ Summary(o) \in {<< >>, dropped[o]}
         /\ Summary(o) # << >> => settings[o].drop = "summarize" /\ dropped[o] # << >>
BY EmptySeq DEF Summary, TypeOK

LEMMA NextJobFacts ==
  ASSUME TypeOK, NEW o \in Queues, NextJob(o) # Idle
  PROVE  JobOf(o, NextJob(o))
<1> DEFINE q == items[o]
           d == drain[o]
           collect == settings[o].mode = "collect"
           alone == collect \/ Summary(o) = << >>
           f == d.forced \/ (collect /\ IsCrossChannel(q))
           b == ~alone
           one == <<q[1]>>
           none == << >>
           Job(msgs, told) == [d EXCEPT !.pc = "running", !.removes = 1, !.summary = b,
                                        !.forced = f, !.msgs = msgs, !.notes = told]
<1>1. /\ q # << >> /\ d \in Drains /\ none \in Seq(Msgs) /\ f \in BOOLEAN /\ b \in BOOLEAN
      /\ NextJob(o) = Job(IF alone THEN one ELSE none, IF alone THEN none ELSE Summary(o))
  BY EmptySeq DEF NextJob, NoJob, TypeOK, Drains
<1>2. one \in Seq(Msgs)
  BY <1>1, NotEmpty DEF TypeOK
<1> HIDE DEF f, b, d, one, none
<1>3. ASSUME NEW msgs \in Seq(Msgs), NEW told \in Seq(Msgs)
      PROVE  /\ Job(msgs, told) \in Drains /\ Job(msgs, told).pc = "running"
             /\ Job(msgs, told).checked = d.checked /\ Job(msgs, told).removes = 1
             /\ Job(msgs, told).msgs = msgs /\ Job(msgs, told).notes = told
  BY <1>1 DEF Drains
<1> HIDE DEF Job
<1>4. CASE alone
  <2> DEFINE j == Job(one, none)
  <2>1. /\ j \in Drains /\ j.pc = "running" /\ j.checked = d.checked
        /\ j.removes = 1 /\ j.msgs = one /\ j.notes = none
    BY <1>1, <1>2, <1>3
  <2>2. NextJob(o) = j
    BY <1>1, <1>4
  <2> HIDE DEF j
  <2> QED
    BY <1>1, <2>1, <2>2 DEF JobOf, First, one, none, d
<1>5. CASE ~alone
  <2> DEFINE j == Job(none, Summary(o))
  <2>1. /\ j \in Drains /\ j.pc = "running" /\ j.checked = d.checked
        /\ j.removes = 1 /\ j.msgs = none /\ j.notes = Summary(o)
    BY <1>1, <1>3, SummaryFacts
  <2>2. NextJob(o) = j
    BY <1>1, <1>5
  <2> HIDE DEF j
  <2> QED
    BY <1>1, <1>5, <2>1, <2>2, SummaryFacts DEF JobOf, ForSummary, none, d
<1> QED
  BY <1>4, <1>5

LEMMA CollectJobFacts ==
  ASSUME TypeOK, NEW o \in Queues, drain[o].pc = "checked", CollectJob(o) # Idle
  PROVE  JobOf(o, CollectJob(o))
<1> DEFINE q == items[o]
           d == drain[o]
           n == Len(q)
           told == Summary(o)
           b == told # << >>
           job == [d EXCEPT !.pc = "running", !.removes = n, !.msgs = q, !.notes = told,
                            !.summary = b]
<1>1. /\ q \in Seq(Msgs) /\ n \in Nat /\ d \in Drains /\ b \in BOOLEAN
      /\ told \in Seq(Msgs) /\ told \in {<< >>, dropped[o]}
  BY LenProperties, SummaryFacts DEF TypeOK
<1>2. CollectJob(o) = job
  BY DEF CollectJob, NoJob
<1> HIDE DEF q, d, n, told, b
<1>3. /\ job \in Drains /\ job.pc = "running" /\ job.checked = d.checked
      /\ job.forced = d.forced /\ job.removes = n /\ job.msgs = q /\ job.notes = told
  BY <1>1 DEF Drains
<1> HIDE DEF job
<1> QED
  BY <1>1, <1>2, <1>3 DEF JobOf, Whole, q, d, n

-----------------------------------------------------------------------------
(* What each action does to the queues and the drains. *)

\* No drain carries more than before.
CarryNoMore ==
  /\ registered' \in Queues \cup {NoQueue} /\ drain' \in [Queues -> Drains]
  /\ \A p \in Queues : drain'[p] = drain[p] \/ Quiet(drain'[p])

LEMMA EnqueueEffect ==
  ASSUME TypeOK, NEW m \in Msgs, NEW s \in AllSettings, NEW seen \in BOOLEAN,
         Enqueue(m, s, seen)
  PROVE  /\ QueueFor \in Queues /\ Push(m, s, QueueFor)
         /\ registered # NoQueue => QueueFor = registered
         /\ registered = NoQueue => QueueFor \in Free
         /\ CarryNoMore
         /\ settings' = [settings EXCEPT ![QueueFor] = s]
         /\ behind \subseteq behind' /\ behind' \subseteq behind \cup (recent' \ recent)
         /\ UNCHANGED <<turnActive, command, counts>>
<1>1. /\ QueueFor \in Queues /\ (registered # NoQueue => QueueFor = registered)
      /\ registered = NoQueue => QueueFor \in Free
  BY QueueForFacts DEF Enqueue, TypeOK
<1>2. CASE seen
  BY <1>1, <1>2 DEF Enqueue, CarryNoMore, Push, TypeOK
<1>3. CASE ~seen
  <2>1. ScheduleDrain(QueueFor, items', dropped', drain)
    BY <1>3 DEF Enqueue
  <2>2. drain \in [Queues -> Drains]
    BY DEF TypeOK
  <2>3. CarryNoMore
    BY <1>1, <2>1, <2>2, ScheduleFacts DEF CarryNoMore
  <2> QED
    BY <1>1, <2>3 DEF Enqueue, Push
<1> QED
  BY <1>2, <1>3

\* The end of a run removes by position and tells what it carried.
LEMMA RunEndsEffect ==
  ASSUME TypeOK, NEW o \in Queues, RunEnds(o)
  PROVE  LET d == drain[o]
             t == Without(items[o], d.removes)
         IN  /\ d.pc = "running" /\ d.removes \in Nat
             /\ items' = [items EXCEPT ![o] = t]
             /\ t \in Seq(Msgs)
             /\ Len(t) = IF d.removes <= Len(items[o]) THEN Len(items[o]) - d.removes ELSE 0
             /\ \A i \in 1..Len(t) : /\ d.removes + i \in 1..Len(items[o])
                                     /\ t[i] = items[o][d.removes + i]
             /\ dropped' \in [Queues -> Seq(Msgs)]
             /\ \A p \in Queues : dropped'[p] \in {dropped[p], << >>}
             /\ fate' \in [Msgs -> Fates]
             /\ \A m \in Msgs : fate'[m] = IF m \in SetOf(d.msgs) THEN "ran"
                                           ELSE IF m \in SetOf(d.notes) THEN "told" ELSE fate[m]
             /\ CarryNoMore /\ DrainGoesOn(o, items', dropped')
             /\ UNCHANGED <<settings, recent, turnActive, command, counts, behind>>
<1> DEFINE d == drain[o]
           t == Without(items[o], d.removes)
           drp == IF d.summary THEN [dropped EXCEPT ![o] = << >>] ELSE dropped
<1>1. d \in Drains /\ d.removes \in Nat /\ items[o] \in Seq(Msgs)
  BY DEF TypeOK, Drains
<1>2. /\ d.pc = "running" /\ items' = [items EXCEPT ![o] = t] /\ dropped' = drp
      /\ LoopAgain(o, items', dropped')
      /\ UNCHANGED <<settings, recent, turnActive, command, counts, behind>>
  BY DEF RunEnds
<1>3. fate' = [m \in Msgs |-> IF m \in SetOf(d.msgs) THEN "ran"
                              ELSE IF m \in SetOf(d.notes) THEN "told" ELSE fate[m]]
  BY DEF RunEnds
<1>4. fate' \in [Msgs -> Fates]
  BY <1>3 DEF TypeOK, Fates
<1>5. /\ t \in Seq(Msgs)
      /\ Len(t) = IF d.removes <= Len(items[o]) THEN Len(items[o]) - d.removes ELSE 0
      /\ \A i \in 1..Len(t) : d.removes + i \in 1..Len(items[o]) /\ t[i] = items[o][d.removes + i]
  BY <1>1, WithoutFacts
<1>6. dropped' \in [Queues -> Seq(Msgs)] /\ \A p \in Queues : dropped'[p] \in {dropped[p], << >>}
  BY <1>2, EmptySeq DEF TypeOK
<1>7. DrainGoesOn(o, items', dropped')
  BY <1>2, LoopAgainFacts DEF TypeOK
<1>8. CarryNoMore
  BY <1>7 DEF DrainGoesOn, CarryNoMore, TypeOK
<1> QED
  BY <1>1, <1>2, <1>3, <1>4, <1>5, <1>6, <1>7, <1>8

\* A pass of the loop starts the run j.
RunBegins(o, j) ==
  /\ drain[o].pc \in {"debounce", "checked"} /\ ~Busy /\ JobOf(o, j)
  /\ drain' = [drain EXCEPT ![o] = j]
  /\ UNCHANGED <<registered, items, dropped, recent, fate>>

LEMMA StartFacts ==
  ASSUME TypeOK, NEW o \in Queues, NEW j, j # Idle => JobOf(o, j), StartRun(o, j),
         drain[o].pc \in {"debounce", "checked"}, UNCHANGED <<items, dropped, recent, fate>>
  PROVE  (CarryNoMore /\ DrainGoesOn(o, items, dropped)) \/ RunBegins(o, j)
<1>1. CASE j = NoJob \/ Busy
  <2>1. FinishDrain(o, items, dropped)
    BY <1>1 DEF StartRun
  <2>2. DrainGoesOn(o, items, dropped)
    BY <2>1, FinishFacts DEF TypeOK
  <2> QED
    BY <2>2 DEF DrainGoesOn, CarryNoMore, TypeOK
<1>2. CASE ~(j = NoJob \/ Busy)
  BY <1>2 DEF StartRun, NoJob, RunBegins
<1> QED
  BY <1>1, <1>2

\* What waits where the destinations agree is of one route.
LEMMA WholeKeepsRouting ==
  ASSUME NEW o \in Queues, ~IsCrossChannel(items[o])
  PROVE  OneRoute(SetOf(items[o]))
BY DEF IsCrossChannel, OneRoute

\* A pass of the loop compares the destinations, starts a run or ends the drain.
LEMMA LoopEffect ==
  ASSUME TypeOK, NEW o \in Queues, DebounceOver(o) \/ Collect(o)
  PROVE  /\ drain[o].pc \in {"debounce", "checked"}
         /\ UNCHANGED <<items, settings, dropped, recent, turnActive, command, counts, fate, behind>>
         /\ \/ CarryNoMore /\ DrainGoesOn(o, items, dropped)
            \/ \E j \in Drains : RunBegins(o, j)
<1>1. /\ drain[o].pc \in {"debounce", "checked"}
      /\ UNCHANGED <<items, settings, dropped, recent, turnActive, command, counts, fate, behind>>
  BY DEF DebounceOver, Collect
<1>2. CASE Collect(o)
  BY <1>1, <1>2, CollectJobFacts, StartFacts DEF Collect, RunBegins, JobOf
<1>3. CASE DebounceOver(o) /\ StartRun(o, NextJob(o))
  BY <1>1, <1>3, NextJobFacts, StartFacts DEF RunBegins, JobOf
<1>4. CASE DebounceOver(o) /\ ~StartRun(o, NextJob(o))
  <2> DEFINE seen == SetOf(items[o])
             d == [Idle EXCEPT !.pc = "checked", !.checked = seen]
  <2>1. /\ ~IsCrossChannel(items[o])
        /\ drain' = [drain EXCEPT ![o] = d] /\ registered' = registered
    BY <1>4 DEF DebounceOver
  <2>2. seen \in SUBSET Msgs /\ OneRoute(seen) /\ << >> \in Seq(Msgs)
    <3>1. items[o] \in Seq(Msgs)
      BY DEF TypeOK
    <3> QED
      BY <2>1, <3>1, WholeKeepsRouting, SetOfTyped, EmptySeq
  <2> HIDE DEF seen
  <2>3. Quiet(d) /\ d.pc = "checked" /\ d \in Drains
    BY <2>2 DEF Idle, Drains, Quiet
  <2> HIDE DEF d
  <2>4. /\ drain' \in [Queues -> Drains] /\ drain'[o] = d
        /\ \A p \in Queues : p # o => drain'[p] = drain[p]
    BY <2>1, <2>3 DEF TypeOK
  <2>5. DrainGoesOn(o, items, dropped)
    BY <2>1, <2>3, <2>4, BoundsAssumption DEF DrainGoesOn, Queues, NoQueue
  <2>6. CarryNoMore
    BY <2>1, <2>3, <2>4 DEF CarryNoMore, TypeOK
  <2> QED
    BY <1>1, <2>5, <2>6
<1> QED
  BY <1>2, <1>3, <1>4

LEMMA RunThrowsEffect ==
  ASSUME TypeOK, NEW o \in Queues, RunThrows(o)
  PROVE  /\ drain[o].pc = "running"
         /\ CarryNoMore /\ DrainGoesOn(o, items, dropped)
         /\ failures' \in 0..MaxFailures
         /\ UNCHANGED <<items, settings, dropped, recent, turnActive, command, turns, clears,
                        commands, fate, behind>>
<1>1. DrainGoesOn(o, items, dropped)
  BY FinishFacts DEF RunThrows, TypeOK
<1>2. CarryNoMore
  BY <1>1 DEF DrainGoesOn, CarryNoMore, TypeOK
<1>3. failures' \in 0..MaxFailures
  BY BoundsAssumption DEF RunThrows, TypeOK
<1> QED
  BY <1>1, <1>2, <1>3 DEF RunThrows

LEMMA ClearEffect ==
  ASSUME TypeOK, ClearSessionQueues
  PROVE  /\ registered \in Queues /\ registered' = NoQueue
         /\ items' = [items EXCEPT ![registered] = << >>]
         /\ dropped' = [dropped EXCEPT ![registered] = << >>]
         /\ items' \in [Queues -> Seq(Msgs)] /\ dropped' \in [Queues -> Seq(Msgs)]
         /\ fate' \in [Msgs -> Fates]
         /\ \A m \in Msgs : fate'[m] = IF m \in SetOf(items[registered]) \cup SetOf(dropped[registered])
                                       THEN "cleared" ELSE fate[m]
         /\ clears' \in 0..MaxClears
         /\ UNCHANGED <<settings, drain, recent, turnActive, command, turns, failures, commands, behind>>
<1>1. registered \in Queues /\ << >> \in Seq(Msgs)
  BY EmptySeq DEF TypeOK, ClearSessionQueues
<1>2. clears' \in 0..MaxClears
  BY BoundsAssumption DEF ClearSessionQueues, TypeOK
<1>3. /\ registered' = NoQueue
      /\ items' = [items EXCEPT ![registered] = << >>]
      /\ dropped' = [dropped EXCEPT ![registered] = << >>]
      /\ UNCHANGED <<settings, drain, recent, turnActive, command, turns, failures, commands, behind>>
  BY DEF ClearSessionQueues
<1>4. items' \in [Queues -> Seq(Msgs)] /\ dropped' \in [Queues -> Seq(Msgs)]
  BY <1>1, <1>3 DEF TypeOK
<1>5. fate' = [m \in Msgs |-> IF m \in SetOf(items[registered]) \cup SetOf(dropped[registered])
                              THEN "cleared" ELSE fate[m]]
  BY DEF ClearSessionQueues
<1>6. fate' \in [Msgs -> Fates]
  BY <1>5 DEF TypeOK, Fates
<1> QED
  BY <1>1, <1>2, <1>3, <1>4, <1>5, <1>6

\* A turn, or a command run, begins or ends.
OtherRun == TurnStarts \/ TurnEnds \/ CommandStarts \/ CommandEnds

LEMMA OtherRunEffect ==
  ASSUME TypeOK, OtherRun
  PROVE  /\ CarryNoMore /\ turnActive' \in BOOLEAN /\ command' \in BOOLEAN
         /\ turns' \in 0..MaxTurns /\ commands' \in 0..MaxCommands
         /\ UNCHANGED <<items, settings, dropped, recent, failures, clears, fate, behind>>
<1>1. CASE TurnStarts
  BY <1>1, BoundsAssumption DEF TurnStarts, CarryNoMore, TypeOK
<1>2. CASE TurnEnds
  <2>1. ScheduleDrain(registered, items, dropped, drain)
    BY <1>2 DEF TurnEnds
  <2>2. CarryNoMore
    BY <2>1, ScheduleFacts DEF TypeOK, CarryNoMore
  <2> QED
    BY <1>2, <2>2 DEF TurnEnds, TypeOK, counts
<1>3. CASE CommandStarts
  BY <1>3, BoundsAssumption DEF CommandStarts, CarryNoMore, TypeOK
<1>4. CASE CommandEnds
  BY <1>4 DEF CommandEnds, CarryNoMore, TypeOK, counts
<1> QED
  BY <1>1, <1>2, <1>3, <1>4 DEF OtherRun

-----------------------------------------------------------------------------
(* Types, and the destinations of a coalesced prompt. *)

LEMMA InitTypes == Init => TypeOK
<1> SUFFICES ASSUME Init PROVE TypeOK
  OBVIOUS
<1>1. << >> \in Seq(Msgs) /\ Len(<< >>) = 0
  BY EmptySeq
<1>2. items \in [Queues -> Seq(Msgs)] /\ dropped \in [Queues -> Seq(Msgs)]
  BY <1>1 DEF Init
<1>3. \A o \in Queues : \E s \in AllSettings : Len(items[o]) <= s.cap
  <2> SUFFICES ASSUME NEW o \in Queues PROVE Len(items[o]) <= settings[o].cap /\ settings[o] \in AllSettings
    OBVIOUS
  <2>1. settings[o] \in AllSettings /\ settings[o].cap \in Nat
    BY SettingsAssumption DEF Init
  <2>2. Len(items[o]) = 0
    BY <1>1 DEF Init
  <2> QED
    BY <2>1, <2>2
<1>4. drain \in [Queues -> Drains]
  BY QuietDrains DEF Init
<1>5. /\ turns \in 0..MaxTurns /\ failures \in 0..MaxFailures /\ clears \in 0..MaxClears
      /\ commands \in 0..MaxCommands
  BY BoundsAssumption DEF Init
<1>6. /\ registered \in Queues \cup {NoQueue} /\ settings \in [Queues -> AllSettings]
      /\ recent \in SUBSET Msgs /\ turnActive \in BOOLEAN /\ fate \in [Msgs -> Fates]
      /\ command \in BOOLEAN /\ behind \in SUBSET Msgs
  BY DEF Init, Fates
<1> QED
  BY <1>2, <1>3, <1>4, <1>5, <1>6 DEF TypeOK

LEMMA EnqueueTypes ==
  ASSUME TypeOK, NEW m \in Msgs, NEW s \in AllSettings, NEW seen \in BOOLEAN,
         Enqueue(m, s, seen)
  PROVE  TypeOK'
<1> DEFINE o == QueueFor
<1>1. /\ o \in Queues /\ Push(m, s, o) /\ CarryNoMore
      /\ settings' = [settings EXCEPT ![o] = s]
      /\ behind' \subseteq behind \cup (recent' \ recent)
      /\ UNCHANGED <<turnActive, command, counts>>
  BY EnqueueEffect
<1> HIDE DEF o
<1>2. settings' \in [Queues -> AllSettings]
  BY <1>1 DEF TypeOK
<1>3. CASE Accepted(m, s, o)
  <2>1. /\ items' = [items EXCEPT ![o] = items'[o]]
        /\ items'[o] \in Seq(Msgs) /\ Len(items'[o]) <= s.cap
    BY <1>1, <1>3, PushFacts DEF TypeOK
  <2>2. items' \in [Queues -> Seq(Msgs)]
    BY <2>1 DEF TypeOK
  <2>3. \A p \in Queues : \E t \in AllSettings : Len(items'[p]) <= t.cap
    BY <2>1 DEF TypeOK
  <2>4. recent' = recent \cup {m} /\ fate' \in [Msgs -> Fates] /\ dropped' \in [Queues -> Seq(Msgs)]
    BY <1>1, <1>3, MarkFacts DEF TypeOK
  <2> QED
    BY <1>1, <1>2, <2>2, <2>3, <2>4 DEF TypeOK, CarryNoMore, counts
<1>4. CASE ~Accepted(m, s, o)
  <2>1. /\ UNCHANGED <<items, dropped, recent>>
        /\ fate' = fate \/ fate' = [fate EXCEPT ![m] = "refused"]
    BY <1>1, <1>4, RefusedFacts
  <2>2. fate' \in [Msgs -> Fates]
    BY <2>1 DEF TypeOK, Fates
  <2> QED
    BY <1>1, <1>2, <2>1, <2>2 DEF TypeOK, CarryNoMore, counts
<1> QED
  BY <1>3, <1>4

LEMMA RunEndsTypes ==
  ASSUME TypeOK, NEW o \in Queues, RunEnds(o)
  PROVE  TypeOK'
<1> DEFINE t == Without(items[o], drain[o].removes)
<1>1. /\ items' = [items EXCEPT ![o] = t] /\ t \in Seq(Msgs)
      /\ Len(t) = IF drain[o].removes <= Len(items[o]) THEN Len(items[o]) - drain[o].removes ELSE 0
      /\ drain[o].removes \in Nat
      /\ dropped' \in [Queues -> Seq(Msgs)] /\ fate' \in [Msgs -> Fates] /\ CarryNoMore
      /\ UNCHANGED <<settings, recent, turnActive, command, counts, behind>>
  BY RunEndsEffect
<1> HIDE DEF t
<1>2. Len(items[o]) \in Nat
  BY LenProperties DEF TypeOK
<1>3. Len(t) <= Len(items[o]) /\ Len(t) \in Nat
  BY <1>1, <1>2
<1>4. items' \in [Queues -> Seq(Msgs)]
  BY <1>1 DEF TypeOK
<1>5. \A p \in Queues : \E s \in AllSettings : Len(items'[p]) <= s.cap
  <2>1. PICK s \in AllSettings : Len(items[o]) <= s.cap
    BY DEF TypeOK
  <2>2. s.cap \in Nat
    BY SettingsAssumption
  <2>3. Len(items'[o]) <= s.cap
    BY <1>1, <1>2, <1>3, <2>1, <2>2 DEF TypeOK
  <2> QED
    BY <1>1, <2>3 DEF TypeOK
<1> QED
  BY <1>1, <1>4, <1>5 DEF TypeOK, CarryNoMore, counts

LEMMA ClearTypes == TypeOK /\ ClearSessionQueues => TypeOK'
<1> SUFFICES ASSUME TypeOK, ClearSessionQueues PROVE TypeOK'
  OBVIOUS
<1>1. /\ registered \in Queues /\ registered' = NoQueue
      /\ items' = [items EXCEPT ![registered] = << >>]
      /\ items' \in [Queues -> Seq(Msgs)] /\ dropped' \in [Queues -> Seq(Msgs)]
      /\ fate' \in [Msgs -> Fates] /\ clears' \in 0..MaxClears
      /\ UNCHANGED <<settings, drain, recent, turnActive, command, turns, failures, commands, behind>>
  BY ClearEffect
<1>2. \A p \in Queues : \E s \in AllSettings : Len(items'[p]) <= s.cap
  <2>1. PICK s \in AllSettings : Len(items[registered]) <= s.cap
    BY <1>1 DEF TypeOK
  <2>2. s.cap \in Nat /\ Len(<< >>) = 0
    BY SettingsAssumption, EmptySeq
  <2>3. Len(items'[registered]) <= s.cap
    BY <1>1, <2>2 DEF TypeOK
  <2> QED
    BY <1>1, <2>3 DEF TypeOK
<1> QED
  BY <1>1, <1>2 DEF TypeOK

LEMMA NextTypes == TypeOK /\ [Next]_vars => TypeOK'
<1> SUFFICES ASSUME TypeOK, [Next]_vars PROVE TypeOK'
  OBVIOUS
<1>1. ASSUME NEW m \in Msgs, NEW s \in AllSettings, NEW seen \in BOOLEAN, Enqueue(m, s, seen)
      PROVE  TypeOK'
  BY <1>1, EnqueueTypes
<1>2. ASSUME NEW o \in Queues, DebounceOver(o) \/ Collect(o) PROVE TypeOK'
  <2>1. UNCHANGED <<items, settings, dropped, recent, turnActive, command, counts, fate, behind>>
    BY <1>2, LoopEffect
  <2>2. registered' \in Queues \cup {NoQueue} /\ drain' \in [Queues -> Drains]
    <3>1. CASE CarryNoMore
      BY <3>1 DEF CarryNoMore
    <3>2. ASSUME NEW j \in Drains, RunBegins(o, j)
          PROVE  registered' \in Queues \cup {NoQueue} /\ drain' \in [Queues -> Drains]
      BY <3>2 DEF RunBegins, TypeOK
    <3> QED
      BY <1>2, <3>1, <3>2, LoopEffect
  <2> QED
    BY <2>1, <2>2 DEF TypeOK, counts
<1>3. ASSUME NEW o \in Queues, RunEnds(o) PROVE TypeOK'
  BY <1>3, RunEndsTypes
<1>4. ASSUME NEW o \in Queues, RunThrows(o) PROVE TypeOK'
  BY <1>4, RunThrowsEffect DEF TypeOK, CarryNoMore
<1>5. CASE ClearSessionQueues
  BY <1>5, ClearTypes
<1>6. CASE OtherRun
  BY <1>6, OtherRunEffect DEF TypeOK, CarryNoMore
<1>7. CASE UNCHANGED vars
  BY <1>7 DEF vars, TypeOK
<1> QED
  BY <1>1, <1>2, <1>3, <1>4, <1>5, <1>6, <1>7 DEF Next, OtherRun

\* Type correctness of the followup queue's state (queue/state.ts, queue/types.ts):
\* no queue is longer than the cap of some settings it was given.
THEOREM TypeCorrect == Spec => []TypeOK
BY InitTypes, NextTypes, PTL DEF Spec

\* A step leaves a drain alone, lets it carry nothing, or starts its next run.
LEMMA DrainCases ==
  ASSUME TypeOK, [Next]_vars
  PROVE  \/ \A o \in Queues : drain'[o] = drain[o] \/ Quiet(drain'[o])
         \/ \E o \in Queues : \E j \in Drains : RunBegins(o, j)
<1>1. CASE CarryNoMore
  BY <1>1 DEF CarryNoMore
<1>2. ASSUME NEW m \in Msgs, NEW s \in AllSettings, NEW seen \in BOOLEAN, Enqueue(m, s, seen)
      PROVE  CarryNoMore
  BY <1>2, EnqueueEffect
<1>3. ASSUME NEW o \in Queues, DebounceOver(o) \/ Collect(o)
      PROVE  CarryNoMore \/ \E j \in Drains : RunBegins(o, j)
  BY <1>3, LoopEffect
<1>4. ASSUME NEW o \in Queues, RunEnds(o) \/ RunThrows(o) PROVE CarryNoMore
  BY <1>4, RunEndsEffect, RunThrowsEffect
<1>5. CASE ClearSessionQueues
  BY <1>5, ClearEffect
<1>6. CASE OtherRun
  BY <1>1, <1>6, OtherRunEffect
<1>7. CASE UNCHANGED vars
  BY <1>7 DEF vars
<1> QED
  BY <1>1, <1>2, <1>3, <1>4, <1>5, <1>6, <1>7 DEF Next, OtherRun

\* What a drain has compared is of one route, and it compares only while it may
\* collect.
RoutingInv ==
  \A o \in Queues :
    /\ OneRoute(drain[o].checked)
    /\ drain[o].pc = "checked" \/ Len(drain[o].msgs) > 1 => ~drain[o].forced

LEMMA NextRouting == TypeOK /\ RoutingInv /\ [Next]_vars => RoutingInv'
<1> SUFFICES ASSUME TypeOK, RoutingInv, [Next]_vars, NEW o \in Queues
             PROVE  /\ OneRoute(drain'[o].checked)
                    /\ drain'[o].pc = "checked" \/ Len(drain'[o].msgs) > 1 => ~drain'[o].forced
  BY DEF RoutingInv, OneRoute
<1>1. CASE drain'[o] = drain[o]
  BY <1>1 DEF RoutingInv
<1>2. CASE Quiet(drain'[o])
  BY <1>2, EmptySeq DEF Quiet
<1>3. ASSUME NEW p \in Queues, NEW j \in Drains, RunBegins(p, j), o = p
      PROVE  /\ OneRoute(drain'[o].checked)
             /\ drain'[o].pc = "checked" \/ Len(drain'[o].msgs) > 1 => ~drain'[o].forced
  <2>1. drain'[o] = j /\ j.checked = drain[o].checked /\ j.pc = "running"
    BY <1>3 DEF RunBegins, JobOf, TypeOK
  <2>2. ASSUME Len(j.msgs) > 1 PROVE Whole(o, j)
    <3>1. ~ForSummary(o, j)
      BY <2>2, EmptySeq DEF ForSummary
    <3> DEFINE u == <<items[o][1]>>
    <3>2. Len(u) = 1 /\ (First(o, j) => j.msgs = u)
      BY DEF First
    <3> HIDE DEF u
    <3>3. ASSUME First(o, j) PROVE FALSE
      <4>1. j.msgs = u
        BY <3>2, <3>3
      <4>2. Len(j.msgs) = 1
        BY <3>2, <4>1
      <4> QED
        BY <2>2, <4>2
    <3> QED
      BY <1>3, <3>1, <3>3 DEF RunBegins, JobOf
  <2> QED
    BY <2>1, <2>2 DEF RoutingInv, Whole
<1>4. ASSUME NEW p \in Queues, NEW j \in Drains, RunBegins(p, j), o # p
      PROVE  drain'[o] = drain[o]
  BY <1>4 DEF RunBegins, TypeOK
<1> QED
  BY <1>1, <1>2, <1>3, <1>4, DrainCases

LEMMA InitRouting == Init => RoutingInv
<1> SUFFICES ASSUME Init, NEW o \in Queues
             PROVE  /\ OneRoute(drain[o].checked)
                    /\ drain[o].pc # "checked" /\ ~(Len(drain[o].msgs) > 1)
  BY DEF RoutingInv
<1>1. drain[o].msgs = << >> /\ drain[o].checked = {} /\ drain[o].pc = "idle"
  BY DEF Init, Idle
<1> QED
  BY <1>1, EmptySeq DEF OneRoute

\* The messages of a prompt coalesced by drainCollectQueue that were in the queue
\* when hasCrossChannelItems compared the destinations share one that can be routed
\* to, whatever was enqueued, dropped or cleared meanwhile.
THEOREM RoutingKept == Spec => []CollectKeepsRouting
<1>1. RoutingInv => CollectKeepsRouting
  BY DEF RoutingInv, CollectKeepsRouting, OneRoute
<1> QED
  BY <1>1, InitRouting, NextRouting, TypeCorrect, PTL DEF Spec

-----------------------------------------------------------------------------
(* Where the messages are. *)

\* What became of a message that waits no more.
Past == Fates \ {"new", "refused", "queued"}

\* A message id is remembered exactly when its message was accepted.
RecentIsSeen == \A m \in Msgs : m \in recent <=> fate[m] \notin {"new", "refused"}

ItemsQueued == \A o \in Queues : \A i \in 1..Len(items[o]) : fate[items[o][i]] = "queued"

\* No message waits twice, in one queue or in two.
OnePlace ==
  \A o, p \in Queues : \A i \in 1..Len(items[o]), j \in 1..Len(items[p]) :
    items[o][i] = items[p][j] => o = p /\ i = j

DroppedArePast ==
  \A o \in Queues : \A m \in SetOf(dropped[o]) \cup SetOf(drain[o].notes) : fate[m] \in Past

\* A message a run carries, if it waits still, stands where the end of the run
\* removes it.
CarriedInFront ==
  \A o \in Queues : \A k \in 1..Len(drain[o].msgs) :
    /\ drain[o].msgs[k] \in recent
    /\ \A p \in Queues : \A i \in 1..Len(items[p]) :
         items[p][i] = drain[o].msgs[k] => p = o /\ i <= drain[o].removes

PlaceInv == RecentIsSeen /\ ItemsQueued /\ OnePlace /\ DroppedArePast /\ CarriedInFront

LEMMA InitPlace == Init => PlaceInv
<1> SUFFICES ASSUME Init PROVE PlaceInv
  OBVIOUS
<1>1. Len(<< >>) = 0 /\ SetOf(<< >>) = {}
  BY EmptySeq DEF SetOf
<1>2. \A o \in Queues : /\ items[o] = << >> /\ dropped[o] = << >>
                        /\ drain[o].msgs = << >> /\ drain[o].notes = << >>
  BY DEF Init, Idle
<1>3. RecentIsSeen
  BY DEF Init, RecentIsSeen
<1>4. ItemsQueued /\ OnePlace /\ DroppedArePast /\ CarriedInFront
  BY <1>1, <1>2 DEF ItemsQueued, OnePlace, DroppedArePast, CarriedInFront
<1> QED
  BY <1>3, <1>4 DEF PlaceInv

\* What waits has been accepted.
LEMMA WaitingIsRecent ==
  ASSUME TypeOK, RecentIsSeen, ItemsQueued, NEW o \in Queues, NEW i \in 1..Len(items[o])
  PROVE  items[o][i] \in Msgs /\ items[o][i] \in recent
<1>1. items[o][i] \in Msgs
  BY ElementOfSeq DEF TypeOK
<1> QED
  BY <1>1 DEF RecentIsSeen, ItemsQueued

\* Queues move when elements leave their fronts and new messages join their ends.
\* Then every message keeps its one place, and no run is overtaken.
Moves(h, o, new) ==
  \A p \in Queues : \A i \in 1..Len(items'[p]) :
    \/ h[p] + i \in 1..Len(items[p]) /\ items'[p][i] = items[p][h[p] + i]
    \/ p = o /\ i = Len(items'[p]) /\ items'[p][i] \in new

LEMMA MovesKeepPlaces ==
  ASSUME TypeOK, TypeOK', RecentIsSeen, ItemsQueued, OnePlace, CarriedInFront,
         NEW h \in [Queues -> Nat], NEW o, NEW new, new \cap recent = {}, Moves(h, o, new),
         \A p \in Queues : drain'[p] = drain[p] \/ Quiet(drain'[p]),
         recent \subseteq recent'
  PROVE  OnePlace' /\ CarriedInFront'
<1>1. ASSUME NEW p \in Queues, NEW i \in 1..Len(items'[p])
      PROVE  \/ /\ h[p] + i \in 1..Len(items[p]) /\ items'[p][i] = items[p][h[p] + i]
                /\ items'[p][i] \in recent
             \/ p = o /\ i = Len(items'[p]) /\ items'[p][i] \notin recent
  BY <1>1, WaitingIsRecent DEF Moves
<1>2. \A p \in Queues : Len(items'[p]) \in Nat /\ Len(items[p]) \in Nat /\ h[p] \in Nat
  BY LenProperties DEF TypeOK
<1>3. OnePlace'
  <2> SUFFICES ASSUME NEW p \in Queues, NEW q \in Queues,
                      NEW i \in 1..Len(items'[p]), NEW j \in 1..Len(items'[q]),
                      items'[p][i] = items'[q][j]
               PROVE  p = q /\ i = j
    BY DEF OnePlace
  <2>1. CASE items'[p][i] \in recent
    <3>1. /\ h[p] + i \in 1..Len(items[p]) /\ h[q] + j \in 1..Len(items[q])
          /\ items[p][h[p] + i] = items[q][h[q] + j]
      BY <1>1, <2>1
    <3>2. p = q /\ h[p] + i = h[q] + j
      BY <3>1 DEF OnePlace
    <3> QED
      BY <1>2, <3>2
  <2>2. CASE items'[p][i] \notin recent
    BY <1>1, <2>2
  <2> QED
    BY <2>1, <2>2
<1>4. CarriedInFront'
  <2> SUFFICES ASSUME NEW q \in Queues, NEW k \in 1..Len(drain'[q].msgs)
               PROVE  /\ drain'[q].msgs[k] \in recent'
                      /\ \A p \in Queues : \A i \in 1..Len(items'[p]) :
                           items'[p][i] = drain'[q].msgs[k] => p = q /\ i <= drain'[q].removes
    BY DEF CarriedInFront
  <2>1. drain'[q] = drain[q]
    <3>1. CASE Quiet(drain'[q])
      BY <3>1, EmptySeq DEF Quiet
    <3> QED
      BY <3>1
  <2>2. drain[q].msgs[k] \in recent /\ drain[q].removes \in Nat
    BY <2>1 DEF CarriedInFront, TypeOK, Drains
  <2>3. ASSUME NEW p \in Queues, NEW i \in 1..Len(items'[p]), items'[p][i] = drain[q].msgs[k]
        PROVE  p = q /\ i <= drain[q].removes
    <3>1. h[p] + i \in 1..Len(items[p]) /\ items[p][h[p] + i] = drain[q].msgs[k]
      BY <1>1, <2>2, <2>3
    <3>2. p = q /\ h[p] + i <= drain[q].removes
      BY <2>1, <3>1 DEF CarriedInFront
    <3> QED
      BY <1>2, <2>2, <3>2
  <2> QED
    BY <2>1, <2>2, <2>3
<1> QED
  BY <1>3, <1>4

\* What is told stays told: DroppedArePast outlives a step that only adds messages
\* whose fate is past.
LEMMA PastKept ==
  ASSUME TypeOK, DroppedArePast, NEW gone \in SUBSET Msgs,
         \A m \in Msgs : fate[m] \in Past \/ m \in gone => fate'[m] \in Past,
         \A p \in Queues : SetOf(dropped'[p]) \subseteq SetOf(dropped[p]) \cup gone,
         \A p \in Queues : drain'[p] = drain[p] \/ Quiet(drain'[p])
  PROVE  DroppedArePast'
<1> SUFFICES ASSUME NEW p \in Queues, NEW m \in SetOf(dropped'[p]) \cup SetOf(drain'[p].notes)
             PROVE  fate'[m] \in Past
  BY DEF DroppedArePast
<1>1. SetOf(dropped[p]) \subseteq Msgs /\ SetOf(drain[p].notes) \subseteq Msgs
  BY SetOfTyped DEF TypeOK, Drains
<1>2. Quiet(drain'[p]) => SetOf(drain'[p].notes) = {}
  BY EmptySeq DEF Quiet, SetOf
<1>3. CASE m \in SetOf(dropped[p]) \cup SetOf(drain[p].notes)
  BY <1>1, <1>3 DEF DroppedArePast
<1>4. CASE m \in gone
  BY <1>4
<1> QED
  BY <1>2, <1>3, <1>4

\* enqueueFollowupRun: the drop policy takes from the front, the message goes last.
LEMMA EnqueueMoves ==
  ASSUME TypeOK, TypeOK', NEW m \in Msgs, NEW s \in AllSettings, NEW o \in Queues,
         Push(m, s, o), Accepted(m, s, o)
  PROVE  \E h \in [Queues -> Nat] :
           /\ h[o] = Overflow(items[o], s) /\ \A p \in Queues : p # o => h[p] = 0
           /\ Moves(h, o, {m})
<1> DEFINE n == Overflow(items[o], s)
           t == items'[o]
           h == [p \in Queues |-> IF p = o THEN n ELSE 0]
<1>0. items \in [Queues -> Seq(Msgs)]
  BY DEF TypeOK
<1>1. /\ n \in 0..Len(items[o]) /\ items' = [items EXCEPT ![o] = t]
      /\ t \in Seq(Msgs) /\ Len(t) = Len(items[o]) - n + 1
      /\ \A i \in 1..Len(t) - 1 : n + i \in 1..Len(items[o]) /\ t[i] = items[o][n + i]
      /\ t[Len(t)] = m
  BY <1>0, PushFacts
<1> HIDE DEF n, t
<1>2. n \in Nat /\ Len(t) \in Nat
  BY <1>0, <1>1, LenProperties
<1>3. items'[o] = t /\ \A p \in Queues : p # o => items'[p] = items[p]
  BY <1>0, <1>1
<1>4. h \in [Queues -> Nat] /\ h[o] = n /\ \A p \in Queues : p # o => h[p] = 0
  BY <1>2
<1> HIDE DEF h
<1>5. Moves(h, o, {m})
  <2> SUFFICES ASSUME NEW p \in Queues, NEW i \in 1..Len(items'[p])
               PROVE  \/ h[p] + i \in 1..Len(items[p]) /\ items'[p][i] = items[p][h[p] + i]
                      \/ p = o /\ i = Len(items'[p]) /\ items'[p][i] \in {m}
    BY DEF Moves
  <2>1. CASE p # o
    BY <1>3, <1>4, <2>1
  <2>2. CASE p = o /\ i = Len(t)
    BY <1>1, <1>3, <2>2
  <2>3. CASE p = o /\ i # Len(t)
    <3>1. i \in 1..Len(t) - 1
      BY <1>2, <1>3, <2>3
    <3> QED
      BY <1>1, <1>3, <1>4, <2>3, <3>1
  <2> QED
    BY <2>1, <2>2, <2>3
<1> QED
  BY <1>4, <1>5 DEF n

\* The end of a run: the front goes, by position.
LEMMA RunEndsMoves ==
  ASSUME TypeOK, NEW o \in Queues, RunEnds(o)
  PROVE  \E h \in [Queues -> Nat] :
           /\ h[o] = drain[o].removes /\ \A p \in Queues : p # o => h[p] = 0
           /\ Moves(h, o, {})
<1> DEFINE d == drain[o]
           t == Without(items[o], d.removes)
           h == [p \in Queues |-> IF p = o THEN d.removes ELSE 0]
<1>1. /\ d.removes \in Nat
      /\ items' = [items EXCEPT ![o] = t]
      /\ \A i \in 1..Len(t) : d.removes + i \in 1..Len(items[o]) /\ t[i] = items[o][d.removes + i]
  BY RunEndsEffect
<1> HIDE DEF t
<1>2. items'[o] = t /\ \A p \in Queues : p # o => items'[p] = items[p]
  BY <1>1 DEF TypeOK
<1>3. \A p \in Queues : Len(items[p]) \in Nat
  BY LenProperties DEF TypeOK
<1>4. h \in [Queues -> Nat] /\ h[o] = d.removes /\ \A p \in Queues : p # o => h[p] = 0
  BY <1>1
<1> HIDE DEF h, d
<1>5. Moves(h, o, {})
  <2> SUFFICES ASSUME NEW p \in Queues, NEW i \in 1..Len(items'[p])
               PROVE  h[p] + i \in 1..Len(items[p]) /\ items'[p][i] = items[p][h[p] + i]
    BY DEF Moves
  <2>1. CASE p # o
    BY <1>2, <1>3, <1>4, <2>1
  <2>2. CASE p = o
    BY <1>1, <1>2, <1>4, <2>2
  <2> QED
    BY <2>1, <2>2
<1> QED
  BY <1>4, <1>5 DEF d

\* An accepted message joins; what the policy takes for it is past.
LEMMA EnqueuePlace ==
  ASSUME TypeOK, TypeOK', PlaceInv, NEW m \in Msgs, NEW s \in AllSettings,
         NEW seen \in BOOLEAN, Enqueue(m, s, seen)
  PROVE  PlaceInv'
<1> DEFINE o == QueueFor
           n == Overflow(items[o], s)
           t == items'[o]
           gone == {items[o][i] : i \in 1..n}
<1>1. o \in Queues /\ Push(m, s, o) /\ \A p \in Queues : drain'[p] = drain[p] \/ Quiet(drain'[p])
  BY EnqueueEffect DEF CarryNoMore
<1> HIDE DEF o
<1>4. /\ items \in [Queues -> Seq(Msgs)] /\ dropped \in [Queues -> Seq(Msgs)]
      /\ fate \in [Msgs -> Fates]
  BY DEF TypeOK
<1> USE DEF PlaceInv
<1>2. CASE Accepted(m, s, o)
  <2>1. /\ n \in 0..Len(items[o]) /\ items' = [items EXCEPT ![o] = t]
        /\ t \in Seq(Msgs) /\ Len(t) = Len(items[o]) - n + 1
        /\ \A i \in 1..Len(t) - 1 : n + i \in 1..Len(items[o]) /\ t[i] = items[o][n + i]
        /\ t[Len(t)] = m
    BY <1>1, <1>2, <1>4, PushFacts
  <2>2. /\ recent' = recent \cup {m}
        /\ fate' \in [Msgs -> Fates]
        /\ \A d \in Msgs :
             fate'[d] = IF d = m /\ fate[d] \in {"new", "refused"} THEN "queued"
                        ELSE IF d \notin gone THEN fate[d]
                        ELSE IF s.drop = "summarize" THEN "summarized" ELSE "dropped"
        /\ dropped' \in [Queues -> Seq(Msgs)]
        /\ \A p \in Queues : SetOf(dropped'[p]) \subseteq SetOf(dropped[p]) \cup gone
        /\ s.drop # "summarize" => dropped' = dropped
    BY <1>1, <1>2, <1>4, MarkFacts, Zenon
  <2> HIDE DEF n, t
  <2>3. m \notin recent /\ fate[m] \in {"new", "refused"}
    BY <1>2 DEF Accepted, RecentIsSeen, TypeOK
  <2>4. Len(items[o]) \in Nat /\ n \in Nat /\ Len(t) \in Nat
    BY <1>1, <2>1, LenProperties DEF TypeOK
  <2>5. /\ \A i \in 1..n : i \in 1..Len(items[o])
        /\ \A p \in Queues : p # o => items'[p] = items[p]
        /\ items'[o] = t
    BY <1>1, <2>1, <2>4 DEF TypeOK
  <2>6. \A d \in gone : d \in Msgs /\ d \in recent /\ fate[d] = "queued" /\ d # m
    BY <1>1, <2>3, <2>5, WaitingIsRecent DEF ItemsQueued
  <2>7. RecentIsSeen'
    <3> SUFFICES ASSUME NEW d \in Msgs
                 PROVE  d \in recent' <=> fate'[d] \notin {"new", "refused"}
      BY DEF RecentIsSeen
    <3>1. CASE d = m
      BY <2>2, <2>3, <3>1
    <3>2. CASE d \in gone
      BY <2>2, <2>6, <3>2
    <3>3. CASE d # m /\ d \notin gone
      BY <2>2, <3>3 DEF RecentIsSeen
    <3> QED
      BY <3>1, <3>2, <3>3
  <2>8. PICK h \in [Queues -> Nat] :
          /\ h[o] = n /\ \A p \in Queues : p # o => h[p] = 0
          /\ Moves(h, o, {m})
    BY <1>1, <1>2, EnqueueMoves DEF n
  <2>9. Moves(h, o, {m})
    BY <2>8
  <2>10. OnePlace' /\ CarriedInFront'
    BY <1>1, <2>2, <2>3, <2>8, <2>9, MovesKeepPlaces
  <2>11. ItemsQueued'
    <3> SUFFICES ASSUME NEW p \in Queues, NEW i \in 1..Len(items'[p])
                 PROVE  fate'[items'[p][i]] = "queued"
      BY DEF ItemsQueued
    <3>1. CASE items'[p][i] = m
      BY <2>2, <2>3, <3>1
    <3>2. CASE items'[p][i] # m
      <4>1. h[p] + i \in 1..Len(items[p]) /\ items'[p][i] = items[p][h[p] + i]
        BY <2>9, <3>2 DEF Moves
      <4>2. items'[p][i] \in Msgs /\ fate[items'[p][i]] = "queued"
        BY <4>1, WaitingIsRecent DEF ItemsQueued
      <4>3. items'[p][i] \notin gone
        <5> SUFFICES ASSUME NEW j \in 1..n, items'[p][i] = items[o][j] PROVE FALSE
          OBVIOUS
        <5>1. ASSUME NEW k \in 1..Len(items[p]), items[p][k] = items[o][j] PROVE p = o /\ k = j
          BY <1>1, <2>5, <5>1 DEF OnePlace
        <5>2. p = o /\ h[p] + i = j
          BY <4>1, <5>1
        <5> QED
          BY <2>4, <2>8, <5>2
      <4> QED
        BY <2>2, <3>2, <4>2, <4>3
    <3> QED
      BY <3>1, <3>2
  <2>12. DroppedArePast'
    <3>1. gone \in SUBSET Msgs
      BY <2>6
    <3>2. \A d \in Msgs : fate[d] \in Past \/ d \in gone => fate'[d] \in Past
      BY <2>2, <2>3, <2>6 DEF Past, Fates
    <3> HIDE DEF gone
    <3> QED
      BY <1>1, <2>2, <3>1, <3>2, PastKept
  <2> QED
    BY <2>7, <2>10, <2>11, <2>12
<1>3. CASE ~Accepted(m, s, o)
  <2>1. /\ UNCHANGED <<items, dropped, recent>>
        /\ \/ fate' = fate
           \/ m \notin recent /\ fate' = [fate EXCEPT ![m] = "refused"]
    BY <1>1, <1>3, RefusedFacts
  <2>2. \A d \in Msgs : fate'[d] = fate[d] \/ (d \notin recent /\ fate'[d] = "refused")
    BY <2>1 DEF TypeOK
  <2>3. RecentIsSeen'
    BY <2>1, <2>2 DEF RecentIsSeen
  <2>4. OnePlace'
    BY <2>1 DEF OnePlace
  <2>5. CarriedInFront'
    BY <1>1, <2>1, EmptySeq DEF CarriedInFront, Quiet
  <2>6. ItemsQueued'
    BY <2>1, <2>2, WaitingIsRecent DEF ItemsQueued
  <2>7. DroppedArePast'
    <3> DEFINE none == {}
    <3>1. \A d \in Msgs : fate[d] \in Past \/ d \in none => fate'[d] \in Past
      BY <2>2 DEF RecentIsSeen, Past
    <3>2. /\ none \in SUBSET Msgs
          /\ \A p \in Queues : SetOf(dropped'[p]) \subseteq SetOf(dropped[p]) \cup none
      BY <2>1
    <3> HIDE DEF none
    <3> QED
      BY <1>1, <3>1, <3>2, PastKept
  <2> QED
    BY <2>3, <2>4, <2>5, <2>6, <2>7
<1> QED
  BY <1>2, <1>3

\* A run's end removes by position: what it ran waits no more, whatever was
\* dropped in front of it and enqueued behind it meanwhile.
LEMMA RunEndsPlace ==
  ASSUME TypeOK, TypeOK', PlaceInv, NEW o \in Queues, RunEnds(o)
  PROVE  PlaceInv'
<1> DEFINE d == drain[o]
           t == Without(items[o], d.removes)
<1>1. /\ d.removes \in Nat
      /\ items' = [items EXCEPT ![o] = t]
      /\ \A i \in 1..Len(t) : d.removes + i \in 1..Len(items[o]) /\ t[i] = items[o][d.removes + i]
      /\ \A p \in Queues : dropped'[p] \in {dropped[p], << >>}
      /\ \A m \in Msgs : fate'[m] = IF m \in SetOf(d.msgs) THEN "ran"
                                    ELSE IF m \in SetOf(d.notes) THEN "told" ELSE fate[m]
      /\ recent' = recent
  BY RunEndsEffect
<1>2. \A p \in Queues : drain'[p] = drain[p] \/ Quiet(drain'[p])
  BY RunEndsEffect DEF CarryNoMore
<1> HIDE DEF t
<1> USE DEF PlaceInv
<1>3. items'[o] = t /\ \A p \in Queues : p # o => items'[p] = items[p]
  BY <1>1 DEF TypeOK
<1>4. \A p \in Queues : Len(items[p]) \in Nat /\ Len(items'[p]) \in Nat
  BY LenProperties DEF TypeOK
<1>5. PICK h \in [Queues -> Nat] :
        /\ h[o] = d.removes /\ \A p \in Queues : p # o => h[p] = 0
        /\ Moves(h, o, {})
  BY RunEndsMoves
<1> HIDE DEF d
<1>6. Moves(h, o, {})
  BY <1>5
<1>7. OnePlace' /\ CarriedInFront'
  BY <1>1, <1>2, <1>5, <1>6, MovesKeepPlaces
<1>8. \A m \in SetOf(d.msgs) : m \in recent
  BY DEF d, SetOf, CarriedInFront
<1>9. \A m \in SetOf(d.notes) : fate[m] \in Past
  BY DEF d, DroppedArePast
<1>10. RecentIsSeen'
  BY <1>1, <1>8, <1>9 DEF RecentIsSeen, Past
<1>11. ItemsQueued'
  <2> SUFFICES ASSUME NEW p \in Queues, NEW i \in 1..Len(items'[p])
               PROVE  fate'[items'[p][i]] = "queued"
    BY DEF ItemsQueued
  <2>1. h[p] + i \in 1..Len(items[p]) /\ items'[p][i] = items[p][h[p] + i]
    BY <1>6 DEF Moves
  <2>2. items'[p][i] \in Msgs /\ fate[items'[p][i]] = "queued"
    BY <2>1, WaitingIsRecent DEF ItemsQueued
  <2>3. items'[p][i] \notin SetOf(d.notes)
    BY <1>9, <2>2 DEF Past
  <2>4. items'[p][i] \notin SetOf(d.msgs)
    <3> SUFFICES ASSUME NEW k \in 1..Len(d.msgs), items'[p][i] = d.msgs[k] PROVE FALSE
      BY DEF SetOf
    <3>1. p = o /\ h[p] + i <= d.removes
      BY <2>1 DEF CarriedInFront, d
    <3> QED
      BY <1>1, <1>4, <1>5, <3>1
  <2> QED
    BY <1>1, <2>2, <2>3, <2>4
<1>12. DroppedArePast'
  <2> DEFINE none == {}
  <2>1. \A m \in Msgs : fate[m] \in Past \/ m \in none => fate'[m] \in Past
    BY <1>1 DEF Past, Fates
  <2>2. /\ none \in SUBSET Msgs
        /\ \A p \in Queues : SetOf(dropped'[p]) \subseteq SetOf(dropped[p]) \cup none
    BY <1>1, EmptySeq DEF SetOf
  <2> HIDE DEF none
  <2> QED
    BY <1>2, <2>1, <2>2, PastKept
<1> QED
  BY <1>7, <1>10, <1>11, <1>12

\* clearSessionQueues: what waited in the registered queue waited nowhere else.
LEMMA ClearPlace ==
  ASSUME TypeOK, TypeOK', PlaceInv, ClearSessionQueues
  PROVE  PlaceInv'
<1> DEFINE o == registered
           gone == SetOf(items[o]) \cup SetOf(dropped[o])
<1>1. /\ o \in Queues
      /\ items' = [items EXCEPT ![o] = << >>] /\ dropped' = [dropped EXCEPT ![o] = << >>]
      /\ \A m \in Msgs : fate'[m] = IF m \in gone THEN "cleared" ELSE fate[m]
      /\ drain' = drain /\ recent' = recent
  BY ClearEffect
<1> HIDE DEF o
<1>2. items \in [Queues -> Seq(Msgs)] /\ dropped \in [Queues -> Seq(Msgs)]
  BY DEF TypeOK
<1> USE DEF PlaceInv
<1>3. Len(<< >>) = 0 /\ SetOf(<< >>) = {}
  BY EmptySeq DEF SetOf
<1>4. \A p \in Queues : p # o => items'[p] = items[p]
  BY <1>1, <1>2
<1>5. items'[o] = << >>
  BY <1>1, <1>2
<1>6. \A p \in Queues : \A i \in 1..Len(items'[p]) :
        p # o /\ i \in 1..Len(items[p]) /\ items'[p][i] = items[p][i]
  BY <1>3, <1>4, <1>5
<1>7. OnePlace' /\ CarriedInFront'
  BY <1>1, <1>6 DEF OnePlace, CarriedInFront
<1>8. \A m \in gone : fate[m] \notin {"new", "refused"}
  BY <1>1 DEF SetOf, ItemsQueued, DroppedArePast, Past
<1>9. RecentIsSeen'
  BY <1>1, <1>8 DEF RecentIsSeen
<1>10. ItemsQueued'
  <2> SUFFICES ASSUME NEW p \in Queues, NEW i \in 1..Len(items'[p])
               PROVE  fate'[items'[p][i]] = "queued"
    BY DEF ItemsQueued
  <2>1. /\ p # o /\ i \in 1..Len(items[p]) /\ items'[p][i] = items[p][i]
        /\ items[p][i] \in Msgs /\ fate[items[p][i]] = "queued"
    BY <1>6, WaitingIsRecent DEF ItemsQueued
  <2>2. items[p][i] \notin SetOf(items[o])
    BY <1>1, <2>1 DEF OnePlace, SetOf
  <2>3. items[p][i] \notin SetOf(dropped[o])
    BY <1>1, <2>1 DEF DroppedArePast, Past
  <2> QED
    BY <1>1, <2>1, <2>2, <2>3
<1>11. DroppedArePast'
  <2> DEFINE none == {}
  <2>1. \A m \in Msgs : fate[m] \in Past \/ m \in none => fate'[m] \in Past
    BY <1>1 DEF Past, Fates
  <2>2. /\ none \in SUBSET Msgs
        /\ \A p \in Queues : SetOf(dropped'[p]) \subseteq SetOf(dropped[p]) \cup none
    BY <1>1, <1>2, <1>3
  <2> HIDE DEF none
  <2> QED
    BY <1>1, <2>1, <2>2, PastKept
<1> QED
  BY <1>7, <1>9, <1>10, <1>11

\* What a run carries stands at the front of the queue, and its end removes it.
LEMMA JobFromFront ==
  ASSUME TypeOK, NEW o \in Queues, NEW j, JobOf(o, j), NEW k \in 1..Len(j.msgs)
  PROVE  k \in 1..Len(items[o]) /\ j.msgs[k] = items[o][k] /\ k <= j.removes
<1>1. Whole(o, j) \/ ForSummary(o, j) \/ First(o, j)
  BY DEF JobOf
<1>2. Len(items[o]) \in Nat /\ (items[o] # << >> => Len(items[o]) > 0)
  BY NotEmpty DEF TypeOK
<1>4. CASE Whole(o, j)
  BY <1>2, <1>4 DEF Whole
<1>5. CASE ForSummary(o, j)
  BY <1>5, EmptySeq DEF ForSummary
<1>6. CASE First(o, j)
  <2> DEFINE u == <<items[o][1]>>
  <2>1. Len(u) = 1 /\ u[1] = items[o][1]
    OBVIOUS
  <2>2. j.msgs = u /\ j.removes = 1 /\ items[o] # << >>
    BY <1>6 DEF First
  <2> HIDE DEF u
  <2>3. k = 1
    BY <2>1, <2>2
  <2> QED
    BY <1>2, <2>1, <2>2, <2>3
<1> QED
  BY <1>1, <1>4, <1>5, <1>6

LEMMA RunBeginsPlace ==
  ASSUME TypeOK, PlaceInv, NEW o \in Queues, NEW j \in Drains, RunBegins(o, j)
  PROVE  PlaceInv'
<1>1. /\ drain' = [drain EXCEPT ![o] = j]
      /\ UNCHANGED <<items, dropped, recent, fate>>
  BY DEF RunBegins
<1>2. j.notes \in {<< >>, dropped[o]}
  BY DEF RunBegins, JobOf
<1>3. \A k \in 1..Len(j.msgs) :
        k \in 1..Len(items[o]) /\ j.msgs[k] = items[o][k] /\ k <= j.removes
  BY JobFromFront DEF RunBegins
<1> USE DEF PlaceInv
<1>4. RecentIsSeen' /\ ItemsQueued' /\ OnePlace'
  BY <1>1 DEF RecentIsSeen, ItemsQueued, OnePlace
<1>5. drain'[o] = j /\ \A p \in Queues : p # o => drain'[p] = drain[p]
  BY <1>1 DEF TypeOK
<1>6. DroppedArePast'
  <2>1. SetOf(<< >>) = {}
    BY EmptySeq DEF SetOf
  <2> QED
    BY <1>1, <1>2, <1>5, <2>1 DEF DroppedArePast
<1>7. CarriedInFront'
  <2> SUFFICES ASSUME NEW q \in Queues, NEW k \in 1..Len(drain'[q].msgs)
               PROVE  /\ drain'[q].msgs[k] \in recent
                      /\ \A p \in Queues : \A i \in 1..Len(items[p]) :
                           items[p][i] = drain'[q].msgs[k] => p = q /\ i <= drain'[q].removes
    BY <1>1 DEF CarriedInFront
  <2>1. CASE q # o
    BY <1>5, <2>1 DEF CarriedInFront
  <2>2. CASE q = o
    <3>1. k \in 1..Len(items[o]) /\ j.msgs[k] = items[o][k] /\ k <= j.removes
      BY <1>3, <1>5, <2>2
    <3>2. items[o][k] \in recent
      BY <3>1, WaitingIsRecent
    <3>3. \A p \in Queues : \A i \in 1..Len(items[p]) :
            items[p][i] = items[o][k] => p = o /\ i = k
      BY <3>1 DEF OnePlace
    <3> QED
      BY <1>5, <2>2, <3>1, <3>2, <3>3
  <2> QED
    BY <2>1, <2>2
<1> QED
  BY <1>4, <1>6, <1>7

\* A step that leaves the messages alone and starts no run.
LEMMA StillPlace ==
  ASSUME TypeOK, PlaceInv, UNCHANGED <<items, dropped, recent, fate>>,
         \A p \in Queues : drain'[p] = drain[p] \/ Quiet(drain'[p])
  PROVE  PlaceInv'
<1> USE DEF PlaceInv
<1>1. RecentIsSeen' /\ ItemsQueued' /\ OnePlace'
  BY DEF RecentIsSeen, ItemsQueued, OnePlace
<1>2. \A p \in Queues : drain'[p] = drain[p] \/ (Len(drain'[p].msgs) = 0 /\ SetOf(drain'[p].notes) = {})
  BY EmptySeq DEF Quiet, SetOf
<1>3. DroppedArePast'
  BY <1>2 DEF DroppedArePast
<1>4. CarriedInFront'
  <2> SUFFICES ASSUME NEW q \in Queues, NEW k \in 1..Len(drain'[q].msgs)
               PROVE  /\ drain'[q].msgs[k] \in recent
                      /\ \A p \in Queues : \A i \in 1..Len(items[p]) :
                           items[p][i] = drain'[q].msgs[k] => p = q /\ i <= drain'[q].removes
    BY DEF CarriedInFront
  <2>1. drain'[q] = drain[q]
    BY <1>2
  <2> QED
    BY <2>1 DEF CarriedInFront
<1> QED
  BY <1>1, <1>3, <1>4

LEMMA NextPlace == TypeOK /\ TypeOK' /\ PlaceInv /\ [Next]_vars => PlaceInv'
<1> SUFFICES ASSUME TypeOK, TypeOK', PlaceInv, [Next]_vars PROVE PlaceInv'
  OBVIOUS
<1>1. ASSUME NEW m \in Msgs, NEW s \in AllSettings, NEW seen \in BOOLEAN, Enqueue(m, s, seen)
      PROVE  PlaceInv'
  BY <1>1, EnqueuePlace
<1>2. ASSUME NEW o \in Queues, DebounceOver(o) \/ Collect(o) PROVE PlaceInv'
  <2>1. /\ UNCHANGED <<items, dropped, recent, fate>>
        /\ CarryNoMore \/ \E j \in Drains : RunBegins(o, j)
    BY <1>2, LoopEffect
  <2> QED
    BY <2>1, StillPlace, RunBeginsPlace DEF CarryNoMore
<1>3. ASSUME NEW o \in Queues, RunEnds(o) PROVE PlaceInv'
  BY <1>3, RunEndsPlace
<1>4. ASSUME NEW o \in Queues, RunThrows(o) PROVE PlaceInv'
  BY <1>4, RunThrowsEffect, StillPlace DEF CarryNoMore
<1>5. CASE ClearSessionQueues
  BY <1>5, ClearPlace
<1>6. CASE OtherRun
  BY <1>6, OtherRunEffect, StillPlace DEF CarryNoMore
<1>7. CASE UNCHANGED vars
  BY <1>7, StillPlace DEF vars
<1> QED
  BY <1>1, <1>2, <1>3, <1>4, <1>5, <1>6, <1>7 DEF Next, OtherRun

\* Wherever enqueues, drops, drains, failures and clears meet, a message waits in
\* one place at most, the id memory of enqueue.ts knows it, and the removal by
\* position at the end of a run (drainCollectItemsOnce, items.splice) takes what
\* the run carried and still waits.
THEOREM PlacesKept == Spec => []PlaceInv
BY InitPlace, NextPlace, TypeCorrect, PTL DEF Spec

LEMMA NextRunsQueued == TypeOK /\ PlaceInv /\ [Next]_vars => RunBeginsWithQueued
<1> SUFFICES ASSUME TypeOK, PlaceInv, [Next]_vars, NEW o \in Queues,
                    drain[o].pc # "running", drain'[o].pc = "running",
                    NEW m \in SetOf(drain'[o].msgs)
             PROVE  fate[m] = "queued"
  BY DEF RunBeginsWithQueued
<1>1. drain'[o] # drain[o] /\ ~Quiet(drain'[o])
  BY DEF Quiet
<1>2. PICK p \in Queues, j \in Drains : RunBegins(p, j)
  BY <1>1, DrainCases
<1>3. p = o /\ JobOf(o, j) /\ drain'[o] = j
  BY <1>1, <1>2 DEF RunBegins, TypeOK
<1>4. \A k \in 1..Len(j.msgs) : k \in 1..Len(items[o]) /\ j.msgs[k] = items[o][k]
  BY <1>3, JobFromFront
<1>5. PICK k \in 1..Len(j.msgs) : m = j.msgs[k]
  BY <1>3 DEF SetOf
<1> QED
  BY <1>4, <1>5 DEF PlaceInv, ItemsQueued

\* A followup run starts only with messages that wait: with none that ran already,
\* was dropped by the policy, or was cleared by /stop or /new.
THEOREM RunsQueuedOnly == Spec => RunsOnlyQueued
<1>1. TypeOK /\ PlaceInv /\ [Next]_vars => [RunBeginsWithQueued]_vars
  BY NextRunsQueued
<1> QED
  BY <1>1, TypeCorrect, PlacesKept, PTL DEF Spec, RunsOnlyQueued

\* a stands before b in a queue.
Before(q, a, b) == \E i, j \in 1..Len(q) : i < j /\ q[i] = a /\ q[j] = b

\* Two messages that stay in a queue keep their order, and a run that starts with a
\* message carries, in front of it, all that wait before it.
OldestFirst ==
  \A o \in Queues :
    /\ \A a, b \in SetOf(items'[o]) : Before(items[o], a, b) => Before(items'[o], a, b)
    /\ drain[o].pc # "running" /\ drain'[o].pc = "running" =>
         \A a, b \in Msgs :
           b \in SetOf(drain'[o].msgs) /\ Before(items[o], a, b) => Before(drain'[o].msgs, a, b)

LEMMA MovesKeepOrder ==
  ASSUME TypeOK, TypeOK', PlaceInv, NEW h \in [Queues -> Nat], NEW o, NEW new,
         new \cap recent = {}, Moves(h, o, new), NEW p \in Queues,
         NEW a \in SetOf(items'[p]), NEW b \in SetOf(items'[p]), Before(items[p], a, b)
  PROVE  Before(items'[p], a, b)
<1>1. PICK i \in 1..Len(items[p]), j \in 1..Len(items[p]) :
        i < j /\ items[p][i] = a /\ items[p][j] = b
  BY DEF Before
<1>2. PICK k \in 1..Len(items'[p]), l \in 1..Len(items'[p]) :
        items'[p][k] = a /\ items'[p][l] = b
  BY DEF SetOf
<1>3. a \in recent /\ b \in recent
  BY <1>1, WaitingIsRecent DEF PlaceInv
<1>4. /\ h[p] + k \in 1..Len(items[p]) /\ items[p][h[p] + k] = a
      /\ h[p] + l \in 1..Len(items[p]) /\ items[p][h[p] + l] = b
  BY <1>2, <1>3 DEF Moves
<1>5. ASSUME NEW x \in 1..Len(items[p]), NEW y \in 1..Len(items[p]), items[p][x] = items[p][y]
      PROVE  x = y
  BY <1>5 DEF PlaceInv, OnePlace
<1>6. h[p] + k = i /\ h[p] + l = j
  BY <1>1, <1>4, <1>5
<1>7. k < l
  <2>1. Len(items[p]) \in Nat /\ Len(items'[p]) \in Nat /\ h[p] \in Nat
    BY LenProperties DEF TypeOK
  <2> QED
    BY <1>1, <1>6, <2>1
<1> QED
  BY <1>2, <1>7 DEF Before

\* The items of every queue move, or go all at once.
LEMMA ItemsMove ==
  ASSUME TypeOK, TypeOK', PlaceInv, [Next]_vars, NEW p \in Queues
  PROVE  \/ items'[p] \in {items[p], << >>}
         \/ \E h \in [Queues -> Nat], o \in Queues, new \in SUBSET Msgs :
              new \cap recent = {} /\ Moves(h, o, new)
<1>1. ASSUME NEW m \in Msgs, NEW s \in AllSettings, NEW seen \in BOOLEAN, Enqueue(m, s, seen),
             items' # items
      PROVE  \E h \in [Queues -> Nat], o \in Queues, new \in SUBSET Msgs :
               new \cap recent = {} /\ Moves(h, o, new)
  <2> DEFINE o == QueueFor
  <2>1. o \in Queues /\ Push(m, s, o)
    BY <1>1, EnqueueEffect
  <2> HIDE DEF o
  <2>2. Accepted(m, s, o)
    BY <1>1, <2>1, RefusedFacts
  <2>3. {m} \cap recent = {} /\ {m} \in SUBSET Msgs
    BY <2>2 DEF Accepted
  <2>4. \E h \in [Queues -> Nat] : Moves(h, o, {m})
    BY <2>1, <2>2, EnqueueMoves
  <2> QED
    BY <2>1, <2>3, <2>4
<1>2. ASSUME NEW o \in Queues, RunEnds(o)
      PROVE  \E h \in [Queues -> Nat], q \in Queues, new \in SUBSET Msgs :
               new \cap recent = {} /\ Moves(h, q, new)
  <2>1. \E h \in [Queues -> Nat] : Moves(h, o, {})
    BY <1>2, RunEndsMoves
  <2>2. {} \cap recent = {} /\ {} \in SUBSET Msgs
    OBVIOUS
  <2> QED
    BY <2>1, <2>2
<1>3. ASSUME NEW o \in Queues, DebounceOver(o) \/ Collect(o) \/ RunThrows(o) PROVE items' = items
  BY <1>3 DEF DebounceOver, Collect, RunThrows
<1>4. CASE ClearSessionQueues
  BY <1>4, ClearEffect DEF TypeOK
<1>5. CASE OtherRun \/ UNCHANGED vars
  BY <1>5, OtherRunEffect DEF vars
<1> QED
  BY <1>1, <1>2, <1>3, <1>4, <1>5 DEF Next, OtherRun

LEMMA NextOldestFirst == TypeOK /\ TypeOK' /\ PlaceInv /\ [Next]_vars => OldestFirst
<1> SUFFICES ASSUME TypeOK, TypeOK', PlaceInv, [Next]_vars, NEW p \in Queues
             PROVE  /\ \A a, b \in SetOf(items'[p]) : Before(items[p], a, b) => Before(items'[p], a, b)
                    /\ drain[p].pc # "running" /\ drain'[p].pc = "running" =>
                         \A a, b \in Msgs : b \in SetOf(drain'[p].msgs) /\ Before(items[p], a, b)
                                              => Before(drain'[p].msgs, a, b)
  BY DEF OldestFirst
<1>1. ASSUME NEW a \in SetOf(items'[p]), NEW b \in SetOf(items'[p]), Before(items[p], a, b)
      PROVE  Before(items'[p], a, b)
  <2>1. CASE items'[p] = items[p]
    BY <1>1, <2>1
  <2>2. CASE items'[p] = << >>
    BY <1>1, <2>2, EmptySeq DEF SetOf
  <2>3. CASE \E h \in [Queues -> Nat], o \in Queues, new \in SUBSET Msgs :
               new \cap recent = {} /\ Moves(h, o, new)
    <3>1. PICK h \in [Queues -> Nat], o \in Queues, new \in SUBSET Msgs :
            new \cap recent = {} /\ Moves(h, o, new)
      BY <2>3
    <3> QED
      BY <1>1, <3>1, MovesKeepOrder
  <2> QED
    BY <2>1, <2>2, <2>3, ItemsMove
<1>2. ASSUME drain[p].pc # "running", drain'[p].pc = "running",
             NEW a \in Msgs, NEW b \in SetOf(drain'[p].msgs), Before(items[p], a, b)
      PROVE  Before(drain'[p].msgs, a, b)
  <2>1. drain'[p] # drain[p] /\ ~Quiet(drain'[p])
    BY <1>2 DEF Quiet
  <2>2. PICK o \in Queues, job \in Drains : RunBegins(o, job)
    BY <2>1, DrainCases
  <2> DEFINE msgs == job.msgs
  <2>3. o = p /\ JobOf(p, job) /\ drain'[p].msgs = msgs
    BY <2>1, <2>2 DEF RunBegins, TypeOK
  <2>4. \A k \in 1..Len(msgs) : k \in 1..Len(items[p]) /\ msgs[k] = items[p][k]
    BY <2>3, JobFromFront
  <2>5. Len(msgs) \in Nat
    BY <2>3, LenProperties DEF Drains
  <2> HIDE DEF msgs
  <2>6. PICK k \in 1..Len(msgs) : msgs[k] = b
    BY <2>3 DEF SetOf
  <2>7. PICK i \in 1..Len(items[p]), j \in 1..Len(items[p]) :
          i < j /\ items[p][i] = a /\ items[p][j] = b
    BY <1>2 DEF Before
  <2>8. j = k
    BY <2>4, <2>6, <2>7 DEF PlaceInv, OnePlace
  <2>9. i \in 1..Len(msgs)
    BY <2>5, <2>7, <2>8
  <2> QED
    BY <2>3, <2>4, <2>6, <2>7, <2>8, <2>9 DEF Before
<1> QED
  BY <1>1, <1>2

\* A session's messages are answered in the order they came: no enqueue, drop, retry
\* or removal by position lets a queued message overtake an older one.
THEOREM FollowupsInOrder == Spec => [][OldestFirst]_vars
<1>1. TypeOK /\ TypeOK' /\ PlaceInv /\ [Next]_vars => [OldestFirst]_vars
  BY NextOldestFirst
<1> QED
  BY <1>1, TypeCorrect, PlacesKept, PTL DEF Spec

-----------------------------------------------------------------------------
(* Until the first clear: one queue object, and its wake-ups. *)

\* Nothing waits and nothing drains but in the registered queue.
OneQueue ==
  \A o \in Queues : o # registered =>
    items[o] = << >> /\ dropped[o] = << >> /\ drain[o].pc = "idle"

WakeInv == OneQueue /\ NoStrandedItems

LEMMA QueueNames == NoQueue \notin Queues
BY BoundsAssumption DEF Queues, NoQueue

\* The end of a run or of a drain leaves the registered queue drained, or forgotten
\* empty.
LEMMA GoesOnWakes ==
  ASSUME TypeOK, OneQueue, NEW o \in Queues, o = registered,
         DrainGoesOn(o, items', dropped'),
         \A p \in Queues : p # o => items'[p] = << >> /\ dropped'[p] = << >>
  PROVE  WakeInv'
<1>1. \A p \in Queues : p # o => drain'[p].pc = "idle"
  BY DEF OneQueue, DrainGoesOn
<1>2. CASE registered' = NoQueue
  BY <1>1, <1>2, QueueNames DEF DrainGoesOn, WakeInv, OneQueue, NoStrandedItems
<1>3. CASE registered' # NoQueue
  BY <1>1, <1>3 DEF DrainGoesOn, WakeInv, OneQueue, NoStrandedItems
<1> QED
  BY <1>2, <1>3

\* So does scheduleFollowupDrain.
LEMMA ScheduleWakes ==
  ASSUME TypeOK, NEW o \in Queues \cup {NoQueue},
         ScheduleDrain(o, items', dropped', drain),
         \A p \in Queues : p # o =>
           items'[p] = << >> /\ dropped'[p] = << >> /\ drain[p].pc = "idle"
  PROVE  WakeInv'
<1>1. drain \in [Queues -> Drains]
  BY DEF TypeOK
<1>2. /\ registered' \in {o, NoQueue}
      /\ \A p \in Queues : p # o => drain'[p] = drain[p]
      /\ registered' = NoQueue => drain' = drain
      /\ registered' = NoQueue /\ o # NoQueue =>
           items'[o] = << >> /\ dropped'[o] = << >> /\ drain[o].pc = "idle"
      /\ registered' # NoQueue => drain'[registered'].pc # "idle"
  BY <1>1, ScheduleFacts
<1>3. CASE registered' = NoQueue
  BY <1>2, <1>3, QueueNames DEF WakeInv, OneQueue, NoStrandedItems
<1>4. CASE registered' # NoQueue
  BY <1>2, <1>4 DEF WakeInv, OneQueue, NoStrandedItems
<1> QED
  BY <1>3, <1>4

\* A push reaches one queue object.
LEMMA PushElsewhere ==
  ASSUME TypeOK, NEW m \in Msgs, NEW s \in AllSettings, NEW o \in Queues, Push(m, s, o),
         NEW p \in Queues, p # o
  PROVE  items'[p] = items[p] /\ dropped'[p] = dropped[p]
BY DEF Push, TypeOK

\* What waits after a push waited before it or was not known before it.
LEMMA PushJoins ==
  ASSUME TypeOK, NEW m \in Msgs, NEW s \in AllSettings, NEW o \in Queues, Push(m, s, o)
  PROVE  SetOf(items'[o]) \subseteq SetOf(items[o]) \cup (recent' \ recent)
<1> DEFINE t == items'[o]
<1>1. CASE ~Accepted(m, s, o)
  BY <1>1, RefusedFacts
<1>2. CASE Accepted(m, s, o)
  <2> DEFINE n == Overflow(items[o], s)
  <2>1. /\ t \in Seq(Msgs) /\ t[Len(t)] = m
        /\ \A i \in 1..Len(t) - 1 : n + i \in 1..Len(items[o]) /\ t[i] = items[o][n + i]
    BY <1>2, PushFacts DEF TypeOK
  <2>2. m \in recent' \ recent
    BY <1>2 DEF Push, Accepted, IsDuplicate
  <2>3. Len(t) \in Nat
    BY <2>1, LenProperties
  <2> HIDE DEF n, t
  <2>4. ASSUME NEW i \in 1..Len(t)
        PROVE  t[i] \in SetOf(items[o]) \cup (recent' \ recent)
    <3>1. CASE i = Len(t)
      BY <2>1, <2>2, <3>1
    <3>2. CASE i # Len(t)
      <4>1. i \in 1..Len(t) - 1
        BY <2>3, <3>2
      <4> QED
        BY <2>1, <4>1 DEF SetOf
    <3> QED
      BY <3>1, <3>2
  <2> QED
    BY <2>4 DEF SetOf, t
<1> QED
  BY <1>1, <1>2

LEMMA EnqueueWakes ==
  ASSUME TypeOK, WakeInv, NEW m \in Msgs, NEW s \in AllSettings, NEW seen \in BOOLEAN,
         Enqueue(m, s, seen)
  PROVE  WakeInv'
<1> DEFINE o == QueueFor
<1>1. /\ o \in Queues /\ Push(m, s, o) /\ turnActive' = turnActive
      /\ registered # NoQueue => o = registered
      /\ registered = NoQueue => o \in Free
      /\ behind \subseteq behind'
  BY EnqueueEffect
<1>2. /\ IF seen THEN registered' = o /\ drain' = drain
         ELSE ScheduleDrain(o, items', dropped', drain)
      /\ seen /\ ~Busy /\ drain[o].pc = "idle" => behind' = behind \cup (recent' \ recent)
  BY DEF Enqueue
<1> HIDE DEF o
<1>3. \A p \in Queues : p # o => p # registered
  BY <1>1, QueueNames
<1>4. \A p \in Queues : p # o =>
        items'[p] = << >> /\ dropped'[p] = << >> /\ drain[p].pc = "idle"
  BY <1>1, <1>3, PushElsewhere DEF WakeInv, OneQueue
<1>5. CASE seen
  <2>1. OneQueue'
    BY <1>2, <1>4, <1>5 DEF OneQueue
  <2>2. Busy' <=> Busy
    BY <1>1, <1>2, <1>5 DEF Busy
  <2>3. ASSUME ~Busy, drain[o].pc = "idle" PROVE SetOf(items'[o]) \subseteq behind'
    <3>1. SetOf(items[o]) \subseteq behind
      <4>1. CASE items[o] = << >>
        BY <4>1, EmptySeq DEF SetOf
      <4>2. CASE items[o] # << >>
        BY <1>1, <2>3, <4>2 DEF WakeInv, NoStrandedItems
      <4> QED
        BY <4>1, <4>2
    <3>2. SetOf(items'[o]) \subseteq SetOf(items[o]) \cup (recent' \ recent)
      BY <1>1, PushJoins
    <3> QED
      BY <1>2, <1>5, <2>3, <3>1, <3>2
  <2>4. NoStrandedItems'
    BY <1>2, <1>4, <1>5, <2>2, <2>3 DEF NoStrandedItems
  <2> QED
    BY <2>1, <2>4 DEF WakeInv
<1>6. CASE ~seen
  BY <1>1, <1>2, <1>4, <1>6, ScheduleWakes
<1> QED
  BY <1>5, <1>6

\* Only a clear counts as one, and none is forgotten.
LEMMA ClearsCounted ==
  ASSUME TypeOK, [Next]_vars
  PROVE  /\ clears' = 0 => clears = 0
         /\ ClearSessionQueues => clears' # 0
<1>1. clears \in Nat
  BY BoundsAssumption DEF TypeOK
<1>2. ClearSessionQueues => clears' = clears + 1
  BY DEF ClearSessionQueues
<1>3. \/ clears' = clears
      \/ ClearSessionQueues
  <2>1. ASSUME NEW m \in Msgs, NEW s \in AllSettings, NEW seen \in BOOLEAN, Enqueue(m, s, seen)
        PROVE  clears' = clears
    BY <2>1 DEF Enqueue, counts
  <2>2. ASSUME NEW o \in Queues, DebounceOver(o) \/ Collect(o) \/ RunEnds(o) \/ RunThrows(o)
        PROVE  clears' = clears
    BY <2>2 DEF DebounceOver, Collect, RunEnds, RunThrows, counts
  <2>3. CASE OtherRun \/ UNCHANGED vars
    BY <2>3, OtherRunEffect DEF vars
  <2> QED
    BY <2>1, <2>2, <2>3 DEF Next, OtherRun
<1> QED
  BY <1>1, <1>2, <1>3

LEMMA NextWakes ==
  ASSUME clears' = 0, TypeOK, WakeInv, [Next]_vars
  PROVE  WakeInv'
<1>1. ASSUME NEW m \in Msgs, NEW s \in AllSettings, NEW seen \in BOOLEAN, Enqueue(m, s, seen)
      PROVE  WakeInv'
  BY <1>1, EnqueueWakes
<1>2. \A o \in Queues : drain[o].pc # "idle" => o = registered
  BY DEF WakeInv, OneQueue
<1>3. ASSUME NEW o \in Queues, DebounceOver(o) \/ Collect(o) PROVE WakeInv'
  <2>1. o = registered /\ items' = items /\ dropped' = dropped
    BY <1>2, <1>3, LoopEffect
  <2>2. \A p \in Queues : p # o => items'[p] = << >> /\ dropped'[p] = << >>
    BY <2>1 DEF WakeInv, OneQueue
  <2>3. CASE DrainGoesOn(o, items, dropped)
    <3>1. DrainGoesOn(o, items', dropped')
      BY <2>1, <2>3 DEF DrainGoesOn
    <3> QED
      BY <2>1, <2>2, <3>1, GoesOnWakes DEF WakeInv
  <2>4. ASSUME NEW j \in Drains, RunBegins(o, j) PROVE WakeInv'
    <3>1. /\ drain'[o].pc = "running" /\ \A p \in Queues : p # o => drain'[p] = drain[p]
          /\ registered' = registered
      BY <2>4 DEF RunBegins, JobOf, TypeOK
    <3> QED
      BY <2>1, <3>1 DEF WakeInv, OneQueue, NoStrandedItems
  <2> QED
    BY <1>3, <2>3, <2>4, LoopEffect
<1>4. ASSUME NEW o \in Queues, RunEnds(o) PROVE WakeInv'
  <2>1. /\ o = registered /\ DrainGoesOn(o, items', dropped')
        /\ items' = [items EXCEPT ![o] = items'[o]]
        /\ \A p \in Queues : dropped'[p] \in {dropped[p], << >>}
    BY <1>2, <1>4, RunEndsEffect DEF TypeOK
  <2>2. \A p \in Queues : p # o => items'[p] = << >> /\ dropped'[p] = << >>
    BY <2>1 DEF WakeInv, OneQueue, TypeOK
  <2> QED
    BY <2>1, <2>2, GoesOnWakes DEF WakeInv
<1>5. ASSUME NEW o \in Queues, RunThrows(o) PROVE WakeInv'
  <2>1. o = registered /\ items' = items /\ dropped' = dropped /\ DrainGoesOn(o, items, dropped)
    BY <1>2, <1>5, RunThrowsEffect
  <2>2. DrainGoesOn(o, items', dropped')
    BY <2>1 DEF DrainGoesOn
  <2>3. \A p \in Queues : p # o => items'[p] = << >> /\ dropped'[p] = << >>
    BY <2>1 DEF WakeInv, OneQueue
  <2> QED
    BY <2>1, <2>2, <2>3, GoesOnWakes DEF WakeInv
<1>6. CASE ClearSessionQueues
  BY <1>6, ClearsCounted
<1>7. CASE TurnStarts
  BY <1>7 DEF TurnStarts, Busy, WakeInv, OneQueue, NoStrandedItems
<1>8. CASE TurnEnds
  <2>1. /\ ScheduleDrain(registered, items', dropped', drain) /\ items' = items /\ dropped' = dropped
    BY <1>8 DEF TurnEnds
  <2>2. /\ registered \in Queues \cup {NoQueue}
        /\ \A p \in Queues : p # registered =>
             items'[p] = << >> /\ dropped'[p] = << >> /\ drain[p].pc = "idle"
    BY <2>1 DEF WakeInv, OneQueue, TypeOK
  <2> QED
    BY <2>1, <2>2, ScheduleWakes
<1>9. CASE CommandStarts \/ CommandEnds \/ UNCHANGED vars
  <2>1. UNCHANGED <<registered, items, dropped, drain, turnActive, behind>>
    BY <1>9 DEF CommandStarts, CommandEnds, vars
  <2> QED
    BY <2>1 DEF Busy, WakeInv, OneQueue, NoStrandedItems
<1> QED
  BY <1>1, <1>3, <1>4, <1>5, <1>6, <1>7, <1>8, <1>9 DEF Next

LEMMA InitWakes == Init => WakeInv
BY DEF Init, Idle, WakeInv, OneQueue, NoStrandedItems

\* The lost wake-up: until /stop or /new first clears the session's queue, a queue
\* that holds messages is drained, or a turn or a run whose end schedules its drain
\* is in flight, or all its messages were queued behind a command run alone, whose
\* end schedules nothing.  (With a clear the run followup_clear shows the opposite.)
THEOREM NothingStrands == Spec => [](clears = 0 => NoStrandedItems)
<1>1. TypeOK /\ (clears = 0 => WakeInv) /\ [Next]_vars => (clears = 0 => WakeInv)'
  BY NextWakes, ClearsCounted
<1>2. WakeInv => NoStrandedItems
  BY DEF WakeInv
<1> QED
  BY <1>1, <1>2, InitWakes, TypeCorrect, PTL DEF Spec

-----------------------------------------------------------------------------
(* Until the first clear, and with a drop policy that refuses the newcomer. *)

RefusesOnly == \A s \in AllSettings : s.drop = "new"

\* The converse of CarriedInFront: what the end of a run removes, the run carries.
RemovesCarried ==
  \A o \in Queues : drain[o].pc = "running" =>
    /\ drain[o].removes <= Len(items[o])
    /\ \A i \in 1..drain[o].removes : items[o][i] \in SetOf(drain[o].msgs)

NothingSummarized ==
  /\ \A o \in Queues : dropped[o] = << >>
  /\ \A m \in Msgs : fate[m] # "summarized"

QueuedWaits ==
  \A m \in Msgs : fate[m] = "queued" => registered # NoQueue /\ m \in SetOf(items[registered])

LossInv == RemovesCarried /\ NothingSummarized /\ QueuedWaits

LEMMA EnqueueLoses ==
  ASSUME RefusesOnly, TypeOK, PlaceInv, LossInv, NEW m \in Msgs, NEW s \in AllSettings,
         NEW seen \in BOOLEAN, Enqueue(m, s, seen)
  PROVE  LossInv'
<1> DEFINE o == QueueFor
           t == items'[o]
<1>1. /\ o \in Queues /\ Push(m, s, o)
      /\ registered # NoQueue => o = registered
      /\ \A p \in Queues : drain'[p] = drain[p] \/ Quiet(drain'[p])
  BY EnqueueEffect DEF CarryNoMore
<1>2. IF seen THEN registered' = o ELSE ScheduleDrain(o, items', dropped', drain)
  BY DEF Enqueue
<1> HIDE DEF o
<1>3. registered' = NoQueue => items'[o] = << >>
  <2>1. drain \in [Queues -> Drains]
    BY DEF TypeOK
  <2> QED
    BY <1>1, <1>2, <2>1, ScheduleFacts, QueueNames
<1>4. registered' \in {o, NoQueue}
  <2>1. drain \in [Queues -> Drains]
    BY DEF TypeOK
  <2> QED
    BY <1>1, <1>2, <2>1, ScheduleFacts
<1>5. /\ items \in [Queues -> Seq(Msgs)] /\ dropped \in [Queues -> Seq(Msgs)]
      /\ fate \in [Msgs -> Fates] /\ s.drop = "new"
  BY DEF TypeOK, RefusesOnly
<1> USE DEF LossInv
<1>6. CASE Accepted(m, s, o)
  <2>1. Overflow(items[o], s) \in 0..Len(items[o]) /\ ~(Overflow(items[o], s) > 0)
    BY <1>1, <1>5, <1>6, PushFacts, Zenon DEF Accepted
  <2>2. Len(items[o]) \in Nat
    BY <1>1, <1>5, LenProperties
  <2>3. Overflow(items[o], s) = 0
    BY <2>1, <2>2
  <2>4. /\ items' = [items EXCEPT ![o] = t] /\ Len(t) = Len(items[o]) - 0 + 1
        /\ \A i \in 1..Len(t) - 1 : 0 + i \in 1..Len(items[o]) /\ t[i] = items[o][0 + i]
        /\ t[Len(t)] = m
    BY <1>1, <1>5, <1>6, <2>3, PushFacts
  <2> HIDE DEF t
  <2>5. /\ Len(t) = Len(items[o]) + 1 /\ t[Len(items[o]) + 1] = m
        /\ \A i \in 1..Len(items[o]) : t[i] = items[o][i]
    BY <2>2, <2>4
  <2>6. items'[o] = t /\ \A p \in Queues : p # o => items'[p] = items[p]
    BY <1>1, <1>5, <2>4
  <2>7. /\ dropped' = dropped
        /\ \A d \in Msgs : fate'[d] = IF d = m /\ fate[d] \in {"new", "refused"} THEN "queued"
                                      ELSE fate[d]
    <3> DEFINE gone == {items[o][i] : i \in 1..Overflow(items[o], s)}
    <3>1. /\ recent' = recent \cup {m}
          /\ fate' \in [Msgs -> Fates]
          /\ \A d \in Msgs :
               fate'[d] = IF d = m /\ fate[d] \in {"new", "refused"} THEN "queued"
                          ELSE IF d \notin gone THEN fate[d]
                          ELSE IF s.drop = "summarize" THEN "summarized" ELSE "dropped"
          /\ dropped' \in [Queues -> Seq(Msgs)]
          /\ \A p \in Queues : SetOf(dropped'[p]) \subseteq SetOf(dropped[p]) \cup gone
          /\ s.drop # "summarize" => dropped' = dropped
      BY <1>1, <1>5, <1>6, MarkFacts, Zenon
    <3>2. gone = {}
      BY <2>3
    <3> HIDE DEF gone
    <3> QED
      BY <1>5, <3>1, <3>2
  <2>8. NothingSummarized'
    BY <2>7 DEF NothingSummarized
  <2>9. RemovesCarried'
    <3> SUFFICES ASSUME NEW p \in Queues, drain'[p].pc = "running"
                 PROVE  /\ drain'[p].removes <= Len(items'[p])
                        /\ \A i \in 1..drain'[p].removes : items'[p][i] \in SetOf(drain'[p].msgs)
      BY DEF RemovesCarried
    <3>1. drain'[p] = drain[p]
      BY <1>1 DEF Quiet
    <3>2. drain[p].removes \in Nat
      BY DEF TypeOK, Drains
    <3>3. CASE p # o
      BY <2>6, <3>1, <3>3 DEF RemovesCarried
    <3>4. CASE p = o
      <4>1. /\ drain[o].removes <= Len(items[o])
            /\ \A i \in 1..drain[o].removes : items[o][i] \in SetOf(drain[o].msgs)
        BY <3>1, <3>4 DEF RemovesCarried
      <4>2. \A i \in 1..drain[o].removes : i \in 1..Len(items[o])
        BY <2>2, <3>2, <3>4, <4>1
      <4>3. drain[o].removes <= Len(t)
        BY <2>2, <2>5, <3>2, <3>4, <4>1
      <4> QED
        BY <2>5, <2>6, <3>1, <3>4, <4>1, <4>2, <4>3
    <3> QED
      BY <3>3, <3>4
  <2>10. QueuedWaits'
    <3> SUFFICES ASSUME NEW d \in Msgs, fate'[d] = "queued"
                 PROVE  registered' # NoQueue /\ d \in SetOf(items'[registered'])
      BY DEF QueuedWaits
    <3>1. d = m \/ d \in SetOf(items[o])
      <4>1. d = m \/ fate[d] = "queued"
        BY <2>7
      <4>2. fate[d] = "queued" => d \in SetOf(items[registered]) /\ o = registered
        BY <1>1 DEF QueuedWaits
      <4> QED
        BY <4>1, <4>2
    <3>2. d \in SetOf(t)
      <4>1. CASE d = m
        BY <2>2, <2>5, <4>1 DEF SetOf
      <4>2. CASE d \in SetOf(items[o])
        <5>1. PICK i \in 1..Len(items[o]) : d = items[o][i]
          BY <4>2 DEF SetOf
        <5>2. i \in 1..Len(t)
          BY <2>2, <2>5
        <5> QED
          BY <2>5, <5>1, <5>2 DEF SetOf
      <4> QED
        BY <3>1, <4>1, <4>2
    <3>3. t # << >>
      BY <3>2, EmptySeq DEF SetOf
    <3> QED
      BY <1>3, <1>4, <2>6, <3>2, <3>3
  <2> QED
    BY <2>8, <2>9, <2>10
<1>7. CASE ~Accepted(m, s, o)
  <2>1. /\ UNCHANGED <<items, dropped, recent>>
        /\ \/ fate' = fate
           \/ m \notin recent /\ fate' = [fate EXCEPT ![m] = "refused"]
    BY <1>1, <1>7, RefusedFacts
  <2>2. \A d \in Msgs : fate'[d] = fate[d] \/ fate'[d] = "refused"
    BY <1>5, <2>1
  <2>3. NothingSummarized'
    BY <2>1, <2>2 DEF NothingSummarized
  <2>4. RemovesCarried'
    BY <1>1, <2>1 DEF RemovesCarried, Quiet
  <2>5. QueuedWaits'
    <3> SUFFICES ASSUME NEW d \in Msgs, fate'[d] = "queued"
                 PROVE  registered' # NoQueue /\ d \in SetOf(items'[registered'])
      BY DEF QueuedWaits
    <3>1. registered # NoQueue /\ d \in SetOf(items[registered]) /\ o = registered
      BY <1>1, <2>2 DEF QueuedWaits
    <3>2. items[o] # << >>
      BY <3>1, EmptySeq DEF SetOf
    <3> QED
      BY <1>3, <1>4, <2>1, <3>1, <3>2
  <2> QED
    BY <2>3, <2>4, <2>5
<1> QED
  BY <1>6, <1>7

\* The end of a run takes only what the run carried; what came since waits on.
LEMMA RunEndsLoses ==
  ASSUME TypeOK, PlaceInv, WakeInv, LossInv, NEW o \in Queues, RunEnds(o)
  PROVE  LossInv'
<1> DEFINE d == drain[o]
           t == Without(items[o], d.removes)
<1>1. /\ d.pc = "running" /\ d.removes \in Nat
      /\ items' = [items EXCEPT ![o] = t]
      /\ Len(t) = IF d.removes <= Len(items[o]) THEN Len(items[o]) - d.removes ELSE 0
      /\ \A i \in 1..Len(t) : d.removes + i \in 1..Len(items[o]) /\ t[i] = items[o][d.removes + i]
      /\ \A p \in Queues : dropped'[p] \in {dropped[p], << >>}
      /\ \A m \in Msgs : fate'[m] = IF m \in SetOf(d.msgs) THEN "ran"
                                    ELSE IF m \in SetOf(d.notes) THEN "told" ELSE fate[m]
  BY RunEndsEffect
<1>2. DrainGoesOn(o, items', dropped')
  BY RunEndsEffect
<1> HIDE DEF t
<1>3. o = registered
  BY <1>1 DEF WakeInv, OneQueue
<1>4. items'[o] = t /\ \A p \in Queues : p # o => items'[p] = items[p]
  BY <1>1 DEF TypeOK
<1>5. Len(items[o]) \in Nat
  BY LenProperties DEF TypeOK
<1>6. /\ d.removes <= Len(items[o])
      /\ \A i \in 1..d.removes : items[o][i] \in SetOf(d.msgs)
  BY <1>1 DEF LossInv, RemovesCarried
<1> HIDE DEF d
<1>7. NothingSummarized'
  BY <1>1 DEF LossInv, NothingSummarized
<1>8. RemovesCarried'
  BY <1>2, <1>4 DEF LossInv, RemovesCarried, DrainGoesOn, Quiet
<1>9. QueuedWaits'
  <2> SUFFICES ASSUME NEW m \in Msgs, fate'[m] = "queued"
               PROVE  registered' # NoQueue /\ m \in SetOf(items'[registered'])
    BY DEF QueuedWaits
  <2>1. fate[m] = "queued" /\ m \notin SetOf(d.msgs)
    BY <1>1
  <2>2. m \in SetOf(items[o])
    BY <1>3, <2>1 DEF LossInv, QueuedWaits
  <2>3. PICK i \in 1..Len(items[o]) : m = items[o][i]
    BY <2>2 DEF SetOf
  <2>4. ~(i \in 1..d.removes)
    BY <1>6, <2>1, <2>3
  <2>5. i - d.removes \in 1..Len(t) /\ d.removes + (i - d.removes) = i
    BY <1>1, <1>5, <1>6, <2>4
  <2>6. m \in SetOf(t)
    BY <1>1, <2>3, <2>5 DEF SetOf
  <2>7. t # << >>
    BY <2>6, EmptySeq DEF SetOf
  <2> QED
    BY <1>2, <1>3, <1>4, <2>6, <2>7 DEF DrainGoesOn
<1> QED
  BY <1>7, <1>8, <1>9 DEF LossInv

LEMMA NextLoses ==
  ASSUME clears' = 0, RefusesOnly, TypeOK, PlaceInv, WakeInv, LossInv, [Next]_vars
  PROVE  LossInv'
<1>1. ASSUME NEW m \in Msgs, NEW s \in AllSettings, NEW seen \in BOOLEAN, Enqueue(m, s, seen)
      PROVE  LossInv'
  BY <1>1, EnqueueLoses
<1>2. ASSUME UNCHANGED <<items, dropped, fate>>,
             \A p \in Queues : drain'[p] = drain[p] \/ Quiet(drain'[p]),
             registered' = registered \/ (registered # NoQueue /\ items[registered] = << >>)
      PROVE  LossInv'
  <2>1. NothingSummarized' /\ RemovesCarried'
    BY <1>2 DEF LossInv, NothingSummarized, RemovesCarried, Quiet
  <2>2. \A m \in Msgs : fate[m] = "queued" => items[registered] # << >>
    BY EmptySeq DEF LossInv, QueuedWaits, SetOf
  <2>3. QueuedWaits'
    BY <1>2, <2>2 DEF LossInv, QueuedWaits
  <2> QED
    BY <2>1, <2>3 DEF LossInv
<1>3. ASSUME NEW o \in Queues, drain[o].pc # "idle", DrainGoesOn(o, items, dropped),
             UNCHANGED <<items, dropped, fate>>
      PROVE  LossInv'
  <2>1. o = registered
    BY <1>3 DEF WakeInv, OneQueue
  <2>2. registered' = registered \/ (registered # NoQueue /\ items[registered] = << >>)
    BY <1>3, <2>1, QueueNames DEF DrainGoesOn
  <2>3. \A p \in Queues : drain'[p] = drain[p] \/ Quiet(drain'[p])
    BY <1>3 DEF DrainGoesOn
  <2> QED
    BY <1>2, <1>3, <2>2, <2>3
<1>4. ASSUME NEW o \in Queues, DebounceOver(o) \/ Collect(o) PROVE LossInv'
  <2>1. /\ drain[o].pc # "idle" /\ UNCHANGED <<items, dropped, fate>>
        /\ DrainGoesOn(o, items, dropped) \/ \E j \in Drains : RunBegins(o, j)
    BY <1>4, LoopEffect
  <2>2. CASE DrainGoesOn(o, items, dropped)
    BY <1>3, <2>1, <2>2
  <2>3. ASSUME NEW j \in Drains, RunBegins(o, j) PROVE LossInv'
    <3>1. /\ Whole(o, j) \/ ForSummary(o, j) \/ First(o, j)
          /\ drain'[o] = j /\ \A p \in Queues : p # o => drain'[p] = drain[p]
          /\ registered' = registered
      BY <2>3 DEF RunBegins, JobOf, TypeOK
    <3>2. Len(items[o]) \in Nat /\ (items[o] # << >> => Len(items[o]) > 0)
      BY NotEmpty DEF TypeOK
    <3>3. j.removes <= Len(items[o]) /\ \A i \in 1..j.removes : items[o][i] \in SetOf(j.msgs)
      <4>1. CASE Whole(o, j)
        BY <3>2, <4>1 DEF Whole, SetOf
      <4>2. CASE ForSummary(o, j)
        BY <4>2 DEF ForSummary, RefusesOnly, TypeOK
      <4>3. CASE First(o, j)
        <5> DEFINE u == <<items[o][1]>>
        <5>1. Len(u) = 1 /\ u[1] = items[o][1]
          OBVIOUS
        <5>2. j.msgs = u /\ j.removes = 1 /\ items[o] # << >>
          BY <4>3 DEF First
        <5> HIDE DEF u
        <5>3. items[o][1] \in SetOf(u)
          BY <5>1 DEF SetOf
        <5> QED
          BY <3>2, <5>2, <5>3
      <4> QED
        BY <3>1, <4>1, <4>2, <4>3
    <3>4. RemovesCarried'
      BY <2>1, <3>1, <3>3 DEF LossInv, RemovesCarried
    <3> QED
      BY <2>1, <3>1, <3>4 DEF LossInv, NothingSummarized, QueuedWaits
  <2> QED
    BY <2>1, <2>2, <2>3
<1>5. ASSUME NEW o \in Queues, RunEnds(o) PROVE LossInv'
  BY <1>5, RunEndsLoses
<1>6. ASSUME NEW o \in Queues, RunThrows(o) PROVE LossInv'
  BY <1>3, <1>6, RunThrowsEffect
<1>7. CASE ClearSessionQueues
  BY <1>7, ClearsCounted
<1>8. CASE TurnStarts
  BY <1>2, <1>8 DEF TurnStarts
<1>9. CASE TurnEnds
  <2>1. drain \in [Queues -> Drains] /\ registered \in Queues \cup {NoQueue}
    BY DEF TypeOK
  <2>2. ScheduleDrain(registered, items, dropped, drain) /\ UNCHANGED <<items, dropped, fate>>
    BY <1>9 DEF TurnEnds
  <2>3. /\ \A p \in Queues : drain'[p] = drain[p] \/ Quiet(drain'[p])
        /\ registered' = registered \/ (registered # NoQueue /\ items[registered] = << >>)
    BY <2>1, <2>2, ScheduleFacts
  <2> QED
    BY <1>2, <2>2, <2>3
<1>10. CASE CommandStarts \/ CommandEnds \/ UNCHANGED vars
  BY <1>2, <1>10 DEF CommandStarts, CommandEnds, vars
<1> QED
  BY <1>1, <1>4, <1>5, <1>6, <1>7, <1>8, <1>9, <1>10 DEF Next

LEMMA InitLoses == Init => LossInv
BY DEF Init, Idle, LossInv, RemovesCarried, NothingSummarized, QueuedWaits

\* An accepted message is never lost in silence: until it runs it waits in the
\* queue of its session, whatever fails or arrives meanwhile.  The policies that
\* cut the queue break it while a run is out (the run followup_loss), hence the
\* assumption on the settings; and so may a clear, by what followup_clear shows.
THEOREM NothingLost ==
  ASSUME RefusesOnly PROVE Spec => [](clears = 0 => NoSilentLoss)
<1>1. /\ TypeOK /\ PlaceInv /\ (clears = 0 => WakeInv /\ LossInv) /\ [Next]_vars
      => (clears = 0 => WakeInv /\ LossInv)'
  BY NextLoses, NextWakes, ClearsCounted
<1>2. TypeOK /\ LossInv => NoSilentLoss
  <2> SUFFICES ASSUME TypeOK, LossInv, NEW m \in Msgs
               PROVE  /\ fate[m] = "queued" => \E o \in Queues : Alive(o) /\ m \in SetOf(items[o])
                      /\ fate[m] # "summarized"
    BY DEF NoSilentLoss
  <2> QED
    BY DEF TypeOK, LossInv, NothingSummarized, QueuedWaits, Alive
<1> QED
  BY <1>1, <1>2, InitLoses, InitWakes, TypeCorrect, PlacesKept, PTL DEF Spec
=============================================================================
