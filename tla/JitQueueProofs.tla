--------------------------- MODULE JitQueueProofs ---------------------------
(***************************************************************************)
(* Theorems about JitQueue and TxPath for every value of their constants.  *)
(*                                                                         *)
(* Whatever the delays, the airtimes and the pace of the two tasks: the    *)
(* types, the capacity of the queue (although the fullness check and the   *)
(* insertion are under two locks) and the absence of overlap.              *)
(*                                                                         *)
(* When the counter rolls over after the farthest packet a full queue may  *)
(* hold (Steady): the order of departure, the schedule the queue           *)
(* implements, the free air a class C downlink is given and, for tasks     *)
(* that are quick enough, that a peeked packet is still due when it is     *)
(* taken and that none is missed.  Counter values have no order: these     *)
(* proofs look at each departure as an offset (Until) from the counter     *)
(* thread_jit read last, and their invariant (Known) bounds the offsets.   *)
(*                                                                         *)
(* The queue inside the transmit path (TxPath) is the queue of JitQueue:   *)
(* reading the status, giving up, failing and sending are ways to be       *)
(* through with a packet, and the radio's own steps do not touch it.       *)
(***************************************************************************)
EXTENDS TxPath, NaturalsInduction, WellFoundedInduction, TLAPS

-----------------------------------------------------------------------------
(* Arithmetic of the counter.                                                *)

\* The difference of two counter values is a counter value.
LEMMA MinusType ==
    ASSUME NEW a \in Counter, NEW b \in Counter
    PROVE  Minus(a, b) \in Counter
BY TimingAssumption DEF Counter, Minus

\* A counter value moved by less than a roll-over is a counter value.
LEMMA PlusType ==
    ASSUME NEW a \in Counter, NEW d \in Nat, d <= Wrap
    PROVE  Plus(a, d) \in Counter
BY TimingAssumption DEF Counter, Plus

-----------------------------------------------------------------------------
(* What the array operations keep.                                           *)

\* A sort rearranges: same length, and every cell of the result comes from a
\* cell of its own.
LEMMA ArrangementOf ==
    ASSUME NEW S, NEW s \in Seq(S), NEW t \in Arrangements(s)
    PROVE  /\ t \in Seq(S)
           /\ Len(t) = Len(s)
           /\ \E f \in [DOMAIN s -> DOMAIN s] :
                 /\ \A i, j \in DOMAIN s : f[i] = f[j] => i = j
                 /\ \A i \in DOMAIN s : t[i] = s[f[i]]
<1>1. DOMAIN s = 1 .. Len(s) /\ Len(s) \in Nat
  OBVIOUS
<1>2. PICK f \in Bijection(DOMAIN s, DOMAIN s) : t = [i \in DOMAIN s |-> s[f[i]]]
  BY DEF Arrangements
<1>3. f \in [DOMAIN s -> DOMAIN s] /\ \A i, j \in DOMAIN s : f[i] = f[j] => i = j
  BY DEF Bijection, Injection, Surjection, IsInjective
<1>4. t \in [1 .. Len(s) -> S]
  BY <1>1, <1>2, <1>3
<1>5. t \in Seq(S) /\ Len(t) = Len(s)
  BY <1>1, <1>4
<1> QED
  BY <1>2, <1>3, <1>5

\* Removing a node shortens the array by one; what is left comes from distinct
\* cells of the old array.
LEMMA WithoutNodeOf ==
    ASSUME NEW S, NEW s \in Seq(S), NEW k \in Nat
    PROVE  LET w == WithoutNode(s, k) IN
           /\ w \in Seq(S)
           /\ Len(w) <= Len(s)
           /\ \E f \in [DOMAIN w -> DOMAIN s] :
                 /\ \A i, j \in DOMAIN w : f[i] = f[j] => i = j
                 /\ \A i \in DOMAIN w : w[i] = s[f[i]]
<1> DEFINE n == Len(s)
           w == WithoutNode(s, k)
           f == [i \in 1 .. n - 1 |-> IF i = k THEN n ELSE i]
<1>1. n \in Nat /\ DOMAIN s = 1 .. n
  OBVIOUS
<1>2. w = [i \in 1 .. n - 1 |-> IF i = k THEN s[n] ELSE s[i]]
  BY DEF WithoutNode
<1>3. w \in [1 .. n - 1 -> S]
  BY <1>1, <1>2
<1>4. w \in Seq(S) /\ Len(w) <= n /\ DOMAIN w = 1 .. n - 1
  <2>1. CASE n = 0
    <3>1. w = << >>
      BY <2>1, <1>3, <1>2
    <3> QED
      BY <2>1, <3>1
  <2>2. CASE n # 0
    <3>1. n - 1 \in Nat
      BY <2>2, <1>1
    <3> QED
      BY <3>1, <1>1, <1>3
  <2> QED
    BY <2>1, <2>2
<1>5. f \in [DOMAIN w -> DOMAIN s]
  BY <1>1, <1>4
<1>6. \A i, j \in DOMAIN w : f[i] = f[j] => i = j
  BY <1>1, <1>4
<1>7. \A i \in DOMAIN w : w[i] = s[f[i]]
  BY <1>1, <1>2, <1>4
<1> HIDE DEF w, f, n
<1> QED
  BY <1>4, <1>5, <1>6, <1>7 DEF w, n

-----------------------------------------------------------------------------
(* Types.                                                                    *)

\* The reservation of a downlink and the slots derived from it do not roll over.
LEMMA SlotType ==
    ASSUME NEW n \in Node
    PROVE  SlotAfter(n) \in Counter
<1>1. n.count \in Counter /\ n.post \in Airtimes \cup {BeaconReserved}
  BY DEF Node
<1>2. PreDelay("C") = StartDelay + JitDelay
  BY TimingAssumption DEF PreDelay
<1>3. n.post \in Nat /\ n.post + StartDelay + 2 * JitDelay + MarginDelay + BeaconGuard < Wrap
  BY <1>1, TimingAssumption
<1>4. /\ n.post + PreDelay("C") + JitDelay + MarginDelay \in Nat
      /\ n.post + PreDelay("C") + JitDelay + MarginDelay < Wrap
  BY <1>2, <1>3, TimingAssumption
<1> QED
  BY <1>1, <1>4, PlusType, TimingAssumption DEF SlotAfter

\* Whatever departure jit_enqueue tests is a counter value.
LEMMA DepartureType ==
    ASSUME TypeOK, NEW kind \in Offered, NEW post, NEW c \in Departures(kind, post)
    PROVE  c \in Counter
<1>1. down.time \in Counter /\ nodes \in Seq(Node)
  BY DEF TypeOK
<1>2. CASE kind = "C"
  <2>1. c \in AsapTimes(nodes, down.time, post)
    BY <1>2 DEF Departures
  <2>2. Plus(down.time, 2 * JitDelay) \in Counter
    BY <1>1, PlusType, TimingAssumption
  <2>3. \A i \in DOMAIN nodes : SlotAfter(nodes[i]) \in Counter
    BY <1>1, SlotType
  <2> QED
    BY <2>1, <2>2, <2>3 DEF AsapTimes
<1>3. CASE kind # "C"
  <2>1. PICK d \in Counter : c = Plus(down.time, d)
    BY <1>3, QueueAssumption DEF Departures
  <2>2. d \in Nat /\ d <= Wrap
    BY <2>1, TimingAssumption DEF Counter
  <2> QED
    BY <1>1, <2>1, <2>2, PlusType
<1> QED
  BY <1>2, <1>3

\* A packet offered to jit_enqueue has the type of a node.
LEMMA RequestType ==
    ASSUME TypeOK, NEW kind \in Offered, NEW post \in PostDelays(kind),
           NEW c \in Departures(kind, post)
    PROVE  [count |-> c, kind |-> kind, post |-> post] \in Node
BY DepartureType, QueueAssumption DEF Node, PostDelays

\* The fullness check still holds when jit_enqueue has taken the lock again.
RoomLeft == down.pc = "room" => Len(nodes) < QueueMax

\* A sorted array without one of its nodes is again a queue of the right type.
LEMMA RemoveType ==
    ASSUME TypeOK, NEW k \in Nat, Remove(k)
    PROVE  /\ nodes' \in Seq(Node)
           /\ Len(nodes') <= Len(nodes)
           /\ num_beacon' \in Int
<1>1. nodes \in Seq(Node) /\ num_beacon \in Int
  BY DEF TypeOK
<1>2. /\ WithoutNode(nodes, k) \in Seq(Node)
      /\ Len(WithoutNode(nodes, k)) <= Len(nodes)
  BY <1>1, WithoutNodeOf
<1>3. nodes' \in Arrangements(WithoutNode(nodes, k))
  BY DEF Remove
<1>4. nodes' \in Seq(Node) /\ Len(nodes') = Len(WithoutNode(nodes, k))
  BY <1>2, <1>3, ArrangementOf
<1> QED
  BY <1>1, <1>2, <1>4 DEF Remove

\* The types and the room left are kept by every step.
LEMMA TypeStep ==
    ASSUME TypeOK, RoomLeft, [Next]_vars
    PROVE  TypeOK' /\ RoomLeft'
<1> USE QueueAssumption DEF TypeOK, RoomLeft
<1>0. /\ 0 \in Counter /\ 1 <= Wrap /\ NoPkt \in Packet
      /\ {0, 1, 2} \subseteq 0 .. QueueMax + 2 /\ 0 \in 0 .. QueueMax
  BY TimingAssumption DEF Counter, Packet
<1>1. CASE DownReadCounter
  BY <1>1 DEF DownReadCounter, Verdicts
<1>2. CASE EnqueueFull
  BY <1>0, <1>2 DEF EnqueueFull, Verdicts
<1>3. CASE EnqueueNotFull
  BY <1>3 DEF EnqueueNotFull
<1>4. CASE EnqueueLocked
  <2> PICK kind \in Offered : \E post \in PostDelays(kind) :
         \E c \in Departures(kind, post) :
            LET p == [count |-> c, kind |-> kind, post |-> post] IN
            RefuseTooLate(p) \/ RefuseTooEarly(p) \/ RefuseCollision(p) \/ Accept(p)
    BY <1>4 DEF EnqueueLocked
  <2> PICK post \in PostDelays(kind) : \E c \in Departures(kind, post) :
            LET p == [count |-> c, kind |-> kind, post |-> post] IN
            RefuseTooLate(p) \/ RefuseTooEarly(p) \/ RefuseCollision(p) \/ Accept(p)
    OBVIOUS
  <2> PICK c \in Departures(kind, post) :
            LET p == [count |-> c, kind |-> kind, post |-> post] IN
            RefuseTooLate(p) \/ RefuseTooEarly(p) \/ RefuseCollision(p) \/ Accept(p)
    OBVIOUS
  <2> DEFINE p == [count |-> c, kind |-> kind, post |-> post]
  <2>1. p \in Node
    BY RequestType
  <2> HIDE DEF p
  <2>2. CASE RefuseTooLate(p) \/ RefuseTooEarly(p) \/ RefuseCollision(p)
    BY <1>0, <2>2 DEF RefuseTooLate, RefuseTooEarly, RefuseCollision, Refuse, Verdicts
  <2>3. CASE Accept(p)
    <3>1. Len(nodes) < QueueMax
      BY <1>4 DEF EnqueueLocked
    <3>2. Append(nodes, p) \in Seq(Node) /\ Len(Append(nodes, p)) = Len(nodes) + 1
      BY <2>1
    <3>3. nodes' \in Arrangements(Append(nodes, p))
      BY <2>3 DEF Accept
    <3>4. nodes' \in Seq(Node) /\ Len(nodes') = Len(nodes) + 1
      BY <3>2, <3>3, ArrangementOf
    <3>5. num_beacon' \in Int
      BY <2>3 DEF Accept
    <3> QED
      BY <1>0, <2>3, <3>1, <3>4, <3>5 DEF Accept, Verdicts
  <2> QED
    BY <2>2, <2>3 DEF p
<1>5. CASE JitReadCounter
  BY <1>5 DEF JitReadCounter
<1>6. CASE PeekEmpty
  BY <1>6 DEF PeekEmpty
<1>7. CASE PeekBegin
  BY <1>0, <1>7 DEF PeekBegin
<1>8. CASE PeekDrop
  <2>1. jit.i \in Nat /\ jit' = [jit EXCEPT !.i = 2]
    BY <1>8 DEF PeekDrop
  <2>2. nodes' \in Seq(Node) /\ Len(nodes') <= Len(nodes) /\ num_beacon' \in Int
    BY <1>8, <2>1, RemoveType DEF PeekDrop
  <2>3. UNCHANGED <<now, down, verdict>>
    BY <1>8 DEF PeekDrop
  <2>4. Len(nodes') <= QueueMax /\ RoomLeft'
    BY <2>2, <2>3
  <2> QED
    BY <1>0, <2>1, <2>2, <2>3, <2>4
<1>9. CASE PeekKeep
  <2>1. jit.i \in 0 .. QueueMax /\ jit.i + 1 \in 0 .. QueueMax + 2
    BY <1>9 DEF PeekKeep
  <2> QED
    BY <1>9, <2>1 DEF PeekKeep
<1>10. CASE PeekEnd
  BY <1>0, <1>10 DEF PeekEnd
<1>11. CASE Dequeue
  <2>1. jit.best \in Nat /\ Cell(jit.best) \in Packet
    BY DEF Cell, Packet
  <2>2. nodes' \in Seq(Node) /\ Len(nodes') <= Len(nodes) /\ num_beacon' \in Int
    BY <1>11, <2>1, RemoveType DEF Dequeue
  <2>3. /\ jit' = [jit EXCEPT !.pc = "picked", !.pkt = Cell(jit.best), !.best = 0]
        /\ UNCHANGED <<now, down, verdict>>
    BY <1>11 DEF Dequeue
  <2>4. Len(nodes') <= QueueMax /\ RoomLeft'
    BY <2>2, <2>3
  <2> QED
    BY <1>0, <2>1, <2>2, <2>3, <2>4
<1>12. CASE JitRelease
  BY <1>0, <1>12 DEF JitRelease
<1>13. CASE Tick
  BY <1>0, <1>13, PlusType, TimingAssumption DEF Tick
<1>14. CASE UNCHANGED vars
  BY <1>14 DEF vars
<1> QED
  BY <1>1, <1>2, <1>3, <1>4, <1>5, <1>6, <1>7, <1>8, <1>9, <1>10, <1>11, <1>12,
     <1>13, <1>14 DEF Next, DownNext, PeekNext

\* The types hold from the start.
LEMMA TypeInit == Init => TypeOK /\ RoomLeft
<1>1. 0 \in Counter /\ 0 \in 0 .. QueueMax + 2 /\ 0 \in 0 .. QueueMax /\ NoPkt \in Packet
  BY TimingAssumption, QueueAssumption DEF Counter, Packet
<1>2. << >> \in Seq(Node) /\ Len(<< >>) = 0
  OBVIOUS
<1> QED
  BY <1>1, <1>2, QueueAssumption DEF Init, TypeOK, RoomLeft, Verdicts

\* Type correctness; with it, that num_pkt never exceeds JIT_QUEUE_MAX, although
\* jit_enqueue releases the lock between its fullness check and the insertion.
THEOREM TypeCorrect == Spec => [](TypeOK /\ RoomLeft)
<1>1. Init => TypeOK /\ RoomLeft
  BY TypeInit
<1>2. TypeOK /\ RoomLeft /\ [Next]_vars => (TypeOK /\ RoomLeft)'
  BY TypeStep
<1> QED
  BY <1>1, <1>2, PTL DEF Spec

-----------------------------------------------------------------------------
(* No overlap.  The argument: criteria 3 keeps the newcomer apart from every  *)
(* node, in both directions; a sort or a removal only moves cells, so two     *)
(* cells of the new array come from two cells of the old one.                 *)

\* Pairwise distance is kept by any map that sends distinct cells to distinct ones.
LEMMA ApartKept ==
    ASSUME NEW s, NEW t,
           NEW f \in [DOMAIN t -> DOMAIN s],
           \A i, j \in DOMAIN t : f[i] = f[j] => i = j,
           \A i \in DOMAIN t : t[i] = s[f[i]],
           \A i, j \in DOMAIN s : i # j => Apart(s[i], s[j])
    PROVE  \A i, j \in DOMAIN t : i # j => Apart(t[i], t[j])
<1> SUFFICES ASSUME NEW i \in DOMAIN t, NEW j \in DOMAIN t, i # j
             PROVE  Apart(t[i], t[j])
  OBVIOUS
<1>1. f[i] \in DOMAIN s /\ f[j] \in DOMAIN s /\ f[i] # f[j]
  OBVIOUS
<1> QED
  BY <1>1

\* The delays of jit_enqueue are natural numbers.
LEMMA DelayType ==
    ASSUME NEW n \in Node
    PROVE  n.count \in Counter /\ n.post \in Nat /\ PreDelay(n.kind) \in Nat
<1>1. n.count \in Counter /\ n.post \in Airtimes \cup {BeaconReserved}
  BY DEF Node
<1>2. n.post \in Nat
  BY <1>1, TimingAssumption
<1>3. PreDelay(n.kind) \in Nat
  BY TimingAssumption DEF PreDelay
<1> QED
  BY <1>1, <1>2, <1>3

\* Criteria 3 passed: the newcomer p is apart from q, and q from p, although q's
\* guard is left out of the test when q is a beacon and p of class A or C.
LEMMA CriteriaThree ==
    ASSUME NEW p \in Node, NEW q \in Node,
           ~CollisionTest(p, PreDelay(p.kind), q, TargetPre(p, q))
    PROVE  Apart(p, q) /\ Apart(q, p)
<1>1. /\ p.post \in Nat /\ q.post \in Nat /\ PreDelay(p.kind) \in Nat
      /\ Minus(p.count, q.count) \in Int /\ Minus(q.count, p.count) \in Int
  BY DelayType, MinusType DEF Counter
<1>2. Lead(p, q) \in Nat /\ Lead(p, q) <= PreDelay(p.kind)
  BY TimingAssumption DEF Lead, PreDelay
<1>3. Lead(q, p) = TargetPre(p, q) /\ Lead(q, p) \in Nat
  BY TimingAssumption DEF Lead, TargetPre, PreDelay, IsBeacon
<1>4. /\ Minus(p.count, q.count) > PreDelay(p.kind) + q.post + MarginDelay
      /\ Minus(q.count, p.count) > Lead(q, p) + p.post + MarginDelay
  BY <1>1, <1>3, TimingAssumption DEF CollisionTest
<1> QED
  BY <1>1, <1>2, <1>3, <1>4, TimingAssumption DEF Apart

\* A removal keeps the others apart.
LEMMA RemoveApart ==
    ASSUME TypeOK, NoOverlap, NEW k \in Nat, Remove(k)
    PROVE  NoOverlap'
<1> DEFINE w == WithoutNode(nodes, k)
<1>1. nodes \in Seq(Node)
  BY DEF TypeOK
<1>2. /\ w \in Seq(Node)
      /\ \E f \in [DOMAIN w -> DOMAIN nodes] :
            /\ \A i, j \in DOMAIN w : f[i] = f[j] => i = j
            /\ \A i \in DOMAIN w : w[i] = nodes[f[i]]
  BY <1>1, WithoutNodeOf
<1>3. nodes' \in Arrangements(w)
  BY DEF Remove
<1> HIDE DEF w
<1>4. \A i, j \in DOMAIN w : i # j => Apart(w[i], w[j])
  BY <1>2, ApartKept DEF NoOverlap
<1>5. /\ Len(nodes') = Len(w) /\ nodes' \in Seq(Node)
      /\ \E f \in [DOMAIN w -> DOMAIN w] :
            /\ \A i, j \in DOMAIN w : f[i] = f[j] => i = j
            /\ \A i \in DOMAIN w : nodes'[i] = w[f[i]]
  BY <1>2, <1>3, ArrangementOf
<1>6. DOMAIN nodes' = DOMAIN w
  BY <1>2, <1>5
<1>7. \A i, j \in DOMAIN nodes' : i # j => Apart(nodes'[i], nodes'[j])
  BY <1>4, <1>5, <1>6, ApartKept
<1> QED
  BY <1>7 DEF NoOverlap, Apart, Lead

\* An insertion keeps all of them apart.
LEMMA AcceptApart ==
    ASSUME TypeOK, NoOverlap, NEW p \in Node, Accept(p)
    PROVE  NoOverlap'
<1> DEFINE w == Append(nodes, p)
           n == Len(nodes)
<1>1. nodes \in Seq(Node)
  BY DEF TypeOK
<1>2. /\ w \in Seq(Node) /\ n \in Nat
      /\ DOMAIN nodes = 1 .. n /\ DOMAIN w = 1 .. n + 1
      /\ w[n + 1] = p /\ \A i \in 1 .. n : w[i] = nodes[i]
  BY <1>1
<1>3. \A i \in 1 .. n : Apart(p, nodes[i]) /\ Apart(nodes[i], p)
  <2>1. SUFFICES ASSUME NEW i \in 1 .. n
                 PROVE  Apart(p, nodes[i]) /\ Apart(nodes[i], p)
    OBVIOUS
  <2>2. i \in DOMAIN nodes /\ nodes[i] \in Node
    BY <1>1, <1>2
  <2>3. ~CollisionTest(p, PreDelay(p.kind), nodes[i], TargetPre(p, nodes[i]))
    BY <2>2 DEF Accept, Blockers
  <2> QED
    BY <2>2, <2>3, CriteriaThree
<1>4. nodes' \in Arrangements(w)
  BY DEF Accept
<1>5. \A i, j \in DOMAIN w : i # j => Apart(w[i], w[j])
  <2>1. SUFFICES ASSUME NEW i \in DOMAIN w, NEW j \in DOMAIN w, i # j
                 PROVE  Apart(w[i], w[j])
    OBVIOUS
  <2>2. CASE i = n + 1
    BY <1>2, <1>3, <2>1, <2>2
  <2>3. CASE j = n + 1
    BY <1>2, <1>3, <2>1, <2>3
  <2>4. CASE i # n + 1 /\ j # n + 1
    BY <1>2, <2>1, <2>4 DEF NoOverlap
  <2> QED
    BY <2>2, <2>3, <2>4
<1> HIDE DEF w
<1>6. /\ Len(nodes') = Len(w) /\ nodes' \in Seq(Node)
      /\ \E f \in [DOMAIN w -> DOMAIN w] :
            /\ \A i, j \in DOMAIN w : f[i] = f[j] => i = j
            /\ \A i \in DOMAIN w : nodes'[i] = w[f[i]]
  BY <1>2, <1>4, ArrangementOf
<1>7. DOMAIN nodes' = DOMAIN w
  BY <1>2, <1>6
<1>8. \A i, j \in DOMAIN nodes' : i # j => Apart(nodes'[i], nodes'[j])
  BY <1>5, <1>6, <1>7, ApartKept
<1> QED
  BY <1>8 DEF NoOverlap, Apart, Lead

\* One step: only an insertion, a drop and a dequeue touch the array.
LEMMA NoOverlapStep ==
    ASSUME TypeOK, NoOverlap, [Next]_vars
    PROVE  NoOverlap'
<1>1. CASE EnqueueLocked
  <2> PICK kind \in Offered : \E post \in PostDelays(kind) :
         \E c \in Departures(kind, post) :
            LET p == [count |-> c, kind |-> kind, post |-> post] IN
            RefuseTooLate(p) \/ RefuseTooEarly(p) \/ RefuseCollision(p) \/ Accept(p)
    BY <1>1 DEF EnqueueLocked
  <2> PICK post \in PostDelays(kind) : \E c \in Departures(kind, post) :
            LET p == [count |-> c, kind |-> kind, post |-> post] IN
            RefuseTooLate(p) \/ RefuseTooEarly(p) \/ RefuseCollision(p) \/ Accept(p)
    OBVIOUS
  <2> PICK c \in Departures(kind, post) :
            LET p == [count |-> c, kind |-> kind, post |-> post] IN
            RefuseTooLate(p) \/ RefuseTooEarly(p) \/ RefuseCollision(p) \/ Accept(p)
    OBVIOUS
  <2> DEFINE p == [count |-> c, kind |-> kind, post |-> post]
  <2>1. p \in Node
    BY RequestType
  <2> HIDE DEF p
  <2>2. CASE RefuseTooLate(p) \/ RefuseTooEarly(p) \/ RefuseCollision(p)
    <3>1. UNCHANGED nodes
      BY <2>2 DEF RefuseTooLate, RefuseTooEarly, RefuseCollision, Refuse
    <3> QED
      BY <3>1 DEF NoOverlap, Apart, Lead
  <2>3. CASE Accept(p)
    BY <2>1, <2>3, AcceptApart
  <2> QED
    BY <2>2, <2>3 DEF p
<1>2. CASE PeekDrop
  <2>1. jit.i \in Nat /\ Remove(jit.i)
    BY <1>2 DEF PeekDrop, TypeOK
  <2> QED
    BY <2>1, RemoveApart
<1>3. CASE Dequeue
  <2>1. jit.best \in Nat /\ Remove(jit.best)
    BY <1>3 DEF Dequeue, TypeOK
  <2> QED
    BY <2>1, RemoveApart
<1>4. CASE ~EnqueueLocked /\ ~PeekDrop /\ ~Dequeue
  <2>1. UNCHANGED nodes
    BY <1>4 DEF Next, DownNext, PeekNext, DownReadCounter, EnqueueFull, EnqueueNotFull,
       JitReadCounter, PeekEmpty, PeekBegin, PeekKeep, PeekEnd, JitRelease, Tick, vars
  <2> QED
    BY <2>1 DEF NoOverlap, Apart, Lead
<1> QED
  BY <1>1, <1>2, <1>3, <1>4

\* No two queued transmissions meet, in any queue, for any delays, airtimes and
\* counter width, however the two tasks interleave and however late they run.
THEOREM QueueNeverOverlaps == Spec => []NoOverlap
<1>1. Init => NoOverlap
  BY DEF Init, NoOverlap
<1>2. TypeOK /\ NoOverlap /\ [Next]_vars => NoOverlap'
  BY NoOverlapStep
<1>3. Spec => []TypeOK
  BY TypeCorrect, PTL
<1> QED
  BY <1>1, <1>2, <1>3, PTL DEF Spec

-----------------------------------------------------------------------------
(* Induction, in the form the library's well-founded orders give it.         *)

\* A set of natural numbers that is not empty has a least element.
LEMMA Least ==
    ASSUME NEW T \in SUBSET Nat, T # {}
    PROVE  \E x \in T : \A y \in T : x <= y
<1> DEFINE R == OpToRel(<, Nat)
<1>1. IsWellFoundedOn(R, Nat)
  BY NatLessThanWellFounded
<1>2. \A x, y \in Nat : <<y, x>> \in R <=> y < x
  BY DEF OpToRel
<1> HIDE DEF R
<1>3. \E x \in T : \A y \in T : ~(<<y, x>> \in R)
  BY <1>1, WFMin
<1>4. \A x, y \in Nat : ~(y < x) => x <= y
  OBVIOUS
<1> QED
  BY <1>2, <1>3, <1>4

\* A list that ascends from each cell to the next ascends throughout.
LEMMA Ascending ==
    ASSUME NEW n \in Nat, NEW f \in [1 .. n -> Int],
           \A i \in 1 .. n - 1 : f[i] < f[i + 1]
    PROVE  \A i, j \in 1 .. n : i < j => f[i] < f[j]
<1> SUFFICES ASSUME NEW i \in 1 .. n, NEW k \in 1 .. n, i < k, ~(f[i] < f[k])
             PROVE  FALSE
  OBVIOUS
<1> DEFINE T == {j \in 1 .. n : i < j /\ ~(f[i] < f[j])}
<1>1. T \in SUBSET Nat /\ k \in T
  OBVIOUS
<1>2. PICK j \in T : \A y \in T : j <= y
  BY <1>1, Least
<1>3. j \in 1 .. n /\ i < j /\ ~(f[i] < f[j])
  OBVIOUS
<1>4. CASE j = i + 1
  BY <1>3, <1>4
<1>5. CASE j # i + 1
  <2>1. j - 1 \in 1 .. n - 1 /\ i < j - 1 /\ (j - 1) + 1 = j
    BY <1>3, <1>5
  <2>2. j - 1 \notin T
    BY <1>2, <1>3
  <2>3. f[i] < f[j - 1]
    BY <2>1, <2>2
  <2>4. f[j - 1] < f[j]
    BY <2>1
  <2> QED
    BY <1>3, <2>1, <2>3, <2>4
<1> QED
  BY <1>4, <1>5

\* A list that grows by at most d from each cell to the next.
LEMMA Chained ==
    ASSUME NEW n \in Nat, NEW f \in [1 .. n -> Int], NEW d \in Int, NEW k \in 1 .. n,
           \A i \in 1 .. k - 1 : f[i + 1] <= f[i] + d
    PROVE  f[k] <= f[1] + (k - 1) * d
<1> SUFFICES ASSUME ~(f[k] <= f[1] + (k - 1) * d)
             PROVE  FALSE
  OBVIOUS
<1> DEFINE T == {j \in 1 .. k : ~(f[j] <= f[1] + (j - 1) * d)}
<1>1. T \in SUBSET Nat /\ k \in T
  OBVIOUS
<1>2. PICK j \in T : \A y \in T : j <= y
  BY <1>1, Least
<1>3. j \in 1 .. k /\ ~(f[j] <= f[1] + (j - 1) * d)
  OBVIOUS
<1>4. j # 1
  <2>1. (1 - 1) * d = 0
    OBVIOUS
  <2> QED
    BY <1>3, <2>1
<1>5. j - 1 \in 1 .. k - 1 /\ (j - 1) + 1 = j
  BY <1>3, <1>4
<1>6. j - 1 \notin T
  BY <1>2, <1>3
<1>7. f[j - 1] <= f[1] + ((j - 1) - 1) * d
  BY <1>5, <1>6
<1>8. f[j] <= f[j - 1] + d
  BY <1>5
<1>9. ((j - 1) - 1) * d + d = (j - 1) * d
  BY <1>3
<1>10. ((j - 1) - 1) * d \in Int /\ (j - 1) * d \in Int /\ f[j] \in Int /\ f[j - 1] \in Int /\ f[1] \in Int
  BY <1>3, <1>5
<1> QED
  BY <1>3, <1>7, <1>8, <1>9, <1>10, SMTT(30)

-----------------------------------------------------------------------------
(* Departures as offsets.  Counter values have no order; the offset from a    *)
(* counter value not too far away has one.                                    *)

\* How far the departure c lies ahead of the counter value t, less than half a
\* roll-over; negative when c has passed.
Ahead(c, t) == IF InPast(c, t) THEN Minus(c, t) - Wrap ELSE Minus(c, t)

\* Ahead of the counter value thread_jit read last.
Until(n) == Ahead(n.count, jit.time)

\* The offset is the difference of the counters, up to one roll-over.
LEMMA AheadType ==
    ASSUME NEW c \in Counter, NEW t \in Counter
    PROVE  /\ Ahead(c, t) \in Int
           /\ -Wrap <= 2 * Ahead(c, t) /\ 2 * Ahead(c, t) < Wrap
           /\ Ahead(c, t) \in {c - t, c - t + Wrap, c - t - Wrap}
BY TimingAssumption DEF Counter, Ahead, InPast, Minus

\* No other number that near zero is.
LEMMA AheadUnique ==
    ASSUME NEW c \in Counter, NEW t \in Counter, NEW x \in Int,
           -Wrap <= 2 * x, 2 * x < Wrap, x \in {c - t, c - t + Wrap, c - t - Wrap}
    PROVE  Ahead(c, t) = x
BY TimingAssumption DEF Counter, Ahead, InPast, Minus

\* The unsigned difference of two departures, by their offsets.
LEMMA MinusAhead ==
    ASSUME NEW c \in Counter, NEW d \in Counter, NEW t \in Counter
    PROVE  Minus(c, d) = IF Ahead(c, t) >= Ahead(d, t)
                         THEN Ahead(c, t) - Ahead(d, t)
                         ELSE Ahead(c, t) - Ahead(d, t) + Wrap
<1>1. /\ c \in Int /\ d \in Int /\ t \in Int /\ Wrap \in Int
      /\ 0 <= c /\ c < Wrap /\ 0 <= d /\ d < Wrap
  BY TimingAssumption DEF Counter
<1> QED
  BY <1>1, AheadType DEF Minus

\* A departure moved by a delay.
LEMMA AheadPlus ==
    ASSUME NEW c \in Counter, NEW t \in Counter, NEW d \in Nat,
           2 * (Ahead(c, t) + d) < Wrap
    PROVE  /\ Plus(c, d) \in Counter
           /\ Ahead(Plus(c, d), t) = Ahead(c, t) + d
<1>1. /\ c \in Int /\ t \in Int /\ Wrap \in Int
      /\ 0 <= c /\ c < Wrap /\ 0 <= t /\ t < Wrap
  BY TimingAssumption DEF Counter
<1>2. /\ Ahead(c, t) \in Int
      /\ -Wrap <= 2 * Ahead(c, t) /\ 2 * Ahead(c, t) < Wrap
      /\ Ahead(c, t) \in {c - t, c - t + Wrap, c - t - Wrap}
  BY AheadType
<1>3. d <= Wrap
  BY <1>1, <1>2
<1>4. Plus(c, d) \in Counter
  BY <1>3, PlusType
<1>5. /\ Plus(c, d) \in {c + d, c + d - Wrap}
      /\ 0 <= Plus(c, d) /\ Plus(c, d) < Wrap
  BY <1>1, <1>4 DEF Plus, Counter
<1>6. Ahead(c, t) + d \in {Plus(c, d) - t, Plus(c, d) - t + Wrap, Plus(c, d) - t - Wrap}
  BY <1>1, <1>2, <1>5
<1>7. Ahead(c, t) + d \in Int /\ -Wrap <= 2 * (Ahead(c, t) + d)
  BY <1>1, <1>2
<1> QED
  BY <1>4, <1>6, <1>7, AheadUnique

\* A counter value is any other one plus their difference.
LEMMA PlusMinus ==
    ASSUME NEW c \in Counter, NEW t \in Counter
    PROVE  /\ Plus(t, Minus(c, t)) = c
           /\ Minus(c, t) \in Nat /\ Minus(c, t) < Wrap
BY TimingAssumption DEF Counter, Plus, Minus

\* The counter read again later.
LEMMA AheadShift ==
    ASSUME NEW c \in Counter, NEW t \in Counter, NEW u \in Counter,
           -Wrap <= 2 * (Ahead(c, t) - Minus(u, t))
    PROVE  Ahead(c, u) = Ahead(c, t) - Minus(u, t)
<1>1. /\ c \in Int /\ t \in Int /\ u \in Int /\ Wrap \in Int
      /\ 0 <= c /\ c < Wrap /\ 0 <= t /\ t < Wrap /\ 0 <= u /\ u < Wrap
  BY TimingAssumption DEF Counter
<1>2. /\ Ahead(c, t) \in Int /\ 2 * Ahead(c, t) < Wrap
      /\ Ahead(c, t) \in {c - t, c - t + Wrap, c - t - Wrap}
  BY AheadType
<1>3. Minus(u, t) \in Nat /\ Minus(u, t) \in {u - t, u - t + Wrap}
  BY <1>1, PlusMinus DEF Minus
<1>4. /\ Ahead(c, t) - Minus(u, t) \in Int
      /\ 2 * (Ahead(c, t) - Minus(u, t)) < Wrap
      /\ Ahead(c, t) - Minus(u, t) \in {c - u, c - u + Wrap, c - u - Wrap}
  BY <1>1, <1>2, <1>3
<1> QED
  BY <1>4, AheadUnique

-----------------------------------------------------------------------------
(* The array and its order.                                                  *)

\* How far apart the departures of two nodes are, at the least, in either order.
LEMMA ApartCounts ==
    ASSUME NEW p \in Node, NEW q \in Node, Apart(p, q)
    PROVE  p.count # q.count
<1>1. p.count \in Counter /\ q.post \in Nat
  BY DelayType
<1>2. Lead(p, q) \in Nat
  BY TimingAssumption DEF Lead, PreDelay
<1>3. Minus(p.count, p.count) = 0
  BY <1>1, TimingAssumption DEF Minus, Counter
<1> QED
  BY <1>1, <1>2, <1>3, TimingAssumption DEF Apart

\* A sort, seen as a map of positions, one to one and onto.
LEMMA ArrangementMap ==
    ASSUME NEW S, NEW s \in Seq(S), NEW t \in Arrangements(s)
    PROVE  /\ t \in Seq(S) /\ Len(t) = Len(s) /\ DOMAIN t = DOMAIN s
           /\ \A i \in 1 .. Len(t) - 1 : NotAfter(t[i], t[i + 1])
           /\ \E f \in [DOMAIN t -> DOMAIN s] :
                 /\ \A i, j \in DOMAIN t : f[i] = f[j] => i = j
                 /\ \A i \in DOMAIN t : t[i] = s[f[i]]
                 /\ \A j \in DOMAIN s : \E i \in DOMAIN t : f[i] = j
<1>1. t \in Seq(S) /\ Len(t) = Len(s)
  BY ArrangementOf
<1>2. DOMAIN t = DOMAIN s
  BY <1>1
<1>3. \A i \in 1 .. Len(t) - 1 : NotAfter(t[i], t[i + 1])
  BY <1>1 DEF Arrangements
<1>4. PICK f \in Bijection(DOMAIN s, DOMAIN s) : t = [i \in DOMAIN s |-> s[f[i]]]
  BY DEF Arrangements
<1>5. /\ f \in [DOMAIN s -> DOMAIN s]
      /\ \A i, j \in DOMAIN s : f[i] = f[j] => i = j
      /\ \A j \in DOMAIN s : \E i \in DOMAIN s : f[i] = j
  BY DEF Bijection, Injection, Surjection, IsInjective
<1> QED
  BY <1>1, <1>2, <1>3, <1>4, <1>5

\* A function on 1 .. m is a sequence of length m.
LEMMA SequenceOf ==
    ASSUME NEW S, NEW m \in Nat, NEW w \in [1 .. m -> S]
    PROVE  w \in Seq(S) /\ Len(w) = m /\ DOMAIN w = 1 .. m
OBVIOUS

\* A removal, seen the same way: onto all positions but the one removed.
LEMMA RemovalMap ==
    ASSUME NEW S, NEW s \in Seq(S), NEW k \in DOMAIN s, NEW t \in Arrangements(WithoutNode(s, k))
    PROVE  /\ t \in Seq(S) /\ Len(t) = Len(s) - 1
           /\ \A i \in 1 .. Len(t) - 1 : NotAfter(t[i], t[i + 1])
           /\ \E f \in [DOMAIN t -> DOMAIN s] :
                 /\ \A i, j \in DOMAIN t : f[i] = f[j] => i = j
                 /\ \A i \in DOMAIN t : t[i] = s[f[i]] /\ f[i] # k
                 /\ \A j \in DOMAIN s : j # k => \E i \in DOMAIN t : f[i] = j
<1> DEFINE n == Len(s)
           w == WithoutNode(s, k)
           e == [i \in 1 .. n - 1 |-> IF i = k THEN n ELSE i]
<1>1. n \in Nat /\ DOMAIN s = 1 .. n /\ k \in 1 .. n /\ n - 1 \in Nat
  OBVIOUS
<1>2. w = [i \in 1 .. n - 1 |-> s[e[i]]]
  BY DEF WithoutNode
<1>3. /\ e \in [1 .. n - 1 -> DOMAIN s]
      /\ \A i, j \in 1 .. n - 1 : e[i] = e[j] => i = j
      /\ \A i \in 1 .. n - 1 : e[i] # k
  BY <1>1
<1>4. \A j \in DOMAIN s : j # k => \E i \in 1 .. n - 1 : e[i] = j
  <2> SUFFICES ASSUME NEW j \in DOMAIN s, j # k
               PROVE  \E i \in 1 .. n - 1 : e[i] = j
    OBVIOUS
  <2>1. CASE j = n
    <3>1. k \in 1 .. n - 1 /\ e[k] = j
      BY <1>1, <2>1
    <3> QED
      BY <3>1
  <2>2. CASE j # n
    <3>1. j \in 1 .. n - 1 /\ e[j] = j
      BY <1>1, <2>2
    <3> QED
      BY <3>1
  <2> QED
    BY <2>1, <2>2
<1> HIDE DEF e
<1>5. w \in [1 .. n - 1 -> S]
  BY <1>2, <1>3
<1> HIDE DEF w, n
<1>6. w \in Seq(S) /\ Len(w) = n - 1 /\ DOMAIN w = 1 .. n - 1
  BY <1>1, <1>5, SequenceOf
<1>7. t \in Arrangements(w)
  BY DEF w
<1>8. /\ t \in Seq(S) /\ Len(t) = Len(w) /\ DOMAIN t = DOMAIN w
      /\ \A i \in 1 .. Len(t) - 1 : NotAfter(t[i], t[i + 1])
      /\ \E f \in [DOMAIN t -> DOMAIN w] :
            /\ \A i, j \in DOMAIN t : f[i] = f[j] => i = j
            /\ \A i \in DOMAIN t : t[i] = w[f[i]]
            /\ \A j \in DOMAIN w : \E i \in DOMAIN t : f[i] = j
  BY <1>6, <1>7, ArrangementMap
<1>9. PICK f \in [DOMAIN t -> DOMAIN w] :
            /\ \A i, j \in DOMAIN t : f[i] = f[j] => i = j
            /\ \A i \in DOMAIN t : t[i] = w[f[i]]
            /\ \A j \in DOMAIN w : \E i \in DOMAIN t : f[i] = j
  BY <1>8
<1> DEFINE g == [i \in DOMAIN t |-> e[f[i]]]
<1>10. g \in [DOMAIN t -> DOMAIN s]
  BY <1>3, <1>6
<1>11. \A i, j \in DOMAIN t : g[i] = g[j] => i = j
  BY <1>3, <1>6, <1>9
<1>12. \A i \in DOMAIN t : t[i] = s[g[i]] /\ g[i] # k
  BY <1>2, <1>3, <1>6, <1>9
<1>13. \A j \in DOMAIN s : j # k => \E i \in DOMAIN t : g[i] = j
  <2> SUFFICES ASSUME NEW j \in DOMAIN s, j # k
               PROVE  \E i \in DOMAIN t : g[i] = j
    OBVIOUS
  <2>1. PICK h \in DOMAIN w : e[h] = j
    BY <1>4, <1>6
  <2>2. PICK i \in DOMAIN t : f[i] = h
    BY <1>9
  <2> QED
    BY <2>1, <2>2
<1> HIDE DEF g
<1>14. Len(t) = Len(s) - 1
  BY <1>6, <1>8 DEF n
<1> QED
  BY <1>8, <1>10, <1>11, <1>12, <1>13, <1>14

\* Sorting nodes that are apart and all within less than half a roll-over of each
\* other leaves them in the order of their departures: the comparison of counters
\* that jit_sort_queue makes is then the comparison of offsets.
LEMMA SortedByOffset ==
    ASSUME NEW t \in Seq(Node), NEW time \in Counter, NEW low \in Int, NEW high \in Int,
           2 * (high - low) < Wrap,
           \A i \in DOMAIN t : low <= Ahead(t[i].count, time) /\ Ahead(t[i].count, time) <= high,
           \A i \in 1 .. Len(t) - 1 : NotAfter(t[i], t[i + 1]),
           \A i, j \in DOMAIN t : i # j => Apart(t[i], t[j])
    PROVE  \A i, j \in DOMAIN t : i < j => Ahead(t[i].count, time) < Ahead(t[j].count, time)
<1> DEFINE n == Len(t)
           u == [i \in 1 .. n |-> Ahead(t[i].count, time)]
<1>1. n \in Nat /\ DOMAIN t = 1 .. n
  OBVIOUS
<1>2. \A i \in 1 .. n : t[i] \in Node /\ t[i].count \in Counter
  BY <1>1, DelayType
<1>3. \A i \in 1 .. n : Ahead(t[i].count, time) \in Int
  BY <1>2, AheadType
<1>4. u \in [1 .. n -> Int]
  BY <1>3
<1>5. \A i \in 1 .. n - 1 : u[i] < u[i + 1]
  <2> SUFFICES ASSUME NEW i \in 1 .. n - 1
               PROVE  Ahead(t[i].count, time) < Ahead(t[i + 1].count, time)
    OBVIOUS
  <2> DEFINE x == Ahead(t[i].count, time)
             y == Ahead(t[i + 1].count, time)
  <2>1. i \in DOMAIN t /\ i + 1 \in DOMAIN t /\ i # i + 1
    BY <1>1
  <2>2. t[i].count # t[i + 1].count
    BY <1>1, <1>2, <2>1, ApartCounts
  <2>3. t[i].count = t[i + 1].count \/ InPast(t[i].count, t[i + 1].count)
    BY DEF NotAfter
  <2>4. 2 * Minus(t[i].count, t[i + 1].count) >= Wrap
    BY <2>2, <2>3 DEF InPast
  <2>5. x \in Int /\ y \in Int /\ low <= x /\ x <= high /\ low <= y /\ y <= high
    BY <1>1, <1>3, <2>1
  <2>6. Minus(t[i].count, t[i + 1].count) = IF x >= y THEN x - y ELSE x - y + Wrap
    BY <1>1, <1>2, <2>1, MinusAhead
  <2> HIDE DEF x, y
  <2>7. x < y
    BY <2>4, <2>5, <2>6, TimingAssumption
  <2> QED
    BY <2>7 DEF x, y
<1> HIDE DEF u
<1>6. \A i, j \in 1 .. n : i < j => u[i] < u[j]
  BY <1>1, <1>4, <1>5, Ascending
<1> QED
  BY <1>1, <1>6 DEF u

\* The most that criteria 3 keeps free between two departures, when no time on air
\* is above longest; with the slot of a class C downlink, the longest step from a
\* departure to the next one the slot search goes past; the farthest departure.
Spacing(longest) == StartDelay + JitDelay + BeaconGuard + longest + MarginDelay
Stride(longest)  == longest + StartDelay + 2 * JitDelay + MarginDelay + Spacing(longest)
Horizon(longest) == MaxAdvance + MaxPeekGap + 2 * JitDelay + Spacing(longest)
                        + QueueMax * Stride(longest)

\* How far a departure accepted by criteria 1 may have passed when jit_enqueue ends.
Late == IF MaxDownLag <= StartDelay + MarginDelay + JitDelay + 1 THEN 0
        ELSE MaxDownLag - (StartDelay + MarginDelay + JitDelay + 1)

\* The counter does not roll over between the most missed packet and the farthest
\* one: longest bounds what a packet reserves, a beacon is asked for within
\* MaxAdvance, and thread_jit reads the counter once in the air a packet keeps free.
Steady(longest) ==
    /\ longest \in Nat /\ BeaconReserved <= longest /\ \A a \in Airtimes : a <= longest
    /\ BeaconOffsets \subseteq 0 .. MaxAdvance
    /\ MaxPeekGap <= StartDelay + 2 * JitDelay + MarginDelay
    /\ 2 * (MaxDownLag + 2 * MaxPeekGap + Horizon(longest)) < Wrap

\* No queued departure lies before the offset x; at most one does.
Above(x)    == \A i \in DOMAIN nodes : Until(nodes[i]) >= x
OneBelow(x) == \A i, j \in DOMAIN nodes :
                  i # j => Until(nodes[i]) >= x \/ Until(nodes[j]) >= x

\* The array is in the order of departure.
Sorted == \A i, j \in DOMAIN nodes : i < j => Until(nodes[i]) < Until(nodes[j])

\* The two tasks read the counter not too long ago.
Clocks ==
    /\ Minus(now, jit.time) <= MaxPeekGap
    /\ down.pc # "idle" => Minus(now, down.time) <= MaxDownLag

\* Where thread_jit stands: between two scans of the queue, with a counter value no
\* scan has used yet, within the scan and past the first node.
Resting  == jit.pc \in {"idle", "peeked", "picked"}
AboutToScan == jit.pc = "timed" \/ (jit.pc = "scan" /\ jit.i = 1)
Scanning == jit.pc = "scan" /\ jit.i >= 2

\* How far the departures may lie behind the counter thread_jit read: one packet at
\* most is missed at a time, and the scan drops it before the next reading.
Lows ==
    /\ Resting  => Above(-(Late + MaxPeekGap)) /\ OneBelow(-Late)
    /\ AboutToScan => Above(-(Late + 2 * MaxPeekGap)) /\ OneBelow(-(Late + MaxPeekGap))
    /\ Scanning =>
          /\ Above(-(Late + MaxPeekGap))
          /\ \A j \in DOMAIN nodes : 2 <= j /\ j < jit.i => Until(nodes[j]) >= 0

\* How far they may lie ahead.
Highs(longest) == \A i \in DOMAIN nodes : Until(nodes[i]) <= Horizon(longest)

\* The node jit_peek has chosen so far, and what its two callers make of it.
Candidate ==
    /\ jit.pc = "scan" =>
          /\ jit.i >= 1 /\ jit.best <= 2 /\ jit.best <= jit.i
          /\ jit.i = 1 => jit.best = 0
          /\ jit.best = 0 => jit.i <= 2
          /\ jit.best # 0 => /\ jit.best \in DOMAIN nodes
                             /\ 0 <= Until(nodes[jit.best])
                             /\ Until(nodes[jit.best]) < MaxAdvance
    /\ jit.pc = "peeked" => jit.best \in DOMAIN nodes
    /\ jit.pc = "picked" => jit.pkt \in Node
    /\ jit.pc # "picked" => jit.pkt = NoPkt

\* The inductive invariant.
Known(longest) ==
    /\ TypeOK /\ RoomLeft /\ NoOverlap
    /\ Sorted /\ Clocks /\ Lows /\ Highs(longest) /\ Candidate

-----------------------------------------------------------------------------
\* The constants and the three distances are naturals, in this order of size.
LEMMA SteadyFacts ==
    ASSUME NEW longest, Steady(longest)
    PROVE  /\ longest \in Nat /\ Wrap \in Nat /\ StartDelay \in Nat /\ MarginDelay \in Nat
           /\ JitDelay \in Nat /\ MaxAdvance \in Nat /\ BeaconGuard \in Nat
           /\ MaxDownLag \in Nat /\ MaxPeekGap \in Nat /\ QueueMax \in Nat
           /\ Late \in Nat /\ Late <= MaxDownLag
           /\ MaxDownLag <= Late + StartDelay + MarginDelay + JitDelay + 1
           /\ Spacing(longest) \in Nat /\ Stride(longest) \in Nat
           /\ QueueMax * Stride(longest) \in Nat
           /\ Horizon(longest) \in Nat
           /\ MaxAdvance + MaxPeekGap <= Horizon(longest)
           /\ Spacing(longest) <= Horizon(longest)
           /\ 2 * (MaxDownLag + 2 * MaxPeekGap + Horizon(longest)) < Wrap
           /\ MaxPeekGap <= StartDelay + 2 * JitDelay + MarginDelay
<1>1. /\ longest \in Nat /\ Wrap \in Nat /\ StartDelay \in Nat /\ MarginDelay \in Nat
      /\ JitDelay \in Nat /\ MaxAdvance \in Nat /\ BeaconGuard \in Nat
      /\ MaxDownLag \in Nat /\ MaxPeekGap \in Nat /\ QueueMax \in Nat
  BY TimingAssumption, QueueAssumption DEF Steady
<1>2. Spacing(longest) \in Nat
  BY <1>1 DEF Spacing
<1>3. Stride(longest) \in Nat
  BY <1>1, <1>2 DEF Stride
<1>4. QueueMax * Stride(longest) \in Nat
  BY <1>1, <1>3
<1>5. Horizon(longest) \in Nat /\ MaxAdvance + MaxPeekGap <= Horizon(longest)
      /\ Spacing(longest) <= Horizon(longest)
  BY <1>1, <1>2, <1>4 DEF Horizon
<1>6. /\ Late \in Nat /\ Late <= MaxDownLag
      /\ MaxDownLag <= Late + StartDelay + MarginDelay + JitDelay + 1
  BY <1>1 DEF Late
<1> QED
  BY <1>1, <1>2, <1>3, <1>4, <1>5, <1>6 DEF Steady

\* Every queued departure is near the counter thread_jit read, on either side.
LEMMA Nearby ==
    ASSUME NEW longest, Steady(longest), Known(longest), NEW i \in DOMAIN nodes
    PROVE  /\ nodes[i] \in Node /\ nodes[i].count \in Counter /\ jit.time \in Counter
           /\ Until(nodes[i]) \in Int
           /\ -(Late + 2 * MaxPeekGap) <= Until(nodes[i])
           /\ Until(nodes[i]) <= Horizon(longest)
<1> USE DEF Known
<1>1. nodes[i] \in Node /\ nodes[i].count \in Counter /\ jit.time \in Counter
  BY DelayType DEF TypeOK
<1>2. Until(nodes[i]) \in Int
  BY <1>1, AheadType DEF Until
<1>3. Late \in Nat /\ MaxPeekGap \in Nat
  BY SteadyFacts
<1>4. Resting \/ AboutToScan \/ Scanning
  BY DEF TypeOK, Candidate, Resting, AboutToScan, Scanning
<1>5. -(Late + 2 * MaxPeekGap) <= Until(nodes[i])
  BY <1>2, <1>3, <1>4 DEF Lows, Above
<1> QED
  BY <1>1, <1>2, <1>5 DEF Highs

\* The counter, jit_enqueue's reading of it and thread_jit's, as offsets.
LEMMA ClockOffsets ==
    ASSUME NEW longest, Steady(longest), Known(longest)
    PROVE  /\ down.time \in Counter /\ jit.time \in Counter /\ now \in Counter
           /\ Minus(now, jit.time) \in 0 .. MaxPeekGap
           /\ down.pc # "idle" =>
                /\ Ahead(down.time, jit.time) \in Int
                /\ -MaxDownLag <= Ahead(down.time, jit.time)
                /\ Ahead(down.time, jit.time) <= MaxPeekGap
<1> DEFINE g == Minus(now, jit.time)
           l == Minus(now, down.time)
<1>1. down.time \in Counter /\ jit.time \in Counter /\ now \in Counter
  BY DEF Known, TypeOK
<1>2. g \in Nat /\ g <= MaxPeekGap
  BY <1>1, PlusMinus DEF Known, Clocks
<1>3. ASSUME down.pc # "idle"
      PROVE  /\ Ahead(down.time, jit.time) \in Int
             /\ -MaxDownLag <= Ahead(down.time, jit.time)
             /\ Ahead(down.time, jit.time) <= MaxPeekGap
  <2>1. l \in Nat /\ l <= MaxDownLag
    BY <1>1, <1>3, PlusMinus DEF Known, Clocks
  <2>2. /\ Wrap \in Nat /\ MaxDownLag \in Nat /\ MaxPeekGap \in Nat
        /\ 2 * (MaxDownLag + MaxPeekGap) < Wrap
    BY SteadyFacts
  <2>3. /\ g \in {now - jit.time, now - jit.time + Wrap}
        /\ l \in {now - down.time, now - down.time + Wrap}
    BY DEF Minus
  <2> HIDE DEF g, l
  <2>4. /\ down.time \in Int /\ jit.time \in Int /\ now \in Int
        /\ 0 <= down.time /\ down.time < Wrap /\ 0 <= jit.time /\ jit.time < Wrap
    BY <1>1, <2>2 DEF Counter
  <2>5. /\ g - l \in Int /\ -Wrap <= 2 * (g - l) /\ 2 * (g - l) < Wrap
        /\ g - l \in {down.time - jit.time, down.time - jit.time + Wrap,
                      down.time - jit.time - Wrap}
    BY <1>2, <2>1, <2>2, <2>3, <2>4
  <2>6. Ahead(down.time, jit.time) = g - l
    BY <1>1, <2>5, AheadUnique
  <2> QED
    BY <1>2, <2>1, <2>2, <2>6
<1> QED
  BY <1>1, <1>2, <1>3, SteadyFacts

\* A departure at a delay after jit_enqueue's reading of the counter.
LEMMA AfterReading ==
    ASSUME NEW longest, Steady(longest), Known(longest), down.pc = "room",
           NEW d \in Nat, d <= MaxAdvance \/ d = 2 * JitDelay
    PROVE  /\ Plus(down.time, d) \in Counter
           /\ Ahead(Plus(down.time, d), jit.time) = Ahead(down.time, jit.time) + d
           /\ Minus(Plus(down.time, d), down.time) = d
<1>1. /\ down.time \in Counter /\ jit.time \in Counter
      /\ Ahead(down.time, jit.time) \in Int
      /\ Ahead(down.time, jit.time) <= MaxPeekGap
  BY ClockOffsets
<1>2. /\ 2 * (MaxPeekGap + d) < Wrap /\ MaxPeekGap \in Nat
      /\ d <= Horizon(longest)
  <2>1. 2 * JitDelay + MaxPeekGap <= Horizon(longest)
    BY SteadyFacts DEF Horizon
  <2> QED
    BY <2>1, SteadyFacts
<1>3. 2 * (Ahead(down.time, jit.time) + d) < Wrap
  BY <1>1, <1>2, TimingAssumption
<1>4. /\ Plus(down.time, d) \in Counter
      /\ Ahead(Plus(down.time, d), jit.time) = Ahead(down.time, jit.time) + d
  BY <1>1, <1>3, AheadPlus
<1>5. Minus(Plus(down.time, d), down.time) = d
  BY <1>1, <1>4, MinusAhead
<1> QED
  BY <1>4, <1>5

\* The slot after a node, as an offset.
LEMMA SlotOffset ==
    ASSUME NEW longest, Steady(longest), NEW n \in Node, NEW t \in Counter,
           Ahead(n.count, t) <= Horizon(longest) - Stride(longest)
             \/ 2 * (Ahead(n.count, t) + Stride(longest)) < Wrap
    PROVE  /\ SlotAfter(n) \in Counter
           /\ Ahead(SlotAfter(n), t)
                = Ahead(n.count, t) + n.post + StartDelay + 2 * JitDelay + MarginDelay
           /\ 0 <= n.post /\ n.post <= longest
<1>1. n.count \in Counter /\ n.post \in Nat /\ n.post <= longest
  BY DelayType DEF Node, Steady
<1>2. Ahead(n.count, t) \in Int
  BY <1>1, AheadType
<1> DEFINE d == n.post + StartDelay + 2 * JitDelay + MarginDelay
<1>3. d \in Nat /\ d <= Stride(longest)
  BY <1>1, SteadyFacts DEF Stride
<1>4. n.post + PreDelay("C") + JitDelay + MarginDelay = d
  BY <1>1, SteadyFacts DEF PreDelay
<1>5. 2 * (Ahead(n.count, t) + d) < Wrap
  BY <1>2, <1>3, SteadyFacts
<1> HIDE DEF d
<1>6. SlotAfter(n) \in Counter /\ Ahead(SlotAfter(n), t) = Ahead(n.count, t) + d
  BY <1>1, <1>3, <1>4, <1>5, AheadPlus DEF SlotAfter
<1> QED
  BY <1>1, <1>2, <1>6, SteadyFacts DEF d

-----------------------------------------------------------------------------
(* The slot search of jit_enqueue.                                           *)

\* A class C request at an acceptable counter value has the type of a node.
LEMMA ClassCType ==
    ASSUME NEW post \in Airtimes, NEW c \in Counter
    PROVE  /\ ClassC(c, post) \in Node /\ ClassC(c, post).count = c
           /\ ClassC(c, post).post = post /\ ClassC(c, post).kind = "C"
BY DEF ClassC, Node, Kinds

\* What criteria 3 looks at around a departure, at most.
LEMMA DelayBounds ==
    ASSUME NEW longest, Steady(longest), NEW n \in Node
    PROVE  /\ n.post \in Nat /\ n.post <= longest
           /\ PreDelay(n.kind) \in Nat
           /\ PreDelay(n.kind) >= StartDelay + JitDelay
           /\ PreDelay(n.kind) <= StartDelay + JitDelay + BeaconGuard
           /\ PreDelay(n.kind) + longest + MarginDelay <= Spacing(longest)
<1>1. n.post \in Nat /\ n.post <= longest
  BY DelayType DEF Node, Steady
<1>2. /\ PreDelay(n.kind) \in Nat /\ PreDelay(n.kind) >= StartDelay + JitDelay
      /\ PreDelay(n.kind) <= StartDelay + JitDelay + BeaconGuard
  BY SteadyFacts DEF PreDelay
<1> QED
  BY <1>1, <1>2, SteadyFacts DEF Spacing

\* Two departures that collide are at most Spacing apart.
LEMMA CollisionNear ==
    ASSUME NEW longest, Steady(longest), NEW p \in Node, NEW q \in Node, NEW t \in Counter,
           -(MaxDownLag + 2 * MaxPeekGap) <= Ahead(p.count, t),
           -(MaxDownLag + 2 * MaxPeekGap) <= Ahead(q.count, t),
           Ahead(p.count, t) <= Horizon(longest), Ahead(q.count, t) <= Horizon(longest),
           Collides(p, q)
    PROVE  Ahead(q.count, t) <= Ahead(p.count, t) + Spacing(longest)
<1> DEFINE x == Ahead(p.count, t)
           y == Ahead(q.count, t)
<1>1. p.count \in Counter /\ q.count \in Counter
  BY DelayType
<1>2. x \in Int /\ y \in Int
  BY <1>1, AheadType
<1>3. /\ Minus(p.count, q.count) = IF x >= y THEN x - y ELSE x - y + Wrap
      /\ Minus(q.count, p.count) = IF y >= x THEN y - x ELSE y - x + Wrap
  BY <1>1, MinusAhead
<1>4. \/ Minus(p.count, q.count) <= PreDelay(p.kind) + q.post + MarginDelay
      \/ Minus(q.count, p.count) <= PreDelay(q.kind) + p.post + MarginDelay
  BY DEF Collides, CollisionTest
<1>5. /\ PreDelay(p.kind) + q.post + MarginDelay <= Spacing(longest)
      /\ PreDelay(q.kind) + p.post + MarginDelay <= Spacing(longest)
      /\ PreDelay(p.kind) + q.post + MarginDelay \in Nat
      /\ PreDelay(q.kind) + p.post + MarginDelay \in Nat
  BY DelayBounds, SteadyFacts
<1>6. /\ -(MaxDownLag + 2 * MaxPeekGap) <= x /\ x <= Horizon(longest)
      /\ -(MaxDownLag + 2 * MaxPeekGap) <= y /\ y <= Horizon(longest)
  OBVIOUS
<1> HIDE DEF x, y
<1>7. \/ Minus(p.count, q.count) <= Spacing(longest)
      \/ Minus(q.count, p.count) <= Spacing(longest)
  BY <1>1, <1>4, <1>5, PlusMinus, SteadyFacts
<1>8. y <= x + Spacing(longest)
  BY <1>2, <1>3, <1>6, <1>7, SteadyFacts
<1> QED
  BY <1>8 DEF x, y

\* While the slot after node j does not fit, node j + 1 is at most Stride farther.
LEMMA SlotTaken ==
    ASSUME NEW longest, Steady(longest), Known(longest),
           NEW j \in DOMAIN nodes, j + 1 \in DOMAIN nodes, NEW post \in Airtimes,
           Collides(ClassC(SlotAfter(nodes[j]), post), nodes[j + 1])
    PROVE  Until(nodes[j + 1]) <= Until(nodes[j]) + Stride(longest)
<1> DEFINE x == Until(nodes[j])
           y == Until(nodes[j + 1])
<1>1. /\ nodes[j] \in Node /\ jit.time \in Counter
      /\ x \in Int /\ -(Late + 2 * MaxPeekGap) <= x
  BY Nearby
<1>2. /\ nodes[j + 1] \in Node
      /\ y \in Int /\ y <= Horizon(longest) /\ -(Late + 2 * MaxPeekGap) <= y
  BY Nearby
<1>3. CASE x + Stride(longest) > Horizon(longest)
  BY <1>1, <1>2, <1>3, SteadyFacts
<1>4. CASE x + Stride(longest) <= Horizon(longest)
  <2> DEFINE c == SlotAfter(nodes[j])
  <2>1. /\ c \in Counter /\ 0 <= nodes[j].post /\ nodes[j].post <= longest
        /\ Ahead(c, jit.time) = x + nodes[j].post + StartDelay + 2 * JitDelay + MarginDelay
    <3>1. x <= Horizon(longest) - Stride(longest)
      BY <1>1, <1>4, SteadyFacts
    <3> QED
      BY <1>1, <3>1, SlotOffset DEF Until
  <2>2. nodes[j].post \in Nat
    BY <1>1, DelayType
  <2>3. /\ Ahead(c, jit.time) + Spacing(longest) <= x + Stride(longest)
        /\ Ahead(c, jit.time) >= x
    BY <1>1, <2>1, <2>2, SteadyFacts DEF Stride
  <2>4. Ahead(c, jit.time) \in Int
    BY <1>1, <2>1, AheadType
  <2>5. /\ Ahead(c, jit.time) <= Horizon(longest)
        /\ -(MaxDownLag + 2 * MaxPeekGap) <= Ahead(c, jit.time)
        /\ -(MaxDownLag + 2 * MaxPeekGap) <= y
    BY <1>1, <1>2, <1>4, <2>3, <2>4, SteadyFacts
  <2>6. ClassC(c, post) \in Node /\ ClassC(c, post).count = c
    BY <2>1, ClassCType
  <2> HIDE DEF c
  <2>7. y <= Ahead(c, jit.time) + Spacing(longest)
    BY <1>1, <1>2, <2>5, <2>6, CollisionNear DEF Until, c
  <2> QED
    BY <1>1, <1>2, <2>3, <2>4, <2>7, SteadyFacts
<1> QED
  BY <1>1, <1>3, <1>4, SteadyFacts

\* Where the slot search ends: at twice TX_JIT_DELAY, or in the slot after a node
\* that lies well within the horizon and whose successor leaves room.
LEMMA AsapOffset ==
    ASSUME NEW longest, Steady(longest), Known(longest), down.pc = "room",
           NEW post \in Airtimes, NEW c \in AsapTimes(nodes, down.time, post)
    PROVE  \/ /\ c = Plus(down.time, 2 * JitDelay)
              /\ \A i \in DOMAIN nodes : ~Collides(ClassC(c, post), nodes[i])
           \/ \E i \in DOMAIN nodes :
                /\ c = SlotAfter(nodes[i]) /\ c \in Counter
                /\ Until(nodes[i]) <= Horizon(longest) - Stride(longest)
                /\ Ahead(c, jit.time) = Until(nodes[i]) + nodes[i].post
                                          + StartDelay + 2 * JitDelay + MarginDelay
                /\ i # Len(nodes) => ~Collides(ClassC(c, post), nodes[i + 1])
<1> DEFINE asap == Plus(down.time, 2 * JitDelay)
           Fits(i) == i = Len(nodes) \/ ~Collides(ClassC(SlotAfter(nodes[i]), post), nodes[i + 1])
           n == Len(nodes)
<1>1. CASE \A i \in DOMAIN nodes : ~Collides(ClassC(asap, post), nodes[i])
  <2>1. c = asap
    BY <1>1 DEF AsapTimes
  <2> QED
    BY <1>1, <2>1
<1>2. CASE ~ \A i \in DOMAIN nodes : ~Collides(ClassC(asap, post), nodes[i])
  <2>1. PICK i \in DOMAIN nodes :
           /\ c = SlotAfter(nodes[i]) /\ Fits(i)
           /\ \A j \in DOMAIN nodes : j < i => ~Fits(j)
    BY <1>2 DEF AsapTimes
  <2> HIDE DEF Fits
  <2>2. PICK k \in DOMAIN nodes : Collides(ClassC(asap, post), nodes[k])
    BY <1>2
  <2>3. n \in Nat /\ DOMAIN nodes = 1 .. n /\ n < QueueMax
    BY DEF Known, TypeOK, RoomLeft
  <2>4. /\ asap \in Counter /\ Ahead(asap, jit.time) \in Int
        /\ Ahead(asap, jit.time) <= MaxPeekGap + 2 * JitDelay
        /\ -MaxDownLag <= Ahead(asap, jit.time)
    <3>1. /\ 2 * JitDelay \in Nat /\ MaxDownLag \in Nat /\ MaxPeekGap \in Nat
      BY SteadyFacts
    <3>2. /\ asap \in Counter
          /\ Ahead(asap, jit.time) = Ahead(down.time, jit.time) + 2 * JitDelay
      BY <3>1, AfterReading
    <3>3. /\ Ahead(down.time, jit.time) \in Int
          /\ -MaxDownLag <= Ahead(down.time, jit.time)
          /\ Ahead(down.time, jit.time) <= MaxPeekGap
      BY ClockOffsets
    <3> QED
      BY <3>1, <3>2, <3>3
  <2>5. Until(nodes[k]) <= MaxPeekGap + 2 * JitDelay + Spacing(longest)
    <3>1. /\ nodes[k] \in Node /\ jit.time \in Counter
          /\ Until(nodes[k]) \in Int
          /\ -(Late + 2 * MaxPeekGap) <= Until(nodes[k])
          /\ Until(nodes[k]) <= Horizon(longest)
      BY Nearby
    <3>2. ClassC(asap, post) \in Node /\ ClassC(asap, post).count = asap
      BY <2>4, ClassCType
    <3>3. /\ -(MaxDownLag + 2 * MaxPeekGap) <= Until(nodes[k])
          /\ -(MaxDownLag + 2 * MaxPeekGap) <= Ahead(asap, jit.time)
          /\ Ahead(asap, jit.time) <= Horizon(longest)
      <4>1. MaxPeekGap + 2 * JitDelay <= Horizon(longest)
        BY SteadyFacts DEF Horizon
      <4> QED
        BY <2>4, <3>1, <4>1, SteadyFacts
    <3>4. Until(nodes[k]) <= Ahead(asap, jit.time) + Spacing(longest)
      BY <2>2, <3>1, <3>2, <3>3, CollisionNear DEF Until
    <3> QED
      BY <2>4, <3>1, <3>4, SteadyFacts
  <2>6. Until(nodes[1]) <= MaxPeekGap + 2 * JitDelay + Spacing(longest)
    <3>1. 1 \in DOMAIN nodes /\ k \in 1 .. n
      BY <2>3
    <3>2. Until(nodes[1]) \in Int /\ Until(nodes[k]) \in Int
      BY <3>1, Nearby
    <3>3. k = 1 \/ Until(nodes[1]) < Until(nodes[k])
      BY <2>3, <3>1 DEF Known, Sorted
    <3> QED
      BY <2>5, <3>2, <3>3, SteadyFacts
  <2>7. \A j \in 1 .. i - 1 :
           Until(nodes[j + 1]) <= Until(nodes[j]) + Stride(longest)
    <3> SUFFICES ASSUME NEW j \in 1 .. i - 1
                 PROVE  Until(nodes[j + 1]) <= Until(nodes[j]) + Stride(longest)
      OBVIOUS
    <3>1. j \in DOMAIN nodes /\ j + 1 \in DOMAIN nodes /\ j < i
      BY <2>3
    <3>2. ~Fits(j)
      BY <2>1, <3>1
    <3>3. Collides(ClassC(SlotAfter(nodes[j]), post), nodes[j + 1])
      BY <3>2 DEF Fits
    <3> QED
      BY <3>1, <3>3, SlotTaken
  <2>8. Until(nodes[i]) <= Until(nodes[1]) + (i - 1) * Stride(longest)
    <3> DEFINE f == [j \in 1 .. n |-> Until(nodes[j])]
    <3>1. f \in [1 .. n -> Int]
      BY <2>3, Nearby
    <3>2. i \in 1 .. n /\ Stride(longest) \in Int
      BY <2>3, SteadyFacts
    <3>3. \A j \in 1 .. i - 1 : f[j + 1] <= f[j] + Stride(longest)
      BY <2>3, <2>7
    <3>4. f[i] = Until(nodes[i]) /\ f[1] = Until(nodes[1])
      BY <2>3
    <3> HIDE DEF f
    <3>5. f[i] <= f[1] + (i - 1) * Stride(longest)
      BY <2>3, <3>1, <3>2, <3>3, Chained
    <3> QED
      BY <3>4, <3>5
  <2>9. (i - 1) * Stride(longest) + Stride(longest) <= QueueMax * Stride(longest)
    <3> DEFINE d == Stride(longest)
    <3>0. QueueMax \in Nat /\ d \in Nat
      BY SteadyFacts
    <3>1. i \in Nat /\ i <= QueueMax /\ QueueMax \in Nat /\ d \in Nat
      BY <2>3, <3>0
    <3> HIDE DEF d
    <3>2. (QueueMax - i) * d >= 0
      BY <3>1
    <3>3. (QueueMax - i) * d = QueueMax * d - ((i - 1) * d + d)
      BY <3>1
    <3>4. (i - 1) * d \in Int /\ QueueMax * d \in Int
      BY <3>1
    <3>5. (i - 1) * d + d <= QueueMax * d
      BY <3>1, <3>2, <3>3, <3>4
    <3> QED
      BY <3>5 DEF d
  <2>10. Until(nodes[i]) <= Horizon(longest) - Stride(longest)
    <3>1. Until(nodes[i]) \in Int /\ Until(nodes[1]) \in Int
      BY <2>3, Nearby
    <3>2. (i - 1) * Stride(longest) \in Int
      <4>1. i - 1 \in Int /\ Stride(longest) \in Int
        BY <2>3, SteadyFacts
      <4> QED
        BY <4>1
    <3>3. MaxPeekGap + 2 * JitDelay + Spacing(longest) + QueueMax * Stride(longest)
             <= Horizon(longest)
      BY SteadyFacts DEF Horizon
    <3> QED
      BY <2>6, <2>8, <2>9, <3>1, <3>2, <3>3, SteadyFacts
  <2>11. /\ c \in Counter
         /\ Ahead(c, jit.time) = Until(nodes[i]) + nodes[i].post
                                    + StartDelay + 2 * JitDelay + MarginDelay
    <3>1. nodes[i] \in Node /\ jit.time \in Counter
      BY Nearby
    <3> QED
      BY <2>1, <2>10, <3>1, SlotOffset DEF Until
  <2>12. i # Len(nodes) => ~Collides(ClassC(c, post), nodes[i + 1])
    BY <2>1 DEF Fits
  <2> QED
    BY <2>1, <2>10, <2>11, <2>12
<1> QED
  BY <1>1, <1>2

-----------------------------------------------------------------------------
(* An insertion.                                                             *)

\* What criteria 1 and 2 say of a departure that the caller chose, or the asap time.
LEMMA ReadingOffset ==
    ASSUME NEW longest, Steady(longest), Known(longest), down.pc = "room",
           NEW p \in Node, ~TooLate(p, down.time),
           NEW d \in Nat, d <= MaxAdvance \/ d = 2 * JitDelay, p.count = Plus(down.time, d)
    PROVE  /\ Until(p) \in Int /\ Until(p) <= Horizon(longest)
           /\ Until(p) >= StartDelay + MarginDelay + JitDelay + 1 - MaxDownLag
           /\ ~InPast(p.count, down.time)
<1>1. /\ Ahead(p.count, jit.time) = Ahead(down.time, jit.time) + d
      /\ Minus(p.count, down.time) = d
  BY AfterReading
<1>2. /\ Ahead(down.time, jit.time) \in Int
      /\ -MaxDownLag <= Ahead(down.time, jit.time)
      /\ Ahead(down.time, jit.time) <= MaxPeekGap
  BY ClockOffsets
<1>3. d > StartDelay + MarginDelay + JitDelay
  BY <1>1, SteadyFacts DEF TooLate
<1>4. d + MaxPeekGap <= Horizon(longest)
  <2>1. MaxPeekGap + 2 * JitDelay <= Horizon(longest)
    BY SteadyFacts DEF Horizon
  <2> QED
    BY <2>1, SteadyFacts
<1>5. 2 * d < Wrap
  BY <1>4, SteadyFacts
<1> QED
  BY <1>1, <1>2, <1>3, <1>4, <1>5, SteadyFacts DEF Until, InPast

\* A newcomer departs after the counter that jit_enqueue read by more than criteria 1
\* asks, or in the slot after a node, wherever that node is.
LEMMA NewcomerOffset ==
    ASSUME NEW longest, Steady(longest), Known(longest), down.pc = "room",
           NEW kind \in Offered, NEW post \in PostDelays(kind), NEW c \in Departures(kind, post),
           NEW p, p = [count |-> c, kind |-> kind, post |-> post], InTime(p)
    PROVE  /\ p \in Node /\ Until(p) \in Int /\ Until(p) <= Horizon(longest)
           /\ \/ /\ Until(p) >= StartDelay + MarginDelay + JitDelay + 1 - MaxDownLag
                 /\ ~InPast(p.count, down.time)
              \/ \E i \in DOMAIN nodes :
                    /\ Until(p) >= Until(nodes[i]) + StartDelay + 2 * JitDelay + MarginDelay
                    /\ Until(p) <= Horizon(longest)
<1>1. TypeOK
  BY DEF Known
<1>2. p \in Node /\ p.count = c /\ p.kind = kind /\ c \in Counter /\ down.time \in Counter
  BY <1>1, RequestType, DepartureType DEF TypeOK
<1>3. ~TooLate(p, down.time) /\ ~TooEarly(p, down.time)
  BY DEF InTime
<1>4. CASE kind \in {"A", "B"}
  <2>1. PICK d \in ServerOffsets : c = Plus(down.time, d)
    BY <1>4 DEF Departures
  <2>2. Minus(c, down.time) <= MaxAdvance
    BY <1>2, <1>3, <1>4, PlusMinus, SteadyFacts DEF TooEarly
  <2>3. Plus(down.time, Minus(c, down.time)) = c /\ Minus(c, down.time) \in Nat
    BY <1>2, PlusMinus
  <2> QED
    BY <1>2, <1>3, <2>2, <2>3, ReadingOffset
<1>5. CASE kind = "Beacon"
  <2>1. PICK d \in BeaconOffsets : c = Plus(down.time, d)
    BY <1>5 DEF Departures
  <2>2. d \in Nat /\ d <= MaxAdvance
    BY SteadyFacts DEF Steady
  <2> QED
    BY <1>2, <1>3, <2>1, <2>2, ReadingOffset
<1>6. CASE kind = "C"
  <2>1. post \in Airtimes /\ c \in AsapTimes(nodes, down.time, post)
    BY <1>6 DEF PostDelays, Departures
  <2>2. CASE c = Plus(down.time, 2 * JitDelay)
    <3>1. 2 * JitDelay \in Nat
      BY SteadyFacts
    <3> QED
      BY <1>2, <1>3, <2>2, <3>1, ReadingOffset
  <2>3. ASSUME NEW i \in DOMAIN nodes,
               Until(nodes[i]) <= Horizon(longest) - Stride(longest),
               Ahead(c, jit.time) = Until(nodes[i]) + nodes[i].post
                                          + StartDelay + 2 * JitDelay + MarginDelay
        PROVE  /\ Until(p) \in Int /\ Until(p) <= Horizon(longest)
               /\ Until(p) >= Until(nodes[i]) + StartDelay + 2 * JitDelay + MarginDelay
    <3>1. nodes[i] \in Node /\ Until(nodes[i]) \in Int
      BY Nearby
    <3>2. nodes[i].post \in Nat /\ nodes[i].post <= longest
      BY <3>1, DelayBounds
    <3>3. longest + StartDelay + 2 * JitDelay + MarginDelay <= Stride(longest)
      BY SteadyFacts DEF Stride
    <3>4. Until(p) = Until(nodes[i]) + nodes[i].post + StartDelay + 2 * JitDelay + MarginDelay
      BY <1>2, <2>3 DEF Until
    <3> QED
      BY <2>3, <3>1, <3>2, <3>3, <3>4, SteadyFacts
  <2>4. \/ c = Plus(down.time, 2 * JitDelay)
        \/ \E i \in DOMAIN nodes :
             /\ Until(nodes[i]) <= Horizon(longest) - Stride(longest)
             /\ Ahead(c, jit.time) = Until(nodes[i]) + nodes[i].post
                                          + StartDelay + 2 * JitDelay + MarginDelay
    BY <2>1, AsapOffset
  <2> QED
    BY <1>2, <2>2, <2>3, <2>4
<1> QED
  BY <1>4, <1>5, <1>6, QueueAssumption DEF Kinds

\* The queue after an insertion: the newcomer and every node it held, in the order
\* of their departures.
LEMMA AcceptedArray ==
    ASSUME NEW longest, Steady(longest), Known(longest), NEW p \in Node, Accept(p),
           -(MaxDownLag + 2 * MaxPeekGap) <= Until(p), Until(p) <= Horizon(longest)
    PROVE  /\ nodes' \in Seq(Node) /\ Len(nodes') = Len(nodes) + 1 /\ jit' = jit
           /\ \E f \in [DOMAIN nodes' -> 1 .. Len(nodes) + 1] :
                /\ \A i, j \in DOMAIN nodes' : f[i] = f[j] => i = j
                /\ \A j \in 1 .. Len(nodes) + 1 : \E i \in DOMAIN nodes' : f[i] = j
                /\ \A i \in DOMAIN nodes' :
                     \/ f[i] = Len(nodes) + 1 /\ nodes'[i] = p
                     \/ f[i] \in DOMAIN nodes /\ nodes'[i] = nodes[f[i]]
           /\ \A i, j \in DOMAIN nodes' : i < j => Until(nodes'[i]) < Until(nodes'[j])
<1> DEFINE w == Append(nodes, p)
           n == Len(nodes)
           t == nodes'
<1>1. nodes \in Seq(Node) /\ n \in Nat /\ DOMAIN nodes = 1 .. n /\ jit.time \in Counter
  BY DEF Known, TypeOK
<1>2. /\ w \in Seq(Node) /\ Len(w) = n + 1 /\ DOMAIN w = 1 .. n + 1
      /\ w[n + 1] = p /\ \A i \in 1 .. n : w[i] = nodes[i]
  BY <1>1
<1>3. t \in Arrangements(w) /\ jit' = jit
  BY DEF Accept
<1>4. \A i, j \in DOMAIN t : i # j => Apart(t[i], t[j])
  <2>1. NoOverlap'
    BY AcceptApart DEF Known
  <2> QED
    BY <2>1 DEF NoOverlap, Apart, Lead
<1> HIDE DEF w, t
<1>5. /\ t \in Seq(Node) /\ Len(t) = n + 1 /\ DOMAIN t = 1 .. n + 1
      /\ \A i \in 1 .. Len(t) - 1 : NotAfter(t[i], t[i + 1])
      /\ \E f \in [DOMAIN t -> DOMAIN w] :
            /\ \A i, j \in DOMAIN t : f[i] = f[j] => i = j
            /\ \A i \in DOMAIN t : t[i] = w[f[i]]
            /\ \A j \in DOMAIN w : \E i \in DOMAIN t : f[i] = j
  BY <1>2, <1>3, ArrangementMap
<1>6. PICK f \in [DOMAIN t -> DOMAIN w] :
            /\ \A i, j \in DOMAIN t : f[i] = f[j] => i = j
            /\ \A i \in DOMAIN t : t[i] = w[f[i]]
            /\ \A j \in DOMAIN w : \E i \in DOMAIN t : f[i] = j
  BY <1>5
<1>7. \A i \in DOMAIN t : \/ f[i] = n + 1 /\ t[i] = p
                          \/ f[i] \in DOMAIN nodes /\ t[i] = nodes[f[i]]
  <2> SUFFICES ASSUME NEW i \in DOMAIN t
               PROVE  \/ f[i] = n + 1 /\ t[i] = p
                      \/ f[i] \in DOMAIN nodes /\ t[i] = nodes[f[i]]
    OBVIOUS
  <2>1. f[i] \in 1 .. n + 1 /\ t[i] = w[f[i]]
    BY <1>2, <1>6
  <2>2. f[i] = n + 1 \/ f[i] \in 1 .. n
    BY <1>1, <2>1
  <2> QED
    BY <1>1, <1>2, <2>1, <2>2
<1>8. \A i \in DOMAIN t : /\ -(MaxDownLag + 2 * MaxPeekGap) <= Ahead(t[i].count, jit.time)
                          /\ Ahead(t[i].count, jit.time) <= Horizon(longest)
  <2> SUFFICES ASSUME NEW i \in DOMAIN t
               PROVE  /\ -(MaxDownLag + 2 * MaxPeekGap) <= Until(t[i])
                      /\ Until(t[i]) <= Horizon(longest)
    BY DEF Until
  <2>1. CASE t[i] = p
    BY <2>1
  <2>2. CASE f[i] \in DOMAIN nodes /\ t[i] = nodes[f[i]]
    <3>1. /\ Until(nodes[f[i]]) \in Int
          /\ -(Late + 2 * MaxPeekGap) <= Until(nodes[f[i]])
          /\ Until(nodes[f[i]]) <= Horizon(longest)
      BY <2>2, Nearby
    <3> QED
      BY <2>2, <3>1, SteadyFacts
  <2> QED
    BY <1>7, <2>1, <2>2
<1>9. \A i, j \in DOMAIN t : i < j => Until(t[i]) < Until(t[j])
  <2> DEFINE low == -(MaxDownLag + 2 * MaxPeekGap)
             high == Horizon(longest)
  <2>1. low \in Int /\ high \in Int /\ 2 * (high - low) < Wrap
    BY SteadyFacts
  <2>2. \A i \in DOMAIN t : low <= Ahead(t[i].count, jit.time)
                            /\ Ahead(t[i].count, jit.time) <= high
    BY <1>8
  <2> HIDE DEF low, high
  <2>3. \A i, j \in DOMAIN t :
           i < j => Ahead(t[i].count, jit.time) < Ahead(t[j].count, jit.time)
    BY <1>1, <1>4, <1>5, <2>1, <2>2, SortedByOffset
  <2> QED
    BY <2>3 DEF Until
<1> QED
  BY <1>2, <1>3, <1>5, <1>6, <1>7, <1>9, ZenonT(40) DEF t

\* The bounds from below hold for the new array when they hold for the newcomer.
LEMMA AcceptBounds ==
    ASSUME NEW longest, Steady(longest), Known(longest), NEW p \in Node, Accept(p),
           -(MaxDownLag + 2 * MaxPeekGap) <= Until(p), Until(p) <= Horizon(longest),
           NEW x \in Int, Until(p) >= x
    PROVE  (Above(x) => Above(x)') /\ (OneBelow(x) => OneBelow(x)')
<1>1. jit' = jit
  BY AcceptedArray
<1>2. PICK f \in [DOMAIN nodes' -> 1 .. Len(nodes) + 1] :
         /\ \A i, j \in DOMAIN nodes' : f[i] = f[j] => i = j
         /\ \A i \in DOMAIN nodes' :
              \/ f[i] = Len(nodes) + 1 /\ nodes'[i] = p
              \/ f[i] \in DOMAIN nodes /\ nodes'[i] = nodes[f[i]]
  BY AcceptedArray
<1>3. Above(x) => \A i \in DOMAIN nodes' : Until(nodes'[i]) >= x
  BY <1>2 DEF Above
<1>4. OneBelow(x) => \A i, j \in DOMAIN nodes' :
                        i # j => Until(nodes'[i]) >= x \/ Until(nodes'[j]) >= x
  <2> SUFFICES ASSUME OneBelow(x), NEW i \in DOMAIN nodes', NEW j \in DOMAIN nodes', i # j
               PROVE  Until(nodes'[i]) >= x \/ Until(nodes'[j]) >= x
    OBVIOUS
  <2>1. f[i] # f[j]
    BY <1>2
  <2> QED
    BY <1>2, <2>1 DEF OneBelow
<1> QED
  BY <1>1, <1>3, <1>4 DEF Above, OneBelow, Until

\* Every bound but the types and the distances, which are kept by lemmas above.
Offsets(longest) == Sorted /\ Clocks /\ Lows /\ Highs(longest) /\ Candidate

\* A newcomer is at most Late behind the counter, or as far behind as a node is and
\* one gap of thread_jit less.
LEMMA NewcomerLow ==
    ASSUME NEW longest, Steady(longest), Known(longest), NEW p, Until(p) \in Int,
           \/ Until(p) >= StartDelay + MarginDelay + JitDelay + 1 - MaxDownLag
           \/ \E i \in DOMAIN nodes :
                 Until(p) >= Until(nodes[i]) + StartDelay + 2 * JitDelay + MarginDelay
    PROVE  /\ Resting => Until(p) >= -Late
           /\ AboutToScan => Until(p) >= -(Late + MaxPeekGap)
           /\ -(MaxDownLag + 2 * MaxPeekGap) <= Until(p)
<1>1. CASE Until(p) >= StartDelay + MarginDelay + JitDelay + 1 - MaxDownLag
  BY <1>1, SteadyFacts
<1>2. ASSUME NEW i \in DOMAIN nodes,
             Until(p) >= Until(nodes[i]) + StartDelay + 2 * JitDelay + MarginDelay
      PROVE  /\ Resting => Until(p) >= -Late
             /\ AboutToScan => Until(p) >= -(Late + MaxPeekGap)
             /\ -(MaxDownLag + 2 * MaxPeekGap) <= Until(p)
  <2>1. Until(nodes[i]) \in Int /\ -(Late + 2 * MaxPeekGap) <= Until(nodes[i])
    BY Nearby
  <2>2. Resting => Until(nodes[i]) >= -(Late + MaxPeekGap)
    BY DEF Known, Lows, Above
  <2> QED
    BY <1>2, <2>1, <2>2, SteadyFacts
<1> QED
  BY <1>1, <1>2

\* An insertion keeps them.
LEMMA AcceptOffsets ==
    ASSUME NEW longest, Steady(longest), Known(longest), down.pc = "room", Unlocked,
           NEW p \in Node, Accept(p), Until(p) \in Int, Until(p) <= Horizon(longest),
           \/ Until(p) >= StartDelay + MarginDelay + JitDelay + 1 - MaxDownLag
           \/ \E i \in DOMAIN nodes :
                 Until(p) >= Until(nodes[i]) + StartDelay + 2 * JitDelay + MarginDelay
    PROVE  Offsets(longest)'
<1>1. /\ Resting => Until(p) >= -Late
      /\ AboutToScan => Until(p) >= -(Late + MaxPeekGap)
      /\ -(MaxDownLag + 2 * MaxPeekGap) <= Until(p)
  BY NewcomerLow
<1>2. /\ nodes' \in Seq(Node) /\ Len(nodes') = Len(nodes) + 1 /\ jit' = jit
      /\ \A i, j \in DOMAIN nodes' : i < j => Until(nodes'[i]) < Until(nodes'[j])
  BY <1>1, AcceptedArray
<1>3. PICK f \in [DOMAIN nodes' -> 1 .. Len(nodes) + 1] :
         \A i \in DOMAIN nodes' :
              \/ f[i] = Len(nodes) + 1 /\ nodes'[i] = p
              \/ f[i] \in DOMAIN nodes /\ nodes'[i] = nodes[f[i]]
  BY <1>1, AcceptedArray
<1>4. jit.pc # "scan" /\ now' = now /\ down'.pc = "idle"
  BY DEF Unlocked, Accept
<1>5. Sorted'
  BY <1>2 DEF Sorted, Until
<1>6. Clocks'
  BY <1>2, <1>4 DEF Known, Clocks
<1>7. Highs(longest)'
  <2>1. \A i \in DOMAIN nodes' : Until(nodes'[i]) <= Horizon(longest)
    BY <1>3 DEF Known, Highs
  <2> QED
    BY <1>2, <2>1 DEF Highs, Until
<1>8. Lows'
  <2>1. Late \in Int /\ MaxPeekGap \in Nat /\ Late + MaxPeekGap \in Int
        /\ -Late \in Int /\ -(Late + MaxPeekGap) \in Int /\ -(Late + 2 * MaxPeekGap) \in Int
    <3>1. Late \in Nat /\ MaxPeekGap \in Nat
      BY SteadyFacts
    <3> QED
      BY <3>1
  <2>2. CASE Resting
    <3>1. Until(p) >= -Late /\ Until(p) >= -(Late + MaxPeekGap)
      BY <1>1, <2>1, <2>2
    <3>2. Above(-(Late + MaxPeekGap))'
      BY <1>1, <2>1, <2>2, <3>1, AcceptBounds DEF Known, Lows
    <3>3. OneBelow(-Late)'
      BY <1>1, <2>1, <2>2, <3>1, AcceptBounds DEF Known, Lows
    <3>4. Resting' /\ ~AboutToScan' /\ ~Scanning'
      BY <1>2, <2>2 DEF Resting, AboutToScan, Scanning
    <3> QED
      BY <3>2, <3>3, <3>4 DEF Lows
  <2>3. CASE AboutToScan
    <3>1. Until(p) >= -(Late + 2 * MaxPeekGap) /\ Until(p) >= -(Late + MaxPeekGap)
      BY <1>1, <2>1, <2>3
    <3>2. Above(-(Late + 2 * MaxPeekGap))'
      BY <1>1, <2>1, <2>3, <3>1, AcceptBounds DEF Known, Lows
    <3>3. OneBelow(-(Late + MaxPeekGap))'
      BY <1>1, <2>1, <2>3, <3>1, AcceptBounds DEF Known, Lows
    <3>4. AboutToScan' /\ ~Resting' /\ ~Scanning'
      BY <1>2, <1>4, <2>3 DEF Resting, AboutToScan, Scanning
    <3> QED
      BY <3>2, <3>3, <3>4 DEF Lows
  <2>4. Resting \/ AboutToScan
    BY <1>4 DEF Known, TypeOK, Resting, AboutToScan
  <2> QED
    BY <2>2, <2>3, <2>4
<1>9. Candidate'
  <2>1. DOMAIN nodes \subseteq DOMAIN nodes'
    BY <1>2 DEF Known, TypeOK
  <2> QED
    BY <1>2, <1>4, <2>1 DEF Known, Candidate
<1> QED
  BY <1>5, <1>6, <1>7, <1>8, <1>9 DEF Offsets

-----------------------------------------------------------------------------
(* A removal.                                                                *)

\* The queue after a removal: every node but the one removed, in the order of their
\* departures.
LEMMA RemovedArray ==
    ASSUME NEW longest, Steady(longest), Known(longest), NEW k \in DOMAIN nodes, Remove(k)
    PROVE  /\ nodes' \in Seq(Node) /\ Len(nodes') = Len(nodes) - 1
           /\ \E f \in [DOMAIN nodes' -> DOMAIN nodes] :
                /\ \A i, j \in DOMAIN nodes' : f[i] = f[j] => i = j
                /\ \A i \in DOMAIN nodes' : nodes'[i] = nodes[f[i]] /\ f[i] # k
                /\ \A j \in DOMAIN nodes : j # k => \E i \in DOMAIN nodes' : f[i] = j
           /\ \A i, j \in DOMAIN nodes' : i < j => Until(nodes'[i]) < Until(nodes'[j])
<1> DEFINE t == nodes'
<1>1. nodes \in Seq(Node) /\ jit.time \in Counter
  BY DEF Known, TypeOK
<1>2. t \in Arrangements(WithoutNode(nodes, k))
  BY DEF Remove
<1>3. \A i, j \in DOMAIN t : i # j => Apart(t[i], t[j])
  <2>1. k \in Nat /\ TypeOK /\ NoOverlap
    BY <1>1 DEF Known
  <2>2. NoOverlap'
    BY <2>1, RemoveApart
  <2> QED
    BY <2>2 DEF NoOverlap, Apart, Lead
<1> HIDE DEF t
<1>4. /\ t \in Seq(Node) /\ Len(t) = Len(nodes) - 1
      /\ \A i \in 1 .. Len(t) - 1 : NotAfter(t[i], t[i + 1])
      /\ \E f \in [DOMAIN t -> DOMAIN nodes] :
            /\ \A i, j \in DOMAIN t : f[i] = f[j] => i = j
            /\ \A i \in DOMAIN t : t[i] = nodes[f[i]] /\ f[i] # k
            /\ \A j \in DOMAIN nodes : j # k => \E i \in DOMAIN t : f[i] = j
  BY <1>1, <1>2, RemovalMap
<1>5. PICK f \in [DOMAIN t -> DOMAIN nodes] : \A i \in DOMAIN t : t[i] = nodes[f[i]]
  BY <1>4
<1>6. \A i, j \in DOMAIN t : i < j => Until(t[i]) < Until(t[j])
  <2> DEFINE low == -(Late + 2 * MaxPeekGap)
             high == Horizon(longest)
  <2>1. low \in Int /\ high \in Int /\ 2 * (high - low) < Wrap
    BY SteadyFacts
  <2>2. \A i \in DOMAIN t : low <= Ahead(t[i].count, jit.time)
                            /\ Ahead(t[i].count, jit.time) <= high
    BY <1>5, Nearby DEF Until
  <2> HIDE DEF low, high
  <2>3. \A i, j \in DOMAIN t :
           i < j => Ahead(t[i].count, jit.time) < Ahead(t[j].count, jit.time)
    BY <1>1, <1>3, <1>4, <2>1, <2>2, SortedByOffset
  <2> QED
    BY <2>3 DEF Until
<1> QED
  BY <1>4, <1>6 DEF t

\* What bounds the nodes before a removal bounds them after it.
LEMMA RemoveBounds ==
    ASSUME NEW longest, Steady(longest), Known(longest), NEW k \in DOMAIN nodes, Remove(k),
           jit'.time = jit.time, NEW x \in Int
    PROVE  /\ Above(x) => Above(x)'
           /\ OneBelow(x) => OneBelow(x)'
           /\ OneBelow(x) /\ k = 1 => Above(x)'
           /\ Sorted' /\ Highs(longest)'
<1>1. PICK f \in [DOMAIN nodes' -> DOMAIN nodes] :
         /\ \A i, j \in DOMAIN nodes' : f[i] = f[j] => i = j
         /\ \A i \in DOMAIN nodes' : nodes'[i] = nodes[f[i]] /\ f[i] # k
  BY RemovedArray
<1>2. Above(x) => \A i \in DOMAIN nodes' : Until(nodes'[i]) >= x
  BY <1>1 DEF Above
<1>3. OneBelow(x) => \A i, j \in DOMAIN nodes' :
                        i # j => Until(nodes'[i]) >= x \/ Until(nodes'[j]) >= x
  BY <1>1 DEF OneBelow
<1>4. ASSUME OneBelow(x), k = 1, NEW i \in DOMAIN nodes'
      PROVE  Until(nodes'[i]) >= x
  <2>1. f[i] \in DOMAIN nodes /\ 1 \in DOMAIN nodes /\ f[i] # 1
    BY <1>1, <1>4
  <2>2. Until(nodes[f[i]]) >= x \/ Until(nodes[1]) >= x
    BY <1>4, <2>1 DEF OneBelow
  <2>3. Until(nodes[1]) < Until(nodes[f[i]])
    <3>1. 1 < f[i]
      BY <2>1 DEF Known, TypeOK
    <3> QED
      BY <2>1, <3>1 DEF Known, Sorted
  <2>4. Until(nodes[1]) \in Int /\ Until(nodes[f[i]]) \in Int
    BY <2>1, Nearby
  <2>5. Until(nodes[f[i]]) >= x
    BY <2>2, <2>3, <2>4
  <2> QED
    BY <1>1, <2>5
<1>5. \A i \in DOMAIN nodes' : Until(nodes'[i]) <= Horizon(longest)
  BY <1>1 DEF Known, Highs
<1>6. \A i, j \in DOMAIN nodes' : i < j => Until(nodes'[i]) < Until(nodes'[j])
  BY RemovedArray
<1> QED
  BY <1>2, <1>3, <1>4, <1>5, <1>6 DEF Above, OneBelow, Sorted, Highs, Until

\* The two soonest nodes stay where they are when a later one is removed.
LEMMA RemoveLater ==
    ASSUME NEW longest, Steady(longest), Known(longest), NEW k \in DOMAIN nodes, Remove(k),
           NEW b \in {1, 2}, b < k
    PROVE  b \in DOMAIN nodes' /\ nodes'[b] = nodes[b]
<1> DEFINE t == nodes'
           n == Len(nodes)
<1>1. n \in Nat /\ DOMAIN nodes = 1 .. n /\ \A i \in 1 .. n : Until(nodes[i]) \in Int
  BY Nearby DEF Known, TypeOK
<1>2. t \in Seq(Node) /\ Len(t) = n - 1
  BY RemovedArray
<1>3. DOMAIN t = 1 .. n - 1 /\ b \in DOMAIN t
  BY <1>1, <1>2
<1>4. PICK f \in [DOMAIN t -> DOMAIN nodes] :
         /\ \A i, j \in DOMAIN t : f[i] = f[j] => i = j
         /\ \A i \in DOMAIN t : t[i] = nodes[f[i]] /\ f[i] # k
         /\ \A j \in DOMAIN nodes : j # k => \E i \in DOMAIN t : f[i] = j
  BY RemovedArray
<1>5. \A i, j \in DOMAIN t : i < j => Until(t[i]) < Until(t[j])
  BY RemovedArray
<1>6. \A i, j \in DOMAIN nodes : i < j => Until(nodes[i]) < Until(nodes[j])
  BY DEF Known, Sorted
<1> HIDE DEF t, n
\* The map of positions ascends, because both arrays do.
<1>7. \A i, j \in DOMAIN t : i < j => f[i] < f[j]
  <2> SUFFICES ASSUME NEW i \in DOMAIN t, NEW j \in DOMAIN t, i < j, ~(f[i] < f[j])
               PROVE  FALSE
    OBVIOUS
  <2>1. f[i] \in 1 .. n /\ f[j] \in 1 .. n /\ i # j
    BY <1>1, <1>3, <1>4
  <2>2. f[j] < f[i]
    BY <1>4, <2>1
  <2>3. Until(nodes[f[j]]) < Until(nodes[f[i]])
    BY <1>1, <1>6, <2>1, <2>2
  <2>4. Until(nodes[f[i]]) < Until(nodes[f[j]])
    BY <1>4, <1>5
  <2> QED
    BY <1>1, <2>1, <2>3, <2>4
<1>8. \A i \in DOMAIN t : f[i] \in 1 .. n
  BY <1>1, <1>4
<1>9. PICK m \in DOMAIN t : f[m] = 1
  BY <1>1, <1>3, <1>4, SMTT(30)
<1>10. 1 \in DOMAIN t /\ f[1] = 1
  <2>1. 1 \in DOMAIN t
    BY <1>1, <1>3
  <2>2. m = 1
    BY <1>3, <1>7, <1>8, <1>9, <2>1
  <2> QED
    BY <1>9, <2>1, <2>2
<1>11. CASE b = 2
  <2>0. 2 \in DOMAIN nodes /\ 2 # k
    BY <1>1, <1>11
  <2>1. PICK h \in DOMAIN t : f[h] = 2
    BY <1>4, <2>0
  <2>2. 2 \in DOMAIN t
    BY <1>3, <1>11
  <2>3. h = 2
    <3>1. h # 1
      BY <1>10, <2>1
    <3>2. ~(2 < h)
      <4>1. f[1] < f[2]
        BY <1>7, <1>10, <2>2
      <4>2. 2 < h => f[2] < f[h]
        BY <1>7, <2>2
      <4> QED
        BY <1>8, <1>10, <2>1, <2>2, <4>1, <4>2
    <3> QED
      BY <1>3, <3>1, <3>2
  <2> QED
    BY <1>3, <1>4, <1>11, <2>1, <2>3 DEF t
<1>12. CASE b = 1
  BY <1>3, <1>4, <1>10, <1>12 DEF t
<1> QED
  BY <1>11, <1>12

-----------------------------------------------------------------------------
(* The other steps.                                                          *)

\* jit_enqueue refuses, or is on its way: only the readings of the counter change.
LEMMA DownOffsets ==
    ASSUME NEW longest, Steady(longest), Known(longest), UNCHANGED <<nodes, jit>>,
           Clocks'
    PROVE  Offsets(longest)'
BY DEF Known, Offsets, Sorted, Lows, Highs, Candidate, Above, OneBelow, Until,
       Resting, AboutToScan, Scanning

\* Time passes, within the bounds of the two tasks.
LEMMA TickClocks ==
    ASSUME NEW longest, Steady(longest), Known(longest), Tick
    PROVE  Clocks'
<1>1. /\ down.pc # "idle" => Minus(now, down.time) < MaxDownLag
      /\ Minus(now, jit.time) < MaxPeekGap
      /\ now' = Plus(now, 1) /\ UNCHANGED <<down, jit>>
  BY DEF Tick
<1>2. now \in Counter /\ down.time \in Counter /\ jit.time \in Counter
  BY ClockOffsets
<1>3. Wrap \in Nat /\ 2 * MaxPeekGap < Wrap /\ 2 * MaxDownLag < Wrap
      /\ MaxPeekGap \in Nat /\ MaxDownLag \in Nat
  BY SteadyFacts
<1>4. \A t \in Counter : \A bound \in Nat :
         2 * bound < Wrap /\ Minus(now, t) < bound => Minus(Plus(now, 1), t) <= bound
  <2> SUFFICES ASSUME NEW t \in Counter, NEW bound \in Nat,
                      2 * bound < Wrap, Minus(now, t) < bound
               PROVE  Minus(Plus(now, 1), t) <= bound
    OBVIOUS
  <2>1. /\ now \in Int /\ t \in Int /\ 0 <= now /\ now < Wrap /\ 0 <= t /\ t < Wrap
    BY <1>2, <1>3 DEF Counter
  <2> QED
    BY <1>3, <2>1 DEF Minus, Plus
<1> QED
  BY <1>1, <1>2, <1>3, <1>4 DEF Clocks

\* thread_jit reads the counter: every departure draws nearer by the time that passed.
LEMMA ReadShift ==
    ASSUME NEW longest, Steady(longest), Known(longest), Resting, NEW i \in DOMAIN nodes
    PROVE  /\ Until(nodes[i]) \in Int
           /\ Ahead(nodes[i].count, now) = Until(nodes[i]) - Minus(now, jit.time)
<1>1. /\ nodes[i].count \in Counter /\ jit.time \in Counter
      /\ Until(nodes[i]) \in Int
      /\ -(Late + 2 * MaxPeekGap) <= Until(nodes[i])
  BY Nearby
<1>2. -(Late + MaxPeekGap) <= Until(nodes[i])
  BY <1>1 DEF Known, Lows, Above
<1>3. now \in Counter /\ Minus(now, jit.time) \in 0 .. MaxPeekGap
  BY ClockOffsets
<1>4. -Wrap <= 2 * (Until(nodes[i]) - Minus(now, jit.time))
  BY <1>1, <1>2, <1>3, SteadyFacts
<1> QED
  BY <1>1, <1>3, <1>4, AheadShift DEF Until

\* The bounds move by less than the gap.
LEMMA ReadOffsets ==
    ASSUME NEW longest, Steady(longest), Known(longest), JitReadCounter
    PROVE  Offsets(longest)'
<1> DEFINE g == Minus(now, jit.time)
<1>1. /\ jit.pc = "idle" /\ jit' = [jit EXCEPT !.pc = "timed", !.time = now]
      /\ UNCHANGED <<now, nodes, num_beacon, down, verdict>>
  BY DEF JitReadCounter
<1>2. jit'.pc = "timed" /\ jit'.time = now /\ jit'.pkt = jit.pkt
  BY <1>1 DEF Known, TypeOK
<1>3. /\ g \in Nat /\ g <= MaxPeekGap /\ now \in Counter /\ MaxPeekGap \in Nat /\ Late \in Nat
      /\ Resting
  BY <1>1, ClockOffsets, SteadyFacts DEF Resting
<1>4. \A i \in DOMAIN nodes :
         /\ Until(nodes[i]) \in Int
         /\ Ahead(nodes[i].count, now) = Until(nodes[i]) - g
  BY <1>3, ReadShift
<1> HIDE DEF g
<1>5. Sorted'
  BY <1>1, <1>2, <1>3, <1>4 DEF Known, Sorted, Until
<1>6. Highs(longest)'
  <2>1. Horizon(longest) \in Nat
    BY SteadyFacts
  <2> QED
    BY <1>1, <1>2, <1>3, <1>4, <2>1 DEF Known, Highs, Until
<1>7. Above(-(Late + 2 * MaxPeekGap))'
  <2>1. Above(-(Late + MaxPeekGap))
    BY <1>3 DEF Known, Lows
  <2> QED
    BY <1>1, <1>2, <1>3, <1>4, <2>1 DEF Above, Until
<1>8. OneBelow(-(Late + MaxPeekGap))'
  <2>1. OneBelow(-Late)
    BY <1>3 DEF Known, Lows
  <2> QED
    BY <1>1, <1>2, <1>3, <1>4, <2>1 DEF OneBelow, Until
<1>9. Lows'
  BY <1>2, <1>7, <1>8 DEF Lows, Resting, AboutToScan, Scanning
<1>10. Candidate'
  BY <1>1, <1>2 DEF Known, Candidate
<1>11. Clocks'
  <2>1. Minus(now, now) = 0
    BY <1>3, TimingAssumption DEF Minus, Counter
  <2> QED
    BY <1>1, <1>2, <1>3, <2>1 DEF Known, Clocks
<1> QED
  BY <1>5, <1>6, <1>9, <1>10, <1>11 DEF Offsets

\* What ~Outdated and Due say of a departure, as an offset.
LEMMA DueOffset ==
    ASSUME NEW longest, Steady(longest), NEW n \in Node, NEW t \in Counter
    PROVE  /\ ~Outdated(n, t) <=> 0 <= Ahead(n.count, t) /\ Ahead(n.count, t) < MaxAdvance
           /\ Due(n, t) <=> 0 <= Ahead(n.count, t) /\ Ahead(n.count, t) < JitDelay
<1>1. n.count \in Counter
  BY DelayType
<1>2. /\ Ahead(n.count, t) \in Int /\ -Wrap <= 2 * Ahead(n.count, t)
      /\ 2 * Ahead(n.count, t) < Wrap
      /\ Ahead(n.count, t) = Minus(n.count, t) \/ Ahead(n.count, t) = Minus(n.count, t) - Wrap
  BY <1>1, AheadType DEF Ahead
<1>3. Minus(n.count, t) \in Nat /\ Minus(n.count, t) < Wrap
  BY <1>1, PlusMinus
<1>4. 2 * MaxAdvance < Wrap /\ MaxAdvance \in Nat /\ 2 * JitDelay < Wrap /\ JitDelay \in Nat
      /\ Wrap \in Nat
  <2>1. 2 * JitDelay <= Horizon(longest) /\ 2 * JitDelay \in Nat
    BY SteadyFacts DEF Horizon
  <2> QED
    BY <2>1, SteadyFacts
<1> QED
  BY <1>2, <1>3, <1>4 DEF Outdated, Due

\* The scan begins, or there is nothing to scan.
LEMMA PeekBeginOffsets ==
    ASSUME NEW longest, Steady(longest), Known(longest), PeekBegin \/ PeekEmpty
    PROVE  Offsets(longest)'
<1>1. jit.pc = "timed" /\ nodes' = nodes /\ now' = now /\ down' = down
  BY DEF PeekBegin, PeekEmpty
<1>2. jit'.time = jit.time /\ jit'.pkt = jit.pkt
  BY DEF PeekBegin, PeekEmpty, Known, TypeOK
<1>3. Sorted' /\ Highs(longest)' /\ Clocks'
  BY <1>1, <1>2 DEF Known, Sorted, Highs, Clocks, Until
<1>4. CASE PeekBegin
  <2>1. jit'.pc = "scan" /\ jit'.i = 1 /\ jit'.best = 0
    BY <1>4 DEF PeekBegin, Known, TypeOK
  <2>2. AboutToScan /\ AboutToScan' /\ ~Resting' /\ ~Scanning'
    BY <1>1, <2>1 DEF AboutToScan, Resting, Scanning
  <2>3. Lows'
    BY <1>1, <1>2, <2>2 DEF Known, Lows, Above, OneBelow, Until
  <2>4. Candidate'
    BY <1>1, <1>2, <2>1 DEF Known, Candidate
  <2> QED
    BY <1>3, <2>3, <2>4 DEF Offsets
<1>5. CASE PeekEmpty
  <2>1. jit'.pc = "idle" /\ DOMAIN nodes' = {}
    BY <1>5 DEF PeekEmpty, Known, TypeOK
  <2>2. Lows'
    BY <2>1 DEF Lows, Above, OneBelow, AboutToScan, Scanning
  <2>3. Candidate'
    BY <1>1, <1>2, <2>1 DEF Known, Candidate
  <2> QED
    BY <1>3, <2>2, <2>3 DEF Offsets
<1> QED
  BY <1>4, <1>5

\* No later node is sooner than the candidate: once there is one, it stays.
LEMMA KeepsBest ==
    ASSUME NEW longest, Steady(longest), Known(longest), PeekKeep, jit.best # 0
    PROVE  jit'.best = jit.best
<1>1. /\ jit.pc = "scan" /\ jit.i <= Len(nodes) /\ ~Outdated(nodes[jit.i], jit.time)
      /\ jit'.best = IF Sooner(jit.i, jit.best) THEN jit.i ELSE jit.best
  BY DEF PeekKeep, Known, TypeOK
<1>2. /\ jit.i \in DOMAIN nodes /\ jit.best \in DOMAIN nodes /\ jit.best <= jit.i
      /\ jit.best \in Nat /\ jit.i \in Nat /\ 0 <= Until(nodes[jit.best])
  BY <1>1 DEF Known, TypeOK, Candidate
<1>3. \A j \in DOMAIN nodes : Until(nodes[j]) \in Int /\ nodes[j] \in Node
                              /\ nodes[j].count \in Counter /\ jit.time \in Counter
  BY Nearby
<1>4. 0 <= Until(nodes[jit.i])
  BY <1>1, <1>2, <1>3, DueOffset DEF Until
<1>5. \A j \in DOMAIN nodes :
         Until(nodes[j]) >= 0 => Minus(nodes[j].count, jit.time) = Until(nodes[j])
  <2> SUFFICES ASSUME NEW j \in DOMAIN nodes, Until(nodes[j]) >= 0
               PROVE  Minus(nodes[j].count, jit.time) = Until(nodes[j])
    OBVIOUS
  <2>1. /\ Minus(nodes[j].count, jit.time) \in Nat
        /\ Minus(nodes[j].count, jit.time) < Wrap
    BY <1>3, PlusMinus
  <2>2. Until(nodes[j]) # Minus(nodes[j].count, jit.time) - Wrap
    BY <2>1, TimingAssumption
  <2> QED
    BY <2>2 DEF Until, Ahead
<1>6. jit.best = jit.i \/ Until(nodes[jit.best]) < Until(nodes[jit.i])
  BY <1>2 DEF Known, Sorted
<1>7. ~(Until(nodes[jit.i]) < Until(nodes[jit.best]))
  BY <1>2, <1>3, <1>6
<1> QED
  BY <1>1, <1>2, <1>4, <1>5, <1>7 DEF Sooner

\* The scan passes a node.
LEMMA PeekKeepOffsets ==
    ASSUME NEW longest, Steady(longest), Known(longest), PeekKeep
    PROVE  Offsets(longest)'
<1>1. /\ jit.pc = "scan" /\ jit.i <= Len(nodes) /\ ~Outdated(nodes[jit.i], jit.time)
      /\ nodes' = nodes /\ now' = now /\ down' = down
  BY DEF PeekKeep
<1>2. /\ jit'.pc = "scan" /\ jit'.time = jit.time /\ jit'.i = jit.i + 1 /\ jit'.pkt = jit.pkt
      /\ jit'.best = IF Sooner(jit.i, jit.best) THEN jit.i ELSE jit.best
  BY DEF PeekKeep, Known, TypeOK
<1>3. /\ jit.i \in 1 .. Len(nodes) /\ jit.i \in DOMAIN nodes /\ Len(nodes) \in Nat
      /\ DOMAIN nodes = 1 .. Len(nodes) /\ jit.best \in Nat /\ jit.i \in Nat
  BY <1>1 DEF Known, TypeOK, Candidate
<1>4. \A j \in DOMAIN nodes : Until(nodes[j]) \in Int /\ nodes[j] \in Node
                              /\ nodes[j].count \in Counter /\ jit.time \in Counter
  BY Nearby
<1>5. 0 <= Until(nodes[jit.i]) /\ Until(nodes[jit.i]) < MaxAdvance
  BY <1>1, <1>3, <1>4, DueOffset DEF Until
<1>6. Sorted' /\ Highs(longest)' /\ Clocks'
  BY <1>1, <1>2 DEF Known, Sorted, Highs, Clocks, Until
<1>7. Scanning' /\ ~AboutToScan' /\ ~Resting'
  BY <1>2, <1>3 DEF Scanning, AboutToScan, Resting
<1>8. Late \in Nat /\ MaxPeekGap \in Nat
  BY SteadyFacts
<1>9. Above(-(Late + MaxPeekGap))
  <2>1. CASE Scanning
    BY <2>1 DEF Known, Lows
  <2>2. CASE jit.i = 1
    <3> SUFFICES ASSUME NEW j \in DOMAIN nodes
                 PROVE  Until(nodes[j]) >= -(Late + MaxPeekGap)
      BY DEF Above
    <3>1. j = 1 \/ Until(nodes[1]) < Until(nodes[j])
      BY <1>3, <2>2 DEF Known, Sorted
    <3> QED
      BY <1>3, <1>4, <1>5, <1>8, <2>2, <3>1
  <2> QED
    BY <1>1, <1>3, <2>1, <2>2 DEF Scanning
<1>10. \A j \in DOMAIN nodes : 2 <= j /\ j < jit.i + 1 => Until(nodes[j]) >= 0
  <2> SUFFICES ASSUME NEW j \in DOMAIN nodes, 2 <= j, j < jit.i + 1
               PROVE  Until(nodes[j]) >= 0
    OBVIOUS
  <2>1. CASE j = jit.i
    BY <1>5, <1>4, <2>1
  <2>2. CASE j # jit.i
    <3>1. j < jit.i /\ Scanning
      BY <1>1, <1>3, <2>2 DEF Scanning
    <3> QED
      BY <3>1 DEF Known, Lows
  <2> QED
    BY <2>1, <2>2
<1>11. Lows'
  BY <1>1, <1>2, <1>7, <1>9, <1>10 DEF Lows, Above, Until
<1>12. jit'.best \in {1, 2} /\ jit'.best <= jit.i /\ jit'.best \in DOMAIN nodes
       /\ 0 <= Until(nodes[jit'.best]) /\ Until(nodes[jit'.best]) < MaxAdvance
  <2>1. CASE jit.best = 0
    <3>1. jit'.best = jit.i /\ jit.i <= 2
      BY <1>1, <1>2, <2>1 DEF Known, Candidate, Sooner
    <3> QED
      BY <1>3, <1>5, <3>1
  <2>2. CASE jit.best # 0
    <3>1. /\ jit.best \in {1, 2} /\ jit.best <= jit.i /\ jit.best \in DOMAIN nodes
          /\ 0 <= Until(nodes[jit.best]) /\ Until(nodes[jit.best]) < MaxAdvance
      BY <1>1, <1>3, <2>2 DEF Known, Candidate
    <3>2. jit'.best = jit.best
      BY <2>2, KeepsBest
    <3> QED
      BY <3>1, <3>2
  <2> QED
    BY <2>1, <2>2
<1>13. Candidate'
  BY <1>1, <1>2, <1>3, <1>12 DEF Known, Candidate, Until
<1> QED
  BY <1>6, <1>11, <1>13 DEF Offsets

\* The scan ends: what it passed lies ahead.
LEMMA PeekEndOffsets ==
    ASSUME NEW longest, Steady(longest), Known(longest), PeekEnd
    PROVE  Offsets(longest)'
<1>1. /\ jit.pc = "scan" /\ jit.i > Len(nodes)
      /\ nodes' = nodes /\ now' = now /\ down' = down
  BY DEF PeekEnd
<1>2. /\ jit'.time = jit.time /\ jit'.pkt = jit.pkt
      /\ \/ jit'.pc = "peeked" /\ jit'.best = jit.best /\ jit.best # 0
         \/ jit'.pc = "idle"
  BY DEF PeekEnd, Known, TypeOK
<1>3. Len(nodes) \in Nat /\ DOMAIN nodes = 1 .. Len(nodes) /\ jit.i \in Nat
  BY DEF Known, TypeOK
<1>4. Sorted' /\ Highs(longest)' /\ Clocks'
  BY <1>1, <1>2 DEF Known, Sorted, Highs, Clocks, Until
<1>5. Resting' /\ ~AboutToScan' /\ ~Scanning'
  BY <1>2 DEF Resting, AboutToScan, Scanning
<1>6. Late \in Nat /\ MaxPeekGap \in Nat
  BY SteadyFacts
<1>7. \A i \in DOMAIN nodes : i >= 2 => Until(nodes[i]) >= 0
  <2> SUFFICES ASSUME NEW i \in DOMAIN nodes, i >= 2
               PROVE  Until(nodes[i]) >= 0
    OBVIOUS
  <2>1. i < jit.i /\ Scanning
    BY <1>1, <1>3 DEF Scanning
  <2> QED
    BY <2>1 DEF Known, Lows
<1>8. Above(-(Late + MaxPeekGap))
  <2>1. CASE Scanning
    BY <2>1 DEF Known, Lows
  <2>2. CASE jit.i = 1
    BY <1>1, <1>3, <2>2 DEF Above
  <2> QED
    BY <1>1, <1>3, <2>1, <2>2 DEF Scanning, Known, Candidate
<1>9. OneBelow(-Late)
  <2> SUFFICES ASSUME NEW i \in DOMAIN nodes, NEW j \in DOMAIN nodes, i # j
               PROVE  Until(nodes[i]) >= -Late \/ Until(nodes[j]) >= -Late
    BY DEF OneBelow
  <2>1. i >= 2 \/ j >= 2
    BY <1>3
  <2>2. Until(nodes[i]) \in Int /\ Until(nodes[j]) \in Int
    BY Nearby
  <2> QED
    BY <1>6, <1>7, <2>1, <2>2
<1>10. Lows'
  BY <1>1, <1>2, <1>5, <1>8, <1>9 DEF Lows, Above, OneBelow, Until
<1>11. Candidate'
  BY <1>1, <1>2 DEF Known, Candidate
<1> QED
  BY <1>4, <1>10, <1>11 DEF Offsets

\* thread_jit is through with a packet.
LEMMA ReleaseOffsets ==
    ASSUME NEW longest, Steady(longest), Known(longest), JitRelease
    PROVE  Offsets(longest)'
<1>1. /\ jit.pc = "picked" /\ nodes' = nodes /\ now' = now /\ down' = down
      /\ jit' = [jit EXCEPT !.pc = "idle", !.pkt = NoPkt]
  BY DEF JitRelease
<1>2. jit'.pc = "idle" /\ jit'.pkt = NoPkt /\ jit'.time = jit.time
  BY <1>1 DEF Known, TypeOK
<1>3. Resting /\ Resting' /\ ~AboutToScan' /\ ~Scanning'
  BY <1>1, <1>2 DEF Resting, AboutToScan, Scanning
<1>4. Lows'
  BY <1>1, <1>2, <1>3 DEF Known, Lows, Above, OneBelow, Until
<1> QED
  BY <1>1, <1>2, <1>4 DEF Known, Offsets, Sorted, Highs, Clocks, Candidate, Until

\* jit_peek drops a packet whose time was missed.  Of the first node nothing is known
\* but that one more gap has passed; what remains then lies as far as the second did.
LEMMA DropOffsets ==
    ASSUME NEW longest, Steady(longest), Known(longest), PeekDrop
    PROVE  Offsets(longest)'
<1>1. /\ jit.pc = "scan" /\ jit.i <= Len(nodes) /\ Outdated(nodes[jit.i], jit.time)
      /\ Remove(jit.i) /\ now' = now /\ down' = down
  BY DEF PeekDrop
<1>2. /\ jit'.pc = "scan" /\ jit'.i = 2 /\ jit'.time = jit.time
      /\ jit'.best = jit.best /\ jit'.pkt = jit.pkt
  BY DEF PeekDrop, Known, TypeOK
<1>3. /\ jit.i \in DOMAIN nodes /\ Len(nodes) \in Nat /\ DOMAIN nodes = 1 .. Len(nodes)
      /\ jit.best \in Nat /\ jit.i \in Nat
  BY <1>1 DEF Known, TypeOK, Candidate
<1>4. Late \in Nat /\ MaxPeekGap \in Nat /\ -(Late + MaxPeekGap) \in Int
  <2>1. Late \in Nat /\ MaxPeekGap \in Nat
    BY SteadyFacts
  <2> QED
    BY <2>1
<1>5. Sorted' /\ Highs(longest)'
  BY <1>1, <1>2, <1>3, <1>4, RemoveBounds
<1>6. Clocks'
  BY <1>1, <1>2 DEF Known, Clocks
<1>7. Above(-(Late + MaxPeekGap))'
  <2>1. CASE jit.i = 1
    <3>1. OneBelow(-(Late + MaxPeekGap))
      BY <1>1, <2>1 DEF Known, Lows, AboutToScan
    <3> QED
      BY <1>1, <1>2, <1>3, <1>4, <2>1, <3>1, RemoveBounds
  <2>2. CASE jit.i # 1
    <3>1. Above(-(Late + MaxPeekGap))
      BY <1>1, <1>3, <2>2 DEF Known, Lows, Scanning
    <3> QED
      BY <1>1, <1>2, <1>3, <1>4, <3>1, RemoveBounds
  <2> QED
    BY <2>1, <2>2
<1>8. Lows'
  <2>1. Scanning' /\ ~AboutToScan' /\ ~Resting'
    BY <1>2 DEF Scanning, AboutToScan, Resting
  <2>2. \A j \in DOMAIN nodes' : ~(2 <= j /\ j < jit'.i)
    <3>1. nodes' \in Seq(Node)
      BY <1>1, <1>3, RemovedArray
    <3> QED
      BY <1>2, <3>1
  <2> QED
    BY <1>7, <2>1, <2>2 DEF Lows
<1>9. Candidate'
  <2>1. ASSUME jit.best # 0
        PROVE  /\ jit.best \in DOMAIN nodes' /\ nodes'[jit.best] = nodes[jit.best]
               /\ jit.best <= 2
               /\ 0 <= Until(nodes[jit.best]) /\ Until(nodes[jit.best]) < MaxAdvance
    <3>1. /\ jit.best \in {1, 2} /\ jit.best <= jit.i /\ jit.best \in DOMAIN nodes
          /\ 0 <= Until(nodes[jit.best]) /\ Until(nodes[jit.best]) < MaxAdvance
      BY <1>1, <1>3, <2>1 DEF Known, Candidate
    <3>2. nodes[jit.best] \in Node /\ jit.time \in Counter
      BY <3>1, Nearby
    <3>3. jit.best # jit.i
      BY <1>1, <3>1, <3>2, DueOffset DEF Until
    <3>4. jit.best < jit.i
      BY <1>3, <3>1, <3>3
    <3> QED
      BY <1>1, <1>3, <3>1, <3>4, RemoveLater
  <2> QED
    BY <1>1, <1>2, <2>1 DEF Known, Candidate, Until
<1> QED
  BY <1>5, <1>6, <1>8, <1>9 DEF Offsets

\* jit_dequeue hands over what jit_peek found.
LEMMA DequeueOffsets ==
    ASSUME NEW longest, Steady(longest), Known(longest), Dequeue
    PROVE  Offsets(longest)'
<1>1. /\ jit.pc = "peeked" /\ Remove(jit.best) /\ now' = now /\ down' = down
      /\ jit' = [jit EXCEPT !.pc = "picked", !.pkt = Cell(jit.best), !.best = 0]
  BY DEF Dequeue
<1>2. jit'.pc = "picked" /\ jit'.pkt = Cell(jit.best) /\ jit'.time = jit.time
  BY <1>1 DEF Known, TypeOK
<1>3. jit.best \in DOMAIN nodes
  BY <1>1 DEF Known, Candidate
<1>4. jit'.pkt \in Node
  BY <1>2, <1>3, Nearby DEF Cell
<1>5. -(Late + MaxPeekGap) \in Int /\ -Late \in Int
  <2>1. Late \in Nat /\ MaxPeekGap \in Nat
    BY SteadyFacts
  <2> QED
    BY <2>1
<1>6. Resting /\ Resting' /\ ~AboutToScan' /\ ~Scanning'
  BY <1>1, <1>2 DEF Resting, AboutToScan, Scanning
<1>7. Above(-(Late + MaxPeekGap)) /\ OneBelow(-Late)
  BY <1>6 DEF Known, Lows
<1>8. Sorted' /\ Highs(longest)' /\ Above(-(Late + MaxPeekGap))' /\ OneBelow(-Late)'
  BY <1>1, <1>2, <1>3, <1>5, <1>7, RemoveBounds
<1>9. Clocks'
  BY <1>1, <1>2 DEF Known, Clocks
<1>10. Candidate'
  BY <1>2, <1>4 DEF Candidate
<1> QED
  BY <1>6, <1>8, <1>9, <1>10 DEF Offsets, Lows

-----------------------------------------------------------------------------
(* The invariant.                                                            *)

\* jit_enqueue under the lock: refusals change nothing, an acceptance is of a
\* newcomer that criteria 1 and 2 let through.
LEMMA EnqueueCases ==
    ASSUME NEW longest, Steady(longest), Known(longest), EnqueueLocked
    PROVE  /\ down.pc = "room" /\ Unlocked
           /\ \/ UNCHANGED <<now, nodes, num_beacon, jit>> /\ down'.pc = "idle"
              \/ \E p \in Node :
                   /\ Accept(p)
                   /\ Until(p) \in Int /\ Until(p) <= Horizon(longest)
                   /\ \/ /\ Until(p) >= StartDelay + MarginDelay + JitDelay + 1 - MaxDownLag
                         /\ ~InPast(p.count, down.time)
                      \/ \E i \in DOMAIN nodes :
                            /\ Until(p) >= Until(nodes[i]) + StartDelay + 2 * JitDelay + MarginDelay
                            /\ Until(p) <= Horizon(longest)
<1>1. down.pc = "room" /\ Unlocked
  BY DEF EnqueueLocked
<1>2. PICK kind \in Offered : \E post \in PostDelays(kind) :
         \E c \in Departures(kind, post) :
            LET p == [count |-> c, kind |-> kind, post |-> post] IN
            RefuseTooLate(p) \/ RefuseTooEarly(p) \/ RefuseCollision(p) \/ Accept(p)
  BY DEF EnqueueLocked
<1>3. PICK post \in PostDelays(kind) : \E c \in Departures(kind, post) :
            LET p == [count |-> c, kind |-> kind, post |-> post] IN
            RefuseTooLate(p) \/ RefuseTooEarly(p) \/ RefuseCollision(p) \/ Accept(p)
  BY <1>2
<1>4. PICK c \in Departures(kind, post) :
            LET p == [count |-> c, kind |-> kind, post |-> post] IN
            RefuseTooLate(p) \/ RefuseTooEarly(p) \/ RefuseCollision(p) \/ Accept(p)
  BY <1>3
<1> DEFINE p == [count |-> c, kind |-> kind, post |-> post]
<1>5. CASE RefuseTooLate(p) \/ RefuseTooEarly(p) \/ RefuseCollision(p)
  <2> HIDE DEF p
  <2>1. \E result : Refuse(result)
    BY <1>5 DEF RefuseTooLate, RefuseTooEarly, RefuseCollision
  <2> QED
    BY <1>1, <2>1 DEF Refuse
<1>6. CASE Accept(p)
  <2>1. InTime(p)
    BY <1>6 DEF Accept
  <2>2. /\ p \in Node /\ Until(p) \in Int /\ Until(p) <= Horizon(longest)
        /\ \/ /\ Until(p) >= StartDelay + MarginDelay + JitDelay + 1 - MaxDownLag
              /\ ~InPast(p.count, down.time)
           \/ \E i \in DOMAIN nodes :
                 /\ Until(p) >= Until(nodes[i]) + StartDelay + 2 * JitDelay + MarginDelay
                 /\ Until(p) <= Horizon(longest)
    BY <1>1, <2>1, NewcomerOffset
  <2> HIDE DEF p
  <2> QED
    BY <1>1, <1>6, <2>2
<1> QED
  BY <1>4, <1>5, <1>6

\* Every step keeps the bounds.
LEMMA OffsetsStep ==
    ASSUME NEW longest, Steady(longest), Known(longest), [Next]_vars
    PROVE  Offsets(longest)'
<1>1. CASE DownReadCounter
  <2>1. UNCHANGED <<nodes, jit>> /\ now' = now /\ down'.time = now
    BY <1>1 DEF DownReadCounter
  <2>2. Minus(now, now) = 0 /\ MaxDownLag \in Nat
    BY ClockOffsets, SteadyFacts DEF Minus, Counter
  <2>3. Clocks'
    BY <2>1, <2>2 DEF Known, Clocks
  <2> QED
    BY <2>1, <2>3, DownOffsets
<1>2. CASE EnqueueFull \/ EnqueueNotFull \/ UNCHANGED vars
  <2>1. /\ UNCHANGED <<nodes, jit>> /\ now' = now
        /\ down'.pc = "idle" \/ (down.pc # "idle" /\ down'.time = down.time) \/ down' = down
    BY <1>2 DEF EnqueueFull, EnqueueNotFull, vars, Known, TypeOK
  <2>2. Clocks'
    BY <2>1 DEF Known, Clocks
  <2> QED
    BY <2>1, <2>2, DownOffsets
<1>3. CASE EnqueueLocked
  <2>1. CASE UNCHANGED <<now, nodes, num_beacon, jit>> /\ down'.pc = "idle"
    <3>1. Clocks'
      BY <2>1 DEF Known, Clocks
    <3> QED
      BY <2>1, <3>1, DownOffsets
  <2>2. ASSUME NEW p \in Node, Accept(p),
               Until(p) \in Int, Until(p) <= Horizon(longest),
               \/ Until(p) >= StartDelay + MarginDelay + JitDelay + 1 - MaxDownLag
               \/ \E i \in DOMAIN nodes :
                     Until(p) >= Until(nodes[i]) + StartDelay + 2 * JitDelay + MarginDelay
        PROVE  Offsets(longest)'
    BY <1>3, <2>2, AcceptOffsets DEF EnqueueLocked
  <2> QED
    BY <1>3, <2>1, <2>2, EnqueueCases
<1>4. CASE Tick
  <2>1. UNCHANGED <<nodes, jit>>
    BY <1>4 DEF Tick
  <2> QED
    BY <1>4, <2>1, TickClocks, DownOffsets
<1>5. CASE JitReadCounter
  BY <1>5, ReadOffsets
<1>6. CASE PeekBegin \/ PeekEmpty
  BY <1>6, PeekBeginOffsets
<1>7. CASE PeekKeep
  BY <1>7, PeekKeepOffsets
<1>8. CASE PeekDrop
  BY <1>8, DropOffsets
<1>9. CASE PeekEnd
  BY <1>9, PeekEndOffsets
<1>10. CASE Dequeue
  BY <1>10, DequeueOffsets
<1>11. CASE JitRelease
  BY <1>11, ReleaseOffsets
<1> QED
  BY <1>1, <1>2, <1>3, <1>4, <1>5, <1>6, <1>7, <1>8, <1>9, <1>10, <1>11
     DEF Next, DownNext, PeekNext

\* The invariant holds from the start, when the queue is empty, and for ever.
LEMMA KnownAlways ==
    ASSUME NEW longest, Steady(longest)
    PROVE  Spec => []Known(longest)
<1>1. Init => Known(longest)
  <2> SUFFICES ASSUME Init
               PROVE  Known(longest)
    OBVIOUS
  <2>1. TypeOK /\ RoomLeft
    BY TypeInit
  <2>2. DOMAIN nodes = {} /\ jit.pc = "idle" /\ jit.time = now /\ down.pc = "idle"
        /\ jit.pkt = NoPkt
    BY DEF Init
  <2>3. Minus(now, now) = 0
    BY <2>1 DEF TypeOK, Minus, Counter
  <2>4. Clocks
    BY <2>2, <2>3, SteadyFacts DEF Clocks
  <2> QED
    BY <2>1, <2>2, <2>4 DEF Known, NoOverlap, Sorted, Lows, Highs, Candidate, Above,
       OneBelow, AboutToScan, Scanning
<1>2. Known(longest) /\ [Next]_vars => Known(longest)'
  <2> SUFFICES ASSUME Known(longest), [Next]_vars
               PROVE  Known(longest)'
    OBVIOUS
  <2>1. TypeOK' /\ RoomLeft'
    BY TypeStep DEF Known
  <2>2. NoOverlap'
    BY NoOverlapStep DEF Known
  <2>3. Offsets(longest)'
    BY OffsetsStep
  <2> QED
    BY <2>1, <2>2, <2>3 DEF Known, Offsets
<1> QED
  BY <1>1, <1>2, PTL DEF Spec

-----------------------------------------------------------------------------
(* What the invariant says of the queue.                                     *)

\* Jit_sort_queue's arrangement is the order of departure between any two packets.
THEOREM QueueInDepartureOrder ==
    ASSUME NEW longest, Steady(longest)
    PROVE  Spec => []DepartureOrder
<1>1. Known(longest) => DepartureOrder
  <2> SUFFICES ASSUME Known(longest), NEW i \in DOMAIN nodes, NEW j \in DOMAIN nodes, i < j
               PROVE  NotAfter(nodes[i], nodes[j])
    BY DEF DepartureOrder
  <2> DEFINE x == Until(nodes[i])
             y == Until(nodes[j])
  <2>1. /\ nodes[i].count \in Counter /\ nodes[j].count \in Counter /\ jit.time \in Counter
        /\ x \in Int /\ -(Late + 2 * MaxPeekGap) <= x
        /\ y \in Int /\ y <= Horizon(longest)
    BY Nearby
  <2>2. x < y
    BY DEF Known, Sorted
  <2>3. Minus(nodes[i].count, nodes[j].count) = x - y + Wrap
    BY <2>1, <2>2, MinusAhead DEF Until
  <2> HIDE DEF x, y
  <2>4. 2 * Minus(nodes[i].count, nodes[j].count) >= Wrap
    BY <2>1, <2>2, <2>3, SteadyFacts
  <2> QED
    BY <2>4 DEF NotAfter, InPast
<1>2. Spec => []Known(longest)
  BY KnownAlways
<1> QED
  BY <1>1, <1>2, PTL

\* What jit_enqueue accepts departs after the counter value it read, the slot after
\* a node that was missed included, when that node is not missed by too much.
THEOREM EnqueuedInFuture ==
    ASSUME NEW longest, Steady(longest),
           Late + 3 * MaxPeekGap <= StartDelay + 2 * JitDelay + MarginDelay
    PROVE  Spec => AcceptedInFuture
<1> DEFINE NewInFuture == \A p \in Range(nodes') \ Range(nodes) : ~InPast(p.count, down.time)
<1>1. Known(longest) /\ [Next]_vars => [NewInFuture]_vars
  <2> SUFFICES ASSUME Known(longest), [Next]_vars
               PROVE  \A p \in Range(nodes') \ Range(nodes) : ~InPast(p.count, down.time)
    OBVIOUS
  <2>1. ASSUME NEW p \in Node, Accept(p),
               Until(p) \in Int, Until(p) <= Horizon(longest),
               down.pc = "room",
               \/ /\ Until(p) >= StartDelay + MarginDelay + JitDelay + 1 - MaxDownLag
                  /\ ~InPast(p.count, down.time)
               \/ \E i \in DOMAIN nodes :
                     Until(p) >= Until(nodes[i]) + StartDelay + 2 * JitDelay + MarginDelay
        PROVE  \A q \in Range(nodes') \ Range(nodes) : ~InPast(q.count, down.time)
    <3>1. -(MaxDownLag + 2 * MaxPeekGap) <= Until(p)
      BY <2>1, NewcomerLow
    <3>2. Range(nodes') \subseteq Range(nodes) \cup {p}
      <4>1. PICK f \in [DOMAIN nodes' -> 1 .. Len(nodes) + 1] :
               \A i \in DOMAIN nodes' : \/ f[i] = Len(nodes) + 1 /\ nodes'[i] = p
                                        \/ f[i] \in DOMAIN nodes /\ nodes'[i] = nodes[f[i]]
        BY <2>1, <3>1, AcceptedArray
      <4> QED
        BY <4>1 DEF Range
    <3>3. ASSUME NEW i \in DOMAIN nodes,
                 Until(p) >= Until(nodes[i]) + StartDelay + 2 * JitDelay + MarginDelay
          PROVE  ~InPast(p.count, down.time)
      <4> DEFINE e == Ahead(down.time, jit.time)
      <4>1. Until(nodes[i]) \in Int /\ -(Late + 2 * MaxPeekGap) <= Until(nodes[i])
        BY Nearby
      <4>2. /\ e \in Int /\ -MaxDownLag <= e /\ e <= MaxPeekGap
            /\ down.time \in Counter /\ jit.time \in Counter
        BY <2>1, ClockOffsets
      <4>3. p.count \in Counter
        BY DelayType
      <4>4. Minus(p.count, down.time) = IF Until(p) >= e THEN Until(p) - e
                                                         ELSE Until(p) - e + Wrap
        BY <4>2, <4>3, MinusAhead DEF Until
      <4> HIDE DEF e
      <4>5. Until(p) >= e
        BY <2>1, <3>3, <4>1, <4>2, SteadyFacts
      <4>6. 2 * (Until(p) - e) < Wrap
        BY <2>1, <4>2, SteadyFacts
      <4> QED
        BY <2>1, <4>2, <4>4, <4>5, <4>6, SteadyFacts DEF InPast
    <3> QED
      BY <2>1, <3>2, <3>3
  <2>2. CASE EnqueueLocked
    BY <2>1, <2>2, EnqueueCases
  <2>3. ASSUME NEW k \in DOMAIN nodes, Remove(k)
        PROVE  Range(nodes') \subseteq Range(nodes)
    <3>1. PICK f \in [DOMAIN nodes' -> DOMAIN nodes] :
             \A i \in DOMAIN nodes' : nodes'[i] = nodes[f[i]]
      BY <2>3, RemovedArray
    <3> QED
      BY <3>1 DEF Range
  <2>4. CASE PeekDrop
    <3>1. jit.i \in DOMAIN nodes /\ Remove(jit.i)
      BY <2>4 DEF PeekDrop, Known, TypeOK, Candidate
    <3> QED
      BY <2>3, <3>1
  <2>5. CASE Dequeue
    <3>1. jit.best \in DOMAIN nodes /\ Remove(jit.best)
      BY <2>5 DEF Dequeue, Known, Candidate
    <3> QED
      BY <2>3, <3>1
  <2>6. CASE ~EnqueueLocked /\ ~PeekDrop /\ ~Dequeue
    <3>1. UNCHANGED nodes
      BY <2>6 DEF Next, DownNext, PeekNext, DownReadCounter, EnqueueFull, EnqueueNotFull,
         JitReadCounter, PeekEmpty, PeekBegin, PeekKeep, PeekEnd, JitRelease, Tick, vars
    <3> QED
      BY <3>1 DEF Range
  <2> QED
    BY <2>2, <2>4, <2>5, <2>6
<1>2. Spec => []Known(longest)
  BY KnownAlways
<1> QED
  BY <1>1, <1>2, PTL DEF AcceptedInFuture, Spec

-----------------------------------------------------------------------------
(* The schedule.                                                             *)

\* The schedule's counters and reservations are the queue's.
LEMMA SameTiming ==
    /\ Schedule!Node = Node
    /\ \A a, b : Schedule!Minus(a, b) = Minus(a, b)
BY DEF Schedule!Node, Node, Schedule!Counter, Counter, Schedule!Kinds, Kinds,
       Schedule!Minus, Minus

\* A removal takes one reservation away.
LEMMA RemovedRange ==
    ASSUME NEW longest, Steady(longest), Known(longest), NEW k \in DOMAIN nodes, Remove(k)
    PROVE  Range(nodes') = Range(nodes) \ {nodes[k]}
<1>1. PICK f \in [DOMAIN nodes' -> DOMAIN nodes] :
         /\ \A i \in DOMAIN nodes' : nodes'[i] = nodes[f[i]] /\ f[i] # k
         /\ \A j \in DOMAIN nodes : j # k => \E i \in DOMAIN nodes' : f[i] = j
  BY RemovedArray
<1>2. \A i \in DOMAIN nodes : i # k => nodes[i] # nodes[k]
  <2> SUFFICES ASSUME NEW i \in DOMAIN nodes, i # k
               PROVE  nodes[i] # nodes[k]
    OBVIOUS
  <2>1. nodes[i] \in Node /\ nodes[k] \in Node
    BY Nearby
  <2>2. Apart(nodes[i], nodes[k])
    BY DEF Known, NoOverlap
  <2> QED
    BY <2>1, <2>2, ApartCounts
<1> QED
  BY <1>1, <1>2 DEF Range

\* An insertion adds one, on free air.
LEMMA AcceptedRange ==
    ASSUME NEW longest, Steady(longest), Known(longest), NEW p \in Node, Accept(p),
           -(MaxDownLag + 2 * MaxPeekGap) <= Until(p), Until(p) <= Horizon(longest)
    PROVE  /\ Range(nodes') = Range(nodes) \cup {p}
           /\ p \notin Range(nodes)
           /\ \A q \in Range(nodes) : Schedule!Clear(p, q)
<1>1. PICK f \in [DOMAIN nodes' -> 1 .. Len(nodes) + 1] :
         /\ \A j \in 1 .. Len(nodes) + 1 : \E i \in DOMAIN nodes' : f[i] = j
         /\ \A i \in DOMAIN nodes' : \/ f[i] = Len(nodes) + 1 /\ nodes'[i] = p
                                     \/ f[i] \in DOMAIN nodes /\ nodes'[i] = nodes[f[i]]
  BY AcceptedArray
<1>2. Len(nodes) \in Nat /\ DOMAIN nodes = 1 .. Len(nodes)
  BY DEF Known, TypeOK
<1>3. Range(nodes') \subseteq Range(nodes) \cup {p}
  BY <1>1 DEF Range
<1>4. p \in Range(nodes')
  <2>1. PICK i \in DOMAIN nodes' : f[i] = Len(nodes) + 1
    BY <1>1, <1>2
  <2>2. nodes'[i] = p
    BY <1>1, <1>2, <2>1
  <2> QED
    BY <2>2 DEF Range
<1>5. ASSUME NEW j \in DOMAIN nodes
      PROVE  nodes[j] \in Range(nodes')
  <2>1. j \in 1 .. Len(nodes) + 1 /\ j # Len(nodes) + 1
    BY <1>2
  <2>2. PICK i \in DOMAIN nodes' : f[i] = j
    BY <1>1, <2>1
  <2>3. nodes'[i] = nodes[j]
    BY <1>1, <2>1, <2>2
  <2> QED
    BY <2>3 DEF Range
<1>6. ASSUME NEW j \in DOMAIN nodes
      PROVE  Apart(p, nodes[j]) /\ Apart(nodes[j], p) /\ nodes[j] \in Node
  <2>1. nodes[j] \in Node
    BY Nearby
  <2>2. ~CollisionTest(p, PreDelay(p.kind), nodes[j], TargetPre(p, nodes[j]))
    BY DEF Accept, Blockers
  <2> QED
    BY <2>1, <2>2, CriteriaThree
<1>7. \A j \in DOMAIN nodes : p # nodes[j]
  BY <1>6, ApartCounts
<1>8. ASSUME NEW j \in DOMAIN nodes
      PROVE  Schedule!Clear(p, nodes[j])
  <2> DEFINE m == Minus(p.count, nodes[j].count)
             r == Minus(nodes[j].count, p.count)
             pl == Lead(p, nodes[j])
             ql == Lead(nodes[j], p)
             u == nodes[j].post
             v == p.post
  <2>1. u \in Nat /\ v \in Nat /\ m \in Nat /\ r \in Nat
    BY <1>6, DelayType, PlusMinus
  <2>2. /\ StartDelay \in Nat /\ MarginDelay \in Nat
        /\ pl \in Nat /\ pl >= StartDelay /\ ql \in Nat /\ ql >= StartDelay
    BY TimingAssumption DEF Lead, PreDelay
  <2>3. m > pl + u + MarginDelay /\ r > ql + v + MarginDelay
    BY <1>6 DEF Apart
  <2> HIDE DEF m, r, pl, ql, u, v
  <2>4. m > StartDelay + u + MarginDelay /\ r > StartDelay + v + MarginDelay
    BY <2>1, <2>2, <2>3
  <2> QED
    BY <2>4, SameTiming DEF Schedule!Clear, m, r, u, v
<1> QED
  BY <1>3, <1>4, <1>5, <1>7, <1>8 DEF Range

\* The queue implements the schedule: each step of the two tasks is one step of it,
\* or none.
THEOREM QueueImplementsSchedule ==
    ASSUME NEW longest, Steady(longest)
    PROVE  Spec => ImplementsSchedule
<1>1. Init => Schedule!Init
  BY DEF Init, Schedule!Init, Schedule!Nothing, NoPkt, Range
<1>2. Known(longest) /\ [Next]_vars => [Schedule!Next]_<<Range(nodes), jit.pkt>>
  <2> SUFFICES ASSUME Known(longest), [Next]_vars
               PROVE  Schedule!Next \/ UNCHANGED <<Range(nodes), jit.pkt>>
    OBVIOUS
  <2>1. CASE EnqueueLocked
    <3>1. CASE UNCHANGED <<now, nodes, num_beacon, jit>>
      BY <3>1 DEF Range
    <3>2. ASSUME NEW p \in Node, Accept(p),
                 Until(p) \in Int, Until(p) <= Horizon(longest),
                 \/ Until(p) >= StartDelay + MarginDelay + JitDelay + 1 - MaxDownLag
                 \/ \E i \in DOMAIN nodes :
                       Until(p) >= Until(nodes[i]) + StartDelay + 2 * JitDelay + MarginDelay
          PROVE  Schedule!Reserve
      <4>1. -(MaxDownLag + 2 * MaxPeekGap) <= Until(p)
        BY <3>2, NewcomerLow
      <4>2. /\ Range(nodes') = Range(nodes) \cup {p} /\ p \notin Range(nodes)
            /\ \A q \in Range(nodes) : Schedule!Clear(p, q)
        BY <3>2, <4>1, AcceptedRange
      <4>3. UNCHANGED jit.pkt
        BY <3>2 DEF Accept
      <4>4. p \in Range(nodes') \ Range(nodes)
        BY <4>2
      <4> QED
        BY <4>2, <4>3, <4>4, SameTiming DEF Schedule!Reserve
    <3> QED
      BY <2>1, <3>1, <3>2, EnqueueCases DEF Schedule!Next
  <2>2. CASE PeekDrop
    <3>1. jit.i \in DOMAIN nodes /\ Remove(jit.i)
      BY <2>2 DEF PeekDrop, Known, TypeOK, Candidate
    <3>2. Range(nodes') = Range(nodes) \ {nodes[jit.i]}
      BY <3>1, RemovedRange
    <3>3. nodes[jit.i] \in Range(nodes) /\ jit'.pkt = jit.pkt
      BY <2>2, <3>1 DEF Range, PeekDrop, Known, TypeOK
    <3> QED
      BY <3>2, <3>3 DEF Schedule!Next, Schedule!Drop
  <2>3. CASE Dequeue
    <3>1. /\ jit.best \in DOMAIN nodes /\ Remove(jit.best)
          /\ jit.pkt = NoPkt /\ jit'.pkt = Cell(jit.best)
      BY <2>3 DEF Dequeue, Known, Candidate, TypeOK
    <3>2. Range(nodes') = Range(nodes) \ {nodes[jit.best]}
      BY <3>1, RemovedRange
    <3>3. nodes[jit.best] \in Range(nodes) /\ jit'.pkt = nodes[jit.best]
      BY <3>1 DEF Range, Cell
    <3> QED
      BY <3>1, <3>2, <3>3 DEF Schedule!Next, Schedule!HandOver, Schedule!Nothing, NoPkt
  <2>4. CASE JitRelease
    <3>1. nodes' = nodes /\ jit'.pkt = NoPkt /\ jit.pkt \in Node
      BY <2>4 DEF JitRelease, Known, Candidate, TypeOK
    <3>2. jit.pkt # NoPkt
      BY <3>1 DEF NoPkt, Node, Kinds
    <3> QED
      BY <3>1, <3>2 DEF Schedule!Next, Schedule!Finish, Schedule!Nothing, NoPkt, Range
  <2>5. CASE ~EnqueueLocked /\ ~PeekDrop /\ ~Dequeue /\ ~JitRelease
    <3>1. UNCHANGED nodes
      BY <2>5 DEF Next, DownNext, PeekNext, DownReadCounter, EnqueueFull, EnqueueNotFull,
         JitReadCounter, PeekEmpty, PeekBegin, PeekKeep, PeekEnd, Tick, vars
    <3>2. jit'.pkt = jit.pkt
      BY <2>5 DEF Next, DownNext, PeekNext, DownReadCounter, EnqueueFull, EnqueueNotFull,
         JitReadCounter, PeekEmpty, PeekBegin, PeekKeep, PeekEnd, Tick, vars, Known, TypeOK
    <3> QED
      BY <3>1, <3>2 DEF Range
  <2> QED
    BY <2>1, <2>2, <2>3, <2>4, <2>5
<1>3. Spec => []Known(longest)
  BY KnownAlways
<1> QED
  BY <1>1, <1>2, <1>3, PTL DEF ImplementsSchedule, Schedule!Spec, Spec

-----------------------------------------------------------------------------
(* Between jit_peek and jit_dequeue.                                         *)

\* What jit_peek found is the first or the second node, due, and no two nodes were
\* missed: so whatever is inserted in front of it is due as well.
PeekedDue ==
    jit.pc = "peeked" =>
        /\ OneBelow(0) /\ jit.best \in {1, 2} /\ jit.best \in DOMAIN nodes
        /\ 0 <= Until(nodes[jit.best]) /\ Until(nodes[jit.best]) < JitDelay

\* An insertion between jit_peek and jit_dequeue leaves a due packet at the index.
LEMMA AcceptPeeked ==
    ASSUME NEW longest, Steady(longest), Known(longest), PeekedDue, jit.pc = "peeked",
           down.pc = "room", NEW p \in Node, Accept(p),
           Until(p) \in Int, Until(p) <= Horizon(longest), Until(p) >= 0
    PROVE  PeekedDue'
<1> DEFINE t == nodes'
           n == Len(nodes)
           b == jit.best
<1>1. /\ OneBelow(0) /\ b \in {1, 2} /\ b \in DOMAIN nodes
      /\ 0 <= Until(nodes[b]) /\ Until(nodes[b]) < JitDelay
  BY DEF PeekedDue
<1>2. n \in Nat /\ DOMAIN nodes = 1 .. n /\ \A i \in 1 .. n : Until(nodes[i]) \in Int
  BY Nearby DEF Known, TypeOK
<1>3. -(MaxDownLag + 2 * MaxPeekGap) <= Until(p)
  BY SteadyFacts
<1>4. /\ t \in Seq(Node) /\ Len(t) = n + 1 /\ jit' = jit
      /\ \A i, j \in DOMAIN t : i < j => Until(t[i]) < Until(t[j])
  BY <1>3, AcceptedArray
<1>5. PICK f \in [DOMAIN t -> 1 .. n + 1] :
         /\ \A i, j \in DOMAIN t : f[i] = f[j] => i = j
         /\ \A j \in 1 .. n + 1 : \E i \in DOMAIN t : f[i] = j
         /\ \A i \in DOMAIN t : \/ f[i] = n + 1 /\ t[i] = p
                                \/ f[i] \in DOMAIN nodes /\ t[i] = nodes[f[i]]
  BY <1>3, AcceptedArray
<1>6. \A i, j \in DOMAIN nodes : i < j => Until(nodes[i]) < Until(nodes[j])
  BY DEF Known, Sorted
<1>7. \A i, j \in DOMAIN t : i # j => Until(t[i]) >= 0 \/ Until(t[j]) >= 0
  <2>1. OneBelow(0)'
    BY <1>1, <1>3, AcceptBounds
  <2> QED
    BY <1>4, <2>1 DEF OneBelow, Until
<1> HIDE DEF t, n, b
<1>8. DOMAIN t = 1 .. n + 1 /\ b \in DOMAIN t
  BY <1>1, <1>2, <1>4
<1>9. \A i \in DOMAIN t : Until(t[i]) \in Int
  BY <1>2, <1>5
<1>10. PICK m \in DOMAIN t : f[m] = b
  BY <1>1, <1>2, <1>5, <1>8
<1>11. t[m] = nodes[b]
  <2>1. b # n + 1
    BY <1>1, <1>2
  <2> QED
    BY <1>5, <1>10, <2>1
<1>12. b <= m
  <2> SUFFICES ASSUME m < b
               PROVE  FALSE
    BY <1>1, <1>8
  <2>1. b = 2 /\ m = 1
    BY <1>1, <1>8
  <2>2. 1 \in DOMAIN nodes /\ 2 \in DOMAIN nodes /\ 1 \in 1 .. n + 1 /\ n # 0
    BY <1>1, <1>2, <2>1
  <2>3. PICK h \in DOMAIN t : f[h] = 1
    BY <1>5, <2>2
  <2>4. t[h] = nodes[1] /\ m < h
    <3>1. h # m /\ f[h] # n + 1
      BY <1>2, <1>10, <2>1, <2>2, <2>3
    <3> QED
      BY <1>5, <1>8, <2>1, <2>3, <3>1
  <2>5. Until(nodes[2]) < Until(nodes[1])
    BY <1>4, <1>11, <2>1, <2>4
  <2>6. Until(nodes[1]) < Until(nodes[2])
    BY <1>6, <2>2
  <2> QED
    BY <1>2, <2>2, <2>5, <2>6
<1>13. Until(t[b]) < JitDelay
  <2>1. b = m \/ Until(t[b]) < Until(t[m])
    BY <1>4, <1>8, <1>12
  <2>2. JitDelay \in Nat
    BY SteadyFacts
  <2> QED
    BY <1>1, <1>8, <1>9, <1>11, <2>1, <2>2
<1>14. 0 <= Until(t[b])
  <2>1. CASE b = 1
    <3>1. CASE t[1] = p
      BY <2>1, <3>1
    <3>2. CASE f[1] \in DOMAIN nodes /\ t[1] = nodes[f[1]]
      <4>1. f[1] = 1 \/ Until(nodes[1]) < Until(nodes[f[1]])
        BY <1>1, <1>2, <1>6, <2>1, <3>2
      <4> QED
        BY <1>1, <1>2, <2>1, <3>2, <4>1
    <3> QED
      BY <1>5, <1>8, <2>1, <3>1, <3>2
  <2>2. CASE b = 2
    <3>1. 1 \in DOMAIN t /\ 2 \in DOMAIN t
      BY <1>2, <1>8, <2>2
    <3>2. Until(t[1]) < Until(t[2])
      BY <1>4, <3>1
    <3>3. Until(t[1]) >= 0 \/ Until(t[2]) >= 0
      BY <1>7, <3>1
    <3> QED
      BY <1>9, <2>2, <3>1, <3>2, <3>3
  <2> QED
    BY <1>1, <2>1, <2>2
<1> QED
  BY <1>1, <1>4, <1>7, <1>8, <1>13, <1>14 DEF PeekedDue, OneBelow, Until, t, b

\* Every step keeps that, however the task of the enqueues is scheduled.
LEMMA AlwaysPeekedDue ==
    ASSUME NEW longest, Steady(longest),
           MaxDownLag <= StartDelay + MarginDelay + JitDelay + 1
    PROVE  Spec => []PeekedDue
<1>0. Late = 0
  BY DEF Late
<1>1. Init => PeekedDue
  BY DEF Init, PeekedDue
<1>2. Known(longest) /\ PeekedDue /\ [Next]_vars => PeekedDue'
  <2> SUFFICES ASSUME Known(longest), PeekedDue, [Next]_vars
               PROVE  PeekedDue'
    OBVIOUS
  <2>1. ASSUME UNCHANGED <<nodes, jit>>
        PROVE  PeekedDue'
    BY <2>1 DEF PeekedDue, OneBelow, Until
  <2>2. CASE EnqueueLocked
    <3>1. ASSUME NEW p \in Node, Accept(p),
                 Until(p) \in Int, Until(p) <= Horizon(longest),
                 \/ Until(p) >= StartDelay + MarginDelay + JitDelay + 1 - MaxDownLag
                 \/ \E i \in DOMAIN nodes :
                       Until(p) >= Until(nodes[i]) + StartDelay + 2 * JitDelay + MarginDelay
          PROVE  PeekedDue'
      <4>1. CASE jit.pc = "peeked"
        <5>1. Resting
          BY <4>1 DEF Resting
        <5>2. Until(p) >= 0
          BY <1>0, <3>1, <5>1, NewcomerLow
        <5>3. down.pc = "room"
          BY <2>2 DEF EnqueueLocked
        <5> QED
          BY <3>1, <4>1, <5>2, <5>3, AcceptPeeked
      <4>2. CASE jit.pc # "peeked"
        BY <3>1, <4>2 DEF Accept, PeekedDue
      <4> QED
        BY <4>1, <4>2
    <3> QED
      BY <2>1, <2>2, <3>1, EnqueueCases
  <2>3. CASE PeekEnd
    <3>1. jit.pc = "scan" /\ jit.i > Len(nodes) /\ nodes' = nodes
      BY <2>3 DEF PeekEnd
    <3>2. CASE jit'.pc = "peeked"
      <4>1. /\ jit.best # 0 /\ Due(Cell(jit.best), jit.time)
            /\ jit'.best = jit.best /\ jit'.time = jit.time
        BY <2>3, <3>2 DEF PeekEnd, Known, TypeOK
      <4>2. jit.best \in {1, 2} /\ jit.best \in DOMAIN nodes
        BY <3>1, <4>1 DEF Known, TypeOK, Candidate
      <4>3. nodes[jit.best] \in Node /\ jit.time \in Counter
        BY <4>2, Nearby
      <4>4. 0 <= Until(nodes[jit.best]) /\ Until(nodes[jit.best]) < JitDelay
        BY <4>1, <4>2, <4>3, DueOffset DEF Cell, Until
      <4>5. OneBelow(0)
        <5> SUFFICES ASSUME NEW i \in DOMAIN nodes, NEW j \in DOMAIN nodes, i # j
                     PROVE  Until(nodes[i]) >= 0 \/ Until(nodes[j]) >= 0
          BY DEF OneBelow
        <5>1. \A h \in DOMAIN nodes : h >= 2 => Until(nodes[h]) >= 0
          <6> SUFFICES ASSUME NEW h \in DOMAIN nodes, h >= 2
                       PROVE  Until(nodes[h]) >= 0
            OBVIOUS
          <6>1. h < jit.i /\ Scanning
            BY <3>1 DEF Known, TypeOK, Scanning
          <6> QED
            BY <6>1 DEF Known, Lows
        <5>2. i >= 2 \/ j >= 2
          BY DEF Known, TypeOK
        <5> QED
          BY <5>1, <5>2
      <4> QED
        BY <3>1, <4>1, <4>2, <4>4, <4>5 DEF PeekedDue, OneBelow, Until
    <3>3. CASE jit'.pc # "peeked"
      BY <3>3 DEF PeekedDue
    <3> QED
      BY <3>2, <3>3
  <2>4. CASE JitReadCounter \/ PeekEmpty \/ PeekBegin \/ PeekDrop \/ PeekKeep
              \/ Dequeue \/ JitRelease
    <3>1. jit'.pc # "peeked"
      BY <2>4 DEF JitReadCounter, PeekEmpty, PeekBegin, PeekDrop, PeekKeep, Dequeue,
         JitRelease, Known, TypeOK
    <3> QED
      BY <3>1 DEF PeekedDue
  <2>5. CASE DownReadCounter \/ EnqueueFull \/ EnqueueNotFull \/ Tick \/ UNCHANGED vars
    <3>1. UNCHANGED <<nodes, jit>>
      BY <2>5 DEF DownReadCounter, EnqueueFull, EnqueueNotFull, Tick, vars
    <3> QED
      BY <2>1, <3>1
  <2> QED
    BY <2>2, <2>3, <2>4, <2>5 DEF Next, DownNext, PeekNext
<1>3. Spec => []Known(longest)
  BY KnownAlways
<1> QED
  BY <1>1, <1>2, <1>3, PTL DEF Spec

\* The packet that jit_dequeue takes, under another lock than jit_peek's, departs
\* within TX_JIT_DELAY of the counter jit_peek was given, whatever jit_enqueue
\* inserted in between.
THEOREM PeekedIsStillDue ==
    ASSUME NEW longest, Steady(longest),
           MaxDownLag <= StartDelay + MarginDelay + JitDelay + 1
    PROVE  Spec => []PeekedStillDue
<1>1. Known(longest) /\ PeekedDue => PeekedStillDue
  <2> SUFFICES ASSUME Known(longest), PeekedDue, jit.pc = "peeked"
               PROVE  jit.best \in DOMAIN nodes /\ Due(nodes[jit.best], jit.time)
    BY DEF PeekedStillDue
  <2>1. /\ jit.best \in DOMAIN nodes
        /\ 0 <= Until(nodes[jit.best]) /\ Until(nodes[jit.best]) < JitDelay
    BY DEF PeekedDue
  <2>2. nodes[jit.best] \in Node /\ jit.time \in Counter
    BY <2>1, Nearby
  <2> QED
    BY <2>1, <2>2, DueOffset DEF Until
<1>2. Spec => []Known(longest)
  BY KnownAlways
<1>3. Spec => []PeekedDue
  BY AlwaysPeekedDue
<1> QED
  BY <1>1, <1>2, <1>3, PTL

-----------------------------------------------------------------------------
(* Nothing missed.                                                           *)

\* The two tasks are quick enough: from the reading of the counter to the end of
\* jit_enqueue and on to the next jit_peek passes no more than criteria 1 left, and
\* from one jit_peek to the next no more than the packets keep between them, and s
\* is left over each time.
Timely(s) ==
    /\ s + MaxDownLag + MaxPeekGap <= StartDelay + MarginDelay + JitDelay + 1
    /\ s + MaxPeekGap <= JitDelay /\ s + MaxPeekGap <= MaxAdvance
    /\ \A a \in Airtimes \cup {BeaconReserved} : MaxPeekGap <= StartDelay + a + MarginDelay + 1

\* Each jit_peek finds every packet at least s ahead.  Before it every packet is one
\* gap more ahead, or the one that is not has just been found.
OnTime(s) ==
    /\ jit.pc \in {"idle", "picked"} => Above(s + MaxPeekGap)
    /\ jit.pc \in {"timed", "scan", "peeked"} => Above(s)
    /\ Scanning => jit.best = 1 \/ (jit.best = 0 /\ Above(MaxAdvance))
    /\ jit.pc = "peeked" =>
          /\ jit.best = 1
          /\ \A j \in DOMAIN nodes : j >= 2 => Until(nodes[j]) >= s + MaxPeekGap

\* The first node is the soonest.
LEMMA FirstSoonest ==
    ASSUME NEW longest, Steady(longest), Known(longest), NEW x \in Int,
           nodes # << >> => Until(nodes[1]) >= x
    PROVE  Above(x)
<1> SUFFICES ASSUME NEW i \in DOMAIN nodes
             PROVE  Until(nodes[i]) >= x
  BY DEF Above
<1>1. nodes # << >> /\ 1 \in DOMAIN nodes /\ (i = 1 \/ 1 < i)
  BY DEF Known, TypeOK
<1>2. i = 1 \/ Until(nodes[1]) < Until(nodes[i])
  BY <1>1 DEF Known, Sorted
<1>3. Until(nodes[1]) \in Int /\ Until(nodes[i]) \in Int
  BY <1>1, Nearby
<1> QED
  BY <1>1, <1>2, <1>3

\* An insertion by a task that is quick enough is at least one gap ahead.
LEMMA AcceptOnTime ==
    ASSUME NEW longest, Steady(longest), NEW s \in Nat, Timely(s), Known(longest), OnTime(s),
           down.pc = "room", Unlocked, NEW p \in Node, Accept(p),
           Until(p) \in Int, Until(p) <= Horizon(longest),
           \/ Until(p) >= StartDelay + MarginDelay + JitDelay + 1 - MaxDownLag
           \/ \E i \in DOMAIN nodes :
                 Until(p) >= Until(nodes[i]) + StartDelay + 2 * JitDelay + MarginDelay
    PROVE  OnTime(s)'
<1>1. /\ MaxPeekGap \in Nat /\ MaxPeekGap <= StartDelay + 2 * JitDelay + MarginDelay
      /\ 0 \in Int /\ MaxPeekGap \in Int
      /\ StartDelay \in Nat /\ MarginDelay \in Nat /\ JitDelay \in Nat
  BY SteadyFacts
<1>2. /\ -(MaxDownLag + 2 * MaxPeekGap) <= Until(p)
  BY NewcomerLow
<1>3. jit' = jit /\ nodes' \in Seq(Node) /\ jit.pc # "scan"
  BY <1>2, AcceptedArray DEF Unlocked
<1>4. Above(s)
  BY <1>1, <1>3, Nearby DEF OnTime, Above, Known, TypeOK
<1>5. Until(p) >= s + MaxPeekGap
  <2>1. CASE Until(p) >= StartDelay + MarginDelay + JitDelay + 1 - MaxDownLag
    BY <2>1, SteadyFacts DEF Timely
  <2>2. ASSUME NEW i \in DOMAIN nodes,
               Until(p) >= Until(nodes[i]) + StartDelay + 2 * JitDelay + MarginDelay
        PROVE  Until(p) >= s + MaxPeekGap
    <3>1. Until(nodes[i]) \in Int
      BY Nearby
    <3>2. Until(nodes[i]) >= s
      BY <1>4 DEF Above
    <3> QED
      BY <1>1, <2>2, <3>1, <3>2
  <2> QED
    BY <2>1, <2>2
<1>6. Above(s)'
  BY <1>1, <1>2, <1>4, <1>5, AcceptBounds
<1>7. jit.pc \in {"idle", "picked"} => Above(s + MaxPeekGap)'
  BY <1>1, <1>2, <1>5, AcceptBounds DEF OnTime
<1>8. ASSUME jit.pc = "peeked", NEW j \in DOMAIN nodes', j >= 2
      PROVE  Until(nodes'[j]) >= s + MaxPeekGap
  <2> DEFINE t == nodes'
  <2>1. PICK f \in [DOMAIN t -> 1 .. Len(nodes) + 1] :
           /\ \A i, k \in DOMAIN t : f[i] = f[k] => i = k
           /\ \A i \in DOMAIN t : \/ f[i] = Len(nodes) + 1 /\ t[i] = p
                                  \/ f[i] \in DOMAIN nodes /\ t[i] = nodes[f[i]]
    BY <1>2, AcceptedArray
  <2>2. \A i, k \in DOMAIN t : i < k => Until(t[i]) < Until(t[k])
    BY <1>2, AcceptedArray
  <2> HIDE DEF t
  <2>3. 1 \in DOMAIN t /\ j \in DOMAIN t /\ 1 < j
    BY <1>3, <1>8 DEF t
  <2>4. CASE t[j] = p
    BY <1>5, <2>4 DEF t
  <2>5. CASE f[j] \in DOMAIN nodes /\ t[j] = nodes[f[j]]
    <3>1. Until(t[1]) < Until(t[j]) /\ f[1] # f[j]
      BY <2>1, <2>2, <2>3
    <3>2. f[j] \in Nat /\ Until(nodes[f[j]]) \in Int
      BY <2>5, Nearby DEF Known, TypeOK
    <3>3. CASE f[j] >= 2
      BY <1>8, <2>5, <3>3 DEF OnTime, t
    <3>4. CASE f[j] = 1
      <4>1. CASE t[1] = p
        BY <1>1, <1>5, <2>5, <3>1, <3>2, <4>1 DEF t
      <4>2. CASE f[1] \in DOMAIN nodes /\ t[1] = nodes[f[1]]
        <5>1. f[1] \in Nat /\ f[1] >= 2
          BY <3>1, <3>4, <4>2 DEF Known, TypeOK
        <5>2. Until(nodes[f[1]]) >= s + MaxPeekGap /\ Until(nodes[f[1]]) \in Int
          BY <1>8, <4>2, <5>1, Nearby DEF OnTime
        <5> QED
          BY <1>1, <2>5, <3>1, <3>2, <4>2, <5>2 DEF t
      <4> QED
        BY <2>1, <2>3, <4>1, <4>2
    <3>5. f[j] # 0
      BY <2>5 DEF Known, TypeOK
    <3> QED
      BY <3>2, <3>3, <3>4, <3>5
  <2> QED
    BY <2>1, <2>3, <2>4, <2>5
<1>9. ~Scanning'
  BY <1>3 DEF Scanning
<1>10. jit.pc = "peeked" =>
          /\ jit.best = 1
          /\ \A j \in DOMAIN nodes' : j >= 2 => Until(nodes'[j]) >= s + MaxPeekGap
  BY <1>8 DEF OnTime
<1> QED
  BY <1>3, <1>6, <1>7, <1>9, <1>10 DEF OnTime, Until

\* The scan finds the packet that is less than a gap ahead, and drops none.
LEMMA ScanOnTime ==
    ASSUME NEW longest, Steady(longest), NEW s \in Nat, Timely(s), Known(longest), OnTime(s),
           PeekBegin \/ PeekEmpty \/ PeekKeep \/ PeekDrop
    PROVE  OnTime(s)'
<1>1. jit'.time = jit.time
  BY DEF PeekBegin, PeekEmpty, PeekKeep, PeekDrop, Known, TypeOK
<1>2. 0 \in Int /\ MaxAdvance \in Int /\ MaxAdvance \in Nat
  BY SteadyFacts
<1>3. CASE PeekBegin
  <2>1. jit.pc = "timed" /\ nodes' = nodes /\ jit'.pc = "scan" /\ jit'.i = 1
    BY <1>3 DEF PeekBegin, Known, TypeOK
  <2> QED
    BY <1>1, <2>1 DEF OnTime, Scanning, Above, Until
<1>4. CASE PeekEmpty
  <2>1. jit'.pc = "idle" /\ DOMAIN nodes' = {}
    BY <1>4 DEF PeekEmpty, Known, TypeOK
  <2> QED
    BY <2>1 DEF OnTime, Scanning, Above
<1>5. CASE PeekKeep
  <2>1. /\ jit.pc = "scan" /\ nodes' = nodes /\ jit'.pc = "scan"
        /\ jit.i \in DOMAIN nodes /\ ~Outdated(nodes[jit.i], jit.time)
        /\ jit'.best = IF Sooner(jit.i, jit.best) THEN jit.i ELSE jit.best
    BY <1>5 DEF PeekKeep, Known, TypeOK, Candidate
  <2>2. jit'.best = 1
    <3>1. CASE jit.i = 1
      BY <2>1, <3>1 DEF Known, Candidate, Sooner
    <3>2. CASE jit.i # 1 /\ jit.best # 0
      BY <1>5, <2>1, <3>2, KeepsBest DEF OnTime, Scanning, Known, TypeOK, Candidate
    <3>3. CASE jit.i # 1 /\ jit.best = 0
      <4>1. Scanning
        BY <2>1, <3>3 DEF Scanning, Known, TypeOK, Candidate
      <4>2. Until(nodes[jit.i]) >= MaxAdvance
        BY <2>1, <3>3, <4>1 DEF OnTime, Above
      <4>3. Until(nodes[jit.i]) < MaxAdvance /\ Until(nodes[jit.i]) \in Int
        BY <2>1, Nearby, DueOffset DEF Until
      <4> QED
        BY <1>2, <4>2, <4>3
    <3> QED
      BY <3>1, <3>2, <3>3
  <2> QED
    BY <1>1, <2>1, <2>2 DEF OnTime, Above, Until
<1>6. CASE PeekDrop
  <2>1. /\ jit.pc = "scan" /\ jit.i \in DOMAIN nodes /\ Outdated(nodes[jit.i], jit.time)
        /\ Remove(jit.i) /\ jit'.pc = "scan" /\ jit'.best = jit.best
    BY <1>6 DEF PeekDrop, Known, TypeOK, Candidate
  <2>2. Above(s)
    BY <2>1 DEF OnTime
  <2>3. Above(s)'
    BY <1>1, <1>2, <2>1, <2>2, RemoveBounds
  <2>4. jit.best = 1 \/ (jit.best = 0 /\ Above(MaxAdvance))
    <3>1. CASE jit.i = 1
      <4>1. Until(nodes[1]) >= s /\ Until(nodes[1]) \in Int
        BY <2>1, <2>2, <3>1, Nearby DEF Above
      <4>2. ~(Until(nodes[1]) < MaxAdvance)
        BY <2>1, <3>1, <4>1, Nearby, DueOffset DEF Until
      <4>3. Above(MaxAdvance)
        BY <1>2, <4>1, <4>2, FirstSoonest
      <4> QED
        BY <2>1, <3>1, <4>3 DEF Known, Candidate
    <3>2. CASE jit.i # 1
      BY <2>1, <3>2 DEF OnTime, Scanning, Known, TypeOK, Candidate
    <3> QED
      BY <3>1, <3>2
  <2>5. Above(MaxAdvance) => Above(MaxAdvance)'
    BY <1>1, <1>2, <2>1, RemoveBounds
  <2> QED
    BY <2>1, <2>3, <2>4, <2>5 DEF OnTime
<1> QED
  BY <1>3, <1>4, <1>5, <1>6

\* The end of the scan hands that packet over.
LEMMA PeekEndOnTime ==
    ASSUME NEW longest, Steady(longest), NEW s \in Nat, Timely(s), Known(longest), OnTime(s), PeekEnd
    PROVE  OnTime(s)'
<1>1. /\ jit.pc = "scan" /\ jit.i > Len(nodes) /\ nodes' = nodes /\ jit'.time = jit.time
      /\ IF jit.best # 0 /\ Due(Cell(jit.best), jit.time)
         THEN jit'.pc = "peeked" /\ jit'.best = jit.best
         ELSE jit'.pc = "idle"
  BY DEF PeekEnd, Known, TypeOK
<1>2. /\ MaxPeekGap \in Nat /\ MaxAdvance \in Nat /\ JitDelay \in Nat /\ MaxPeekGap \in Int
      /\ s \in Nat /\ s + MaxPeekGap \in Int
      /\ s + MaxPeekGap <= JitDelay /\ s + MaxPeekGap <= MaxAdvance
      /\ StartDelay \in Nat /\ MarginDelay \in Nat
  BY SteadyFacts DEF Timely
<1>3. Above(s)
  BY <1>1 DEF OnTime
<1>4. ~Scanning'
  BY <1>1 DEF Scanning
<1>5. jit.best # 0 => jit.best = 1 /\ 1 \in DOMAIN nodes
  BY <1>1 DEF OnTime, Scanning, Known, TypeOK, Candidate
<1>6. CASE jit'.pc = "peeked"
  <2>1. jit'.best = 1 /\ 1 \in DOMAIN nodes
    BY <1>1, <1>5, <1>6
  <2>2. ASSUME NEW j \in DOMAIN nodes, j >= 2
        PROVE  Until(nodes[j]) >= s + MaxPeekGap
    <3>1. /\ Until(nodes[1]) \in Int /\ Until(nodes[j]) \in Int /\ Until(nodes[1]) >= s
          /\ nodes[1] \in Node /\ nodes[j] \in Node /\ jit.time \in Counter
      BY <1>3, <2>1, Nearby DEF Above
    <3>2. Until(nodes[1]) < Until(nodes[j])
      <4>1. 1 < j
        BY <2>2 DEF Known, TypeOK
      <4> QED
        BY <2>1, <4>1 DEF Known, Sorted
    <3>3. Minus(nodes[j].count, nodes[1].count) = Until(nodes[j]) - Until(nodes[1])
      BY <3>1, <3>2, DelayType, MinusAhead DEF Until
    <3>4. Minus(nodes[j].count, nodes[1].count)
             > Lead(nodes[j], nodes[1]) + nodes[1].post + MarginDelay
      BY <2>1, <2>2 DEF Known, NoOverlap, Apart
    <3>5. Lead(nodes[j], nodes[1]) \in Nat /\ Lead(nodes[j], nodes[1]) >= StartDelay
      BY TimingAssumption DEF Lead, PreDelay
    <3>6. nodes[1].post \in Nat /\ MaxPeekGap <= StartDelay + nodes[1].post + MarginDelay + 1
      BY <3>1, DelayType DEF Node, Timely
    <3> DEFINE l == Lead(nodes[j], nodes[1])
               a == nodes[1].post
    <3>7. Until(nodes[j]) - Until(nodes[1]) > l + a + MarginDelay
      BY <3>3, <3>4
    <3>8. l \in Nat /\ l >= StartDelay /\ a \in Nat /\ MaxPeekGap <= StartDelay + a + MarginDelay + 1
      BY <3>5, <3>6
    <3> HIDE DEF l, a
    <3> QED
      BY <1>2, <3>1, <3>7, <3>8
  <2> QED
    BY <1>1, <1>3, <1>4, <1>6, <2>1, <2>2 DEF OnTime, Above, Until
<1>7. CASE jit'.pc = "idle"
  <2>1. ASSUME jit.best # 0
        PROVE  Above(s + MaxPeekGap)
    <3>1. ~Due(nodes[1], jit.time)
      BY <1>1, <1>5, <1>7, <2>1 DEF Cell
    <3>2. /\ Until(nodes[1]) \in Int /\ nodes[1] \in Node /\ jit.time \in Counter
          /\ Until(nodes[1]) >= s
      BY <1>3, <1>5, <2>1, Nearby DEF Above
    <3>3. Until(nodes[1]) >= JitDelay
      BY <1>2, <3>1, <3>2, DueOffset DEF Until
    <3> QED
      BY <1>2, <3>2, <3>3, FirstSoonest
  <2>2. ASSUME jit.best = 0, Scanning
        PROVE  Above(s + MaxPeekGap)
    <3>1. Above(MaxAdvance)
      BY <2>2 DEF OnTime
    <3>2. \A i \in DOMAIN nodes : Until(nodes[i]) \in Int
      BY Nearby
    <3> QED
      BY <1>2, <3>1, <3>2 DEF Above
  <2>3. ASSUME ~Scanning
        PROVE  Above(s + MaxPeekGap)
    BY <1>1, <2>3 DEF Scanning, Known, TypeOK, Candidate, Above
  <2>4. Above(s + MaxPeekGap)
    BY <2>1, <2>2, <2>3
  <2> QED
    BY <1>1, <1>4, <1>7, <2>4 DEF OnTime, Above, Until
<1> QED
  BY <1>1, <1>6, <1>7

\* Every step keeps that distance.
LEMMA OnTimeStep ==
    ASSUME NEW longest, Steady(longest), NEW s \in Nat, Timely(s), Known(longest), OnTime(s),
           [Next]_vars
    PROVE  OnTime(s)'
<1>1. ASSUME UNCHANGED <<nodes, jit>>
      PROVE  OnTime(s)'
  BY <1>1 DEF OnTime, Above, Until, Scanning
<1>2. CASE EnqueueLocked
  <2>1. ASSUME NEW p \in Node, Accept(p),
               Until(p) \in Int, Until(p) <= Horizon(longest),
               \/ Until(p) >= StartDelay + MarginDelay + JitDelay + 1 - MaxDownLag
               \/ \E i \in DOMAIN nodes :
                     Until(p) >= Until(nodes[i]) + StartDelay + 2 * JitDelay + MarginDelay
        PROVE  OnTime(s)'
    BY <1>2, <2>1, AcceptOnTime DEF EnqueueLocked
  <2> QED
    BY <1>1, <1>2, <2>1, EnqueueCases
<1>3. CASE JitReadCounter
  <2>1. /\ jit.pc = "idle" /\ nodes' = nodes /\ jit'.pc = "timed" /\ jit'.time = now
    BY <1>3 DEF JitReadCounter, Known, TypeOK
  <2>2. Above(s)'
    <3> SUFFICES ASSUME NEW i \in DOMAIN nodes
                 PROVE  Ahead(nodes[i].count, now) >= s
      BY <2>1 DEF Above, Until
    <3>1. Until(nodes[i]) >= s + MaxPeekGap
      BY <2>1 DEF OnTime, Above
    <3>2. /\ Until(nodes[i]) \in Int
          /\ Ahead(nodes[i].count, now) = Until(nodes[i]) - Minus(now, jit.time)
      BY <2>1, ReadShift DEF Resting
    <3>3. Minus(now, jit.time) \in 0 .. MaxPeekGap /\ MaxPeekGap \in Nat
      BY ClockOffsets, SteadyFacts
    <3> QED
      BY <3>1, <3>2, <3>3
  <2> QED
    BY <2>1, <2>2 DEF OnTime, Scanning
<1>4. CASE PeekBegin \/ PeekEmpty \/ PeekKeep \/ PeekDrop
  BY <1>4, ScanOnTime
<1>5. CASE PeekEnd
  BY <1>5, PeekEndOnTime
<1>6. CASE Dequeue
  <2>1. /\ jit.pc = "peeked" /\ jit.best = 1 /\ 1 \in DOMAIN nodes /\ Remove(1)
        /\ jit'.pc = "picked" /\ jit'.time = jit.time
        /\ \A j \in DOMAIN nodes : j >= 2 => Until(nodes[j]) >= s + MaxPeekGap
    BY <1>6 DEF Dequeue, OnTime, Known, TypeOK, Candidate
  <2>2. PICK f \in [DOMAIN nodes' -> DOMAIN nodes] :
           \A i \in DOMAIN nodes' : nodes'[i] = nodes[f[i]] /\ f[i] # 1
    BY <2>1, RemovedArray
  <2>3. \A i \in DOMAIN nodes' : Until(nodes'[i]) >= s + MaxPeekGap
    <3> SUFFICES ASSUME NEW i \in DOMAIN nodes'
                 PROVE  Until(nodes'[i]) >= s + MaxPeekGap
      OBVIOUS
    <3>1. f[i] \in DOMAIN nodes /\ f[i] >= 2
      BY <2>2 DEF Known, TypeOK
    <3> QED
      BY <2>1, <2>2, <3>1
  <2> QED
    BY <2>1, <2>3 DEF OnTime, Scanning, Above, Until
<1>7. CASE JitRelease
  <2>1. jit.pc = "picked" /\ nodes' = nodes /\ jit'.pc = "idle" /\ jit'.time = jit.time
    BY <1>7 DEF JitRelease, Known, TypeOK
  <2> QED
    BY <2>1 DEF OnTime, Scanning, Above, Until
<1>8. CASE DownReadCounter \/ EnqueueFull \/ EnqueueNotFull \/ Tick \/ UNCHANGED vars
  <2>1. UNCHANGED <<nodes, jit>>
    BY <1>8 DEF DownReadCounter, EnqueueFull, EnqueueNotFull, Tick, vars
  <2> QED
    BY <1>1, <2>1
<1> QED
  BY <1>2, <1>3, <1>4, <1>5, <1>6, <1>7, <1>8 DEF Next, DownNext, PeekNext

\* So every jit_peek finds the packets s ahead.
LEMMA AlwaysOnTime ==
    ASSUME NEW longest, Steady(longest), NEW s \in Nat, Timely(s)
    PROVE  Spec => []OnTime(s)
<1>1. Init => OnTime(s)
  BY DEF Init, OnTime, Above, Scanning
<1>2. Known(longest) /\ OnTime(s) /\ [Next]_vars => OnTime(s)'
  BY OnTimeStep
<1>3. Spec => []Known(longest)
  BY KnownAlways
<1> QED
  BY <1>1, <1>2, <1>3, PTL DEF Spec

\* The packet thread_jit has dequeued departs within TX_JIT_DELAY of the counter it
\* read, and not before s has passed.
Handed(s) ==
    jit.pc = "picked" =>
        /\ jit.pkt \in Node
        /\ s <= Until(jit.pkt) /\ Until(jit.pkt) < JitDelay

\* What jit_dequeue takes is what jit_peek found due, s ahead.
LEMMA AlwaysHanded ==
    ASSUME NEW longest, Steady(longest), NEW s \in Nat, Timely(s)
    PROVE  Spec => []Handed(s)
<1>1. Init => Handed(s)
  BY DEF Init, Handed
<1>2. Known(longest) /\ OnTime(s) /\ PeekedDue /\ Handed(s) /\ [Next]_vars => Handed(s)'
  <2> SUFFICES ASSUME Known(longest), OnTime(s), PeekedDue, Handed(s), [Next]_vars
               PROVE  Handed(s)'
    OBVIOUS
  <2>1. CASE Dequeue
    <3>1. /\ jit.pc = "peeked" /\ jit.best \in DOMAIN nodes
          /\ jit'.pkt = nodes[jit.best] /\ jit'.time = jit.time
      BY <2>1 DEF Dequeue, Known, TypeOK, Candidate, Cell
    <3>2. Until(nodes[jit.best]) < JitDelay
      BY <3>1 DEF PeekedDue
    <3>3. s <= Until(nodes[jit.best])
      BY <3>1, Nearby DEF OnTime, Above
    <3>4. nodes[jit.best] \in Node
      BY <3>1, Nearby
    <3> QED
      BY <3>1, <3>2, <3>3, <3>4 DEF Handed, Until
  <2>2. CASE JitReadCounter \/ PeekEmpty \/ PeekBegin \/ PeekDrop \/ PeekKeep \/ PeekEnd
              \/ JitRelease
    <3>1. jit'.pc # "picked"
      BY <2>2 DEF JitReadCounter, PeekEmpty, PeekBegin, PeekDrop, PeekKeep, PeekEnd,
         JitRelease, Known, TypeOK
    <3> QED
      BY <3>1 DEF Handed
  <2>3. CASE EnqueueLocked
    <3>1. jit' = jit
      BY <2>3 DEF EnqueueLocked, RefuseTooLate, RefuseTooEarly, RefuseCollision, Refuse, Accept
    <3> QED
      BY <3>1 DEF Handed, Until
  <2>4. CASE DownReadCounter \/ EnqueueFull \/ EnqueueNotFull \/ Tick \/ UNCHANGED vars
    <3>1. jit' = jit
      BY <2>4 DEF DownReadCounter, EnqueueFull, EnqueueNotFull, Tick, vars
    <3> QED
      BY <3>1 DEF Handed, Until
  <2> QED
    BY <2>1, <2>2, <2>3, <2>4 DEF Next, DownNext, PeekNext
<1>3. Spec => []Known(longest)
  BY KnownAlways
<1>4. Spec => []OnTime(s)
  BY AlwaysOnTime
<1>5. Spec => []PeekedDue
  <2>1. MaxDownLag <= StartDelay + MarginDelay + JitDelay + 1
    BY SteadyFacts DEF Timely
  <2> QED
    BY <2>1, AlwaysPeekedDue
<1> QED
  BY <1>1, <1>2, <1>3, <1>4, <1>5, PTL DEF Spec

\* Every packet still queued is ahead of the counter jit_peek scans with: none was
\* missed, and jit_peek hands each over before its time.
THEOREM QueueMissesNothing ==
    ASSUME NEW longest, Steady(longest), Timely(0)
    PROVE  Spec => []NothingMissed
<1> PICK s \in Nat : s = 0
  OBVIOUS
<1>1. Known(longest) /\ OnTime(s) => NothingMissed
  <2> SUFFICES ASSUME Known(longest), OnTime(s), jit.pc = "scan", NEW i \in DOMAIN nodes
               PROVE  ~InPast(nodes[i].count, jit.time)
    BY DEF NothingMissed
  <2>1. Until(nodes[i]) >= 0
    BY DEF OnTime, Above
  <2>2. nodes[i].count \in Counter /\ jit.time \in Counter
    BY Nearby
  <2>3. Minus(nodes[i].count, jit.time) \in Nat /\ Minus(nodes[i].count, jit.time) < Wrap
    BY <2>2, PlusMinus
  <2> QED
    BY <2>1, <2>3, TimingAssumption DEF Until, Ahead
<1>2. Spec => []Known(longest)
  BY KnownAlways
<1>3. Spec => []OnTime(s)
  <2>1. Timely(s)
    OBVIOUS
  <2> QED
    BY <2>1, AlwaysOnTime
<1> QED
  BY <1>1, <1>2, <1>3, PTL

-----------------------------------------------------------------------------
(* Class C slots.                                                            *)

\* A queued packet reserves what its kind asks for.
PostOfKind == \A i \in DOMAIN nodes : nodes[i].post \in PostDelays(nodes[i].kind)

\* Every step keeps it: a node is inserted with it and moved as a whole.
LEMMA PostOfKindStep ==
    ASSUME TypeOK, PostOfKind, [Next]_vars
    PROVE  PostOfKind'
<1>1. nodes \in Seq(Node)
  BY DEF TypeOK
<1>2. ASSUME NEW k \in Nat, Remove(k)
      PROVE  PostOfKind'
  <2> DEFINE w == WithoutNode(nodes, k)
  <2>1. /\ w \in Seq(Node)
        /\ \E f \in [DOMAIN w -> DOMAIN nodes] : \A i \in DOMAIN w : w[i] = nodes[f[i]]
    BY <1>1, WithoutNodeOf
  <2>2. nodes' \in Arrangements(w)
    BY <1>2 DEF Remove
  <2> HIDE DEF w
  <2>3. PICK e \in [DOMAIN w -> DOMAIN nodes] : \A i \in DOMAIN w : w[i] = nodes[e[i]]
    BY <2>1
  <2>4. PICK f \in [DOMAIN nodes' -> DOMAIN w] :
           /\ \A i, j \in DOMAIN nodes' : f[i] = f[j] => i = j
           /\ \A i \in DOMAIN nodes' : nodes'[i] = w[f[i]]
           /\ \A j \in DOMAIN w : \E i \in DOMAIN nodes' : f[i] = j
    BY <2>1, <2>2, ArrangementMap
  <2>5. \A i \in DOMAIN nodes' : e[f[i]] \in DOMAIN nodes /\ nodes'[i] = nodes[e[f[i]]]
    BY <2>3, <2>4
  <2> QED
    BY <2>5 DEF PostOfKind, PostDelays
<1>3. CASE EnqueueLocked
  <2>1. PICK kind \in Offered : \E post \in PostDelays(kind) :
           \E c \in Departures(kind, post) :
              LET p == [count |-> c, kind |-> kind, post |-> post] IN
              RefuseTooLate(p) \/ RefuseTooEarly(p) \/ RefuseCollision(p) \/ Accept(p)
    BY <1>3 DEF EnqueueLocked
  <2>2. PICK post \in PostDelays(kind) : \E c \in Departures(kind, post) :
              LET p == [count |-> c, kind |-> kind, post |-> post] IN
              RefuseTooLate(p) \/ RefuseTooEarly(p) \/ RefuseCollision(p) \/ Accept(p)
    BY <2>1
  <2>3. PICK c \in Departures(kind, post) :
              LET p == [count |-> c, kind |-> kind, post |-> post] IN
              RefuseTooLate(p) \/ RefuseTooEarly(p) \/ RefuseCollision(p) \/ Accept(p)
    BY <2>2
  <2> DEFINE p == [count |-> c, kind |-> kind, post |-> post]
  <2>4. p \in Node /\ p.post \in PostDelays(p.kind)
    BY RequestType
  <2> HIDE DEF p
  <2>5. CASE RefuseTooLate(p) \/ RefuseTooEarly(p) \/ RefuseCollision(p)
    BY <2>5 DEF RefuseTooLate, RefuseTooEarly, RefuseCollision, Refuse, PostOfKind
  <2>6. CASE Accept(p)
    <3> DEFINE w == Append(nodes, p)
    <3>1. /\ w \in Seq(Node) /\ DOMAIN w = 1 .. Len(nodes) + 1 /\ Len(nodes) \in Nat
          /\ w[Len(nodes) + 1] = p /\ \A i \in 1 .. Len(nodes) : w[i] = nodes[i]
          /\ DOMAIN nodes = 1 .. Len(nodes)
      BY <1>1, <2>4
    <3>2. nodes' \in Arrangements(w)
      BY <2>6 DEF Accept
    <3> HIDE DEF w
    <3>3. PICK f \in [DOMAIN nodes' -> DOMAIN w] :
             /\ \A i, j \in DOMAIN nodes' : f[i] = f[j] => i = j
             /\ \A i \in DOMAIN nodes' : nodes'[i] = w[f[i]]
             /\ \A j \in DOMAIN w : \E i \in DOMAIN nodes' : f[i] = j
      BY <3>1, <3>2, ArrangementMap, ZenonT(40)
    <3>4. \A i \in DOMAIN w : w[i].post \in PostDelays(w[i].kind)
      <4> SUFFICES ASSUME NEW i \in DOMAIN w
                   PROVE  w[i].post \in PostDelays(w[i].kind)
        OBVIOUS
      <4>1. i = Len(nodes) + 1 \/ i \in 1 .. Len(nodes)
        BY <3>1
      <4> QED
        BY <2>4, <3>1, <4>1 DEF PostOfKind
    <3> QED
      BY <3>3, <3>4 DEF PostOfKind, PostDelays
  <2> QED
    BY <2>3, <2>5, <2>6 DEF p
<1>4. CASE PeekDrop
  BY <1>2, <1>4 DEF PeekDrop, TypeOK
<1>5. CASE Dequeue
  BY <1>2, <1>5 DEF Dequeue, TypeOK
<1>6. CASE ~EnqueueLocked /\ ~PeekDrop /\ ~Dequeue
  <2>1. UNCHANGED nodes
    BY <1>6 DEF Next, DownNext, PeekNext, DownReadCounter, EnqueueFull, EnqueueNotFull,
       JitReadCounter, PeekEmpty, PeekBegin, PeekKeep, PeekEnd, JitRelease, Tick, vars
  <2> QED
    BY <2>1 DEF PostOfKind, PostDelays
<1> QED
  BY <1>3, <1>4, <1>5, <1>6

\* Between two queued departures lie the lead of the later and the time on air of
\* the earlier.
LEMMA Gap ==
    ASSUME NEW longest, Steady(longest), Known(longest),
           NEW i \in DOMAIN nodes, NEW j \in DOMAIN nodes, i < j
    PROVE  /\ Until(nodes[j]) - Until(nodes[i])
                 > Lead(nodes[j], nodes[i]) + nodes[i].post + MarginDelay
           /\ Lead(nodes[j], nodes[i]) \in Nat /\ Lead(nodes[j], nodes[i]) >= StartDelay
           /\ ~IsBeacon(nodes[j]) => Lead(nodes[j], nodes[i]) >= StartDelay + JitDelay
<1>1. /\ Until(nodes[i]) \in Int /\ Until(nodes[j]) \in Int /\ jit.time \in Counter
      /\ nodes[i] \in Node /\ nodes[j] \in Node
  BY Nearby
<1>2. Until(nodes[i]) < Until(nodes[j])
  BY DEF Known, Sorted
<1>3. Minus(nodes[j].count, nodes[i].count) = Until(nodes[j]) - Until(nodes[i])
  BY <1>1, <1>2, DelayType, MinusAhead DEF Until
<1>4. Apart(nodes[j], nodes[i])
  <2>1. i # j
    BY DEF Known, TypeOK
  <2> QED
    BY <2>1 DEF Known, NoOverlap
<1>5. /\ Lead(nodes[j], nodes[i]) \in Nat /\ Lead(nodes[j], nodes[i]) >= StartDelay
      /\ ~IsBeacon(nodes[j]) => Lead(nodes[j], nodes[i]) >= StartDelay + JitDelay
  BY TimingAssumption DEF Lead, PreDelay, IsBeacon
<1> QED
  BY <1>3, <1>4, <1>5 DEF Apart

\* The delays of the slot search within the horizon.
LEMMA SlotDelays ==
    ASSUME NEW longest, Steady(longest)
    PROVE  /\ StartDelay + JitDelay + longest + MarginDelay <= Horizon(longest)
           /\ longest + StartDelay + 2 * JitDelay + MarginDelay <= Stride(longest)
           /\ StartDelay + JitDelay + longest + MarginDelay \in Nat
           /\ MaxDownLag + 2 * MaxPeekGap \in Nat
           /\ 2 * ((MaxDownLag + 2 * MaxPeekGap) + Horizon(longest)) < Wrap
           /\ BeaconReserved \in Nat
<1>1. StartDelay + JitDelay + longest + MarginDelay <= Spacing(longest)
  BY SteadyFacts DEF Spacing
<1>2. longest + StartDelay + 2 * JitDelay + MarginDelay <= Stride(longest)
  BY SteadyFacts DEF Stride
<1>3. /\ MaxDownLag + 2 * MaxPeekGap \in Nat
      /\ 2 * ((MaxDownLag + 2 * MaxPeekGap) + Horizon(longest)) < Wrap
  BY SteadyFacts, TimingAssumption DEF Steady
<1> QED
  BY <1>1, <1>2, <1>3, SteadyFacts, TimingAssumption

\* u is the slot after x, whose time on air is xp: it is clear of x, and of a y that
\* is clear of x.
LEMMA ClearBehind ==
    ASSUME NEW s \in Nat, NEW j \in Nat, NEW m \in Nat, 0 < j,
           NEW x \in Int, NEW y \in Int, NEW xp \in Nat, NEW yp \in Nat, NEW u \in Int,
           u = x + xp + s + 2 * j + m,
           (x = y /\ xp = yp) \/ x - y > yp + m
    PROVE  u - y > s + j + yp + m
OBVIOUS

\* z is apart from x by the lead l, and not in collision with the slot u after x: then
\* it lies behind u.  The lead that is left out is that of a beacon, whose reserved
\* time zp makes up for it.
LEMMA SlotBefore ==
    ASSUME NEW s \in Nat, NEW j \in Nat, NEW m \in Nat,
           NEW x \in Int, NEW z \in Int, NEW xp \in Nat, NEW zp \in Nat, NEW u \in Int,
           NEW l \in Nat, u = x + xp + s + 2 * j + m, z - x > l + xp + m,
           l >= s, l >= s + j \/ j <= s + zp + m + 1,
           u >= z => u - z > s + j + zp + m
    PROVE  u < z
<1>1. u - z < s + 2 * j - l
  OBVIOUS
<1> QED
  BY <1>1

\* Half a roll-over is more than any collision asks for.
LEMMA WrapClear ==
    ASSUME NEW w \in Nat, NEW h \in Nat, NEW far \in Nat, 2 * (far + h) < w,
           NEW u \in Int, NEW y \in Int, u <= h, -far <= y,
           NEW d \in Nat, d <= h
    PROVE  y - u + w > d
OBVIOUS

\* The slot the search ends in is free of every node, not only of the successor it
\* was tested against.
LEMMA SlotFree ==
    ASSUME NEW longest, Steady(longest), Known(longest), PostOfKind,
           0 < JitDelay, JitDelay <= StartDelay + BeaconReserved + MarginDelay + 1,
           NEW post \in Airtimes, NEW c \in Counter, NEW i \in DOMAIN nodes,
           Until(nodes[i]) <= Horizon(longest) - Stride(longest),
           Ahead(c, jit.time) = Until(nodes[i]) + nodes[i].post
                                   + StartDelay + 2 * JitDelay + MarginDelay,
           i # Len(nodes) => ~Collides(ClassC(c, post), nodes[i + 1]),
           NEW j \in DOMAIN nodes
    PROVE  /\ Minus(c, nodes[j].count) > StartDelay + JitDelay + nodes[j].post + MarginDelay
           /\ Minus(nodes[j].count, c) > StartDelay + JitDelay + post + MarginDelay
<1> DEFINE u == Ahead(c, jit.time)
           x == Until(nodes[i])
           y == Until(nodes[j])
           xp == nodes[i].post
           yp == nodes[j].post
           far == MaxDownLag + 2 * MaxPeekGap
           h == Horizon(longest)
           d == StartDelay + JitDelay + longest + MarginDelay
<1>1. /\ longest \in Nat /\ Wrap \in Nat /\ StartDelay \in Nat /\ MarginDelay \in Nat
      /\ JitDelay \in Nat /\ far \in Nat /\ h \in Nat /\ 2 * (far + h) < Wrap
  <2>1. /\ longest \in Nat /\ Wrap \in Nat /\ StartDelay \in Nat /\ MarginDelay \in Nat
        /\ JitDelay \in Nat /\ h \in Nat
    BY SteadyFacts
  <2> QED
    BY <2>1, SlotDelays
<1>2. d \in Nat /\ d <= h
  BY SlotDelays
<1>3. /\ x \in Int /\ y \in Int /\ -far <= x /\ -far <= y /\ y <= h
      /\ nodes[i] \in Node /\ nodes[j] \in Node /\ jit.time \in Counter
  <2>1. Late \in Nat /\ Late <= MaxDownLag /\ MaxPeekGap \in Nat /\ MaxDownLag \in Nat
    BY SteadyFacts
  <2>2. /\ x \in Int /\ y \in Int
        /\ -(Late + 2 * MaxPeekGap) <= x /\ -(Late + 2 * MaxPeekGap) <= y /\ y <= h
        /\ nodes[i] \in Node /\ nodes[j] \in Node /\ jit.time \in Counter
    BY Nearby
  <2> HIDE DEF x, y, h
  <2> QED
    BY <2>1, <2>2
<1>4. xp \in Nat /\ xp <= longest /\ yp \in Nat /\ yp <= longest /\ post \in Nat /\ post <= longest
  <2>1. xp \in Nat /\ xp <= longest /\ yp \in Nat /\ yp <= longest
    BY <1>3, DelayBounds
  <2> QED
    BY <2>1, TimingAssumption DEF Steady
<1>5. u \in Int /\ u = x + xp + StartDelay + 2 * JitDelay + MarginDelay
  BY <1>3, AheadType
<1>6. -far <= u /\ u <= h
  <2>1. /\ longest + StartDelay + 2 * JitDelay + MarginDelay <= Stride(longest)
        /\ Stride(longest) \in Nat /\ x <= h - Stride(longest)
    BY SlotDelays, SteadyFacts
  <2> HIDE DEF u, x, xp, far, h
  <2> QED
    BY <1>1, <1>3, <1>4, <1>5, <2>1
<1>7. /\ Minus(c, nodes[j].count) = IF u >= y THEN u - y ELSE u - y + Wrap
      /\ Minus(nodes[j].count, c) = IF y >= u THEN y - u ELSE y - u + Wrap
  BY <1>3, DelayType, MinusAhead DEF Until
<1>8. Len(nodes) \in Nat /\ DOMAIN nodes = 1 .. Len(nodes) /\ i \in Nat /\ j \in Nat
  BY DEF Known, TypeOK
<1>9. CASE j <= i
  <2>1. (x = y /\ xp = yp) \/ x - y > yp + MarginDelay
    <3>1. CASE j = i
      BY <3>1
    <3>2. CASE j < i
      <4> DEFINE l == Lead(nodes[i], nodes[j])
      <4>1. x - y > l + yp + MarginDelay /\ l \in Nat
        BY <3>2, Gap
      <4> HIDE DEF l, x, y, yp
      <4> QED
        BY <1>1, <1>3, <1>4, <4>1
    <3> QED
      BY <1>8, <1>9, <3>1, <3>2
  <2> HIDE DEF u, x, y, xp, yp, far, h, d
  <2>2. u - y > StartDelay + JitDelay + yp + MarginDelay
    BY <1>1, <1>3, <1>4, <1>5, <2>1, ClearBehind
  <2>3. y - u + Wrap > d
    BY <1>1, <1>2, <1>3, <1>5, <1>6, WrapClear
  <2>4. u > y
    <3>1. StartDelay + JitDelay + yp + MarginDelay \in Nat
      BY <1>1, <1>4
    <3> DEFINE g == StartDelay + JitDelay + yp + MarginDelay
    <3>2. u \in Int /\ y \in Int /\ g \in Nat /\ u - y > g
      BY <1>3, <1>5, <2>2, <3>1
    <3> HIDE DEF g
    <3> QED
      BY <3>2
  <2>5. y - u + Wrap > StartDelay + JitDelay + post + MarginDelay
    BY <1>1, <1>3, <1>4, <1>5, <2>3 DEF d
  <2> QED
    BY <1>3, <1>5, <1>7, <2>2, <2>4, <2>5 DEF yp
<1>10. CASE i < j
  <2> DEFINE q == nodes[i + 1]
             z == Until(q)
             zp == q.post
  <2>1. i + 1 \in DOMAIN nodes /\ i # Len(nodes) /\ i < i + 1
    BY <1>8, <1>10
  <2>2. z \in Int /\ q \in Node /\ zp \in Nat
    BY <2>1, Nearby, DelayType
  <2>3. /\ Minus(c, q.count) = IF u >= z THEN u - z ELSE u - z + Wrap
        /\ Minus(q.count, c) = IF z >= u THEN z - u ELSE z - u + Wrap
    BY <1>3, <2>2, DelayType, MinusAhead DEF Until
  <2>4. /\ Minus(c, q.count) > StartDelay + JitDelay + zp + MarginDelay
        /\ Minus(q.count, c) > StartDelay + JitDelay + post + MarginDelay
    <3>1. ~CollisionTest(ClassC(c, post), PreDelay("C"), q, PreDelay(q.kind))
      BY <2>1, ClassCType DEF Collides
    <3>2. PreDelay("C") = StartDelay + JitDelay
      BY <1>1 DEF PreDelay
    <3>3. PreDelay(q.kind) \in Nat /\ PreDelay(q.kind) >= StartDelay + JitDelay
      BY <2>2, DelayBounds
    <3>4. Minus(c, q.count) \in Nat /\ Minus(q.count, c) \in Nat
      BY <2>2, DelayType, PlusMinus
    <3>5. /\ ~(Minus(c, q.count) <= PreDelay("C") + zp + MarginDelay)
          /\ ~(Minus(q.count, c) <= PreDelay(q.kind) + post + MarginDelay)
      BY <3>1, ClassCType DEF CollisionTest
    <3> DEFINE pq == PreDelay(q.kind)
               m == Minus(c, q.count)
               r == Minus(q.count, c)
    <3>6. pq \in Nat /\ pq >= StartDelay + JitDelay /\ m \in Nat /\ r \in Nat
          /\ ~(m <= StartDelay + JitDelay + zp + MarginDelay) /\ ~(r <= pq + post + MarginDelay)
      BY <3>2, <3>3, <3>4, <3>5
    <3> HIDE DEF pq, m, r, zp, d, far, h, u, x, y, xp, yp
    <3>7. m > StartDelay + JitDelay + zp + MarginDelay /\ r > StartDelay + JitDelay + post + MarginDelay
      BY <1>1, <1>4, <2>2, <3>6, SMTT(30)
    <3> QED
      BY <3>7 DEF m, r
  <2>5. u < z
    <3> DEFINE l == Lead(q, nodes[i])
    <3>1. /\ z - x > l + xp + MarginDelay
          /\ l \in Nat /\ l >= StartDelay
          /\ ~IsBeacon(q) => l >= StartDelay + JitDelay
      BY <2>1, Gap
    <3>2. IsBeacon(q) => zp = BeaconReserved
      BY <2>1 DEF PostOfKind, PostDelays, IsBeacon
    <3>5. JitDelay <= StartDelay + BeaconReserved + MarginDelay + 1
      OBVIOUS
    <3>3. u >= z => u - z > StartDelay + JitDelay + zp + MarginDelay
      BY <2>3, <2>4
    <3>4. l >= StartDelay + JitDelay \/ JitDelay <= StartDelay + zp + MarginDelay + 1
      <4>1. CASE IsBeacon(q)
        <5>1. zp = BeaconReserved
          BY <3>2, <4>1
        <5> QED
          BY <3>5, <5>1
      <4>2. CASE ~IsBeacon(q)
        BY <3>1, <4>2
      <4> QED
        BY <4>1, <4>2
    <3>6. l \in Nat /\ z \in Int /\ zp \in Nat
      BY <2>2, <3>1
    <3> HIDE DEF l, u, x, z, xp, zp, q
    <3>7. /\ StartDelay \in Nat /\ JitDelay \in Nat /\ MarginDelay \in Nat /\ x \in Int
          /\ xp \in Nat /\ u \in Int /\ u = x + xp + StartDelay + 2 * JitDelay + MarginDelay
      BY <1>1, <1>3, <1>4, <1>5
    <3>8. z - x > l + xp + MarginDelay /\ l >= StartDelay
      BY <3>1
    <3> QED
      BY <3>3, <3>4, <3>6, <3>7, <3>8, SlotBefore
  <2>6. z - u > StartDelay + JitDelay + post + MarginDelay
    BY <2>2, <1>5, <2>3, <2>4, <2>5
  <2>7. z <= y
    <3>1. i + 1 = j \/ i + 1 < j
      BY <1>8, <1>10
    <3>2. i + 1 < j => z < y
      BY <2>1 DEF Known, Sorted
    <3> QED
      BY <1>3, <2>2, <3>1, <3>2
  <2> HIDE DEF u, x, y, z, xp, yp, zp, q, far, h, d
  <2>8. y > u /\ y - u > StartDelay + JitDelay + post + MarginDelay
    BY <1>1, <1>3, <1>4, <1>5, <2>2, <2>5, <2>6, <2>7
  <2>9. u - y + Wrap > d
    BY <1>1, <1>2, <1>3, <1>5, <1>6, WrapClear
  <2>10. u - y + Wrap > StartDelay + JitDelay + yp + MarginDelay
    BY <1>1, <1>3, <1>4, <1>5, <2>9 DEF d
  <2> QED
    BY <1>3, <1>5, <1>7, <2>8, <2>10 DEF yp
<1> QED
  BY <1>8, <1>9, <1>10

\* A class C downlink is never refused for a collision: the slot search, which looks
\* at one node at a time and at the guards of beacons, ends on free air.
THEOREM ClassCFindsFreeAir ==
    ASSUME NEW longest, Steady(longest),
           0 < JitDelay, JitDelay <= StartDelay + BeaconReserved + MarginDelay + 1
    PROVE  Spec => []ClassCNeverCollides
<1>1. Init => PostOfKind
  BY DEF Init, PostOfKind
<1>2. TypeOK /\ PostOfKind /\ [Next]_vars => PostOfKind'
  BY PostOfKindStep
<1>3. Known(longest) /\ PostOfKind => ClassCNeverCollides
  <2> SUFFICES ASSUME Known(longest), PostOfKind, down.pc = "room",
                      NEW post \in Airtimes, NEW c \in AsapTimes(nodes, down.time, post),
                      NEW j \in DOMAIN nodes
               PROVE  ~CollisionTest(ClassC(c, post), PreDelay("C"), nodes[j],
                                     TargetPre(ClassC(c, post), nodes[j]))
    BY ClassCType DEF ClassCNeverCollides, Blockers, ClassC
  <2> DEFINE q == nodes[j]
             tp == TargetPre(ClassC(c, post), q)
  <2>1. q \in Node /\ q.post \in Nat /\ q.count \in Counter /\ PreDelay(q.kind) \in Nat
    BY Nearby, DelayType
  <2>2. /\ StartDelay \in Nat /\ JitDelay \in Nat /\ MarginDelay \in Nat /\ BeaconGuard \in Nat
        /\ post \in Nat
    BY SteadyFacts, TimingAssumption
  <2>3. PreDelay("C") = StartDelay + JitDelay
    BY <2>2 DEF PreDelay
  <2>4. tp \in Nat /\ tp <= PreDelay(q.kind) /\ tp <= StartDelay + JitDelay
    BY <2>2, ClassCType DEF TargetPre, PreDelay, IsBeacon, ClassC
  <2>5. CASE c = Plus(down.time, 2 * JitDelay)
             /\ \A i \in DOMAIN nodes : ~Collides(ClassC(c, post), nodes[i])
    <3>1. ~CollisionTest(ClassC(c, post), PreDelay("C"), q, PreDelay(q.kind))
      BY <2>5 DEF Collides, ClassC
    <3>2. c \in Counter
      <4>1. 2 * JitDelay \in Nat
        BY <2>2
      <4> QED
        BY <2>5, <4>1, AfterReading
    <3>3. Minus(q.count, c) \in Nat
      BY <2>1, <3>2, PlusMinus
    <3>4. ~(Minus(q.count, c) <= PreDelay(q.kind) + post + MarginDelay)
      BY <3>1 DEF CollisionTest, ClassC
    <3>5. ~(Minus(q.count, c) <= tp + post + MarginDelay)
      <4> DEFINE pq == PreDelay(q.kind)
                 r == Minus(q.count, c)
      <4>1. r \in Nat /\ pq \in Nat /\ tp \in Nat /\ tp <= pq /\ ~(r <= pq + post + MarginDelay)
        BY <2>1, <2>4, <3>3, <3>4
      <4> HIDE DEF pq, r, tp
      <4>2. ~(r <= tp + post + MarginDelay)
        BY <2>2, <4>1
      <4> QED
        BY <4>2 DEF r
    <3> QED
      BY <3>1, <3>5 DEF CollisionTest, ClassC
  <2>6. ASSUME NEW i \in DOMAIN nodes, c \in Counter,
               Until(nodes[i]) <= Horizon(longest) - Stride(longest),
               Ahead(c, jit.time) = Until(nodes[i]) + nodes[i].post
                                       + StartDelay + 2 * JitDelay + MarginDelay,
               i # Len(nodes) => ~Collides(ClassC(c, post), nodes[i + 1])
        PROVE  ~CollisionTest(ClassC(c, post), PreDelay("C"), q, tp)
    <3>1. /\ Minus(c, q.count) > StartDelay + JitDelay + q.post + MarginDelay
          /\ Minus(q.count, c) > StartDelay + JitDelay + post + MarginDelay
      BY <2>6, SlotFree
    <3>2. Minus(c, q.count) \in Nat /\ Minus(q.count, c) \in Nat
      BY <2>1, <2>6, PlusMinus
    <3> DEFINE m == Minus(c, q.count)
               r == Minus(q.count, c)
               qp == q.post
    <3>3. m \in Nat /\ r \in Nat /\ qp \in Nat /\ tp \in Nat /\ tp <= StartDelay + JitDelay
          /\ m > StartDelay + JitDelay + qp + MarginDelay
          /\ r > StartDelay + JitDelay + post + MarginDelay
      BY <2>1, <2>4, <3>1, <3>2
    <3> HIDE DEF m, r, qp, tp
    <3>4. ~(m <= StartDelay + JitDelay + qp + MarginDelay) /\ ~(r <= tp + post + MarginDelay)
      BY <2>2, <3>3
    <3> QED
      BY <2>3, <3>4 DEF CollisionTest, ClassC, m, r, qp
  <2> QED
    BY <2>5, <2>6, AsapOffset
<1>4. Spec => []Known(longest)
  BY KnownAlways
<1>5. Spec => []TypeOK
  BY TypeCorrect, PTL
<1> QED
  BY <1>1, <1>2, <1>3, <1>4, <1>5, PTL DEF Spec

-----------------------------------------------------------------------------
(* The transmit path.                                                        *)

\* Every step of the transmit path is a step of the queue, or leaves it alone.
LEMMA TxStep == [TxNext]_txvars => [Next]_vars
<1> SUFFICES ASSUME [TxNext]_txvars
             PROVE  [Next]_vars
  OBVIOUS
<1>1. CASE DownNext \/ PeekNext
  BY <1>1 DEF Next
<1>2. CASE SkipEmitting \/ SendFails \/ Send
  BY <1>2 DEF SkipEmitting, SendFails, Send, Next
<1>3. CASE PassStatus \/ RadioStart \/ RadioDone
  BY <1>3 DEF PassStatus, RadioStart, RadioDone
<1>4. CASE TxTick
  BY <1>4 DEF TxTick, Next
<1>5. CASE UNCHANGED txvars
  BY <1>5 DEF txvars
<1> QED
  BY <1>1, <1>2, <1>3, <1>4, <1>5 DEF TxNext

\* The transmit path implements the queue.
THEOREM TxImplementsQueue == TxSpec => Spec
<1>1. TxInit => Init
  BY DEF TxInit
<1> QED
  BY <1>1, TxStep, PTL DEF TxSpec, Spec

\* With the radio chain at work, no two queued transmissions meet.
THEOREM TxNeverOverlaps == TxSpec => []NoOverlap
BY TxImplementsQueue, QueueNeverOverlaps, PTL

-----------------------------------------------------------------------------
(* The trigger of a programmed packet.                                       *)

\* The trigger of a departure that is still ahead by the start delay.
LEMMA TriggerOffset ==
    ASSUME NEW longest, Steady(longest), NEW p, p.count \in Counter, NEW t \in Counter,
           StartDelay <= Ahead(p.count, t)
    PROVE  /\ Minus(Trigger(p), t) = Ahead(p.count, t) - StartDelay
           /\ t = Trigger(p) <=> Ahead(p.count, t) = StartDelay
<1> DEFINE c == p.count
<1>1. /\ c \in Int /\ t \in Int /\ Wrap \in Int /\ StartDelay \in Nat
      /\ 0 <= c /\ c < Wrap /\ 0 <= t /\ t < Wrap
  BY TimingAssumption DEF Counter
<1>2. StartDelay < Wrap
  BY SteadyFacts DEF Spacing
<1>3. /\ Ahead(c, t) \in Int /\ 2 * Ahead(c, t) < Wrap
      /\ Ahead(c, t) \in {c - t, c - t + Wrap, c - t - Wrap}
  BY AheadType
<1>4. Ahead(c, t) \in {c - t, c - t + Wrap}
  BY <1>1, <1>3
<1>5. Trigger(p) = IF c >= StartDelay THEN c - StartDelay ELSE c - StartDelay + Wrap
  BY DEF Trigger, Minus
<1> HIDE DEF c
<1> QED
  BY <1>1, <1>2, <1>3, <1>4, <1>5 DEF Minus, c

\* The end of a transmission that has not ended yet.
LEMMA EndOffset ==
    ASSUME NEW longest, Steady(longest), NEW p \in Node, NEW t \in Counter,
           -p.post <= Ahead(p.count, t), Ahead(p.count, t) < JitDelay
    PROVE  t = Plus(p.count, p.post) <=> Ahead(p.count, t) = -p.post
<1> DEFINE c == p.count
           d == p.post
<1>1. /\ c \in Int /\ t \in Int /\ Wrap \in Int
      /\ 0 <= c /\ c < Wrap /\ 0 <= t /\ t < Wrap
  BY TimingAssumption DEF Counter, Node
<1>2. /\ d \in Nat /\ d <= longest /\ longest \in Nat /\ JitDelay \in Nat
      /\ 2 * (longest + JitDelay) < Wrap
  BY DelayBounds, SteadyFacts DEF Spacing
<1>3. /\ Ahead(c, t) \in Int
      /\ Ahead(c, t) \in {c - t, c - t + Wrap, c - t - Wrap}
  BY AheadType DEF Node
<1>4. -d <= Ahead(c, t) /\ Ahead(c, t) < JitDelay
  OBVIOUS
<1> HIDE DEF c, d
<1>5. t = Plus(c, d) <=> Ahead(c, t) = -d
  BY <1>1, <1>2, <1>3, <1>4 DEF Plus
<1> QED
  BY <1>5 DEF c, d

\* One tick of the counter.
LEMMA TickOffset ==
    ASSUME NEW longest, Steady(longest), NEW c \in Counter, NEW t \in Counter,
           NEW x \in Int, x <= longest, -x < Ahead(c, t)
    PROVE  /\ Plus(t, 1) \in Counter
           /\ Ahead(c, Plus(t, 1)) = Ahead(c, t) - 1
<1>1. /\ t \in Int /\ Wrap \in Int /\ 0 <= t /\ t < Wrap /\ longest \in Nat
      /\ 2 * longest < Wrap /\ Wrap > 1
  BY TimingAssumption, QueueAssumption, SteadyFacts DEF Counter, Spacing
<1>2. Plus(t, 1) \in Counter /\ Minus(Plus(t, 1), t) = 1
  <2>1. CASE t + 1 < Wrap
    BY <1>1, <2>1 DEF Plus, Minus, Counter
  <2>2. CASE t + 1 = Wrap
    <3>1. Plus(t, 1) = 0
      BY <1>1, <2>2 DEF Plus
    <3> QED
      BY <1>1, <2>2, <3>1 DEF Minus, Counter
  <2> QED
    BY <1>1, <2>1, <2>2
<1>3. Ahead(c, t) \in Int
  BY AheadType
<1>4. -Wrap <= 2 * (Ahead(c, t) - Minus(Plus(t, 1), t))
  BY <1>1, <1>2, <1>3
<1> QED
  BY <1>2, <1>4, AheadShift

\* While thread_jit holds a packet, its departure stays ahead of the counter.
LEMMA HandedAhead ==
    ASSUME NEW longest, Steady(longest), Known(longest), Handed(StartDelay + MaxPeekGap),
           jit.pc = "picked"
    PROVE  /\ jit.pkt \in Node
           /\ StartDelay <= Ahead(jit.pkt.count, now) /\ Ahead(jit.pkt.count, now) < JitDelay
<1>1. /\ StartDelay \in Nat /\ MaxPeekGap \in Nat /\ JitDelay \in Nat
  BY SteadyFacts
<1>2. /\ jit.pkt \in Node /\ jit.pkt.count \in Counter /\ jit.time \in Counter /\ now \in Counter
      /\ StartDelay + MaxPeekGap <= Until(jit.pkt) /\ Until(jit.pkt) < JitDelay
  BY ClockOffsets DEF Handed, Node
<1>3. Until(jit.pkt) \in Int
  BY <1>2, AheadType DEF Until
<1>4. Minus(now, jit.time) \in 0 .. MaxPeekGap
  BY ClockOffsets
<1>5. Ahead(jit.pkt.count, now) = Until(jit.pkt) - Minus(now, jit.time)
  <2>1. -Wrap <= 2 * (Until(jit.pkt) - Minus(now, jit.time))
    BY <1>1, <1>2, <1>3, <1>4, TimingAssumption
  <2> QED
    BY <1>2, <2>1, AheadShift DEF Until
<1> QED
  BY <1>1, <1>2, <1>3, <1>4, <1>5

\* The radio holds a packet that is to start within TX_JIT_DELAY, or one that has
\* started and is not over.
OnAir ==
    /\ radio.state \in {"free", "scheduled", "emitting"}
    /\ radio.state # "free" =>
          /\ radio.pkt \in Node
          /\ Ahead(radio.pkt.count, now) < JitDelay
    /\ radio.state = "scheduled" => StartDelay <= Ahead(radio.pkt.count, now)
    /\ radio.state = "emitting" => -radio.pkt.post <= Ahead(radio.pkt.count, now)

\* Sending arms the trigger of a packet that is still ahead, time stops at the trigger
\* and at the end, and the radio's own steps follow.
LEMMA OnAirStep ==
    ASSUME NEW longest, Steady(longest), Timely(StartDelay + MaxPeekGap), Known(longest),
           Handed(StartDelay + MaxPeekGap), OnAir, [TxNext]_txvars
    PROVE  OnAir'
<1>1. /\ StartDelay \in Nat /\ MaxPeekGap \in Nat /\ JitDelay \in Nat
      /\ StartDelay \in Int /\ now \in Counter
      /\ longest \in Nat
  BY SteadyFacts DEF Timely, Known, TypeOK
<1>2. ASSUME radio' = radio, now' = now
      PROVE  OnAir'
  BY <1>2 DEF OnAir
<1>3. CASE (DownNext \/ PeekNext) /\ UNCHANGED <<radio, checked>>
  <2>1. now' = now
    BY <1>3, ZenonT(40) DEF DownNext, PeekNext, DownReadCounter, EnqueueFull, EnqueueNotFull,
       EnqueueLocked, RefuseTooLate, RefuseTooEarly, RefuseCollision, Refuse, Accept,
       JitReadCounter, PeekEmpty, PeekBegin, PeekDrop, PeekKeep, PeekEnd, Dequeue
  <2> QED
    BY <1>2, <1>3, <2>1
<1>4. CASE SkipEmitting \/ PassStatus \/ SendFails \/ UNCHANGED txvars
  <2>1. radio' = radio /\ now' = now
    BY <1>4 DEF SkipEmitting, PassStatus, SendFails, JitRelease, txvars, vars
  <2> QED
    BY <1>2, <2>1
<1>5. CASE Send
  <2>1. /\ jit.pc = "picked" /\ now' = now
        /\ radio'.state = "scheduled" /\ radio'.pkt = jit.pkt
    BY <1>5 DEF Send, JitRelease
  <2>2. /\ jit.pkt \in Node
        /\ StartDelay <= Ahead(jit.pkt.count, now) /\ Ahead(jit.pkt.count, now) < JitDelay
    BY <2>1, HandedAhead
  <2> QED
    BY <2>1, <2>2 DEF OnAir
<1>6. CASE RadioStart
  <2>1. /\ radio.state = "scheduled" /\ now' = now
        /\ radio'.state = "emitting" /\ radio'.pkt = radio.pkt
    BY <1>6 DEF RadioStart, Starting, vars
  <2>2. /\ radio.pkt \in Node /\ StartDelay <= Ahead(radio.pkt.count, now)
        /\ Ahead(radio.pkt.count, now) < JitDelay
    BY <2>1 DEF OnAir
  <2>3. Ahead(radio.pkt.count, now) \in Int /\ radio.pkt.post \in Nat
    BY <1>1, <2>2, AheadType, DelayBounds DEF Node
  <2> DEFINE a == Ahead(radio.pkt.count, now)
             d == radio.pkt.post
  <2>4. -d <= a
    <3>1. a \in Int /\ d \in Nat /\ StartDelay <= a
      BY <2>2, <2>3
    <3> HIDE DEF a, d
    <3> QED
      BY <1>1, <3>1
  <2> QED
    BY <2>1, <2>2, <2>4 DEF OnAir
<1>7. CASE RadioDone
  BY <1>7 DEF RadioDone, OnAir
<1>8. CASE TxTick
  <2>1. /\ radio' = radio /\ now' = Plus(now, 1) /\ ~Starting /\ ~Ending
    BY <1>8 DEF TxTick, Tick
  <2> DEFINE c == radio.pkt.count
  <2>2. CASE radio.state = "free"
    BY <2>1, <2>2 DEF OnAir
  <2>3. CASE radio.state = "scheduled"
    <3>1. /\ radio.pkt \in Node /\ c \in Counter /\ c \in Counter
          /\ StartDelay <= Ahead(c, now) /\ Ahead(c, now) < JitDelay
      BY <2>3 DEF OnAir, Node
    <3>2. Ahead(c, now) # StartDelay
      BY <1>1, <2>1, <2>3, <3>1, TriggerOffset DEF Starting
    <3>3. Ahead(c, now) \in Int
      BY <1>1, <3>1, AheadType
    <3>4. Ahead(c, Plus(now, 1)) = Ahead(c, now) - 1
      <4>1. PICK x \in Int : x = 0
        OBVIOUS
      <4>2. x <= longest /\ -x < Ahead(c, now)
        BY <1>1, <3>1, <3>2, <3>3, <4>1
      <4> QED
        BY <1>1, <3>1, <4>2, TickOffset
    <3> DEFINE a == Ahead(c, now)
    <3>5. StartDelay <= a - 1 /\ a - 1 < JitDelay
      <4>1. a \in Int /\ StartDelay <= a /\ a < JitDelay /\ a # StartDelay
        BY <3>1, <3>2, <3>3
      <4> HIDE DEF a
      <4> QED
        BY <1>1, <4>1
    <3> QED
      BY <2>1, <2>3, <3>1, <3>4, <3>5 DEF OnAir
  <2>4. CASE radio.state = "emitting"
    <3> DEFINE d == radio.pkt.post
    <3>1. /\ radio.pkt \in Node /\ c \in Counter
          /\ -d <= Ahead(c, now) /\ Ahead(c, now) < JitDelay
      BY <2>4 DEF OnAir, Node
    <3>2. Ahead(c, now) # -d
      BY <1>1, <2>1, <2>4, <3>1, EndOffset DEF Ending
    <3>3. Ahead(c, now) \in Int /\ d \in Nat /\ d <= longest
      BY <1>1, <3>1, AheadType, DelayBounds
    <3>4. Ahead(c, Plus(now, 1)) = Ahead(c, now) - 1
      <4>1. d \in Int /\ -d < Ahead(c, now)
        BY <3>1, <3>2, <3>3
      <4> QED
        BY <1>1, <3>1, <3>3, <4>1, TickOffset
    <3> DEFINE a == Ahead(c, now)
    <3>5. -d <= a - 1 /\ a - 1 < JitDelay
      <4>1. a \in Int /\ d \in Nat /\ -d <= a /\ a < JitDelay /\ a # -d
        BY <3>1, <3>2, <3>3
      <4> HIDE DEF a, d
      <4> QED
        BY <1>1, <4>1
    <3> QED
      BY <2>1, <2>4, <3>1, <3>4, <3>5 DEF OnAir
  <2> QED
    BY <2>2, <2>3, <2>4 DEF OnAir
<1> QED
  BY <1>3, <1>4, <1>5, <1>6, <1>7, <1>8 DEF TxNext

\* While the two tasks keep their pace, every packet is programmed before its trigger:
\* the comparator meets it within TX_JIT_DELAY, not a turn of the counter later.
THEOREM ProgrammedAhead ==
    ASSUME NEW longest, Steady(longest), Timely(StartDelay + MaxPeekGap)
    PROVE  TxSpec => []TriggerAhead
<1> PICK s \in Nat : s = StartDelay + MaxPeekGap
  BY SteadyFacts
<1>1. TxInit => OnAir
  BY DEF TxInit, OnAir
<1>2. Known(longest) /\ Handed(s) /\ OnAir /\ [TxNext]_txvars => OnAir'
  BY OnAirStep
<1>3. Known(longest) /\ OnAir => TriggerAhead
  <2> SUFFICES ASSUME Known(longest), OnAir, radio.state = "scheduled"
               PROVE  Minus(Trigger(radio.pkt), now) < JitDelay
    BY DEF TriggerAhead
  <2>1. /\ radio.pkt.count \in Counter /\ now \in Counter
        /\ StartDelay <= Ahead(radio.pkt.count, now)
        /\ Ahead(radio.pkt.count, now) < JitDelay
    BY DEF OnAir, Node, Known, TypeOK
  <2>2. Ahead(radio.pkt.count, now) \in Int /\ StartDelay \in Nat /\ JitDelay \in Nat
    BY <2>1, AheadType, SteadyFacts
  <2> QED
    BY <2>1, <2>2, TriggerOffset
<1>4. Spec => []Known(longest)
  BY KnownAlways
<1>5. Spec => []Handed(s)
  <2>1. Timely(s)
    OBVIOUS
  <2> QED
    BY <2>1, AlwaysHanded
<1> QED
  BY <1>1, <1>2, <1>3, <1>4, <1>5, TxImplementsQueue, PTL DEF TxSpec

-----------------------------------------------------------------------------
(* One packet on the air at a time.                                          *)

\* Only downlinks whose departure the server chooses are offered, and it chooses
\* departures so far ahead that whatever is handed over by the time jit_enqueue ends
\* is over when the newcomer becomes due.
WellPlaced ==
    /\ Offered \subseteq {"A", "B"}
    /\ \A a \in Airtimes : \A d \in ServerOffsets : a + 2 * JitDelay + MaxDownLag <= d

\* A packet of such a downlink.
Plain(p) == p \in Node /\ p.kind \in {"A", "B"} /\ p.post \in Airtimes
AllPlain == \A i \in DOMAIN nodes : Plain(nodes[i])

\* Every queued packet becomes due after the end of r only.
After(p, r) ==
    /\ r.post + JitDelay < Minus(p.count, r.count)
    /\ 2 * Minus(p.count, r.count) < Wrap
AllAfter(r) == \A i \in DOMAIN nodes : After(nodes[i], r)

\* The radio is silent while a packet is on its way to it, and whichever of the two
\* holds a packet, the queue is clear of it.
OneAtATime ==
    /\ AllPlain
    /\ jit.pc = "picked" => Plain(jit.pkt) /\ AllAfter(jit.pkt) /\ radio.state = "free"
    /\ radio.state # "free" => Plain(radio.pkt) /\ AllAfter(radio.pkt)

\* A removal keeps what holds of every node.
LEMMA RemoveAfter ==
    ASSUME NEW longest, Steady(longest), Known(longest), AllPlain,
           NEW k \in DOMAIN nodes, Remove(k)
    PROVE  /\ AllPlain'
           /\ \A r : AllAfter(r) => \A i \in DOMAIN nodes' : After(nodes'[i], r)
           /\ \A i \in DOMAIN nodes' :
                 \E j \in DOMAIN nodes : j # k /\ nodes'[i] = nodes[j]
<1>1. PICK f \in [DOMAIN nodes' -> DOMAIN nodes] :
         \A i \in DOMAIN nodes' : nodes'[i] = nodes[f[i]] /\ f[i] # k
  BY RemovedArray
<1> QED
  BY <1>1 DEF AllPlain, AllAfter

\* A newcomer is a downlink the server placed.
LEMMA PlainRequest ==
    ASSUME NEW longest, Steady(longest), WellPlaced, Known(longest), EnqueueLocked,
           nodes' # nodes
    PROVE  \E p : /\ Accept(p) /\ Plain(p) /\ ~TooEarly(p, down.time) /\ down.pc = "room"
                  /\ -(MaxDownLag + 2 * MaxPeekGap) <= Until(p)
                  /\ Until(p) <= Horizon(longest)
                  /\ \E d \in ServerOffsets : p.count = Plus(down.time, d)
<1> PICK kind \in Offered :
         \E post \in PostDelays(kind) : \E c \in Departures(kind, post) :
            LET p == [count |-> c, kind |-> kind, post |-> post] IN
            RefuseTooLate(p) \/ RefuseTooEarly(p) \/ RefuseCollision(p) \/ Accept(p)
  BY DEF EnqueueLocked
<1> PICK post \in PostDelays(kind) :
         \E c \in Departures(kind, post) :
            LET p == [count |-> c, kind |-> kind, post |-> post] IN
            RefuseTooLate(p) \/ RefuseTooEarly(p) \/ RefuseCollision(p) \/ Accept(p)
  OBVIOUS
<1>1. PICK c \in Departures(kind, post) :
         LET p == [count |-> c, kind |-> kind, post |-> post] IN
         RefuseTooLate(p) \/ RefuseTooEarly(p) \/ RefuseCollision(p) \/ Accept(p)
  OBVIOUS
<1> DEFINE p == [count |-> c, kind |-> kind, post |-> post]
<1>2. p.count = c /\ p.kind = kind /\ p.post = post
  OBVIOUS
<1> HIDE DEF p
<1>3. RefuseTooLate(p) \/ RefuseTooEarly(p) \/ RefuseCollision(p) \/ Accept(p)
  BY <1>1 DEF p
<1>4. Accept(p) /\ InTime(p) /\ down.pc = "room"
  BY <1>3 DEF RefuseTooLate, RefuseTooEarly, RefuseCollision, Refuse, Accept, EnqueueLocked
<1>5. kind \in {"A", "B"} /\ post \in Airtimes
  BY DEF WellPlaced, PostDelays
<1>6. p \in Node /\ Until(p) \in Int /\ Until(p) <= Horizon(longest)
  BY <1>4, NewcomerOffset DEF p
<1>7. -(MaxDownLag + 2 * MaxPeekGap) <= Until(p)
  <2>1. \/ Until(p) >= StartDelay + MarginDelay + JitDelay + 1 - MaxDownLag
        \/ \E i \in DOMAIN nodes :
              Until(p) >= Until(nodes[i]) + StartDelay + 2 * JitDelay + MarginDelay
    BY <1>4, NewcomerOffset DEF p
  <2> QED
    BY <1>6, <2>1, NewcomerLow
<1>8. \E d \in ServerOffsets : p.count = Plus(down.time, d)
  <2>1. c \in { Plus(down.time, d) : d \in ServerOffsets }
    BY <1>5 DEF Departures
  <2> QED
    BY <1>2, <2>1
<1> QED
  BY <1>2, <1>4, <1>5, <1>6, <1>7, <1>8 DEF Plain, InTime

\* It comes after whatever is on the air, or about to be.
LEMMA NewcomerAfter ==
    ASSUME NEW longest, Steady(longest), WellPlaced, Known(longest), down.pc = "room",
           NEW p, Plain(p), ~TooEarly(p, down.time),
           NEW d \in ServerOffsets, p.count = Plus(down.time, d),
           NEW r, Plain(r), -r.post <= Ahead(r.count, now), Ahead(r.count, now) < JitDelay
    PROVE  After(p, r)
<1>1. /\ d \in Counter /\ d \in Nat /\ d < Wrap /\ down.time \in Counter /\ now \in Counter
      /\ p.count \in Counter /\ r.count \in Counter
  BY QueueAssumption, TimingAssumption DEF Known, TypeOK, Counter, Plain, Node
<1>2. Minus(p.count, down.time) = d
  <2> DEFINE t == down.time
             c == p.count
  <2>1. t \in Int /\ c = IF t + d < Wrap THEN t + d ELSE t + d - Wrap
    BY <1>1, TimingAssumption DEF Plus, Counter
  <2>2. 0 <= t /\ t < Wrap /\ Wrap \in Int
    BY <1>1, TimingAssumption DEF Counter
  <2> HIDE DEF t, c
  <2>3. Minus(c, t) = d
    BY <1>1, <2>1, <2>2 DEF Minus
  <2> QED
    BY <2>3 DEF t, c
<1>3. d <= MaxAdvance
  BY <1>1, <1>2, TimingAssumption DEF TooEarly, Plain
<1>4. /\ r.post \in Nat /\ r.post + 2 * JitDelay + MaxDownLag <= d /\ r.post <= longest
  BY <1>1, DelayBounds DEF WellPlaced, Plain
<1>5. /\ JitDelay \in Nat /\ MaxDownLag \in Nat /\ MaxAdvance \in Nat /\ longest \in Nat
      /\ Wrap \in Nat /\ 2 * (MaxAdvance + longest) < Wrap
  BY SteadyFacts DEF Horizon, Spacing
<1>6. Minus(now, down.time) \in Nat /\ Minus(now, down.time) <= MaxDownLag
  BY <1>1, PlusMinus DEF Known, Clocks
<1>7. Ahead(p.count, down.time) = d
  BY <1>1, <1>2, <1>3, <1>5 DEF Ahead, InPast
<1>8. Ahead(p.count, now) = d - Minus(now, down.time)
  <2>1. -Wrap <= 2 * (Ahead(p.count, down.time) - Minus(now, down.time))
    BY <1>1, <1>4, <1>5, <1>6, <1>7
  <2> QED
    BY <1>1, <1>7, <2>1, AheadShift
<1>9. Minus(p.count, r.count) = IF Ahead(p.count, now) >= Ahead(r.count, now)
                                THEN Ahead(p.count, now) - Ahead(r.count, now)
                                ELSE Ahead(p.count, now) - Ahead(r.count, now) + Wrap
  BY <1>1, MinusAhead
<1>10. Ahead(r.count, now) \in Int
  BY <1>1, AheadType
<1> DEFINE a == Ahead(r.count, now)
           b == Ahead(p.count, now)
           l == Minus(now, down.time)
           q == r.post
           m == Minus(p.count, r.count)
<1>11. /\ a \in Int /\ b = d - l /\ l \in Nat /\ l <= MaxDownLag /\ -q <= a /\ a < JitDelay
       /\ q \in Nat /\ q <= longest /\ q + 2 * JitDelay + MaxDownLag <= d
       /\ m = IF b >= a THEN b - a ELSE b - a + Wrap
  BY <1>4, <1>6, <1>8, <1>9, <1>10
<1> HIDE DEF a, b, l, q, m
<1>12. q + JitDelay < m /\ 2 * m < Wrap
  BY <1>1, <1>3, <1>5, <1>11
<1> QED
  BY <1>12 DEF After, q, m

\* A packet that thread_jit takes while another is on the air: its departure is less
\* than TX_JIT_DELAY ahead, the other is not over, so the queue was not clear of it.
LEMMA NotDueYet ==
    ASSUME NEW longest, Steady(longest), NEW t \in Counter, NEW p \in Node, NEW r \in Node,
           0 <= Ahead(p.count, t), Ahead(p.count, t) < JitDelay,
           -r.post <= Ahead(r.count, t), Ahead(r.count, t) < JitDelay
    PROVE  ~After(p, r)
<1> DEFINE a == Ahead(r.count, t)
           b == Ahead(p.count, t)
           q == r.post
           m == Minus(p.count, r.count)
<1>1. /\ a \in Int /\ b \in Int /\ 0 <= b /\ b < JitDelay /\ -q <= a /\ a < JitDelay
      /\ m = IF b >= a THEN b - a ELSE b - a + Wrap
  BY AheadType, MinusAhead DEF Node
<1>2. q \in Nat /\ JitDelay \in Nat /\ Wrap \in Nat /\ 4 * JitDelay < Wrap
  BY DelayBounds, SteadyFacts DEF Horizon
<1> HIDE DEF a, b, q, m
<1>3. ~(q + JitDelay < m /\ 2 * m < Wrap)
  BY <1>1, <1>2
<1> QED
  BY <1>3 DEF After, q, m

\* The packet dequeued leaves before all others, and they keep their distance to it.
LEMMA DequeuedFirst ==
    ASSUME NEW longest, Steady(longest), Known(longest), AllPlain, 1 \in DOMAIN nodes,
           Until(nodes[1]) >= 0
    PROVE  \A j \in DOMAIN nodes : j # 1 => After(nodes[j], nodes[1])
<1> SUFFICES ASSUME NEW j \in DOMAIN nodes, j # 1
             PROVE  After(nodes[j], nodes[1])
  OBVIOUS
<1> DEFINE a == Until(nodes[1])
           b == Until(nodes[j])
           q == nodes[1].post
           m == Minus(nodes[j].count, nodes[1].count)
<1>1. /\ a \in Int /\ b \in Int /\ b <= Horizon(longest) /\ 0 <= a
      /\ nodes[1] \in Node /\ nodes[j] \in Node /\ jit.time \in Counter
  BY Nearby
<1>2. a < b
  <2>1. 1 < j
    BY DEF Known, TypeOK
  <2> QED
    BY <2>1 DEF Known, Sorted
<1>3. m = b - a
  BY <1>1, <1>2, DelayType, MinusAhead DEF Until
<1>4. m > StartDelay + JitDelay + q + MarginDelay
  <2>1. m > Lead(nodes[j], nodes[1]) + q + MarginDelay
    BY DEF Known, NoOverlap, Apart
  <2>2. Lead(nodes[j], nodes[1]) = StartDelay + JitDelay
    <3>1. nodes[j].kind \in {"A", "B"}
      BY DEF AllPlain, Plain
    <3> QED
      BY <3>1, SteadyFacts DEF Lead, PreDelay
  <2> QED
    BY <2>1, <2>2
<1>5. /\ q \in Nat /\ JitDelay \in Nat /\ StartDelay \in Nat /\ MarginDelay \in Nat
      /\ Wrap \in Nat /\ Horizon(longest) \in Nat /\ 2 * Horizon(longest) < Wrap
  BY <1>1, DelayBounds, SteadyFacts
<1> HIDE DEF a, b, q, m
<1>6. q + JitDelay < m /\ 2 * m < Wrap
  BY <1>1, <1>2, <1>3, <1>4, <1>5
<1> QED
  BY <1>6 DEF After, q, m

\* Every step of the transmit path keeps it.
LEMMA OneAtATimeStep ==
    ASSUME NEW longest, Steady(longest), WellPlaced, Known(longest), PeekedDue,
           OnTime(StartDelay + MaxPeekGap), Handed(StartDelay + MaxPeekGap), OnAir,
           OneAtATime, [TxNext]_txvars
    PROVE  OneAtATime'
<1>1. /\ StartDelay \in Nat /\ MaxPeekGap \in Nat /\ JitDelay \in Nat /\ now \in Counter
  BY SteadyFacts DEF Known, TypeOK
<1>2. ASSUME nodes' = nodes, jit'.pc # "picked", radio' = radio
      PROVE  OneAtATime'
  BY <1>2 DEF OneAtATime, AllPlain, AllAfter
<1>3. ASSUME UNCHANGED <<nodes, jit, radio>>
      PROVE  OneAtATime'
  BY <1>3 DEF OneAtATime, AllPlain, AllAfter
<1>4. jit.pc = "picked" => /\ -jit.pkt.post <= Ahead(jit.pkt.count, now)
                           /\ Ahead(jit.pkt.count, now) < JitDelay
  <2> SUFFICES ASSUME jit.pc = "picked"
               PROVE  /\ -jit.pkt.post <= Ahead(jit.pkt.count, now)
                      /\ Ahead(jit.pkt.count, now) < JitDelay
    OBVIOUS
  <2> DEFINE a == Ahead(jit.pkt.count, now)
             q == jit.pkt.post
  <2>1. jit.pkt \in Node /\ StartDelay <= a /\ a < JitDelay
    BY HandedAhead
  <2>2. q \in Nat /\ a \in Int
    BY <1>1, <2>1, DelayBounds, AheadType DEF Node
  <2> HIDE DEF a, q
  <2>3. -q <= a /\ a < JitDelay
    BY <1>1, <2>1, <2>2
  <2> QED
    BY <2>3 DEF a, q
<1>5. radio.state # "free" => /\ -radio.pkt.post <= Ahead(radio.pkt.count, now)
                              /\ Ahead(radio.pkt.count, now) < JitDelay
  <2> SUFFICES ASSUME radio.state # "free"
               PROVE  /\ -radio.pkt.post <= Ahead(radio.pkt.count, now)
                      /\ Ahead(radio.pkt.count, now) < JitDelay
    OBVIOUS
  <2> DEFINE a == Ahead(radio.pkt.count, now)
             q == radio.pkt.post
  <2>1. radio.pkt \in Node /\ (StartDelay <= a \/ -q <= a) /\ a < JitDelay
    BY DEF OnAir
  <2>2. q \in Nat /\ a \in Int
    BY <1>1, <2>1, DelayBounds, AheadType DEF Node
  <2> HIDE DEF a, q
  <2>3. -q <= a /\ a < JitDelay
    BY <1>1, <2>1, <2>2
  <2> QED
    BY <2>3 DEF a, q
<1>6. CASE EnqueueLocked /\ UNCHANGED <<radio, checked>>
  <2>1. jit' = jit
    BY <1>6 DEF EnqueueLocked, RefuseTooLate, RefuseTooEarly, RefuseCollision, Refuse, Accept
  <2>2. CASE nodes' = nodes
    BY <1>3, <1>6, <2>1, <2>2
  <2>3. CASE nodes' # nodes
    <3>1. PICK p : /\ Accept(p) /\ Plain(p) /\ ~TooEarly(p, down.time) /\ down.pc = "room"
                   /\ -(MaxDownLag + 2 * MaxPeekGap) <= Until(p)
                   /\ Until(p) <= Horizon(longest)
                   /\ \E d \in ServerOffsets : p.count = Plus(down.time, d)
      BY <1>6, <2>3, PlainRequest
    <3>2. \A i \in DOMAIN nodes' : nodes'[i] = p \/ \E j \in DOMAIN nodes : nodes'[i] = nodes[j]
      <4>1. p \in Node
        BY <3>1 DEF Plain
      <4> QED
        BY <3>1, <4>1, AcceptedArray
    <3>3. AllPlain'
      BY <3>1, <3>2 DEF OneAtATime, AllPlain
    <3>4. jit.pc = "picked" => After(p, jit.pkt)
      <4>1. jit.pc = "picked" => Plain(jit.pkt)
        BY DEF OneAtATime
      <4> QED
        BY <1>4, <3>1, <4>1, NewcomerAfter
    <3>5. radio.state # "free" => After(p, radio.pkt)
      <4>1. radio.state # "free" => Plain(radio.pkt)
        BY DEF OneAtATime
      <4> QED
        BY <1>5, <3>1, <4>1, NewcomerAfter
    <3>6. jit.pc = "picked" => \A i \in DOMAIN nodes' : After(nodes'[i], jit.pkt)
      BY <3>2, <3>4 DEF OneAtATime, AllAfter
    <3>7. radio.state # "free" => \A i \in DOMAIN nodes' : After(nodes'[i], radio.pkt)
      BY <3>2, <3>5 DEF OneAtATime, AllAfter
    <3> QED
      BY <1>6, <2>1, <3>3, <3>6, <3>7 DEF OneAtATime, AllAfter
  <2> QED
    BY <2>2, <2>3
<1>7. CASE /\ DownReadCounter \/ EnqueueFull \/ EnqueueNotFull
           /\ UNCHANGED <<radio, checked>>
  BY <1>3, <1>7 DEF DownReadCounter, EnqueueFull, EnqueueNotFull
<1>8. CASE /\ JitReadCounter \/ PeekEmpty \/ PeekBegin \/ PeekKeep \/ PeekEnd
           /\ UNCHANGED <<radio, checked>>
  <2>1. nodes' = nodes /\ jit'.pc # "picked"
    BY <1>8 DEF JitReadCounter, PeekEmpty, PeekBegin, PeekKeep, PeekEnd, Known, TypeOK
  <2> QED
    BY <1>2, <1>8, <2>1
<1>9. CASE PeekDrop /\ UNCHANGED <<radio, checked>>
  <2>1. jit.i \in DOMAIN nodes /\ Remove(jit.i) /\ jit'.pc # "picked"
    BY <1>9 DEF PeekDrop, Known, TypeOK, Candidate
  <2>2. /\ AllPlain'
        /\ \A r : AllAfter(r) => \A i \in DOMAIN nodes' : After(nodes'[i], r)
    BY <2>1, RemoveAfter DEF OneAtATime
  <2> QED
    BY <1>9, <2>1, <2>2 DEF OneAtATime, AllAfter
<1>10. CASE Dequeue /\ UNCHANGED <<radio, checked>>
  <2>1. /\ jit.pc = "peeked" /\ jit.best = 1 /\ 1 \in DOMAIN nodes /\ Remove(1)
        /\ jit'.pc = "picked" /\ jit'.pkt = nodes[1]
    BY <1>10 DEF Dequeue, OnTime, Known, TypeOK, Candidate, Cell
  <2>2. Plain(nodes[1]) /\ nodes[1] \in Node
    BY <2>1 DEF OneAtATime, AllPlain, Plain
  <2>3. /\ StartDelay + MaxPeekGap <= Until(nodes[1]) /\ Until(nodes[1]) < JitDelay
        /\ Until(nodes[1]) \in Int
    BY <2>1, Nearby DEF OnTime, Above, PeekedDue
  <2>4. /\ AllPlain'
        /\ \A r : AllAfter(r) => \A i \in DOMAIN nodes' : After(nodes'[i], r)
        /\ \A i \in DOMAIN nodes' : \E j \in DOMAIN nodes : j # 1 /\ nodes'[i] = nodes[j]
    BY <2>1, RemoveAfter DEF OneAtATime
  <2>5. \A i \in DOMAIN nodes' : After(nodes'[i], nodes[1])
    <3>1. Until(nodes[1]) >= 0
      BY <1>1, <2>3
    <3>2. \A j \in DOMAIN nodes : j # 1 => After(nodes[j], nodes[1])
      BY <2>1, <3>1, DequeuedFirst DEF OneAtATime
    <3> QED
      BY <2>4, <3>2
  <2>6. 0 <= Ahead(nodes[1].count, now) /\ Ahead(nodes[1].count, now) < JitDelay
    <3>1. nodes[1].count \in Counter /\ jit.time \in Counter
      BY <2>1, Nearby
    <3>2. Minus(now, jit.time) \in 0 .. MaxPeekGap
      BY ClockOffsets
    <3>3. Ahead(nodes[1].count, now) = Until(nodes[1]) - Minus(now, jit.time)
      <4>1. -Wrap <= 2 * (Until(nodes[1]) - Minus(now, jit.time))
        BY <1>1, <2>3, <3>2, TimingAssumption
      <4> QED
        BY <1>1, <3>1, <4>1, AheadShift DEF Until
    <3> QED
      BY <1>1, <2>3, <3>2, <3>3
  <2>7. radio.state = "free"
    <3> SUFFICES ASSUME radio.state # "free"
                 PROVE  FALSE
      OBVIOUS
    <3>1. radio.pkt \in Node /\ After(nodes[1], radio.pkt)
      BY <2>1 DEF OneAtATime, Plain, AllAfter
    <3> QED
      BY <1>1, <1>5, <2>2, <2>6, <3>1, NotDueYet
  <2> QED
    BY <1>10, <2>1, <2>2, <2>4, <2>5, <2>7 DEF OneAtATime, AllAfter
<1>11. CASE SkipEmitting \/ SendFails
  <2>1. nodes' = nodes /\ jit'.pc # "picked" /\ radio' = radio
    BY <1>11 DEF SkipEmitting, SendFails, JitRelease, Known, TypeOK
  <2> QED
    BY <1>2, <2>1
<1>12. CASE PassStatus \/ TxTick \/ UNCHANGED txvars
  <2>1. UNCHANGED <<nodes, jit, radio>>
    BY <1>12 DEF PassStatus, TxTick, Tick, txvars, vars
  <2> QED
    BY <1>3, <2>1
<1>13. CASE Send
  <2>1. /\ jit.pc = "picked" /\ nodes' = nodes /\ jit'.pc = "idle"
        /\ radio'.state = "scheduled" /\ radio'.pkt = jit.pkt
    BY <1>13 DEF Send, JitRelease, Known, TypeOK
  <2> QED
    BY <2>1 DEF OneAtATime, AllPlain, AllAfter
<1>14. CASE RadioStart
  <2>1. /\ nodes' = nodes /\ jit' = jit /\ radio.state = "scheduled"
        /\ radio'.state = "emitting" /\ radio'.pkt = radio.pkt
    BY <1>14 DEF RadioStart, Starting, vars
  <2> QED
    BY <2>1 DEF OneAtATime, AllPlain, AllAfter
<1>15. CASE RadioDone
  <2>1. nodes' = nodes /\ jit' = jit /\ radio'.state = "free"
    BY <1>15 DEF RadioDone, vars
  <2> QED
    BY <2>1 DEF OneAtATime, AllPlain, AllAfter
<1> QED
  BY <1>6, <1>7, <1>8, <1>9, <1>10, <1>11, <1>12, <1>13, <1>14, <1>15
     DEF TxNext, DownNext, PeekNext

\* So it holds always, when the two tasks keep their pace.
LEMMA AlwaysOneAtATime ==
    ASSUME NEW longest, Steady(longest), Timely(StartDelay + MaxPeekGap), WellPlaced
    PROVE  TxSpec => []OneAtATime
<1> PICK s \in Nat : s = StartDelay + MaxPeekGap
  BY SteadyFacts
<1>1. TxInit => OnAir /\ OneAtATime
  BY DEF TxInit, Init, OnAir, OneAtATime, AllPlain
<1>2. Known(longest) /\ Handed(s) /\ OnAir /\ [TxNext]_txvars => OnAir'
  BY OnAirStep
<1>3. Known(longest) /\ PeekedDue /\ OnTime(s) /\ Handed(s) /\ OnAir /\ OneAtATime
        /\ [TxNext]_txvars => OneAtATime'
  BY OneAtATimeStep
<1>4. Spec => []Known(longest)
  BY KnownAlways
<1>5. Timely(s)
  OBVIOUS
<1>6. Spec => []Handed(s)
  BY <1>5, AlwaysHanded
<1>7. Spec => []OnTime(s)
  BY <1>5, AlwaysOnTime
<1>8. Spec => []PeekedDue
  <2>1. MaxDownLag <= StartDelay + MarginDelay + JitDelay + 1
    BY SteadyFacts DEF Timely
  <2> QED
    BY <2>1, AlwaysPeekedDue
<1> QED
  BY <1>1, <1>2, <1>3, <1>4, <1>6, <1>7, <1>8, TxImplementsQueue, PTL DEF TxSpec

\* A downlink placed well ahead finds the radio silent when thread_jit reads its
\* status: it is never given up for another that is still on the air.
THEOREM NeverSkipped ==
    ASSUME NEW longest, Steady(longest), Timely(StartDelay + MaxPeekGap), WellPlaced
    PROVE  TxSpec => []NoneSkipped
<1>1. OneAtATime => NoneSkipped
  BY DEF OneAtATime, NoneSkipped
<1>2. TxSpec => []OneAtATime
  BY AlwaysOneAtATime
<1> QED
  BY <1>1, <1>2, PTL

\* Nor is one that has been programmed cut short or overwritten by the next, although
\* thread_jit reads the status and sends under two locks.
THEOREM NeverCutShort ==
    ASSUME NEW longest, Steady(longest), Timely(StartDelay + MaxPeekGap), WellPlaced
    PROVE  TxSpec => RadiatedWhole
<1>1. /\ OneAtATime /\ [TxNext]_txvars
      => [radio.state # "free" =>
            \/ radio'.pkt = radio.pkt
            \/ radio.state = "emitting" /\ radio'.state = "free"]_txvars
  <2> SUFFICES ASSUME OneAtATime, [TxNext]_txvars, radio.state # "free"
               PROVE  \/ radio'.pkt = radio.pkt
                      \/ radio.state = "emitting" /\ radio'.state = "free"
    OBVIOUS
  <2>1. jit.pc # "picked"
    BY DEF OneAtATime
  <2>2. CASE UNCHANGED <<radio, checked>> \/ PassStatus \/ TxTick \/ UNCHANGED txvars
    BY <2>2 DEF PassStatus, TxTick, txvars
  <2>3. CASE RadioStart
    <3>1. radio'.pkt = radio.pkt
      BY <2>3 DEF RadioStart, Starting
    <3> QED
      BY <3>1
  <2>4. CASE RadioDone
    <3>1. radio.state = "emitting" /\ radio'.state = "free"
      BY <2>4 DEF RadioDone, Ending
    <3> QED
      BY <3>1
  <2>5. ~SkipEmitting /\ ~SendFails /\ ~Send
    BY <2>1 DEF SkipEmitting, SendFails, Send
  <2> QED
    BY <2>2, <2>3, <2>4, <2>5 DEF TxNext
<1>2. TxSpec => []OneAtATime
  BY AlwaysOneAtATime
<1> QED
  BY <1>1, <1>2, PTL DEF TxSpec, RadiatedWhole
=============================================================================
