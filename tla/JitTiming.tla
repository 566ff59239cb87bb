------------------------------ MODULE JitTiming ------------------------------
(***************************************************************************)
(* The time arithmetic of jitqueue.c: the concentrator counter is a 32-bit *)
(* microsecond counter that rolls over, a queued transmission reserves an  *)
(* interval around its departure, and two transmissions collide when their *)
(* intervals meet.  Constant operators only: the queue, the two tasks that *)
(* use it and the radio are in modules of their own.                       *)
(*                                                                         *)
(* Wrap stands for 2^32; one unit of time is whatever the instance wants.  *)
(***************************************************************************)
EXTENDS Integers, Sequences, FiniteSets, Functions

CONSTANTS
    Wrap,            \* number of values of the concentrator counter
    StartDelay,      \* TX_START_DELAY
    MarginDelay,     \* TX_MARGIN_DELAY
    JitDelay,        \* TX_JIT_DELAY
    MaxAdvance,      \* TX_MAX_ADVANCE_DELAY
    BeaconGuard,     \* BEACON_GUARD
    BeaconReserved,  \* BEACON_RESERVED
    Airtimes         \* the times on air a downlink may have

\* All sums of delays are uint32_t in the code and stay far below 2^32.
ASSUME TimingAssumption ==
    /\ Wrap \in Nat /\ StartDelay \in Nat /\ MarginDelay \in Nat
    /\ JitDelay \in Nat /\ MaxAdvance \in Nat
    /\ BeaconGuard \in Nat /\ BeaconReserved \in Nat
    /\ Airtimes \subseteq Nat
    /\ BeaconReserved + StartDelay + 2 * JitDelay + MarginDelay + BeaconGuard < Wrap
    /\ \A a \in Airtimes :
          a + StartDelay + 2 * JitDelay + MarginDelay + BeaconGuard < Wrap

Counter == 0 .. Wrap - 1

\* uint32_t subtraction and addition.
Minus(a, b) == IF a >= b THEN a - b ELSE a - b + Wrap
Plus(a, d)  == IF a + d < Wrap THEN a + d ELSE a + d - Wrap

Kinds == {"A", "B", "C", "Beacon"}

\* The departure c lies behind the counter value time.
InPast(c, time) == 2 * Minus(c, time) >= Wrap

\* A queued packet: its departure, its kind and the post_delay reserved for it.
Node == [count : Counter, kind : Kinds, post : Airtimes \cup {BeaconReserved}]

IsBeacon(n) == n.kind = "Beacon"

\* The pre_delay and post_delay of jit_enqueue.
PreDelay(kind) ==
    StartDelay + JitDelay + (IF kind = "Beacon" THEN BeaconGuard ELSE 0)

PostDelays(kind) == IF kind = "Beacon" THEN {BeaconReserved} ELSE Airtimes

\* Mutants: only the newcomer's lead time is tested; a difference of the counters
\* that does not roll over.
CollisionOneSided(p, pre_p, q, pre_q) ==
    Minus(p.count, q.count) <= pre_p + q.post + MarginDelay
CollisionNoRollOver(p, pre_p, q, pre_q) ==
    IF p.count >= q.count THEN p.count - q.count <= pre_p + q.post + MarginDelay
                          ELSE q.count - p.count <= pre_q + p.post + MarginDelay

\* jit_collision_test: p reserves pre_p before its departure, q reserves pre_q.
CollisionTest(p, pre_p, q, pre_q) ==
    \/ Minus(p.count, q.count) <= pre_p + q.post + MarginDelay
    \/ Minus(q.count, p.count) <= pre_q + p.post + MarginDelay

-----------------------------------------------------------------------------
(* The array of nodes.                                                       *)

\* compare() returns a value <= 0: the difference of the counters, read as
\* a signed 32-bit integer, is not positive.  (That int subtraction overflows
\* between counters of different sign; the compiler emits a wrapping subtract.)
NotAfter(p, q) == p.count = q.count \/ InPast(p.count, q.count)

\* jit_sort_queue: qsort_r leaves some arrangement of the same nodes in which
\* no node compares greater than the one that follows it.  One always exists.
Arrangements(s) ==
    { t \in { [i \in DOMAIN s |-> s[f[i]]] : f \in Bijection(DOMAIN s, DOMAIN s) } :
        \A i \in 1 .. Len(s) - 1 : NotAfter(t[i], t[i + 1]) }

\* Mutant: the array shortened without moving the last node into the gap.
WithoutLast(s, k) == SubSeq(s, 1, Len(s) - 1)

\* Node k is overwritten by the last node of the array, before the sort.
WithoutNode(s, k) ==
    [i \in 1 .. Len(s) - 1 |-> IF i = k THEN s[Len(s)] ELSE s[i]]

-----------------------------------------------------------------------------
(* jit_enqueue: where a class C downlink goes, and the three criteria.       *)

ClassC(c, post) == [count |-> c, kind |-> "C", post |-> post]

Collides(p, q) == CollisionTest(p, PreDelay(p.kind), q, PreDelay(q.kind))

\* Mutant: a slot that leaves no lead time after node n.
SlotTooTight(n) == Plus(n.count, n.post + JitDelay + MarginDelay)

\* The slot right after node n.
SlotAfter(n) == Plus(n.count, n.post + PreDelay("C") + JitDelay + MarginDelay)

\* The ASAP time if it collides with nothing, else the slot after the first
\* node whose successor leaves room for it (the last node has no successor).
AsapTimes(s, time, post) ==
    LET asap    == Plus(time, 2 * JitDelay)
        Fits(i) == i = Len(s) \/ ~Collides(ClassC(SlotAfter(s[i]), post), s[i + 1])
    IN  IF \A i \in DOMAIN s : ~Collides(ClassC(asap, post), s[i])
        THEN {asap}
        ELSE { SlotAfter(s[i]) :
                 i \in { k \in DOMAIN s :
                            Fits(k) /\ \A j \in DOMAIN s : j < k => ~Fits(j) } }

\* Mutants of criteria 1 and 2: the programming delay forgotten; class A exempted.
TooLateNoJit(p, time) == Minus(p.count, time) <= StartDelay + MarginDelay
TooEarlyClassB(p, time) == p.kind = "B" /\ Minus(p.count, time) > MaxAdvance

\* Criteria 1 and 2.
TooLate(p, time) == Minus(p.count, time) <= StartDelay + MarginDelay + JitDelay
TooEarly(p, time) == p.kind \in {"A", "B"} /\ Minus(p.count, time) > MaxAdvance

\* Criteria 3: a class A or C newcomer p ignores the guard of a queued beacon.
TargetPre(p, n) ==
    IF p.kind \in {"A", "C"} /\ IsBeacon(n) THEN StartDelay ELSE PreDelay(n.kind)

Blockers(s, p) ==
    { i \in DOMAIN s : CollisionTest(p, PreDelay(p.kind), s[i], TargetPre(p, s[i])) }

-----------------------------------------------------------------------------
(* jit_peek: n is taken for a packet whose time was missed; n is due.        *)

\* Mutants: packets are handed over too late, or too soon.
DueLate(n, time) == Minus(n.count, time) < StartDelay
DueSoon(n, time) == Minus(n.count, time) < 2 * JitDelay

Outdated(n, time) == Minus(n.count, time) >= MaxAdvance
Due(n, time) == Minus(n.count, time) < JitDelay
=============================================================================
