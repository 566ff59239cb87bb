------------------------------- MODULE JitQueue -------------------------------
(***************************************************************************)
(* One just-in-time queue (jitqueue.c) and the two tasks that use it:      *)
(* thread_down reads the concentrator counter and calls jit_enqueue,       *)
(* thread_jit reads the counter, calls jit_peek and, for the index it got, *)
(* jit_dequeue.  The mutex mx_jit_queue is held inside each of these calls *)
(* and never across two of them, so the calls of the two tasks interleave. *)
(*                                                                         *)
(* The loop of jit_peek is one action per iteration; it runs under the     *)
(* mutex, so nothing else touches the queue while jit.pc = "scan".  The    *)
(* emptiness checks of jit_peek and jit_dequeue, made by the only task     *)
(* that removes nodes, belong to the critical section that follows; the    *)
(* fullness check of jit_enqueue is a step of its own.                     *)
(*                                                                         *)
(* Array indices are 1-based; index 0 stands for the code's -1.            *)
(***************************************************************************)
EXTENDS JitTiming

CONSTANTS
    QueueMax,      \* JIT_QUEUE_MAX
    Offered,       \* the kinds of packet offered to jit_enqueue
    ServerOffsets, \* departures the server asks for, counted from the counter read
    BeaconOffsets, \* departures of beacons, counted from the counter read
    MaxDownLag,    \* longest time from the counter read to jit_enqueue's end
    PeekPeriod,    \* vTaskDelay between two rounds of thread_jit
    MaxPeekGap     \* longest time between two counter reads of thread_jit

ASSUME QueueAssumption ==
    /\ QueueMax \in Nat \ {0}
    /\ Offered \subseteq Kinds
    /\ ServerOffsets \subseteq Counter /\ BeaconOffsets \subseteq Counter
    /\ MaxDownLag \in Nat
    /\ PeekPeriod \in Nat \ {0} /\ MaxPeekGap \in Nat /\ PeekPeriod <= MaxPeekGap

VARIABLES
    now,         \* the concentrator counter
    nodes,       \* queue->nodes[0 .. num_pkt-1]
    num_beacon,  \* queue->num_beacon
    down,        \* thread_down inside its enqueue: pc, the counter it read
    verdict,     \* what the last jit_enqueue returned
    jit          \* thread_jit: pc, counter read, i, idx_highest_priority, pkt

vars == <<now, nodes, num_beacon, down, verdict, jit>>

NoPkt == [kind |-> "none"]

Verdicts == {"NONE", "OK", "TOO_LATE", "TOO_EARLY", "FULL",
             "COLLISION_PACKET", "COLLISION_BEACON"}

\* The array past num_pkt is kept zeroed: what an index past the end would read.
ZeroNode == [count |-> 0, kind |-> "A", post |-> 0]
Cell(k) == IF k \in DOMAIN nodes THEN nodes[k] ELSE ZeroNode

Init ==
    /\ now \in Counter
    /\ nodes = <<>>
    /\ num_beacon = 0
    /\ down = [pc |-> "idle", time |-> 0]
    /\ verdict = "NONE"
    /\ jit = [pc |-> "idle", time |-> now, i |-> 0, best |-> 0, pkt |-> NoPkt]

Unlocked == jit.pc # "scan"

-----------------------------------------------------------------------------
(* thread_down *)

DownReadCounter ==
    /\ down.pc = "idle"
    /\ down' = [pc |-> "timed", time |-> now]
    /\ verdict' = "NONE"
    /\ UNCHANGED <<now, nodes, num_beacon, jit>>

\* jit_queue_is_full, under a lock it gives back before jit_enqueue goes on.
EnqueueFull ==
    /\ down.pc = "timed" /\ Unlocked
    /\ Len(nodes) = QueueMax
    /\ down' = [pc |-> "idle", time |-> 0]
    /\ verdict' = "FULL"
    /\ UNCHANGED <<now, nodes, num_beacon, jit>>

\* Mutant: jit_enqueue without its fullness check.
EnqueueUnchecked ==
    /\ down.pc = "timed" /\ Unlocked
    /\ down' = [down EXCEPT !.pc = "room"]
    /\ UNCHANGED <<now, nodes, num_beacon, verdict, jit>>

EnqueueNotFull ==
    /\ down.pc = "timed" /\ Unlocked
    /\ Len(nodes) # QueueMax
    /\ down' = [down EXCEPT !.pc = "room"]
    /\ UNCHANGED <<now, nodes, num_beacon, verdict, jit>>

\* The departures jit_enqueue tests: a slot it searches for class C, else the
\* caller's: the server's, or the GPS time of a beacon in counter units.
Departures(kind, post) ==
    IF kind = "C" THEN AsapTimes(nodes, down.time, post)
    ELSE { Plus(down.time, d) :
             d \in IF kind = "Beacon" THEN BeaconOffsets ELSE ServerOffsets }

InTime(p) == ~TooLate(p, down.time) /\ ~TooEarly(p, down.time)

Refuse(result) ==
    /\ verdict' = result
    /\ down' = [pc |-> "idle", time |-> 0]
    /\ UNCHANGED <<now, nodes, num_beacon, jit>>

RefuseTooLate(p) == TooLate(p, down.time) /\ Refuse("TOO_LATE")

RefuseTooEarly(p) ==
    /\ ~TooLate(p, down.time) /\ TooEarly(p, down.time)
    /\ Refuse("TOO_EARLY")

\* The first node in the way gives the reason.
RefuseCollision(p) ==
    /\ InTime(p)
    /\ \E i \in Blockers(nodes, p) :
          /\ \A j \in Blockers(nodes, p) : i <= j
          /\ Refuse(IF IsBeacon(nodes[i]) THEN "COLLISION_BEACON"
                                          ELSE "COLLISION_PACKET")

Accept(p) ==
    /\ InTime(p)
    /\ Blockers(nodes, p) = {}
    /\ nodes' \in Arrangements(Append(nodes, p))
    /\ num_beacon' = IF IsBeacon(p) THEN num_beacon + 1 ELSE num_beacon
    /\ verdict' = "OK"
    /\ down' = [pc |-> "idle", time |-> 0]
    /\ UNCHANGED <<now, jit>>

EnqueueLocked ==
    /\ down.pc = "room" /\ Unlocked
    /\ \E kind \in Offered : \E post \in PostDelays(kind) :
         \E c \in Departures(kind, post) :
            LET p == [count |-> c, kind |-> kind, post |-> post] IN
            RefuseTooLate(p) \/ RefuseTooEarly(p) \/ RefuseCollision(p) \/ Accept(p)

-----------------------------------------------------------------------------
(* thread_jit *)

JitReadCounter ==
    /\ jit.pc = "idle"
    /\ Minus(now, jit.time) >= PeekPeriod
    /\ jit' = [jit EXCEPT !.pc = "timed", !.time = now]
    /\ UNCHANGED <<now, nodes, num_beacon, down, verdict>>

PeekEmpty ==
    /\ jit.pc = "timed" /\ nodes = <<>>
    /\ jit' = [jit EXCEPT !.pc = "idle"]
    /\ UNCHANGED <<now, nodes, num_beacon, down, verdict>>

PeekBegin ==
    /\ jit.pc = "timed" /\ nodes # <<>>
    /\ jit' = [jit EXCEPT !.pc = "scan", !.i = 1, !.best = 0]
    /\ UNCHANGED <<now, nodes, num_beacon, down, verdict>>

\* Mutant: the array left unsorted.
RemoveUnsorted(k) ==
    /\ nodes' = WithoutNode(nodes, k)
    /\ num_beacon' = IF IsBeacon(Cell(k)) THEN num_beacon - 1 ELSE num_beacon

\* Node k leaves the array: the last node takes its place, then the sort.
Remove(k) ==
    /\ nodes' \in Arrangements(WithoutNode(nodes, k))
    /\ num_beacon' = IF IsBeacon(Cell(k)) THEN num_beacon - 1 ELSE num_beacon

\* "i = 0; continue;": the increment of the for loop resumes at the second node.
PeekDrop ==
    /\ jit.pc = "scan" /\ jit.i <= Len(nodes)
    /\ Outdated(nodes[jit.i], jit.time)
    /\ Remove(jit.i)
    /\ jit' = [jit EXCEPT !.i = 2]
    /\ UNCHANGED <<now, down, verdict>>

Sooner(i, k) ==
    k = 0 \/ Minus(nodes[i].count, jit.time) < Minus(nodes[k].count, jit.time)

PeekKeep ==
    /\ jit.pc = "scan" /\ jit.i <= Len(nodes)
    /\ ~Outdated(nodes[jit.i], jit.time)
    /\ jit' = [jit EXCEPT !.i = jit.i + 1,
                          !.best = IF Sooner(jit.i, jit.best) THEN jit.i ELSE jit.best]
    /\ UNCHANGED <<now, nodes, num_beacon, down, verdict>>

\* With no candidate the code reads nodes[-1], and returns -1 either way.
PeekEnd ==
    /\ jit.pc = "scan" /\ jit.i > Len(nodes)
    /\ IF jit.best # 0 /\ Due(Cell(jit.best), jit.time)
       THEN jit' = [jit EXCEPT !.pc = "peeked", !.i = 0]
       ELSE jit' = [jit EXCEPT !.pc = "idle", !.i = 0, !.best = 0]
    /\ UNCHANGED <<now, nodes, num_beacon, down, verdict>>

\* jit_dequeue of the index jit_peek returned, under another lock.
Dequeue ==
    /\ jit.pc = "peeked"
    /\ Remove(jit.best)
    /\ jit' = [jit EXCEPT !.pc = "picked", !.pkt = Cell(jit.best), !.best = 0]
    /\ UNCHANGED <<now, down, verdict>>

\* thread_jit is through with the packet (sent, or given up).
JitRelease ==
    /\ jit.pc = "picked"
    /\ jit' = [jit EXCEPT !.pc = "idle", !.pkt = NoPkt]
    /\ UNCHANGED <<now, nodes, num_beacon, down, verdict>>

-----------------------------------------------------------------------------
\* The counter advances while no task is over its bound.
Tick ==
    /\ down.pc # "idle" => Minus(now, down.time) < MaxDownLag
    /\ Minus(now, jit.time) < MaxPeekGap
    /\ now' = Plus(now, 1)
    /\ UNCHANGED <<nodes, num_beacon, down, verdict, jit>>

DownNext == DownReadCounter \/ EnqueueFull \/ EnqueueNotFull \/ EnqueueLocked

PeekNext ==
    \/ JitReadCounter \/ PeekEmpty \/ PeekBegin
    \/ PeekDrop \/ PeekKeep \/ PeekEnd \/ Dequeue

Next == DownNext \/ PeekNext \/ JitRelease \/ Tick

Spec == Init /\ [][Next]_vars

\* Both tasks run at one priority and every mutex is given back, so no task is
\* starved; thread_down need not receive anything, so its first step is not fair.
FairSpec ==
    /\ Spec
    /\ WF_vars(PeekNext \/ JitRelease)
    /\ WF_vars(EnqueueFull \/ EnqueueNotFull \/ EnqueueLocked)
    /\ WF_vars(Tick)

-----------------------------------------------------------------------------
Packet == Node \cup {NoPkt, ZeroNode}

TypeOK ==
    /\ now \in Counter
    /\ nodes \in Seq(Node) /\ Len(nodes) <= QueueMax
    /\ num_beacon \in Int
    /\ down \in [pc : {"idle", "timed", "room"}, time : Counter]
    /\ verdict \in Verdicts
    /\ jit \in [pc : {"idle", "timed", "scan", "peeked", "picked"}, time : Counter,
                i : 0 .. QueueMax + 2, best : 0 .. QueueMax, pkt : Packet]

\* The lead time p keeps free before its departure when q departs before it.
Lead(p, q) ==
    IF p.kind = "Beacon" /\ q.kind \in {"A", "C"} THEN StartDelay ELSE PreDelay(p.kind)

Apart(p, q) == Minus(p.count, q.count) > Lead(p, q) + q.post + MarginDelay

\* Criteria 3 is checked for a newcomer only; whatever the order of arrival, of
\* the drops and of the dequeues, and across a roll-over of the counter, no two
\* queued transmissions meet, each with its lead time and the margin.
NoOverlap ==
    \A i, j \in DOMAIN nodes : i # j => Apart(nodes[i], nodes[j])

\* Sorting by adjacent signed differences gives the order of departure among all
\* queued packets, although that comparison is not transitive on the counter.
DepartureOrder ==
    \A i, j \in DOMAIN nodes : i < j => NotAfter(nodes[i], nodes[j])

\* Between jit_peek and jit_dequeue the mutex is free: the packet then found at
\* the index is still one that departs within TX_JIT_DELAY of the peek.
PeekedStillDue ==
    jit.pc = "peeked" =>
        /\ jit.best \in DOMAIN nodes
        /\ Due(nodes[jit.best], jit.time)

\* The slot search of jit_enqueue gives a class C downlink a departure that
\* criteria 3 accepts: a class C downlink is never refused for a collision.
ClassCNeverCollides ==
    down.pc = "room" /\ Unlocked =>
        \A post \in Airtimes : \A c \in AsapTimes(nodes, down.time, post) :
            Blockers(nodes, ClassC(c, post)) = {}

\* "Once the packet is queued, it has to be sent over the air": what jit_enqueue
\* accepts, class C slots and beacons included, departs after the counter it read.
AcceptedInFuture ==
    [][\A p \in Range(nodes') \ Range(nodes) : ~InPast(p.count, down.time)]_vars

\* While thread_jit reads the counter often enough, no packet still queued has its
\* departure behind the counter jit_peek was given: all were handed over in time.
NothingMissed ==
    jit.pc = "scan" => \A i \in DOMAIN nodes : ~InPast(nodes[i].count, jit.time)

\* A packet in the queue leaves it, handed over or dropped, whatever else comes:
\* no packet stays for ever.  (The counter is cyclic, so one value stands for all.)
Queued(c) == \E i \in DOMAIN nodes : nodes[i].count = c
QueuedLeaves == Queued(0) ~> ~Queued(0)

\* The queue implements the schedule: reservations are added one at a time and only
\* on free air, survive every sort and every removal of another, and leave once.
Schedule == INSTANCE JitSchedule WITH reserved <- Range(nodes), hand <- jit.pkt
ImplementsSchedule == Schedule!Spec
=============================================================================
