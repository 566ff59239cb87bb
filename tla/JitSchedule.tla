----------------------------- MODULE JitSchedule -----------------------------
(***************************************************************************)
(* What the just-in-time queue promises, without array, sort, tasks or     *)
(* clock: a set of reservations on the air, none of which meets another,   *)
(* to which one is added at a time and from which each leaves once, handed *)
(* over to the radio or dropped, and never changed in between.             *)
(***************************************************************************)
EXTENDS JitTiming

VARIABLES
    reserved,   \* the set of reservations
    hand        \* the packet handed over for transmission, or Nothing

Nothing == [kind |-> "none"]

\* From TX_START_DELAY before its departure to the end of its time on air, plus
\* the margin, a transmission shares the air with no other.
Clear(p, q) ==
    /\ Minus(p.count, q.count) > StartDelay + q.post + MarginDelay
    /\ Minus(q.count, p.count) > StartDelay + p.post + MarginDelay

Init == reserved = {} /\ hand = Nothing

\* One reservation more, on free air.
Reserve ==
    /\ \E p \in reserved' \ reserved :
          /\ p \in Node
          /\ reserved' = reserved \cup {p}
          /\ \A q \in reserved : Clear(p, q)
    /\ UNCHANGED hand

HandOver ==
    /\ hand = Nothing
    /\ \E p \in reserved : hand' = p /\ reserved' = reserved \ {p}

Drop ==
    /\ \E p \in reserved : reserved' = reserved \ {p}
    /\ UNCHANGED hand

Finish == hand # Nothing /\ hand' = Nothing /\ UNCHANGED reserved

Next == Reserve \/ HandOver \/ Drop \/ Finish

Spec == Init /\ [][Next]_<<reserved, hand>>
=============================================================================
