--------------------------------- MODULE Pps ---------------------------------
(***************************************************************************)
(* Fine timestamps (loragw_sx1302_timestamp.c).  The SX1302 latches its    *)
(* counter at every pulse per second of the GPS receiver; the driver keeps *)
(* the last Depth of the values it read, and gives a packet the time since  *)
(* the pulse before it, which may have been overwritten in the register.   *)
(*                                                                         *)
(* Counts are whole and the crystal is exact.  Pulses may be lost, readings *)
(* of the register late or fail, and packets wait, for any time; known and  *)
(* sure, which the code does not have, tell whether that stayed within the  *)
(* bounds Outage, Stall and Wait.  The fixed offsets, the mean of the       *)
(* metrics and the filter delay are left out: timestamp_cnt is that of the  *)
(* end of the preamble.                                                    *)
(***************************************************************************)
EXTENDS Integers, Sequences

CONSTANTS Turn,     \* values of the 32-bit counter
          Second,   \* counts in a second, 32000000
          Depth,    \* MAX_TIMESTAMP_PPS_HISTORY
          Outage,   \* pulses lost one after the other, Outage + 1 for more
          Stall,    \* counts since the last reading, Stall + 1 for more
          Wait      \* counts a packet waits to be parsed, Wait + 1 for more

VARIABLES now,       \* the counter
          phase,     \* counts since the second began
          pps,       \* timestamp_pps register
          lost,      \* pulses lost since the last, -1 before the first
          unread,    \* counts since the last reading
          history,   \* timestamp_pps_history: its values, idx and size
          known,     \* how many of its newest values were saved within the bounds
          pkt,       \* the packet that waits: count, phase and age, or <<>>
          answer     \* of the last packet parsed: phase, ftime and sure, or <<>>

ppsVars == <<now, phase, pps, lost, unread, history, known, pkt, answer>>

\* Within the bounds two readings that differ are at most (Outage + 1) * Second + Stall counts
\* apart; Depth of them have to fit into a turn, and a packet parsed with a full history must
\* have come after the first pulse.  With two values the distance that corrects the time
\* could be that to a value read before the first pulse.
ASSUME PpsAssumption ==
  /\ Turn \in Nat /\ Second \in Nat \ {0} /\ Depth \in Nat \ 0 .. 2 /\ Outage \in Nat /\ Stall \in Nat
  /\ Depth * ((Outage + 1) * Second + Stall) < Turn
  /\ Wait \in 0 .. (Depth - 2) * Second

PpsInit == /\ now = 0 /\ phase \in 0 .. Second - 1 /\ pps = 0 /\ lost = -1 /\ unread = 0
           /\ history = [values |-> [i \in 0 .. Depth - 1 |-> 0], idx |-> 0, size |-> 0]
           /\ known = 0 /\ pkt = <<>> /\ answer = <<>>

\* Counts from b to a.
Since(a, b) == (a - b) % Turn

\* One more, but no more than one above the bound.
OneMore(n, bound) == IF n > bound THEN n ELSE n + 1

\* A count passes; a second may begin, with or without a pulse.
Tick == /\ now' = (now + 1) % Turn
        /\ phase' = (phase + 1) % Second
        /\ unread' = OneMore(unread, Stall)
        /\ pkt' = IF pkt = <<>> THEN pkt ELSE [pkt EXCEPT !.age = OneMore(@, Wait)]
        /\ \/ phase' # 0 /\ UNCHANGED <<pps, lost>>
           \/ phase' = 0 /\ pps' = now' /\ lost' = 0
           \/ phase' = 0 /\ lost = -1 /\ UNCHANGED <<pps, lost>>
           \/ phase' = 0 /\ lost >= 0 /\ lost' = OneMore(lost, Outage) /\ UNCHANGED pps
        /\ known' = IF unread' > Stall \/ lost' > Outage THEN 0 ELSE known
        /\ UNCHANGED <<history, answer>>

\* The register still has the value saved last.
SavedLast(h, reg) == reg = h.values[h.idx] /\ h.size # 0

\* timestamp_pps_history_save
Saved(h, reg) ==
  LET idx == IF h.size > 0 THEN (h.idx + 1) % Depth ELSE h.idx
  IN  IF SavedLast(h, reg) THEN h
      ELSE [values |-> [h.values EXCEPT ![idx] = reg], idx |-> idx,
            size   |-> IF h.size < Depth THEN h.size + 1 ELSE h.size]

\* The register is read and saved.
ReadRegister ==
  /\ history' = Saved(history, pps)
  /\ known' = IF SavedLast(history, pps) \/ lost > Outage \/ known = Depth THEN known ELSE known + 1
  /\ unread' = 0

\* timestamp_counter_get, in every lgw_receive; one whose reading fails changes nothing.
CounterGet == ReadRegister /\ UNCHANGED <<now, phase, pps, lost, pkt, answer>>

Receive == /\ pkt = <<>>
           /\ pkt' = [count |-> now, phase |-> phase, age |-> 0]
           /\ answer' = <<>>
           /\ UNCHANGED <<now, phase, pps, lost, unread, history, known>>

\* Mutant: any distance of two pulses is taken for a second.
SaneAny(diff) == diff # 0

\* xtal_correct, Second / diff, from 0.8 to 1.2.
Sane(diff) == 5 * Second <= 6 * diff /\ 4 * diff <= 5 * Second

\* The time since pulse ref, corrected by the distance of two pulses.
Fine(count, ref, diff) ==
  LET ftime == (Since(count, ref) * Second) \div diff
  IN  IF Sane(diff) /\ ftime <= Second THEN <<ftime>> ELSE <<>>

\* The first of the history less than a second before the packet.
Rewound(h, count) ==
  LET before == {i \in 0 .. h.size - 1 : Since(count, h.values[i]) < Second}
      i      == CHOOSE x \in before : \A y \in before : x <= y
  IN  IF before = {} THEN <<>>
      ELSE Fine(count, h.values[i], Since(h.values[(i + 1) % Depth], h.values[i]))

\* What precise_timestamp_calculate makes of the register it has read.
PreciseTimestampCalculate(h, count, reg) ==
  IF Since(count, reg) > Second
    THEN Rewound(h, count)
    ELSE Fine(count, reg, Since(h.values[h.idx], h.values[(h.idx - 1) % Depth]))

\* The history needs to be full before it is brought up to date,
TooShort == history.size < Depth /\ answer' = <<>> /\ UNCHANGED <<history, unread, known>>

\* and if the register cannot be read, 0 is returned as for success, with ftime as it was, 0.
Unreadable == /\ history.size = Depth
              /\ answer' = [phase |-> pkt.phase, ftime |-> 0, sure |-> FALSE]
              /\ UNCHANGED <<history, unread, known>>

Readable == /\ history.size = Depth
            /\ ReadRegister
            /\ answer' = LET f == PreciseTimestampCalculate(history', pkt.count, pps)
                         IN  IF f = <<>> THEN <<>>
                             ELSE [phase |-> pkt.phase, ftime |-> f[1], sure |-> known' = Depth /\ pkt.age <= Wait]

\* sx1302_parse, of a packet with metrics.
Parse == /\ pkt # <<>>
         /\ TooShort \/ Unreadable \/ Readable
         /\ pkt' = <<>>
         /\ UNCHANGED <<now, phase, pps, lost>>

PpsNext == Tick \/ CounterGet \/ Receive \/ Parse

PpsSpec == PpsInit /\ [][PpsNext]_ppsVars

----------------------------------------------------------------------------

\* A fine timestamp is right, how long before the packet the second began, if the register could be
\* read for it, if the history is of Depth values in succession between which no outage was longer than
\* Outage and no reading later than Stall, and if the packet has waited no longer than Wait: whatever
\* pulses were lost so far, however the register was overwritten, and whatever happened
\* before those values (loragw_sx1302_timestamp.c:566).  Outside of that it may be wrong: after a
\* failed reading it is 0, and after longer ones values may be a turn old.
FineIsTrue == answer # <<>> => (answer.sure => answer.ftime % Second = answer.phase)
=============================================================================
