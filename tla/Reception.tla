------------------------------ MODULE Reception ------------------------------
(***************************************************************************)
(* From the FIFO of the SX1302 to the packets thread_up forwards:          *)
(* lgw_receive fetches the FIFO into rx_buffer when that is empty, reads   *)
(* the counter, and parses at most MaxPkt packets, giving each the 32-bit  *)
(* time of its reception.  The counter and the stamps of the packets have  *)
(* only 27 bits: the turns of the counter are counted in software, each    *)
(* time any task reads it.  mx_concent is held during a whole lgw_receive  *)
(* and during each reading of the counter; packets arrive and time passes  *)
(* meanwhile.                                                              *)
(*                                                                         *)
(* A 32-bit time is a turn, the upper 5 bits, and a raw count, the lower   *)
(* 27.  The delay of the decoding, added to a stamp at the end, is left    *)
(* out.                                                                    *)
(***************************************************************************)
EXTENDS Naturals, Sequences

CONSTANTS
    RawMax,       \* greatest value of the 27-bit counter
    Wraps,        \* number of values of counter_us_27bits_wrap
    MaxPkt,       \* NB_PKT_MAX, the size of thread_up's array
    Arriving,     \* the kinds of packet that arrive
    ReadsFail,    \* whether an access to the SX1302 may fail
    FifoMax,      \* bound: packets in the FIFO
    MaxArrivals   \* bound: packets received

PacketKinds == {"good", "writing", "damaged", "senseless"}

ASSUME ReceptionAssumption ==
    /\ RawMax \in Nat
    /\ Wraps \in Nat /\ Wraps >= 3
    /\ MaxPkt \in Nat \ {0}
    /\ Arriving \subseteq PacketKinds
    /\ ReadsFail \in BOOLEAN
    /\ FifoMax \in Nat /\ MaxArrivals \in Nat

VARIABLES
    now,       \* the true time
    fifo,      \* packets in the SX1302
    rx,        \* packets in rx_buffer, from buffer_index on
    counter,   \* counter_us.inst: the last value read, and the turns counted
    up,        \* thread_up inside lgw_receive: pc, packets to parse, pkt_data; and
               \* whether the byte count of its fetch was misread, which it cannot know
    arrived,   \* number of packets received so far; numbers them, and what an over-read
               \* of the FIFO takes for one
    lastOut,   \* number of the last packet thread_up was given
    lastRead   \* the true time of the last reading of the counter

vars == <<now, fifo, rx, counter, up, arrived, lastOut, lastRead>>

Raw == 0 .. RawMax
Turn == 0 .. Wraps - 1
Time == [turn : Turn, raw : Raw]

NextTurn(w) == IF w = Wraps - 1 THEN 0 ELSE w + 1
PrevTurn(w) == IF w = 0 THEN Wraps - 1 ELSE w - 1

\* The next tick of the counter.
Later(t) == IF t.raw < RawMax THEN [t EXCEPT !.raw = @ + 1]
            ELSE [turn |-> NextTurn(t.turn), raw |-> 0]

\* t is after s, by less than a turn of the 27-bit counter.
WithinTurn(s, t) ==
    \/ t.turn = s.turn /\ t.raw >= s.raw
    \/ t.turn = NextTurn(s.turn) /\ t.raw < s.raw

Packet == [id : Nat, stamp : Time, kind : PacketKinds]
Parsed == [id : Nat, stamp : Time, count : Time]

Idle == [pc |-> "idle", left |-> 0, found |-> <<>>, misread |-> FALSE]

Init ==
    /\ now \in [turn : {0}, raw : Raw]
    /\ fifo = <<>> /\ rx = <<>>
    /\ counter = [ref |-> now.raw, wrap |-> 0]
    /\ up = Idle
    /\ arrived = 0 /\ lastOut = 0
    /\ lastRead = now

-----------------------------------------------------------------------------
(* The concentrator: packets come in, the last of them perhaps not yet whole. *)

Writing(f) == f # <<>> /\ f[Len(f)].kind = "writing"

Arrive ==
    /\ arrived < MaxArrivals /\ Len(fifo) < FifoMax
    /\ ~Writing(fifo)
    /\ \E kind \in Arriving :
          fifo' = Append(fifo, [id |-> arrived + 1, stamp |-> now, kind |-> kind])
    /\ arrived' = arrived + 1
    /\ UNCHANGED <<now, rx, counter, up, lastOut, lastRead>>

Written ==
    /\ Writing(fifo)
    /\ fifo' = [fifo EXCEPT ![Len(fifo)].kind = "good"]
    /\ UNCHANGED <<now, rx, counter, up, arrived, lastOut, lastRead>>

-----------------------------------------------------------------------------
(* The counter of turns.                                                      *)

\* timestamp_counter_get: read the counter, count a turn if it went back.
UpdateCounter ==
    /\ counter' = [ref  |-> now.raw,
                   wrap |-> IF now.raw < counter.ref THEN NextTurn(counter.wrap)
                                                    ELSE counter.wrap]
    /\ lastRead' = now

\* Mutant: the turn of the last reading, whatever the packet.
ExpandNow(raw) == [turn |-> counter.wrap, raw |-> raw]

\* timestamp_pkt_expand: the packet came in before the last reading.
PktExpand(raw) ==
    [turn |-> IF counter.ref >= raw THEN counter.wrap ELSE PrevTurn(counter.wrap),
     raw  |-> raw]

\* lgw_get_instcnt of thread_jit, thread_down or the statistics loop.
ReadCounter ==
    /\ up.pc = "idle"
    /\ UpdateCounter
    /\ UNCHANGED <<now, fifo, rx, up, arrived, lastOut>>

-----------------------------------------------------------------------------
(* lgw_receive.                                                               *)

\* Packets to parse when n are in the buffer.
Share(n) == IF n <= MaxPkt THEN n ELSE MaxPkt

\* The last packet of f in part only: parsed, it is found truncated.
Truncated(f) == [f EXCEPT ![Len(f)].kind = "damaged"]

\* The whole FIFO; or, while a packet is being written, the whole ones and a
\* truncated one, or nothing when not even its syncword is whole.  What comes
\* of such a packet later is skipped by the search for a syncword.
Fetched(f) == IF Writing(f) THEN {Truncated(f), <<>>} ELSE {f}

\* Mutant: fetch over what is left.
FetchAlways ==
    /\ up.pc = "idle"
    /\ rx' \in Fetched(fifo)
    /\ fifo' = <<>>
    /\ up' = [Idle EXCEPT !.pc = "fetched", !.left = Share(Len(rx'))]
    /\ UNCHANGED <<now, counter, arrived, lastOut, lastRead>>
\* sx1302_fetch: packets left from the last call come first.
UpFetch ==
    /\ up.pc = "idle"
    /\ IF rx = <<>> THEN rx' \in Fetched(fifo) /\ fifo' = <<>>
                    ELSE UNCHANGED <<rx, fifo>>
    /\ up' = [Idle EXCEPT !.pc = "fetched", !.left = Share(Len(rx'))]
    /\ UNCHANGED <<now, counter, arrived, lastOut, lastRead>>

\* Too few bytes: the FIFO is cut between two packets or inside one, whose rest the
\* next fetch skips.
TooFew ==
    /\ \E n \in 0 .. Len(fifo) :
          /\ rx' \in LET part == SubSeq(fifo, 1, n)
                     IN  Fetched(part) \cup (IF n = 0 THEN {} ELSE {Truncated(part), <<>>})
          /\ fifo' = SubSeq(fifo, n + 1, Len(fifo))
    /\ UNCHANGED arrived

\* Too many: what follows the last packet is no packet.  It has no syncword, and the
\* whole buffer is discarded, or it has one by chance.
TooMany ==
    /\ fifo' = <<>>
    /\ \/ rx' = <<>> /\ UNCHANGED arrived
       \/ /\ arrived < MaxArrivals
          /\ \E kind \in {"damaged", "senseless"} :
                rx' = Append(IF Writing(fifo) THEN Truncated(fifo) ELSE fifo,
                             [id |-> arrived + 1, stamp |-> now, kind |-> kind])
          /\ arrived' = arrived + 1

\* rx_buffer_fetch does not look at the errors of its two readings of the number of
\* bytes: the count is then whatever its uninitialised buffer held, or the greater of
\* that and the true one.
UpMiscount ==
    /\ ReadsFail
    /\ up.pc = "idle" /\ rx = <<>>
    /\ TooFew \/ TooMany
    /\ up' = [Idle EXCEPT !.pc = "fetched", !.left = Share(Len(rx')), !.misread = TRUE]
    /\ UNCHANGED <<now, counter, lastOut, lastRead>>

\* thread_up ends the program when lgw_receive reports an error.
Exit == up' = [Idle EXCEPT !.pc = "exited"]

\* The bytes themselves cannot be read; the FIFO may be empty, if the count was misread.
FetchFails ==
    /\ ReadsFail
    /\ up.pc = "idle" /\ rx = <<>>
    /\ Exit
    /\ UNCHANGED <<now, fifo, rx, counter, arrived, lastOut, lastRead>>

\* sx1302_update, then back to thread_up if there is nothing to parse.
AfterUpdate == up' = IF up.left = 0 THEN Idle ELSE [up EXCEPT !.pc = "parsing"]

UpUpdate ==
    /\ up.pc = "fetched"
    /\ UpdateCounter
    /\ AfterUpdate
    /\ UNCHANGED <<now, fifo, rx, arrived, lastOut>>

\* The result of timestamp_counter_get is not looked at.
UpdateFails ==
    /\ ReadsFail
    /\ up.pc = "fetched"
    /\ AfterUpdate
    /\ UNCHANGED <<now, fifo, rx, counter, arrived, lastOut, lastRead>>

ToParse(kind) == up.pc = "parsing" /\ Len(up.found) < up.left /\ Head(rx).kind = kind

\* Mutant: buffer_index is not moved to the next packet.
ParseInPlace ==
    /\ ToParse("good")
    /\ up' = [up EXCEPT !.found = Append(@, [id    |-> Head(rx).id,
                                             stamp |-> Head(rx).stamp,
                                             count |-> PktExpand(Head(rx).stamp.raw)])]
    /\ UNCHANGED <<now, fifo, rx, counter, arrived, lastOut, lastRead>>

UpParse ==
    /\ ToParse("good")
    /\ up' = [up EXCEPT !.found = Append(@, [id    |-> Head(rx).id,
                                             stamp |-> Head(rx).stamp,
                                             count |-> PktExpand(Head(rx).stamp.raw)])]
    /\ rx' = Tail(rx)
    /\ UNCHANGED <<now, fifo, counter, arrived, lastOut, lastRead>>

\* Truncated, or its checksum is wrong: the buffer is cleared, 0 is returned.
UpDiscard ==
    /\ ToParse("damaged")
    /\ rx' = <<>>
    /\ up' = Idle
    /\ UNCHANGED <<now, fifo, counter, arrived, lastOut, lastRead>>

\* Metadata out of range, or a payload that does not match its CRC: an error.
UpAbort ==
    /\ ToParse("senseless")
    /\ Exit
    /\ UNCHANGED <<now, fifo, rx, counter, arrived, lastOut, lastRead>>

UpReturn ==
    /\ up.pc = "parsing" /\ Len(up.found) = up.left
    /\ lastOut' = up.found[Len(up.found)].id
    /\ up' = Idle
    /\ UNCHANGED <<now, fifo, rx, counter, arrived, lastRead>>

-----------------------------------------------------------------------------
\* Time passes while the counter is read, and each packet parsed, within a turn:
\* 134 s, to be compared with the 10 ms of the loops of thread_up and thread_jit.
Tick ==
    /\ up.pc # "exited"
    /\ now' = Later(now)
    /\ WithinTurn(lastRead, now')
    /\ \A i \in DOMAIN fifo : WithinTurn(fifo[i].stamp, now')
    /\ \A i \in DOMAIN rx : WithinTurn(rx[i].stamp, now')
    /\ UNCHANGED <<fifo, rx, counter, up, arrived, lastOut, lastRead>>

UpNext ==
    \/ UpFetch \/ UpMiscount \/ FetchFails \/ UpUpdate \/ UpdateFails
    \/ UpParse \/ UpDiscard \/ UpAbort \/ UpReturn

Next == UpNext \/ ReadCounter \/ Arrive \/ Written \/ Tick

Spec == Init /\ [][Next]_vars

\* thread_up is not starved; a packet the concentrator has begun to write is written.
FairSpec == Spec /\ WF_vars(UpNext) /\ WF_vars(Written)

-----------------------------------------------------------------------------
TypeOK ==
    /\ now \in Time /\ lastRead \in Time
    /\ fifo \in Seq(Packet) /\ rx \in Seq(Packet)
    /\ counter \in [ref : Raw, wrap : Turn]
    /\ up \in [pc : {"idle", "fetched", "parsing", "exited"}, left : 0 .. MaxPkt,
               found : Seq(Parsed), misread : BOOLEAN]
    /\ Len(up.found) <= up.left
    /\ arrived \in Nat /\ lastOut \in Nat

\* The 32-bit time that any task gets by reading the counter is the true one: no
\* turn is missed and none is counted twice, whichever tasks read it and when.
CounterTrue == counter = [ref |-> lastRead.raw, wrap |-> lastRead.turn]

\* Each packet is given the 32-bit time of its reception, although the counter may
\* have rolled over before it was fetched, or since it was left in the buffer.
True32(p) == p.count = p.stamp
StampTrue == \A i \in DOMAIN up.found : True32(up.found[i])

\* The same of the packets that came in before the last reading of the counter, when
\* some readings fail.
StampTrueIfRead ==
    \A i \in DOMAIN up.found :
        WithinTurn(up.found[i].stamp, lastRead) => True32(up.found[i])

\* Whichever tasks read the counter, and whichever of their readings fail: the time they
\* get is the true one, and so is that of every packet received before the last of them.
TimesTrue == CounterTrue /\ StampTrueIfRead

\* thread_up is given packets in the order of their reception, and none twice.
InOrder ==
    \A i \in DOMAIN up.found :
        up.found[i].id > (IF i = 1 THEN lastOut ELSE up.found[i - 1].id)

Ids(s) == { s[i].id : i \in DOMAIN s }
Held == Ids(fifo) \cup Ids(rx) \cup Ids(up.found)
Sound(s) == \A i \in DOMAIN s : s[i].kind = "good"

\* The byte count of a fetch is misread in this step.
Misread == up'.misread /\ ~up.misread

\* A packet that is not given to thread_up was lost together with one that was
\* damaged, truncated or senseless, or by a fetch that misread its byte count: neither
\* a full array nor a late fetch, nor a call after such a fetch, loses any.
LostOnlyWithDamage ==
    [][Sound(fifo \o rx) /\ ~Misread => \A id \in Held \ Held' : id <= lastOut']_vars

=============================================================================
