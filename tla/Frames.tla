-------------------------------- MODULE Frames --------------------------------
(***************************************************************************)
(* The bytes of the SX1302's RX FIFO: rx_buffer_fetch finds the packets in *)
(* them (loragw_sx1302_rx.c), rx_buffer_pop takes one out.  What becomes of  *)
(* the metadata is in Parsing; calls and locks are in Reception.           *)
(*                                                                         *)
(* Of the metadata before the payload the length is kept, and of that      *)
(* after it the number of metrics and the checksum: HeadMetadata and TailMetadata are the  *)
(* lengths, 9 and 14 in the code.                                          *)
(***************************************************************************)
EXTENDS Integers, Sequences, SequencesExt

CONSTANTS HeadMetadata, TailMetadata

\* Metadata are no shorter than what the parser reads of them.
FramesAssumption == HeadMetadata \in Nat /\ HeadMetadata >= 3 /\ TailMetadata \in Nat /\ TailMetadata >= 2

Sync0 == 165
Sync1 == 192

Checksum(s) == FoldSeq(LAMBDA a, b : (a + b) % 256, 0, s)

Zeros(n) == [i \in 1 .. n |-> 0]

\* What the SX1302 writes for a packet [payload, metrics], two bytes a metric.
Frame(p) ==
  LET body == <<Sync0, Sync1, Len(p.payload)>> \o Zeros(HeadMetadata - 3) \o p.payload \o Zeros(TailMetadata - 2)
                \o <<p.metrics>> \o [i \in 1 .. 2 * p.metrics |-> i]
  IN  Append(body, Checksum(body))

----------------------------------------------------------------------------
(* The buffer: its bytes, of which size are valid; indices count from 0,   *)
(* and bytes never written read as 0.                                      *)

ByteAt(b, i) == IF i < Len(b.bytes) THEN b.bytes[i + 1] ELSE 0

SyncwordAt(b, i) == ByteAt(b, i) = Sync0 /\ ByteAt(b, i + 1) = Sync1

PayloadLength(b, i) == ByteAt(b, i + 2)

NumMetrics(b, i) == ByteAt(b, i + PayloadLength(b, i) + HeadMetadata + TailMetadata - 2)

\* Mutant: the metrics are forgotten.
PacketBytesPlain(b, i) == HeadMetadata + PayloadLength(b, i) + TailMetadata

PacketBytes(b, i) == HeadMetadata + PayloadLength(b, i) + TailMetadata + 2 * NumMetrics(b, i)

Empty == [bytes |-> <<>>, size |-> 0, packets |-> 0]

\* The first syncword comes to the front; the memory behind the bytes moved keeps
\* what it held.
Resynchronised(b, idx) ==
  [b EXCEPT !.size  = @ - idx,
            !.bytes = [i \in DOMAIN b.bytes |-> IF i <= b.size - idx THEN b.bytes[i + idx] ELSE b.bytes[i]]]

\* The packets from idx on, or -1 where a syncword is missing.
RECURSIVE Count(_, _)
Count(b, idx) ==
  IF idx >= b.size THEN 0
  ELSE IF ~SyncwordAt(b, idx) THEN -1
  ELSE LET rest == Count(b, idx + PacketBytes(b, idx))
       IN  IF rest < 0 THEN rest ELSE rest + 1

\* rx_buffer_fetch, once the bytes of the FIFO are in the buffer.
RxBufferFetch(bytes) ==
  LET b     == [bytes |-> bytes, size |-> Len(bytes), packets |-> 0]
      synced == {i \in 0 .. b.size - 2 : SyncwordAt(b, i)}
      moved == Resynchronised(b, CHOOSE i \in synced : \A j \in synced : i <= j)
      found == Count(moved, 0)
  IN  IF b.size < HeadMetadata + TailMetadata \/ synced = {} \/ found < 0
        THEN Empty
        ELSE [moved EXCEPT !.packets = found]

\* rx_buffer_pop at index idx: the packet, or why there is none.
RxBufferPop(b, idx) ==
  LET n     == PacketBytes(b, idx)
      bytes == [i \in 1 .. n |-> ByteAt(b, idx + i - 1)]
  IN  IF idx >= b.size \/ ~SyncwordAt(b, idx) THEN [result |-> "error"]
      ELSE IF idx + n > b.size \/ bytes[n] # Checksum(SubSeq(bytes, 1, n - 1)) THEN [result |-> "warning"]
      ELSE [result |-> "packet", next |-> idx + n,
            packet |-> [payload |-> SubSeq(bytes, HeadMetadata + 1, HeadMetadata + PayloadLength(b, idx)),
                        metrics |-> NumMetrics(b, idx)]]

\* The packets that come out of the buffer, all of them before the next fetch; a warning
\* clears it, an error ends the program and stands for itself.
RECURSIVE HandedOver(_, _, _)
HandedOver(b, idx, left) ==
  LET pop == RxBufferPop(b, idx)
  IN  IF left = 0 \/ pop.result = "warning" THEN <<>>
      ELSE IF pop.result = "packet" THEN <<pop.packet>> \o HandedOver(b, pop.next, left - 1)
      ELSE <<"error">>

Received(bytes) == LET b == RxBufferFetch(bytes) IN HandedOver(b, 0, b.packets)

----------------------------------------------------------------------------

\* Packets ps, of which the fetches separate packet k at byte cut: those before it and
\* those behind it are all handed over, once, in order and as they were, if the cut does
\* not leave a first syncword byte alone at the end and what is left of packet k does
\* not hold a syncword of its own (loragw_sx1302_rx.c:199).
FramesRecovered(ps, k, cut) ==
  LET frames == [i \in DOMAIN ps |-> Frame(ps[i])]
      fifo1  == FlattenSeq(SubSeq(frames, 1, k - 1)) \o SubSeq(frames[k], 1, cut)
      rest   == SubSeq(frames[k], cut + 1, Len(frames[k]))
      fifo2  == rest \o FlattenSeq(SubSeq(frames, k + 1, Len(frames)))
  IN  /\ cut \in {0} \cup 2 .. Len(frames[k])
      /\ \A i \in 1 .. Len(rest) - 1 : ~(rest[i] = Sync0 /\ rest[i + 1] = Sync1) \/ (i = 1 /\ cut = 0)
      => Received(fifo1) \o Received(fifo2)
           = SubSeq(ps, 1, k - 1) \o (IF cut \in {0, Len(frames[k])} THEN <<ps[k]>> ELSE <<>>)
               \o SubSeq(ps, k + 1, Len(ps))

=============================================================================
