------------------------------- MODULE Merging -------------------------------
(***************************************************************************)
(* merge_packets (loragw_hal.c): with fine timestamps enabled the SX1302   *)
(* demodulates a packet twice, and lgw_receive keeps one of the two.       *)
(*                                                                         *)
(* A packet is [count, content, crc_ok, ftime]: content stands for the     *)
(* channel, the datarate, the size and the payload, which are compared for *)
(* equality.  Packets of a batch have a CRC, good or bad.                  *)
(***************************************************************************)
EXTENDS Integers, Sequences, Functions

CONSTANTS Turn,     \* values of the 32-bit counter
          Apart     \* counts that two demodulations of a packet may differ by

\* The counter is wide enough to tell neighbours from packets half a turn away.
MergingAssumption == Turn \in Nat /\ Apart \in Nat /\ 4 * Apart < Turn

RxPackets == [count : 0 .. Turn - 1, content : STRING, crc_ok : BOOLEAN, ftime : BOOLEAN]

\* The difference of two counters as a signed integer.
Signed(d) == ((d + Turn \div 2) % Turn) - Turn \div 2

IsSamePkt(p, q) == /\ Signed(p.count - q.count) \in -Apart .. Apart
                   /\ p.content = q.content

\* The last packet takes the place of the removed one.
RemovePkt(s, i) == [j \in 1 .. Len(s) - 1 |-> IF j = i THEN s[Len(s)] ELSE s[j]]

\* Of two same packets the one that is removed.
Duplicate(s, j, k) ==
  CASE s[j].crc_ok /\ ~s[k].crc_ok -> k
    [] ~s[j].crc_ok /\ s[k].crc_ok -> j
    [] OTHER                       -> IF s[j].ftime THEN k ELSE j

\* The places of two same packets, and the first of them in the order of the two loops.
SamePairs(s) ==
  {pair \in (DOMAIN s) \X (DOMAIN s) : pair[1] < pair[2] /\ IsSamePkt(s[pair[1]], s[pair[2]])}

FirstOf(pairs) == CHOOSE p \in pairs : \A q \in pairs : p[1] < q[1] \/ (p[1] = q[1] /\ p[2] <= q[2])

\* Mutant: the search goes on after the place of the duplicate.
DeduplicatedOnwards(s) ==
  LET merged[n \in 0 .. Len(s)] ==
        IF n = 0 THEN [pkts |-> s, from |-> 1]
        ELSE LET m     == merged[n - 1]
                 pairs == {p \in SamePairs(m.pkts) : p[1] >= m.from}
                 first == FirstOf(pairs)
             IN  IF pairs = {} THEN m
                 ELSE [pkts |-> RemovePkt(m.pkts, Duplicate(m.pkts, first[1], first[2])), from |-> first[1] + 1]
  IN  merged[Len(s)].pkts

\* One search: the first pair of same packets loses one.
Search(s) ==
  LET first == FirstOf(SamePairs(s))
  IN  IF SamePairs(s) = {} THEN s ELSE RemovePkt(s, Duplicate(s, first[1], first[2]))

\* It restarts after each removal; there cannot be more of them than packets.
Deduplicated(s) ==
  LET merged[n \in 0 .. Len(s)] == IF n = 0 THEN s ELSE Search(merged[n - 1])
  IN  merged[Len(s)]

\* compare_pkt_tmst
Sooner(p, q) == Signed(p.count - q.count) < 0

\* qsort_r leaves some arrangement of the same packets, none of them after a later one.
Sorted(s) ==
  {t \in {[i \in DOMAIN s |-> s[f[i]]] : f \in Bijection(DOMAIN s, DOMAIN s)} :
     \A i \in 1 .. Len(t) - 1 : ~Sooner(t[i + 1], t[i])}

MergePackets(s) == Sorted(Deduplicated(s))

----------------------------------------------------------------------------
(* What a batch must satisfy, for the batches the SX1302 can hand over.    *)

\* A batch: packets received within half a turn of the counter.
Batch(s) ==
  /\ s \in Seq(RxPackets)
  /\ \E origin \in 0 .. Turn - 1 : \A i \in DOMAIN s : (s[i].count - origin) % Turn < Turn \div 2

\* Of a batch, the packets that are the same as others of ps two by two.
Same(s, ps) == {q \in {s[i] : i \in DOMAIN s} : \E p \in ps : IsSamePkt(p, q)}

\* Reached from p through packets that are the same two by two: in every set that holds p
\* and the same packets of all it holds.
Twins(s, p) ==
  {q \in {s[i] : i \in DOMAIN s} :
     \A ps \in SUBSET {s[i] : i \in DOMAIN s} : p \in ps /\ Same(s, ps) \subseteq ps => q \in ps}

\* No packet is handed over twice, in whatever order the demodulations came
\* and whichever was removed first (loragw_hal.c:392).
NoTwinsLeft(merged) == \A i, j \in DOMAIN merged : i # j => ~IsSamePkt(merged[i], merged[j])

\* Packet q stands for p of the batch: it passed the CRC if p did, and p's fine timestamp
\* is not given up for nothing.
StandsFor(s, p, q) ==
  /\ q \in Twins(s, p)
  /\ p.crc_ok => q.crc_ok
  /\ p.ftime => q.ftime \/ (q.crc_ok /\ ~p.crc_ok)

\* No packet is lost (loragw_hal.c:351).
BestTwinKept(s, merged) == \A i \in DOMAIN s : \E j \in DOMAIN merged : StandsFor(s, s[i], merged[j])

\* The packets are handed over in the order of their reception, also across a roll-over
\* (loragw_hal.c:409).
InOrderOfTime(merged) ==
  \A i, j \in DOMAIN merged : i < j => Signed(merged[j].count - merged[i].count) >= 0

\* Whatever order the sort leaves, and it finds one: the comparisons do not go round in
\* circles.
MergesWell(s) ==
  /\ MergePackets(s) # {}
  /\ \A merged \in MergePackets(s) : NoTwinsLeft(merged) /\ BestTwinKept(s, merged) /\ InOrderOfTime(merged)
=============================================================================
