--------------------------- MODULE ReceptionProofs ---------------------------
(***************************************************************************)
(* The 32-bit times of Reception.  The counter is right because it is read *)
(* within a turn of the last reading (NowClose); a stamp is right because  *)
(* the packet is younger than a turn (Recent) and because the counter was  *)
(* read after the packets were fetched (BeforeRead).                       *)
(***************************************************************************)
EXTENDS Reception, TLAPS

Stamped(s, t) == \A i \in DOMAIN s : WithinTurn(s[i].stamp, t)

\* Where thread_up is, and what the buffer and its array hold then.
Shape ==
    /\ up.pc # "parsing" => up.found = <<>>
    /\ up.pc = "idle" => up.misread = FALSE
    /\ up.pc = "parsing" => up.left > 0 /\ Len(rx) >= up.left - Len(up.found)
    /\ up.pc = "fetched" => Len(rx) >= up.left

NowClose == WithinTurn(lastRead, now)
Recent == Stamped(fifo, now) /\ Stamped(rx, now)
BeforeRead ==
    up.pc = "parsing" /\ ~ReadsFail => Stamped(rx, lastRead) /\ Stamped(up.found, lastRead)

\* A packet that is cut keeps its number and its stamp.
LEMMA TruncatedPackets ==
    ASSUME NEW f \in Seq(Packet), f # <<>>
    PROVE  /\ Truncated(f) \in Seq(Packet) /\ DOMAIN Truncated(f) = DOMAIN f
           /\ \A i \in DOMAIN f :
                 Truncated(f)[i].id = f[i].id /\ Truncated(f)[i].stamp = f[i].stamp
<1> DEFINE n == Len(f)
           last == [f[n] EXCEPT !.kind = "damaged"]
<1>1. n \in DOMAIN f /\ f[n] \in Packet
  OBVIOUS
<1>2. last \in Packet /\ last.stamp = f[n].stamp /\ last.id = f[n].id
  BY <1>1 DEF Packet, PacketKinds
<1>3. Truncated(f) = [f EXCEPT ![n] = last]
  BY <1>1 DEF Truncated
<1> QED
  BY <1>1, <1>2, <1>3

\* r has the packets of f, perhaps not as they were, or none.
From(r, f) ==
    /\ r \in Seq(Packet)
    /\ \/ r = <<>>
       \/ /\ DOMAIN r = DOMAIN f
          /\ \A i \in DOMAIN r : r[i].id = f[i].id /\ r[i].stamp = f[i].stamp

\* What is in the buffer after a fetch comes from the FIFO.
LEMMA FetchedPackets ==
    ASSUME NEW f \in Seq(Packet), NEW r \in Fetched(f)
    PROVE  From(r, f)
<1>1. CASE r = <<>>
  BY <1>1 DEF From
<1>3. CASE r = f
  BY <1>3 DEF From
<1>2. CASE Writing(f) /\ r = Truncated(f)
  BY <1>2, TruncatedPackets DEF Writing, From
<1> QED
  BY <1>1, <1>2, <1>3 DEF Fetched

\* The same of a part of it that ends anywhere, and of what stays in the FIFO.
LEMMA FewPackets ==
    ASSUME fifo \in Seq(Packet), TooFew
    PROVE  \E n \in 0 .. Len(fifo) :
              /\ From(rx', SubSeq(fifo, 1, n))
              /\ fifo' = SubSeq(fifo, n + 1, Len(fifo))
<1>1. PICK n \in 0 .. Len(fifo) :
         /\ rx' \in LET part == SubSeq(fifo, 1, n)
                    IN  Fetched(part) \cup (IF n = 0 THEN {} ELSE {Truncated(part), <<>>})
         /\ fifo' = SubSeq(fifo, n + 1, Len(fifo))
  BY DEF TooFew
<1> DEFINE part == SubSeq(fifo, 1, n)
<1>2. part \in Seq(Packet) /\ Len(part) = n
  OBVIOUS
<1>3. \/ rx' \in Fetched(part) \/ rx' = <<>>
      \/ n # 0 /\ rx' = Truncated(part)
  BY <1>1
<1>4. n # 0 => part # <<>>
  BY <1>2
<1> HIDE DEF part
<1>5. From(rx', part)
  <2>1. CASE rx' \in Fetched(part)
    BY <1>2, <2>1, FetchedPackets
  <2>2. CASE rx' = <<>>
    BY <2>2 DEF From
  <2>3. CASE n # 0 /\ rx' = Truncated(part)
    BY <1>2, <1>4, <2>3, TruncatedPackets DEF From
  <2> QED
    BY <1>3, <2>1, <2>2, <2>3
<1> QED
  BY <1>1, <1>5 DEF part

\* After the packets of the FIFO comes something with the next number, or nothing is kept.
LEMMA ManyPackets ==
    ASSUME TypeOK, TooMany
    PROVE  /\ fifo' = <<>>
           /\ \/ rx' = <<>> /\ arrived' = arrived
              \/ /\ arrived' = arrived + 1
                 /\ \E f, p : /\ From(f, fifo) /\ p \in Packet
                              /\ p.id = arrived + 1 /\ p.stamp = now
                              /\ rx' = Append(f, p)
<1>1. CASE rx' = <<>> /\ UNCHANGED arrived
  BY <1>1 DEF TooMany
<1>2. CASE arrived' = arrived + 1
  <2>1. PICK kind \in {"damaged", "senseless"} :
           rx' = Append(IF Writing(fifo) THEN Truncated(fifo) ELSE fifo,
                        [id |-> arrived + 1, stamp |-> now, kind |-> kind])
    BY <1>2 DEF TooMany, TypeOK
  <2> DEFINE f == IF Writing(fifo) THEN Truncated(fifo) ELSE fifo
             p == [id |-> arrived + 1, stamp |-> now, kind |-> kind]
  <2>2. p \in Packet /\ p.id = arrived + 1 /\ p.stamp = now
    BY <2>1 DEF TypeOK, Packet, PacketKinds
  <2>3. fifo \in Seq(Packet) /\ f \in Fetched(fifo)
    BY DEF TypeOK, Fetched
  <2>4. From(f, fifo)
    BY <2>3, FetchedPackets
  <2>5. rx' = Append(f, p)
    BY <2>1
  <2> QED
    BY <1>2, <2>2, <2>4, <2>5 DEF TooMany
<1> QED
  BY <1>1, <1>2 DEF TooMany

\* Whatever the byte count, what is fetched is as recent as what was in the FIFO.
LEMMA MiscountRecent ==
    ASSUME TypeOK, Recent, TooFew \/ TooMany
    PROVE  /\ rx' \in Seq(Packet) /\ fifo' \in Seq(Packet) /\ arrived' \in Nat
           /\ Stamped(rx', now) /\ Stamped(fifo', now)
<1>0. fifo \in Seq(Packet) /\ now \in Time /\ arrived \in Nat /\ Stamped(fifo, now)
      /\ Stamped(<<>>, now)
  BY DEF TypeOK, Recent, Stamped
<1>1. CASE TooFew
  <2>1. PICK n \in 0 .. Len(fifo) : /\ From(rx', SubSeq(fifo, 1, n))
                                    /\ fifo' = SubSeq(fifo, n + 1, Len(fifo))
    BY <1>0, <1>1, FewPackets
  <2>2. /\ \A i \in DOMAIN SubSeq(fifo, 1, n) : SubSeq(fifo, 1, n)[i] = fifo[i] /\ i \in DOMAIN fifo
        /\ \A i \in DOMAIN fifo' : fifo'[i] = fifo[n + i] /\ n + i \in DOMAIN fifo
        /\ fifo' \in Seq(Packet)
    BY <1>0, <2>1
  <2>3. Stamped(fifo', now)
    BY <1>0, <2>2 DEF Stamped
  <2>4. Stamped(rx', now)
    BY <1>0, <2>1, <2>2 DEF Stamped, From
  <2> QED
    BY <1>0, <1>1, <2>1, <2>2, <2>3, <2>4 DEF From, TooFew
<1>2. CASE TooMany
  <2>1. CASE rx' = <<>> /\ arrived' = arrived
    BY <1>0, <1>2, <2>1, ManyPackets
  <2>2. CASE rx' # <<>> \/ arrived' # arrived
    <3>1. PICK f, p : /\ From(f, fifo) /\ p \in Packet /\ p.id = arrived + 1 /\ p.stamp = now
                      /\ rx' = Append(f, p)
      BY <1>2, <2>2, ManyPackets
    <3>2. arrived' \in Nat /\ fifo' = <<>>
      BY <1>0, <1>2, <2>2, ManyPackets
    <3>3. WithinTurn(now, now)
      BY <1>0, ReceptionAssumption DEF WithinTurn, Time, Raw
    <3>4. f \in Seq(Packet) /\ Stamped(f, now)
      BY <1>0, <3>1 DEF Stamped, From
    <3>5. /\ rx' \in Seq(Packet)
          /\ \A i \in DOMAIN rx' : rx'[i] = p \/ (i \in DOMAIN f /\ rx'[i] = f[i])
      BY <3>1, <3>4
    <3> QED
      BY <1>0, <3>1, <3>2, <3>3, <3>4, <3>5 DEF Stamped
  <2> QED
    BY <2>1, <2>2
<1> QED
  BY <1>1, <1>2

\* The first packet of the buffer, when there is one to parse.
LEMMA HeadParse ==
    ASSUME TypeOK, Shape, up.pc = "parsing", Len(up.found) < up.left
    PROVE  /\ rx # <<>> /\ Head(rx) \in Packet /\ Tail(rx) \in Seq(Packet)
           /\ Len(Tail(rx)) = Len(rx) - 1
           /\ \A t \in Time : Stamped(rx, t) =>
                 WithinTurn(Head(rx).stamp, t) /\ Stamped(Tail(rx), t)
<1>1. Len(rx) > 0 /\ rx \in Seq(Packet)
  BY DEF TypeOK, Shape
<1>2. rx # <<>> /\ Head(rx) = rx[1] /\ rx[1] \in Packet /\ 1 \in DOMAIN rx
  BY <1>1
<1>3. /\ Tail(rx) \in Seq(Packet) /\ Len(Tail(rx)) = Len(rx) - 1
      /\ \A i \in 1 .. Len(rx) - 1 : Tail(rx)[i] = rx[i + 1] /\ i + 1 \in DOMAIN rx
  BY <1>1
<1>4. DOMAIN Tail(rx) = 1 .. Len(rx) - 1
  BY <1>3
<1> QED
  BY <1>1, <1>2, <1>3, <1>4 DEF Stamped

\* A later tick is a time.
LEMMA LaterTime == \A t \in Time : Later(t) \in Time
BY ReceptionAssumption DEF Later, Time, Turn, Raw, NextTurn

\* The stamp thread_up computes is the true one when the counter is right and was
\* read within a turn after the packet.
LEMMA ExpandTrue ==
    ASSUME TypeOK, CounterTrue, NEW s \in Time, WithinTurn(s, lastRead)
    PROVE  PktExpand(s.raw) = s
<1>1. /\ s = [turn |-> s.turn, raw |-> s.raw] /\ s.turn \in 0 .. Wraps - 1 /\ s.raw \in Nat
      /\ lastRead.turn \in 0 .. Wraps - 1 /\ lastRead.raw \in Nat
      /\ counter.ref = lastRead.raw /\ counter.wrap = lastRead.turn
  BY ReceptionAssumption DEF TypeOK, Time, Turn, Raw, CounterTrue
<1>2. CASE lastRead.turn = s.turn /\ lastRead.raw >= s.raw
  BY <1>1, <1>2 DEF PktExpand
<1>3. CASE lastRead.turn = NextTurn(s.turn) /\ lastRead.raw < s.raw
  <2>1. PrevTurn(lastRead.turn) = s.turn
    BY <1>1, <1>3, ReceptionAssumption DEF NextTurn, PrevTurn
  <2>2. ~(counter.ref >= s.raw)
    BY <1>1, <1>3
  <2> QED
    BY <1>1, <2>1, <2>2 DEF PktExpand
<1> QED
  BY <1>2, <1>3 DEF WithinTurn

\* Reading the counter within a turn of the last reading keeps it right.
LEMMA UpdateTrue ==
    ASSUME TypeOK, CounterTrue, NowClose, UpdateCounter
    PROVE  /\ counter' = [ref |-> now.raw, wrap |-> now.turn]
           /\ lastRead' = now
           /\ counter' \in [ref : Raw, wrap : Turn]
<1>1. now \in Time /\ lastRead \in Time
  BY DEF TypeOK
<1>2. /\ now.turn \in Turn /\ now.raw \in Raw
      /\ counter.ref = lastRead.raw /\ counter.wrap = lastRead.turn
      /\ lastRead.raw \in Nat /\ now.raw \in Nat
  BY <1>1, ReceptionAssumption DEF Time, Raw, CounterTrue
<1>3. (IF now.raw < counter.ref THEN NextTurn(counter.wrap) ELSE counter.wrap) = now.turn
  BY <1>2 DEF NowClose, WithinTurn
<1> QED
  BY <1>2, <1>3 DEF UpdateCounter

IInv ==
    /\ TypeOK /\ Shape /\ CounterTrue /\ NowClose /\ Recent /\ BeforeRead
    /\ StampTrueIfRead

\* IInv holds at the start.
LEMMA InitIInv == Init => IInv
<1> SUFFICES ASSUME Init PROVE IInv
  OBVIOUS
<1>1. now \in Time /\ now.turn = 0 /\ now.raw \in Raw /\ 0 \in Turn
  BY ReceptionAssumption DEF Init, Time, Turn
<1>2. TypeOK
  BY <1>1, ReceptionAssumption DEF Init, TypeOK, Idle, Packet, Parsed
<1>3. NowClose
  BY <1>1 DEF Init, NowClose, WithinTurn, Raw
<1> QED
  BY <1>1, <1>2, <1>3 DEF Init, Idle, IInv, Shape, CounterTrue, Recent, Stamped, BeforeRead,
     StampTrueIfRead

\* A step of thread_up in lgw_receive keeps it.
LEMMA UpIInv == IInv /\ UpNext => IInv'
<1> SUFFICES ASSUME IInv, UpNext PROVE IInv'
  OBVIOUS
<1> USE DEF IInv
<1>1. CASE UpFetch
  <2>1. rx' \in Seq(Packet) /\ fifo' \in Seq(Packet) /\ Stamped(rx', now) /\ Stamped(fifo', now)
    <3>1. now \in Time /\ fifo \in Seq(Packet) /\ rx \in Seq(Packet)
      BY DEF TypeOK
    <3>2. CASE rx = <<>>
      <4>1. rx' \in Fetched(fifo) /\ fifo' = <<>>
        BY <1>1, <3>2 DEF UpFetch
      <4>2. From(rx', fifo)
        BY <3>1, <4>1, FetchedPackets
      <4> QED
        BY <3>1, <4>1, <4>2 DEF From, Recent, Stamped
    <3>3. CASE rx # <<>>
      BY <1>1, <3>1, <3>3 DEF UpFetch, Recent
    <3> QED
      BY <3>2, <3>3
  <2>2. Share(Len(rx')) \in 0 .. MaxPkt /\ Share(Len(rx')) <= Len(rx')
    BY <2>1, ReceptionAssumption DEF Share
  <2>3. up' = [pc |-> "fetched", left |-> Share(Len(rx')), found |-> <<>>, misread |-> FALSE]
    BY <1>1 DEF UpFetch, Idle
  <2>4. UNCHANGED <<now, counter, arrived, lastOut, lastRead>>
    BY <1>1 DEF UpFetch
  <2>5. TypeOK'
    BY <2>1, <2>2, <2>3, <2>4 DEF TypeOK
  <2> QED
    BY <2>1, <2>2, <2>3, <2>4, <2>5
    DEF Shape, CounterTrue, NowClose, Recent, BeforeRead, StampTrueIfRead
<1>8. CASE UpMiscount
  <2>1. /\ rx' \in Seq(Packet) /\ fifo' \in Seq(Packet) /\ arrived' \in Nat
        /\ Stamped(rx', now) /\ Stamped(fifo', now)
    BY <1>8, MiscountRecent DEF UpMiscount
  <2>2. Share(Len(rx')) \in 0 .. MaxPkt /\ Share(Len(rx')) <= Len(rx')
    BY <2>1, ReceptionAssumption DEF Share
  <2>3. up' = [pc |-> "fetched", left |-> Share(Len(rx')), found |-> <<>>, misread |-> TRUE]
    BY <1>8 DEF UpMiscount, Idle
  <2>4. UNCHANGED <<now, counter, lastOut, lastRead>>
    BY <1>8 DEF UpMiscount
  <2>5. TypeOK'
    BY <2>1, <2>2, <2>3, <2>4 DEF TypeOK
  <2> QED
    BY <2>1, <2>2, <2>3, <2>4, <2>5
    DEF Shape, CounterTrue, NowClose, Recent, BeforeRead, StampTrueIfRead
<1>2. CASE FetchFails \/ UpAbort
  <2>1. /\ up' = [pc |-> "exited", left |-> 0, found |-> <<>>, misread |-> FALSE]
        /\ UNCHANGED <<now, fifo, rx, counter, arrived, lastOut, lastRead>>
    BY <1>2 DEF FetchFails, UpAbort, Exit, Idle
  <2>2. TypeOK'
    BY <2>1, ReceptionAssumption DEF TypeOK
  <2> QED
    BY <2>1, <2>2 DEF Shape, CounterTrue, NowClose, Recent, BeforeRead, StampTrueIfRead
<1>3. CASE UpUpdate
  <2>1. /\ counter' = [ref |-> now.raw, wrap |-> now.turn] /\ lastRead' = now
        /\ counter' \in [ref : Raw, wrap : Turn]
    BY <1>3, UpdateTrue DEF UpUpdate
  <2>2. up.pc = "fetched" /\ UNCHANGED <<now, fifo, rx, arrived, lastOut>>
    BY <1>3 DEF UpUpdate
  <2>3. \/ up' = [pc |-> "idle", left |-> 0, found |-> <<>>, misread |-> FALSE]
        \/ up' = [up EXCEPT !.pc = "parsing"] /\ up.left # 0
    BY <1>3 DEF UpUpdate, AfterUpdate, Idle
  <2>4. up.found = <<>> /\ up.left \in Nat /\ Len(rx) >= up.left
    BY <2>2 DEF Shape, TypeOK
  <2>5. TypeOK' /\ up'.found = <<>>
    <3>1. up \in [pc : {"idle", "fetched", "parsing", "exited"}, left : 0 .. MaxPkt,
                  found : Seq(Parsed), misread : BOOLEAN]
      BY DEF TypeOK
    <3>2. /\ up'.found = <<>> /\ Len(up'.found) <= up'.left
          /\ up' \in [pc : {"idle", "fetched", "parsing", "exited"}, left : 0 .. MaxPkt,
                     found : Seq(Parsed), misread : BOOLEAN]
      <4>1. CASE up' = [pc |-> "idle", left |-> 0, found |-> <<>>, misread |-> FALSE]
        BY <4>1, ReceptionAssumption
      <4>2. CASE up' = [up EXCEPT !.pc = "parsing"]
        <5>1. up' \in [pc : {"idle", "fetched", "parsing", "exited"}, left : 0 .. MaxPkt,
                      found : Seq(Parsed), misread : BOOLEAN]
          BY <3>1, <4>2, Zenon
        <5>2. up'.found = <<>> /\ up'.left = up.left
          BY <3>1, <4>2, <2>4
        <5> QED
          BY <3>1, <5>1, <5>2
      <4> QED
        BY <2>3, <4>1, <4>2
    <3> QED
      BY <2>1, <2>2, <2>3, <2>4, <3>2 DEF TypeOK
  <2>6. WithinTurn(now, now)
    BY ReceptionAssumption DEF WithinTurn, TypeOK, Time, Raw
  <2>7. Shape'
    BY <2>2, <2>3, <2>4, <2>5 DEF Shape, TypeOK
  <2>8. BeforeRead'
    BY <2>1, <2>2, <2>5 DEF BeforeRead, Recent, Stamped
  <2> QED
    BY <2>1, <2>2, <2>5, <2>6, <2>7, <2>8
    DEF CounterTrue, NowClose, Recent, StampTrueIfRead
<1>4. CASE UpdateFails
  <2>1. ReadsFail /\ up.pc = "fetched"
        /\ UNCHANGED <<now, fifo, rx, counter, arrived, lastOut, lastRead>>
    BY <1>4 DEF UpdateFails
  <2>2. \/ up' = [pc |-> "idle", left |-> 0, found |-> <<>>, misread |-> FALSE]
        \/ up' = [up EXCEPT !.pc = "parsing"] /\ up.left # 0
    BY <1>4 DEF UpdateFails, AfterUpdate, Idle
  <2>3. up.found = <<>> /\ up.left \in Nat /\ Len(rx) >= up.left
    BY <2>1 DEF Shape, TypeOK
  <2>4. TypeOK' /\ up'.found = <<>>
    <3>1. up \in [pc : {"idle", "fetched", "parsing", "exited"}, left : 0 .. MaxPkt,
                  found : Seq(Parsed), misread : BOOLEAN]
      BY DEF TypeOK
    <3>2. /\ up'.found = <<>> /\ Len(up'.found) <= up'.left
          /\ up' \in [pc : {"idle", "fetched", "parsing", "exited"}, left : 0 .. MaxPkt,
                     found : Seq(Parsed), misread : BOOLEAN]
      <4>1. CASE up' = [pc |-> "idle", left |-> 0, found |-> <<>>, misread |-> FALSE]
        BY <4>1, ReceptionAssumption
      <4>2. CASE up' = [up EXCEPT !.pc = "parsing"]
        <5>1. up' \in [pc : {"idle", "fetched", "parsing", "exited"}, left : 0 .. MaxPkt,
                      found : Seq(Parsed), misread : BOOLEAN]
          BY <3>1, <4>2, Zenon
        <5>2. up'.found = <<>> /\ up'.left = up.left
          BY <3>1, <4>2, <2>3
        <5> QED
          BY <3>1, <5>1, <5>2
      <4> QED
        BY <2>2, <4>1, <4>2
    <3> QED
      BY <2>1, <2>2, <2>3, <3>2 DEF TypeOK
  <2>5. Shape'
    BY <2>1, <2>2, <2>3, <2>4 DEF Shape, TypeOK
  <2> QED
    BY <2>1, <2>4, <2>5
    DEF CounterTrue, NowClose, Recent, BeforeRead, Stamped, StampTrueIfRead
<1>5. CASE UpParse
  <2> DEFINE p == Head(rx)
             new == [id |-> p.id, stamp |-> p.stamp, count |-> PktExpand(p.stamp.raw)]
  <2>1. /\ up.pc = "parsing" /\ Len(up.found) < up.left
        /\ up' = [up EXCEPT !.found = Append(up.found, new)]
        /\ rx' = Tail(rx)
        /\ UNCHANGED <<now, fifo, counter, arrived, lastOut, lastRead>>
    BY <1>5 DEF UpParse, ToParse
  <2>2. /\ p \in Packet /\ rx' \in Seq(Packet) /\ Len(rx') = Len(rx) - 1
        /\ \A t \in Time : Stamped(rx, t) => WithinTurn(p.stamp, t) /\ Stamped(rx', t)
    BY <2>1, HeadParse
  <2>3. p.stamp \in Time /\ p.stamp.raw \in Raw /\ p.id \in Nat
    BY <2>2 DEF Packet, Time
  <2>4. PktExpand(p.stamp.raw) \in Time
    BY <2>3, ReceptionAssumption, SMTT(30) DEF PktExpand, TypeOK, Time, Turn, PrevTurn
  <2>5. new \in Parsed
    BY <2>3, <2>4 DEF Parsed
  <2>6. /\ up'.found = Append(up.found, new) /\ up'.pc = "parsing" /\ up'.left = up.left
        /\ up.found \in Seq(Parsed) /\ up.left \in 0 .. MaxPkt
    BY <2>1 DEF TypeOK
  <2>7. /\ up'.found \in Seq(Parsed) /\ Len(up'.found) = Len(up.found) + 1
        /\ \A i \in DOMAIN up'.found : up'.found[i] = new \/ (i \in DOMAIN up.found /\ up'.found[i] = up.found[i])
    BY <2>5, <2>6
  <2>8. TypeOK'
    <3>1. up' \in [pc : {"idle", "fetched", "parsing"}, left : 0 .. MaxPkt, found : Seq(Parsed),
                  misread : BOOLEAN]
      BY <2>1, <2>6, <2>7 DEF TypeOK
    <3>2. Len(up'.found) <= up'.left
      BY <2>1, <2>6, <2>7
    <3> QED
      BY <2>1, <2>2, <3>1, <3>2 DEF TypeOK
  <2>9. Shape'
    BY <2>1, <2>2, <2>6, <2>7 DEF Shape, TypeOK
  <2>10. Recent'
    BY <2>1, <2>2 DEF Recent, TypeOK, Stamped
  <2>11. BeforeRead'
    BY <2>1, <2>2, <2>7, SMTT(30) DEF BeforeRead, TypeOK, Stamped
  <2>12. WithinTurn(p.stamp, lastRead) => True32(new)
    BY <2>3, ExpandTrue DEF True32
  <2>13. StampTrueIfRead'
    BY <2>1, <2>7, <2>12 DEF StampTrueIfRead
  <2> QED
    BY <2>1, <2>8, <2>9, <2>10, <2>11, <2>13 DEF CounterTrue, NowClose
<1>6. CASE UpDiscard
  <2>1. /\ up' = [pc |-> "idle", left |-> 0, found |-> <<>>, misread |-> FALSE] /\ rx' = <<>>
        /\ UNCHANGED <<now, fifo, counter, arrived, lastOut, lastRead>>
    BY <1>6 DEF UpDiscard, Idle
  <2>2. TypeOK'
    BY <2>1, ReceptionAssumption DEF TypeOK
  <2> QED
    BY <2>1, <2>2
    DEF Shape, CounterTrue, NowClose, Recent, Stamped, BeforeRead, StampTrueIfRead
<1>7. CASE UpReturn
  <2>1. /\ up.pc = "parsing" /\ Len(up.found) = up.left
        /\ lastOut' = up.found[Len(up.found)].id
        /\ up' = [pc |-> "idle", left |-> 0, found |-> <<>>, misread |-> FALSE]
        /\ UNCHANGED <<now, fifo, rx, counter, arrived, lastRead>>
    BY <1>7 DEF UpReturn, Idle
  <2>2. up.found \in Seq(Parsed) /\ Len(up.found) > 0
    BY <2>1 DEF TypeOK, Shape
  <2>3. up.found[Len(up.found)] \in Parsed
    BY <2>2
  <2>4. TypeOK'
    BY <2>1, <2>3, ReceptionAssumption DEF TypeOK, Parsed
  <2> QED
    BY <2>1, <2>4 DEF Shape, CounterTrue, NowClose, Recent, BeforeRead, StampTrueIfRead
<1> QED
  BY <1>1, <1>2, <1>3, <1>4, <1>5, <1>6, <1>7, <1>8 DEF UpNext

\* Every step keeps it.
LEMMA NextIInv == IInv /\ [Next]_vars => IInv'
<1> SUFFICES ASSUME IInv, [Next]_vars PROVE IInv'
  OBVIOUS
<1>1. CASE UpNext
  BY <1>1, UpIInv
<1> USE DEF IInv
<1>2. CASE ReadCounter
  <2>1. /\ counter' = [ref |-> now.raw, wrap |-> now.turn] /\ lastRead' = now
        /\ counter' \in [ref : Raw, wrap : Turn]
    BY <1>2, UpdateTrue DEF ReadCounter
  <2>2. up.pc = "idle" /\ UNCHANGED <<now, fifo, rx, up, arrived, lastOut>>
    BY <1>2 DEF ReadCounter
  <2>3. WithinTurn(now, now)
    BY ReceptionAssumption DEF WithinTurn, TypeOK, Time, Raw
  <2> QED
    BY <2>1, <2>2, <2>3
    DEF TypeOK, Shape, CounterTrue, NowClose, Recent, BeforeRead, StampTrueIfRead
<1>3. CASE Arrive
  <2>1. PICK kind \in Arriving :
           fifo' = Append(fifo, [id |-> arrived + 1, stamp |-> now, kind |-> kind])
    BY <1>3 DEF Arrive
  <2> DEFINE new == [id |-> arrived + 1, stamp |-> now, kind |-> kind]
  <2>2. arrived' = arrived + 1 /\ UNCHANGED <<now, rx, counter, up, lastOut, lastRead>>
    BY <1>3 DEF Arrive
  <2>3. new \in Packet
    BY <2>1, ReceptionAssumption DEF TypeOK, Packet
  <2>4. fifo \in Seq(Packet)
    BY DEF TypeOK
  <2>5. /\ fifo' \in Seq(Packet)
        /\ \A i \in DOMAIN fifo' : fifo'[i] = new \/ (i \in DOMAIN fifo /\ fifo'[i] = fifo[i])
    BY <2>1, <2>3, <2>4
  <2>6. WithinTurn(now, now)
    BY ReceptionAssumption DEF WithinTurn, TypeOK, Time, Raw
  <2>7. Recent'
    BY <2>2, <2>5, <2>6 DEF Recent, Stamped
  <2>8. TypeOK'
    BY <2>2, <2>5 DEF TypeOK
  <2> QED
    BY <2>2, <2>7, <2>8 DEF Shape, CounterTrue, NowClose, BeforeRead, StampTrueIfRead
<1>4. CASE Written
  <2>1. /\ fifo # <<>> /\ fifo' = [fifo EXCEPT ![Len(fifo)].kind = "good"]
        /\ UNCHANGED <<now, rx, counter, up, arrived, lastOut, lastRead>>
    BY <1>4 DEF Written, Writing
  <2> DEFINE n == Len(fifo)
             last == [fifo[n] EXCEPT !.kind = "good"]
  <2>2. fifo \in Seq(Packet) /\ n \in DOMAIN fifo /\ fifo[n] \in Packet
    BY <2>1 DEF TypeOK
  <2>3. last \in Packet /\ last.stamp = fifo[n].stamp
    BY <2>2 DEF Packet, PacketKinds
  <2>4. fifo' = [fifo EXCEPT ![n] = last]
    BY <2>1
  <2>5. /\ fifo' \in Seq(Packet) /\ DOMAIN fifo' = DOMAIN fifo
        /\ \A i \in DOMAIN fifo : fifo'[i].stamp = fifo[i].stamp
    BY <2>2, <2>3, <2>4
  <2>6. Recent' /\ TypeOK'
    BY <2>1, <2>5 DEF Recent, Stamped, TypeOK
  <2> QED
    BY <2>1, <2>6 DEF Shape, CounterTrue, NowClose, BeforeRead, StampTrueIfRead
<1>5. CASE Tick
  <2>1. /\ now' = Later(now) /\ WithinTurn(lastRead, now')
        /\ Stamped(fifo, now') /\ Stamped(rx, now')
        /\ UNCHANGED <<fifo, rx, counter, up, arrived, lastOut, lastRead>>
    BY <1>5 DEF Tick, Stamped
  <2>2. now' \in Time
    BY <2>1, LaterTime DEF TypeOK
  <2> QED
    BY <2>1, <2>2
    DEF TypeOK, Shape, CounterTrue, NowClose, Recent, BeforeRead, StampTrueIfRead
<1>6. CASE UNCHANGED vars
  BY <1>6 DEF vars, TypeOK, Shape, CounterTrue, NowClose, Recent, BeforeRead, StampTrueIfRead,
     Stamped
<1> QED
  BY <1>1, <1>2, <1>3, <1>4, <1>5, <1>6 DEF Next

\* So it holds always.
LEMMA AlwaysIInv == Spec => []IInv
BY InitIInv, NextIInv, PTL DEF Spec

\* Type correctness, with thread_up's array never overrun.
THEOREM ReceptionTyped == Spec => []TypeOK
BY AlwaysIInv, PTL DEF IInv

\* Every task that reads the counter gets the true 32-bit time.
THEOREM CounterAlwaysTrue == Spec => []CounterTrue
BY AlwaysIInv, PTL DEF IInv

\* Whatever fails, a packet received before the last reading has its true time.
THEOREM StampsTrueIfRead == Spec => []StampTrueIfRead
BY AlwaysIInv, PTL DEF IInv

\* Both together: all that the tasks learn of the time is true.
THEOREM TimesAlwaysTrue == Spec => []TimesTrue
<1>1. CounterTrue /\ StampTrueIfRead => TimesTrue
  BY DEF TimesTrue
<1> QED
  BY <1>1, CounterAlwaysTrue, StampsTrueIfRead, PTL

\* When no access to the SX1302 fails every packet is given its true time.
THEOREM StampsTrue == ~ReadsFail => (Spec => []StampTrue)
<1> SUFFICES ASSUME ~ReadsFail PROVE Spec => []StampTrue
  OBVIOUS
<1>1. IInv => StampTrue
  <2> SUFFICES ASSUME IInv, NEW i \in DOMAIN up.found PROVE True32(up.found[i])
    BY DEF StampTrue
  <2>1. up.pc = "parsing"
    BY DEF IInv, Shape
  <2> QED
    BY <2>1 DEF IInv, BeforeRead, Stamped, StampTrueIfRead
<1> QED
  BY <1>1, AlwaysIInv, PTL
-----------------------------------------------------------------------------
(* The order of the packets: what is found comes before what is in the      *)
(* buffer, and that before what is in the FIFO.                             *)

Rising(s) == \A i, j \in DOMAIN s : i < j => s[i].id < s[j].id
Before(s, t) == \A i \in DOMAIN s : \A j \in DOMAIN t : s[i].id < t[j].id
Beyond(s) == \A i \in DOMAIN s : lastOut < s[i].id /\ s[i].id <= arrived

Ordered ==
    /\ Rising(up.found) /\ Rising(rx) /\ Rising(fifo)
    /\ Before(up.found, rx) /\ Before(up.found, fifo) /\ Before(rx, fifo)
    /\ Beyond(up.found) /\ Beyond(rx) /\ Beyond(fifo)
    /\ lastOut <= arrived

\* At the start there is nothing to be out of order.
LEMMA InitOrdered == Init => Ordered
<1>1. DOMAIN <<>> = {}
  OBVIOUS
<1> QED
  BY <1>1 DEF Init, Idle, Ordered, Rising, Before, Beyond

\* What is fetched with any byte count has the numbers of packets of the FIFO, in order,
\* and then perhaps the next one.
LEMMA MiscountOrder ==
    ASSUME TypeOK, Ordered, TooFew \/ TooMany
    PROVE  /\ Rising(rx') /\ Rising(fifo') /\ Before(rx', fifo') /\ arrived <= arrived'
           /\ \A i \in DOMAIN rx' : lastOut < rx'[i].id /\ rx'[i].id <= arrived'
           /\ \A i \in DOMAIN fifo' : lastOut < fifo'[i].id /\ fifo'[i].id <= arrived'
<1>0. /\ fifo \in Seq(Packet) /\ arrived \in Nat /\ lastOut \in Nat /\ lastOut <= arrived
      /\ Rising(fifo) /\ Beyond(fifo) /\ DOMAIN <<>> = {}
  BY DEF TypeOK, Ordered
<1>1. CASE TooFew
  <2>1. PICK n \in 0 .. Len(fifo) : /\ From(rx', SubSeq(fifo, 1, n))
                                    /\ fifo' = SubSeq(fifo, n + 1, Len(fifo))
    BY <1>0, <1>1, FewPackets
  <2>2. /\ \A i \in DOMAIN SubSeq(fifo, 1, n) :
              SubSeq(fifo, 1, n)[i] = fifo[i] /\ i \in DOMAIN fifo /\ i \in 1 .. n
        /\ \A i \in DOMAIN fifo' : fifo'[i] = fifo[n + i] /\ n + i \in DOMAIN fifo /\ i \in Nat /\ i > 0
    BY <1>0, <2>1
  <2>3. \A i \in DOMAIN rx' : rx'[i].id = fifo[i].id /\ i \in DOMAIN fifo /\ i \in 1 .. n
    BY <1>0, <2>1, <2>2 DEF From
  <2>4. arrived' = arrived
    BY <1>1 DEF TooFew
  <2>5. Rising(rx') /\ Rising(fifo')
    BY <1>0, <2>2, <2>3 DEF Rising
  <2>6. Before(rx', fifo')
    BY <1>0, <2>2, <2>3 DEF Before, Rising
  <2> QED
    BY <1>0, <2>2, <2>3, <2>4, <2>5, <2>6 DEF Beyond
<1>2. CASE TooMany
  <2>1. CASE rx' = <<>> /\ arrived' = arrived
    BY <1>0, <1>2, <2>1, ManyPackets DEF Rising, Before
  <2>2. CASE rx' # <<>> \/ arrived' # arrived
    <3>1. PICK f, p : /\ From(f, fifo) /\ p \in Packet /\ p.id = arrived + 1 /\ p.stamp = now
                      /\ rx' = Append(f, p)
      BY <1>2, <2>2, ManyPackets
    <3>2. arrived' = arrived + 1 /\ fifo' = <<>>
      BY <1>0, <1>2, <2>2, ManyPackets
    <3>3. f \in Seq(Packet) /\ \A i \in DOMAIN f : f[i].id = fifo[i].id /\ i \in DOMAIN fifo
      BY <1>0, <3>1 DEF From
    <3>4. \A i \in DOMAIN f : f[i].id \in Nat /\ lastOut < f[i].id /\ f[i].id <= arrived
      <4>1. \A i \in DOMAIN fifo : fifo[i] \in Packet
        BY <1>0
      <4> QED
        BY <1>0, <3>3, <4>1 DEF Packet, Beyond
    <3>5. Rising(f)
      BY <1>0, <3>3 DEF Rising
    <3>6. /\ DOMAIN rx' = 1 .. Len(f) + 1 /\ Len(f) \in Nat /\ DOMAIN f = 1 .. Len(f)
          /\ \A i \in 1 .. Len(f) : rx'[i] = f[i]
          /\ rx'[Len(f) + 1].id = arrived + 1
      BY <3>1, <3>3
    <3>7. Rising(rx')
      BY <1>0, <3>4, <3>5, <3>6, SMTT(30) DEF Rising
    <3>8. \A i \in DOMAIN rx' : lastOut < rx'[i].id /\ rx'[i].id <= arrived + 1
      BY <1>0, <3>4, <3>6
    <3> QED
      BY <1>0, <3>2, <3>7, <3>8 DEF Rising, Before
  <2> QED
    BY <2>1, <2>2
<1> QED
  BY <1>1, <1>2

\* The steps of lgw_receive keep the order.
LEMMA UpOrdered == IInv /\ Ordered /\ UpNext => Ordered'
<1> SUFFICES ASSUME IInv, Ordered, UpNext PROVE Ordered'
  OBVIOUS
<1>0. TypeOK /\ Shape /\ DOMAIN <<>> = {}
  BY DEF IInv
<1>1. CASE UpFetch
  <2>1. up'.found = <<>> /\ UNCHANGED <<lastOut, arrived>>
    BY <1>1 DEF UpFetch, Idle
  <2>2. CASE rx = <<>>
    <3>1. fifo' = <<>> /\ rx' \in Fetched(fifo)
      BY <1>1, <2>2 DEF UpFetch
    <3>2. \/ rx' = <<>>
          \/ DOMAIN rx' = DOMAIN fifo /\ \A i \in DOMAIN rx' : rx'[i].id = fifo[i].id
      BY <1>0, <3>1, FetchedPackets DEF TypeOK, From
    <3> QED
      BY <1>0, <2>1, <3>1, <3>2 DEF Ordered, Rising, Before, Beyond
  <2>3. CASE rx # <<>>
    <3>1. UNCHANGED <<rx, fifo>>
      BY <1>1, <2>3 DEF UpFetch
    <3> QED
      BY <1>0, <2>1, <3>1 DEF Ordered, Rising, Before, Beyond
  <2> QED
    BY <2>2, <2>3
<1>7. CASE UpMiscount
  <2>1. up'.found = <<>> /\ UNCHANGED lastOut
    BY <1>7 DEF UpMiscount, Idle
  <2>2. /\ Rising(rx') /\ Rising(fifo') /\ Before(rx', fifo') /\ arrived <= arrived'
        /\ \A i \in DOMAIN rx' : lastOut < rx'[i].id /\ rx'[i].id <= arrived'
        /\ \A i \in DOMAIN fifo' : lastOut < fifo'[i].id /\ fifo'[i].id <= arrived'
    BY <1>0, <1>7, MiscountOrder DEF UpMiscount
  <2>3. lastOut <= arrived' /\ Rising(<<>>) /\ Before(<<>>, rx') /\ Before(<<>>, fifo')
    <3>1. arrived' \in Nat
      BY <1>0, <1>7, MiscountRecent DEF UpMiscount, IInv
    <3> QED
      BY <1>0, <2>2, <3>1 DEF Ordered, Rising, Before, TypeOK
  <2> QED
    BY <1>0, <2>1, <2>2, <2>3 DEF Ordered, Rising, Before, Beyond
<1>2. CASE FetchFails \/ UpAbort
  <2>1. up'.found = <<>> /\ UNCHANGED <<rx, fifo, lastOut, arrived>>
    BY <1>2 DEF FetchFails, UpAbort, Exit, Idle
  <2> QED
    BY <1>0, <2>1 DEF Ordered, Rising, Before, Beyond
<1>3. CASE UpUpdate \/ UpdateFails
  <2>1. UNCHANGED <<rx, fifo, lastOut, arrived>>
    BY <1>3 DEF UpUpdate, UpdateFails
  <2>2. up'.found = <<>> \/ up'.found = up.found
    BY <1>0, <1>3 DEF UpUpdate, UpdateFails, AfterUpdate, Idle, TypeOK
  <2> QED
    BY <1>0, <2>1, <2>2 DEF Ordered, Rising, Before, Beyond
<1>4. CASE UpParse
  <2> DEFINE p == Head(rx)
             new == [id |-> p.id, stamp |-> p.stamp, count |-> PktExpand(p.stamp.raw)]
             f == up.found
  <2>1. /\ up.pc = "parsing" /\ Len(f) < up.left
        /\ up' = [up EXCEPT !.found = Append(f, new)]
        /\ rx' = Tail(rx)
        /\ UNCHANGED <<fifo, lastOut, arrived>>
    BY <1>4 DEF UpParse, ToParse
  <2>2. rx # <<>> /\ rx \in Seq(Packet) /\ f \in Seq(Parsed)
    BY <1>0, <2>1, HeadParse DEF TypeOK
  <2>3. up'.found = Append(f, new)
    BY <1>0, <2>1 DEF TypeOK
  <2>4. /\ DOMAIN rx' = 1 .. Len(rx) - 1 /\ DOMAIN rx = 1 .. Len(rx)
        /\ \A i \in DOMAIN rx' : rx'[i] = rx[i + 1] /\ i + 1 \in DOMAIN rx
        /\ p = rx[1] /\ 1 \in DOMAIN rx
    BY <2>1, <2>2
  <2>5. /\ DOMAIN up'.found = 1 .. Len(f) + 1 /\ DOMAIN f = 1 .. Len(f) /\ Len(f) \in Nat
        /\ \A i \in 1 .. Len(f) : up'.found[i] = f[i]
        /\ up'.found[Len(f) + 1].id = rx[1].id
    BY <2>2, <2>3, <2>4
  <2>6. \A i \in DOMAIN rx : rx[i].id \in Nat
    <3>1. \A i \in DOMAIN rx : rx[i] \in Packet
      BY <2>2
    <3> QED
      BY <3>1 DEF Packet
  <2>7. \A i \in DOMAIN f : f[i].id \in Nat
    <3>1. \A i \in DOMAIN f : f[i] \in Parsed
      BY <2>2
    <3> QED
      BY <3>1 DEF Parsed
  <2> HIDE DEF f, p
  <2>8. Rising(f) /\ Before(f, rx) /\ Before(f, fifo) /\ Beyond(f)
    BY DEF Ordered, f
  <2>9. Rising(rx) /\ Before(rx, fifo) /\ Beyond(rx)
    BY DEF Ordered
  <2>10. Rising(up'.found)
    BY <2>4, <2>5, <2>8, SMTT(30) DEF Rising, Before
  <2>11. Rising(rx')
    BY <2>4, <2>9 DEF Rising
  <2>12. Before(up'.found, rx')
    <3>1. ASSUME NEW j \in DOMAIN rx' PROVE rx[1].id < rx'[j].id
      BY <2>4, <2>9 DEF Rising
    <3>2. ASSUME NEW i \in 1 .. Len(f), NEW j \in DOMAIN rx' PROVE f[i].id < rx'[j].id
      BY <2>4, <2>5, <2>8 DEF Before
    <3> QED
      BY <2>5, <3>1, <3>2 DEF Before
  <2>13. Before(up'.found, fifo') /\ Before(rx', fifo')
    BY <2>1, <2>4, <2>5, <2>8, <2>9 DEF Before
  <2>14. /\ \A i \in DOMAIN up'.found : lastOut < up'.found[i].id /\ up'.found[i].id <= arrived
         /\ \A i \in DOMAIN rx' : lastOut < rx'[i].id /\ rx'[i].id <= arrived
    BY <2>4, <2>5, <2>8, <2>9 DEF Beyond
  <2> QED
    BY <2>1, <2>10, <2>11, <2>12, <2>13, <2>14 DEF Ordered, Beyond, Rising
<1>5. CASE UpDiscard
  <2>1. up'.found = <<>> /\ rx' = <<>> /\ UNCHANGED <<fifo, lastOut, arrived>>
    BY <1>5 DEF UpDiscard, Idle
  <2> QED
    BY <1>0, <2>1 DEF Ordered, Rising, Before, Beyond
<1>6. CASE UpReturn
  <2>1. /\ up.pc = "parsing" /\ Len(up.found) = up.left
        /\ lastOut' = up.found[Len(up.found)].id /\ up'.found = <<>>
        /\ UNCHANGED <<fifo, rx, arrived>>
    BY <1>6 DEF UpReturn, Idle
  <2>2. Len(up.found) \in DOMAIN up.found
    BY <1>0, <2>1 DEF TypeOK, Shape
  <2> QED
    BY <1>0, <2>1, <2>2 DEF Ordered, Rising, Before, Beyond
<1> QED
  BY <1>1, <1>2, <1>3, <1>4, <1>5, <1>6, <1>7 DEF UpNext

\* So does every step.
LEMMA NextOrdered == IInv /\ Ordered /\ [Next]_vars => Ordered'
<1> SUFFICES ASSUME IInv, Ordered, [Next]_vars PROVE Ordered'
  OBVIOUS
<1>0. TypeOK
  BY DEF IInv
<1>1. CASE UpNext
  BY <1>1, UpOrdered
<1>2. CASE ReadCounter \/ Tick \/ UNCHANGED vars
  <2>1. UNCHANGED <<up, rx, fifo, lastOut, arrived>>
    BY <1>2 DEF ReadCounter, Tick, vars
  <2> QED
    BY <2>1 DEF Ordered, Rising, Before, Beyond
<1>3. CASE Arrive
  <2>1. PICK kind \in Arriving :
           fifo' = Append(fifo, [id |-> arrived + 1, stamp |-> now, kind |-> kind])
    BY <1>3 DEF Arrive
  <2>2. arrived' = arrived + 1 /\ UNCHANGED <<rx, up, lastOut>>
    BY <1>3 DEF Arrive
  <2>3. /\ fifo \in Seq(Packet) /\ rx \in Seq(Packet) /\ up.found \in Seq(Parsed)
        /\ arrived \in Nat /\ lastOut \in Nat
    BY <1>0 DEF TypeOK
  <2>4. /\ \A i \in DOMAIN rx : rx[i].id \in Nat
        /\ \A i \in DOMAIN up.found : up.found[i].id \in Nat
        /\ \A i \in DOMAIN fifo : fifo[i].id \in Nat
    <3>1. /\ \A i \in DOMAIN rx : rx[i] \in Packet
          /\ \A i \in DOMAIN fifo : fifo[i] \in Packet
          /\ \A i \in DOMAIN up.found : up.found[i] \in Parsed
      BY <2>3
    <3>2. /\ \A i \in DOMAIN rx : rx[i].id \in Nat
          /\ \A i \in DOMAIN fifo : fifo[i].id \in Nat
      BY <3>1 DEF Packet
    <3> QED
      BY <3>1, <3>2 DEF Parsed
  <2>5. /\ DOMAIN fifo' = 1 .. Len(fifo) + 1 /\ DOMAIN fifo = 1 .. Len(fifo) /\ Len(fifo) \in Nat
        /\ \A i \in 1 .. Len(fifo) : fifo'[i] = fifo[i]
        /\ fifo'[Len(fifo) + 1].id = arrived + 1
    BY <2>1, <2>3
  <2>6. Rising(fifo')
    BY <2>3, <2>4, <2>5, SMTT(30) DEF Ordered, Rising, Beyond
  <2>7. Before(up.found, fifo') /\ Before(rx, fifo')
    <3>1. Before(up.found, fifo) /\ Before(rx, fifo) /\ Beyond(up.found) /\ Beyond(rx)
      BY DEF Ordered
    <3>2. ASSUME NEW k \in 1 .. Len(fifo)
          PROVE  /\ \A i \in DOMAIN up.found : up.found[i].id < fifo'[k].id
                 /\ \A i \in DOMAIN rx : rx[i].id < fifo'[k].id
      BY <2>5, <3>1 DEF Before
    <3>3. /\ \A i \in DOMAIN up.found : up.found[i].id < arrived + 1
          /\ \A i \in DOMAIN rx : rx[i].id < arrived + 1
      BY <2>3, <2>4, <3>1 DEF Beyond
    <3>4. \A k \in DOMAIN fifo' : k \in 1 .. Len(fifo) \/ k = Len(fifo) + 1
      BY <2>5
    <3> QED
      BY <2>5, <3>2, <3>3, <3>4 DEF Before
  <2>8. \A i \in DOMAIN fifo' : lastOut < fifo'[i].id /\ fifo'[i].id <= arrived + 1
    BY <2>3, <2>4, <2>5 DEF Ordered, Beyond
  <2>9. /\ \A i \in DOMAIN rx : lastOut < rx[i].id /\ rx[i].id <= arrived + 1
        /\ \A i \in DOMAIN up.found : lastOut < up.found[i].id /\ up.found[i].id <= arrived + 1
    BY <2>3, <2>4 DEF Ordered, Beyond
  <2>10. Rising(rx) /\ Rising(up.found) /\ Before(up.found, rx) /\ lastOut <= arrived + 1
    BY <2>3 DEF Ordered
  <2> QED
    BY <2>2, <2>6, <2>7, <2>8, <2>9, <2>10 DEF Ordered, Rising, Before, Beyond
<1>4. CASE Written
  <2> DEFINE n == Len(fifo)
             last == [fifo[n] EXCEPT !.kind = "good"]
  <2>1. /\ fifo # <<>> /\ fifo' = [fifo EXCEPT ![n] = last]
        /\ UNCHANGED <<rx, up, arrived, lastOut>>
    BY <1>4 DEF Written, Writing
  <2>2. fifo \in Seq(Packet) /\ n \in DOMAIN fifo
    BY <1>0, <2>1 DEF TypeOK
  <2>3. last.id = fifo[n].id
    BY <2>2 DEF Packet
  <2>4. DOMAIN fifo' = DOMAIN fifo /\ \A i \in DOMAIN fifo : fifo'[i].id = fifo[i].id
    BY <2>1, <2>2, <2>3
  <2> QED
    BY <2>1, <2>4 DEF Ordered, Rising, Before, Beyond
<1> QED
  BY <1>1, <1>2, <1>3, <1>4 DEF Next

\* thread_up is given the packets in the order the concentrator received them and none
\* twice, whatever is left in the buffer from one call of lgw_receive to the next.
THEOREM AlwaysInOrder == Spec => []InOrder
<1>1. IInv /\ Ordered => InOrder
  <2> SUFFICES ASSUME IInv, Ordered, NEW i \in DOMAIN up.found
               PROVE  up.found[i].id > (IF i = 1 THEN lastOut ELSE up.found[i - 1].id)
    BY DEF InOrder
  <2>1. up.found \in Seq(Parsed) /\ up.found[i].id \in Nat /\ lastOut \in Nat
    <3>1. up.found \in Seq(Parsed) /\ lastOut \in Nat
      BY DEF IInv, TypeOK
    <3>2. up.found[i] \in Parsed
      BY <3>1
    <3> QED
      BY <3>1, <3>2 DEF Parsed
  <2>2. CASE i = 1
    BY <2>1, <2>2 DEF Ordered, Beyond
  <2>3. CASE i # 1
    <3>1. i - 1 \in DOMAIN up.found /\ i - 1 < i /\ i \in Nat
      BY <2>1, <2>3
    <3>2. up.found[i - 1].id \in Nat
      <4>1. up.found[i - 1] \in Parsed
        BY <2>1, <3>1
      <4> QED
        BY <4>1 DEF Parsed
    <3> QED
      BY <2>1, <2>3, <3>1, <3>2 DEF Ordered, Rising
  <2> QED
    BY <2>2, <2>3
<1>2. Init => IInv /\ Ordered
  BY InitIInv, InitOrdered
<1>3. IInv /\ Ordered /\ [Next]_vars => (IInv /\ Ordered)'
  BY NextIInv, NextOrdered
<1> QED
  BY <1>1, <1>2, <1>3, PTL DEF Spec

-----------------------------------------------------------------------------
(* Losses.  What leaves the three sequences without having been given to     *)
(* thread_up does so in UpMiscount, in UpDiscard, in UpAbort or as a packet  *)
(* the FIFO was still writing: only the first happens to good packets.       *)

\* Both sequences are sound when their concatenation is.
LEMMA SoundBoth ==
    ASSUME TypeOK, Sound(fifo \o rx)
    PROVE  Sound(fifo) /\ Sound(rx)
<1> DEFINE w == fifo \o rx
           m == Len(fifo)
           n == Len(rx)
<1>1. /\ m \in Nat /\ n \in Nat /\ DOMAIN fifo = 1 .. m /\ DOMAIN rx = 1 .. n
      /\ DOMAIN w = 1 .. m + n
      /\ \A i \in 1 .. m : w[i] = fifo[i]
      /\ \A i \in 1 .. n : w[m + i] = rx[i]
  BY DEF TypeOK
<1>2. \A i \in DOMAIN w : w[i].kind = "good"
  BY DEF Sound
<1> HIDE DEF w, m, n
<1>3. \A i \in 1 .. m : i \in DOMAIN w
  BY <1>1
<1>4. \A i \in 1 .. n : m + i \in DOMAIN w
  BY <1>1
<1>5. \A i \in DOMAIN fifo : fifo[i].kind = "good"
  BY <1>1, <1>2, <1>3
<1>6. \A i \in DOMAIN rx : rx[i].kind = "good"
  BY <1>1, <1>2, <1>4
<1> QED
  BY <1>5, <1>6 DEF Sound

\* A step that loses a packet finds one that is not good, in the buffer or the FIFO.
LEMMA LossStep ==
    ASSUME IInv, Ordered, Next, Sound(fifo \o rx), ~Misread, NEW id \in Held
    PROVE  id \in Held' \/ id <= lastOut'
<1>0. /\ TypeOK /\ Shape /\ Sound(fifo) /\ Sound(rx)
      /\ fifo \in Seq(Packet) /\ rx \in Seq(Packet) /\ up.found \in Seq(Parsed)
  BY SoundBoth DEF IInv, TypeOK
<1>1. id \in Ids(fifo) \/ id \in Ids(rx) \/ id \in Ids(up.found)
  BY DEF Held
<1>2. CASE UpFetch
  <2>1. up.pc = "idle" /\ up.found = <<>>
    BY <1>0, <1>2 DEF UpFetch, Shape
  <2>2. id \in Ids(fifo) \/ id \in Ids(rx)
    BY <1>1, <2>1 DEF Ids
  <2>3. CASE rx = <<>>
    <3>1. ~Writing(fifo)
      <4>1. ASSUME fifo # <<>> PROVE Len(fifo) \in DOMAIN fifo
        BY <1>0, <4>1
      <4> QED
        BY <1>0, <4>1 DEF Writing, Sound
    <3>2. rx' = fifo
      BY <1>2, <2>3, <3>1 DEF UpFetch, Fetched
    <3>3. id \in Ids(fifo)
      BY <2>2, <2>3 DEF Ids
    <3> QED
      BY <3>2, <3>3 DEF Held, Ids
  <2>4. CASE rx # <<>>
    BY <1>2, <2>2, <2>4 DEF UpFetch, Held, Ids
  <2> QED
    BY <2>3, <2>4
<1>9. CASE UpMiscount
  <2>1. up.pc = "idle" /\ up'.misread = TRUE
    BY <1>9 DEF UpMiscount, Idle
  <2>2. up.misread = FALSE
    BY <1>0, <2>1 DEF Shape
  <2> QED
    BY <2>1, <2>2 DEF Misread
<1>3. CASE UpParse
  <2> DEFINE p == Head(rx)
             new == [id |-> p.id, stamp |-> p.stamp, count |-> PktExpand(p.stamp.raw)]
             f == up.found
  <2>1. /\ up.pc = "parsing" /\ Len(f) < up.left /\ fifo' = fifo /\ rx' = Tail(rx)
        /\ up' = [up EXCEPT !.found = Append(f, new)]
    BY <1>3 DEF UpParse, ToParse
  <2>2. rx # <<>> /\ up'.found = Append(f, new)
    BY <1>0, <2>1, HeadParse DEF TypeOK
  <2>3. /\ \A i \in DOMAIN rx : i = 1 \/ (i - 1 \in DOMAIN rx' /\ rx'[i - 1] = rx[i])
        /\ p = rx[1]
    BY <1>0, <2>1, <2>2
  <2>4. /\ \A i \in DOMAIN f : i \in DOMAIN up'.found /\ up'.found[i] = f[i]
        /\ Len(f) + 1 \in DOMAIN up'.found /\ up'.found[Len(f) + 1] = new
    BY <1>0, <2>2
  <2>5. CASE id \in Ids(fifo)
    BY <2>1, <2>5 DEF Held, Ids
  <2>6. CASE id \in Ids(f)
    BY <2>4, <2>6 DEF Held, Ids
  <2>7. CASE id \in Ids(rx)
    <3>1. PICK i \in DOMAIN rx : id = rx[i].id
      BY <2>7 DEF Ids
    <3>2. CASE i = 1
      <4>1. new.id = id
        BY <2>3, <3>1, <3>2
      <4> QED
        BY <2>4, <4>1 DEF Held, Ids
    <3>3. CASE i # 1
      BY <2>3, <3>1, <3>3 DEF Held, Ids
    <3> QED
      BY <3>2, <3>3
  <2> QED
    BY <1>1, <2>5, <2>6, <2>7
<1>4. CASE UpDiscard \/ UpAbort
  <2>1. up.pc = "parsing" /\ Len(up.found) < up.left /\ Head(rx).kind # "good"
    BY <1>4 DEF UpDiscard, UpAbort, ToParse
  <2>2. rx # <<>> /\ Head(rx) = rx[1] /\ 1 \in DOMAIN rx
    BY <1>0, <2>1, HeadParse
  <2> QED
    BY <1>0, <2>1, <2>2 DEF Sound
<1>5. CASE UpReturn
  <2> DEFINE f == up.found
             n == Len(f)
  <2>1. up.pc = "parsing" /\ n = up.left /\ lastOut' = f[n].id /\ UNCHANGED <<fifo, rx>>
    BY <1>5 DEF UpReturn
  <2>2. n \in DOMAIN f /\ n \in Nat /\ \A i \in DOMAIN f : i = n \/ (i \in Nat /\ i < n)
    BY <1>0, <2>1 DEF Shape, TypeOK
  <2>3. \A i \in DOMAIN f : f[i].id \in Nat
    <3>1. \A i \in DOMAIN f : f[i] \in Parsed
      BY <1>0
    <3> QED
      BY <3>1 DEF Parsed
  <2>4. \A i \in DOMAIN f : f[i].id <= lastOut'
    BY <2>1, <2>2, <2>3 DEF Ordered, Rising
  <2> QED
    BY <1>1, <2>1, <2>4 DEF Held, Ids
<1>6. CASE FetchFails \/ UpUpdate \/ UpdateFails
  <2>1. up.pc # "parsing" /\ UNCHANGED <<fifo, rx>>
    BY <1>6 DEF FetchFails, UpUpdate, UpdateFails
  <2>2. up.found = <<>>
    BY <1>0, <2>1 DEF Shape
  <2> QED
    BY <1>1, <2>1, <2>2 DEF Held, Ids
<1>7. CASE ReadCounter \/ Tick
  BY <1>1, <1>7 DEF ReadCounter, Tick, Held, Ids
<1>8. CASE Arrive \/ Written
  <2>1. UNCHANGED <<rx, up>>
    BY <1>8 DEF Arrive, Written
  <2>2. \A i \in DOMAIN fifo : i \in DOMAIN fifo' /\ fifo'[i].id = fifo[i].id
    <3>1. CASE Arrive
      <4>1. PICK kind \in Arriving :
               fifo' = Append(fifo, [id |-> arrived + 1, stamp |-> now, kind |-> kind])
        BY <3>1 DEF Arrive
      <4> QED
        BY <1>0, <4>1
    <3>2. CASE Written
      <4> DEFINE n == Len(fifo)
                 last == [fifo[n] EXCEPT !.kind = "good"]
      <4>1. fifo # <<>> /\ fifo' = [fifo EXCEPT ![n] = last]
        BY <3>2 DEF Written, Writing
      <4>2. n \in DOMAIN fifo /\ fifo[n] \in Packet
        BY <1>0, <4>1
      <4>3. last.id = fifo[n].id
        BY <4>2 DEF Packet
      <4> QED
        BY <4>1, <4>2, <4>3
    <3> QED
      BY <1>8, <3>1, <3>2
  <2> QED
    BY <1>1, <2>1, <2>2 DEF Held, Ids
<1> QED
  BY <1>2, <1>3, <1>4, <1>5, <1>6, <1>7, <1>8, <1>9 DEF Next, UpNext

\* A packet that never reaches thread_up was lost with one that was damaged, truncated
\* or senseless, or in a fetch that misread its byte count: for every size of the array,
\* the buffer and the FIFO, and whichever accesses fail, good packets are otherwise only
\* handed on.
THEOREM GoodPacketsNeverLost == Spec => LostOnlyWithDamage
<1> DEFINE Loss == Sound(fifo \o rx) /\ ~Misread => \A id \in Held \ Held' : id <= lastOut'
<1>1. IInv /\ Ordered /\ [Next]_vars => [Loss]_vars
  <2> SUFFICES ASSUME IInv, Ordered, Next, Sound(fifo \o rx), ~Misread, NEW id \in Held \ Held'
               PROVE  id <= lastOut'
    OBVIOUS
  <2> QED
    BY LossStep
<1> HIDE DEF Loss
<1>2. Init => IInv /\ Ordered
  BY InitIInv, InitOrdered
<1>3. IInv /\ Ordered /\ [Next]_vars => (IInv /\ Ordered)'
  BY NextIInv, NextOrdered
<1>4. Spec => [][Loss]_vars
  BY <1>1, <1>2, <1>3, PTL DEF Spec
<1> QED
  BY <1>4 DEF LostOnlyWithDamage, Loss
=============================================================================
