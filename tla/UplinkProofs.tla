----------------------------- MODULE UplinkProofs -----------------------------
(***************************************************************************)
(* The counters and the reports of Uplink.  The counters agree because     *)
(* mx_meas_up is held from the moment a datagram is counted to the moment  *)
(* its acknowledgement is (Agree); no report is forgotten because          *)
(* report_ready, once thread_up has seen it, stays set until thread_up     *)
(* itself clears it (Shape).                                               *)
(* The packets sent, in hand and in the batch, read as one sequence (All), *)
(* are those fetched in their order, less the ones filtered out.           *)
(***************************************************************************)
EXTENDS Uplink, SequenceTheorems, TLAPS

Packet == [id : Int, kind : Kinds]
ReportType == [seq : Nat, count : [Counters -> Nat]]

UpType ==
    up \in [pc : {"fetch", "look", "serialise", "send", "count", "await", "exit", "ended"},
            batch : Seq(Packet), dgram : [packets : Seq(Packet), report : Nat],
            send_report : BOOLEAN, token : Tokens, tries : {0, 1}]

MainType ==
    /\ main \in [pc : {"sleep", "copy", "write"}, cp : ReportType]
    /\ status_report \in ReportType

CountType ==
    /\ meas \in [Counters -> Nat] /\ reported \in [Counters -> Nat]
    /\ fetched \in Nat /\ skipped \in Nat

SentType == sent \in [packets : Seq(Int), reports : Seq(Nat)]

Types == UpType /\ MainType /\ CountType /\ SentType /\ report_ready \in BOOLEAN

\* Where thread_up is, and what it has in hand there.
Shape ==
    /\ up.pc \in {"fetch", "send", "count", "await", "ended"} => up.batch = <<>>
    /\ up.pc \in {"fetch", "look", "ended"} => ~up.send_report
    /\ up.pc \notin {"send", "count"} => up.dgram.report = 0
    /\ up.pc = "serialise" /\ up.send_report => report_ready

-----------------------------------------------------------------------------
(* Types.                                                                    *)

\* The counters by their names.
LEMMA CountersAre ==
    Counters = {"rcv", "ok", "bad", "nocrc", "fwd", "sent", "ack"}
BY DEF Counters

\* Counting raises some counters by one and leaves the others.
LEMMA PlusOf ==
    ASSUME CountType, NEW cs \in SUBSET Counters
    PROVE  /\ Plus(cs) \in [Counters -> Nat]
           /\ \A c \in cs : Plus(cs)[c] = meas[c] + 1
           /\ \A c \in Counters \ cs : Plus(cs)[c] = meas[c]
BY DEF CountType, Plus

\* The types and the shape at the start.
LEMMA InitTypes == Init => Types /\ Shape
<1> SUFFICES ASSUME Init PROVE Types /\ Shape
  OBVIOUS
<1>1. NoToken \in Tokens
  BY UplinkAssumption DEF NoToken
<1>2. NoCount \in [Counters -> Nat]
  BY DEF NoCount
<1>3. UpType
  BY <1>1 DEF Init, UpType, Empty
<1>4. MainType
  BY <1>2 DEF Init, MainType, NoReport, ReportType
<1>5. CountType
  BY <1>2 DEF Init, CountType
<1>6. SentType
  BY DEF Init, SentType
<1>7. Shape
  BY DEF Init, Shape, Empty
<1> QED
  BY <1>3, <1>4, <1>5, <1>6, <1>7 DEF Types, Init

\* What a fetch hands out.
LEMMA FetchedBatch ==
    ASSUME Types, Fetch
    PROVE  \E n \in Nat : \E b \in Seq(Packet) :
              /\ Len(b) = n /\ fetched' = fetched + n
              /\ up' = [up EXCEPT !.pc = "look", !.batch = b]
<1> DEFINE M == Min({MaxFetch, MaxPackets - fetched})
<1>1. PICK n \in 0 .. M : \E kinds \in [1 .. n -> Kinds] :
          /\ up' = [up EXCEPT !.pc = "look",
                 !.batch = [i \in 1 .. n |-> [id |-> fetched + i, kind |-> kinds[i]]]]
          /\ fetched' = fetched + n
  BY DEF Fetch
<1>2. PICK kinds \in [1 .. n -> Kinds] :
          /\ up' = [up EXCEPT !.pc = "look",
                 !.batch = [i \in 1 .. n |-> [id |-> fetched + i, kind |-> kinds[i]]]]
          /\ fetched' = fetched + n
  BY <1>1
<1> DEFINE b == [i \in 1 .. n |-> [id |-> fetched + i, kind |-> kinds[i]]]
<1>3. n \in Nat
  BY <1>1
<1>4. \A i \in 1 .. n : [id |-> fetched + i, kind |-> kinds[i]] \in Packet
  BY <1>2, <1>3 DEF Types, CountType, Packet
<1>5. b \in Seq(Packet) /\ Len(b) = n
  BY <1>3, <1>4
<1> QED
  BY <1>2, <1>3, <1>5

\* The packet thread_up takes from its batch.
LEMMA TakenPacket ==
    ASSUME Types, up.batch # <<>>
    PROVE  /\ Head(up.batch) \in Packet /\ Tail(up.batch) \in Seq(Packet)
           /\ Len(Tail(up.batch)) = Len(up.batch) - 1 /\ Len(up.batch) \in Nat \ {0}
           /\ Append(up.dgram.packets, Head(up.batch)) \in Seq(Packet)
<1>1. up.batch \in Seq(Packet) /\ up.dgram.packets \in Seq(Packet)
  BY DEF Types, UpType
<1> QED
  BY <1>1
\* What thread_up has in hand after each of its steps.
LEMMA UpTypes ==
    ASSUME Types, Shape, UpNext
    PROVE  UpType' /\ Shape'
<1>0. /\ UpType /\ up.batch \in Seq(Packet) /\ up.dgram.packets \in Seq(Packet)
      /\ report_ready' = report_ready \/ up.pc = "serialise"
  BY DEF Types, UpType, UpNext, Fetch, FetchFails, Look, Serialise, Skip, CopyReport, Complete,
         Send, CountSent, AwaitInVain, AwaitFails, UpEnds, ReceiveAck
<1>1. CASE Fetch
  <2>1. PICK n \in Nat : \E b \in Seq(Packet) : up' = [up EXCEPT !.pc = "look", !.batch = b]
    BY <1>1, FetchedBatch
  <2>2. PICK b \in Seq(Packet) : up' = [up EXCEPT !.pc = "look", !.batch = b]
    BY <2>1
  <2>3. up.pc = "fetch"
    BY <1>1 DEF Fetch
  <2> QED
    BY <1>0, <2>2, <2>3 DEF UpType, Shape
<1>2. CASE FetchFails \/ UpEnds
  BY <1>0, <1>2 DEF FetchFails, UpEnds, UpType, Shape
<1>3. CASE Look
  <2>1. up.pc = "look" /\ report_ready' = report_ready
    BY <1>3 DEF Look
  <2>2. CASE up.batch = <<>> /\ ~report_ready
    <3>1. up' = [up EXCEPT !.pc = "fetch"]
      BY <1>3, <2>2 DEF Look
    <3> QED
      BY <1>0, <2>1, <2>2, <3>1 DEF UpType, Shape
  <2>3. CASE (up.batch # <<>> \/ report_ready) /\ report_ready
    <3>1. up' = [up EXCEPT !.pc = "serialise", !.send_report = report_ready]
      BY <1>3, <2>3 DEF Look
    <3>2. up' = [up EXCEPT !.pc = "serialise", !.send_report = TRUE]
      BY <2>3, <3>1
    <3> QED
      BY <1>0, <2>1, <2>3, <3>2 DEF UpType, Shape
  <2>4. CASE up.batch # <<>> /\ ~report_ready
    <3>1. up' = [up EXCEPT !.pc = "serialise", !.send_report = report_ready]
      BY <1>3, <2>4 DEF Look
    <3>2. up' = [up EXCEPT !.pc = "serialise", !.send_report = FALSE]
      <4>1. report_ready = FALSE
        BY <2>4 DEF Types
      <4> QED
        BY <3>1, <4>1
    <3> QED
      BY <1>0, <2>1, <2>4, <3>2 DEF UpType, Shape
  <2> QED
    BY <2>2, <2>3, <2>4
<1>4. CASE Serialise
  <2>1. up.pc = "serialise" /\ up.batch # <<>> /\ report_ready' = report_ready
    BY <1>4 DEF Serialise
  <2> DEFINE p == Head(up.batch)
  <2>2. \/ up' = [up EXCEPT !.batch = Tail(@)]
        \/ up' = [up EXCEPT !.batch = Tail(@), !.dgram.packets = Append(@, p)]
        \/ up' = [up EXCEPT !.pc = "exit"]
    BY <1>4 DEF Serialise
  <2>3. CASE up' = [up EXCEPT !.batch = Tail(@)] \/ up' = [up EXCEPT !.pc = "exit"]
    BY <1>0, <2>1, <2>3, TakenPacket DEF UpType, Shape
  <2>4. CASE up' = [up EXCEPT !.batch = Tail(@), !.dgram.packets = Append(@, p)]
    <3> DEFINE d == [up.dgram EXCEPT !.packets = Append(@, p)]
    <3>1. d \in [packets : Seq(Packet), report : Nat] /\ d.report = up.dgram.report
      BY <1>0, <2>1, TakenPacket DEF UpType
    <3>2. up' = [up EXCEPT !.batch = Tail(@), !.dgram = d]
      BY <1>0, <2>4 DEF UpType
    <3> HIDE DEF d
    <3> QED
      BY <1>0, <2>1, <3>1, <3>2, TakenPacket DEF UpType, Shape
  <2> QED
    BY <2>2, <2>3, <2>4
<1>5. CASE Skip \/ Complete
  BY <1>0, <1>5 DEF Skip, Complete, UpType, Shape
<1>6. CASE CopyReport
  <2> DEFINE d == [up.dgram EXCEPT !.report = status_report.seq]
  <2>1. d \in [packets : Seq(Packet), report : Nat]
    BY <1>0 DEF UpType, Types, MainType, ReportType
  <2>2. up' = [up EXCEPT !.pc = "send", !.dgram = d] /\ up.batch = <<>>
    BY <1>0, <1>6 DEF CopyReport, UpType
  <2> HIDE DEF d
  <2> QED
    BY <1>0, <2>1, <2>2 DEF UpType, Shape
<1>7. CASE Send
  <2>1. PICK t \in Tokens : up' = [up EXCEPT !.pc = "count", !.token = t]
    BY <1>7 DEF Send
  <2>2. up.pc = "send"
    BY <1>7 DEF Send
  <2> QED
    BY <1>0, <2>1, <2>2 DEF UpType, Shape
<1>8. CASE CountSent
  <2>1. up.pc = "count" /\ up' = [up EXCEPT !.pc = "await", !.tries = 0, !.dgram = Empty]
    BY <1>8 DEF CountSent
  <2>2. Empty \in [packets : Seq(Packet), report : Nat] /\ Empty.report = 0
    BY DEF Empty
  <2> QED
    BY <1>0, <2>1, <2>2 DEF UpType, Shape
<1>9. CASE AwaitInVain \/ AwaitFails \/ \E t \in Tokens : ReceiveAck(t)
  <2>1. up.pc = "await"
    BY <1>9 DEF AwaitInVain, AwaitFails, ReceiveAck
  <2>10. up' = Done \/ up' = NextTry
    BY <1>9 DEF AwaitInVain, AwaitFails, ReceiveAck
  <2>11. NextTry = Done \/ (up.tries # 1 /\ NextTry = [up EXCEPT !.tries = @ + 1])
    BY DEF NextTry
  <2>2. NoToken \in Tokens
    BY UplinkAssumption DEF NoToken
  <2>3. CASE up' = Done
    BY <1>0, <2>1, <2>2, <2>3 DEF UpType, Shape, Done
  <2>4. CASE up' = [up EXCEPT !.tries = @ + 1] /\ up.tries # 1
    <3>1. up.tries + 1 \in {0, 1}
      BY <1>0, <2>4 DEF UpType
    <3> QED
      BY <1>0, <2>1, <2>4, <3>1 DEF UpType, Shape
  <2> QED
    BY <2>10, <2>11, <2>3, <2>4
<1> QED
  BY <1>1, <1>2, <1>3, <1>4, <1>5, <1>6, <1>7, <1>8, <1>9 DEF UpNext
\* The sequence of the reports sent, after a step of thread_up.
LEMMA SentStep ==
    ASSUME Types, UpNext
    PROVE  /\ SentType'
           /\ \/ ~Send /\ sent' = sent
              \/ Send /\ up.dgram.report = 0 /\ sent'.reports = sent.reports
              \/ Send /\ up.dgram.report # 0
                      /\ sent'.reports = Append(sent.reports, up.dgram.report)
<1>1. CASE Send
  <2> DEFINE ids == [i \in DOMAIN up.dgram.packets |-> up.dgram.packets[i].id]
  <2>1. up.dgram.packets \in Seq(Packet) /\ up.dgram.report \in Nat
    BY DEF Types, UpType
  <2>2. ids \in Seq(Int)
    <3>1. DOMAIN up.dgram.packets = 1 .. Len(up.dgram.packets)
            /\ Len(up.dgram.packets) \in Nat
      BY <2>1
    <3>2. \A i \in DOMAIN up.dgram.packets : up.dgram.packets[i].id \in Int
      <4>1. \A i \in DOMAIN up.dgram.packets : up.dgram.packets[i] \in Packet
        BY <2>1
      <4> QED
        BY <4>1 DEF Packet
    <3>3. ids = [i \in 1 .. Len(up.dgram.packets) |-> up.dgram.packets[i].id]
      BY <3>1
    <3> QED
      BY <3>1, <3>2, <3>3
  <2>3. sent.packets \in Seq(Int) /\ sent.reports \in Seq(Nat)
    BY DEF Types, SentType
  <2>4. sent.packets \o ids \in Seq(Int)
    BY <2>2, <2>3
  <2>5. sent' = [packets |-> sent.packets \o ids,
                 reports |-> IF up.dgram.report = 0 THEN sent.reports
                             ELSE Append(sent.reports, up.dgram.report)]
    BY <1>1 DEF Send
  <2>6. /\ sent'.packets = sent.packets \o ids
        /\ sent'.reports = IF up.dgram.report = 0 THEN sent.reports
                           ELSE Append(sent.reports, up.dgram.report)
        /\ sent' = [packets |-> sent'.packets, reports |-> sent'.reports]
    BY <2>5
  <2>7. sent'.reports \in Seq(Nat)
    BY <2>1, <2>3, <2>6
  <2>8. SentType'
    BY <2>4, <2>6, <2>7 DEF SentType
  <2> QED
    BY <1>1, <2>6, <2>8
<1>2. CASE ~Send
  <2>1. sent' = sent
    BY <1>2
    DEF UpNext, Fetch, FetchFails, Look, Serialise, Skip, CopyReport, Complete, CountSent,
        AwaitInVain, AwaitFails, UpEnds, ReceiveAck
  <2> QED
    BY <1>2, <2>1 DEF Types, SentType
<1> QED
  BY <1>1, <1>2

\* What the steps of thread_up count, and what they fetch and skip.
LEMMA CountStep ==
    ASSUME Types, UpNext
    PROVE  /\ reported' = reported
           /\ \/ UNCHANGED <<meas, fetched, skipped>> /\ ~Fetch /\ ~Serialise
              \/ Fetch /\ UNCHANGED <<meas, skipped>> /\ fetched' \in Nat
              \/ /\ Serialise /\ fetched' = fetched
                 /\ meas' = Plus({"rcv"} \cup StatusCounter(Head(up.batch).kind)
                             \cup (IF Forwarded(Head(up.batch).kind) THEN {"fwd"} ELSE {}))
                 /\ skipped' = IF Forwarded(Head(up.batch).kind) THEN skipped ELSE skipped + 1
              \/ /\ CountSent /\ meas' = Plus({"sent"})
                 /\ UNCHANGED <<fetched, skipped>>
              \/ /\ \E t \in Tokens : t = up.token /\ ReceiveAck(t)
                 /\ meas' = Plus({"ack"}) /\ UNCHANGED <<fetched, skipped>>
<1>1. CASE Fetch
  <2>1. fetched' \in Nat
    <3>1. PICK n \in Nat : fetched' = fetched + n
      BY <1>1, FetchedBatch
    <3> QED
      BY <3>1 DEF Types, CountType
  <2> QED
    BY <1>1, <2>1 DEF Fetch, mainVars
<1>2. CASE Serialise
  BY <1>2 DEF Serialise, mainVars
<1>3. CASE CountSent
  BY <1>3 DEF CountSent, mainVars
<1>4. CASE \E t \in Tokens : ReceiveAck(t)
  <2>1. PICK t \in Tokens : ReceiveAck(t)
    BY <1>4
  <2>2. up.pc = "await" /\ UNCHANGED <<reported, fetched, skipped>>
    BY <2>1 DEF ReceiveAck, mainVars
  <2>3. ~Fetch /\ ~Serialise
    BY <2>2 DEF Fetch, Serialise
  <2>4. CASE t = up.token
    <3>1. meas' = Plus({"ack"})
      BY <2>1, <2>4 DEF ReceiveAck
    <3> QED
      BY <2>1, <2>2, <2>4, <3>1
  <2>5. CASE t # up.token
    <3>1. meas' = meas
      BY <2>1, <2>5 DEF ReceiveAck
    <3> QED
      BY <2>2, <2>3, <3>1
  <2> QED
    BY <2>4, <2>5
<1>5. CASE \/ FetchFails \/ Look \/ Skip \/ CopyReport \/ Complete \/ Send
           \/ AwaitInVain \/ AwaitFails \/ UpEnds
  <2>1. UNCHANGED <<meas, fetched, skipped, reported>>
    BY <1>5
    DEF FetchFails, Look, Skip, CopyReport, Complete, Send, AwaitInVain, AwaitFails, UpEnds,
        mainVars
  <2>2. CASE Fetch \/ Serialise
    BY <1>1, <1>2, <2>2
  <2> QED
    BY <2>1, <2>2
<1> QED
  BY <1>1, <1>2, <1>3, <1>4, <1>5 DEF UpNext

\* What a packet is counted as.
LEMMA SerialisedAs ==
    ASSUME NEW p
    PROVE  /\ StatusCounter(p) \in {{"ok"}, {"bad"}, {"nocrc"}, {}}
           /\ Forwarded(p) => StatusCounter(p) # {}
           /\ {"rcv"} \cup StatusCounter(p) \cup (IF Forwarded(p) THEN {"fwd"} ELSE {})
                 \in SUBSET Counters
<1>1. StatusCounter(p) \in {{"ok"}, {"bad"}, {"nocrc"}, {}}
  BY DEF StatusCounter
<1>2. Forwarded(p) => p.status \in {"CRC_OK", "CRC_BAD", "NO_CRC"}
  BY RxpkAssumption DEF Forwarded, Statuses
<1>3. p.status \in {"CRC_OK", "CRC_BAD", "NO_CRC"} => StatusCounter(p) # {}
  BY DEF StatusCounter
<1> QED
  BY <1>1, <1>2, <1>3 DEF Counters

\* Every step keeps them.
LEMMA NextTypes ==
    ASSUME Types, Shape, [Next]_vars
    PROVE  Types' /\ Shape'
<1>1. CASE UpNext
  <2>1. UpType' /\ Shape' /\ SentType'
    BY <1>1, UpTypes, SentStep
  <2>2. MainType' /\ report_ready' \in BOOLEAN
    <3>1. UNCHANGED <<main, status_report>> /\ report_ready' \in {report_ready, FALSE}
      BY <1>1
      DEF UpNext, Fetch, FetchFails, Look, Serialise, Skip, CopyReport, Complete, Send,
          CountSent, AwaitInVain, AwaitFails, UpEnds, ReceiveAck, mainVars
    <3> QED
      BY <3>1 DEF Types, MainType
  <2>3. CountType'
    <3>1. CountType
      BY DEF Types
    <3>2. {"sent"} \in SUBSET Counters /\ {"ack"} \in SUBSET Counters
      BY DEF Counters
    <3> QED
      BY <1>1, <3>1, <3>2, CountStep, SerialisedAs, PlusOf DEF CountType
  <2> QED
    BY <2>1, <2>2, <2>3 DEF Types
<1>2. CASE MainNext
  <2>1. UNCHANGED <<up, sent, fetched, skipped>>
    BY <1>2 DEF MainNext, IntervalOver, CopyCounters, WriteReport
  <2>2. UpType' /\ SentType'
    BY <2>1 DEF Types, UpType, SentType
  <2>3. report_ready' \in BOOLEAN /\ (report_ready => report_ready')
    BY <1>2 DEF MainNext, IntervalOver, CopyCounters, WriteReport, Types
  <2>4. MainType' /\ CountType'
    <3>1. CASE IntervalOver
      BY <3>1 DEF IntervalOver, Types, MainType, CountType
    <3>2. CASE CopyCounters
      <4>1. main'.cp = [seq |-> main.cp.seq + 1, count |-> meas]
              /\ main' = [pc |-> "write", cp |-> [seq |-> main.cp.seq + 1, count |-> meas]]
        BY <3>2 DEF CopyCounters
      <4>2. [seq |-> main.cp.seq + 1, count |-> meas] \in ReportType
        BY DEF Types, MainType, CountType, ReportType
      <4>3. MainType'
        BY <3>2, <4>1, <4>2 DEF CopyCounters, Types, MainType
      <4>4. CountType'
        BY <3>2, <2>1 DEF CopyCounters, Types, CountType, NoCount
      <4> QED
        BY <4>3, <4>4
    <3>3. CASE WriteReport
      BY <3>3 DEF WriteReport, Types, MainType, CountType
    <3> QED
      BY <1>2, <3>1, <3>2, <3>3 DEF MainNext
  <2>5. Shape'
    BY <2>1, <2>3 DEF Shape
  <2> QED
    BY <2>2, <2>3, <2>4, <2>5 DEF Types
<1>3. CASE (\E t \in Tokens : ServerHears(t)) \/ ExitSignal \/ UNCHANGED vars
  <2>1. UNCHANGED <<up, main, status_report, meas, reported, fetched, skipped, sent,
                    report_ready>>
    BY <1>3 DEF ServerHears, ExitSignal, mainVars, vars
  <2> QED
    BY <2>1 DEF Types, UpType, MainType, CountType, SentType, Shape
<1> QED
  BY <1>1, <1>2, <1>3 DEF Next
-----------------------------------------------------------------------------
(* The counters.                                                             *)

\* The counters of one interval agree with each other.
Consistent(c) ==
    /\ c["ack"] <= c["sent"]
    /\ c["fwd"] <= c["ok"] + c["bad"] + c["nocrc"]
    /\ c["ok"] + c["bad"] + c["nocrc"] <= c["rcv"]

\* mx_meas_up is held from one counter to the other.
Agree ==
    /\ mx_meas_up = (up.pc = "await")
    /\ Consistent(meas) /\ Consistent(main.cp.count) /\ Consistent(status_report.count)
    /\ up.pc = "await" => meas["ack"] < meas["sent"]

\* At the start all counters agree.
LEMMA InitAgree ==
    ASSUME Init
    PROVE  Agree
<1>1. Consistent(NoCount)
  BY CountersAre DEF Consistent, NoCount
<1> QED
  <2>1. /\ meas = NoCount /\ main.cp = NoReport /\ status_report = NoReport
        /\ up.pc = "fetch" /\ mx_meas_up = FALSE
    BY DEF Init
  <2>2. NoReport.count = NoCount
    BY DEF NoReport
  <2> QED
    BY <1>1, <2>1, <2>2 DEF Agree

\* Every step keeps the agreement.
LEMMA NextAgree ==
    ASSUME Types, Shape, Agree, [Next]_vars
    PROVE  Agree'
<1> DEFINE IsCount(c) == /\ c["rcv"] \in Nat /\ c["ok"] \in Nat /\ c["bad"] \in Nat
                         /\ c["nocrc"] \in Nat /\ c["fwd"] \in Nat /\ c["sent"] \in Nat
                         /\ c["ack"] \in Nat
<1>0. IsCount(meas)
  BY CountersAre DEF Types, CountType
<1>1. CASE UpNext
  <2>1. UNCHANGED <<main, status_report>>
    BY <1>1
    DEF UpNext, Fetch, FetchFails, Look, Serialise, Skip, CopyReport, Complete, Send,
        CountSent, AwaitInVain, AwaitFails, UpEnds, ReceiveAck, mainVars
  <2>2. mx_meas_up' = (up'.pc = "await")
    <3>1. CASE AwaitInVain \/ \E t \in Tokens : ReceiveAck(t)
      BY <3>1 DEF AwaitInVain, ReceiveAck
    <3>2. CASE AwaitFails
      BY <3>2 DEF AwaitFails, Done, Types, UpType
    <3>3. CASE CountSent
      BY <3>3 DEF CountSent, Types, UpType
    <3>4. CASE Fetch
      BY <3>4, FetchedBatch DEF Fetch, Types, UpType, Agree
    <3>5. CASE FetchFails \/ Look \/ Skip \/ CopyReport \/ Complete \/ UpEnds
      BY <3>5 DEF FetchFails, Look, Skip, CopyReport, Complete, UpEnds, Types, UpType, Agree
    <3>6. CASE Serialise
      BY <3>6 DEF Serialise, Types, UpType, Agree
    <3>7. CASE Send
      BY <3>7 DEF Send, Types, UpType, Agree
    <3> QED
      BY <1>1, <3>1, <3>2, <3>3, <3>4, <3>5, <3>6, <3>7 DEF UpNext
  <2>3. Consistent(meas') /\ (up'.pc = "await" => meas'["ack"] < meas'["sent"])
    <3>1. CASE CountSent
      <4>1. meas' = Plus({"sent"})
        BY <3>1 DEF CountSent
      <4>2. /\ meas'["sent"] = meas["sent"] + 1 /\ meas'["ack"] = meas["ack"]
            /\ meas'["rcv"] = meas["rcv"] /\ meas'["fwd"] = meas["fwd"]
            /\ meas'["ok"] = meas["ok"] /\ meas'["bad"] = meas["bad"]
            /\ meas'["nocrc"] = meas["nocrc"]
        BY <4>1, PlusOf, CountersAre DEF Types
      <4> QED
        BY <1>0, <4>2 DEF Agree, Consistent
    <3>2. CASE \E t \in Tokens : ReceiveAck(t)
      <4>1. up.pc = "await"
        BY <3>2 DEF ReceiveAck
      <4>2. \/ meas' = meas
            \/ meas' = Plus({"ack"}) /\ up' = Done
        BY <3>2 DEF ReceiveAck
      <4>3. CASE meas' = meas
        BY <4>1, <4>3 DEF Agree
      <4>4. CASE meas' = Plus({"ack"}) /\ up' = Done
        <5>1. /\ meas'["ack"] = meas["ack"] + 1 /\ meas'["sent"] = meas["sent"]
              /\ meas'["rcv"] = meas["rcv"] /\ meas'["fwd"] = meas["fwd"]
              /\ meas'["ok"] = meas["ok"] /\ meas'["bad"] = meas["bad"]
              /\ meas'["nocrc"] = meas["nocrc"]
          BY <4>4, PlusOf, CountersAre DEF Types
        <5>2. up'.pc = "fetch"
          BY <4>4 DEF Done, Types, UpType
        <5> QED
          BY <1>0, <4>1, <5>1, <5>2 DEF Agree, Consistent
      <4> QED
        BY <4>2, <4>3, <4>4
    <3>3. CASE Serialise
      <4> DEFINE p == Head(up.batch).kind
                 cs == {"rcv"} \cup StatusCounter(p) \cup (IF Forwarded(p) THEN {"fwd"} ELSE {})
      <4>1. meas' = Plus(cs) /\ up.pc = "serialise"
        BY <3>3 DEF Serialise
      <4>2. /\ cs \in SUBSET Counters /\ (Forwarded(p) => StatusCounter(p) # {})
            /\ StatusCounter(p) \in {{"ok"}, {"bad"}, {"nocrc"}, {}}
        BY SerialisedAs
      <4>3. up'.pc \in {"serialise", "exit"}
        BY <3>3, <4>1 DEF Serialise, Types, UpType
      <4>4. /\ "rcv" \in cs /\ "sent" \notin cs /\ "ack" \notin cs
            /\ ("fwd" \in cs <=> Forwarded(p))
            /\ ("ok" \in cs <=> StatusCounter(p) = {"ok"})
            /\ ("bad" \in cs <=> StatusCounter(p) = {"bad"})
            /\ ("nocrc" \in cs <=> StatusCounter(p) = {"nocrc"})
        BY <4>2
      <4> HIDE DEF cs, p
      <4>5. /\ meas'["rcv"] = meas["rcv"] + 1
            /\ meas'["sent"] = meas["sent"] /\ meas'["ack"] = meas["ack"]
            /\ meas'["fwd"] = IF Forwarded(p) THEN meas["fwd"] + 1 ELSE meas["fwd"]
            /\ meas'["ok"] = IF StatusCounter(p) = {"ok"} THEN meas["ok"] + 1 ELSE meas["ok"]
            /\ meas'["bad"] = IF StatusCounter(p) = {"bad"} THEN meas["bad"] + 1 ELSE meas["bad"]
            /\ meas'["nocrc"] = IF StatusCounter(p) = {"nocrc"} THEN meas["nocrc"] + 1
                                ELSE meas["nocrc"]
        <5>1. \A c \in Counters : meas'[c] = IF c \in cs THEN meas[c] + 1 ELSE meas[c]
          BY <4>1, <4>2, PlusOf DEF Types
        <5> QED
          BY <4>4, <5>1, CountersAre
      <4>6. {"ok"} # {"bad"} /\ {"ok"} # {"nocrc"} /\ {"bad"} # {"nocrc"}
        OBVIOUS
      <4>7. CASE StatusCounter(p) = {"ok"}
        BY <1>0, <4>3, <4>5, <4>6, <4>7 DEF Agree, Consistent
      <4>8. CASE StatusCounter(p) = {"bad"}
        BY <1>0, <4>3, <4>5, <4>6, <4>8 DEF Agree, Consistent
      <4>9. CASE StatusCounter(p) = {"nocrc"}
        <5>1. meas'["ok"] = meas["ok"] /\ meas'["bad"] = meas["bad"]
                /\ meas'["nocrc"] = meas["nocrc"] + 1
          BY <4>5, <4>6, <4>9
        <5> QED
          BY <1>0, <4>3, <4>5, <5>1 DEF Agree, Consistent
      <4>10. CASE StatusCounter(p) = {}
        BY <1>0, <4>2, <4>3, <4>5, <4>10 DEF Agree, Consistent
      <4> QED
        BY <4>2, <4>7, <4>8, <4>9, <4>10
    <3>4. CASE Fetch
      BY <3>4, FetchedBatch DEF Fetch, Types, UpType, Agree
    <3>5. CASE \/ FetchFails \/ Look \/ Skip \/ CopyReport \/ Complete \/ Send
               \/ AwaitInVain \/ AwaitFails \/ UpEnds
      <4>1. meas' = meas
        BY <3>5
        DEF FetchFails, Look, Skip, CopyReport, Complete, Send, AwaitInVain, AwaitFails, UpEnds
      <4>2. up'.pc = "await" => up.pc = "await"
        <5>1. CASE FetchFails \/ Look \/ Skip \/ CopyReport \/ Complete \/ UpEnds
          BY <5>1
          DEF FetchFails, Look, Skip, CopyReport, Complete, UpEnds, Types, UpType
        <5>2. CASE Send
          BY <5>2 DEF Send, Types, UpType
        <5>3. CASE AwaitInVain \/ AwaitFails
          BY <5>3 DEF AwaitInVain, AwaitFails
        <5> QED
          BY <3>5, <5>1, <5>2, <5>3
      <4> QED
        BY <4>1, <4>2 DEF Agree
    <3> QED
      BY <1>1, <3>1, <3>2, <3>3, <3>4, <3>5 DEF UpNext
  <2> QED
    BY <2>1, <2>2, <2>3 DEF Agree
<1>2. CASE MainNext
  <2>1. UNCHANGED <<up, mx_meas_up>>
    BY <1>2 DEF MainNext, IntervalOver, CopyCounters, WriteReport
  <2>2. CASE IntervalOver
    BY <2>1, <2>2 DEF IntervalOver, Agree, Types, MainType
  <2>3. CASE CopyCounters
    <3>1. main'.cp.count = meas /\ meas' = NoCount /\ status_report' = status_report
      BY <2>3 DEF CopyCounters
    <3>2. Consistent(NoCount)
      BY CountersAre DEF Consistent, NoCount
    <3>3. up.pc # "await"
      BY <2>3 DEF CopyCounters, Agree
    <3> QED
      BY <2>1, <3>1, <3>2, <3>3 DEF Agree
  <2>4. CASE WriteReport
    BY <2>1, <2>4 DEF WriteReport, Agree, Types, MainType
  <2> QED
    BY <1>2, <2>2, <2>3, <2>4 DEF MainNext
<1>3. CASE (\E t \in Tokens : ServerHears(t)) \/ ExitSignal \/ UNCHANGED vars
  <2>1. UNCHANGED <<up, main, status_report, meas, mx_meas_up>>
    BY <1>3 DEF ServerHears, ExitSignal, mainVars, vars
  <2> QED
    BY <2>1 DEF Agree, Consistent
<1> QED
  BY <1>1, <1>2, <1>3 DEF Next
\* What was counted and what was reported is what was fetched.
LEMMA InitAddUp ==
    ASSUME Init
    PROVE  CountersAddUp
<1>1. /\ up.batch = <<>> /\ fetched = 0 /\ skipped = 0 /\ up.pc = "fetch"
      /\ Total("rcv") = 0 /\ Total("fwd") = 0
  BY CountersAre DEF Init, NoCount, Total
<1>2. Len(<<>>) = 0
  OBVIOUS
<1> QED
  BY <1>1, <1>2 DEF CountersAddUp

\* Every step keeps the sums.
LEMMA NextAddUp ==
    ASSUME Types, Shape, CountersAddUp, [Next]_vars
    PROVE  CountersAddUp'
<1> DEFINE Open(u) == Len(u.batch) - (IF u.pc = "exit" /\ u.batch # <<>> THEN 1 ELSE 0)
<1>0. /\ Total("rcv") = fetched - Open(up) /\ Total("fwd") + skipped = Total("rcv")
      /\ meas["rcv"] \in Nat /\ meas["fwd"] \in Nat
      /\ reported["rcv"] \in Nat /\ reported["fwd"] \in Nat
      /\ fetched \in Nat /\ skipped \in Nat
      /\ up.batch \in Seq(Packet) /\ Len(up.batch) \in Nat
  BY CountersAre DEF CountersAddUp, Types, CountType, UpType
<1>1. ASSUME Total("rcv")' = fetched' - Open(up'), Total("fwd")' + skipped' = Total("rcv")'
      PROVE  CountersAddUp'
  BY <1>1 DEF CountersAddUp
<1>2. CASE UpNext
  <2>1. reported' = reported
    BY <1>2, CountStep
  <2>2. CASE Fetch
    <3>1. PICK n \in Nat : \E b \in Seq(Packet) :
            /\ Len(b) = n /\ fetched' = fetched + n
            /\ up' = [up EXCEPT !.pc = "look", !.batch = b]
      BY <2>2, FetchedBatch
    <3>2. PICK b \in Seq(Packet) :
            /\ Len(b) = n /\ fetched' = fetched + n
            /\ up' = [up EXCEPT !.pc = "look", !.batch = b]
      BY <3>1
    <3>3. up.pc = "fetch" /\ up.batch = <<>> /\ UNCHANGED <<meas, skipped>>
      BY <2>2 DEF Fetch, Shape
    <3>4. Open(up) = 0
      BY <3>3
    <3>5. Open(up') = n
      BY <3>2 DEF Types, UpType
    <3>6. UNCHANGED <<Total("rcv"), Total("fwd")>>
      BY <2>1, <3>3 DEF Total
    <3> HIDE DEF Open
    <3> QED
      BY <1>0, <1>1, <3>2, <3>3, <3>4, <3>5, <3>6
  <2>3. CASE Serialise
    <3> DEFINE p == Head(up.batch).kind
               cs == {"rcv"} \cup StatusCounter(p) \cup (IF Forwarded(p) THEN {"fwd"} ELSE {})
    <3>1. /\ meas' = Plus(cs) /\ fetched' = fetched
          /\ skipped' = IF Forwarded(p) THEN skipped ELSE skipped + 1
          /\ up.pc = "serialise" /\ up.batch # <<>>
      BY <2>3 DEF Serialise
    <3>2. cs \in SUBSET Counters /\ "rcv" \in cs /\ ("fwd" \in cs <=> Forwarded(p))
      BY SerialisedAs
    <3>3. /\ meas'["rcv"] = meas["rcv"] + 1
          /\ meas'["fwd"] = IF Forwarded(p) THEN meas["fwd"] + 1 ELSE meas["fwd"]
      BY <3>1, <3>2, PlusOf, CountersAre DEF Types
    <3>4. Open(up) = Len(up.batch)
      BY <1>0, <3>1
    <3>5. Open(up') = Len(up.batch) - 1
      <4>1. \/ up' = [up EXCEPT !.batch = Tail(@)]
            \/ up' = [up EXCEPT !.batch = Tail(@), !.dgram.packets = Append(@, Head(up.batch))]
            \/ up' = [up EXCEPT !.pc = "exit"]
        BY <2>3 DEF Serialise
      <4>2. CASE up' = [up EXCEPT !.pc = "exit"]
        BY <1>0, <3>1, <4>2 DEF Types, UpType
      <4>3. CASE \/ up' = [up EXCEPT !.batch = Tail(@)]
                 \/ up' = [up EXCEPT !.batch = Tail(@),
                                     !.dgram.packets = Append(@, Head(up.batch))]
        <5>1. up'.batch = Tail(up.batch) /\ up'.pc = "serialise"
          BY <3>1, <4>3 DEF Types, UpType
        <5>2. Len(Tail(up.batch)) = Len(up.batch) - 1
          BY <3>1, TakenPacket
        <5> QED
          BY <1>0, <5>1, <5>2
      <4> QED
        BY <4>1, <4>2, <4>3
    <3>6. /\ Total("rcv")' = Total("rcv") + 1
          /\ Total("fwd")' = IF Forwarded(p) THEN Total("fwd") + 1 ELSE Total("fwd")
      <4>1. /\ Total("rcv") = reported["rcv"] + meas["rcv"]
            /\ Total("fwd") = reported["fwd"] + meas["fwd"]
            /\ Total("rcv")' = reported["rcv"] + meas'["rcv"]
            /\ Total("fwd")' = reported["fwd"] + meas'["fwd"]
        BY <2>1 DEF Total
      <4>n. /\ reported["rcv"] \in Nat /\ reported["fwd"] \in Nat
            /\ meas["rcv"] \in Nat /\ meas["fwd"] \in Nat
        BY <1>0
      <4> HIDE DEF p, cs, Open
      <4>2. CASE Forwarded(p)
        <5>1. meas'["rcv"] = meas["rcv"] + 1 /\ meas'["fwd"] = meas["fwd"] + 1
          BY <3>3, <4>2
        <5> QED
          BY <4>n, <4>1, <4>2, <5>1
      <4>3. CASE ~Forwarded(p)
        <5>1. meas'["rcv"] = meas["rcv"] + 1 /\ meas'["fwd"] = meas["fwd"]
          BY <3>3, <4>3
        <5> QED
          BY <4>n, <4>1, <4>3, <5>1
      <4> QED
        BY <4>2, <4>3
    <3>7. Total("rcv") \in Nat /\ Total("fwd") \in Nat
      BY <1>0 DEF Total
    <3>8. Total("rcv")' = fetched' - Open(up')
      <4> HIDE DEF Open, p, cs
      <4>1. fetched' = fetched
        BY <3>1
      <4>2. Total("rcv") = fetched - Len(up.batch)
        BY <1>0, <3>4
      <4>3. Total("rcv")' = fetched - Len(up.batch) + 1
        BY <3>6, <4>2
      <4>4. fetched - Len(up.batch) + 1 = fetched - (Len(up.batch) - 1)
        BY <1>0
      <4> QED
        BY <3>5, <4>1, <4>3, <4>4
    <3>9. Total("fwd")' + skipped' = Total("rcv")'
      <4> HIDE DEF p
      <4>1. CASE Forwarded(p)
        BY <1>0, <3>1, <3>6, <3>7, <4>1
      <4>2. CASE ~Forwarded(p)
        BY <1>0, <3>1, <3>6, <3>7, <4>2
      <4> QED
        BY <4>1, <4>2
    <3> QED
      BY <1>1, <3>8, <3>9
  <2>4. CASE ~Fetch /\ ~Serialise
    <3>1. UNCHANGED <<fetched, skipped>>
      BY <1>2, <2>4, CountStep
    <3>2. meas' = meas \/ meas' = Plus({"sent"}) \/ meas' = Plus({"ack"})
      BY <1>2, <2>4, CountStep
    <3>3. meas'["rcv"] = meas["rcv"] /\ meas'["fwd"] = meas["fwd"]
      <4>1. CASE meas' = Plus({"sent"})
        BY <4>1, PlusOf, CountersAre DEF Types
      <4>2. CASE meas' = Plus({"ack"})
        BY <4>2, PlusOf, CountersAre DEF Types
      <4> QED
        BY <3>2, <4>1, <4>2
    <3>4. up'.batch = up.batch
      <4>1. CASE CountSent
        BY <4>1 DEF CountSent, Types, UpType
      <4>2. CASE AwaitInVain \/ AwaitFails \/ \E t \in Tokens : ReceiveAck(t)
        <5>1. Done.batch = up.batch /\ NextTry.batch = up.batch
          BY DEF Done, NextTry, Types, UpType
        <5> QED
          BY <4>2, <5>1 DEF AwaitInVain, AwaitFails, ReceiveAck
      <4>3. CASE FetchFails \/ Look \/ Skip \/ Complete \/ UpEnds
        BY <4>3 DEF FetchFails, Look, Skip, Complete, UpEnds, Types, UpType
      <4>4. CASE CopyReport
        BY <4>4 DEF CopyReport, Types, UpType
      <4>5. CASE Send
        BY <4>5 DEF Send, Types, UpType
      <4> QED
        BY <1>2, <2>4, <4>1, <4>2, <4>3, <4>4, <4>5 DEF UpNext
    <3>5. up'.pc = "exit" => up'.batch = <<>>
      <4>1. CASE FetchFails
        BY <3>4, <4>1 DEF FetchFails, Shape
      <4>2. CASE CountSent \/ CopyReport \/ Send
        <5>1. up'.pc \in {"await", "send", "count"}
          BY <4>2 DEF CountSent, CopyReport, Send, Types, UpType
        <5> QED
          BY <5>1
      <4>3. CASE AwaitInVain \/ AwaitFails \/ \E t \in Tokens : ReceiveAck(t)
        <5>1. Done.pc = "fetch"
          BY DEF Done, Types, UpType
        <5>2. up.pc = "await" => NextTry.pc \in {"fetch", "await"}
          BY <5>1 DEF NextTry, Types, UpType
        <5> QED
          BY <4>3, <5>1, <5>2 DEF AwaitInVain, AwaitFails, ReceiveAck
      <4>4. CASE Look \/ Skip \/ Complete \/ UpEnds
        BY <4>4 DEF Look, Skip, Complete, UpEnds, Types, UpType
      <4> QED
        BY <1>2, <2>4, <4>1, <4>2, <4>3, <4>4 DEF UpNext
    <3>6. up.pc # "exit"
      BY <1>2
      DEF UpNext, Fetch, FetchFails, Look, Serialise, Skip, CopyReport, Complete, Send,
          CountSent, AwaitInVain, AwaitFails, UpEnds, ReceiveAck
    <3>7. Open(up') = Open(up)
      BY <1>0, <3>4, <3>5, <3>6
    <3>8. UNCHANGED <<Total("rcv"), Total("fwd")>>
      BY <2>1, <3>3 DEF Total
    <3> HIDE DEF Open
    <3> QED
      BY <1>0, <1>1, <3>1, <3>7, <3>8
  <2> QED
    BY <2>2, <2>3, <2>4
<1>3. CASE MainNext
  <2>1. UNCHANGED <<up, fetched, skipped>>
    BY <1>3 DEF MainNext, IntervalOver, CopyCounters, WriteReport
  <2>2. Total("rcv")' = Total("rcv") /\ Total("fwd")' = Total("fwd")
    <3>1. CASE CopyCounters
      BY <1>0, <3>1, CountersAre DEF CopyCounters, NoCount, Total
    <3>2. CASE IntervalOver \/ WriteReport
      BY <3>2 DEF IntervalOver, WriteReport, Total
    <3> QED
      BY <1>3, <3>1, <3>2 DEF MainNext
  <2> HIDE DEF Open
  <2> QED
    BY <1>0, <1>1, <2>1, <2>2
<1>4. CASE (\E t \in Tokens : ServerHears(t)) \/ ExitSignal \/ UNCHANGED vars
  <2>1. UNCHANGED <<up, meas, reported, fetched, skipped>>
    BY <1>4 DEF ServerHears, ExitSignal, mainVars, vars
  <2> QED
    BY <2>1 DEF CountersAddUp, Total
<1> QED
  BY <1>2, <1>3, <1>4 DEF Next
-----------------------------------------------------------------------------
(* The reports.                                                              *)

Sent(r) == \E i \in DOMAIN sent.reports : r = sent.reports[i]

\* The reports sent and the one in hand are older than the one that is ready.
Order ==
    /\ main.cp.seq = status_report.seq + (IF main.pc = "write" THEN 1 ELSE 0)
    /\ up.dgram.report <= status_report.seq
    /\ report_ready => up.dgram.report < status_report.seq \/ up.dgram.report = 0
    /\ \A i \in DOMAIN sent.reports :
          /\ sent.reports[i] <= status_report.seq
          /\ report_ready => sent.reports[i] < status_report.seq
          /\ up.pc = "send" /\ up.dgram.report # 0 => sent.reports[i] < up.dgram.report
    /\ up.pc = "count" /\ up.dgram.report # 0 => Sent(up.dgram.report)

NotForgotten ==
    \A r \in 1 .. status_report.seq :
        Sent(r) \/ r = up.dgram.report \/ (r = status_report.seq /\ report_ready)
                \/ r \in replaced

Reports == Order /\ ReportsInOrder /\ NotForgotten

\* That no report is forgotten, with the membership spelled out.
LEMMA NotForgottenIs == NotForgotten <=> NoReportForgotten
<1>1. \A r : Sent(r) <=> r \in {sent.reports[i] : i \in DOMAIN sent.reports}
  BY DEF Sent
<1> QED
  BY <1>1 DEF NotForgotten, NoReportForgotten

\* At the start no report has been sent.
LEMMA InitReports ==
    ASSUME Init
    PROVE  Reports
<1>1. /\ sent.reports = <<>> /\ up.dgram.report = 0 /\ status_report.seq = 0
      /\ main.cp.seq = 0 /\ main.pc = "sleep" /\ up.pc = "fetch" /\ report_ready = FALSE
  BY DEF Init, Empty, NoReport
<1>2. DOMAIN <<>> = {}
  OBVIOUS
<1>3. Order
  BY <1>1, <1>2 DEF Order
<1>4. ReportsInOrder /\ NotForgotten
  BY <1>1, <1>2 DEF ReportsInOrder, Increasing, NotForgotten
<1> QED
  BY <1>3, <1>4 DEF Reports

\* Where thread_up goes, with what report in hand.
LEMMA ReportInHand ==
    ASSUME Types, Shape, UpNext
    PROVE  \/ /\ ~Send /\ up.dgram.report = 0 /\ up'.dgram.report = 0
              /\ report_ready' = report_ready
           \/ /\ Send /\ up.pc = "send" /\ up'.pc = "count" /\ report_ready' = report_ready
              /\ up'.dgram.report = up.dgram.report
           \/ /\ ~Send /\ up.pc = "count" /\ up'.pc = "await" /\ report_ready' = report_ready
              /\ up'.dgram.report = 0
           \/ /\ ~Send /\ up'.pc = "send" /\ up.dgram.report = 0 /\ report_ready
              /\ ~report_ready' /\ up'.dgram.report = status_report.seq
<1>1. CASE Fetch
  <2>1. PICK b \in Seq(Packet) : up' = [up EXCEPT !.pc = "look", !.batch = b]
    BY <1>1, FetchedBatch
  <2> QED
    BY <1>1, <2>1 DEF Fetch, Send, Types, UpType, Shape
<1>2. CASE FetchFails \/ Look \/ Skip \/ UpEnds \/ Complete
  <2>1. ~Send /\ report_ready' = report_ready /\ up.dgram.report = 0
    BY <1>2 DEF FetchFails, Look, Skip, UpEnds, Complete, Send, Shape
  <2>2. up'.dgram = up.dgram
    BY <1>2 DEF FetchFails, Look, Skip, UpEnds, Complete, Types, UpType
  <2> QED
    BY <2>1, <2>2
<1>3. CASE Serialise
  <2>1. ~Send /\ report_ready' = report_ready /\ up.dgram.report = 0
    BY <1>3 DEF Serialise, Send, Shape
  <2>2. \/ up' = [up EXCEPT !.batch = Tail(@)]
        \/ up' = [up EXCEPT !.batch = Tail(@), !.dgram.packets = Append(@, Head(up.batch))]
        \/ up' = [up EXCEPT !.pc = "exit"]
    BY <1>3 DEF Serialise
  <2>3. up'.dgram.report = up.dgram.report
    <3>1. CASE up' = [up EXCEPT !.batch = Tail(@), !.dgram.packets = Append(@, Head(up.batch))]
      <4> DEFINE d == [up.dgram EXCEPT !.packets = Append(@, Head(up.batch))]
      <4>1. d.report = up.dgram.report
        BY DEF Types, UpType
      <4>2. up' = [up EXCEPT !.batch = Tail(@), !.dgram = d]
        BY <3>1 DEF Types, UpType
      <4> HIDE DEF d
      <4> QED
        BY <4>1, <4>2 DEF Types, UpType
    <3> QED
      BY <2>2, <3>1 DEF Types, UpType
  <2> QED
    BY <2>1, <2>3
<1>4. CASE CopyReport
  <2>1. up' = [up EXCEPT !.pc = "send", !.dgram.report = status_report.seq]
    BY <1>4 DEF CopyReport
  <2>2. up'.dgram.report = status_report.seq /\ up'.pc = "send"
    BY <2>1 DEF Types, UpType
  <2>3. ~Send /\ up.dgram.report = 0 /\ report_ready /\ ~report_ready'
    BY <1>4 DEF CopyReport, Send, Shape
  <2> QED
    BY <2>2, <2>3
<1>5. CASE Send
  <2>1. /\ up.pc = "send" /\ report_ready' = report_ready
        /\ \E t \in Tokens : up' = [up EXCEPT !.pc = "count", !.token = t]
    BY <1>5 DEF Send
  <2> QED
    BY <1>5, <2>1 DEF Types, UpType
<1>6. CASE CountSent
  <2>1. /\ up.pc = "count" /\ report_ready' = report_ready /\ ~Send
        /\ up' = [up EXCEPT !.pc = "await", !.tries = 0, !.dgram = Empty]
    BY <1>6 DEF CountSent, Send
  <2>2. up'.pc = "await" /\ up'.dgram = Empty
    BY <2>1 DEF Types, UpType
  <2> QED
    BY <2>1, <2>2 DEF Empty
<1>7. CASE AwaitInVain \/ AwaitFails \/ \E t \in Tokens : ReceiveAck(t)
  <2>1. up.pc = "await" /\ report_ready' = report_ready /\ ~Send
    BY <1>7 DEF AwaitInVain, AwaitFails, ReceiveAck, Send
  <2>2. Done.dgram = up.dgram /\ NextTry.dgram = up.dgram
    BY DEF Done, NextTry, Types, UpType
  <2>3. up'.dgram = up.dgram
    BY <1>7, <2>2 DEF AwaitInVain, AwaitFails, ReceiveAck
  <2> QED
    BY <2>1, <2>3 DEF Shape
<1> QED
  BY <1>1, <1>2, <1>3, <1>4, <1>5, <1>6, <1>7 DEF UpNext

\* The steps of thread_up send each report once, in order.
LEMMA UpReports ==
    ASSUME Types, Shape, Reports, UpNext
    PROVE  Reports'
<1> DEFINE S == sent.reports
           d == up.dgram.report
           n == status_report.seq
<1>0. S \in Seq(Nat) /\ d \in Nat /\ n \in Nat /\ report_ready \in BOOLEAN
  BY DEF Types, SentType, UpType, MainType, ReportType
<1>1. UNCHANGED <<main, status_report, replaced>>
  BY DEF UpNext, Fetch, FetchFails, Look, Serialise, Skip, CopyReport, Complete, Send,
         CountSent, AwaitInVain, AwaitFails, UpEnds, ReceiveAck, mainVars
<1>2. main'.cp.seq = status_report'.seq + (IF main'.pc = "write" THEN 1 ELSE 0)
  BY <1>1 DEF Reports, Order
<1>3. CASE Send /\ d # 0
  <2>1. S' = Append(S, d)
    BY <1>3, SentStep
  <2>2. up.pc = "send" /\ up'.pc = "count" /\ report_ready' = report_ready /\ d' = d
    BY <1>3, ReportInHand
  <2>3. /\ S' \in Seq(Nat) /\ DOMAIN S' = 1 .. Len(S) + 1 /\ DOMAIN S = 1 .. Len(S)
        /\ Len(S) \in Nat
        /\ \A i \in 1 .. Len(S) : S'[i] = S[i]
        /\ S'[Len(S) + 1] = d
    BY <1>0, <2>1
  <2>4. /\ d <= n /\ (report_ready => d < n)
        /\ \A i \in 1 .. Len(S) : S[i] <= n /\ (report_ready => S[i] < n) /\ S[i] < d
    BY <1>3, <2>2, <2>3 DEF Reports, Order
  <2> HIDE DEF S, d, n
  <2>5. \A i \in DOMAIN S' : S'[i] <= n /\ (report_ready => S'[i] < n)
    BY <2>3, <2>4
  <2>6. \E i \in DOMAIN S' : d = S'[i]
    BY <2>3
  <2>7. \A i, j \in DOMAIN S' : i < j => S'[i] < S'[j]
    <3>1. \A i, j \in 1 .. Len(S) : i < j => S[i] < S[j]
      BY <2>3 DEF Reports, ReportsInOrder, Increasing, S
    <3> QED
      BY <2>3, <2>4, <3>1
  <2>8. \A r \in 1 .. n : (\E i \in DOMAIN S : r = S[i]) => \E i \in DOMAIN S' : r = S'[i]
    BY <2>3
  <2>9. n' = n
    BY <1>1 DEF n
  <2> USE DEF S, d, n
  <2>10. Order'
    BY <1>2, <2>2, <2>4, <2>5, <2>6, <2>9 DEF Order, Sent
  <2>11. NotForgotten'
    BY <1>1, <2>2, <2>8, <2>9 DEF Reports, NotForgotten, Sent
  <2> QED
    BY <2>7, <2>10, <2>11 DEF Reports, ReportsInOrder, Increasing
<1>4. CASE ~Send \/ d = 0
  <2>1. S' = S
    BY <1>4, SentStep
  <2>2. n' = n
    BY <1>1
  <2>3. ReportsInOrder'
    BY <2>1 DEF Reports, ReportsInOrder
  <2>4. \A r : Sent(r)' <=> Sent(r)
    BY <2>1 DEF Sent
  <2>5. CASE ~report_ready' /\ report_ready /\ d = 0 /\ d' = n /\ up'.pc = "send"
    <3>1. Order'
      BY <1>0, <1>2, <2>1, <2>2, <2>5 DEF Reports, Order
    <3>2. NotForgotten'
      BY <1>0, <1>1, <2>2, <2>4, <2>5 DEF Reports, NotForgotten
    <3> QED
      BY <2>3, <3>1, <3>2 DEF Reports
  <2>6. CASE report_ready' = report_ready /\ d' = 0 /\ (d = 0 \/ up.pc = "count")
    <3>1. Order'
      BY <1>0, <1>2, <2>1, <2>2, <2>6 DEF Reports, Order
    <3>2. NotForgotten'
      BY <1>0, <1>1, <2>2, <2>4, <2>6 DEF Reports, Order, NotForgotten
    <3> QED
      BY <2>3, <3>1, <3>2 DEF Reports
  <2>7. \/ ~report_ready' /\ report_ready /\ d = 0 /\ d' = n /\ up'.pc = "send"
        \/ report_ready' = report_ready /\ d' = 0 /\ (d = 0 \/ up.pc = "count")
    BY <1>4, ReportInHand
  <2> QED
    BY <2>5, <2>6, <2>7
<1> QED
  BY <1>3, <1>4

\* So does every step.
LEMMA NextReports ==
    ASSUME Types, Shape, Reports, [Next]_vars
    PROVE  Reports'
<1>0. /\ sent.reports \in Seq(Nat) /\ up.dgram.report \in Nat
      /\ status_report.seq \in Nat /\ main.cp.seq \in Nat /\ report_ready \in BOOLEAN
  BY DEF Types, SentType, UpType, MainType, ReportType
<1>1. CASE UpNext
  BY <1>1, UpReports
<1>2. CASE MainNext
  <2>1. UNCHANGED <<up, sent>>
    BY <1>2 DEF MainNext, IntervalOver, CopyCounters, WriteReport
  <2>2. ReportsInOrder'
    BY <2>1 DEF Reports, ReportsInOrder
  <2>3. CASE IntervalOver \/ CopyCounters
    <3>1. UNCHANGED <<status_report, replaced, report_ready>>
      BY <2>3 DEF IntervalOver, CopyCounters
    <3>2. main'.cp.seq = status_report.seq + (IF main'.pc = "write" THEN 1 ELSE 0)
      <4>1. CASE IntervalOver
        BY <4>1 DEF IntervalOver, Reports, Order, Types, MainType
      <4>2. CASE CopyCounters
        <5>1. main.cp.seq = status_report.seq /\ main' = [pc |-> "write",
                 cp |-> [seq |-> main.cp.seq + 1, count |-> meas]]
          BY <1>0, <4>2 DEF CopyCounters, Reports, Order
        <5> QED
          BY <5>1
      <4> QED
        BY <2>3, <4>1, <4>2
    <3>3. Order'
      BY <2>1, <3>1, <3>2 DEF Reports, Order, Sent
    <3>4. NotForgotten'
      BY <2>1, <3>1 DEF Reports, NotForgotten, Sent
    <3> QED
      BY <2>2, <3>3, <3>4 DEF Reports
  <2>4. CASE WriteReport
    <3>1. /\ main.pc = "write" /\ status_report' = main.cp /\ report_ready' = TRUE
          /\ replaced' = IF report_ready THEN replaced \cup {status_report.seq} ELSE replaced
          /\ main' = [main EXCEPT !.pc = "sleep"]
      BY <2>4 DEF WriteReport
    <3>2. status_report'.seq = status_report.seq + 1 /\ main'.cp.seq = status_report'.seq
            /\ main'.pc = "sleep"
      BY <3>1 DEF Reports, Order, Types, MainType
    <3>3. \A i \in DOMAIN sent.reports : sent.reports[i] \in Nat
      BY <1>0
    <3>4. Order'
      BY <1>0, <2>1, <3>1, <3>2, <3>3 DEF Reports, Order, Sent
    <3>5. ASSUME NEW r \in 1 .. status_report'.seq
          PROVE  Sent(r) \/ r = up.dgram.report \/ r = status_report'.seq \/ r \in replaced'
      <4>1. CASE r = status_report'.seq
        BY <4>1
      <4>2. CASE r \in 1 .. status_report.seq
        <5>1. Sent(r) \/ r = up.dgram.report \/ (r = status_report.seq /\ report_ready)
                \/ r \in replaced
          BY <4>2 DEF Reports, NotForgotten
        <5> QED
          BY <3>1, <5>1
      <4> QED
        BY <1>0, <3>2, <4>1, <4>2
    <3>6. NotForgotten'
      BY <2>1, <3>1, <3>5 DEF NotForgotten, Sent
    <3> QED
      BY <2>2, <3>4, <3>6 DEF Reports
  <2> QED
    BY <1>2, <2>3, <2>4 DEF MainNext
<1>3. CASE (\E t \in Tokens : ServerHears(t)) \/ ExitSignal \/ UNCHANGED vars
  <2>1. UNCHANGED <<up, main, status_report, report_ready, sent, replaced>>
    BY <1>3 DEF ServerHears, ExitSignal, mainVars, vars
  <2> QED
    BY <2>1 DEF Reports, Order, ReportsInOrder, NotForgotten, Sent
<1> QED
  BY <1>1, <1>2, <1>3 DEF Next

-----------------------------------------------------------------------------
(* The theorems.                                                             *)

Inv == Types /\ Shape /\ Agree /\ CountersAddUp /\ Reports

\* The invariant therefore holds always.
LEMMA InvHolds == Spec => []Inv
<1>1. Init => Inv
  BY InitTypes, InitAgree, InitAddUp, InitReports DEF Inv
<1>2. Inv /\ [Next]_vars => Inv'
  BY NextTypes, NextAgree, NextAddUp, NextReports DEF Inv
<1> QED
  BY <1>1, <1>2, PTL DEF Spec

\* Whatever the server and the network do, a status report never says that more datagrams
\* were acknowledged than sent, or more packets forwarded than received.
THEOREM ReportsAgree == Spec => []ReportConsistent
<1>1. Inv => ReportConsistent
  BY DEF Inv, Agree, Consistent, ReportConsistent
<1> QED
  BY <1>1, InvHolds, PTL

\* Besides, each packet fetched is counted once, over all reports.
THEOREM CountersAlwaysKept == Spec => []CountersKept
<1>1. Spec => []CountersAddUp
  BY InvHolds, PTL DEF Inv
<1>2. ReportConsistent /\ CountersAddUp => CountersKept
  BY DEF CountersKept
<1> QED
  BY <1>1, <1>2, ReportsAgree, PTL

\* The reports leave in the order they are made, none twice; one that was made is sent,
\* about to be, or was replaced while it was ready.
THEOREM ReportsAlwaysOnce == Spec => []ReportsOnce
<1>1. Inv => ReportsOnce
  BY NotForgottenIs DEF Inv, Reports, ReportsOnce
<1> QED
  BY <1>1, InvHolds, PTL

-----------------------------------------------------------------------------
(* The order of the packets.                                                 *)

\* The packets on their way through thread_up, with those sent before them.
InHand == IF up.pc = "count" THEN <<>> ELSE Ids(up.dgram.packets)
All    == sent.packets \o InHand \o Ids(up.batch)

\* A sequence of numbers that does not go past n, and one that goes on from n.
UpTo(w, n) == Increasing(w) /\ \A i \in DOMAIN w : w[i] <= n
From(b, n) == \A i \in DOMAIN b : b[i] = n + i

\* The packets on their way are those fetched, in their order, but for the skipped ones.
Ordered == UpTo(All, fetched) /\ Len(All) + skipped = fetched

\* The elements of two sequences of numbers, joined.
LEMMA Joined ==
    ASSUME NEW s \in Seq(Int), NEW d \in Seq(Int)
    PROVE  /\ s \o d \in Seq(Int) /\ Len(s \o d) = Len(s) + Len(d)
           /\ Len(s) \in Nat /\ Len(d) \in Nat
           /\ \A i \in 1 .. Len(s) + Len(d) :
                 (s \o d)[i] = IF i <= Len(s) THEN s[i] ELSE d[i - Len(s)]
OBVIOUS

\* Concatenation is associative.
LEMMA Associative ==
    ASSUME NEW s \in Seq(Int), NEW d \in Seq(Int), NEW b \in Seq(Int)
    PROVE  (s \o d) \o b = s \o (d \o b)
OBVIOUS

\* A sequence is its head and its tail, ...
LEMMA HeadOff ==
    ASSUME NEW s \in Seq(Int), NEW t \in Seq(Int), NEW x \in Int,
           Len(s) = Len(t) + 1, s[1] = x, \A i \in 1 .. Len(t) : t[i] = s[i + 1]
    PROVE  s = <<x>> \o t
<1>1. <<x>> \in Seq(Int) /\ Len(<<x>>) = 1 /\ <<x>>[1] = x /\ Len(t) \in Nat
  OBVIOUS
<1> DEFINE h == <<x>>
           r == h \o t
<1>2. h \in Seq(Int) /\ Len(h) = 1 /\ h[1] = x
  BY <1>1
<1> HIDE DEF h
<1>3. /\ r \in Seq(Int) /\ Len(r) = Len(t) + 1
      /\ \A i \in 1 .. Len(t) + 1 : r[i] = IF i <= 1 THEN h[i] ELSE t[i - 1]
  <2>1. /\ r \in Seq(Int) /\ Len(r) = Len(h) + Len(t)
        /\ \A i \in 1 .. Len(h) + Len(t) : r[i] = IF i <= Len(h) THEN h[i] ELSE t[i - Len(h)]
    BY <1>2, Joined
  <2> QED
    BY <1>1, <1>2, <2>1
<1> HIDE DEF r
<1>4. \A i \in 1 .. Len(s) : s[i] = r[i]
  <2> SUFFICES ASSUME NEW i \in 1 .. Len(s) PROVE s[i] = r[i]
    OBVIOUS
  <2>1. CASE i = 1
    BY <1>1, <1>2, <1>3, <2>1
  <2>2. CASE i # 1
    <3>1. i - 1 \in 1 .. Len(t) /\ i \in 1 .. Len(t) + 1 /\ ~(i <= 1) /\ (i - 1) + 1 = i
      BY <1>1, <2>2
    <3> QED
      BY <1>3, <3>1
  <2> QED
    BY <2>1, <2>2
<1>5. s = r
  BY <1>3, <1>4, SeqEqual
<1> QED
  BY <1>5 DEF r, h

\* ... and its front and its last element.
LEMMA LastOn ==
    ASSUME NEW s \in Seq(Int), NEW t \in Seq(Int), NEW x \in Int,
           Len(t) = Len(s) + 1, t[Len(s) + 1] = x, \A i \in 1 .. Len(s) : t[i] = s[i]
    PROVE  t = s \o <<x>>
<1>1. <<x>> \in Seq(Int) /\ Len(<<x>>) = 1 /\ <<x>>[1] = x /\ Len(s) \in Nat
  OBVIOUS
<1> DEFINE h == <<x>>
           r == s \o h
<1>2. h \in Seq(Int) /\ Len(h) = 1 /\ h[1] = x
  BY <1>1
<1> HIDE DEF h
<1>3. /\ r \in Seq(Int) /\ Len(r) = Len(s) + 1
      /\ \A i \in 1 .. Len(s) + 1 : r[i] = IF i <= Len(s) THEN s[i] ELSE h[i - Len(s)]
  <2>1. /\ r \in Seq(Int) /\ Len(r) = Len(s) + Len(h)
        /\ \A i \in 1 .. Len(s) + Len(h) : r[i] = IF i <= Len(s) THEN s[i] ELSE h[i - Len(s)]
    BY <1>2, Joined
  <2> QED
    BY <1>1, <1>2, <2>1
<1> HIDE DEF r
<1>4. \A i \in 1 .. Len(t) : t[i] = r[i]
  <2> SUFFICES ASSUME NEW i \in 1 .. Len(t) PROVE t[i] = r[i]
    OBVIOUS
  <2>1. CASE i = Len(s) + 1
    <3>1. i - Len(s) = 1 /\ ~(i <= Len(s)) /\ i \in 1 .. Len(s) + 1
      BY <1>1, <2>1
    <3> QED
      BY <1>2, <1>3, <2>1, <3>1
  <2>2. CASE i # Len(s) + 1
    <3>1. i <= Len(s) /\ i \in 1 .. Len(s) /\ i \in 1 .. Len(s) + 1
      BY <1>1, <2>2
    <3> QED
      BY <1>3, <3>1
  <2> QED
    BY <2>1, <2>2
<1>5. t = r
  BY <1>3, <1>4, SeqEqual
<1> QED
  BY <1>5 DEF r, h

\* The numbers of a sequence of packets.
LEMMA IdsOf ==
    ASSUME NEW b \in Seq(Packet)
    PROVE  /\ Ids(b) \in Seq(Int) /\ Len(Ids(b)) = Len(b)
           /\ \A i \in 1 .. Len(b) : Ids(b)[i] = b[i].id
<1>1. DOMAIN b = 1 .. Len(b) /\ Len(b) \in Nat
  OBVIOUS
<1>2. \A i \in 1 .. Len(b) : b[i].id \in Int
  <2>1. \A i \in 1 .. Len(b) : b[i] \in Packet
    OBVIOUS
  <2> QED
    BY <2>1 DEF Packet
<1>3. Ids(b) = [i \in 1 .. Len(b) |-> b[i].id]
  BY <1>1 DEF Ids
<1> QED
  BY <1>1, <1>2, <1>3

\* The numbers of a sequence one packet is taken from.
LEMMA IdsTail ==
    ASSUME NEW b \in Seq(Packet), b # <<>>
    PROVE  /\ Head(b).id \in Int /\ Tail(b) \in Seq(Packet)
           /\ Ids(Tail(b)) \in Seq(Int)
           /\ Ids(b) = <<Head(b).id>> \o Ids(Tail(b))
<1>1. /\ Tail(b) \in Seq(Packet) /\ Len(Tail(b)) = Len(b) - 1 /\ Len(b) \in Nat \ {0}
      /\ \A i \in 1 .. Len(Tail(b)) : Tail(b)[i] = b[i + 1]
      /\ Head(b) = b[1] /\ Head(b) \in Packet
  OBVIOUS
<1>2. Head(b).id \in Int
  BY <1>1 DEF Packet
<1> DEFINE s == Ids(b)
           t == Ids(Tail(b))
           x == Head(b).id
<1>3. /\ s \in Seq(Int) /\ Len(s) = Len(b) /\ \A i \in 1 .. Len(b) : s[i] = b[i].id
      /\ t \in Seq(Int) /\ Len(t) = Len(b) - 1
      /\ \A i \in 1 .. Len(b) - 1 : t[i] = Tail(b)[i].id
  BY <1>1, IdsOf
<1> HIDE DEF s, t
<1>4. s[1] = x /\ \A i \in 1 .. Len(t) : t[i] = s[i + 1]
  <2>1. 1 \in 1 .. Len(b)
    BY <1>1
  <2>2. s[1] = b[1].id
    BY <1>3, <2>1
  <2>3. ASSUME NEW i \in 1 .. Len(t)
        PROVE  t[i] = s[i + 1]
    <3>1. i \in 1 .. Len(Tail(b)) /\ i \in 1 .. Len(b) - 1 /\ i + 1 \in 1 .. Len(b)
      BY <1>1, <1>3
    <3>2. t[i] = Tail(b)[i].id /\ Tail(b)[i] = b[i + 1]
      BY <1>1, <1>3, <3>1
    <3>3. s[i + 1] = b[i + 1].id
      BY <1>3, <3>1
    <3> QED
      BY <3>2, <3>3
  <2> QED
    BY <1>1, <2>2, <2>3
<1>5. Len(s) = Len(t) + 1 /\ s \in Seq(Int) /\ t \in Seq(Int) /\ x \in Int
  BY <1>1, <1>2, <1>3
<1> HIDE DEF x
<1>6. s = <<x>> \o t
  BY <1>4, <1>5, HeadOff
<1> QED
  BY <1>1, <1>5, <1>6 DEF s, t, x

\* ... or appended to.
LEMMA IdsAppend ==
    ASSUME NEW b \in Seq(Packet), NEW p \in Packet
    PROVE  Ids(Append(b, p)) = Ids(b) \o <<p.id>>
<1>1. Append(b, p) \in Seq(Packet) /\ Len(Append(b, p)) = Len(b) + 1 /\ Len(b) \in Nat
      /\ \A i \in 1 .. Len(b) : Append(b, p)[i] = b[i]
      /\ Append(b, p)[Len(b) + 1] = p
  OBVIOUS
<1> DEFINE s == Ids(b)
           t == Ids(Append(b, p))
           x == p.id
<1>2. /\ s \in Seq(Int) /\ Len(s) = Len(b) /\ \A i \in 1 .. Len(b) : s[i] = b[i].id
      /\ t \in Seq(Int) /\ Len(t) = Len(b) + 1
      /\ \A i \in 1 .. Len(b) + 1 : t[i] = Append(b, p)[i].id
  BY <1>1, IdsOf
<1> HIDE DEF s, t
<1>3. Len(t) = Len(s) + 1 /\ t[Len(s) + 1] = x /\ \A i \in 1 .. Len(s) : t[i] = s[i]
  <2>1. Len(b) + 1 \in 1 .. Len(b) + 1 /\ \A i \in 1 .. Len(b) : i \in 1 .. Len(b) + 1
    BY <1>1
  <2>2. t[Len(b) + 1] = p.id
    BY <1>1, <1>2, <2>1
  <2>3. \A i \in 1 .. Len(b) : t[i] = b[i].id
    BY <1>1, <1>2, <2>1
  <2> QED
    BY <1>2, <2>2, <2>3
<1>4. x \in Int /\ s \in Seq(Int) /\ t \in Seq(Int)
  BY <1>2 DEF Packet
<1> HIDE DEF x
<1>5. t = s \o <<x>>
  BY <1>3, <1>4, LastOn
<1> QED
  BY <1>5 DEF s, t, x

\* One element moves from the head of one sequence to the end of another.
LEMMA Moved ==
    ASSUME NEW s \in Seq(Int), NEW d \in Seq(Int), NEW b \in Seq(Int), NEW x \in Int
    PROVE  (s \o (d \o <<x>>)) \o b = (s \o d) \o (<<x>> \o b)
<1> DEFINE h  == <<x>>
           dh == d \o h
           hb == h \o b
<1>1. h \in Seq(Int)
  OBVIOUS
<1> HIDE DEF h
<1>2. dh \in Seq(Int) /\ hb \in Seq(Int)
  BY <1>1, Joined
<1>3. dh \o b = d \o hb
  BY <1>1, Associative
<1> HIDE DEF dh, hb
<1>4. (s \o dh) \o b = s \o (dh \o b)
  BY <1>2, Associative, ZenonT(30)
<1>5. (s \o d) \o hb = s \o (d \o hb)
  BY <1>2, Associative, ZenonT(30)
<1> QED
  BY <1>3, <1>4, <1>5 DEF h, dh, hb

\* A sequence without one of its elements.
LEMMA Shortened ==
    ASSUME NEW u \in Seq(Int), NEW v \in Seq(Int), NEW x \in Int, NEW n \in Int,
           UpTo(u \o (<<x>> \o v), n)
    PROVE  /\ UpTo(u \o v, n)
           /\ Len(u \o v) = Len(u \o (<<x>> \o v)) - 1
<1> DEFINE w == u \o (<<x>> \o v)
           z == u \o v
           at(i) == IF i <= Len(u) THEN i ELSE i + 1
<1>1. /\ Len(u) \in Nat /\ Len(v) \in Nat
      /\ w \in Seq(Int) /\ Len(w) = Len(u) + Len(v) + 1
      /\ z \in Seq(Int) /\ Len(z) = Len(u) + Len(v)
  OBVIOUS
<1>2. \A i \in 1 .. Len(u) + Len(v) : z[i] = w[at(i)]
  OBVIOUS
<1> HIDE DEF w, z
<1>3. DOMAIN z = 1 .. Len(u) + Len(v) /\ DOMAIN w = 1 .. Len(u) + Len(v) + 1
  BY <1>1
<1> DEFINE m == Len(u)
           k == Len(v)
<1>9. m \in Nat /\ k \in Nat /\ DOMAIN z = 1 .. m + k /\ DOMAIN w = 1 .. m + k + 1
  BY <1>1, <1>3
<1> HIDE DEF m, k
<1>4. \A i \in DOMAIN z : at(i) \in DOMAIN w
  BY <1>9 DEF m
<1>5. \A i, j \in DOMAIN z : i < j => at(i) < at(j)
  BY <1>9 DEF m
<1>6. Increasing(w) /\ \A i \in DOMAIN w : w[i] <= n
  BY DEF w, UpTo
<1> HIDE DEF at
<1>7. Increasing(z)
  <2>1. \A i, j \in DOMAIN z : i < j => w[at(i)] < w[at(j)]
    BY <1>4, <1>5, <1>6 DEF Increasing
  <2> QED
    BY <1>2, <1>3, <2>1 DEF Increasing
<1>8. \A i \in DOMAIN z : z[i] <= n
  BY <1>2, <1>3, <1>4, <1>6
<1> QED
  BY <1>1, <1>7, <1>8 DEF w, z, UpTo

\* A sequence that goes on above all its elements.
LEMMA Extended ==
    ASSUME NEW w \in Seq(Int), NEW n \in Int, NEW k \in Nat, NEW b \in Seq(Int),
           UpTo(w, n), Len(b) = k, From(b, n)
    PROVE  UpTo(w \o b, n + k) /\ Len(w \o b) = Len(w) + k
<1>0. (\A i \in 1 .. k : b[i] = n + i) /\ Increasing(w) /\ \A i \in DOMAIN w : w[i] <= n
  <2>1. DOMAIN b = 1 .. k
    OBVIOUS
  <2> QED
    BY <2>1 DEF UpTo, From
<1> DEFINE z == w \o b
<1>5. /\ Len(w) \in Nat /\ z \in Seq(Int) /\ Len(z) = Len(w) + k
      /\ \A i \in 1 .. Len(w) + k : z[i] = IF i <= Len(w) THEN w[i] ELSE b[i - Len(w)]
  BY Joined
<1> HIDE DEF z
<1>1. /\ Len(w) \in Nat /\ z \in Seq(Int) /\ Len(z) = Len(w) + k
      /\ \A i \in 1 .. Len(w) + k : z[i] = IF i <= Len(w) THEN w[i] ELSE n + (i - Len(w))
  <2>1. \A i \in 1 .. Len(w) + k : ~(i <= Len(w)) => i - Len(w) \in 1 .. k
    BY <1>5
  <2> QED
    BY <1>0, <1>5, <2>1
<1>2. DOMAIN z = 1 .. Len(w) + k /\ DOMAIN w = 1 .. Len(w)
  BY <1>1
<1>3. ASSUME NEW i \in DOMAIN z PROVE z[i] <= n + k
  <2>1. i \in 1 .. Len(w) + k
    BY <1>2
  <2>2. CASE i <= Len(w)
    <3>1. z[i] = w[i] /\ i \in DOMAIN w
      BY <1>1, <1>2, <2>1, <2>2
    <3>2. w[i] <= n
      BY <1>0, <3>1
    <3> QED
      BY <1>0, <3>1, <3>2
  <2>3. CASE ~(i <= Len(w))
    <3>1. z[i] = n + (i - Len(w))
      BY <1>1, <2>1, <2>3
    <3> QED
      BY <1>0, <1>1, <2>1, <3>1
  <2> QED
    BY <2>2, <2>3
<1>4. Increasing(z)
  <2> SUFFICES ASSUME NEW i \in DOMAIN z, NEW j \in DOMAIN z, i < j
               PROVE  z[i] < z[j]
    BY DEF Increasing
  <2>1. CASE j <= Len(w)
    <3>1. i \in DOMAIN w /\ j \in DOMAIN w /\ z[i] = w[i] /\ z[j] = w[j]
      BY <1>1, <1>2, <2>1
    <3> QED
      BY <1>0, <3>1 DEF Increasing
  <2>2. CASE j > Len(w) /\ i <= Len(w)
    <3>1. i \in DOMAIN w /\ z[i] = w[i] /\ z[j] = n + (j - Len(w))
      BY <1>1, <1>2, <2>2
    <3> QED
      BY <1>0, <1>1, <1>2, <2>2, <3>1, SMTT(30)
  <2>3. CASE i > Len(w)
    BY <1>1, <1>2, <2>3
  <2> QED
    BY <1>1, <1>2, <2>1, <2>2, <2>3
<1> QED
  BY <1>1, <1>3, <1>4 DEF z, UpTo

\* What a step of thread_up does to the packets on their way.
LEMMA AllStep ==
    ASSUME Types, Shape, UpNext
    PROVE  \/ All' = All /\ UNCHANGED <<fetched, skipped>>
           \/ \E n \in Nat : \E b \in Seq(Int) :
                 /\ All' = All \o b /\ Len(b) = n /\ From(b, fetched)
                 /\ fetched' = fetched + n /\ UNCHANGED skipped
           \/ \E u, v \in Seq(Int) : \E x \in Int :
                 /\ All = u \o (<<x>> \o v) /\ All' = u \o v
                 /\ skipped' = skipped + 1 /\ UNCHANGED fetched
<1> DEFINE s == sent.packets
           d == Ids(up.dgram.packets)
           b == Ids(up.batch)
<1>1. /\ up.batch \in Seq(Packet) /\ up.dgram.packets \in Seq(Packet)
      /\ s \in Seq(Int) /\ d \in Seq(Int) /\ b \in Seq(Int) /\ fetched \in Nat
  <2>1. up.batch \in Seq(Packet) /\ up.dgram.packets \in Seq(Packet)
    BY DEF Types, UpType
  <2> QED
    BY <2>1, IdsOf DEF Types, SentType, CountType
<1>2. \A q : Ids(q) = [i \in DOMAIN q |-> q[i].id]
  BY DEF Ids
<1>3. Ids(<<>>) = <<>>
  <2>1. <<>> \in Seq(Packet) /\ Len(<<>>) = 0
    OBVIOUS
  <2>2. Ids(<<>>) \in Seq(Int) /\ Len(Ids(<<>>)) = 0
    BY <2>1, IdsOf
  <2> QED
    BY <2>2
<1>4. s \o <<>> = s /\ (s \o d) \o <<>> = s \o d
  BY <1>1
<1>5. CASE Fetch
  <2>1. PICK n \in 0 .. Min({MaxFetch, MaxPackets - fetched}) : \E kinds \in [1 .. n -> Kinds] :
          /\ up' = [up EXCEPT !.pc = "look",
                 !.batch = [i \in 1 .. n |-> [id |-> fetched + i, kind |-> kinds[i]]]]
          /\ fetched' = fetched + n
    BY <1>5 DEF Fetch
  <2>2. PICK kinds \in [1 .. n -> Kinds] :
          /\ up' = [up EXCEPT !.pc = "look",
                 !.batch = [i \in 1 .. n |-> [id |-> fetched + i, kind |-> kinds[i]]]]
          /\ fetched' = fetched + n
    BY <2>1
  <2> DEFINE q == [i \in 1 .. n |-> [id |-> fetched + i, kind |-> kinds[i]]]
             r == Ids(q)
  <2>3. n \in Nat /\ up.pc = "fetch" /\ UNCHANGED <<sent, skipped>>
    BY <1>5, <2>1 DEF Fetch
  <2>4. DOMAIN q = 1 .. n /\ \A i \in 1 .. n : q[i].id = fetched + i
    OBVIOUS
  <2>5. up'.batch = q /\ up'.pc = "look" /\ up'.dgram = up.dgram
    BY <2>2 DEF Types, UpType
  <2> HIDE DEF q
  <2>6. r = [i \in 1 .. n |-> fetched + i]
    BY <2>4 DEF Ids
  <2>7. r \in Seq(Int) /\ Len(r) = n /\ From(r, fetched)
    <3>1. \A i \in 1 .. n : fetched + i \in Int
      BY <1>1, <2>3
    <3> QED
      BY <2>3, <2>6, <3>1 DEF From
  <2>8. b = <<>>
    BY <1>3, <2>3 DEF Shape
  <2>9. All = (s \o d) \o <<>>
    BY <2>3, <2>8 DEF All, InHand
  <2>10. All' = (s \o d) \o r
    BY <2>3, <2>5 DEF All, InHand
  <2> HIDE DEF r
  <2> QED
    BY <1>4, <2>2, <2>3, <2>7, <2>9, <2>10
<1>6. CASE Serialise
  <2> DEFINE p == Head(up.batch)
             t == Tail(up.batch)
             x == p.id
             v == Ids(t)
  <2>1. /\ up.pc = "serialise" /\ up.batch # <<>> /\ UNCHANGED <<fetched, sent>>
    BY <1>6 DEF Serialise
  <2>2. /\ x \in Int /\ t \in Seq(Packet) /\ v \in Seq(Int) /\ b = <<x>> \o v /\ p \in Packet
    BY <1>1, <2>1, IdsTail, TakenPacket
  <2>3. All = (s \o d) \o b
    BY <2>1 DEF All, InHand
  <2>4. CASE ~Forwarded(p.kind)
    <3>1. up' = [up EXCEPT !.batch = t] /\ skipped' = skipped + 1
      BY <1>6, <2>4 DEF Serialise
    <3>2. up'.pc = "serialise" /\ up'.batch = t /\ up'.dgram = up.dgram
      BY <2>1, <3>1 DEF Types, UpType
    <3>3. All' = (s \o d) \o v
      BY <2>1, <3>2 DEF All, InHand
    <3>4. s \o d \in Seq(Int)
      BY <1>1, Joined
    <3> DEFINE u == s \o d
    <3>5. u \in Seq(Int) /\ All = u \o (<<x>> \o v) /\ All' = u \o v
      BY <2>2, <2>3, <3>3, <3>4
    <3> HIDE DEF u, x, v
    <3> QED
      BY <2>1, <2>2, <3>1, <3>5
  <2>5. CASE Forwarded(p.kind) /\ Encodable(p.kind)
    <3>1. /\ up' = [up EXCEPT !.batch = t, !.dgram.packets = Append(@, p)]
          /\ UNCHANGED skipped
      BY <1>6, <2>5 DEF Serialise
    <3>2. /\ up'.pc = "serialise" /\ up'.batch = t
          /\ up'.dgram.packets = Append(up.dgram.packets, p)
      BY <2>1, <3>1 DEF Types, UpType
    <3>3. Ids(up'.dgram.packets) = d \o <<x>>
      BY <1>1, <2>2, <3>2, IdsAppend
    <3>4. All' = (s \o (d \o <<x>>)) \o v
      BY <2>1, <3>2, <3>3 DEF All, InHand
    <3>5. All' = (s \o d) \o (<<x>> \o v)
      <4> HIDE DEF s, d, x, v
      <4> QED
        BY <1>1, <2>2, <3>4, Moved, ZenonT(40)
    <3> QED
      BY <2>1, <2>2, <2>3, <3>1, <3>5
  <2>6. CASE Forwarded(p.kind) /\ ~Encodable(p.kind)
    <3>1. up' = [up EXCEPT !.pc = "exit"] /\ UNCHANGED skipped
      BY <1>6, <2>6 DEF Serialise
    <3>2. up'.pc = "exit" /\ up'.batch = up.batch /\ up'.dgram = up.dgram
      BY <3>1 DEF Types, UpType
    <3>3. All' = (s \o d) \o b
      BY <2>1, <3>2 DEF All, InHand
    <3> QED
      BY <2>1, <2>3, <3>1, <3>3
  <2> QED
    BY <2>4, <2>5, <2>6
<1>7. CASE Send
  <2>1. up.pc = "send" /\ sent'.packets = s \o d /\ UNCHANGED <<fetched, skipped>>
    BY <1>7 DEF Send, Ids
  <2>2. PICK t \in Tokens : up' = [up EXCEPT !.pc = "count", !.token = t]
    BY <1>7 DEF Send
  <2>3. up'.pc = "count" /\ up'.batch = up.batch
    BY <2>2 DEF Types, UpType
  <2>4. All = (s \o d) \o b /\ All' = ((s \o d) \o <<>>) \o b
    BY <2>1, <2>3 DEF All, InHand
  <2> QED
    BY <1>4, <2>1, <2>4
<1>8. CASE CountSent
  <2>1. /\ up.pc = "count" /\ up' = [up EXCEPT !.pc = "await", !.tries = 0, !.dgram = Empty]
        /\ UNCHANGED <<fetched, skipped, sent>>
    BY <1>8 DEF CountSent
  <2>2. up'.pc = "await" /\ up'.batch = up.batch /\ up'.dgram.packets = <<>>
    BY <2>1 DEF Types, UpType, Empty
  <2>3. All = (s \o <<>>) \o b /\ All' = (s \o <<>>) \o b
    BY <1>3, <2>1, <2>2 DEF All, InHand
  <2> QED
    BY <2>1, <2>3
<1>9. CASE \/ FetchFails \/ Look \/ Skip \/ CopyReport \/ Complete \/ AwaitInVain \/ AwaitFails
           \/ UpEnds \/ \E t \in Tokens : ReceiveAck(t)
  <2>2. UNCHANGED <<fetched, skipped, sent>>
    BY <1>9 DEF FetchFails, Look, Skip, CopyReport, Complete, AwaitInVain, AwaitFails, UpEnds,
       ReceiveAck
  <2>3. /\ up.pc # "count" /\ up'.pc # "count" /\ up'.batch = up.batch
        /\ up'.dgram.packets = up.dgram.packets
    <3>1. CASE FetchFails \/ Look \/ Skip \/ Complete \/ UpEnds
      BY <3>1 DEF FetchFails, Look, Skip, Complete, UpEnds, Types, UpType
    <3>2. CASE CopyReport
      BY <3>2 DEF CopyReport, Types, UpType
    <3>3. CASE AwaitInVain \/ AwaitFails \/ \E t \in Tokens : ReceiveAck(t)
      <4>1. up.pc = "await" /\ (up' = Done \/ up' = NextTry)
        BY <3>3 DEF AwaitInVain, AwaitFails, ReceiveAck
      <4>2. \/ up' = [up EXCEPT !.pc = "fetch", !.send_report = FALSE, !.tries = 0, !.token = NoToken]
            \/ up' = [up EXCEPT !.tries = @ + 1]
        BY <4>1 DEF NextTry, Done
      <4> QED
        BY <4>1, <4>2 DEF Types, UpType
    <3> QED
      BY <1>9, <3>1, <3>2, <3>3
  <2>1. /\ UNCHANGED <<fetched, skipped, sent>>
        /\ up.pc # "count" /\ up'.pc # "count" /\ up'.batch = up.batch
        /\ up'.dgram.packets = up.dgram.packets
    BY <2>2, <2>3
  <2> QED
    BY <2>1 DEF All, InHand
<1> QED
  BY <1>5, <1>6, <1>7, <1>8, <1>9 DEF UpNext

\* They are numbers.
LEMMA AllType ==
    ASSUME Types
    PROVE  All \in Seq(Int) /\ fetched \in Int /\ skipped \in Int
<1>1. up.batch \in Seq(Packet) /\ up.dgram.packets \in Seq(Packet) /\ sent.packets \in Seq(Int)
  BY DEF Types, UpType, SentType
<1>2. Ids(up.batch) \in Seq(Int) /\ Ids(up.dgram.packets) \in Seq(Int) /\ <<>> \in Seq(Int)
  BY <1>1, IdsOf
<1>3. InHand \in Seq(Int)
  BY <1>2 DEF InHand
<1>4. sent.packets \o InHand \in Seq(Int)
  BY <1>1, <1>3, Joined
<1>5. (sent.packets \o InHand) \o Ids(up.batch) \in Seq(Int)
  BY <1>2, <1>4, Joined
<1> QED
  BY <1>5 DEF All, Types, CountType

\* Every step keeps them in order.
LEMMA NextOrdered ==
    ASSUME Types, Shape, Ordered, [Next]_vars
    PROVE  Ordered'
<1>1. /\ All \in Seq(Int) /\ fetched \in Int /\ skipped \in Int /\ Len(All) \in Nat
      /\ UpTo(All, fetched) /\ Len(All) + skipped = fetched
  BY AllType DEF Ordered
<1>2. CASE All' = All /\ UNCHANGED <<fetched, skipped>>
  BY <1>1, <1>2 DEF Ordered, UpTo, Increasing
<1>3. CASE UpNext
  <2>1. ASSUME NEW n \in Nat, NEW b \in Seq(Int), All' = All \o b, Len(b) = n,
               From(b, fetched), fetched' = fetched + n, UNCHANGED skipped
        PROVE  Ordered'
    <3>1. UpTo(All \o b, fetched + n) /\ Len(All \o b) = Len(All) + n
      BY <1>1, <2>1, Extended
    <3>2. UpTo(All', fetched') /\ Len(All') = Len(All) + n
      BY <2>1, <3>1
    <3>3. Len(All') + skipped' = fetched'
      <4>1. fetched' = fetched + n /\ skipped' = skipped /\ Len(All') = Len(All) + n
        BY <2>1, <3>2
      <4>2. Len(All) \in Nat /\ skipped \in Int /\ fetched \in Int /\ Len(All) + skipped = fetched
        BY <1>1
      <4>3. PICK l \in Nat, g \in Int, h \in Int : l = Len(All) /\ g = skipped /\ h = fetched /\ l + g = h
        BY <4>2
      <4>4. Len(All') = l + n /\ skipped' = g /\ fetched' = h + n
        BY <4>1, <4>3
      <4>5. (l + n) + g = h + n
        BY <4>3
      <4> QED
        BY <4>4, <4>5
    <3> QED
      BY <3>2, <3>3 DEF Ordered, UpTo, Increasing
  <2>2. ASSUME NEW u \in Seq(Int), NEW v \in Seq(Int), NEW x \in Int,
               All = u \o (<<x>> \o v), All' = u \o v,
               skipped' = skipped + 1, UNCHANGED fetched
        PROVE  Ordered'
    <3>1. UpTo(u \o v, fetched) /\ Len(u \o v) = Len(All) - 1
      BY <1>1, <2>2, Shortened
    <3>2. UpTo(All', fetched') /\ Len(All') = Len(All) - 1
      BY <2>2, <3>1
    <3>3. Len(All') + skipped' = fetched'
      BY <1>1, <2>2, <3>2
    <3> QED
      BY <3>2, <3>3 DEF Ordered, UpTo, Increasing
  <2> QED
    BY <1>2, <1>3, <2>1, <2>2, AllStep
<1>4. CASE ~UpNext
  <2>1. UNCHANGED <<up, sent, fetched, skipped>>
    BY <1>4 DEF Next, MainNext, IntervalOver, CopyCounters, WriteReport, ServerHears,
       ExitSignal, vars
  <2>2. All' = All
    BY <2>1 DEF All, InHand, Ids
  <2> QED
    BY <1>2, <2>1, <2>2
<1> QED
  BY <1>3, <1>4

\* Nothing is on its way at the start.
LEMMA InitOrdered == Init => Ordered
<1> SUFFICES ASSUME Init PROVE Ordered
  OBVIOUS
<1>1. up.batch = <<>> /\ up.dgram.packets = <<>> /\ sent.packets = <<>>
      /\ fetched = 0 /\ skipped = 0 /\ up.pc = "fetch"
  BY DEF Init, Empty
<1>2. <<>> \in Seq(Packet) /\ Len(<<>>) = 0
  OBVIOUS
<1>3. Ids(<<>>) = <<>>
  <2>1. Ids(<<>>) \in Seq(Int) /\ Len(Ids(<<>>)) = 0
    BY <1>2, IdsOf
  <2> QED
    BY <2>1
<1>4. All = (<<>> \o <<>>) \o <<>>
  BY <1>1, <1>3 DEF All, InHand
<1>5. All = <<>>
  BY <1>4
<1>6. Len(All) = 0 /\ DOMAIN All = {}
  BY <1>5
<1> QED
  BY <1>1, <1>6 DEF Ordered, UpTo, Increasing

\* Packets leave in the order the concentrator received them, none twice, and each one
\* fetched waits, is sent, or was filtered out, for every batch size and number of packets.
THEOREM PacketsAlwaysInOrder == Spec => []PacketsInOrder
<1>1. Init => Types /\ Shape /\ Ordered
  BY InitTypes, InitOrdered
<1>2. Types /\ Shape /\ Ordered /\ [Next]_vars => Types' /\ Shape' /\ Ordered'
  BY NextTypes, NextOrdered
<1>3. Ordered => PacketsInOrder
  BY DEF Ordered, UpTo, PacketsInOrder, All, InHand
<1> QED
  BY <1>1, <1>2, <1>3, PTL DEF Spec
=============================================================================
