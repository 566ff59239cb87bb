---------------------------- MODULE DownlinkProofs ----------------------------
(***************************************************************************)
(* The bookkeeping of Downlink.  Each of the four sums is disturbed at two *)
(* steps, the one that does a thing and the one that counts it, and what   *)
(* is in between is told by where thread_down is and by the result it      *)
(* holds there (Shape).  That the gateway quits only in silence rests on   *)
(* the count of thread_down being the number of its unanswered PULL_DATA   *)
(* (CountIsSilence).                                                       *)
(***************************************************************************)
EXTENDS Downlink, TLAPS

\* The result thread_down may hold at each place.
Shape ==
    /\ down.pc = "checked" => Accepted(down.result)
    /\ down.pc = "enqueued" => Accepted(down.result) \/ down.result \in Refusals

CountIsSilence ==
    /\ down.autoquit = silence
    /\ down.req_ack => down.autoquit = 0

Inv ==
    /\ TypeOK /\ Shape /\ CountIsSilence
    /\ AnswersTrue /\ DatagramsAnswered /\ RequestsAddUp /\ EmissionsAddUp
    /\ QuitOnlyInSilence

-----------------------------------------------------------------------------
(* Counting.                                                                 *)

\* The errors that are counted are counters of the report and answers of thread_down.
LEMMA CountersAre ==
    /\ CountedErrors \subseteq Counters /\ CountedErrors \subseteq Answers
    /\ \A e \in CountedErrors : e \in {"TOO_LATE", "TOO_EARLY", "COLLISION_PACKET",
                                       "COLLISION_BEACON"}
    /\ {"dgram_rcv", "tx_requested", "tx_ok", "tx_fail"} \subseteq Counters
    /\ {"OK", "TX_POWER", "TX_FREQ", "GPS_UNLOCKED"} \subseteq Answers
BY DEF CountedErrors, Counters, Answers

\* Counting one thing changes its total by one, and no other.
LEMMA CountOne ==
    ASSUME TypeOK, NEW c \in Counters, Count(c), reported' = reported
    PROVE  /\ meas' \in [Counters -> Nat]
           /\ Total(c)' = Total(c) + 1
           /\ \A d \in Counters \ {c} : Total(d)' = Total(d)
<1>1. meas \in [Counters -> Nat] /\ reported \in [Counters -> Nat]
  BY DEF TypeOK
<1>2. meas' = [meas EXCEPT ![c] = meas[c] + 1]
  BY DEF Count
<1>3. meas' \in [Counters -> Nat] /\ meas'[c] = meas[c] + 1
  BY <1>1, <1>2
<1>4. \A d \in Counters \ {c} : meas'[d] = meas[d]
  BY <1>1, <1>2
<1>5. Total(c)' = Total(c) + 1
  BY <1>1, <1>3 DEF Total
<1>6. \A d \in Counters \ {c} : Total(d)' = Total(d)
  BY <1>4 DEF Total
<1> QED
  BY <1>3, <1>5, <1>6

\* What the sums are made of are numbers.
LEMMA SumsAreNat ==
    ASSUME TypeOK
    PROVE  /\ \A c \in Counters : Total(c) \in Nat
           /\ Rejected \in Nat
           /\ \A a \in Answers : answered[a] \in Nat
           /\ answered["OK"] \in Nat /\ answered["TX_POWER"] \in Nat
           /\ answered["TX_FREQ"] \in Nat
<1>1. \A c \in Counters : Total(c) \in Nat
  BY DEF TypeOK, Total
<1>2. Rejected \in Nat
  BY <1>1, CountersAre DEF Rejected, CountedErrors
<1> QED
  BY <1>1, <1>2, CountersAre DEF TypeOK

\* When the counters stay as they are, so do the totals.
LEMMA CountNothing ==
    ASSUME UNCHANGED <<meas, reported>>
    PROVE  \A c \in Counters : Total(c)' = Total(c)
BY DEF Total

\* A report moves what was counted, and loses nothing.
LEMMA ReportMoves ==
    ASSUME TypeOK, Report
    PROVE  /\ meas' \in [Counters -> Nat] /\ reported' \in [Counters -> Nat]
           /\ \A c \in Counters : Total(c)' = Total(c)
<1>1. meas \in [Counters -> Nat] /\ reported \in [Counters -> Nat]
  BY DEF TypeOK
<1>2. /\ meas' = [c \in Counters |-> 0]
      /\ reported' = [c \in Counters |-> reported[c] + meas[c]]
  BY DEF Report
<1>3. meas' \in [Counters -> Nat] /\ reported' \in [Counters -> Nat]
  BY <1>1, <1>2
<1>4. \A c \in Counters : reported'[c] + meas'[c] = reported[c] + meas[c]
  BY <1>1, <1>2
<1> QED
  BY <1>3, <1>4 DEF Total

\* The sums only depend on the totals, the histories and where the tasks are.
LEMMA SumsKept ==
    ASSUME Inv, \A c \in Counters \ {"tx_ok", "tx_fail"} : Total(c)' = Total(c),
           UNCHANGED <<answered, accepted>>,
           \/ UNCHANGED <<down.pc, down.result>>
           \/ /\ down.pc \in {"pull", "listen", "ended"}
              /\ down'.pc \in {"pull", "listen", "ended"}
    PROVE  AnswersTrue' /\ DatagramsAnswered' /\ RequestsAddUp'
<1>1. Rejected' = Rejected
  BY CountersAre DEF Rejected, CountedErrors
<1>2. AnswersTrue'
  BY CountersAre DEF Inv, AnswersTrue, One
<1>3. DatagramsAnswered'
  BY <1>1, CountersAre DEF Inv, DatagramsAnswered, One
<1>4. RequestsAddUp'
  BY <1>1, CountersAre DEF Inv, RequestsAddUp, One
<1> QED
  BY <1>2, <1>3, <1>4
-----------------------------------------------------------------------------
(* The first state, and each task's steps.                                   *)

\* At the start nothing has been asked for, answered or counted.
LEMMA InitInv == Init => Inv
<1> SUFFICES ASSUME Init PROVE Inv
  OBVIOUS
<1>1. TypeOK
  <2>1. (CHOOSE t \in Tokens : TRUE) \in Tokens
    BY DownlinkAssumption
  <2>2. down \in DownType
    BY <2>1, DownlinkAssumption DEF Init, DownType, Answers
  <2>3. meas \in [Counters -> Nat] /\ reported \in [Counters -> Nat]
    BY DEF Init
  <2>4. answered \in [Answers -> Nat]
    BY DEF Init
  <2> QED
    <3>1. queued \in 0 .. QueueSize /\ silence \in 0 .. AutoquitThreshold
      BY DownlinkAssumption DEF Init
    <3>2. acks \subseteq Tokens /\ resps \subseteq Requests /\ exit_sig \in BOOLEAN
      BY DEF Init
    <3>3. jit \in {"idle", "hand", "tx_ok", "tx_fail"}
      BY DEF Init
    <3>4. reports \in Nat /\ accepted \in Nat /\ missed \in Nat /\ taken \in Nat
      BY DEF Init
    <3> QED
      BY <2>2, <2>3, <2>4, <3>1, <3>2, <3>3, <3>4 DEF TypeOK
<1>2. Shape /\ CountIsSilence /\ QuitOnlyInSilence
  BY DEF Init, Shape, CountIsSilence, QuitOnlyInSilence
<1>3. \A c \in Counters : Total(c) = 0
  BY DEF Init, Total
<1>4. Rejected = 0 /\ Total("tx_ok") = 0 /\ Total("tx_fail") = 0
        /\ Total("tx_requested") = 0 /\ Total("dgram_rcv") = 0
  BY <1>3, CountersAre DEF Rejected, CountedErrors
<1>5. \A a \in Answers : answered[a] = 0
  BY DEF Init
<1>6. answered["OK"] = 0 /\ answered["TX_POWER"] = 0 /\ answered["TX_FREQ"] = 0
  BY <1>5, CountersAre
<1>7. AnswersTrue
  BY <1>3, <1>5, <1>6, CountersAre DEF Init, AnswersTrue, One
<1>8. DatagramsAnswered /\ RequestsAddUp
  BY <1>4, <1>6 DEF Init, DatagramsAnswered, RequestsAddUp, One
<1>9. EmissionsAddUp
  BY <1>4 DEF Init, EmissionsAddUp, One
<1> QED
  BY <1>1, <1>2, <1>7, <1>8, <1>9 DEF Inv

\* A PULL_ACK in time only sets its mark and resets the count.
LEMMA AckedDown ==
    ASSUME NEW d \in DownType
    PROVE  LET e == [d EXCEPT !.req_ack = TRUE, !.autoquit = 0] IN
              e \in DownType /\ e.pc = d.pc /\ e.autoquit = 0
<1> DEFINE m == [d EXCEPT !.autoquit = 0]
           e == [d EXCEPT !.req_ack = TRUE, !.autoquit = 0]
<1>1. m \in DownType /\ m.pc = d.pc /\ m.autoquit = 0
  BY DownlinkAssumption DEF DownType
<1>2. e = [m EXCEPT !.req_ack = TRUE]
  BY DEF DownType
<1> HIDE DEF m
<1>3. [m EXCEPT !.req_ack = TRUE] \in DownType /\ [m EXCEPT !.req_ack = TRUE].pc = m.pc
        /\ [m EXCEPT !.req_ack = TRUE].autoquit = m.autoquit
  BY <1>1 DEF DownType
<1> QED
  BY <1>1, <1>2, <1>3

\* The network, and the steps of the keepalive, leave every sum alone.
LEMMA KeepaliveInv ==
    ASSUME Inv,
           \/ Environment \/ Autoquit \/ SendPull \/ KeepaliveOver
           \/ \E t \in Tokens : ReceiveAck(t)
    PROVE  Inv'
<1> DEFINE Same == UNCHANGED <<queued, jit, meas, reported, reports, answered, accepted,
                               missed, taken>>
<1>1. TypeOK /\ AutoquitThreshold \in Nat
  BY DownlinkAssumption DEF Inv
<1>2. CASE Environment
  <2>1. Same /\ UNCHANGED <<down, exit_sig, silence>>
    BY <1>2 DEF Environment, Lost, ServerResponds, history
  <2>2. acks' \subseteq Tokens /\ resps' \subseteq Requests
    BY <1>1, <1>2 DEF Environment, Lost, ServerResponds, TypeOK
  <2>3. TypeOK'
    BY <1>1, <2>1, <2>2 DEF TypeOK
  <2>4. Shape' /\ CountIsSilence' /\ QuitOnlyInSilence'
    BY <2>1 DEF Inv, Shape, CountIsSilence, QuitOnlyInSilence
  <2>5. AnswersTrue' /\ DatagramsAnswered' /\ RequestsAddUp' /\ EmissionsAddUp'
    BY <2>1, CountNothing, SumsKept, CountersAre DEF EmissionsAddUp, Inv, One
  <2> QED
    BY <2>3, <2>4, <2>5 DEF Inv
<1>3. CASE Autoquit \/ SendPull \/ KeepaliveOver \/ \E t \in Tokens : ReceiveAck(t)
  <2>1. Same /\ resps' = resps
    BY <1>3 DEF Autoquit, SendPull, KeepaliveOver, ReceiveAck, network, history
  <2>2. /\ down.pc \in {"pull", "listen", "ended"}
        /\ down'.pc \in {"pull", "listen", "ended"}
    <3>1. down \in DownType
      BY <1>1 DEF TypeOK
    <3>2. CASE Autoquit \/ SendPull \/ KeepaliveOver
      BY <3>1, <3>2 DEF Autoquit, SendPull, KeepaliveOver, DownType
    <3>3. CASE \E t \in Tokens : ReceiveAck(t)
      <4>1. down.pc = "listen"
        BY <3>3 DEF ReceiveAck
      <4>2. \/ down' = down
            \/ down' = [down EXCEPT !.req_ack = TRUE, !.autoquit = 0]
        BY <3>3 DEF ReceiveAck
      <4>3. down'.pc = down.pc
        BY <3>1, <4>2, AckedDown
      <4> QED
        BY <4>1, <4>3
    <3> QED
      BY <1>3, <3>2, <3>3
  <2> DEFINE Stays == /\ acks' \subseteq Tokens /\ exit_sig' \in BOOLEAN
                      /\ silence' \in 0 .. AutoquitThreshold
                      /\ down' \in DownType
                      /\ CountIsSilence' /\ QuitOnlyInSilence'
  <2>3. /\ acks \subseteq Tokens /\ exit_sig \in BOOLEAN
        /\ silence \in 0 .. AutoquitThreshold /\ down \in DownType
        /\ CountIsSilence /\ QuitOnlyInSilence
    BY <1>1 DEF Inv, TypeOK, DownType
  <2>4. ASSUME Autoquit PROVE Stays
    <3>1. exit_sig' /\ AutoquitThreshold > 0 /\ down.autoquit >= AutoquitThreshold
      BY <2>4 DEF Autoquit, Over
    <3>2. acks' = acks /\ silence' = silence /\ down' = [down EXCEPT !.pc = "ended"]
      BY <2>4 DEF Autoquit, network, history
    <3>3. silence = AutoquitThreshold
      BY <1>1, <2>3, <3>1 DEF CountIsSilence
    <3>4. down' \in DownType
      BY <2>3, <3>2 DEF DownType
    <3> QED
      BY <2>3, <2>4, <3>1, <3>2, <3>3, <3>4
      DEF Autoquit, CountIsSilence, QuitOnlyInSilence, DownType
  <2>5. ASSUME SendPull PROVE Stays
    <3>1. PICK t \in Tokens :
            /\ acks' = acks \cup {t}
            /\ down' = [down EXCEPT !.pc = "listen", !.token = t, !.req_ack = FALSE,
                                    !.autoquit = OneMore(@)]
      BY <2>5 DEF SendPull
    <3>2. silence' = OneMore(silence) /\ exit_sig' = exit_sig /\ ~exit_sig
      BY <2>5 DEF SendPull
    <3>3. OneMore(down.autoquit) \in 0 .. AutoquitThreshold
      BY <1>1, <2>3 DEF OneMore, DownType
    <3>4. down' \in DownType
      BY <2>3, <3>1, <3>3 DEF DownType
    <3>5. CountIsSilence'
      BY <2>3, <3>1, <3>2 DEF CountIsSilence, DownType
    <3>6. silence' \in 0 .. AutoquitThreshold
      BY <2>3, <3>2, <3>3 DEF CountIsSilence
    <3> QED
      BY <2>3, <3>1, <3>2, <3>4, <3>5, <3>6 DEF QuitOnlyInSilence
  <2>6. ASSUME KeepaliveOver PROVE Stays
    <3>1. /\ acks' = acks /\ silence' = silence /\ exit_sig' = exit_sig
          /\ down' = [down EXCEPT !.pc = "pull"] \/ down' = [down EXCEPT !.pc = "ended"]
      BY <2>6 DEF KeepaliveOver, network, history
    <3> QED
      BY <2>3, <3>1 DEF DownType, CountIsSilence, QuitOnlyInSilence
  <2>7. ASSUME \E t \in Tokens : ReceiveAck(t) PROVE Stays
    <3>1. PICK t \in Tokens : ReceiveAck(t)
      BY <2>7
    <3>2. acks' \subseteq Tokens /\ exit_sig' = exit_sig /\ ~exit_sig
      BY <2>3, <3>1 DEF ReceiveAck, Delivered
    <3>3. CASE t = down.token
      <4>1. silence' = 0 /\ silence' \in 0 .. AutoquitThreshold
        BY <1>1, <3>1, <3>3 DEF ReceiveAck
      <4>2. CASE down.req_ack
        <5>1. down' = down
          BY <3>1, <3>3, <4>2 DEF ReceiveAck
        <5> QED
          BY <2>3, <3>2, <4>1, <4>2, <5>1 DEF CountIsSilence, QuitOnlyInSilence
      <4>3. CASE ~down.req_ack
        <5>1. down' = [down EXCEPT !.req_ack = TRUE, !.autoquit = 0]
          BY <3>1, <3>3, <4>3 DEF ReceiveAck
        <5>2. down' \in DownType /\ down'.autoquit = 0
          BY <2>3, <5>1, AckedDown
        <5> QED
          BY <2>3, <3>2, <4>1, <5>2 DEF CountIsSilence, QuitOnlyInSilence
      <4> QED
        BY <4>2, <4>3
    <3>4. CASE t # down.token
      <4>1. silence' = silence /\ down' = down
        BY <3>1, <3>4 DEF ReceiveAck
      <4> QED
        BY <2>3, <3>2, <4>1 DEF QuitOnlyInSilence, CountIsSilence
    <3> QED
      BY <3>3, <3>4
  <2>8. Stays
    BY <1>3, <2>4, <2>5, <2>6, <2>7
  <2>9. TypeOK'
    BY <1>1, <2>1, <2>8 DEF TypeOK, DownType
  <2>10. AnswersTrue' /\ DatagramsAnswered' /\ RequestsAddUp' /\ EmissionsAddUp'
    BY <2>1, <2>2, CountNothing, SumsKept, CountersAre DEF EmissionsAddUp, Inv, One
  <2>11. Shape'
    BY <2>2 DEF Shape
  <2> QED
    BY <2>8, <2>9, <2>10, <2>11 DEF Inv
<1> QED
  BY <1>2, <1>3
\* A PULL_RESP: what is counted is then being answered.
LEMMA ResponseInv ==
    ASSUME Inv, NEW r \in Requests, IgnoreResp(r) \/ RefuseGps(r) \/ TakeResp(r)
    PROVE  Inv'
<1> DEFINE Same == UNCHANGED <<acks, queued, jit, reported, reports, exit_sig, answered,
                               accepted, missed, silence>>
<1>1. TypeOK /\ down \in DownType /\ down.pc = "listen"
  BY DEF Inv, TypeOK, IgnoreResp, RefuseGps, TakeResp, Receive
<1>2. Same
  BY DEF IgnoreResp, RefuseGps, TakeResp, Receive
<1>3. resps' \subseteq Requests /\ taken' \in Nat
  <2>1. resps' \in Delivered(resps, r) /\ taken' = taken + 1
    BY DEF IgnoreResp, RefuseGps, TakeResp, Receive
  <2> QED
    BY <1>1, <2>1 DEF Delivered, TypeOK
<1>4. ASSUME down' \in DownType, meas' \in [Counters -> Nat]
      PROVE  TypeOK'
  BY <1>1, <1>2, <1>3, <1>4 DEF TypeOK
<1>5. ASSUME down'.autoquit = down.autoquit, down'.req_ack = down.req_ack
      PROVE  CountIsSilence' /\ QuitOnlyInSilence'
  BY <1>2, <1>5 DEF Inv, CountIsSilence, QuitOnlyInSilence
<1>6. ASSUME \A c \in Counters \ {"dgram_rcv"} : Total(c)' = Total(c)
      PROVE  Rejected' = Rejected /\ EmissionsAddUp' /\ Total("tx_requested")' = Total("tx_requested")
               /\ \A e \in CountedErrors : Total(e)' = Total(e)
  <2>1. \A e \in CountedErrors : e \in Counters \ {"dgram_rcv"}
    BY CountersAre
  <2>2. Total("tx_ok")' = Total("tx_ok") /\ Total("tx_fail")' = Total("tx_fail")
          /\ Total("tx_requested")' = Total("tx_requested")
    BY <1>6, CountersAre
  <2>3. Rejected' = Rejected
    BY <1>6, <2>1, CountersAre DEF Rejected, CountedErrors
  <2> QED
    BY <1>2, <1>6, <2>1, <2>2, <2>3 DEF EmissionsAddUp, Inv
<1>7. CASE IgnoreResp(r)
  <2>1. down' = down /\ meas' = meas
    BY <1>7 DEF IgnoreResp, Receive
  <2>2. \A c \in Counters : Total(c)' = Total(c)
    BY <1>2, <2>1, CountNothing
  <2>3. AnswersTrue' /\ DatagramsAnswered' /\ RequestsAddUp'
    BY <1>2, <2>1, <2>2, SumsKept
  <2>4. TypeOK'
    BY <1>1, <1>4, <2>1 DEF TypeOK
  <2>5. Shape'
    BY <2>1 DEF Inv, Shape
  <2> QED
    BY <1>5, <1>6, <2>1, <2>2, <2>3, <2>4, <2>5 DEF Inv
<1>8. CASE RefuseGps(r)
  <2>1. down' = [down EXCEPT !.pc = "answer", !.result = "GPS_UNLOCKED"] /\ meas' = meas
    BY <1>8 DEF RefuseGps, Receive
  <2>2. /\ down' \in DownType /\ down'.pc = "answer" /\ down'.result = "GPS_UNLOCKED"
        /\ down'.autoquit = down.autoquit /\ down'.req_ack = down.req_ack
    BY <1>1, <2>1, CountersAre DEF DownType
  <2>3. \A c \in Counters : Total(c)' = Total(c)
    BY <1>2, <2>1, CountNothing
  <2>4. /\ Rejected' = Rejected /\ EmissionsAddUp'
        /\ Total("tx_requested")' = Total("tx_requested")
        /\ Total("dgram_rcv")' = Total("dgram_rcv")
        /\ \A e \in CountedErrors : Total(e)' = Total(e)
    BY <1>6, <2>3, CountersAre
  <2>5. AnswersTrue'
    BY <1>1, <1>2, <2>2, <2>4 DEF Inv, AnswersTrue, One, Accepted
  <2>6. DatagramsAnswered'
    BY <1>1, <1>2, <2>2, <2>4 DEF Inv, DatagramsAnswered, One
  <2>7. RequestsAddUp'
    BY <1>1, <1>2, <2>2, <2>4 DEF Inv, RequestsAddUp, One, Refusals
  <2>8. TypeOK'
    BY <1>1, <1>4, <2>1, <2>2 DEF TypeOK
  <2>9. Shape'
    BY <2>2 DEF Shape
  <2> QED
    BY <1>5, <2>2, <2>4, <2>5, <2>6, <2>7, <2>8, <2>9 DEF Inv
<1>9. CASE TakeResp(r)
  <2>1. Count("dgram_rcv") /\ reported' = reported
    BY <1>9 DEF TakeResp, Receive
  <2>2. /\ meas' \in [Counters -> Nat]
        /\ Total("dgram_rcv")' = Total("dgram_rcv") + 1
        /\ \A d \in Counters \ {"dgram_rcv"} : Total(d)' = Total(d)
    BY <1>1, <2>1, CountersAre, CountOne
  <2>3. Warning(r) \in {"OK", "TX_POWER"}
    BY DEF Warning
  <2>4. \/ down' = [down EXCEPT !.pc = "answer", !.result = "TX_FREQ"]
        \/ down' = [down EXCEPT !.pc = "checked", !.request = r, !.result = Warning(r)]
    BY <1>9 DEF TakeResp, Receive
  <2>5. /\ down' \in DownType
        /\ down'.autoquit = down.autoquit /\ down'.req_ack = down.req_ack
        /\ \/ down'.pc = "answer" /\ down'.result = "TX_FREQ"
           \/ down'.pc = "checked" /\ down'.result \in {"OK", "TX_POWER"}
    BY <1>1, <2>3, <2>4, CountersAre, ZenonT(40) DEF DownType
  <2>6. /\ Rejected' = Rejected /\ EmissionsAddUp'
        /\ Total("tx_requested")' = Total("tx_requested")
        /\ \A e \in CountedErrors : Total(e)' = Total(e)
    BY <1>6, <2>2
  <2>7. AnswersTrue'
    BY <1>1, <1>2, <2>5, <2>6 DEF Inv, AnswersTrue, One, Accepted
  <2>8. DatagramsAnswered'
    <3>1. Total("dgram_rcv") = answered["OK"] + answered["TX_POWER"]
                                + answered["TX_FREQ"] + Rejected
      BY <1>1, SumsAreNat DEF Inv, DatagramsAnswered, One
    <3>2. Total("dgram_rcv")' = answered["OK"] + answered["TX_POWER"]
                                 + answered["TX_FREQ"] + Rejected + 1
      BY <2>2, <3>1
    <3> QED
      BY <1>2, <2>5, <2>6, <3>2 DEF DatagramsAnswered, One
  <2>9. RequestsAddUp'
    BY <1>1, <1>2, <2>5, <2>6 DEF Inv, RequestsAddUp, One, Refusals
  <2>10. TypeOK'
    BY <1>4, <2>2, <2>5
  <2>11. Shape'
    BY <2>5 DEF Shape, Accepted
  <2> QED
    BY <1>5, <2>5, <2>6, <2>7, <2>8, <2>9, <2>10, <2>11 DEF Inv
<1> QED
  BY <1>7, <1>8, <1>9
\* jit_enqueue: one packet more was accepted, or one refusal is to be counted.
LEMMA EnqueueInv == Inv /\ Enqueue => Inv'
<1> SUFFICES ASSUME Inv, Enqueue PROVE Inv'
  OBVIOUS
<1>1. TypeOK /\ down \in DownType /\ down.pc = "checked" /\ Accepted(down.result)
  BY DEF Inv, TypeOK, Enqueue, Shape
<1>2. UNCHANGED <<acks, resps, jit, meas, reported, reports, exit_sig, answered, missed,
                  silence, taken>>
  BY DEF Enqueue, network
<1>3. \A c \in Counters : Total(c)' = Total(c)
  BY <1>2, CountNothing
<1>4. Rejected' = Rejected /\ \A e \in CountedErrors : Total(e)' = Total(e)
  BY <1>3, CountersAre DEF Rejected, CountedErrors
<1>5. /\ Total("dgram_rcv")' = Total("dgram_rcv")
      /\ Total("tx_requested")' = Total("tx_requested")
      /\ Total("tx_ok")' = Total("tx_ok") /\ Total("tx_fail")' = Total("tx_fail")
  BY <1>3, CountersAre
<1>6. /\ accepted \in Nat /\ queued \in 0 .. QueueSize /\ QueueSize \in Nat
      /\ Total("tx_ok") \in Nat /\ Total("tx_fail") \in Nat
      /\ Total("tx_requested") \in Nat /\ missed \in Nat
      /\ Rejected \in Nat /\ answered["OK"] \in Nat /\ answered["TX_POWER"] \in Nat
  BY <1>1, CountersAre, SumsAreNat, DownlinkAssumption DEF TypeOK
<1>7. /\ accepted = answered["OK"] + answered["TX_POWER"]
      /\ Total("tx_requested") = accepted + Rejected
      /\ accepted = queued + One(jit # "idle") + Total("tx_ok") + Total("tx_fail") + missed
  BY <1>1, <1>6 DEF Inv, AnswersTrue, RequestsAddUp, EmissionsAddUp, One
<1>8. down.result \notin Refusals
  BY <1>1 DEF Accepted, Refusals
<1>9. CASE /\ queued < QueueSize
           /\ queued' = queued + 1 /\ accepted' = accepted + 1
           /\ down' = [down EXCEPT !.pc = "enqueued"]
  <2>1. /\ down' \in DownType /\ down'.pc = "enqueued" /\ down'.result = down.result
        /\ down'.autoquit = down.autoquit /\ down'.req_ack = down.req_ack
    BY <1>1, <1>9 DEF DownType
  <2>2. TypeOK'
    BY <1>1, <1>2, <1>6, <1>9, <2>1 DEF TypeOK
  <2>3. Shape' /\ CountIsSilence' /\ QuitOnlyInSilence'
    BY <1>1, <1>2, <2>1 DEF Inv, Shape, CountIsSilence, QuitOnlyInSilence, Accepted
  <2>4. AnswersTrue'
    BY <1>1, <1>2, <1>4, <1>7, <1>9, <2>1 DEF Inv, AnswersTrue, One, Accepted
  <2>5. DatagramsAnswered'
    BY <1>1, <1>2, <1>4, <1>5, <2>1 DEF Inv, DatagramsAnswered, One
  <2>6. RequestsAddUp'
    BY <1>4, <1>5, <1>6, <1>7, <1>8, <1>9, <2>1 DEF RequestsAddUp, One
  <2>7. EmissionsAddUp'
    <3>1. One(jit # "idle") \in {0, 1}
      BY DEF One
    <3> QED
      BY <1>2, <1>5, <1>6, <1>7, <1>9, <3>1 DEF EmissionsAddUp
  <2> QED
    BY <2>2, <2>3, <2>4, <2>5, <2>6, <2>7 DEF Inv
<1>10. CASE /\ \E v \in Refusals :
                 /\ (v = "FULL") <=> (queued = QueueSize)
                 /\ down' = [down EXCEPT !.pc = "enqueued", !.result = v]
            /\ UNCHANGED <<queued, accepted>>
  <2>1. PICK v \in Refusals : down' = [down EXCEPT !.pc = "enqueued", !.result = v]
    BY <1>10
  <2>2. v \in Answers \cup {"FULL"} /\ v \notin {"OK", "TX_POWER", "GPS_UNLOCKED"}
    BY DEF Refusals, Answers, CountedErrors
  <2>3. /\ down' \in DownType /\ down'.pc = "enqueued" /\ down'.result = v
        /\ down'.autoquit = down.autoquit /\ down'.req_ack = down.req_ack
    BY <1>1, <2>1, <2>2 DEF DownType
  <2>4. TypeOK'
    BY <1>1, <1>2, <1>10, <2>3 DEF TypeOK
  <2>5. Shape' /\ CountIsSilence' /\ QuitOnlyInSilence'
    BY <1>2, <2>3 DEF Inv, Shape, CountIsSilence, QuitOnlyInSilence
  <2>6. AnswersTrue'
    BY <1>1, <1>2, <1>4, <1>7, <1>10, <2>2, <2>3 DEF Inv, AnswersTrue, One, Accepted
  <2>7. DatagramsAnswered'
    BY <1>1, <1>2, <1>4, <1>5, <2>3 DEF Inv, DatagramsAnswered, One
  <2>8. RequestsAddUp'
    BY <1>4, <1>5, <1>6, <1>7, <1>10, <2>3 DEF RequestsAddUp, One
  <2>9. EmissionsAddUp'
    BY <1>2, <1>5, <1>7, <1>10 DEF EmissionsAddUp
  <2> QED
    BY <2>4, <2>5, <2>6, <2>7, <2>8, <2>9 DEF Inv
<1> QED
  BY <1>9, <1>10 DEF Enqueue

\* Counting the request (meas_nb_tx_requested, and the error's own counter) balances what
\* jit_enqueue answered.
LEMMA CountRequestInv == Inv /\ CountRequest => Inv'
<1> SUFFICES ASSUME Inv, CountRequest PROVE Inv'
  OBVIOUS
<1>1. TypeOK /\ down \in DownType /\ down.pc = "enqueued"
        /\ (Accepted(down.result) \/ down.result \in Refusals)
  BY DEF Inv, TypeOK, CountRequest, Shape
<1>2. UNCHANGED <<acks, resps, queued, jit, reported, reports, exit_sig, answered,
                  accepted, missed, silence, taken>>
  BY DEF CountRequest, network, history
<1>3. /\ meas' \in [Counters -> Nat]
      /\ Total("tx_requested")' = Total("tx_requested") + 1
      /\ \A d \in Counters \ {"tx_requested"} : Total(d)' = Total(d)
  BY <1>1, <1>2, CountersAre, CountOne DEF CountRequest
<1>4. \A e \in CountedErrors : Total(e)' = Total(e)
  BY <1>3, CountersAre
<1>5. Rejected' = Rejected
  BY <1>4 DEF Rejected, CountedErrors
<1>6. /\ Total("dgram_rcv")' = Total("dgram_rcv")
      /\ Total("tx_ok")' = Total("tx_ok") /\ Total("tx_fail")' = Total("tx_fail")
  BY <1>3, CountersAre
<1>7. /\ down' \in DownType /\ down'.pc = "answer" /\ down'.result = down.result
      /\ down'.autoquit = down.autoquit /\ down'.req_ack = down.req_ack
  BY <1>1 DEF CountRequest, DownType
<1>8. TypeOK'
  BY <1>1, <1>2, <1>3, <1>7 DEF TypeOK
<1>9. Shape' /\ CountIsSilence' /\ QuitOnlyInSilence'
  BY <1>2, <1>7 DEF Inv, Shape, CountIsSilence, QuitOnlyInSilence
<1>10. AnswersTrue'
  BY <1>1, <1>2, <1>4, <1>7 DEF Inv, AnswersTrue, Accepted
<1>11. DatagramsAnswered'
  BY <1>1, <1>2, <1>5, <1>6, <1>7 DEF Inv, DatagramsAnswered, One, Accepted, Refusals
<1>12. RequestsAddUp'
  <2>1. Total("tx_requested") \in Nat
    BY <1>1, SumsAreNat, CountersAre
  <2> QED
    BY <1>1, <1>2, <1>3, <1>5, <1>7, <2>1 DEF Inv, RequestsAddUp, One
<1>13. EmissionsAddUp'
  BY <1>2, <1>6 DEF Inv, EmissionsAddUp
<1> QED
  BY <1>8, <1>9, <1>10, <1>11, <1>12, <1>13 DEF Inv
\* A refusal counted is one rejection more.
LEMMA CountRefusal ==
    ASSUME TypeOK, NEW e \in CountedErrors, Count(e), reported' = reported
    PROVE  /\ meas' \in [Counters -> Nat] /\ Rejected' = Rejected + 1
           /\ Total(e)' = Total(e) + 1
           /\ \A d \in Counters \ {e} : Total(d)' = Total(d)
<1>1. /\ meas' \in [Counters -> Nat] /\ Total(e)' = Total(e) + 1
      /\ \A d \in Counters \ {e} : Total(d)' = Total(d)
  BY CountersAre, CountOne
<1>2. /\ Total("TOO_LATE") \in Nat /\ Total("TOO_EARLY") \in Nat
      /\ Total("COLLISION_PACKET") \in Nat /\ Total("COLLISION_BEACON") \in Nat
  BY SumsAreNat, CountersAre DEF CountedErrors
<1>3. \A d \in {"TOO_LATE", "TOO_EARLY", "COLLISION_PACKET", "COLLISION_BEACON"} :
         d # e => Total(d)' = Total(d)
  BY <1>1, CountersAre DEF CountedErrors
<1>4. CASE e = "TOO_LATE"
  BY <1>1, <1>2, <1>3, <1>4 DEF Rejected
<1>5. CASE e = "TOO_EARLY"
  BY <1>1, <1>2, <1>3, <1>5 DEF Rejected
<1>6. CASE e = "COLLISION_PACKET"
  BY <1>1, <1>2, <1>3, <1>6 DEF Rejected
<1>7. CASE e = "COLLISION_BEACON"
  BY <1>1, <1>2, <1>3, <1>7 DEF Rejected
<1> QED
  BY <1>1, <1>4, <1>5, <1>6, <1>7 DEF CountedErrors

\* A TX_ACK: the request is done with.
LEMMA AnswerInv == Inv /\ Answer => Inv'
<1> SUFFICES ASSUME Inv, Answer PROVE Inv'
  OBVIOUS
<1> DEFINE e == AckError(down.result)
<1>1. TypeOK /\ down \in DownType /\ down.pc = "answer"
  BY DEF Inv, TypeOK, Answer
<1>2. UNCHANGED <<acks, resps, queued, jit, reported, reports, exit_sig, accepted,
                  missed, silence, taken>>
  BY DEF Answer, network
<1>3. /\ down' \in DownType /\ down'.pc = "listen"
      /\ down'.autoquit = down.autoquit /\ down'.req_ack = down.req_ack
  BY <1>1, CountersAre DEF Answer, DownType
<1>4. /\ e \in Answers /\ (e = "OK" <=> down.result = "OK")
      /\ (e = "TX_POWER" <=> down.result = "TX_POWER")
      /\ (e = "TX_FREQ" <=> down.result = "TX_FREQ")
      /\ (e = "GPS_UNLOCKED" <=> down.result = "GPS_UNLOCKED")
      /\ (e \in CountedErrors <=> down.result \in Refusals)
  BY <1>1 DEF AckError, DownType, Answers, CountedErrors, Refusals
<1> HIDE DEF e
<1>5. /\ answered' \in [Answers -> Nat] /\ answered'[e] = answered[e] + 1
      /\ \A a \in Answers \ {e} : answered'[a] = answered[a]
  BY <1>1, <1>4 DEF Answer, TypeOK, e
<1>6. answered'["OK"] = answered["OK"] + One(e = "OK")
      /\ answered'["TX_POWER"] = answered["TX_POWER"] + One(e = "TX_POWER")
      /\ answered'["TX_FREQ"] = answered["TX_FREQ"] + One(e = "TX_FREQ")
  BY <1>1, <1>5, SumsAreNat, CountersAre DEF One
<1>7. /\ meas' \in [Counters -> Nat] /\ Rejected' = Rejected + One(e \in CountedErrors)
      /\ \A c \in Counters : Total(c)' = Total(c) + One(c = e /\ e \in CountedErrors)
  <2>1. CASE e \in CountedErrors
    <3>1. Count(e)
      BY <2>1 DEF Answer, e
    <3>2. \A c \in Counters : Total(c) \in Nat
      BY <1>1, SumsAreNat
    <3> QED
      BY <1>1, <1>2, <2>1, <3>1, <3>2, CountRefusal DEF One
  <2>2. CASE e \notin CountedErrors
    <3>1. meas' = meas
      BY <2>2 DEF Answer, e
    <3>2. \A c \in Counters : Total(c) \in Nat /\ Total(c)' = Total(c)
      BY <1>1, <1>2, <3>1, CountNothing, SumsAreNat
    <3>3. Rejected' = Rejected /\ Rejected \in Nat
      BY <1>1, <3>2, CountersAre, SumsAreNat DEF Rejected, CountedErrors
    <3> QED
      BY <1>1, <2>2, <3>1, <3>2, <3>3 DEF One, TypeOK
  <2> QED
    BY <2>1, <2>2
<1>8. /\ answered["OK"] \in Nat /\ answered["TX_POWER"] \in Nat
      /\ answered["TX_FREQ"] \in Nat /\ Rejected \in Nat
      /\ Total("dgram_rcv") \in Nat /\ Total("tx_requested") \in Nat
      /\ Total("tx_ok") \in Nat /\ Total("tx_fail") \in Nat
  BY <1>1, SumsAreNat, CountersAre
<1>9. /\ Total("dgram_rcv")' = Total("dgram_rcv")
      /\ Total("tx_requested")' = Total("tx_requested")
      /\ Total("tx_ok")' = Total("tx_ok") /\ Total("tx_fail")' = Total("tx_fail")
  BY <1>7, <1>8, CountersAre DEF One, CountedErrors
<1>10. \/ e = "OK" \/ e = "TX_POWER" \/ e = "TX_FREQ" \/ e = "GPS_UNLOCKED"
       \/ e \in CountedErrors
  BY <1>4 DEF Answers
<1>11. TypeOK'
  BY <1>1, <1>2, <1>3, <1>5, <1>7 DEF TypeOK
<1>12. Shape' /\ CountIsSilence' /\ QuitOnlyInSilence' /\ EmissionsAddUp'
  BY <1>2, <1>3, <1>9 DEF Inv, Shape, CountIsSilence, QuitOnlyInSilence, EmissionsAddUp
<1>13. AnswersTrue'
  <2>1. ASSUME NEW c \in CountedErrors PROVE answered'[c] = Total(c)'
    <3>1. answered[c] = Total(c) /\ c \in Counters /\ c \in Answers
      BY CountersAre DEF Inv, AnswersTrue
    <3>2. Total(c) \in Nat
      BY <1>1, <3>1, SumsAreNat
    <3> QED
      BY <1>5, <1>7, <3>1, <3>2 DEF One
  <2>2. accepted = answered["OK"] + answered["TX_POWER"] + One(Accepted(down.result))
    BY <1>1 DEF Inv, AnswersTrue, One
  <2>3. accepted = answered'["OK"] + answered'["TX_POWER"]
    BY <1>4, <1>6, <1>8, <2>2 DEF One, Accepted
  <2>4. answered'["OK"] \in Nat /\ answered'["TX_POWER"] \in Nat
    BY <1>5, CountersAre
  <2> QED
    BY <1>2, <1>3, <2>1, <2>3, <2>4 DEF AnswersTrue, One
<1>14. DatagramsAnswered'
  <2>1. Total("dgram_rcv") = answered["OK"] + answered["TX_POWER"] + answered["TX_FREQ"]
          + Rejected + One(e # "GPS_UNLOCKED")
    BY <1>1, <1>4 DEF Inv, DatagramsAnswered, One
  <2>2. Total("dgram_rcv")' = answered'["OK"] + answered'["TX_POWER"]
          + answered'["TX_FREQ"] + Rejected'
    BY <1>6, <1>7, <1>8, <1>9, <1>10, <2>1 DEF One, CountedErrors
  <2>3. Total("dgram_rcv")' \in Nat
    BY <1>8, <1>9
  <2> QED
    BY <1>3, <1>6, <1>7, <1>8, <2>2 DEF DatagramsAnswered, One
<1>15. RequestsAddUp'
  <2>1. Total("tx_requested") = accepted + Rejected + One(e \in CountedErrors)
    BY <1>1, <1>4, <1>8 DEF Inv, RequestsAddUp, One
  <2>2. accepted \in Nat
    BY <1>1 DEF TypeOK
  <2> QED
    BY <1>2, <1>3, <1>7, <1>8, <1>9, <2>1, <2>2 DEF RequestsAddUp, One
<1> QED
  BY <1>11, <1>12, <1>13, <1>14, <1>15 DEF Inv

\* thread_jit: a packet goes from the queue to the hand, and from there to a counter.
LEMMA JitInv == Inv /\ JitNext => Inv'
<1> SUFFICES ASSUME Inv, JitNext PROVE Inv'
  OBVIOUS
<1>1. /\ TypeOK /\ queued \in 0 .. QueueSize /\ QueueSize \in Nat /\ missed \in Nat
      /\ Total("tx_ok") \in Nat /\ Total("tx_fail") \in Nat
  BY CountersAre, SumsAreNat, DownlinkAssumption DEF Inv, TypeOK
<1>2. UNCHANGED <<acks, resps, down, reported, reports, exit_sig, answered, accepted,
                  silence, taken>>
  BY DEF JitNext, JitMiss, JitTake, JitGivesUp, JitSend, JitCount, network, history
<1>3. Shape' /\ CountIsSilence' /\ QuitOnlyInSilence'
  BY <1>2 DEF Inv, Shape, CountIsSilence, QuitOnlyInSilence
<1>4. CASE JitMiss \/ JitTake \/ JitGivesUp \/ JitSend
  <2>1. meas' = meas
    BY <1>4 DEF JitMiss, JitTake, JitGivesUp, JitSend
  <2>2. \A c \in Counters : Total(c)' = Total(c)
    BY <1>2, <2>1, CountNothing
  <2>3. AnswersTrue' /\ DatagramsAnswered' /\ RequestsAddUp'
    BY <1>2, <2>2, SumsKept
  <2>4. Total("tx_ok")' = Total("tx_ok") /\ Total("tx_fail")' = Total("tx_fail")
    BY <2>2, CountersAre
  <2>5. /\ queued' \in 0 .. QueueSize /\ missed' \in Nat
        /\ jit' \in {"idle", "hand", "tx_ok", "tx_fail"}
        /\ queued' + One(jit' # "idle") + missed' = queued + One(jit # "idle") + missed
    BY <1>1, <1>4 DEF JitMiss, JitTake, JitGivesUp, JitSend, history, One
  <2>6. TypeOK'
    BY <1>1, <1>2, <2>1, <2>5 DEF TypeOK
  <2>7. EmissionsAddUp'
    <3>1. One(jit # "idle") \in Nat /\ One(jit' # "idle") \in Nat
      BY DEF One
    <3> QED
      BY <1>1, <1>2, <2>4, <2>5, <3>1 DEF Inv, EmissionsAddUp
  <2> QED
    BY <1>3, <2>3, <2>6, <2>7 DEF Inv
<1>5. CASE JitCount
  <2>1. /\ jit \in {"tx_ok", "tx_fail"} /\ Count(jit) /\ jit' = "idle"
        /\ UNCHANGED <<queued, missed>>
    BY <1>5 DEF JitCount, history
  <2>2. ASSUME NEW k \in {"tx_ok", "tx_fail"}, jit = k
        PROVE  TypeOK' /\ EmissionsAddUp'
                 /\ \A c \in Counters \ {"tx_ok", "tx_fail"} : Total(c)' = Total(c)
    <3>1. /\ meas' \in [Counters -> Nat] /\ Total(k)' = Total(k) + 1
          /\ \A d \in Counters \ {k} : Total(d)' = Total(d)
      BY <1>1, <1>2, <2>1, <2>2, CountersAre, CountOne
    <3>2. TypeOK'
      BY <1>1, <1>2, <2>1, <3>1 DEF TypeOK
    <3>3. Total("tx_ok")' + Total("tx_fail")' = Total("tx_ok") + Total("tx_fail") + 1
      BY <1>1, <2>2, <3>1, CountersAre
    <3>4. Total("tx_ok")' \in Nat /\ Total("tx_fail")' \in Nat
      BY <3>2, CountersAre, SumsAreNat, <1>1, <2>2, <3>1
    <3>5. accepted = queued + 1 + Total("tx_ok") + Total("tx_fail") + missed
      BY <2>1, <1>1 DEF Inv, EmissionsAddUp, One
    <3>6. EmissionsAddUp'
      BY <1>1, <1>2, <2>1, <3>3, <3>4, <3>5 DEF EmissionsAddUp, One
    <3> QED
      BY <3>1, <3>2, <3>6
  <2>3. AnswersTrue' /\ DatagramsAnswered' /\ RequestsAddUp'
    BY <1>2, <2>1, <2>2, SumsKept
  <2> QED
    BY <1>3, <2>1, <2>2, <2>3 DEF Inv
<1> QED
  BY <1>4, <1>5 DEF JitNext

\* The report takes over the counters it resets.
LEMMA ReportInv == Inv /\ Report => Inv'
<1> SUFFICES ASSUME Inv, Report PROVE Inv'
  OBVIOUS
<1>1. TypeOK
  BY DEF Inv
<1>2. UNCHANGED <<acks, resps, down, queued, jit, exit_sig, answered, accepted, missed,
                  silence, taken>>
  BY DEF Report, network, history
<1>3. /\ meas' \in [Counters -> Nat] /\ reported' \in [Counters -> Nat]
      /\ \A c \in Counters : Total(c)' = Total(c)
  BY <1>1, ReportMoves
<1>4. reports' \in Nat
  BY <1>1 DEF Report, TypeOK
<1>5. TypeOK'
  BY <1>1, <1>2, <1>3, <1>4 DEF TypeOK
<1>6. Shape' /\ CountIsSilence' /\ QuitOnlyInSilence'
  BY <1>2 DEF Inv, Shape, CountIsSilence, QuitOnlyInSilence
<1>7. AnswersTrue' /\ DatagramsAnswered' /\ RequestsAddUp'
  BY <1>2, <1>3, SumsKept
<1>8. EmissionsAddUp'
  BY <1>2, <1>3, CountersAre DEF Inv, EmissionsAddUp
<1> QED
  BY <1>5, <1>6, <1>7, <1>8 DEF Inv

-----------------------------------------------------------------------------
(* The theorems.                                                             *)

\* Every step keeps the invariant.
LEMMA NextInv == Inv /\ [Next]_vars => Inv'
<1> SUFFICES ASSUME Inv, [Next]_vars PROVE Inv'
  OBVIOUS
<1>1. CASE Environment \/ Autoquit \/ SendPull \/ KeepaliveOver
             \/ \E t \in Tokens : ReceiveAck(t)
  BY <1>1, KeepaliveInv
<1>2. CASE \E r \in Requests : IgnoreResp(r) \/ RefuseGps(r) \/ TakeResp(r)
  BY <1>2, ResponseInv
<1>3. CASE Handle
  BY <1>3, EnqueueInv, CountRequestInv, AnswerInv DEF Handle
<1>4. CASE JitNext
  BY <1>4, JitInv
<1>5. CASE Report
  BY <1>5, ReportInv
<1>6. CASE UNCHANGED vars
  <2>1. \A c \in Counters : Total(c)' = Total(c)
    BY <1>6, CountNothing DEF vars
  <2>2. AnswersTrue' /\ DatagramsAnswered' /\ RequestsAddUp'
    BY <1>6, <2>1, SumsKept DEF vars
  <2>3. TypeOK' /\ Shape' /\ CountIsSilence' /\ QuitOnlyInSilence'
    BY <1>6
    DEF Inv, vars, TypeOK, Shape, CountIsSilence, QuitOnlyInSilence
  <2>4. EmissionsAddUp'
    BY <1>6, <2>1, CountersAre DEF Inv, vars, EmissionsAddUp
  <2> QED
    BY <2>2, <2>3, <2>4 DEF Inv
<1> QED
  BY <1>1, <1>2, <1>3, <1>4, <1>5, <1>6 DEF Next, DownNext

\* It therefore holds always.
LEMMA InvHolds == Spec => []Inv
BY InitInv, NextInv, PTL DEF Spec

\* The variables of thread_down, thread_jit and the main loop keep their types, whatever
\* the network does, and the queue never holds more than JIT_QUEUE_MAX packets.
THEOREM DownlinkTypes == Spec => []TypeOK
BY InvHolds, PTL DEF Inv

\* Whatever the order of the steps of the tasks, and of the reports among them, what
\* TX_ACK told the server is what happened to the packet.
THEOREM AnswersAreTrue == Spec => []AnswersTrue
BY InvHolds, PTL DEF Inv

\* No datagram that was counted is left without an answer or answered twice, even when the
\* network repeats it; the reports account for each request, accepted or rejected for one
\* reason; and the packets accepted are in the queue, in the hand of thread_jit, counted as
\* sent or as failed, or missed: none is lost between two tasks or two reports.
THEOREM DownlinksAccounted == Spec => []DownlinksAddUp
<1>1. Inv => DownlinksAddUp
  BY DEF Inv, DownlinksAddUp
<1> QED
  BY <1>1, InvHolds, PTL

\* For every threshold, and however acknowledgements are lost, late or repeated: the
\* gateway quits after that many PULL_DATA in a row were left without an answer.
THEOREM QuitsOnlyInSilence == Spec => []QuitOnlyInSilence
BY InvHolds, PTL DEF Inv
=============================================================================
