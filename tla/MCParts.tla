------------------------------ MODULE MCParts ------------------------------
(***************************************************************************)
(* The smaller parts of the driver in one model.  The first step chooses a  *)
(* part.  Of the computing parts it also chooses an input, for which the   *)
(* invariants below say what must hold; the bus, the pulses per second,    *)
(* the sx1261 and the set-up of a radio then run on their own.             *)
(***************************************************************************)
EXTENDS Bus, Computing, Pps, Scan, SetUp

F == INSTANCE Frames WITH HeadMetadata <- 3, TailMetadata <- 2

ASSUME F!FramesAssumption

----------------------------------------------------------------------------
(* Merging: batches of up to three packets around the roll-over.           *)

McBatches == UNION {[1 .. n -> [count : {14, 15, 0, 1}, content : {"a", "b"}, crc_ok : BOOLEAN, ftime : BOOLEAN]] : n \in 0 .. 3}

(* Modem. *)
McPackets == [modu : {"LORA"}, bw : R!BWs, sf : R!SFs, cr : 1 .. 4, preamble : {6, 8, 10}, header : {TRUE},
              crc : BOOLEAN, size : {0, 1, 2, 3, 4, 7, 12, 23, 51, 222, 255}]

(* Settings *)
Conf == [enable : {TRUE}, rf : {0, 1, 2}, bw : {0, 125000, 250000, 500000}, rate : {0, 7, 12, 64000},
         freq : {-2400000, -2062500, -800000, -737500, -737501, -550000, -400000, -300001, -200000, -1, 0, 1, 12207, 100000,
                 300000, 400000, 675000, 675001, 737500, 738000, 1000000}]

Luts == {CnLut, EuLut} \cup
        {<<[rf_power |-> a, pa_gain |-> g, dig_gain |-> 0, mix_gain |-> m],
           [rf_power |-> b, pa_gain |-> 3, dac_gain |-> d, mix_gain |-> 15]>> :
             a \in {-6, 10}, b \in {-6, 10, 14}, g \in {0, 2, 4}, m \in {4, 5, 8, 16}, d \in {2, 3}}

McChannels == {0, 7, Std, Fsk} \X Conf
McPowers == RadioTypes \X Luts \X (-8 .. 30)

McFields == {[addr |-> 0, offs |-> 0, leng |-> 1, sign |-> FALSE, rdon |-> FALSE],
             [addr |-> 0, offs |-> 1, leng |-> 2, sign |-> TRUE, rdon |-> FALSE],
             [addr |-> 1, offs |-> 0, leng |-> 3, sign |-> FALSE, rdon |-> FALSE]}
McValues == {-2, 1, 3}

(* Frames *)
Pkt == [payload : {<<>>, <<F!Sync1>>, <<F!Sync0, F!Sync1>>}, metrics : {0, 1}]
FrameLen(p) == Len(F!Frame(p))
Cuts == UNION {{<<ps, k, cut>> : cut \in 0 .. FrameLen(ps[k])} : ps \in [1 .. 3 -> Pkt], k \in 1 .. 3}

McMetadata ==
  [modem : {0, 15, 16, 17, 18}, channel : {0, 7, 8, 9, 10}, sf : {4, 5, 12, 13}, cr : {0, 1, 5}, size : {0, 1},
   crc_en : BOOLEAN, crc_error : BOOLEAN, crc_match : BOOLEAN, metrics : {1}, timing : BOOLEAN]
  \X [implicit_hdr : BOOLEAN, implicit_crc_en : {TRUE}, implicit_coderate : {1, 4}, bandwidth : {250},
      fsk_datarate : {50000}, fsk_bandwidth : {125}]

(* Radios: frequencies at the edges of registers and bands, and a radio that was set up
   for another frequency before. *)
McRadioed == {"SX1250", "SX1255", "SX1257"} \X
  {433000000, 433999999, 434000000, 470000001, 480400000, 486600000, 489999999, 490000000, 503500000,
   509999999, 867500000, 868500000, 869525000, 904300000, 915000000, 923300000, 927500000}
McTunings == {486600000, 904300000, 600000000}
McLeftovers == {[r \in Registers |-> 0], [r \in Registers |-> IF r \in {"mode", "pram"} THEN 2 ELSE 1]}

(* The web page's frequencies: none, in a band and in none. *)
McPlans == {"cn470", "eu868", "us915"} \X {0, 100000000, 480000000, 868500000} \X {0, 470000000, 905000000, 999999999}

Probes ==
  \/ Choose
  \/ part' = "frames" /\ probe' \in Cuts
  \/ part' = "set-up" /\ probe' = <<>>
  \/ part' = "pps" /\ probe' = <<>>
  \/ part' = "scan" /\ probe' = <<>>
  \/ part' = "bus" /\ probe' = <<>>

otherVars == <<part, probe>>

\* The counter starts with a second; after it has gone round it does not.
Init == BusInit /\ PpsInit /\ phase = 0 /\ ScanInit /\ SetUpInit /\ ComputingInit

Next == \/ part = Start /\ Probes /\ UNCHANGED <<busVars, ppsVars, scanVars, setUpVars>>
        \/ part = "bus" /\ BusNext /\ UNCHANGED <<ppsVars, scanVars, setUpVars, otherVars>>
        \/ part = "pps" /\ PpsNext /\ UNCHANGED <<busVars, scanVars, setUpVars, otherVars>>
        \/ part = "scan" /\ ScanNext /\ UNCHANGED <<busVars, ppsVars, setUpVars, otherVars>>
        \/ part = "set-up" /\ SetUpNext /\ UNCHANGED <<busVars, ppsVars, scanVars, otherVars>>

\* The counter turns: only how long ago its values were matters; of a packet that has waited
\* too long, that it has; and of an answer, whether it is as it should be.
Ago(count) == Since(now, count)
Late(p) == p # <<>> /\ p.age > Wait
Relative ==
  <<busVars, scanVars, setUpVars, otherVars, phase, lost, unread, known, Ago(pps), history.idx, history.size,
    [i \in 0 .. history.size - 1 |-> Ago(history.values[i])],
    CASE pkt = <<>> -> pkt
      [] Late(pkt)  -> <<"late">>
      [] OTHER      -> <<pkt.phase, pkt.age, Ago(pkt.count)>>,
    FineIsTrue>>

Spec == Init /\ [][Next]_<<busVars, ppsVars, scanVars, setUpVars, otherVars>>

\* Every packet of the FIFO that a fetch did not cut is handed over, in order and as it
\* was (rx_buffer_fetch, rx_buffer_pop).
FramesRecovered == part = "frames" => F!FramesRecovered(probe[1], probe[2], probe[3])
=============================================================================
