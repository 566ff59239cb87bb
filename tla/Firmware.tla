------------------------------ MODULE Firmware ------------------------------
(***************************************************************************)
(* What lgw_start makes the host do, as a script of elementary operations  *)
(* on the concentrator (loragw_hal.c, loragw_sx1302.c, loragw_cal.c), and  *)
(* the rounds of the firmware of the AGC micro-controller the host talks   *)
(* to.  The firmware itself is a binary; it is external, modelled from the *)
(* codes and statuses the host uses.                                       *)
(*                                                                         *)
(* An operation of a script is one of                                      *)
(*   Do(what)         a function that lgw_start gives up on when it fails   *)
(*   Put(mcu, m, v)   a mailbox or debug register write, whose error is     *)
(*                    ignored                                              *)
(*   Await(mcu, s)    a loop until the status is s; a failing read ends it  *)
(*                    and its error is ignored                             *)
(*   Check(mcu, m, v, how)  a mailbox read, an error when it is not v, or,  *)
(*                    as a flag, when one of them is 0 and the other not   *)
(*   Collect(r)       the reads of round r of a calibration                 *)
(*   Locked(n)        the PLLs of a radio lock; if not, n operations are    *)
(*                    left out                                             *)
(*   Judge(n)         the results agree, and n operations are left out; if *)
(*                    not, they are done, or without any it is an error     *)
(***************************************************************************)
EXTENDS Integers, Sequences, FiniteSets, SequencesExt

Chains == {0, 1}

\* Two values compared as they are, or after a cast to bool.
Same(v, w, how) == IF how = "flag" THEN (v = 0) <=> (w = 0) ELSE v = w

\* The functions lgw_start calls and gives up on when they fail.
Called == {"connect", "gpio 0", "reset radio", "radio mode", "setup radio", "calibrate sx1250", "load cal", "clock select",
           "release front end", "release radios", "init", "pa lna lut", "radio fe", "channelizer", "correlators", "modems",
           "service correlator", "service modem", "fsk", "syncword", "enable modems", "load agc", "load arb",
           "tx configure", "gps", "i2c", "dac", "dac 0V", "sx1261 connect", "sx1261 pram", "sx1261 calibrate",
           "sx1261 setup", "gpio 1"}

Operation == [op : {"do"}, what : Called] \cup [op : {"put"}, mcu : {"agc", "arb"}, box : 0 .. 3, value : Nat]
             \cup [op : {"check"}, mcu : {"agc", "arb"}, box : 0 .. 3, value : Nat, how : {"number", "flag"}]
             \cup [op : {"await"}, mcu : {"agc", "arb"}, value : Nat]
             \cup [op : {"collect"}, round : Nat] \cup [op : {"locked", "judge"}, count : Nat]

Do(what) == [op |-> "do", what |-> what]
Put(mcu, m, v) == [op |-> "put", mcu |-> mcu, box |-> m, value |-> v]
Await(mcu, s) == [op |-> "await", mcu |-> mcu, value |-> s]
Check(mcu, m, v, how) == [op |-> "check", mcu |-> mcu, box |-> m, value |-> v, how |-> how]
Collect(r) == [op |-> "collect", round |-> r]
Locked(n) == [op |-> "locked", count |-> n]
Judge(n) == [op |-> "judge", count |-> n]

----------------------------------------------------------------------------
(* The AGC firmware.                                                       *)

AgcVersion(type) == IF type = "sx1250" THEN 10 ELSE 6

\* The parameters of sx1302_agc_start, in the order of its exchanges: what it
\* puts in mailboxes 0, 1, 2, the code that says so, the status that answers,
\* and what it compares afterwards, the last one through (bool).
AgcParams(type, fdd, lbt) ==
  LET sx1250 == type = "sx1250"
      gains  == IF sx1250 THEN <<255, 255>> ELSE <<255, 255, fdd>>
  IN  <<[put |-> gains, check |-> <<255, 255, fdd>>, code |-> 128, status |-> 2, how |-> "number"],
        [put |-> gains, check |-> <<255, 255, fdd>>, code |-> 32, status |-> 3, how |-> "number"]>>
      \o [i \in 1 .. 6 |->
            LET p == (IF sx1250
                        THEN <<<<1, 13>>, <<3, 12>>, <<4, 15>>, <<40, 80, 90>>, <<4, 14>>, <<52, 132>>>>
                        ELSE <<<<0, 9>>, <<16, 35>>, <<7, 11>>, <<45, 100, 115>>, <<4, 14>>, <<52, 132>>>>)[i]
            IN  [put |-> p, check |-> p, code |-> i + 2, status |-> i + 3, how |-> "number"]]
      \o (IF sx1250
            THEN <<[put |-> <<0, 7, 4>>, check |-> <<0, 7, 4>>, code |-> 9, status |-> 10, how |-> "number"]>>
            ELSE <<>>)
      \o <<[put |-> <<8>>, check |-> <<8>>, code |-> 10, status |-> 11, how |-> "number"],
           [put |-> <<lbt>>, check |-> <<lbt>>, code |-> 11, status |-> 15, how |-> "flag"]>>

\* Mutant: the values not read back.
ExchangeUnchecked(p) == [i \in 1 .. Len(p.put) |-> Put("agc", i - 1, p.put[i])]
                        \o <<Put("agc", 3, p.code), Await("agc", p.status)>>

\* One exchange: the values, the notification, the answer, the read back.
Exchange(p) == [i \in 1 .. Len(p.put) |-> Put("agc", i - 1, p.put[i])]
               \o <<Put("agc", 3, p.code), Await("agc", p.status)>>
               \o [i \in 1 .. Len(p.check) |-> Check("agc", i - 1, p.check[i], p.how)]

AgcStart(type, fdd, lbt) ==
  LET params == AgcParams(type, fdd, lbt)
  IN  <<Await("agc", 1), Check("agc", 0, AgcVersion(type), "number")>>
      \o FlattenSeq([i \in 1 .. Len(params) |-> Exchange(params[i])])
      \o <<Put("agc", 3, 15)>>

\* What the firmware waits for, in order: a code in mailbox 3; it then takes
\* the values of mailboxes 0 to 2, shows them and answers with a status.
AgcRounds(type) ==
  <<[code |-> 128, status |-> 2], [code |-> 32, status |-> 3]>>
  \o [i \in 1 .. 6 |-> [code |-> i + 2, status |-> i + 3]]
  \o (IF type = "sx1250" THEN <<[code |-> 9, status |-> 10]>> ELSE <<>>)
  \o <<[code |-> 10, status |-> 11], [code |-> 11, status |-> 15], [code |-> 15, status |-> 0]>>

----------------------------------------------------------------------------
(* The arbiter firmware.                                                   *)

ArbVersion == 2
ArbDualDemod(ftime) == CASE ftime = "off" -> 0 [] ftime = "all" -> 255 [] ftime = "high" -> 63

\* Mutant: the arbiter never told to resume.
ArbStartHeld(ftime) ==
  <<Await("arb", 1), Check("arb", 0, ArbVersion, "number"), Put("arb", 0, 7),
    Put("arb", 3, ArbDualDemod(ftime)), Put("arb", 2, 3), Await("arb", 0)>>

ArbStart(ftime) ==
  <<Await("arb", 1), Check("arb", 0, ArbVersion, "number"), Put("arb", 0, 7),
    Put("arb", 3, ArbDualDemod(ftime)), Put("arb", 2, 3), Put("arb", 1, 1), Await("arb", 0)>>

----------------------------------------------------------------------------
(* The calibration of sx125x radios, by a firmware of the same AGC         *)
(* micro-controller.                                                       *)

CalVersion == 1
CalIter == 3

RxDone(chain) == IF chain = 0 THEN 17 ELSE 34
TxDone(chain) == IF chain = 0 THEN 51 ELSE 68

Iteration(body) == <<Locked(Len(body))>> \o body

\* sx125x_cal_rx_image: the command, then three rounds of results.
CalRxImage(chain) == Iteration(
  <<Put("agc", 2, chain), Put("agc", 1, 16), Put("agc", 0, 0),
    Put("agc", 3, 0), Put("agc", 3, 1), Await("agc", 1),
    Put("agc", 3, 2), Await("agc", 2), Put("agc", 3, 3), Await("agc", 3),
    Put("agc", 2, 0), Put("agc", 1, 8), Put("agc", 3, 4),
    Await("agc", 6), Collect(4), Put("agc", 3, 6),
    Await("agc", 7), Collect(5), Put("agc", 3, 7),
    Await("agc", 8), Collect(6), Put("agc", 3, 8), Await("agc", RxDone(chain))>>)

\* sx125x_cal_tx_dc_offset: the same, then the search and the signal levels.
CalTxOffset(chain) == Iteration(
  <<Put("agc", 2, chain + 2), Put("agc", 1, 16), Put("agc", 0, 0),
    Put("agc", 3, 0), Put("agc", 3, 1), Await("agc", 1),
    Put("agc", 2, 0), Put("agc", 1, 0), Put("agc", 3, 2), Await("agc", 2),
    Put("agc", 2, 0), Put("agc", 1, 0), Put("agc", 3, 3), Await("agc", 3),
    Put("agc", 2, 0), Put("agc", 1, 64), Put("agc", 3, 4)>>
  \o FlattenSeq([i \in 1 .. 5 |->
       <<Await("agc", i + 5), Collect(i + 3), Put("agc", 3, i + 5)>>])
  \o FlattenSeq([i \in 1 .. 20 |->
       <<Await("agc", i + 11), Collect(i + 8), Put("agc", 3, i + 11)>>])
  \o <<Await("agc", 32), Put("agc", 3, 32), Await("agc", TxDone(chain))>>)

\* The CalIter iterations.
Thrice(body) == FlattenSeq([i \in 1 .. CalIter |-> body])

\* The receive calibration of a chain: the other radio transmits when the two
\* are alike; failing that, or when they differ, the radio's own loopback.
CalRx(conf, chain) ==
  LET runs == Thrice(CalRxImage(chain))
      loop == runs \o <<Judge(0)>>
  IN  IF ~conf.enable[chain] THEN <<>>
      ELSE IF conf.type[0] = conf.type[1] THEN runs \o <<Judge(Len(loop))>> \o loop
      ELSE loop

\* The transmit calibration of a chain, for each of its unique gains.
CalTx(conf, chain) ==
  IF ~conf.tx[chain] THEN <<>>
  ELSE FlattenSeq([g \in 1 .. conf.gains |-> Thrice(CalTxOffset(chain)) \o <<Judge(0)>>])

CalStart(conf) ==
  <<Await("agc", 1), Check("agc", 0, CalVersion, "number"), Put("agc", 3, 255), Await("agc", 0)>>
  \o CalRx(conf, 0) \o CalRx(conf, 1) \o CalTx(conf, 0) \o CalTx(conf, 1)

\* The codes the calibration firmware waits for, and its answer to the i-th.
CalCodes(mode) ==
  IF mode < 2 THEN <<1, 2, 3, 4, 6, 7, 8>>
              ELSE <<1, 2, 3, 4>> \o [i \in 1 .. 5 |-> i + 5] \o [i \in 1 .. 21 |-> i + 11]

CalAnswer(mode, i) ==
  CASE i <= 3                  -> CalCodes(mode)[i]
    [] i = Len(CalCodes(mode)) -> <<17, 34, 51, 68>>[mode + 1]
    [] OTHER                   -> CalCodes(mode)[i + 1]

----------------------------------------------------------------------------
(* lgw_start.                                                              *)

ForEnabled(conf, Steps(_)) ==
  FlattenSeq([i \in 1 .. 2 |-> IF conf.enable[i - 1] THEN Steps(i - 1) ELSE <<>>])

Calibrate(conf) ==
  LET reset(c) == <<Do("reset radio"), Do("radio mode")>>
      each(c)  == <<Do("calibrate sx1250")>>
  IN  ForEnabled(conf, reset) \o <<Do("clock select")>>
      \o (IF conf.type[conf.clksrc] = "sx1250"
            THEN ForEnabled(conf, each)
            ELSE <<Do("load cal")>> \o CalStart(conf))
      \o <<Do("release front end")>>

SetupRadios(conf) ==
  LET setup(c) == <<Do("reset radio"), Do("setup radio"), Do("radio mode")>>
  IN  ForEnabled(conf, setup) \o <<Do("clock select"), Do("release radios")>>

Modems(conf) ==
  <<Do("init"), Do("pa lna lut"), Do("radio fe"), Do("channelizer"), Do("correlators"), Do("modems")>>
  \o (IF conf.service THEN <<Do("service correlator"), Do("service modem")>> ELSE <<>>)
  \o (IF conf.fsk THEN <<Do("fsk")>> ELSE <<>>)
  \o <<Do("syncword"), Do("enable modems")>>

Mcus(conf) ==
  LET type == conf.type[conf.clksrc]
  IN  <<Do("load agc")>> \o AgcStart(type, IF conf.fdd THEN 1 ELSE 0, IF conf.lbt THEN 1 ELSE 0)
      \o <<Do("load arb")>> \o ArbStart(conf.ftime)

Ending(conf) ==
  <<Do("tx configure"), Do("gps"), Do("i2c")>>
  \o (IF conf.fdd THEN <<Do("dac"), Do("dac 0V")>> ELSE <<>>)
  \o (IF conf.lbt THEN <<Do("sx1261 connect"), Do("sx1261 pram"), Do("sx1261 calibrate"), Do("sx1261 setup")>>
                  ELSE <<>>)
  \o <<Do("gpio 1")>>

StartScript(conf) == <<Do("connect"), Do("gpio 0")>> \o Calibrate(conf) \o SetupRadios(conf)
                     \o Modems(conf) \o Mcus(conf) \o Ending(conf)
=============================================================================
