------------------------------ MODULE Settings ------------------------------
(***************************************************************************)
(* From the configuration of a region to what the concentrator is set to:  *)
(* the plans of global_json.h, the parser (parse_SX130x_configuration and  *)
(* its neighbours), the _setconf functions of the HAL with their checks,   *)
(* and the registers of the channelizer and of the transmit power.         *)
(*                                                                         *)
(* A JSON object is a record with the fields it has; a value of the wrong   *)
(* type counts as absent.  The context of the HAL carries error, set by    *)
(* the first call that is refused: the parser returns there and the        *)
(* program exits.                                                          *)
(***************************************************************************)
EXTENDS Integers, Sequences, FiniteSets

Get(o, field, default) == IF field \in DOMAIN o THEN o[field] ELSE default

Multi == 0 .. 7
Std   == 8
Fsk   == 9
IfChains == Multi \cup {Std, Fsk}
RfChains == {0, 1}
RadioTypes == {"SX1250", "SX1255", "SX1257"}

Refused(ctx) == [ctx EXCEPT !.error = TRUE]

----------------------------------------------------------------------------
(* The HAL.                                                                *)

\* The one entry of the gain table before it is configured.
DefaultGain == [rf_power |-> 14, pa_gain |-> 2, dig_gain |-> 0, dac_gain |-> 3, mix_gain |-> 10, pwr_idx |-> 0]

DefaultService == [bw |-> 250000, sf |-> 7]
DefaultFsk     == [bw |-> 125000, rate |-> 50000]

\* lgw_context
HalDefault ==
  [error |-> FALSE, public |-> TRUE, clksrc |-> 0, full_duplex |-> FALSE,
   rf  |-> [c \in RfChains |-> [enable |-> FALSE, freq |-> 0, type |-> "none", tx |-> FALSE]],
   if  |-> [c \in IfChains |-> [enable |-> FALSE, rf |-> 0, freq |-> 0]],
   sfs |-> 5 .. 12, service |-> DefaultService, fsk |-> DefaultFsk,
   lut |-> [c \in RfChains |-> <<DefaultGain>>],
   ftime |-> "off", sx1261 |-> [enable |-> FALSE, lbt |-> FALSE, channels |-> <<>>]]

\* LGW_RF_RX_FREQ_MIN, LGW_RF_RX_FREQ_MAX
RxFreqInRange(freq) == freq >= 100000000 /\ freq <= 1000000000

RxrfSetconf(ctx, chain, conf) ==
  IF ~conf.enable THEN ctx
  ELSE IF conf.type \in RadioTypes /\ RxFreqInRange(conf.freq)
       THEN [ctx EXCEPT !.rf[chain] = conf]
       ELSE Refused(ctx)

Widths == {125000, 250000, 500000}

\* Half the bandwidth of a radio.
HalfBand == 800000

Undefined == 0

\* Mutant: the whole of a channel need not be in the band.
IfInBandCentre(conf) == conf.freq \in -3 * HalfBand .. 3 * HalfBand

\* An undefined bandwidth is judged as one of 125 kHz.
IfInBand(conf) ==
  LET half == (IF conf.bw = Undefined THEN 125000 ELSE conf.bw) \div 2
  IN  conf.freq + half <= HalfBand /\ conf.freq - half >= -HalfBand

Or(value, default) == IF value = Undefined THEN default ELSE value

Bandwidth(chain, conf) == Or(conf.bw, IF chain \in Multi THEN 125000 ELSE 250000)
Rate(chain, conf)      == Or(conf.rate, IF chain = Fsk THEN 64000 ELSE 7)

\* What the modem of the chain can do.
Supported(chain, bw, rate) ==
  IF chain = Fsk THEN bw \in Widths /\ rate >= 500 /\ rate <= 250000
  ELSE bw \in (IF chain = Std THEN Widths ELSE {125000}) /\ rate \in 5 .. 12

RxifSetconf(ctx, chain, conf) ==
  LET bw   == Bandwidth(chain, conf)
      rate == Rate(chain, conf)
      set  == [ctx EXCEPT !.if[chain] = [enable |-> TRUE, rf |-> conf.rf, freq |-> conf.freq]]
  IN  IF ~conf.enable THEN [ctx EXCEPT !.if[chain].enable = FALSE, !.if[chain].freq = 0]
      ELSE IF conf.rf \notin RfChains \/ ~IfInBand(conf) \/ ~Supported(chain, bw, rate) THEN Refused(ctx)
      ELSE IF chain = Std THEN [set EXCEPT !.service = [bw |-> bw, sf |-> rate]]
      ELSE IF chain = Fsk THEN [set EXCEPT !.fsk = [bw |-> bw, rate |-> rate]]
      ELSE set

GainInRange(g) == /\ g.dig_gain \in 0 .. 3 /\ g.dac_gain \in 0 .. 3 /\ g.pa_gain \in 0 .. 3
                  /\ g.mix_gain \in 5 .. 15 /\ g.pwr_idx \in 0 .. 22

\* The entries before one that is refused are already in place then.
TxgainSetconf(ctx, chain, lut) ==
  IF Len(lut) \in 1 .. 16 /\ \A i \in DOMAIN lut : GainInRange(lut[i])
  THEN [ctx EXCEPT !.lut[chain] = lut] ELSE Refused(ctx)

Sx1261Setconf(ctx, conf) ==
  IF \A i \in DOMAIN conf.channels : /\ conf.channels[i].bw \in {125000, 250000}
                                     /\ conf.channels[i].scan_time \in {128, 5000}
  THEN [ctx EXCEPT !.sx1261 = conf] ELSE Refused(ctx)

----------------------------------------------------------------------------
(* The parser, section by section.                                         *)

ParseBoard(ctx, o) ==
  IF Get(o, "com_type", "absent") \notin {"SPI", "USB"} \/ "com_path" \notin DOMAIN o THEN Refused(ctx)
  ELSE [ctx EXCEPT !.public = Get(o, "lorawan_public", FALSE), !.clksrc = Get(o, "clksrc", 0),
                   !.full_duplex = Get(o, "full_duplex", FALSE)]

ParseFtime(ctx, o) ==
  LET ts == Get(o, "fine_timestamp", <<>>)
  IN  IF ~Get(ts, "enable", FALSE) THEN ctx
      ELSE IF Get(ts, "mode", "absent") \in {"high_capacity", "all_sf"} THEN [ctx EXCEPT !.ftime = ts.mode]
      ELSE Refused(ctx)

\* The channels of listen-before-talk need all four fields; those after the
\* sixteenth are skipped.
LbtChannels(o) == [i \in 1 .. (IF Len(o) > 16 THEN 16 ELSE Len(o)) |-> o[i]]

ParseSx1261(ctx, o) ==
  IF "sx1261_conf" \notin DOMAIN o THEN ctx
  ELSE LET sx   == o["sx1261_conf"]
           lbt  == Get(sx, "lbt", <<>>)
           talk == Get(lbt, "enable", FALSE)
           chs  == IF talk THEN LbtChannels(Get(lbt, "channels", <<>>)) ELSE <<>>
       IN  IF \E i \in DOMAIN chs : ~({"freq", "bw", "scan_time", "transmit_time"} \subseteq DOMAIN chs[i])
                                    \/ chs[i].scan_time \notin {128, 5000}
           THEN Refused(ctx)
           ELSE Sx1261Setconf(ctx, [enable |-> talk \/ Get(Get(sx, "spectral_scan", <<>>), "enable", FALSE),
                                    lbt |-> talk, channels |-> chs])

LutEntry(e, sx1250) ==
  [rf_power |-> Get(e, "rf_power", 0), pa_gain |-> Get(e, "pa_gain", 0),
   dig_gain |-> IF sx1250 THEN 0 ELSE Get(e, "dig_gain", 0),
   dac_gain |-> IF sx1250 THEN 0 ELSE Get(e, "dac_gain", 3),
   mix_gain |-> IF sx1250 THEN 5 ELSE Get(e, "mix_gain", 0),
   pwr_idx  |-> IF sx1250 THEN Get(e, "pwr_idx", 0) ELSE 0]

\* The first entry of the table tells the kind of all.
ParseLut(ctx, chain, lut) ==
  IF lut = <<>> THEN ctx
  ELSE TxgainSetconf(ctx, chain, [i \in DOMAIN lut |-> LutEntry(lut[i], "pwr_idx" \in DOMAIN lut[1])])

ParseRadio(ctx, chain, o) ==
  LET enable == Get(o, "enable", FALSE)
      tx     == enable /\ Get(o, "tx_enable", FALSE)
      gains  == IF tx THEN ParseLut(ctx, chain, Get(o, "tx_gain_lut", <<>>)) ELSE ctx
  IN  IF gains.error THEN gains
      ELSE RxrfSetconf(gains, chain, [enable |-> enable, freq |-> Get(o, "freq", 0),
                                      type |-> Get(o, "type", "none"), tx |-> tx])

ParseDemod(ctx, o) ==
  IF "chan_multiSF_All" \notin DOMAIN o THEN ctx
  ELSE LET sfs == o["chan_multiSF_All"]
       IN  [ctx EXCEPT !.sfs = IF Len(sfs) > 8 \/ \E i \in DOMAIN sfs : sfs[i] \notin 5 .. 12
                                 THEN 5 .. 12 ELSE {sfs[i] : i \in DOMAIN sfs}]

ParseMulti(ctx, chain, o) ==
  RxifSetconf(ctx, chain, [enable |-> Get(o, "enable", FALSE), rf |-> Get(o, "radio", 0),
                           freq |-> Get(o, "if", 0), bw |-> Undefined, rate |-> Undefined])

\* The channels do not depend on each other.
ParseMultis(ctx, multi) ==
  LET parsed(c) == ParseMulti(ctx, c, multi[c])
      present   == Multi \cap DOMAIN multi
  IN  IF ctx.error THEN ctx
      ELSE [ctx EXCEPT !.error = \E c \in present : parsed(c).error,
                       !.if    = [c \in IfChains |-> IF c \in present THEN parsed(c).if[c] ELSE ctx.if[c]]]

Implicit == {"implicit_payload_length", "implicit_crc_en", "implicit_coderate"}

ParseStd(ctx, o) ==
  LET enable == Get(o, "enable", FALSE)
      bw     == Get(o, "bandwidth", 0)
      sf     == Get(o, "spread_factor", 0)
  IN  IF enable /\ Get(o, "implicit_hdr", FALSE) /\ ~(Implicit \subseteq DOMAIN o) THEN Refused(ctx)
      ELSE RxifSetconf(ctx, Std, [enable |-> enable, rf |-> Get(o, "radio", 0), freq |-> Get(o, "if", 0),
                                  bw |-> IF bw \in Widths THEN bw ELSE Undefined,
                                  rate |-> IF sf \in 5 .. 12 THEN sf ELSE Undefined])

\* The least bandwidth that is enough, or none.
Enough(bw) == IF bw <= 0 \/ bw > 500000 THEN Undefined
              ELSE IF bw > 250000 THEN 500000 ELSE IF bw > 125000 THEN 250000 ELSE 125000

ParseFsk(ctx, o) ==
  LET rate == Get(o, "datarate", 0)
      fdev == Get(o, "freq_deviation", 0)
      bw   == Get(o, "bandwidth", 0)
  IN  RxifSetconf(ctx, Fsk, [enable |-> Get(o, "enable", FALSE), rf |-> Get(o, "radio", 0), freq |-> Get(o, "if", 0),
                             bw |-> Enough(IF bw = 0 /\ fdev # 0 THEN 2 * fdev + rate ELSE bw), rate |-> rate])

\* The sections in their order, up to the first that is refused; channels and
\* radios without a section are left as they are.
ParseSX130x(plan) ==
  LET Then(ctx, present, next) == IF ctx.error \/ ~present THEN ctx ELSE next
      board   == ParseBoard(HalDefault, plan)
      ftime   == Then(board, TRUE, ParseFtime(board, plan))
      sx1261  == Then(ftime, TRUE, ParseSx1261(ftime, plan))
      radio0  == Then(sx1261, 0 \in DOMAIN plan.radio, ParseRadio(sx1261, 0, plan.radio[0]))
      radio1  == Then(radio0, 1 \in DOMAIN plan.radio, ParseRadio(radio0, 1, plan.radio[1]))
      demod   == Then(radio1, TRUE, ParseDemod(radio1, plan))
      multi   == ParseMultis(demod, plan.multi)
      std     == Then(multi, "std" \in DOMAIN plan, ParseStd(multi, plan.std))
  IN  Then(std, "fsk" \in DOMAIN plan, ParseFsk(std, plan.fsk))

\* parse_gateway_configuration: all fields have defaults, and a beacon period
\* is none or leaves the time to prepare a beacon.
GatewayAccepted(plan) == Get(plan.gateway, "beacon_period", 0) \notin 1 .. 5

\* parse_debug_configuration: the identifiers of up to 16 reference payloads.
References(plan) == Get(plan, "ref_payload", <<>>)

\* The frequencies of the web page take the place of the first two of the
\* text, the radios', when they have nine characters.
Replaces(f) == f >= 100000000 /\ f <= 999999999

Patched(plan, freq0, freq1) ==
  LET New(old, f) == IF Replaces(f) THEN f ELSE old
      page == <<freq0, freq1>>
  IN  [plan EXCEPT !.radio = [c \in RfChains |-> [plan.radio[c] EXCEPT !.freq = New(@, page[c + 1])]]]

----------------------------------------------------------------------------
(* The registers.                                                          *)

\* Division as C does it.
Quotient(a, b) == IF a >= 0 THEN a \div b ELSE -((-a) \div b)

IfToReg(freq) == Quotient(freq * 32, 15625)

\* sx1302_channelizer_configure: five bits and eight.
Channelizer(ctx, chain) ==
  LET reg == IfToReg(ctx.if[chain].freq)
  IN  [radio |-> ctx.if[chain].rf, msb |-> (reg \div 256) % 32, lsb |-> reg % 256]

\* The frequency such a register stands for, a signed number of 13 bits.
RegToIf(r) == LET n == 256 * r.msb + r.lsb
              IN  Quotient((IF n >= 4096 THEN n - 8192 ELSE n) * 15625, 32)

\* sx1302_parse adds this to the frequency offset of a packet.
IfError(freq) == freq - Quotient(IfToReg(freq) * 15625, 32)

\* sx1302_send looks for the power from the end of the table down to its first
\* entry, which need not be within it.
HalGain(lut, power) ==
  IF \E i \in 2 .. Len(lut) : lut[i].rf_power <= power
  THEN CHOOSE i \in 2 .. Len(lut) : lut[i].rf_power <= power /\ \A j \in i + 1 .. Len(lut) : lut[j].rf_power > power
  ELSE 1

PowerRegister(type, g) ==
  IF type = "SX1250" THEN (IF g.pa_gain > 0 THEN 64 ELSE 0) + g.pwr_idx
  ELSE 64 * g.pa_gain + 16 * g.dac_gain + g.mix_gain

\* What the AGC firmware makes of it.
PowerOf(type, reg) ==
  IF type = "SX1250" THEN [pa |-> reg \div 64 > 0, pwr_idx |-> reg % 64]
  ELSE [pa_gain |-> reg \div 64, dac_gain |-> (reg \div 16) % 4, mix_gain |-> reg % 16]

----------------------------------------------------------------------------
(* The plans of the three regions.                                         *)

Radio(freq) == [enable |-> TRUE, type |-> "SX1250", freq |-> freq, tx_enable |-> FALSE]

TxRadio(freq, min, max, lut) ==
  [enable |-> TRUE, type |-> "SX1250", freq |-> freq, tx_enable |-> TRUE, tx_freq_min |-> min,
   tx_freq_max |-> max, tx_gain_lut |-> lut]

Entries(table) == [i \in DOMAIN table |-> [rf_power |-> table[i][1], pa_gain |-> table[i][2], pwr_idx |-> table[i][3]]]

Chan(radio, if) == [enable |-> TRUE, radio |-> radio, if |-> if]

Plan(radios, multi, std, fsk, beacon) ==
  [com_type |-> "SPI", com_path |-> "/dev/spidev0.0", lorawan_public |-> TRUE, clksrc |-> 0, full_duplex |-> FALSE,
   radio |-> [c \in RfChains |-> radios[c + 1]], multi |-> [c \in Multi |-> multi[c + 1]], std |-> std, fsk |-> fsk,
   gateway |-> [beacon_period |-> 0, beacon_freq |-> beacon], ref_payload |-> <<"CAFE1234", "CAFE2345">>]

Service(radio, if, bw, sf) ==
  [enable |-> TRUE, radio |-> radio, if |-> if, bandwidth |-> bw, spread_factor |-> sf, implicit_hdr |-> FALSE]

FskChan(enable) == [enable |-> enable, radio |-> 1, if |-> 300000, bandwidth |-> 125000, datarate |-> 50000]

CnLut == Entries(<< <<-6, 0, 0>>, <<-3, 0, 1>>, <<0, 0, 2>>, <<3, 1, 3>>, <<6, 1, 4>>, <<10, 1, 5>>, <<11, 1, 6>>,
                    <<12, 2, 7>>, <<13, 1, 8>>, <<14, 2, 9>>, <<16, 2, 10>>, <<20, 3, 11>>, <<23, 3, 12>>,
                    <<25, 3, 13>>, <<26, 3, 14>>, <<27, 3, 15>> >>)

EuLut == Entries(<< <<12, 0, 15>>, <<13, 0, 16>>, <<14, 0, 17>>, <<15, 0, 19>>, <<16, 0, 20>>, <<17, 0, 22>>,
                    <<18, 1, 1>>, <<19, 1, 2>>, <<20, 1, 3>>, <<21, 1, 4>>, <<22, 1, 5>>, <<23, 1, 6>>,
                    <<24, 1, 7>>, <<25, 1, 9>>, <<26, 1, 11>>, <<27, 1, 14>> >>)

UsLut == EuLut

CN == Plan(<<TxRadio(480400000, 470000000, 510000000, CnLut), Radio(481200000)>>,
           <<Chan(0, -300000), Chan(0, -100000), Chan(0, 100000), Chan(0, 300000),
             Chan(1, -300000), Chan(1, -100000), Chan(1, 100000), Chan(1, 300000)>>,
           Service(1, -200000, 250000, 7), FskChan(TRUE), 508300000)

EU == Plan(<<TxRadio(867500000, 863000000, 870000000, EuLut), Radio(868500000)>>,
           <<Chan(1, -400000), Chan(1, -200000), Chan(1, 0), Chan(0, -400000),
             Chan(0, -200000), Chan(0, 0), Chan(0, 200000), Chan(0, 400000)>>,
           Service(1, -200000, 250000, 7), FskChan(TRUE), 869525000)

US == Plan(<<TxRadio(904300000, 923000000, 928000000, UsLut), Radio(905000000)>>,
           <<Chan(0, -400000), Chan(0, -200000), Chan(0, 0), Chan(0, 200000),
             Chan(1, -300000), Chan(1, -100000), Chan(1, 100000), Chan(1, 300000)>>,
           Service(0, 300000, 500000, 8), FskChan(FALSE), 869525000)

\* main() chooses by the name of the region.
RegionPlan(region) == CASE region = "eu868" -> EU [] region = "us915" -> US [] OTHER -> CN

----------------------------------------------------------------------------

\* A channel that the HAL accepts lies in the band of its radio with its whole
\* width, its register holds its frequency, and the error that packets are
\* corrected by is the one the register makes: nothing is cut from the thirteen
\* bits (loragw_sx1302.c:2076, loragw_hal.c:581).
AcceptedHeard(chain, conf) ==
  LET ctx == RxifSetconf(HalDefault, chain, conf)
  IN  ~ctx.error /\ conf.enable /\ conf.bw # Undefined =>
        /\ conf.freq + conf.bw \div 2 <= HalfBand /\ conf.freq - conf.bw \div 2 >= -HalfBand
        /\ RegToIf(Channelizer(ctx, chain)) + IfError(conf.freq) = conf.freq
        /\ IfError(conf.freq) <= 489 /\ IfError(conf.freq) >= -489

Down == INSTANCE Txpk WITH Chains <- RfChains, TxEnabled <- {0}, AntennaGain <- 0,
          FreqMin <- [c \in RfChains |-> 0], FreqMax <- [c \in RfChains |-> 0], Lut <- [c \in RfChains |-> <<0>>]

\* The entry of the gain table that sx1302_send takes has the power that
\* thread_down chose, put in the packet and reported to the server, although each
\* searches the table in its own way; and the entry survives the packing into
\* the register.  For tables in increasing order, as those of the plans are
\* (loragw_sx1302.c:2453).
PowerAgreed(type, lut, asked) ==
  LET ctx    == ParseLut(HalDefault, 0, lut)
      used   == ctx.lut[0]
      chosen == Down!UsedPower([i \in DOMAIN used |-> used[i].rf_power], asked)
      g      == used[HalGain(used, chosen)]
      radio  == PowerOf(type, PowerRegister(type, g))
  IN  ~ctx.error /\ (\A i, j \in DOMAIN used : i < j => used[i].rf_power <= used[j].rf_power) =>
        /\ g.rf_power = chosen
        /\ type = "SX1250" => radio.pwr_idx = g.pwr_idx /\ radio.pa = (g.pa_gain > 0)
        /\ type # "SX1250" => /\ radio.pa_gain = g.pa_gain /\ radio.dac_gain = g.dac_gain
                              /\ radio.mix_gain = g.mix_gain

\* With the plan of any region, and the frequencies of the web page, no setting
\* is refused by the parser or by a _setconf function, every channel has a radio
\* that is enabled, and no two of the multi-SF channels overlap that share the plan's own
\* frequencies (global_json.h:2).  That lgw_start then succeeds is not said here.
SettingsAccepted(region, freq0, freq1) ==
  LET plan == Patched(RegionPlan(region), freq0, freq1)
      ctx  == ParseSX130x(plan)
      At(c) == RegionPlan(region).radio[ctx.if[c].rf].freq + ctx.if[c].freq
  IN  /\ ~ctx.error /\ GatewayAccepted(plan)
      /\ \A c \in IfChains : ctx.if[c].enable => ctx.rf[ctx.if[c].rf].enable
      /\ \A c \in Multi : \A d \in Multi \ {c} : At(c) - At(d) >= 125000 \/ At(d) - At(c) >= 125000
      /\ Len(ctx.lut[0]) = 16
=============================================================================
