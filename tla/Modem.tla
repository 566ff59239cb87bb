-------------------------------- MODULE Modem --------------------------------
(***************************************************************************)
(* LoRa and FSK parameters in the registers of the SX1302: what the        *)
(* receiving modems are set to (sx1302_lora_modem_configure and its        *)
(* neighbours), what sx1302_send sets the transmitter to, and the time on  *)
(* air that lgw_time_on_air tells the just-in-time queue.                  *)
(*                                                                         *)
(* A packet is [modu, bw, sf, cr, preamble, header, crc, size] for LoRa,   *)
(* bw in kHz, and [modu, rate, preamble, crc, size, sync] for FSK.         *)
(***************************************************************************)
EXTENDS Integers, Sequences

SFs == 5 .. 12
BWs == {125, 250, 500}

\* SET_PPM_ON: low datarate optimisation.
PpmOn(bw, sf) == (bw = 125 /\ sf \in {11, 12}) \/ (bw = 250 /\ sf = 12)

\* The peaks of the synchronisation word.
Private == <<2, 4>>
Public  == <<6, 8>>

----------------------------------------------------------------------------
(* What the receiving modems expect.                                       *)

\* sx1302_lora_modem_configure, sx1302_lora_syncword: the multi-SF modems
\* listen at 125 kHz only; SF11 and SF12 have the ppm offset.
MultiSf(sf, public) == [ppm  |-> sf \in {11, 12},
                        sync |-> IF sf \in {5, 6} \/ ~public THEN Private ELSE Public]

\* The service modem, of one bandwidth and one datarate: explicit header, or
\* the length, coding rate and CRC of the configuration.
Service(conf, public) ==
  [ppm      |-> PpmOn(conf.bw, conf.sf),
   sync     |-> IF conf.sf \in {5, 6} \/ ~public THEN Private ELSE Public,
   fine     |-> conf.sf \in {5, 6},
   preamble |-> IF conf.sf \in {5, 6} THEN 12 ELSE 8]

----------------------------------------------------------------------------
(* What sx1302_send sets the transmitter to.                               *)

TransmitSync(sf, public) == IF ~public \/ sf \in {5, 6} THEN Private ELSE Public

LoRaPreamble(preamble) == IF preamble = 0 THEN 8 ELSE IF preamble < 6 THEN 6 ELSE preamble
FskPreamble(preamble)  == IF preamble = 0 THEN 5 ELSE IF preamble < 3 THEN 3 ELSE preamble

Transmit(p, public) ==
  [ppm      |-> PpmOn(p.bw, p.sf),
   sync     |-> TransmitSync(p.sf, public),
   fine     |-> p.sf \in {5, 6},
   preamble |-> LoRaPreamble(p.preamble)]

----------------------------------------------------------------------------
(* Time on air.                                                            *)

CeilDiv(a, b) == (a + b - 1) \div b
Positive(x) == IF x > 0 THEN x ELSE 0
One(b) == IF b THEN 1 ELSE 0

\* In microseconds.
SymbolTime(bw, sf) == (2^sf * 8 * 125) \div bw

\* Mutant: the optimisation left to SF12.
OptimisedLate(sf) == sf >= 12

\* DE, for any bandwidth.
Optimised(sf) == sf >= 11

PayloadSymbols(p) ==
  CeilDiv(Positive(8 * p.size + 16 * One(p.crc) - 4 * p.sf + (IF p.sf >= 7 THEN 8 ELSE 0) + 20 * One(p.header)),
          4 * (p.sf - 2 * One(Optimised(p.sf)))) * (p.cr + 4)

\* lora_packet_time_on_air, in microseconds: preamble, 4.25 or 6.25 symbols of
\* synchronisation, a first block of 8 symbols, and the rest.
LoRaTimeOnAir(p) ==
  ((4 * p.preamble + (IF p.sf >= 7 THEN 17 ELSE 25) + 32 + 4 * PayloadSymbols(p)) * SymbolTime(p.bw, p.sf)) \div 4

\* lgw_time_on_air, in milliseconds: LoRa to the nearest, FSK with one more.
TimeOnAir(p) ==
  IF p.modu = "LORA" THEN (LoRaTimeOnAir(p) + 500) \div 1000
  ELSE (8 * 1000 * (p.preamble + p.sync + 1 + p.size + 2 * One(p.crc))) \div p.rate + 1

----------------------------------------------------------------------------
(* The reference: the blocks of a packet as the receiver counts them for    *)
(* its timestamps (legacy_timestamp_correction), with an explicit header.  *)

Nibbles(p) == 2 * (p.size + 2 * One(p.crc)) + 5

HeaderNibbles(sf) == IF sf \in {5, 6} THEN sf ELSE sf - 2

FitsInHeader(p) == 2 * (p.size + 2 * One(p.crc)) - (p.sf - 7) <= 0 \/ (p.size = 0 /\ ~p.crc)

BlockNibbles(p) == p.sf - 2 * One(PpmOn(p.bw, p.sf))

\* nb_nibble_in_last_block
LastBlock(p) ==
  IF FitsInHeader(p) THEN HeaderNibbles(p.sf)
  ELSE LET rest == (Nibbles(p) - HeaderNibbles(p.sf)) % BlockNibbles(p)
       IN  IF rest = 0 THEN BlockNibbles(p) ELSE rest

\* Blocks after the first, of which the last has LastBlock nibbles.
Blocks(p) == IF FitsInHeader(p) THEN 0
             ELSE (Nibbles(p) - HeaderNibbles(p.sf) - LastBlock(p)) \div BlockNibbles(p) + 1

\* In quarters of a symbol.
EmittedQuarters(p) == 4 * LoRaPreamble(p.preamble) + (IF p.sf >= 7 THEN 17 ELSE 25) + 32
                      + 4 * Blocks(p) * (p.cr + 4)

----------------------------------------------------------------------------
CONSTANTS MarginDelay   \* TX_MARGIN_DELAY, in microseconds

\* A packet leaves the air before the time the just-in-time queue reserved
\* for it and the margin between two packets are over: the rounding of the
\* time on air, its own rule for low datarates and the preamble that
\* sx1302_send enforces are within the margin (loragw_aux.c:51).
AirtimeCovers(p) ==
  p.modu = "LORA" /\ p.header =>
    (EmittedQuarters(p) * SymbolTime(p.bw, p.sf)) \div 4 <= 1000 * TimeOnAir(p) + MarginDelay

\* The blocks of a packet of which the receiver makes its timestamp hold all
\* of its nibbles, and the last is neither empty nor too long
\* (loragw_sx1302_timestamp.c:139).
BlocksHoldAll(p) ==
  p.modu = "LORA" =>
    /\ LastBlock(p) \in 1 .. p.sf
    /\ HeaderNibbles(p.sf) + Positive(Blocks(p) - 1) * BlockNibbles(p)
         + (IF Blocks(p) = 0 THEN 0 ELSE LastBlock(p)) >= Nibbles(p)

\* A gateway could hear what another one of its network sends: transmitter,
\* multi-SF and service modems agree on synchronisation word and low datarate
\* optimisation of each datarate and bandwidth (loragw_sx1302.c:2599).
LinkAgreed(p, public) ==
  p.modu = "LORA" =>
    LET sent == Transmit(p, public)  heard == Service([bw |-> p.bw, sf |-> p.sf], public)
    IN  /\ sent.sync = heard.sync /\ sent.ppm = heard.ppm /\ sent.fine = heard.fine
        /\ p.bw = 125 => /\ sent.sync = MultiSf(p.sf, public).sync
                         /\ sent.ppm = MultiSf(p.sf, public).ppm
=============================================================================
