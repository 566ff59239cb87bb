------------------------------- MODULE Parsing -------------------------------
(***************************************************************************)
(* The metadata of a packet in the RX FIFO: what rx_buffer_pop checks of    *)
(* them (loragw_sx1302_rx.c), and the lgw_pkt_rx_s that sx1302_parse makes  *)
(* of them (loragw_sx1302.c).                                              *)
(*                                                                         *)
(* A raw packet is [modem, channel, sf, cr, size, crc_en, crc_error,       *)
(* crc_match, metrics, timing], crc_match saying that the CRC of the       *)
(* payload is the one received.                                            *)
(***************************************************************************)
EXTENDS Integers, Sequences

LoRaModems == 0 .. 15
StdModem == 16
FskModem == 17

\* The demodulators that the channels are wired to.
Wired(raw) == \/ raw.modem \in LoRaModems /\ raw.channel \in 0 .. 7
              \/ raw.modem = StdModem /\ raw.channel = 8
              \/ raw.modem = FskModem /\ raw.channel = 9

\* The range checks of rx_buffer_pop.
Sane(raw) == /\ raw.modem <= FskModem
             /\ raw.modem <= StdModem => raw.channel <= 9 /\ raw.sf \in 5 .. 12

\* ifmod_config.
IfMod(channel) == CASE channel <= 7 -> "LORA_MULTI" [] channel = 8 -> "LORA_STD" [] channel = 9 -> "FSK_STD"

\* "REFUSED" is a CRC16 that the SX1302 took for good and the host does not.
LoRaStatus(raw, conf) ==
  IF ~raw.crc_en /\ ~(IfMod(raw.channel) = "LORA_STD" /\ conf.implicit_crc_en) THEN "NO_CRC"
  ELSE IF raw.crc_error THEN "CRC_BAD"
  ELSE IF raw.size > 0 /\ ~raw.crc_match THEN "REFUSED"
  ELSE "CRC_OK"

FskStatus(raw) == IF ~raw.crc_en THEN "NO_CRC" ELSE IF raw.crc_error THEN "CRC_BAD" ELSE "CRC_OK"

\* What sx1302_parse returns for a packet popped, conf the configuration of the service
\* modem; <<>> for an error, which ends the program.
Sx1302Parse(raw, conf) ==
  LET multi == IfMod(raw.channel) = "LORA_MULTI"
      cr    == IF multi \/ ~conf.implicit_hdr THEN raw.cr ELSE conf.implicit_coderate
  IN  IF ~Sane(raw) \/ raw.channel > 9 THEN <<>>
      ELSE IF IfMod(raw.channel) = "FSK_STD"
      THEN <<[modulation |-> "FSK", status |-> FskStatus(raw), datarate |-> conf.fsk_datarate,
              bandwidth |-> conf.fsk_bandwidth, coderate |-> 0]>>
      ELSE IF LoRaStatus(raw, conf) = "REFUSED" THEN <<>>
      ELSE <<[modulation |-> "LORA",
              status     |-> LoRaStatus(raw, conf),
              bandwidth  |-> IF multi THEN 125 ELSE conf.bandwidth,
              datarate   |-> IF raw.sf \in 5 .. 12 THEN raw.sf ELSE 0,
              coderate   |-> IF cr \in 1 .. 4 THEN cr ELSE 0,
              ftime      |-> raw.metrics > 0 /\ raw.timing /\ LoRaStatus(raw, conf) = "CRC_OK"]>>

Rx == INSTANCE Rxpk WITH Forward <- {}

\* Whatever the metadata of a packet from a wired demodulator, corrupted fields
\* included, sx1302_parse either refuses it or hands over one that thread_up can
\* serialise: it exits on an undefined datarate, bandwidth or status
\* (loragw_sx1302_rx.c:345).
ParsedSerialisable(raw, conf) ==
  Wired(raw) => \A i \in DOMAIN Sx1302Parse(raw, conf) :
                  LET p == Sx1302Parse(raw, conf)[i]
                  IN  Rx!Encodable(p) /\ p.status \in Rx!Statuses
=============================================================================
