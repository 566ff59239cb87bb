----------------------------- MODULE Computing -----------------------------
(***************************************************************************)
(* What the numbers of a packet or of a setting become on their way into    *)
(* the registers, and what merge_packets makes of a batch of packets.  The  *)
(* first step chooses a part of the driver and an input of it, for which   *)
(* the invariants below say what must hold.                                *)
(***************************************************************************)
EXTENDS Settings, Frequencies

CONSTANTS Packets,      \* LoRa packets to transmit
          Channels,     \* an IF chain and what lgw_rxif_setconf is given for it
          Powers,       \* a type of radio, a gain table of the plan, a power asked for
          Radioed,      \* a type of radio and a frequency
          Plans,        \* a region, and the frequencies of the web page
          Metadata,     \* of a packet received, and the configuration of the service modem
          Batches,      \* packets that one lgw_receive takes from the SX1302
          CounterTurn, Apart    \* see Merging

Merge == INSTANCE Merging WITH Turn <- CounterTurn
R == INSTANCE Modem WITH MarginDelay <- 1000
Rx == INSTANCE Parsing

\* A packet thread_down hands over: sizes of 8 bits, preambles of 16 that are at their minimum or above.
Packet ==
  {p \in [modu : {"LORA"}, bw : R!BWs, sf : R!SFs, cr : 1 .. 4, preamble : Nat, header : BOOLEAN, crc : BOOLEAN, size : Nat] :
     p.preamble >= 6 /\ p.preamble < 65536 /\ p.size < 256}

Channel == IfChains \X [enable : BOOLEAN, rf : Nat, bw : Widths \cup {Undefined}, rate : Nat, freq : Int]

GainFields == {"rf_power", "pa_gain", "dig_gain", "dac_gain", "mix_gain", "pwr_idx"}

\* A gain table of the plan, in whose entries any of the fields may be missing.
GainTable(lut) ==
  /\ Len(lut) \in Nat /\ DOMAIN lut = 1 .. Len(lut)
  /\ \A i \in DOMAIN lut : \A field \in GainFields \cap DOMAIN lut[i] : lut[i][field] \in Int

\* What the SX1302 says of a packet, in fields of any width.
Raw == [modem : Nat, channel : Nat, sf : Nat, cr : Nat, size : Nat, crc_en : BOOLEAN, crc_error : BOOLEAN,
        crc_match : BOOLEAN, metrics : Nat, timing : BOOLEAN]

\* lgw_rxif_setconf leaves the service modem with a bandwidth it knows.
ServiceModem == [implicit_hdr : BOOLEAN, implicit_crc_en : BOOLEAN, implicit_coderate : Nat, bandwidth : {125, 250, 500},
            fsk_datarate : Nat, fsk_bandwidth : Nat]

ASSUME ComputingAssumption ==
  /\ Packets \subseteq Packet
  /\ Channels \subseteq Channel
  /\ \A p \in Powers : p[1] \in RadioTypes /\ GainTable(p[2]) /\ p[3] \in Int
  /\ Radioed \subseteq RadioTypes \X Nat
  /\ \A p \in Plans : p[2] \in Nat /\ p[3] \in Nat
  /\ Metadata \subseteq Raw \X ServiceModem
  /\ Merge!MergingAssumption
  /\ \A s \in Batches : Merge!Batch(s)

VARIABLES part, probe

Start == "start"

ComputingInit == part = Start /\ probe = <<>>

Choose ==
  \/ part' = "modem" /\ probe' \in Packets \X BOOLEAN
  \/ part' = "channel" /\ probe' \in Channels
  \/ part' = "power" /\ probe' \in Powers
  \/ part' = "radio" /\ probe' \in Radioed
  \/ part' = "plan" /\ probe' \in Plans
  \/ part' = "metadata" /\ probe' \in Metadata
  \/ part' = "merging" /\ probe' \in Batches

ComputingSpec == ComputingInit /\ [][part = Start /\ Choose]_<<part, probe>>

\* sx1302_radio_calibrate, of lgw_start, calibrates the image of every radio enabled, and fails
\* outside the bands.
Calibrates(ctx) == \A c \in RfChains : ctx.rf[c].enable => Bands(ctx.rf[c].freq) # {}

\* The parsers accept each region's plan with any frequencies of the web page, but lgw_start
\* succeeds with it only if those that replace the plan's are in bands that can be calibrated: no
\* one checks them before, and the program exits otherwise (loragw_sx1250.c:116).
PlanServes(region, freq0, freq1) ==
  /\ SettingsAccepted(region, freq0, freq1)
  /\ Calibrates(ParseSX130x(Patched(RegionPlan(region), freq0, freq1)))
       <=> \A f \in {freq0, freq1} : Replaces(f) => Bands(f) # {}

\* What the program computes of one parameter at several places agrees. The time on air the
\* queue reserves covers the packet but for a millisecond, which its margin holds; the blocks that
\* legacy_timestamp_correction counts hold every nibble; a packet is sent with the sync
\* word, header and low data rate optimisation that the receiving modem is set to expect.
\* A channel that lgw_rxif_setconf accepts is received where it was asked for, with its width
\* inside the band of its radio; a radio is tuned to within a step of the frequency it was
\* asked for; and the gain that sx1302_send takes gives the power thread_down reported.  The settings
\* of a region's plan are accepted with any frequencies of the web page, and its radios calibrated
\* exactly if those are in the bands of the sx1250; and a packet that sx1302_parse accepts can be
\* serialised by thread_up.
ParametersAgree ==
  /\ part = "modem"    => /\ R!AirtimeCovers(probe[1]) /\ R!BlocksHoldAll(probe[1])
                          /\ R!LinkAgreed(probe[1], probe[2])
  /\ part = "channel"  => AcceptedHeard(probe[1], probe[2])
  /\ part = "power"    => PowerAgreed(probe[1], probe[2], probe[3])
  /\ part = "radio"    => TunedAsAsked(probe[1], probe[2])
  /\ part = "plan"     => PlanServes(probe[1], probe[2], probe[3])
  /\ part = "metadata" => Rx!ParsedSerialisable(probe[1], probe[2])

\* merge_packets hands over no packet twice, whatever the order of the demodulations,
\* keeps of each the best, by its CRC and fine timestamp, and hands over all in the order
\* of their reception, across a roll-over.
MergedOnce == part = "merging" => Merge!MergesWell(probe)
=============================================================================
