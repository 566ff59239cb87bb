-------------------------------- MODULE Rxpk --------------------------------
(***************************************************************************)
(* What thread_up makes of a packet the concentrator received: constant    *)
(* operators from the packet's metadata to the "rxpk" object of a          *)
(* PUSH_DATA.  The text of the object is left out; its fields and the      *)
(* values thread_up chooses or refuses are kept.                           *)
(***************************************************************************)
EXTENDS Integers, Sequences, FiniteSets

CONSTANT Forward     \* fwd_valid_pkt, fwd_error_pkt, fwd_nocrc_pkt: those that are set

Statuses == {"CRC_OK", "CRC_BAD", "NO_CRC"}

ASSUME RxpkAssumption == Forward \subseteq Statuses

\* A packet the configuration lets through.
Forwarded(p) == p.status \in Forward

SpreadingFactors == 5 .. 12          \* DR_LORA_SF5 .. DR_LORA_SF12
Bandwidths == {125, 250, 500}        \* in kHz, BW_125KHZ ..

\* CR_LORA_4_5 .. CR_LORA_4_8, and 0, "mostly false sync".
CodeRates == 0 .. 4

CodeRateText(codr) == <<"OFF", "4/5", "4/6", "4/7", "4/8">>[codr + 1]

\* The packets thread_up can serialise; it exits on any other.
Encodable(p) ==
    \/ p.modulation = "FSK"
    \/ /\ p.modulation = "LORA"
       /\ p.datarate \in SpreadingFactors
       /\ p.bandwidth \in Bandwidths
       /\ p.coderate \in CodeRates

\* The value of "stat".
StatusValue(status) ==
    CASE status = "CRC_OK" -> 1 [] status = "CRC_BAD" -> -1 [] status = "NO_CRC" -> 0

TimeFields(p, ref) ==
    {"tmst"} \cup (IF ref THEN {"time", "tmms"} ELSE {})
             \cup (IF p.ftime_received THEN {"ftime"} ELSE {})

LoRaFields == {"rssis", "lsnr", "foff"}

\* The object: its time fields, "datr", "codr" and the rest.  ref says whether the copy
\* of the GPS reference can convert the packet's timestamp.
RxpkObject(p, ref) ==
    [ times  |-> TimeFields(p, ref),
      stat   |-> StatusValue(p.status),
      modu   |-> p.modulation,
      datr   |-> IF p.modulation = "LORA" THEN <<p.datarate, p.bandwidth>> ELSE <<p.datarate>>,
      codr   |-> IF p.modulation = "LORA" THEN CodeRateText(p.coderate) ELSE "",
      fields |-> {"jver", "chan", "rfch", "freq", "mid", "rssi", "size", "data"}
                   \cup (IF p.modulation = "LORA" THEN LoRaFields ELSE {}) ]
=============================================================================
