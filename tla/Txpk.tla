-------------------------------- MODULE Txpk --------------------------------
(***************************************************************************)
(* What thread_down makes of the JSON of a PULL_RESP: constant operators   *)
(* from a request of the server to the packet for the radio, or to the     *)
(* reason why there is none.  Of the JSON text only this is kept: whether  *)
(* it parses, which time fields it has, which mandatory fields are missing *)
(* or out of format, and the values the program computes with.             *)
(***************************************************************************)
EXTENDS Integers, Sequences, FiniteSets

CONSTANTS
    Chains,      \* the RF chains
    TxEnabled,   \* tx_enable: the chains that may transmit
    FreqMin,     \* tx_freq_min, tx_freq_max: per chain
    FreqMax,
    Lut,         \* txlut: per chain, the powers of the gain table, in its order
    AntennaGain  \* antenna_gain

Modulations == {"LORA", "FSK", "other", "absent"}

\* The fields a request must have, right down to their format.
Mandatory(modu) ==
    {"freq", "rfch", "modu", "size", "data"}
        \cup (CASE modu = "LORA" -> {"datr", "codr"}
                [] modu = "FSK"  -> {"datr", "fdev"}
                [] OTHER         -> {})

Fields == Mandatory("LORA") \cup Mandatory("FSK")

Absent == -1000

\* An int8_t.
Int8(x) == ((x + 128) % 256) - 128

ASSUME TxpkAssumption ==
    /\ TxEnabled \subseteq Chains
    /\ FreqMin \in [Chains -> Int] /\ FreqMax \in [Chains -> Int]
    /\ \A c \in Chains : Lut[c] \in Seq(-128 .. 127) /\ Lut[c] # <<>>
    /\ AntennaGain \in -128 .. 127

-----------------------------------------------------------------------------
(* The class of a downlink: by the time field that comes first.              *)

HasTime(r) == r.imme \/ r.tmst \/ r.tmms

Class(r) == IF r.imme THEN "C" ELSE IF r.tmst THEN "A" ELSE "B"

TxMode(r) == IF r.imme THEN "IMMEDIATE" ELSE "TIMESTAMPED"

\* A class B request is answered at once while there is no GPS reference,
\* whatever its other fields are.
NeedsGps(r, gps) == r.json = "txpk" /\ HasTime(r) /\ Class(r) = "B" /\ gps = "unlocked"

\* The requests thread_down drops without a word.
Malformed(r, gps) ==
    \/ r.json # "txpk"
    \/ ~HasTime(r)
    \/ ~NeedsGps(r, gps) /\ \/ Class(r) = "B" /\ gps = "inconvertible"
                            \/ r.modu \notin {"LORA", "FSK"}
                            \/ r.bad \cap Mandatory(r.modu) # {}
                            \/ r.rfch \notin TxEnabled

-----------------------------------------------------------------------------
(* The packet.                                                               *)

MinPreamble(modu) == IF modu = "LORA" THEN 6 ELSE 3
StdPreamble(modu) == IF modu = "LORA" THEN 8 ELSE 5

Preamble(r) ==
    IF r.prea = Absent THEN StdPreamble(r.modu)
    ELSE IF r.prea >= MinPreamble(r.modu) THEN r.prea ELSE MinPreamble(r.modu)

\* The antenna's gain is subtracted from a power that is given, and only then.
Power(r) == IF r.powe = Absent THEN 0 ELSE Int8(Int8(r.powe) - AntennaGain)

\* get_tx_gain_lut_index: the first entry of the greatest power within the
\* limit; 0, and the first entry of the table, when every entry exceeds it.
Within(lut, power) == { i \in DOMAIN lut : lut[i] <= power }

GainIndex(lut, power) ==
    IF Within(lut, power) = {} THEN 0
    ELSE CHOOSE i \in Within(lut, power) : \A j \in Within(lut, power) :
             lut[j] < lut[i] \/ (lut[j] = lut[i] /\ i <= j)

UsedPower(lut, power) ==
    IF GainIndex(lut, power) = 0 THEN lut[1] ELSE lut[GainIndex(lut, power)]

PowerWarns(lut, power) == GainIndex(lut, power) = 0 \/ UsedPower(lut, power) # power

FreqRefused(r) == r.freq < FreqMin[r.rfch] \/ r.freq > FreqMax[r.rfch]

Txpkt(r) ==
    [class |-> Class(r), mode |-> TxMode(r), chain |-> r.rfch, modu |-> r.modu,
     preamble |-> Preamble(r), power |-> UsedPower(Lut[r.rfch], Power(r))]

\* warning_result: the power had to be changed.
Warning(r) == IF PowerWarns(Lut[r.rfch], Power(r)) THEN "TX_POWER" ELSE "OK"
=============================================================================
