------------------------------ MODULE MCUplink ------------------------------
(* Small instances of Uplink for TLC; the other values are in the .cfg file. *)
EXTENDS Uplink

LoRa == [status |-> "CRC_OK", modulation |-> "LORA", datarate |-> 7, bandwidth |-> 125,
         coderate |-> 1]

\* A good packet, one that is filtered out, one thread_up cannot serialise.
Samples ==
    {LoRa, [LoRa EXCEPT !.status = "CRC_BAD"], [LoRa EXCEPT !.coderate = 5]}

ValidOnly == {"CRC_OK"}
=============================================================================
