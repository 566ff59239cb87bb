------------------------------ MODULE MCTxPath ------------------------------
(* Small instances of TxPath for TLC; the values are in the .cfg files. *)
EXTENDS TxPath, MCJitQueue

\* Downlinks whose departure the server chooses.
Scheduled == {"A", "B"}

\* Departures so far ahead that whatever is on its way to the air now is over
\* when the packet is handed over.
WellAhead ==
    (CHOOSE d \in Airtimes : \A a \in Airtimes : a <= d)
        + 2 * JitDelay + MaxDownLag .. MaxAdvance

\* The view of MCJitQueue, with the packet the radio holds.
RelativeTx ==
    << Relative, checked,
       IF radio.pkt = NoPkt THEN radio
       ELSE [radio EXCEPT !.pkt.count = Ago(radio.pkt.count)] >>
=============================================================================
