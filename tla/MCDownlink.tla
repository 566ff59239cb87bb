------------------------------ MODULE MCDownlink ------------------------------
(* Small instances of Downlink for TLC; the other values are in the .cfg files. *)
EXTENDS Downlink

TwoChains == {0, 1}
FirstChain == {0}
LowFreq == [c \in TwoChains |-> 1]
HighFreq == [c \in TwoChains |-> 3]
Gains == [c \in TwoChains |-> <<0, 3, 6>>]

\* A class C downlink as it should be, and others that differ from it.
Good == [json |-> "txpk", imme |-> TRUE, tmst |-> FALSE, tmms |-> FALSE, modu |-> "LORA",
         bad |-> {}, rfch |-> 0, freq |-> 2, powe |-> 6, prea |-> Absent]

Samples ==
    { Good,
      [Good EXCEPT !.imme = FALSE, !.tmst = TRUE, !.powe = 5],
      [Good EXCEPT !.imme = FALSE, !.tmms = TRUE],
      [Good EXCEPT !.freq = 4],
      [Good EXCEPT !.bad = {"data"}] }
=============================================================================
