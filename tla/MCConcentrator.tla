--------------------------- MODULE MCConcentrator ---------------------------
EXTENDS Concentrator, TLC

Both(a, b) == 0 :> a @@ 1 :> b

Board(typeA, typeB, txA, lbt, fdd, ftime, gains) ==
  [type |-> Both(typeA, typeB), enable |-> Both(TRUE, typeB # "none"), tx |-> Both(txA, FALSE),
   clksrc |-> 0, lbt |-> lbt, fdd |-> fdd, ftime |-> ftime, service |-> TRUE, fsk |-> ~fdd, gains |-> gains]

\* Two sx1250, alone or with a sx1261; radios of the sx125x family alike, unlike
\* or alone, with a transmit gain to calibrate or none.
Boards == {Board("sx1250", "sx1250", TRUE, FALSE, FALSE, "off", 1),
           Board("sx1250", "sx1250", TRUE, TRUE, FALSE, "high", 1),
           Board("sx1257", "sx1257", FALSE, FALSE, FALSE, "all", 1),
           Board("sx1257", "sx1255", TRUE, TRUE, TRUE, "off", 1),
           Board("sx1257", "none", FALSE, FALSE, TRUE, "off", 1)}
=============================================================================
