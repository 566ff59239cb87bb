----------------------------- MODULE Frequencies -----------------------------
(***************************************************************************)
(* Frequencies, in Hz, and the registers of the radios (sx1250, sx1255,    *)
(* sx1257 and sx1261) and of the SX1302 that hold them.  n * 2^25 /        *)
(* 32000000 and its like are computed in 64 bits, here in two parts.       *)
(***************************************************************************)
EXTENDS Integers, Sequences

Scaled(f, factor) == (f \div 15625) * factor + ((f % 15625) * factor) \div 15625

\* SX1250_FREQ_TO_REG, SX1261_FREQ_TO_REG: 2^25 / 32000000 is 16384 / 15625.
Sx1250FreqToReg(f) == Scaled(f, 16384)

\* SX1302_FREQ_TO_REG: 2^18 / 32000000 is 128 / 15625.
Sx1302FreqToReg(f) == Scaled(f, 128)

\* part_int and part_frac of sx125x_setup.
Sx125xParts(type, f) ==
  IF type = "SX1255" THEN <<f \div 2000000, ((f % 2000000) * 512) \div 15625>>
                     ELSE <<f \div 4000000, ((f % 4000000) * 256) \div 15625>>

\* The register of which sx125x_setup writes three bytes.
Sx125xReg(parts) == (parts[1] % 256) * 65536 + ((parts[2] \div 256) % 256) * 256 + (parts[2] % 256)

\* The transmit frequency, for a radio that doubles it or not; 24 bits of it are written.
TxFreqReg(type, f) == Sx1302FreqToReg(IF type = "SX1255" THEN 2 * f ELSE f) % 2^24

\* The frequency, cut to Hz, of a register in steps of 15625 / factor Hz.
Tuned(reg, factor) == (reg \div factor) * 15625 + ((reg % factor) * 15625) \div factor

\* Where the radios work.
Works(type, f) == IF type = "SX1255" THEN f >= 400000000 /\ f <= 510000000 ELSE f >= 150000000 /\ f <= 960000000

\* Where the image of the radios can be calibrated, in MHz.
ImageBands == << <<430, 440>>, <<470, 510>>, <<779, 787>>, <<863, 870>>, <<902, 928>> >>

InBand(b, f) == f > b[1] * 1000000 /\ f < b[2] * 1000000

Bands(f) == {i \in DOMAIN ImageBands : InBand(ImageBands[i], f)}

----------------------------------------------------------------------------

\* The register a receiver is set to, and that of the SX1302 for a transmission, stand
\* for the frequency asked for, to less than one step below, whichever radio is on the
\* board: no byte overflows, and the top byte of the sx1250's does not take its sign
\* (loragw_sx125x.c:259).
TunedAsAsked(type, f) ==
  Works(type, f) =>
    LET near(reg, factor) == Tuned(reg, factor) \in f - (15625 \div factor + 1) .. f
        parts == Sx125xParts(type, f)
    IN  /\ CASE type = "SX1250" -> near(Sx1250FreqToReg(f), 16384) /\ Sx1250FreqToReg(f) \div 2^24 < 2^7
             [] OTHER -> near(Sx125xReg(parts), IF type = "SX1255" THEN 512 ELSE 256)
        /\ near(TxFreqReg(type, f), IF type = "SX1255" THEN 256 ELSE 128)
=============================================================================
