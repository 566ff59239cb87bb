--------------------------------- MODULE Scan ---------------------------------
(***************************************************************************)
(* The sx1261 and the two tasks that use it: thread_spectral_scan measures  *)
(* one frequency after the other, and a downlink that thread_jit sends with *)
(* listen-before-talk takes the radio from it (loragw_sx1261.c).  mx_concent*)
(* is held for each call of the library, not from the start of a scan to    *)
(* its results.                                                            *)
(*                                                                         *)
(* A command to the sx1261 may fail, and the rest of its sequence is left   *)
(* out.  What the AGC and the TX state machines do is in Concentrator.      *)
(* The source has both tasks; no call starts thread_spectral_scan in this   *)
(* build, where the task that shares the sx1261 is yet to be switched on.   *)
(***************************************************************************)
EXTENDS Integers, Sequences, FiniteSets

CONSTANTS NbChan,      \* frequencies to scan
          Chains,      \* radio chains with tx_enable
          MaxErrors    \* commands and readings that fail

ASSUME ScanAssumption == NbChan \in Nat \ {0} /\ MaxErrors \in Nat /\ Chains \subseteq {0, 1}

VARIABLES sx,       \* the sx1261: mode, freq, bw, scan (the status register)
          result,   \* the scan in its memory: freq, state and whether it was printed
          air,      \* "free", "scheduled" or "emitting", of each chain
          conc,     \* who holds mx_concent
          scan,     \* the scan thread: at, chain, tx_status, freq, shown
          jit,      \* thread_jit in lgw_send: at and the packet
          errors    \* commands and readings that failed

scanVars == <<sx, result, air, conc, scan, jit, errors>>

Frequencies == 0 .. NbChan - 1

ScanInit == /\ sx = [mode |-> "standby", freq |-> -1, bw |-> 0, scan |-> "none"]
            /\ result = [freq |-> -1, state |-> "none", printed |-> FALSE] /\ errors = 0 /\ conc = "none"
            /\ air = [c \in Chains |-> "free"]
            /\ scan = [at |-> "pace", tx_status |-> "free", left |-> Chains, freq |-> 0, shown |-> <<>>]
            /\ jit = [at |-> "idle"]

----------------------------------------------------------------------------
(* The sx1261, as the code uses it.                                        *)

\* Writing 0 to the averaging window register ends a scan that goes on.
Write(chip, w) ==
  IF w[1] = "window" THEN IF w[2] = 0 /\ chip.scan = "ongoing" THEN [chip EXCEPT !.scan = "aborted"] ELSE chip
  ELSE [chip EXCEPT ![w[1]] = w[2]]

\* The chip after the first n writes.
After(chip, writes, n) ==
  LET run[k \in 0 .. Len(writes)] == IF k = 0 THEN chip ELSE Write(run[k - 1], writes[k])
  IN  run[n]

\* sx1261_set_rx_params; the packet type and parameters are left out.  It stops with an
\* error at a bandwidth it has no setting for.
RxWrites(freq, bw) ==
  <<<<"window", 0>>, <<"mode", "fs">>, <<"freq", freq>>, <<"window", 5>>>>
    \o (IF bw \in {125, 250} THEN <<<<"bw", bw>>, <<"mode", "rx">>>> ELSE <<>>)

\* The bandwidth of a channel is one of these.
Bandwidths == {125, 250, 500}

LbtStartWrites(freq, bw) == RxWrites(freq, bw) \o <<<<"mode", "lbt">>>>
LbtStopWrites == <<<<"window", 0>>, <<"mode", "fs">>>>
ScanStartWrites(freq) == RxWrites(freq, 125) \o <<<<"scan", "ongoing">>>>

Errs == errors < MaxErrors /\ errors' = errors + 1

\* A scan that goes on comes to its end.
Progress == /\ sx.scan = "ongoing"
            /\ sx' = [sx EXCEPT !.scan = "completed"]
            /\ result' = [result EXCEPT !.state = IF @ = "measuring" THEN "whole" ELSE @]
            /\ UNCHANGED <<air, conc, scan, jit, errors>>

\* A scan that goes on is spoilt when it is ended or the radio is set to something else.
Disturb(old, new) ==
  result' = IF old.scan = "ongoing" /\ <<new.scan, new.freq, new.mode>> # <<old.scan, old.freq, old.mode>>
              THEN [result EXCEPT !.state = "spoilt"] ELSE result

----------------------------------------------------------------------------
(* thread_jit: lgw_send with listen-before-talk, mx_concent held.          *)

\* Mutant: nobody waits for the mutex.
TakeNoWait(task) == conc' = task

\* mx_concent
Take(task) == conc = "none" /\ conc' = task

SendBegins == /\ jit.at = "idle" /\ Take("jit")
              /\ \E f \in Frequencies, bw \in Bandwidths, c \in Chains :
                   /\ air[c] = "free"
                   /\ jit' = [at |-> "start", freq |-> f, bw |-> bw, chain |-> c]
              /\ UNCHANGED <<sx, result, air, scan, errors>>

\* lgw_lbt_start.
LbtStart ==
  /\ jit.at = "start"
  /\ LET refused == jit.bw \notin {125, 250}
         writes  == IF refused THEN RxWrites(jit.freq, jit.bw) ELSE LbtStartWrites(jit.freq, jit.bw)
     IN  \E n \in 0 .. Len(writes) :
           /\ sx' = After(sx, writes, n)
           /\ Disturb(sx, sx')
           /\ IF n = Len(writes) THEN UNCHANGED errors ELSE Errs
           /\ IF n = Len(writes) /\ ~refused
                THEN jit' = [jit EXCEPT !.at = "listening"] /\ UNCHANGED conc
                ELSE jit' = [at |-> "idle"] /\ conc' = "none"
  /\ UNCHANGED <<air, scan>>

\* The TX state machine asks the AGC, which asks the sx1261.
Decide == /\ jit.at = "listening"
          /\ \E allowed \in BOOLEAN :
               air' = [air EXCEPT ![jit.chain] = IF allowed THEN "emitting" ELSE "free"]
          /\ jit' = [jit EXCEPT !.at = "stop"]
          /\ UNCHANGED <<sx, result, conc, scan, errors>>

\* lgw_lbt_stop, and lgw_send returns.
LbtStop ==
  /\ jit.at = "stop"
  /\ \E n \in 0 .. 2 :
       /\ sx' = After(sx, LbtStopWrites, n)
       /\ Disturb(sx, sx')
       /\ IF n = 2 THEN UNCHANGED errors ELSE Errs
  /\ jit' = [at |-> "idle"] /\ conc' = "none"
  /\ UNCHANGED <<air, scan>>

\* A downlink is programmed without listening, where LBT is disabled, or one that is on
\* its way goes on.
Airtime == /\ \E c \in Chains :
                \/ /\ air[c] = "free" /\ conc = "none" /\ air' = [air EXCEPT ![c] = "scheduled"]
                \/ /\ air[c] = "scheduled" /\ air' = [air EXCEPT ![c] = "emitting"]
                \/ /\ air[c] = "emitting" /\ air' = [air EXCEPT ![c] = "free"]
           /\ UNCHANGED <<sx, result, conc, scan, jit, errors>>

----------------------------------------------------------------------------
(* thread_spectral_scan.                                                   *)

\* A round begins with mx_concent.
Round == /\ scan.at = "pace" /\ Take("scan")
         /\ scan' = [scan EXCEPT !.at = "check", !.left = Chains, !.shown = <<>>]
         /\ UNCHANGED <<sx, result, air, jit, errors>>

Programmed == {"scheduled", "emitting"}

\* Mutant: the status of the last chain is the one that counts.
CheckTxLast ==
  /\ scan.at = "check" /\ scan.left # {}
  /\ LET c == CHOOSE x \in scan.left : \A y \in scan.left : x <= y
     IN  \E status \in {air[c], "unknown"} :
           /\ IF status = "unknown" THEN Errs ELSE UNCHANGED errors
           /\ scan' = [scan EXCEPT !.tx_status = status, !.left = @ \ {c}]
  /\ UNCHANGED <<sx, result, air, conc, jit>>

\* lgw_status of the next chain, which returns the unknown status when the register
\* cannot be read: the first that has a downlink programmed ends the loop.
CheckTx ==
  /\ scan.at = "check" /\ scan.left # {}
  /\ LET c == CHOOSE x \in scan.left : \A y \in scan.left : x <= y
     IN  \E status \in {air[c], "unknown"} :
           /\ IF status = "unknown" THEN Errs ELSE UNCHANGED errors
           /\ scan' = [scan EXCEPT !.tx_status = status,
                                   !.left = IF status \in Programmed THEN {} ELSE @ \ {c}]
  /\ UNCHANGED <<sx, result, air, conc, jit>>

\* The scan is skipped, or lgw_spectral_scan_start runs to its end or to a failure.
ScanStart ==
  /\ scan.at = "check" /\ scan.left = {} /\ conc' = "none"
  /\ IF scan.tx_status \in Programmed
       THEN /\ scan' = [scan EXCEPT !.at = "pace"]
            /\ UNCHANGED <<sx, result, errors>>
       ELSE LET writes == ScanStartWrites(scan.freq)
            IN  \E n \in 0 .. Len(writes) :
                  /\ sx' = After(sx, writes, n)
                  /\ IF n = Len(writes)
                       THEN /\ scan' = [scan EXCEPT !.at = "poll"]
                            /\ result' = [freq |-> sx'.freq, state |-> "measuring", printed |-> FALSE]
                            /\ UNCHANGED errors
                       ELSE scan' = [scan EXCEPT !.at = "pace"] /\ Disturb(sx, sx') /\ Errs
  /\ UNCHANGED <<air, jit>>

\* lgw_spectral_scan_get_status until the scan is completed or aborted; giving up is
\* reading an error or the timeout.
Poll ==
  /\ scan.at = "poll" /\ conc = "none"
  /\ \/ scan' = [scan EXCEPT !.at = CASE sx.scan = "completed" -> "results"
                                      [] sx.scan = "aborted"   -> "pace"
                                      [] OTHER                 -> "poll"]
        /\ UNCHANGED errors
     \/ scan' = [scan EXCEPT !.at = "pace"] /\ Errs
  /\ UNCHANGED <<sx, result, air, conc, jit>>

\* The results are read and printed, with the frequency the thread believes them to
\* be of; the next one is due.
Results ==
  /\ scan.at = "results" /\ conc = "none"
  /\ \/ /\ scan' = [scan EXCEPT !.at = "pace", !.shown = <<scan.freq, result>>, !.freq = (@ + 1) % NbChan]
        /\ result' = [result EXCEPT !.printed = TRUE]
        /\ UNCHANGED errors
     \/ /\ scan' = [scan EXCEPT !.at = "pace"] /\ UNCHANGED result /\ Errs
  /\ UNCHANGED <<sx, air, conc, jit>>

ScanNext == \/ Progress \/ SendBegins \/ LbtStart \/ Decide \/ LbtStop \/ Airtime
            \/ Round \/ CheckTx \/ ScanStart \/ Poll \/ Results

----------------------------------------------------------------------------

\* The results printed are those of the frequency they are printed with, measured
\* without the radio being taken away in between, and are printed once: a scan that
\* a downlink interrupts, or that failed to start, does not show
\* (lora_pkt_fwd.c:3844).
ScanAsPrinted == scan.shown # <<>> => scan.shown[2] = [freq |-> scan.shown[1], state |-> "whole", printed |-> FALSE]

\* While the TX state machine waits for the sx1261, the sx1261 listens, and on the
\* packet's channel: no scan retunes it (lora_pkt_fwd.c:3794).
ListensOnChannel ==
  jit.at = "listening" => sx.mode = "lbt" /\ sx.freq = jit.freq /\ sx.bw = jit.bw /\ sx.scan # "ongoing"

\* The spectral scan and listen-before-talk share one radio without either taking the
\* other's measurements for its own.
Sx1261Shared == ScanAsPrinted /\ ListensOnChannel

\* A scan is begun only while no chain has a downlink programmed, if the statuses could
\* be read: the first that is busy counts, and nothing is programmed while the others
\* are looked at (lora_pkt_fwd.c:3804).
NoScanOverDownlink ==
  [][scan.at = "check" /\ scan'.at = "poll" => errors > 0 \/ \A c \in Chains : air[c] = "free"]_scanVars
=============================================================================
