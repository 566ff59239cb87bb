----------------------------- MODULE MCJitQueue -----------------------------
(* Small instances of JitQueue for TLC; the values are in the .cfg files. *)
EXTENDS JitQueue

DownlinksOnly == {"A", "B", "C"}
ClassesAAndC == {"A", "C"}
WithBeacons == Kinds

\* Departures from just passed to just too far ahead.
ServerWindow == {Wrap - 1} \cup 0 .. MaxAdvance + 1

\* Beacons of the periods to come.
NextPeriods == 0 .. MaxAdvance

(* Nothing in JitQueue depends on the counter but through differences: states *)
(* that differ by a rotation of the counter are one state of the view.        *)
Ago(t) == Minus(now, t)
Relative ==
    << [i \in DOMAIN nodes |-> [nodes[i] EXCEPT !.count = Ago(nodes[i].count)]],
       num_beacon, verdict,
       IF down.pc = "idle" THEN <<>> ELSE <<down.pc, Ago(down.time)>>,
       [jit EXCEPT !.time = Ago(jit.time),
                   !.pkt = IF jit.pkt = NoPkt THEN NoPkt
                           ELSE [jit.pkt EXCEPT !.count = Ago(jit.pkt.count)]] >>
=============================================================================
