----------------------------- MODULE RadioProofs -----------------------------
(***************************************************************************)
(* For any number of frequencies, chains and failing commands: a spectral   *)
(* scan does not begin over a downlink, and the scan and listen-before-talk *)
(* do not take the sx1261 from each other unnoticed.  For any frequencies   *)
(* of radios, registers left over and number of failing accesses: a set-up  *)
(* that reports success left the radio as asked.                           *)
(***************************************************************************)
EXTENDS Scan, SetUp, NaturalsInduction, WellFoundedInduction, SequenceTheorems, TLAPS

ScanSpec == ScanInit /\ [][ScanNext]_scanVars

ScanFields == {"at", "tx_status", "left", "freq", "shown"}

ScanTypes == /\ errors \in Nat
             /\ air \in [Chains -> {"free", "scheduled", "emitting"}]
             /\ DOMAIN scan = ScanFields /\ scan.left \subseteq Chains
             /\ "at" \in DOMAIN jit

\* A task that is in the library holds mx_concent.
Holding == /\ scan.at = "check" => conc = "scan"
           /\ jit.at # "idle" => conc = "jit"

\* What the loop over the chains has seen: one that is busy, which ended it, or only
\* free ones; they stay free while mx_concent is held.
Seen == scan.at = "check" /\ errors = 0 =>
          \/ scan.left = {} /\ scan.tx_status \in Programmed
          \/ \A c \in Chains \ scan.left : air[c] = "free"

ScanInv == ScanTypes /\ Holding /\ Seen

\* At the start no task is in the library.
LEMMA InitInv == ScanInit => ScanInv
BY DEF ScanInit, ScanInv, ScanTypes, ScanFields, Holding, Seen

\* thread_jit, with mx_concent: no round of the scan is checking.
LEMMA JitInv == ScanInv /\ (SendBegins \/ LbtStart \/ Decide \/ LbtStop) => ScanInv'
<1> SUFFICES ASSUME ScanInv, SendBegins \/ LbtStart \/ Decide \/ LbtStop PROVE ScanInv'
  OBVIOUS
<1>1. scan' = scan /\ scan.at # "check"
  BY DEF SendBegins, LbtStart, Decide, LbtStop, Take, ScanInv, Holding
<1>2. errors' \in Nat
  BY DEF SendBegins, LbtStart, Decide, LbtStop, Errs, ScanInv, ScanTypes
<1>3. air' \in [Chains -> {"free", "scheduled", "emitting"}]
  BY DEF SendBegins, LbtStart, Decide, LbtStop, ScanInv, ScanTypes
<1>4. "at" \in DOMAIN jit' /\ (jit'.at # "idle" => conc' = "jit")
  <2>1. CASE SendBegins
    BY <2>1 DEF SendBegins, Take
  <2>2. CASE LbtStart
    <3>1. jit.at = "start" /\ conc = "jit" /\ "at" \in DOMAIN jit
      BY <2>2 DEF LbtStart, ScanInv, Holding, ScanTypes
    <3>2. \/ jit' = [jit EXCEPT !.at = "listening"] /\ conc' = conc
          \/ jit' = [at |-> "idle"]
      BY <2>2 DEF LbtStart
    <3> QED
      BY <3>1, <3>2
  <2>3. CASE Decide
    BY <2>3 DEF Decide, ScanInv, Holding, ScanTypes
  <2>4. CASE LbtStop
    BY <2>4 DEF LbtStop
  <2> QED
    BY <2>1, <2>2, <2>3, <2>4
<1> QED
  BY <1>1, <1>2, <1>3, <1>4 DEF ScanInv, ScanTypes, Holding, Seen

\* What goes on without mx_concent: a free chain is not programmed while it is held.
LEMMA RadioInv == ScanInv /\ (Progress \/ Airtime) => ScanInv'
<1> SUFFICES ASSUME ScanInv, Progress \/ Airtime PROVE ScanInv'
  OBVIOUS
<1>1. UNCHANGED <<scan, jit, conc, errors>>
  BY DEF Progress, Airtime
<1>2. air' \in [Chains -> {"free", "scheduled", "emitting"}]
  BY DEF Progress, Airtime, ScanInv, ScanTypes
<1>3. ASSUME scan.at = "check", NEW c \in Chains, air[c] = "free" PROVE air'[c] = "free"
  BY <1>3 DEF Progress, Airtime, ScanInv, ScanTypes, Holding
<1> QED
  BY <1>1, <1>2, <1>3 DEF ScanInv, ScanTypes, Holding, Seen

\* Looking at one chain of the concentrator keeps what was seen of the others.
LEMMA CheckTxInv == ScanInv /\ CheckTx => ScanInv'
<1> SUFFICES ASSUME ScanInv, CheckTx PROVE ScanInv'
  OBVIOUS
<1> DEFINE c == CHOOSE x \in scan.left : \A y \in scan.left : x <= y
<1>1. scan.at = "check" /\ scan.left # {} /\ UNCHANGED <<air, conc, jit>>
  BY DEF CheckTx
<1>2. PICK status \in {air[c], "unknown"} :
        /\ IF status = "unknown" THEN Errs ELSE UNCHANGED errors
        /\ scan' = [scan EXCEPT !.tx_status = status,
                                !.left = IF status \in Programmed THEN {} ELSE @ \ {c}]
  BY DEF CheckTx
<1> HIDE DEF c
<1>3. /\ DOMAIN scan' = ScanFields /\ scan'.at = "check" /\ scan'.tx_status = status
      /\ scan'.left = IF status \in Programmed THEN {} ELSE scan.left \ {c}
  BY <1>1, <1>2 DEF ScanInv, ScanTypes, ScanFields
<1>4. errors' \in Nat /\ (errors' = 0 => errors = 0 /\ status # "unknown")
  BY <1>2 DEF Errs, ScanInv, ScanTypes
<1>5. Seen'
  <2> SUFFICES ASSUME errors' = 0, status \notin Programmed, NEW d \in Chains \ scan'.left
               PROVE  air[d] = "free"
    BY <1>1, <1>3 DEF Seen
  <2>1. CASE d \in scan.left
    <3>1. d = c /\ status = air[d]
      BY <1>2, <1>3, <1>4, <2>1
    <3> QED
      BY <3>1 DEF ScanInv, ScanTypes, Programmed
  <2>2. CASE d \notin scan.left
    BY <1>1, <1>4, <2>2 DEF ScanInv, Seen
  <2> QED
    BY <2>1, <2>2
<1> QED
  BY <1>1, <1>3, <1>4, <1>5 DEF ScanInv, ScanTypes, Holding

\* The other steps of thread_spectral_scan keep the invariant.
LEMMA TaskInv == ScanInv /\ (Round \/ ScanStart \/ Poll \/ Results) => ScanInv'
<1> SUFFICES ASSUME ScanInv, Round \/ ScanStart \/ Poll \/ Results PROVE ScanInv'
  OBVIOUS
<1>1. CASE Round
  <2>1. /\ conc = "none" /\ conc' = "scan" /\ UNCHANGED <<air, jit, errors>>
        /\ scan' = [scan EXCEPT !.at = "check", !.left = Chains, !.shown = <<>>]
    BY <1>1 DEF Round, Take
  <2>2. DOMAIN scan' = ScanFields /\ scan'.left = Chains
    BY <2>1 DEF ScanInv, ScanTypes, ScanFields
  <2> QED
    BY <2>1, <2>2 DEF ScanInv, ScanTypes, Holding, Seen
<1>2. CASE ScanStart \/ Poll \/ Results
  <2>1. UNCHANGED <<air, jit>> /\ conc' = "none"
    BY <1>2 DEF ScanStart, Poll, Results
  <2>2. errors' \in Nat
    BY <1>2 DEF ScanStart, Poll, Results, Errs, ScanInv, ScanTypes
  <2>3. DOMAIN scan' = ScanFields /\ scan'.left = scan.left /\ scan'.at # "check"
    BY <1>2 DEF ScanStart, Poll, Results, ScanInv, ScanTypes, ScanFields
  <2>4. jit.at = "idle"
    BY <1>2 DEF ScanStart, Poll, Results, ScanInv, Holding
  <2> QED
    BY <2>1, <2>2, <2>3, <2>4 DEF ScanInv, ScanTypes, Holding, Seen
<1> QED
  BY <1>1, <1>2

\* Every step keeps it.
LEMMA NextInv == ScanInv /\ [ScanNext]_scanVars => ScanInv'
<1> SUFFICES ASSUME ScanInv, [ScanNext]_scanVars PROVE ScanInv'
  OBVIOUS
<1>1. CASE UNCHANGED scanVars
  BY <1>1 DEF scanVars, ScanInv, ScanTypes, Holding, Seen
<1> QED
  BY <1>1, JitInv, RadioInv, CheckTxInv, TaskInv DEF ScanNext

\* A scan is begun only while no chain has a downlink programmed, if every status
\* could be read: thread_spectral_scan keeps mx_concent from its first lgw_status to
\* the start of the scan.
THEOREM ScanNeverOverDownlink == ScanSpec => NoScanOverDownlink
<1>1. ASSUME ScanInv, ScanInv', [ScanNext]_scanVars, scan.at = "check", scan'.at = "poll"
      PROVE  errors > 0 \/ \A c \in Chains : air[c] = "free"
  <2>1. ScanStart
    BY <1>1 DEF ScanNext, Progress, SendBegins, LbtStart, Decide, LbtStop, Airtime, Round, CheckTx,
                Poll, Results, scanVars, ScanInv, ScanTypes, ScanFields
  <2>2. scan.left = {} /\ scan.tx_status \notin Programmed
    BY <1>1, <2>1 DEF ScanStart, ScanInv, ScanTypes, ScanFields
  <2>3. errors = 0 \/ errors > 0
    BY <1>1 DEF ScanInv, ScanTypes
  <2> QED
    BY <1>1, <2>2, <2>3 DEF ScanInv, Seen
<1>2. ScanInit => ScanInv
  BY InitInv
<1>3. ScanInv /\ [ScanNext]_scanVars => ScanInv'
  BY NextInv
<1>4. ScanInv /\ ScanInv' /\ [ScanNext]_scanVars
        => [scan.at = "check" /\ scan'.at = "poll" => errors > 0 \/ \A c \in Chains : air[c] = "free"]_scanVars
  BY <1>1
<1> QED
  BY <1>2, <1>3, <1>4, PTL DEF ScanSpec, NoScanOverDownlink

-----------------------------------------------------------------------------
(* Sequences of writes, one after the other.                                 *)
\* A set of natural numbers that is not empty has a least element.
LEMMA Lowest ==
    ASSUME NEW S \in SUBSET Nat, S # {}
    PROVE  \E x \in S : \A y \in S : x <= y
<1>1. PICK x \in S : \A y \in S : ~(<<y, x>> \in OpToRel(<, Nat))
  BY NatLessThanWellFounded, WFMin
<1>2. \A y \in S : ~(y < x)
  BY <1>1 DEF OpToRel
<1> QED
  BY <1>2

\* f is the sx1261 after each of the first m writes.
IsRun(f, radio, writes, m) ==
  f = [k \in 0 .. m |-> IF k = 0 THEN radio ELSE Write(f[k - 1], writes[k])]

\* There is one, so After is what its definition says.
LEMMA RunExists ==
    ASSUME NEW radio, NEW writes, Len(writes) \in Nat, NEW m \in 0 .. Len(writes)
    PROVE  \E f : IsRun(f, radio, writes, m)
<1> DEFINE Runs(j) == \E f : IsRun(f, radio, writes, j)
           Bad == {j \in 0 .. Len(writes) : ~Runs(j)}
<1>1. Runs(0)
  <2> DEFINE f == [k \in 0 .. 0 |-> radio]
  <2>1. f = [k \in 0 .. 0 |-> IF k = 0 THEN radio ELSE Write(f[k - 1], writes[k])]
    OBVIOUS
  <2> QED
    BY <2>1 DEF IsRun
<1>2. ASSUME NEW j \in 1 .. Len(writes), Runs(j - 1) PROVE Runs(j)
  <2>1. PICK f : f = [k \in 0 .. j - 1 |-> IF k = 0 THEN radio ELSE Write(f[k - 1], writes[k])]
    BY <1>2 DEF IsRun
  <2> DEFINE g == [k \in 0 .. j |-> IF k = j THEN Write(f[j - 1], writes[j]) ELSE f[k]]
             h == [k \in 0 .. j |-> IF k = 0 THEN radio ELSE Write(g[k - 1], writes[k])]
  <2>2. ASSUME NEW k \in 0 .. j PROVE g[k] = h[k]
    <3>1. CASE k = j
      BY <3>1
    <3>2. CASE k # j /\ k # 0
      <4>1. f[k] = Write(f[k - 1], writes[k])
        BY <2>1, <3>2
      <4>2. g[k] = f[k] /\ g[k - 1] = f[k - 1]
        BY <3>2
      <4> QED
        BY <4>1, <4>2, <3>2
    <3>3. CASE k = 0
      BY <3>3, <2>1
    <3> QED
      BY <3>1, <3>2, <3>3
  <2>3. g = h
    BY <2>2
  <2> HIDE DEF g
  <2>4. IsRun(g, radio, writes, j)
    BY <2>3 DEF IsRun
  <2> QED
    BY <2>4
<1> HIDE DEF Runs
<1>3. Bad = {}
  <2> SUFFICES ASSUME Bad # {} PROVE FALSE
    OBVIOUS
  <2>1. Bad \in SUBSET Nat
    OBVIOUS
  <2>2. PICK j \in Bad : \A i \in Bad : j <= i
    BY <2>1, Lowest
  <2>3. j # 0 /\ j \in 1 .. Len(writes)
    BY <1>1
  <2>4. j - 1 \in 0 .. Len(writes) /\ j - 1 \notin Bad
    BY <2>2, <2>3
  <2> QED
    BY <2>3, <2>4, <1>2
<1> QED
  BY <1>3 DEF Runs

\* What the sx1261 is after some writes: as it was, and each write changes it in turn.
LEMMA AfterWrites ==
    ASSUME NEW radio, NEW writes, Len(writes) \in Nat
    PROVE  /\ After(radio, writes, 0) = radio
           /\ \A n \in 1 .. Len(writes) : After(radio, writes, n) = Write(After(radio, writes, n - 1), writes[n])
<1> DEFINE Run == CHOOSE f : f = [k \in 0 .. Len(writes) |-> IF k = 0 THEN radio ELSE Write(f[k - 1], writes[k])]
<1>1. Run = [k \in 0 .. Len(writes) |-> IF k = 0 THEN radio ELSE Write(Run[k - 1], writes[k])]
  <2>1. Len(writes) \in 0 .. Len(writes)
    OBVIOUS
  <2>2. \E f : IsRun(f, radio, writes, Len(writes))
    BY <2>1, RunExists
  <2> QED
    BY <2>2 DEF IsRun
<1>2. \A n : After(radio, writes, n) = Run[n]
  BY DEF After
<1> HIDE DEF Run
<1>3. /\ Run[0] = radio
      /\ \A n \in 1 .. Len(writes) : Run[n] = Write(Run[n - 1], writes[n])
  BY <1>1
<1> QED
  BY <1>2, <1>3

\* One write of a sequence.
LEMMA AfterEach ==
    ASSUME NEW radio, NEW writes, Len(writes) \in Nat, NEW n \in 1 .. Len(writes)
    PROVE  After(radio, writes, n) = Write(After(radio, writes, n - 1), writes[n])
BY AfterWrites, ZenonT(40)

-----------------------------------------------------------------------------
(* The sx1261 under a sequence of writes.                                    *)

Modes == {"standby", "fs", "rx", "lbt"}

\* The sx1261, and the writes the library makes to it.
Chip == [mode : Modes, freq : Frequencies \cup {-1}, bw : {0, 125, 250},
         scan : {"none", "ongoing", "completed", "aborted"}]
Orders == ({"window"} \X {0, 5}) \cup ({"mode"} \X Modes) \cup ({"freq"} \X Frequencies)
            \cup ({"bw"} \X {125, 250}) \cup ({"scan"} \X {"ongoing"})

\* What a scan that goes on becomes when the averaging window is cleared.
Ended(status) == IF status = "ongoing" THEN "aborted" ELSE status

\* A write leaves the sx1261 in one of its states.
LEMMA WriteType ==
    ASSUME NEW radio \in Chip, NEW w \in Orders
    PROVE  Write(radio, w) \in Chip
<1>1. CASE w \in {"window"} \X {0, 5}
  BY <1>1 DEF Write, Chip
<1>2. CASE w \in {"mode"} \X Modes
  BY <1>2 DEF Write, Chip, Modes
<1>3. CASE w \in {"freq"} \X Frequencies
  BY <1>3 DEF Write, Chip, Modes
<1>4. CASE w \in {"bw"} \X {125, 250}
  BY <1>4 DEF Write, Chip, Modes
<1>5. CASE w \in {"scan"} \X {"ongoing"}
  BY <1>5 DEF Write, Chip, Modes
<1> QED
  BY <1>1, <1>2, <1>3, <1>4, <1>5 DEF Orders

\* Any number of writes leave a radio.
LEMMA AfterType ==
    ASSUME NEW radio \in Chip, NEW writes \in Seq(Orders), NEW n \in 0 .. Len(writes)
    PROVE  After(radio, writes, n) \in Chip
<1> DEFINE Bad == {k \in 0 .. Len(writes) : After(radio, writes, k) \notin Chip}
<1>1. Len(writes) \in Nat
  OBVIOUS
<1>2. After(radio, writes, 0) \in Chip
  BY <1>1, AfterWrites
<1>3. ASSUME NEW k \in 1 .. Len(writes), After(radio, writes, k - 1) \in Chip
      PROVE  After(radio, writes, k) \in Chip
  <2>1. After(radio, writes, k) = Write(After(radio, writes, k - 1), writes[k])
    BY <1>1, AfterWrites, ZenonT(40)
  <2>2. writes[k] \in Orders
    OBVIOUS
  <2> QED
    BY <1>3, <2>1, <2>2, WriteType
<1>4. Bad = {}
  <2> SUFFICES ASSUME Bad # {} PROVE FALSE
    OBVIOUS
  <2>1. Bad \in SUBSET Nat
    OBVIOUS
  <2>2. PICK k \in Bad : \A i \in Bad : k <= i
    BY <2>1, Lowest
  <2>3. k \in 1 .. Len(writes)
    BY <1>2
  <2>4. k - 1 \in 0 .. Len(writes) /\ k - 1 \notin Bad
    BY <2>2, <2>3
  <2> QED
    BY <2>3, <2>4, <1>3
<1> QED
  BY <1>4

\* A sequence that begins by clearing the window and starts no scan ends the one that
\* goes on.
LEMMA ScanEnds ==
    ASSUME NEW radio \in Chip, NEW writes \in Seq(Orders), NEW n \in 1 .. Len(writes),
           writes[1] = <<"window", 0>>, \A k \in 1 .. Len(writes) : writes[k][1] # "scan"
    PROVE  After(radio, writes, n).scan = Ended(radio.scan)
<1> DEFINE Bad == {k \in 1 .. Len(writes) : After(radio, writes, k).scan # Ended(radio.scan)}
<1>1. Len(writes) \in Nat
  OBVIOUS
<1>2. After(radio, writes, 1).scan = Ended(radio.scan)
  <2>1. After(radio, writes, 1) = Write(radio, <<"window", 0>>)
    <3>1. 1 \in 1 .. Len(writes)
      OBVIOUS
    <3>2. After(radio, writes, 1) = Write(After(radio, writes, 1 - 1), writes[1])
      BY <1>1, <3>1, AfterWrites
    <3>3. After(radio, writes, 1 - 1) = radio
      BY <1>1, AfterWrites
    <3> QED
      BY <3>2, <3>3
  <2> QED
    BY <2>1 DEF Write, Ended, Chip
<1>3. ASSUME NEW k \in 2 .. Len(writes), After(radio, writes, k - 1).scan = Ended(radio.scan)
      PROVE  After(radio, writes, k).scan = Ended(radio.scan)
  <2>1. k \in 1 .. Len(writes) /\ k - 1 \in 0 .. Len(writes)
    OBVIOUS
  <2> DEFINE before == After(radio, writes, k - 1)
             w == writes[k]
  <2>2. After(radio, writes, k) = Write(before, w)
    BY <1>1, <2>1, AfterEach
  <2>3. before \in Chip /\ before.scan = Ended(radio.scan)
    BY <1>3, <2>1, AfterType
  <2>4. w \in Orders /\ w[1] # "scan"
    BY <2>1
  <2>5. w[1] \in {"window", "mode", "freq", "bw"}
    BY <2>4 DEF Orders
  <2> HIDE DEF before, w
  <2>6. before.scan # "ongoing"
    BY <2>3 DEF Ended
  <2>7. Write(before, w).scan = before.scan
    BY <2>3, <2>5, <2>6 DEF Write, Chip
  <2> QED
    BY <2>2, <2>3, <2>7
<1>4. Bad = {}
  <2> SUFFICES ASSUME Bad # {} PROVE FALSE
    OBVIOUS
  <2>1. Bad \in SUBSET Nat
    OBVIOUS
  <2>2. PICK k \in Bad : \A i \in Bad : k <= i
    BY <2>1, Lowest
  <2>3. k \in 2 .. Len(writes)
    BY <1>2
  <2>4. k - 1 \in 1 .. Len(writes) /\ k - 1 \notin Bad
    BY <2>2, <2>3
  <2> QED
    BY <2>3, <2>4, <1>3
<1> QED
  BY <1>4

\* The writes of sx1261_set_rx_params at a bandwidth that has a setting, and the one
\* that follows them.
Retunes(writes, f, bw, last) ==
  /\ Len(writes) = 7
  /\ writes[1] = <<"window", 0>>
  /\ writes[2] = <<"mode", "fs">>
  /\ writes[3] = <<"freq", f>>
  /\ writes[4] = <<"window", 5>>
  /\ writes[5] = <<"bw", bw>>
  /\ writes[6] = <<"mode", "rx">>
  /\ writes[7] = last

\* Two parts of a sequence of writes, written as one.
LEMMA Joined ==
    ASSUME NEW a, NEW b, NEW c, NEW d, NEW e, NEW f
    PROVE  <<a, b, c, d>> \o <<e, f>> = <<a, b, c, d, e, f>>
<1> DEFINE S == {a, b, c, d, e, f}
           s == <<a, b, c, d>>
           t == <<e, f>>
           u == <<a, b, c, d, e, f>>
<1>1. /\ s \in Seq(S) /\ Len(s) = 4 /\ s[1] = a /\ s[2] = b /\ s[3] = c /\ s[4] = d
      /\ t \in Seq(S) /\ Len(t) = 2 /\ t[1] = e /\ t[2] = f
      /\ u \in Seq(S) /\ Len(u) = 6 /\ u[1] = a /\ u[2] = b /\ u[3] = c /\ u[4] = d /\ u[5] = e /\ u[6] = f
  OBVIOUS
<1> HIDE DEF S, s, t, u
<1>2. /\ s \o t \in Seq(S) /\ Len(s \o t) = Len(s) + Len(t)
      /\ \A i \in 1 .. Len(s) + Len(t) : (s \o t)[i] = IF i <= Len(s) THEN s[i] ELSE t[i - Len(s)]
  BY <1>1, ConcatProperties
<1>3. Len(s \o t) = 6 /\ \A i \in 1 .. 6 : (s \o t)[i] = u[i]
  BY <1>1, <1>2
<1>4. s \o t = u
  BY <1>1, <1>2, <1>3, SMTT(30)
<1> QED
  BY <1>4 DEF s, t, u

\* Six writes and one that follows them.
LEMMA Following ==
    ASSUME NEW S, NEW r \in Seq(S), NEW t \in Seq(S), Len(r) = 6, Len(t) = 1
    PROVE  Len(r \o t) = 7 /\ (r \o t)[7] = t[1] /\ \A i \in 1 .. 6 : (r \o t)[i] = r[i]
<1>1. /\ r \o t \in Seq(S) /\ Len(r \o t) = Len(r) + Len(t)
      /\ \A i \in 1 .. Len(r) + Len(t) : (r \o t)[i] = IF i <= Len(r) THEN r[i] ELSE t[i - Len(r)]
  BY ConcatProperties
<1> QED
  BY <1>1

\* What RxWrites is, write by write.
LEMMA RxSequence ==
    ASSUME NEW f, NEW bw \in {125, 250}, NEW last
    PROVE  Retunes(RxWrites(f, bw) \o <<last>>, f, bw, last)
<1> DEFINE r == <<<<"window", 0>>, <<"mode", "fs">>, <<"freq", f>>, <<"window", 5>>,
                  <<"bw", bw>>, <<"mode", "rx">>>>
           S == {r[1], r[2], r[3], r[4], r[5], r[6], last}
           t == <<last>>
<1>1. RxWrites(f, bw) = r
  <2>1. RxWrites(f, bw) = <<<<"window", 0>>, <<"mode", "fs">>, <<"freq", f>>, <<"window", 5>>>>
                            \o <<<<"bw", bw>>, <<"mode", "rx">>>>
    BY DEF RxWrites
  <2> QED
    BY <2>1, Joined
<1>2. /\ Len(r) = 6 /\ r[1] = <<"window", 0>> /\ r[2] = <<"mode", "fs">> /\ r[3] = <<"freq", f>>
      /\ r[4] = <<"window", 5>> /\ r[5] = <<"bw", bw>> /\ r[6] = <<"mode", "rx">>
  OBVIOUS
<1>3. t \in Seq(S) /\ Len(t) = 1 /\ t[1] = last
  OBVIOUS
<1>4. r \in Seq(S)
  OBVIOUS
<1> HIDE DEF r, S, t
<1>5. Len(r \o t) = 7 /\ (r \o t)[7] = last /\ \A i \in 1 .. 6 : (r \o t)[i] = r[i]
  BY <1>2, <1>3, <1>4, Following, SMTT(30)
<1>6. Retunes(r \o t, f, bw, last)
  BY <1>2, <1>5, SMTT(30) DEF Retunes
<1> QED
  BY <1>1, <1>6 DEF t

\* In reception on a frequency, at a bandwidth.
Receiving(f, bw, status) == [mode |-> "rx", freq |-> f, bw |-> bw, scan |-> status]

\* All of them leave the radio in reception on the frequency and at the bandwidth.
LEMMA AfterRx ==
    ASSUME NEW radio \in Chip, NEW f \in Frequencies, NEW bw \in {125, 250}, NEW last,
           NEW writes, Retunes(writes, f, bw, last)
    PROVE  After(radio, writes, 7) = Write(Receiving(f, bw, Ended(radio.scan)), last)
<1> DEFINE s(n) == After(radio, writes, n)
<1>1. Len(writes) = 7 /\ Len(writes) \in Nat
  BY DEF Retunes
<1>2. s(0) = radio
  BY <1>1, AfterWrites
<1>3. \A n \in 1 .. 7 : s(n) = Write(s(n - 1), writes[n])
  <2>1. Len(writes) \in Nat
    BY <1>1
  <2>2. \A n \in 1 .. Len(writes) : s(n) = Write(s(n - 1), writes[n])
    BY <2>1, AfterEach
  <2> QED
    BY <1>1, <2>2
<1> HIDE DEF s
<1>4. /\ s(1) = Write(s(0), writes[1]) /\ s(2) = Write(s(1), writes[2]) /\ s(3) = Write(s(2), writes[3])
      /\ s(4) = Write(s(3), writes[4]) /\ s(5) = Write(s(4), writes[5]) /\ s(6) = Write(s(5), writes[6])
      /\ s(7) = Write(s(6), writes[7])
  BY <1>3
<1>5. /\ s(1) = Write(radio, <<"window", 0>>) /\ s(2) = Write(s(1), <<"mode", "fs">>)
      /\ s(3) = Write(s(2), <<"freq", f>>) /\ s(4) = Write(s(3), <<"window", 5>>)
      /\ s(5) = Write(s(4), <<"bw", bw>>) /\ s(6) = Write(s(5), <<"mode", "rx">>)
      /\ s(7) = Write(s(6), last)
  BY <1>2, <1>4 DEF Retunes
<1> DEFINE Is(n, mode, freq, width) ==
             s(n) = [mode |-> mode, freq |-> freq, bw |-> width, scan |-> Ended(radio.scan)]
<1>6. radio = [mode |-> radio.mode, freq |-> radio.freq, bw |-> radio.bw, scan |-> radio.scan]
  BY DEF Chip
<1>7. Is(1, radio.mode, radio.freq, radio.bw)
  BY <1>5, <1>6 DEF Write, Ended
<1>8. Is(2, "fs", radio.freq, radio.bw)
  BY <1>5, <1>7 DEF Write
<1>9. Is(3, "fs", f, radio.bw)
  BY <1>5, <1>8 DEF Write
<1>10. Is(4, "fs", f, radio.bw)
  BY <1>5, <1>9 DEF Write
<1>11. Is(5, "fs", f, bw)
  BY <1>5, <1>10 DEF Write
<1>12. Is(6, "rx", f, bw)
  BY <1>5, <1>11 DEF Write
<1> QED
  BY <1>5, <1>12 DEF s, Receiving

\* A sequence that ends the scan that goes on, and starts none.
Ending(writes) == /\ writes \in Seq(Orders) /\ Len(writes) \in Nat \ {0}
                  /\ writes[1] = <<"window", 0>>
                  /\ \A k \in 1 .. Len(writes) : writes[k][1] # "scan"

\* Whatever follows, if it starts no scan either.
LEMMA EndingMore ==
    ASSUME NEW w, Ending(w), NEW t \in Seq(Orders), \A k \in 1 .. Len(t) : t[k][1] # "scan"
    PROVE  Ending(w \o t)
<1>1. w \in Seq(Orders) /\ Len(w) \in Nat \ {0} /\ Len(t) \in Nat
  BY DEF Ending
<1>2. /\ w \o t \in Seq(Orders) /\ Len(w \o t) = Len(w) + Len(t)
      /\ \A i \in 1 .. Len(w) + Len(t) : (w \o t)[i] = IF i <= Len(w) THEN w[i] ELSE t[i - Len(w)]
  BY <1>1, ConcatProperties
<1>3. (w \o t)[1] = <<"window", 0>>
  BY <1>1, <1>2 DEF Ending
<1>4. ASSUME NEW k \in 1 .. Len(w \o t) PROVE (w \o t)[k][1] # "scan"
  <2>1. CASE k <= Len(w)
    BY <1>1, <1>2, <2>1 DEF Ending
  <2>2. CASE k > Len(w)
    <3>1. k - Len(w) \in 1 .. Len(t)
      BY <1>1, <1>2, <2>2
    <3> QED
      BY <1>1, <1>2, <2>2, <3>1
  <2> QED
    BY <1>1, <1>2, <2>1, <2>2
<1> QED
  BY <1>1, <1>2, <1>3, <1>4 DEF Ending

\* The sequences thread_jit makes, whole or refused, and the first writes of a scan.
LEMMA RxEnding ==
    ASSUME NEW f \in Frequencies, NEW bw
    PROVE  Ending(RxWrites(f, bw))
<1> DEFINE first == <<<<"window", 0>>, <<"mode", "fs">>, <<"freq", f>>, <<"window", 5>>>>
           rest == IF bw \in {125, 250} THEN <<<<"bw", bw>>, <<"mode", "rx">>>> ELSE <<>>
<1>1. /\ <<"window", 0>> \in Orders /\ <<"mode", "fs">> \in Orders /\ <<"freq", f>> \in Orders
      /\ <<"window", 5>> \in Orders /\ <<"mode", "rx">> \in Orders /\ (bw \in {125, 250} => <<"bw", bw>> \in Orders)
  BY DEF Orders, Modes
<1>2. Ending(first)
  BY <1>1 DEF Ending
<1>3. rest \in Seq(Orders) /\ \A k \in 1 .. Len(rest) : rest[k][1] # "scan"
  BY <1>1
<1>4. RxWrites(f, bw) = first \o rest
  BY DEF RxWrites
<1> HIDE DEF first, rest
<1> QED
  BY <1>2, <1>3, <1>4, EndingMore

\* The writes of listen-before-talk, its start and its stop, end a scan in progress.
LEMMA LbtEnding ==
    ASSUME NEW f \in Frequencies, NEW bw
    PROVE  Ending(LbtStartWrites(f, bw)) /\ Ending(LbtStopWrites)
<1>1. <<"mode", "lbt">> \in Orders /\ <<"window", 0>> \in Orders /\ <<"mode", "fs">> \in Orders
  BY DEF Orders, Modes
<1>2. /\ <<<<"mode", "lbt">>>> \in Seq(Orders)
      /\ \A k \in 1 .. Len(<<<<"mode", "lbt">>>>) : <<<<"mode", "lbt">>>>[k][1] # "scan"
  BY <1>1
<1>3. Ending(LbtStartWrites(f, bw))
  BY <1>2, RxEnding, EndingMore DEF LbtStartWrites
<1> QED
  BY <1>1, <1>3 DEF Ending, LbtStopWrites

\* The writes that start a scan.
LEMMA ScanWrites ==
    ASSUME NEW f \in Frequencies
    PROVE  ScanStartWrites(f) \in Seq(Orders)
<1>1. RxWrites(f, 125) \in Seq(Orders)
  BY RxEnding DEF Ending
<1>2. <<"scan", "ongoing">> \in Orders
  BY DEF Orders
<1>3. <<<<"scan", "ongoing">>>> \in Seq(Orders)
  BY <1>2
<1> QED
  BY <1>1, <1>3, ConcatProperties DEF ScanStartWrites

-----------------------------------------------------------------------------
(* The invariant of the sharing.                                             *)

Jobs == [at : {"idle"}]
          \cup [at : {"start", "listening", "stop"}, freq : Frequencies, bw : Bandwidths, chain : Chains]

SharedTypes == /\ sx \in Chip
               /\ jit \in Jobs
               /\ scan.freq \in Frequencies
               /\ result \in [freq : Frequencies \cup {-1}, state : {"none", "measuring", "whole", "spoilt"},
                              printed : BOOLEAN]

\* The results of the frequency the thread believes in, not printed yet.
Fresh(state) == [freq |-> scan.freq, state |-> state, printed |-> FALSE]

\* From the start of a scan to its results, what the sx1261 holds and what its status
\* register says agree: only a scan nobody disturbed says it is completed.
Measured ==
  /\ scan.at = "poll" => \/ sx.scan = "ongoing" /\ result = Fresh("measuring")
                         \/ sx.scan = "completed" /\ result = Fresh("whole")
                         \/ sx.scan = "aborted"
  /\ scan.at = "results" => sx.scan # "ongoing" /\ result = Fresh("whole")

SharedInv == ScanInv /\ SharedTypes /\ Measured /\ ScanAsPrinted /\ ListensOnChannel

\* At the start nobody has used the sx1261.
LEMMA InitShared == ScanInit => SharedInv
<1> SUFFICES ASSUME ScanInit PROVE SharedInv
  OBVIOUS
<1>1. 0 \in Frequencies
  BY ScanAssumption DEF Frequencies
<1>2. SharedTypes
  BY <1>1 DEF ScanInit, SharedTypes, Chip, Modes, Jobs
<1>3. Measured /\ ScanAsPrinted /\ ListensOnChannel
  BY DEF ScanInit, Measured, ScanAsPrinted, ListensOnChannel
<1> QED
  BY <1>2, <1>3, InitInv DEF SharedInv

\* Writes of thread_jit, as many as succeed: a scan that goes on is ended and spoilt,
\* and its status says so; results that are complete stay.
LEMMA EndingStep ==
    ASSUME SharedInv, NEW writes, Ending(writes), NEW n \in 0 .. Len(writes),
           sx' = After(sx, writes, n), Disturb(sx, sx'), scan' = scan
    PROVE  Measured' /\ sx' \in Chip /\ result' \in [freq : Frequencies \cup {-1},
             state : {"none", "measuring", "whole", "spoilt"}, printed : BOOLEAN]
<1>1. sx \in Chip /\ writes \in Seq(Orders) /\ Len(writes) \in Nat
  BY DEF SharedInv, SharedTypes, Ending
<1>2. sx' \in Chip
  BY <1>1, AfterType
<1>3. result' = result \/ result' = [result EXCEPT !.state = "spoilt"]
  BY DEF Disturb
<1>4. result' \in [freq : Frequencies \cup {-1}, state : {"none", "measuring", "whole", "spoilt"}, printed : BOOLEAN]
  BY <1>3 DEF SharedInv, SharedTypes
<1>5. Measured'
  <2>1. CASE n = 0
    <3>1. sx' = sx
      BY <1>1, <2>1, AfterWrites
    <3>2. result' = result
      BY <3>1 DEF Disturb
    <3> QED
      BY <3>1, <3>2 DEF SharedInv, Measured, Fresh
  <2>2. CASE n # 0
    <3>1. n \in 1 .. Len(writes)
      BY <1>1, <2>2
    <3>2. sx'.scan = Ended(sx.scan)
      BY <1>1, <3>1, ScanEnds DEF Ending
    <3>3. sx.scan # "ongoing" => result' = result /\ sx'.scan = sx.scan
      BY <3>2 DEF Disturb, Ended
    <3>4. sx.scan = "ongoing" => sx'.scan = "aborted"
      BY <3>2 DEF Ended
    <3> QED
      BY <3>3, <3>4 DEF SharedInv, Measured, Fresh
  <2> QED
    BY <2>1, <2>2
<1> QED
  BY <1>2, <1>4, <1>5

\* The steps of thread_jit keep what is known of the sx1261.
LEMMA JitShared == SharedInv /\ (SendBegins \/ LbtStart \/ Decide \/ LbtStop) => SharedInv'
<1> SUFFICES ASSUME SharedInv, SendBegins \/ LbtStart \/ Decide \/ LbtStop PROVE SharedInv'
  OBVIOUS
<1>1. ScanInv'
  BY JitInv DEF SharedInv
<1>2. scan' = scan /\ scan'.freq \in Frequencies /\ ScanAsPrinted'
  BY DEF SharedInv, SharedTypes, ScanAsPrinted, SendBegins, LbtStart, Decide, LbtStop
<1>3. CASE SendBegins
  <2>1. sx' = sx /\ result' = result
    BY <1>3 DEF SendBegins
  <2>2. jit' \in Jobs /\ jit'.at = "start"
    BY <1>3 DEF SendBegins, Jobs
  <2>3. SharedTypes' /\ Measured'
    BY <1>2, <2>1, <2>2 DEF SharedInv, SharedTypes, Measured, Fresh
  <2>4. ListensOnChannel'
    BY <2>2 DEF ListensOnChannel
  <2> QED
    BY <1>1, <1>2, <2>3, <2>4 DEF SharedInv
<1>4. CASE LbtStart
  <2> DEFINE refused == jit.bw \notin {125, 250}
             writes == IF refused THEN RxWrites(jit.freq, jit.bw) ELSE LbtStartWrites(jit.freq, jit.bw)
  <2>1. jit.at = "start" /\ jit \in Jobs /\ jit.freq \in Frequencies /\ jit.bw \in Bandwidths
    BY <1>4 DEF LbtStart, SharedInv, SharedTypes, Jobs
  <2>2. PICK n \in 0 .. Len(writes) :
          /\ sx' = After(sx, writes, n) /\ Disturb(sx, sx')
          /\ IF n = Len(writes) /\ ~refused
               THEN jit' = [jit EXCEPT !.at = "listening"] /\ UNCHANGED conc
               ELSE jit' = [at |-> "idle"] /\ conc' = "none"
    BY <1>4 DEF LbtStart
  <2>3. Ending(writes)
    BY <2>1, RxEnding, LbtEnding
  <2>4. Measured' /\ sx' \in Chip /\ result' \in [freq : Frequencies \cup {-1},
          state : {"none", "measuring", "whole", "spoilt"}, printed : BOOLEAN]
    <3> HIDE DEF writes
    <3> QED
      BY <1>2, <2>2, <2>3, EndingStep
  <2>5. CASE n = Len(writes) /\ ~refused
    <3>1. jit.bw \in {125, 250} /\ writes = RxWrites(jit.freq, jit.bw) \o <<<<"mode", "lbt">>>>
      BY <2>5 DEF LbtStartWrites
    <3>0. Retunes(RxWrites(jit.freq, jit.bw) \o <<<<"mode", "lbt">>>>, jit.freq, jit.bw, <<"mode", "lbt">>)
      BY <3>1, RxSequence
    <3> HIDE DEF writes
    <3>2. Retunes(writes, jit.freq, jit.bw, <<"mode", "lbt">>)
      BY <3>0, <3>1
    <3>3. n = 7
      BY <2>5, <3>2 DEF Retunes
    <3>4. sx' = Write(Receiving(jit.freq, jit.bw, Ended(sx.scan)), <<"mode", "lbt">>)
      <4>1. sx \in Chip /\ jit.bw \in {125, 250} /\ jit.freq \in Frequencies
        BY <2>1, <3>1 DEF SharedInv, SharedTypes
      <4>2. sx' = After(sx, writes, 7)
        BY <2>2, <3>3
      <4> QED
        BY <3>2, <4>1, <4>2, AfterRx
    <3>5. sx' = [mode |-> "lbt", freq |-> jit.freq, bw |-> jit.bw, scan |-> Ended(sx.scan)]
      BY <3>4 DEF Write, Receiving
    <3>6. jit' = [jit EXCEPT !.at = "listening"]
      BY <2>2, <2>5
    <3>7. jit' \in Jobs /\ jit'.freq = jit.freq /\ jit'.bw = jit.bw
      BY <2>1, <3>6 DEF Jobs
    <3>8. ListensOnChannel'
      BY <3>5, <3>7 DEF ListensOnChannel, Ended
    <3> QED
      BY <1>1, <1>2, <2>4, <3>7, <3>8 DEF SharedInv, SharedTypes
  <2>6. CASE ~(n = Len(writes) /\ ~refused)
    <3>1. jit' = [at |-> "idle"]
      BY <2>2, <2>6
    <3>2. jit' \in Jobs /\ ListensOnChannel'
      BY <3>1 DEF Jobs, ListensOnChannel
    <3> QED
      BY <1>1, <1>2, <2>4, <3>2 DEF SharedInv, SharedTypes
  <2> QED
    BY <2>5, <2>6
<1>5. CASE Decide
  <2>1. sx' = sx /\ result' = result /\ jit.at = "listening" /\ jit' = [jit EXCEPT !.at = "stop"]
    BY <1>5 DEF Decide
  <2>2. jit' \in Jobs /\ jit'.at = "stop"
    BY <2>1 DEF SharedInv, SharedTypes, Jobs
  <2>3. SharedTypes' /\ Measured'
    BY <1>2, <2>1, <2>2 DEF SharedInv, SharedTypes, Measured, Fresh
  <2>4. ListensOnChannel'
    BY <2>2 DEF ListensOnChannel
  <2> QED
    BY <1>1, <1>2, <2>3, <2>4 DEF SharedInv
<1>6. CASE LbtStop
  <2>1. PICK n \in 0 .. 2 : sx' = After(sx, LbtStopWrites, n) /\ Disturb(sx, sx')
    BY <1>6 DEF LbtStop
  <2>2. Ending(LbtStopWrites) /\ Len(LbtStopWrites) = 2
    <3>1. 0 \in Frequencies
      BY ScanAssumption DEF Frequencies
    <3> QED
      BY <3>1, LbtEnding DEF LbtStopWrites
  <2>3. Measured' /\ sx' \in Chip /\ result' \in [freq : Frequencies \cup {-1},
          state : {"none", "measuring", "whole", "spoilt"}, printed : BOOLEAN]
    BY <1>2, <2>1, <2>2, EndingStep
  <2>4. jit' = [at |-> "idle"]
    BY <1>6 DEF LbtStop
  <2>5. jit' \in Jobs /\ ListensOnChannel'
    BY <2>4 DEF Jobs, ListensOnChannel
  <2> QED
    BY <1>1, <1>2, <2>3, <2>5 DEF SharedInv, SharedTypes
<1> QED
  BY <1>3, <1>4, <1>5, <1>6

\* The scan goes on, or a chain does.
LEMMA RadioShared == SharedInv /\ (Progress \/ Airtime \/ CheckTx \/ Round) => SharedInv'
<1> SUFFICES ASSUME SharedInv, Progress \/ Airtime \/ CheckTx \/ Round PROVE SharedInv'
  OBVIOUS
<1>1. ScanInv'
  BY RadioInv, CheckTxInv, TaskInv DEF SharedInv
<1>2. CASE Progress
  <2>1. /\ sx.scan = "ongoing" /\ sx' = [sx EXCEPT !.scan = "completed"] /\ scan' = scan /\ jit' = jit
        /\ result' = [result EXCEPT !.state = IF @ = "measuring" THEN "whole" ELSE @]
    BY <1>2 DEF Progress
  <2>2. SharedTypes'
    BY <2>1 DEF SharedInv, SharedTypes, Chip
  <2>3. Measured'
    <3>1. sx'.scan = "completed"
      BY <2>1 DEF SharedInv, SharedTypes, Chip
    <3>2. scan.at # "results" /\ (scan.at = "poll" => result = Fresh("measuring"))
      BY <2>1 DEF SharedInv, Measured
    <3>3. scan.at = "poll" => result' = Fresh("whole")
      <4> SUFFICES ASSUME scan.at = "poll" PROVE result' = Fresh("whole")
        OBVIOUS
      <4>1. result = [freq |-> scan.freq, state |-> "measuring", printed |-> FALSE]
        BY <3>2 DEF Fresh
      <4>2. result' = [result EXCEPT !.state = "whole"]
        BY <2>1, <4>1
      <4> QED
        BY <4>1, <4>2 DEF Fresh
    <3> QED
      BY <2>1, <3>1, <3>2, <3>3 DEF Measured, Fresh
  <2>4. ListensOnChannel' /\ ScanAsPrinted'
    BY <2>1 DEF SharedInv, ListensOnChannel, ScanAsPrinted
  <2> QED
    BY <1>1, <2>2, <2>3, <2>4 DEF SharedInv
<1>3. CASE Airtime
  <2>1. UNCHANGED <<sx, result, scan, jit>>
    BY <1>3 DEF Airtime
  <2> QED
    BY <1>1, <2>1 DEF SharedInv, SharedTypes, Measured, Fresh, ListensOnChannel, ScanAsPrinted
<1>4. CASE CheckTx \/ Round
  <2>1. UNCHANGED <<sx, result, jit>>
    BY <1>4 DEF CheckTx, Round
  <2>2. /\ scan'.at = "check" /\ scan'.freq = scan.freq
        /\ scan'.shown = scan.shown \/ scan'.shown = <<>>
    BY <1>4 DEF CheckTx, Round, SharedInv, ScanInv, ScanTypes, ScanFields
  <2> QED
    BY <1>1, <2>1, <2>2 DEF SharedInv, SharedTypes, Measured, ListensOnChannel, ScanAsPrinted
<1> QED
  BY <1>2, <1>3, <1>4

\* A scan starts: whole, and the sx1261 measures the frequency the thread believes in;
\* or not, and the thread begins another round.
LEMMA StartShared == SharedInv /\ ScanStart => SharedInv'
<1> SUFFICES ASSUME SharedInv, ScanStart PROVE SharedInv'
  OBVIOUS
<1> DEFINE writes == ScanStartWrites(scan.freq)
<1>1. ScanInv' /\ jit' = jit /\ jit.at = "idle"
  BY TaskInv DEF SharedInv, ScanInv, Holding, ScanStart
<1>2. ListensOnChannel'
  BY <1>1 DEF ListensOnChannel
<1>3. DOMAIN scan = ScanFields /\ scan.freq \in Frequencies /\ sx \in Chip
  BY DEF SharedInv, SharedTypes, ScanInv, ScanTypes
<1>4. ASSUME scan' = [scan EXCEPT !.at = "pace"], sx' \in Chip,
             result' = result \/ result' = [result EXCEPT !.state = "spoilt"]
      PROVE  SharedInv'
  <2>1. scan'.at = "pace" /\ scan'.freq = scan.freq /\ scan'.shown = scan.shown
    BY <1>3, <1>4 DEF ScanFields
  <2>2. SharedTypes'
    BY <1>1, <1>4, <2>1 DEF SharedInv, SharedTypes
  <2> QED
    BY <1>1, <1>2, <2>1, <2>2 DEF SharedInv, Measured, ScanAsPrinted
<1>5. CASE scan.tx_status \in Programmed
  <2>1. scan' = [scan EXCEPT !.at = "pace"] /\ UNCHANGED <<sx, result>>
    BY <1>5 DEF ScanStart
  <2> QED
    BY <1>3, <1>4, <2>1
<1>6. CASE scan.tx_status \notin Programmed
  <2>1. PICK n \in 0 .. Len(writes) :
          /\ sx' = After(sx, writes, n)
          /\ IF n = Len(writes)
               THEN /\ scan' = [scan EXCEPT !.at = "poll"]
                    /\ result' = [freq |-> sx'.freq, state |-> "measuring", printed |-> FALSE]
               ELSE scan' = [scan EXCEPT !.at = "pace"] /\ Disturb(sx, sx')
    BY <1>6 DEF ScanStart
  <2>2. writes \in Seq(Orders)
    BY <1>3, ScanWrites
  <2>3. Retunes(writes, scan.freq, 125, <<"scan", "ongoing">>)
    BY RxSequence DEF ScanStartWrites
  <2> HIDE DEF writes
  <2>4. sx' \in Chip
    BY <1>3, <2>1, <2>2, AfterType
  <2>5. CASE n # Len(writes)
    BY <1>4, <2>1, <2>4, <2>5 DEF Disturb
  <2>6. CASE n = Len(writes)
    <3>1. n = 7
      BY <2>3, <2>6 DEF Retunes
    <3>2. sx' = Write(Receiving(scan.freq, 125, Ended(sx.scan)), <<"scan", "ongoing">>)
      <4>1. 125 \in {125, 250}
        OBVIOUS
      <4>2. sx' = After(sx, writes, 7)
        BY <2>1, <3>1
      <4>3. After(sx, writes, 7) = Write(Receiving(scan.freq, 125, Ended(sx.scan)), <<"scan", "ongoing">>)
        BY <1>3, <2>3, <4>1, AfterRx
      <4> QED
        BY <4>2, <4>3
    <3>3. sx'.freq = scan.freq /\ sx'.scan = "ongoing"
      BY <3>2 DEF Write, Receiving
    <3>4. scan'.at = "poll" /\ scan'.freq = scan.freq /\ scan'.shown = scan.shown
      BY <1>3, <2>1, <2>6 DEF ScanFields
    <3>5. result' = [freq |-> scan.freq, state |-> "measuring", printed |-> FALSE]
      BY <2>1, <2>6, <3>3
    <3>6. SharedTypes'
      BY <1>1, <1>3, <2>4, <3>4, <3>5 DEF SharedInv, SharedTypes
    <3>7. Measured' /\ ScanAsPrinted'
      BY <3>3, <3>4, <3>5 DEF SharedInv, Measured, Fresh, ScanAsPrinted
    <3> QED
      BY <1>1, <1>2, <3>6, <3>7 DEF SharedInv
  <2> QED
    BY <2>5, <2>6
<1> QED
  BY <1>5, <1>6

\* A scan that is completed is whole when its results are read.
LEMMA ResultsShared == SharedInv /\ (Poll \/ Results) => SharedInv'
<1> SUFFICES ASSUME SharedInv, Poll \/ Results PROVE SharedInv'
  OBVIOUS
<1>1. ScanInv' /\ jit' = jit /\ sx' = sx
  BY TaskInv DEF SharedInv, Poll, Results
<1>2. ListensOnChannel'
  BY <1>1 DEF SharedInv, ListensOnChannel
<1>3. DOMAIN scan = ScanFields /\ scan.freq \in Frequencies
  BY DEF SharedInv, SharedTypes, ScanInv, ScanTypes
<1>4. CASE Poll
  <2>1. scan.at = "poll" /\ result' = result
    BY <1>4 DEF Poll
  <2>2. /\ scan'.freq = scan.freq /\ scan'.shown = scan.shown
        /\ \/ scan'.at = "results" /\ sx.scan = "completed"
           \/ scan'.at = "poll"
           \/ scan'.at = "pace"
    BY <1>3, <1>4 DEF Poll, ScanFields
  <2>3. SharedTypes' /\ ScanAsPrinted'
    BY <1>1, <2>1, <2>2 DEF SharedInv, SharedTypes, ScanAsPrinted
  <2>4. Measured'
    BY <1>1, <2>1, <2>2 DEF SharedInv, Measured, Fresh
  <2> QED
    BY <1>1, <1>2, <2>3, <2>4 DEF SharedInv
<1>5. CASE Results
  <2>1. result = Fresh("whole")
    BY <1>5 DEF Results, SharedInv, Measured
  <2>2. /\ scan'.at = "pace" /\ scan'.freq \in {scan.freq, (scan.freq + 1) % NbChan}
        /\ scan'.shown = scan.shown \/ scan'.shown = <<scan.freq, result>>
    BY <1>3, <1>5 DEF Results, ScanFields
  <2>3. (scan.freq + 1) % NbChan \in Frequencies
    BY <1>3, ScanAssumption DEF Frequencies
  <2>4. result' = [result EXCEPT !.printed = TRUE] \/ result' = result
    BY <1>5 DEF Results
  <2>5. SharedTypes'
    BY <1>1, <1>3, <2>2, <2>3, <2>4 DEF SharedInv, SharedTypes
  <2>6. Measured'
    BY <2>2 DEF Measured
  <2>7. ScanAsPrinted'
    <3>1. CASE scan'.shown = scan.shown
      BY <3>1 DEF SharedInv, ScanAsPrinted
    <3>2. CASE scan'.shown = <<scan.freq, result>>
      <4>1. scan'.shown[1] = scan.freq /\ scan'.shown[2] = result
        BY <3>2
      <4> QED
        BY <2>1, <4>1 DEF ScanAsPrinted, Fresh
    <3> QED
      BY <2>2, <3>1, <3>2
  <2> QED
    BY <1>1, <1>2, <2>5, <2>6, <2>7 DEF SharedInv
<1> QED
  BY <1>4, <1>5

\* So does every step.
LEMMA NextShared == SharedInv /\ [ScanNext]_scanVars => SharedInv'
<1> SUFFICES ASSUME SharedInv, [ScanNext]_scanVars PROVE SharedInv'
  OBVIOUS
<1>1. CASE UNCHANGED scanVars
  <2>1. ScanInv'
    BY <1>1, NextInv DEF SharedInv
  <2> QED
    BY <1>1, <2>1 DEF scanVars, SharedInv, SharedTypes, Measured, Fresh, ScanAsPrinted, ListensOnChannel
<1> QED
  BY <1>1, JitShared, RadioShared, StartShared, ResultsShared DEF ScanNext

\* Spectral scan and listen-before-talk share one radio, mx_concent held only for each
\* call: what thread_spectral_scan prints was measured undisturbed on the frequency it is
\* printed with, and thread_jit listens on its packet's channel, whichever commands fail.
THEOREM SharingIsSafe == ScanSpec => []Sx1261Shared
<1>1. SharedInv => Sx1261Shared
  BY DEF SharedInv, Sx1261Shared
<1> QED
  BY <1>1, InitShared, NextShared, PTL DEF ScanSpec
----------------------------------------------------------------------------
(* The set-up of a radio.                                                  *)

\* sx1250_calibrate or sx1261_calibrate at a frequency outside the bands.
Refused(s) == \E f \in Tunings : Bands(f) = {} /\ s \in {Calibrate(f, "note"), Calibrate(f, "stop")}

\* A write of register r.
WritesTo(a, r) == a.op \in Writes /\ a.reg = r

\* Two accesses are about the same register and value.
Same(a, b) == a.reg = b.reg /\ a.value = b.value

\* Access k of a script is one the rest of the script can cope with.
Fits(s, k) ==
  /\ s[k].op \in {"write", "check", "read", "refuse", "lock"}
  /\ s[k].op \in {"write", "check", "lock"} => s[k].reg \in Registers
  /\ s[k].op = "lock" => s[k] = Lock /\ \A j \in 1 .. k - 1 : ~ WritesTo(s[j], "mode")
  /\ s[k].op = "write" /\ s[k].policy \notin {"note", "stop"} =>
       \/ \E j \in DOMAIN s : s[j] = Lock
       \/ k + 1 \in DOMAIN s /\ s[k + 1].op = "check" /\ Same(s[k + 1], s[k])
  /\ s[k].op = "check" =>
       \E j \in 1 .. k - 1 : /\ s[j].op = "write" /\ Same(s[j], s[k])
                             /\ \A i \in j + 1 .. k - 1 : ~ WritesTo(s[i], s[j].reg)
  /\ s[k].op = "refuse" => Refused(s)

\* All of its accesses are.
WellMade(s) == /\ Len(s) \in Nat /\ DOMAIN s = 1 .. Len(s)
               /\ \A k \in 1 .. Len(s) : Fits(s, k)

\* Types, and what the outcome says of the other variables.
SetUpTypes ==
  /\ outcome \in {"none", "running", "ok", "error"}
  /\ failures \in Nat /\ attempts \in 0 .. PllLockMaxAttempts /\ noted \in BOOLEAN /\ DOMAIN chip = Registers
  /\ at \in Nat
  /\ outcome = "none" => at = 1 /\ ~ noted /\ failures = 0
  /\ outcome # "none" => script \in Scripts /\ at \in 1 .. Len(script) + 1
  /\ outcome = "ok" => at = Len(script) + 1 /\ ~ noted

\* Only failures are noted.
NotedFailure == noted => failures > 0

\* Access k may have failed without a trace, and the next one looks at its register.
Doubtful(k) == k = at - 1 /\ failures > 0 /\ at <= Len(script) /\ script[at].op = "check" /\ Same(script[at], script[k])

\* The registers asked for so far hold what was asked last, but for the one in doubt.
SoFar == outcome \in {"running", "ok"} /\ ~ noted /\ (Careless => failures = 0) =>
           \A k \in 1 .. at - 1 : LastWrite(k, at) => Holds(k) \/ Doubtful(k)

\* An error has one of the three reasons.
Explained == outcome = "error" => failures > 0 \/ Refused(script) \/ (Careless /\ attempts = PllLockMaxAttempts)

SetUpInv == SetUpTypes /\ NotedFailure /\ SoFar /\ Explained

\* The fields of the accesses.
LEMMA Accesses ==
  ASSUME NEW r, NEW v, NEW p
  PROVE  /\ W(r, v, p).op = "write" /\ W(r, v, p).reg = r /\ W(r, v, p).value = v /\ W(r, v, p).policy = p
         /\ Check(r, v, p).op = "check" /\ Check(r, v, p).reg = r /\ Check(r, v, p).value = v
         /\ Read(p).op = "read" /\ Refusal.op = "refuse"
         /\ Lock.op = "lock" /\ Lock.reg = "mode" /\ Lock.value = 3
BY DEF W, Check, Read, Refusal, Lock

\* A calibration writes one register and checks none; or it refuses.
LEMMA CalibrateMade ==
  ASSUME NEW f \in Tunings, NEW p \in {"note", "stop"} PROVE WellMade(Calibrate(f, p))
<1> DEFINE s == Calibrate(f, p)
<1>1. CASE Bands(f) = {}
  <2>1. s = <<Read(p), Refusal>>
    BY <1>1 DEF Calibrate
  <2>2. Refused(s)
    BY <1>1 DEF Refused
  <2> QED
    BY <2>1, <2>2, Accesses DEF WellMade, Fits
<1>2. CASE Bands(f) # {}
  <2> DEFINE i == CHOOSE i \in Bands(f) : TRUE
  <2>1. s = <<Read(p), W("image", i, p), Read(p)>>
    BY <1>2 DEF Calibrate
  <2> HIDE DEF s, i
  <2>2. Len(s) = 3 /\ DOMAIN s = 1 .. 3 /\ s[1] = Read(p) /\ s[2] = W("image", i, p) /\ s[3] = Read(p)
    BY <2>1
  <2>3. "image" \in Registers
    BY DEF Registers
  <2> QED
    BY <2>2, <2>3, Accesses DEF WellMade, Fits, s
<1> QED
  BY <1>1, <1>2

\* The checks of the sx1261 look at the mode and the version that were written before, the
\* first of them at the only write whose error is ignored.
LEMMA Sx1261Made == WellMade(Sx1261LoadPram) /\ WellMade(Sx1261Setup)
<1>1. WellMade(Sx1261Setup)
  <2> DEFINE s == Sx1261Setup
  <2>1. /\ Len(s) = 4 /\ DOMAIN s = 1 .. 4 /\ s[1] = W("mode", 2, "stop") /\ s[2] = Check("mode", 2, "stop")
        /\ s[3] = W("base", 128, "stop") /\ s[4] = W("sensi", 203, "stop")
    BY DEF Sx1261Setup, StdbyRc
  <2> HIDE DEF s
  <2>2. {"mode", "base", "sensi"} \subseteq Registers
    BY DEF Registers
  <2>3. Fits(s, 1) /\ Fits(s, 3) /\ Fits(s, 4)
    BY <2>1, <2>2, Accesses DEF Fits
  <2>4. Fits(s, 2)
    <3>1. 1 \in 1 .. 2 - 1 /\ s[1].op = "write" /\ Same(s[1], s[2]) /\ \A i \in 1 + 1 .. 2 - 1 : FALSE
      BY <2>1, Accesses DEF Same
    <3> QED
      BY <2>1, <2>2, <3>1, Accesses DEF Fits
  <2>5. \A k \in 1 .. 4 : k = 1 \/ k = 2 \/ k = 3 \/ k = 4
    OBVIOUS
  <2> QED
    BY <2>1, <2>3, <2>4, <2>5 DEF WellMade, s
<1>2. WellMade(Sx1261LoadPram)
  <2> DEFINE s == Sx1261LoadPram
  <2>1. /\ Len(s) = 8 /\ DOMAIN s = 1 .. 8 /\ s[1] = W("mode", 2, "ignore") /\ s[2] = Check("mode", 2, "stop")
        /\ s[3] = Read("stop") /\ s[4] = W("patching", 1, "stop") /\ s[5] = W("patch", 1, "stop")
        /\ s[6] = W("patching", 0, "stop") /\ s[7] = W("pram", 2, "stop") /\ s[8] = Check("pram", 2, "stop")
    BY DEF Sx1261LoadPram, StdbyRc
  <2> HIDE DEF s
  <2>2. {"mode", "patching", "patch", "pram"} \subseteq Registers
    BY DEF Registers
  <2>3. Fits(s, 3) /\ Fits(s, 4) /\ Fits(s, 5) /\ Fits(s, 6) /\ Fits(s, 7)
    BY <2>1, <2>2, Accesses DEF Fits
  <2>4. Fits(s, 2)
    <3>1. 1 \in 1 .. 2 - 1 /\ s[1].op = "write" /\ Same(s[1], s[2]) /\ \A i \in 1 + 1 .. 2 - 1 : FALSE
      BY <2>1, Accesses DEF Same
    <3> QED
      BY <2>1, <2>2, <3>1, Accesses DEF Fits
  <2>5. Fits(s, 8)
    <3>1. 7 \in 1 .. 8 - 1 /\ s[7].op = "write" /\ Same(s[7], s[8]) /\ \A i \in 7 + 1 .. 8 - 1 : FALSE
      BY <2>1, Accesses DEF Same
    <3> QED
      BY <2>1, <2>2, <3>1, Accesses DEF Fits
  <2>6. Fits(s, 1)
    BY <2>1, <2>2, Accesses DEF Fits, Same
  <2>7. \A k \in 1 .. 8 : k = 1 \/ k = 2 \/ k = 3 \/ k = 4 \/ k = 5 \/ k = 6 \/ k = 7 \/ k = 8
    OBVIOUS
  <2> QED
    BY <2>1, <2>3, <2>4, <2>5, <2>6, <2>7 DEF WellMade, s
<1> QED
  BY <1>1, <1>2

\* Accesses 2 and 5 look at what accesses 1 and 4 wrote; the others are writes.
LEMMA Sx1250Made ==
  ASSUME NEW f \in Tunings, NEW single \in BOOLEAN PROVE WellMade(Sx1250Setup(f, single))
<1> DEFINE s == Sx1250Setup(f, single)
           n == IF single THEN 13 ELSE 12
           reg == Sx1250FreqToReg(f)
<1> HIDE DEF reg
<1>1. s = << W("mode", 2, "note"), Check("mode", 2, "note"), W("calibrated", 127, "note"),
             W("mode", 3, "note"), Check("mode", 3, "note"),
             W("rate", 1, "note"), W("dio", 1, "note"), W("gain", 42, "note"),
             W("freq", reg, "note"), W("offset", 0, "note"), W("mode", 5, "note") >>
          \o (IF single THEN <<W("input", 13, "note")>> ELSE <<>>) \o << W("fpga", 11, "note") >>
  BY DEF Sx1250Setup, StdbyRc, StdbyXosc, RxMode, reg
<1> HIDE DEF s
<1>2. /\ Len(s) = n /\ DOMAIN s = 1 .. n
      /\ s[1] = W("mode", 2, "note") /\ s[2] = Check("mode", 2, "note") /\ s[3] = W("calibrated", 127, "note")
      /\ s[4] = W("mode", 3, "note") /\ s[5] = Check("mode", 3, "note")
      /\ s[6] = W("rate", 1, "note") /\ s[7] = W("dio", 1, "note") /\ s[8] = W("gain", 42, "note")
      /\ s[9] = W("freq", reg, "note") /\ s[10] = W("offset", 0, "note") /\ s[11] = W("mode", 5, "note")
      /\ \E r \in {"input", "fpga"} : \E v : s[12] = W(r, v, "note")
      /\ single => s[13] = W("fpga", 11, "note")
  <2>1. CASE single = TRUE
    BY <1>1, <2>1
  <2>2. CASE single = FALSE
    BY <1>1, <2>2
  <2> QED
    BY <2>1, <2>2
<1>3. {"mode", "calibrated", "rate", "dio", "gain", "freq", "offset", "input", "fpga"} \subseteq Registers
  BY DEF Registers
<1> HIDE DEF n
<1>4. \A k \in 1 .. n : k # 2 /\ k # 5 => \E r \in Registers : \E v : s[k] = W(r, v, "note")
  <2>1. n = 12 \/ (n = 13 /\ single)
    BY DEF n
  <2>2. \A k \in 1 .. n : \/ k = 1 \/ k = 2 \/ k = 3 \/ k = 4 \/ k = 5 \/ k = 6 \/ k = 7 \/ k = 8 \/ k = 9 \/ k = 10 \/ k = 11
                          \/ k = 12 \/ (k = 13 /\ single)
    BY <2>1
  <2> QED
    BY <1>2, <1>3, <2>2
<1>5. \A k \in 1 .. n : k # 2 /\ k # 5 => Fits(s, k)
  BY <1>4, Accesses DEF Fits
<1>6. Fits(s, 2)
  <2>1. 1 \in 1 .. 2 - 1 /\ s[1].op = "write" /\ Same(s[1], s[2]) /\ \A i \in 1 + 1 .. 2 - 1 : FALSE
    BY <1>2, Accesses DEF Same
  <2> QED
    BY <1>2, <1>3, <2>1, Accesses DEF Fits
<1>7. Fits(s, 5)
  <2>1. 4 \in 1 .. 5 - 1 /\ s[4].op = "write" /\ Same(s[4], s[5]) /\ \A i \in 4 + 1 .. 5 - 1 : FALSE
    BY <1>2, Accesses DEF Same
  <2> QED
    BY <1>2, <1>3, <2>1, Accesses DEF Fits
<1>8. n \in Nat
  BY DEF n
<1> QED
  BY <1>2, <1>5, <1>6, <1>7, <1>8 DEF WellMade, s

\* Writes, and the lock in the end.
LEMMA Sx125xMade ==
  ASSUME NEW type, NEW clkout, NEW f PROVE WellMade(Sx125xSetup(type, clkout, f))
<1> DEFINE s == Sx125xSetup(type, clkout, f)
<1>1. /\ Len(s) = 8 /\ DOMAIN s = 1 .. 8 /\ s[1] = Read("ignore") /\ s[8] = Lock
      /\ \E v : s[2] = W("clkout", v, "ignore")
      /\ s[3] = W("xosc", 1, "ignore") /\ s[4] = W("filters", 1, "ignore")
      /\ \E v : s[5] = W("msb", v, "ignore")
      /\ \E v : s[6] = W("mid", v, "ignore")
      /\ \E v : s[7] = W("lsb", v, "ignore")
  BY DEF Sx125xSetup
<1> HIDE DEF s
<1>2. {"mode", "clkout", "xosc", "filters", "msb", "mid", "lsb"} \subseteq Registers
  BY DEF Registers
<1>3. \A k \in 1 .. 8 : k # 1 /\ k # 8 => \E r \in Registers \ {"mode"} : \E v : s[k] = W(r, v, "ignore")
  <2>1. \A k \in 1 .. 8 : k = 1 \/ k = 2 \/ k = 3 \/ k = 4 \/ k = 5 \/ k = 6 \/ k = 7 \/ k = 8
    OBVIOUS
  <2> QED
    BY <1>1, <1>2, <2>1
<1>4. \A k \in 1 .. 8 : k # 1 /\ k # 8 => Fits(s, k)
  BY <1>1, <1>3, Accesses DEF Fits
<1>5. Fits(s, 1)
  BY <1>1, Accesses DEF Fits
<1>6. Fits(s, 8)
  <2>1. \A j \in 1 .. 8 - 1 : ~ WritesTo(s[j], "mode")
    BY <1>1, <1>3, Accesses DEF WritesTo, Writes
  <2> QED
    BY <1>1, <1>2, <2>1, Accesses DEF Fits
<1> QED
  BY <1>1, <1>4, <1>5, <1>6 DEF WellMade, s

\* All scripts can cope with a failing access.
LEMMA ScriptsMade == \A s \in Scripts : WellMade(s)
BY CalibrateMade, Sx1261Made, Sx1250Made, Sx125xMade DEF Scripts

\* Before the set-up nothing is asked.
LEMMA InitSetUp == SetUpInit => SetUpInv
<1> SUFFICES ASSUME SetUpInit PROVE SetUpInv
  OBVIOUS
<1>1. SetUpTypes
  <2>1. DOMAIN chip = Registers
    BY DEF SetUpInit
  <2>2. noted \in BOOLEAN /\ ~ noted
    BY Zenon DEF SetUpInit
  <2>3. outcome = "none" /\ at = 1 /\ failures = 0 /\ attempts = 0
    BY DEF SetUpInit
  <2> QED
    BY <2>1, <2>2, <2>3 DEF SetUpTypes, PllLockMaxAttempts
<1>2. NotedFailure /\ SoFar /\ Explained
  BY DEF SetUpInit, NotedFailure, SoFar, Explained
<1> QED
  BY <1>1, <1>2 DEF SetUpInv

\* Nor is anything as it begins, whatever the registers hold.
LEMMA BeginInv == SetUpInv /\ BeginSetUp => SetUpInv'
<1> SUFFICES ASSUME SetUpInv, BeginSetUp PROVE SetUpInv'
  OBVIOUS
<1>1. /\ outcome' = "running" /\ script' \in Scripts /\ chip' \in Leftovers /\ at' = 1 /\ noted' = FALSE
      /\ failures' = 0 /\ attempts' = attempts
  BY DEF BeginSetUp, SetUpInv, SetUpTypes
<1>2. DOMAIN chip' = Registers
  BY <1>1, SetUpAssumption
<1>3. 1 \in 1 .. Len(script') + 1
  BY <1>1, ScriptsMade DEF WellMade
<1>4. SetUpTypes'
  BY <1>1, <1>2, <1>3 DEF SetUpInv, SetUpTypes
<1>5. NotedFailure' /\ Explained'
  BY <1>1 DEF NotedFailure, Explained
<1>6. SoFar'
  BY <1>1 DEF SoFar
<1> QED
  BY <1>4, <1>5, <1>6 DEF SetUpInv

\* What is known of an access that comes.
LEMMA NextAccess ==
  ASSUME SetUpInv, outcome = "running", at \in DOMAIN script
  PROVE  /\ Fits(script, at) /\ Len(script) \in Nat /\ DOMAIN script = 1 .. Len(script) /\ at \in 1 .. Len(script)
         /\ script \in Scripts /\ WellMade(script)
BY ScriptsMade DEF SetUpInv, SetUpTypes, WellMade

\* The set-up goes on to the next access, with the chip and the errors noted as they are
\* after this one: what was asked so far is as it should be, if it was and this access is.
LEMMA GoesOn ==
  ASSUME SetUpInv, outcome = "running", at \in DOMAIN script,
         script' = script, outcome' = "running", at' = at + 1, attempts' \in 0 .. PllLockMaxAttempts,
         failures' \in Nat, noted' \in BOOLEAN, DOMAIN chip' = Registers, NotedFailure', SoFar'
  PROVE  SetUpInv'
BY NextAccess DEF SetUpInv, SetUpTypes, Explained

\* An error that has a reason ends the set-up.
LEMMA EndsInv ==
  ASSUME SetUpInv, outcome = "running", End("error"),
         failures' \in Nat, failures' >= failures, attempts' = attempts, DOMAIN chip' = Registers,
         failures' > 0 \/ Refused(script) \/ (Careless /\ attempts = PllLockMaxAttempts)
  PROVE  SetUpInv'
<1>1. outcome' = "error" /\ script' = script /\ at' = at /\ noted' = noted
  BY DEF End
<1>2. Careless => Careless'
  BY <1>1 DEF Careless
<1>3. NotedFailure'
  BY <1>1 DEF NotedFailure, SetUpInv, SetUpTypes
<1> QED
  BY <1>1, <1>2, <1>3 DEF SetUpInv, SetUpTypes, SoFar, Explained, Refused

\* An access that writes nothing.
LEMMA UntouchedSoFar ==
  ASSUME SetUpInv, outcome = "running", at \in DOMAIN script, script[at].op \notin Writes,
         script' = script, at' = at + 1, chip' = chip, failures' \in Nat, failures' >= failures,
         ~ noted' => ~ noted,
         script[at].op = "check" => chip[script[at].reg] = script[at].value
  PROVE  SoFar'
<1> SUFFICES ASSUME ~ noted', (Careless => failures = 0)', NEW k \in 1 .. at' - 1, LastWrite(k, at)'
             PROVE  Holds(k)'
  BY DEF SoFar
<1>1. at \in Nat /\ failures \in Nat
  BY DEF SetUpInv, SetUpTypes
<1>2. LastWrite(k, at') /\ k # at /\ k \in 1 .. at - 1
  BY <1>1 DEF LastWrite
<1>3. LastWrite(k, at)
  BY <1>1, <1>2 DEF LastWrite
<1>4. Careless => failures = 0
  BY <1>1 DEF Careless
<1>5. Holds(k) \/ Doubtful(k)
  BY <1>2, <1>3, <1>4 DEF SetUpInv, SoFar
<1>6. Holds(k)
  BY <1>5 DEF Holds, Doubtful, Same
<1> QED
  BY <1>6 DEF Holds

\* An access that wrote its register.
LEMMA WrittenSoFar ==
  ASSUME SetUpInv, outcome = "running", at \in DOMAIN script, script[at].op = "write",
         script' = script, at' = at + 1, failures' \in Nat, failures' >= failures, ~ noted' => ~ noted,
         \/ chip' = [chip EXCEPT ![script[at].reg] = script[at].value]
         \/ /\ chip' = chip /\ failures' > 0
            /\ noted' \/ script[at].policy \notin {"note", "stop"}
  PROVE  SoFar'
<1> SUFFICES ASSUME ~ noted', (Careless => failures = 0)', NEW k \in 1 .. at' - 1, LastWrite(k, at)'
             PROVE  (Holds(k) \/ Doubtful(k))'
  BY DEF SoFar
<1>1. at \in Nat /\ failures \in Nat /\ DOMAIN chip = Registers
  BY DEF SetUpInv, SetUpTypes
<1>2. LastWrite(k, at + 1)
  BY DEF LastWrite
<1>3. Careless => failures = 0 /\ failures' = 0
  BY <1>1 DEF Careless
<1>4. script[at].reg \in Registers
  BY NextAccess DEF Fits
<1>5. CASE k = at
  <2>1. CASE chip' = [chip EXCEPT ![script[at].reg] = script[at].value]
    BY <1>1, <1>4, <1>5, <2>1 DEF Holds
  <2>2. CASE chip' = chip /\ failures' > 0 /\ (noted' \/ script[at].policy \notin {"note", "stop"})
    <3>1. ~ \E j \in DOMAIN script : script[j] = Lock
      BY <1>3, <2>2 DEF Careless
    <3>2. at + 1 \in DOMAIN script /\ script[at + 1].op = "check" /\ Same(script[at + 1], script[at])
      BY <2>2, <3>1, NextAccess DEF Fits
    <3>3. at + 1 <= Len(script)
      BY <1>1, <3>2, NextAccess
    <3> QED
      BY <1>1, <1>5, <2>2, <3>2, <3>3 DEF Doubtful, Same
  <2> QED
    BY <2>1, <2>2
<1>6. CASE k # at
  <2>1. k \in 1 .. at - 1 /\ LastWrite(k, at) /\ script[at].reg # script[k].reg
    BY <1>1, <1>2, <1>6 DEF LastWrite, Writes
  <2>2. Holds(k) \/ Doubtful(k)
    BY <1>3, <2>1 DEF SetUpInv, SoFar
  <2>3. Holds(k)
    BY <2>2 DEF Doubtful
  <2>4. script[k].reg \in Registers
    BY <1>1, <2>1, NextAccess DEF WellMade, Fits, LastWrite, Writes
  <2> QED
    BY <1>1, <1>4, <2>1, <2>3, <2>4 DEF Holds
<1> QED
  BY <1>5, <1>6

\* With no failure, a check finds what it looks for.
LEMMA CheckHolds ==
  ASSUME SetUpInv, outcome = "running", at \in DOMAIN script, script[at].op = "check", failures = 0
  PROVE  chip[script[at].reg] = script[at].value
<1>1. PICK j \in 1 .. at - 1 : /\ script[j].op = "write" /\ Same(script[j], script[at])
                               /\ \A i \in j + 1 .. at - 1 : ~ WritesTo(script[i], script[j].reg)
  BY NextAccess DEF Fits
<1>2. LastWrite(j, at)
  BY <1>1 DEF LastWrite, WritesTo, Writes
<1>3. ~ noted
  BY DEF SetUpInv, SetUpTypes, NotedFailure
<1>4. Holds(j) \/ Doubtful(j)
  BY <1>2, <1>3 DEF SetUpInv, SoFar
<1> QED
  BY <1>1, <1>4 DEF Holds, Doubtful, Same

\* What failures do to their counter.
LEMMA Failing ==
  ASSUME SetUpInv, NEW fail \in BOOLEAN, May(fail)
  PROVE  failures \in Nat /\ failures' \in Nat /\ failures' >= failures /\ (fail => failures' > 0) /\ (~ fail => failures' = failures)
BY DEF May, SetUpInv, SetUpTypes

\* A write, done or not: the set-up stops, notes it, or goes on in doubt.
LEMMA RegWInv == ASSUME SetUpInv, NEW fail \in BOOLEAN, RegW(fail) PROVE SetUpInv'
<1>1. /\ outcome = "running" /\ at \in DOMAIN script /\ script[at].op = "write" /\ May(fail) /\ attempts' = attempts
      /\ Judge(fail) /\ Written(fail)
  BY DEF RegW, Comes, Access
<1>2. /\ failures \in Nat /\ failures' \in Nat /\ failures' >= failures /\ (fail => failures' > 0)
      /\ attempts \in 0 .. PllLockMaxAttempts /\ DOMAIN chip = Registers /\ noted \in BOOLEAN
  BY <1>1, Failing DEF SetUpInv, SetUpTypes
<1>3. \/ chip' = [chip EXCEPT ![script[at].reg] = script[at].value]
      \/ chip' = chip /\ fail
  BY <1>1 DEF Written, Access
<1>4. DOMAIN chip' = Registers
  BY <1>2, <1>3
<1>5. CASE End("error") /\ fail
  BY <1>1, <1>2, <1>4, <1>5, EndsInv
<1>6. CASE GoOn /\ \/ noted' = (noted \/ fail)
                   \/ noted' = noted /\ ~ (fail /\ script[at].policy \in {"note", "stop"})
  <2>1. script' = script /\ outcome' = "running" /\ at' = at + 1 /\ noted' \in BOOLEAN /\ (~ noted' => ~ noted)
    BY <1>1, <1>2, <1>6 DEF GoOn
  <2>2. \/ chip' = [chip EXCEPT ![script[at].reg] = script[at].value]
        \/ chip' = chip /\ failures' > 0 /\ (noted' \/ script[at].policy \notin {"note", "stop"})
    BY <1>2, <1>3, <1>6
  <2>3. SoFar'
    BY <1>1, <1>2, <2>1, <2>2, WrittenSoFar
  <2>4. NotedFailure'
    <3>1. ~ fail => noted' = noted
      BY <1>2, <1>6
    <3>2. CASE fail
      BY <1>2, <3>2 DEF NotedFailure
    <3>3. CASE ~ fail
      <4>1. noted' = noted /\ failures' = failures
        BY <1>1, <3>1, <3>3 DEF May
      <4> QED
        BY <4>1, Zenon DEF NotedFailure, SetUpInv
    <3> QED
      BY <3>2, <3>3
  <2> QED
    BY <1>1, <1>2, <1>4, <2>1, <2>3, <2>4, GoesOn
<1>7. \/ End("error") /\ fail
      \/ GoOn /\ noted' = (noted \/ fail)
      \/ GoOn /\ noted' = noted /\ ~ (fail /\ script[at].policy \in {"note", "stop"})
  BY <1>1 DEF Judge, Noted, Access
<1> QED
  BY <1>5, <1>6, <1>7

\* Reading changes no register.
LEMMA RegRInv == ASSUME SetUpInv, NEW fail \in BOOLEAN, RegR(fail) PROVE SetUpInv'
<1>1. /\ outcome = "running" /\ at \in DOMAIN script /\ script[at].op = "read" /\ May(fail) /\ attempts' = attempts
      /\ Judge(fail) /\ chip' = chip
  BY DEF RegR, Comes, Access
<1>2. /\ failures \in Nat /\ failures' \in Nat /\ failures' >= failures /\ (fail => failures' > 0)
      /\ attempts \in 0 .. PllLockMaxAttempts /\ DOMAIN chip = Registers /\ noted \in BOOLEAN
  BY <1>1, Failing DEF SetUpInv, SetUpTypes
<1>3. CASE End("error") /\ fail
  BY <1>1, <1>2, <1>3, EndsInv
<1>4. CASE GoOn /\ (noted' = (noted \/ fail) \/ noted' = noted)
  <2>1. script' = script /\ outcome' = "running" /\ at' = at + 1 /\ noted' \in BOOLEAN /\ (~ noted' => ~ noted)
    BY <1>1, <1>2, <1>4 DEF GoOn
  <2>2. SoFar'
    BY <1>1, <1>2, <2>1, UntouchedSoFar DEF Writes
  <2>3. NotedFailure'
    <3>1. ~ fail => noted' = noted
      BY <1>2, <1>4
    <3>2. CASE fail
      BY <1>2, <3>2 DEF NotedFailure
    <3>3. CASE ~ fail
      <4>1. noted' = noted /\ failures' = failures
        BY <1>1, <3>1, <3>3 DEF May
      <4> QED
        BY <4>1, Zenon DEF NotedFailure, SetUpInv
    <3> QED
      BY <3>2, <3>3
  <2> QED
    BY <1>1, <1>2, <2>1, <2>2, <2>3, GoesOn
<1>5. \/ End("error") /\ fail
      \/ GoOn /\ (noted' = (noted \/ fail) \/ noted' = noted)
  BY <1>1 DEF Judge, Noted
<1> QED
  BY <1>3, <1>4, <1>5

\* A check that passes removes the doubt about the write before it; one that does not
\* follows a failure.
LEMMA CheckStatusInv == ASSUME SetUpInv, NEW fail \in BOOLEAN, CheckStatus(fail) PROVE SetUpInv'
<1>1. /\ outcome = "running" /\ at \in DOMAIN script /\ script[at].op = "check" /\ May(fail) /\ attempts' = attempts
      /\ chip' = chip
  BY DEF CheckStatus, Comes, Access
<1>2. /\ failures \in Nat /\ failures' \in Nat /\ failures' >= failures /\ (fail => failures' > 0)
      /\ attempts \in 0 .. PllLockMaxAttempts /\ DOMAIN chip = Registers /\ noted \in BOOLEAN
  BY <1>1, Failing DEF SetUpInv, SetUpTypes
<1>3. CASE fail \/ chip[script[at].reg] # script[at].value
  <2>1. End("error")
    BY <1>3 DEF CheckStatus, Access
  <2>2. failures' > 0
    BY <1>1, <1>2, <1>3, CheckHolds
  <2> QED
    BY <1>1, <1>2, <2>1, <2>2, EndsInv
<1>4. CASE ~ (fail \/ chip[script[at].reg] # script[at].value)
  <2>1. script' = script /\ outcome' = "running" /\ at' = at + 1 /\ noted' = noted
    BY <1>1, <1>4 DEF CheckStatus, Access, GoOn
  <2>2. SoFar'
    BY <1>1, <1>2, <1>4, <2>1, UntouchedSoFar DEF Writes
  <2>3. NotedFailure'
    BY <1>2, <2>1 DEF NotedFailure, SetUpInv
  <2> QED
    BY <1>1, <1>2, <2>1, <2>2, <2>3, GoesOn
<1> QED
  BY <1>3, <1>4

\* The mode, which the lock writes, is no register that was asked for before.
LEMMA LockInv == ASSUME SetUpInv, NEW fail \in BOOLEAN, LockPll(fail) PROVE SetUpInv'
<1>1. /\ outcome = "running" /\ at \in DOMAIN script /\ script[at].op = "lock" /\ May(fail) /\ attempts' = attempts + 1
      /\ attempts < PllLockMaxAttempts /\ Written(fail) /\ noted' = noted
      /\ GoOn \/ UNCHANGED <<script, at, outcome>>
  BY DEF LockPll, Comes, Access
<1>2. /\ failures \in Nat /\ failures' \in Nat /\ failures' >= failures /\ (fail => failures' > 0)
      /\ attempts \in 0 .. PllLockMaxAttempts /\ DOMAIN chip = Registers /\ noted \in BOOLEAN /\ at \in Nat
  BY <1>1, Failing DEF SetUpInv, SetUpTypes
<1>3. /\ script[at] = Lock /\ script[at].reg = "mode" /\ script[at].value = 3 /\ "mode" \in Registers
      /\ \A j \in 1 .. at - 1 : ~ WritesTo(script[j], "mode")
  BY <1>1, NextAccess, Accesses DEF Fits
<1>4. Careless
  BY <1>1, <1>3 DEF Careless
<1>5. chip' = [chip EXCEPT !["mode"] = 3] \/ (chip' = chip /\ fail)
  BY <1>1, <1>3 DEF Written, Access
<1>6. DOMAIN chip' = Registers
  BY <1>2, <1>5
<1>7. script' = script /\ outcome' = "running" /\ at' \in {at, at + 1}
  BY <1>1 DEF GoOn
<1>8. NotedFailure'
  BY <1>1, <1>2 DEF NotedFailure, SetUpInv
<1>9. attempts' \in 0 .. PllLockMaxAttempts
  BY <1>1, <1>2 DEF PllLockMaxAttempts
<1>10. SoFar'
  <2> SUFFICES ASSUME ~ noted', (Careless => failures = 0)', NEW k \in 1 .. at' - 1, LastWrite(k, at)'
               PROVE  Holds(k)'
    BY DEF SoFar
  <2>1. failures' = 0 /\ failures = 0 /\ ~ fail /\ chip' = [chip EXCEPT !["mode"] = 3]
    BY <1>2, <1>4, <1>5, <1>7 DEF Careless
  <2>2. LastWrite(k, at')
    BY <1>7 DEF LastWrite
  <2>3. CASE k = at
    BY <1>2, <1>3, <1>7, <2>1, <2>3 DEF Holds
  <2>4. CASE k # at
    <3>1. k \in 1 .. at - 1 /\ LastWrite(k, at)
      <4>1. CASE at' = at
        BY <1>7, <2>2, <4>1 DEF LastWrite
      <4>2. CASE at' = at + 1
        BY <1>2, <2>2, <2>4, <4>2 DEF LastWrite
      <4> QED
        BY <1>7, <4>1, <4>2
    <3>2. Holds(k)
      BY <1>1, <2>1, <3>1 DEF SetUpInv, SoFar, Doubtful
    <3>3. script[k].reg # "mode"
      BY <1>3, <3>1 DEF LastWrite, WritesTo
    <3>4. script[k].reg \in Registers
      BY <1>1, <1>2, <3>1, NextAccess DEF WellMade, Fits, LastWrite, Writes
    <3> QED
      BY <1>2, <1>7, <2>1, <3>2, <3>3, <3>4 DEF Holds
  <2> QED
    BY <2>3, <2>4
<1> QED
  BY <1>1, <1>2, <1>6, <1>7, <1>8, <1>9, <1>10, NextAccess DEF SetUpInv, SetUpTypes, Explained

\* Only the set-up of an sx125x tries to lock, and gives up after five attempts.
LEMMA GiveUpInv == ASSUME SetUpInv, GiveUp PROVE SetUpInv'
<1>1. /\ outcome = "running" /\ at \in DOMAIN script /\ script[at].op = "lock" /\ attempts >= PllLockMaxAttempts
      /\ End("error") /\ UNCHANGED <<chip, failures, attempts>>
  BY DEF GiveUp, Comes, Access
<1>2. Careless
  BY <1>1, NextAccess DEF Fits, Careless
<1>3. failures \in Nat /\ attempts = PllLockMaxAttempts /\ DOMAIN chip = Registers
  BY <1>1 DEF SetUpInv, SetUpTypes, PllLockMaxAttempts
<1> QED
  BY <1>1, <1>2, <1>3, EndsInv

\* Only a calibration refuses, outside the bands.
LEMMA RefuseInv == ASSUME SetUpInv, RefuseFrequency PROVE SetUpInv'
<1>1. /\ outcome = "running" /\ at \in DOMAIN script /\ script[at].op = "refuse"
      /\ End("error") /\ UNCHANGED <<chip, failures, attempts>>
  BY DEF RefuseFrequency, Comes, Access
<1>2. Refused(script)
  BY <1>1, NextAccess DEF Fits
<1>3. failures \in Nat /\ DOMAIN chip = Registers
  BY <1>1 DEF SetUpInv, SetUpTypes
<1> QED
  BY <1>1, <1>2, <1>3, EndsInv

\* In the end no access is in doubt, as none comes that could look at it.
LEMMA EndInv == ASSUME SetUpInv, EndSetUp PROVE SetUpInv'
<1>1. outcome = "running" /\ at = Len(script) + 1 /\ UNCHANGED <<chip, failures, attempts>>
  BY DEF EndSetUp
<1>2. failures \in Nat /\ DOMAIN chip = Registers /\ noted \in BOOLEAN
  BY DEF SetUpInv, SetUpTypes
<1>3. CASE noted
  <2>1. End("error") /\ failures > 0
    BY <1>3 DEF EndSetUp, SetUpInv, NotedFailure
  <2> QED
    BY <1>1, <1>2, <2>1, EndsInv
<1>4. CASE ~ noted
  <2>1. outcome' = "ok" /\ UNCHANGED <<script, at, noted>>
    BY <1>4 DEF EndSetUp, End
  <2>2. SoFar'
    BY <1>1, <2>1 DEF SetUpInv, SoFar, Careless, LastWrite, Holds, Doubtful
  <2> QED
    BY <1>1, <1>4, <2>1, <2>2 DEF SetUpInv, SetUpTypes, NotedFailure, Explained
<1> QED
  BY <1>2, <1>3, <1>4

\* Nothing changes while the radio is left alone.
LEMMA SetUpStutter == SetUpInv /\ UNCHANGED setUpVars => SetUpInv'
BY DEF SetUpInv, SetUpTypes, NotedFailure, SoFar, Explained, Careless, LastWrite, Holds, Doubtful, setUpVars

\* At the end of the script, what was asked so far is all that was asked.
LEMMA InvIsSound == SetUpInv => SetUpSound
<1> SUFFICES ASSUME SetUpInv PROVE SetUpSound
  OBVIOUS
<1>1. ASSUME outcome = "ok", Careless => failures = 0, NEW k \in DOMAIN script, LastWrite(k, Len(script) + 1)
      PROVE  Holds(k)
  <2>1. at = Len(script) + 1 /\ ~ noted /\ Len(script) \in Nat /\ DOMAIN script = 1 .. Len(script)
    BY <1>1, ScriptsMade DEF SetUpInv, SetUpTypes, WellMade
  <2>2. Holds(k) \/ Doubtful(k)
    BY <1>1, <2>1 DEF SetUpInv, SoFar
  <2> QED
    BY <2>1, <2>2 DEF Doubtful
<1>2. outcome = "error" => failures > 0 \/ Refused(script) \/ (Careless /\ attempts = PllLockMaxAttempts)
  BY DEF SetUpInv, Explained
<1> QED
  BY <1>1, <1>2 DEF SetUpSound, Refused

\* A set-up that reports success left the radio as asked, whatever it held before and
\* whichever accesses failed, and one that reports an error has a reason (SetUpSound).
THEOREM SetUpsAreSound == SetUpSpec => []SetUpSound
<1>1. SetUpInv /\ SetUpNext => SetUpInv'
  BY BeginInv, RegWInv, RegRInv, CheckStatusInv, LockInv, GiveUpInv, RefuseInv, EndInv DEF SetUpNext
<1>2. SetUpInv /\ [SetUpNext]_setUpVars => SetUpInv'
  BY <1>1, SetUpStutter
<1> QED
  BY InitSetUp, <1>2, InvIsSound, PTL DEF SetUpSpec
=============================================================================
