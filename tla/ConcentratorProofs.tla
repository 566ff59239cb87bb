-------------------------- MODULE ConcentratorProofs --------------------------
(***************************************************************************)
(* Theorems about Concentrator for every set of configurations, every      *)
(* number of faults and of packets.                                        *)
(*                                                                         *)
(* lgw_start is a script that depends on the configuration, and its host   *)
(* and the firmware of the micro-controllers go through it together.  The  *)
(* proof annotates the script: a note between every two operations says    *)
(* how far each firmware has come (Holds).  That every script there is can *)
(* be annotated from "off" to the arbiter told (StartScriptLeads) follows  *)
(* the structure of the functions that make it up; that each operation and *)
(* each step of a firmware keeps what the notes say is then a fact about   *)
(* one operation, whatever script it is in.  What lgw_start leaves behind  *)
(* is the base of the invariant of lgw_send.                               *)
(***************************************************************************)
EXTENDS Concentrator, SequenceTheorems, WellFoundedInduction, TLAPS

-----------------------------------------------------------------------------
(* The notes of the script.                                                  *)

\* The notes: what the script has come to.  The concentrator is off; the calibration
\* firmware boots, is awake, told to resume, at rest; its PLLs are locked, it is aimed at a
\* mode, told the code of a round, at the round it settled in.
Off == <<"off", 0, 0>>
CalBoot == <<"cal boot", 0, 0>>
CalAwake == <<"cal awake", 0, 0>>
CalResuming == <<"cal resuming", 0, 0>>
CalIdle == <<"cal idle", 0, 0>>
CalLocked == <<"cal locked", 0, 0>>
CalAimed(m) == <<"cal aimed", m, 0>>
CalTold(m, i) == <<"cal told", m, i>>
CalSettled(m, i) == <<"cal settled", m, i>>
\* The AGC firmware boots, waits for a round, is told of it, has its answer read back.
AgcBoot == <<"agc boot", 0, 0>>
AgcReady(i) == <<"agc ready", i, 0>>
AgcToldOf(i) == <<"agc told", i, 0>>
AgcCheck(i, j) == <<"agc check", i, j>>
\* The arbiter firmware, before operation k of sx1302_arb_start.
ArbAt(k) == <<"arb", k, 0>>

\* The kinds of notes, and the functions that load a firmware.
CalNotes == {"cal boot", "cal awake", "cal resuming", "cal idle", "cal locked", "cal aimed", "cal told", "cal settled"}
AgcNotes == {"agc boot", "agc ready", "agc told", "agc check"}
Loads == {"load cal", "load agc", "load arb"}

\* The parameters, the rounds and the number of exchanges of a configuration.
ParamsOf(c) == AgcParams(c.type[c.clksrc], IF c.fdd THEN 1 ELSE 0, IF c.lbt THEN 1 ELSE 0)
RoundsOf(c) == AgcRounds(c.type[c.clksrc])
LastOf(c) == Len(ParamsOf(c))

\* A function leads from note a to note b.
DoLeads(c, a, op, b) ==
  \/ op.what \notin Loads /\ b = a
  \/ op.what = "load cal" /\ a = Off /\ b = CalBoot
  \/ op.what = "load agc" /\ a \in {Off, CalIdle} /\ b = AgcBoot
  \/ op.what = "load arb" /\ a = AgcToldOf(LastOf(c) + 1) /\ b = ArbAt(1)

\* The operations of a calibration, by what is quantified in them.
CalTop(a, op, b) ==
  \/ a = CalBoot /\ op = Await("agc", 1) /\ b = CalAwake
  \/ a = CalAwake /\ op.op = "check" /\ op.mcu = "agc" /\ b = CalAwake
  \/ a = CalAwake /\ op = Put("agc", 3, 255) /\ b = CalResuming
  \/ a = CalResuming /\ op = Await("agc", 0) /\ b = CalIdle
  \/ a = CalIdle /\ op.op = "locked" /\ b = CalLocked
  \/ a = CalIdle /\ op.op = "judge" /\ b = CalIdle

CalAim(k, a, op, b) ==
  \/ a = CalLocked /\ op = Put("agc", 2, k) /\ b = CalAimed(k)
  \/ /\ a = CalAimed(k) /\ b = a /\ op.op = "put" /\ op.mcu = "agc"
     /\ op.box \in {0, 1} \/ (op.box = 3 /\ op.value = 0)
  \/ a = CalAimed(k) /\ op = Put("agc", 3, 1) /\ b = CalTold(k, 1)

CalTell(k, i, a, op, b) ==
  \/ /\ a = CalSettled(k, i) /\ b = a /\ op.op = "put" /\ op.mcu = "agc"
     /\ op.box \in {0, 1} \/ (op.box = 2 /\ op.value \in 0 .. 3)
  \/ a = CalSettled(k, i) /\ op = Put("agc", 3, CalCodes(k)[i]) /\ b = CalTold(k, i)

CalHear(k, i, a, op, b) ==
  \/ /\ a = CalTold(k, i) /\ op = Await("agc", CalAnswer(k, i))
     /\ b = IF i = Len(CalCodes(k)) THEN CalIdle ELSE CalSettled(k, i + 1)
  \/ a = CalSettled(k, i) /\ op = Collect(i - 1) /\ b = a

CalLeads(a, op, b) ==
  \/ CalTop(a, op, b)
  \/ \E k \in 0 .. 3 : CalAim(k, a, op, b)
  \/ \E k \in 0 .. 3 : \E i \in 1 .. Len(CalCodes(k)) : CalTell(k, i, a, op, b) \/ CalHear(k, i, a, op, b)

\* The operations of sx1302_agc_start, the same; the last exchange does not put the value
\* that asks the AGC to clear its status.
AgcTop(a, op, b) ==
  \/ a = AgcBoot /\ op = Await("agc", 1) /\ b = AgcReady(1)
  \/ a = AgcReady(1) /\ op.op = "check" /\ op.mcu = "agc" /\ b = a

AgcHear(c, i, a, op, b) ==
  \/ /\ a = AgcReady(i) /\ b = a /\ op.op = "put" /\ op.mcu = "agc" /\ op.box \in 0 .. 2
     /\ i # LastOf(c) \/ op.value # 255
  \/ a = AgcToldOf(i) /\ op = Await("agc", ParamsOf(c)[i].status) /\ b = AgcCheck(i, 0)

AgcShow(c, i, j, a, op, b) ==
  /\ a = AgcCheck(i, j - 1) /\ op = Check("agc", j - 1, ParamsOf(c)[i].check[j], ParamsOf(c)[i].how)
  /\ b = IF j = Len(ParamsOf(c)[i].check) THEN AgcReady(i + 1) ELSE AgcCheck(i, j)

AgcTell(c, i, a, op, b) ==
  a = AgcReady(i) /\ op = Put("agc", 3, RoundsOf(c)[i].code) /\ b = AgcToldOf(i)

AgcLeads(c, a, op, b) ==
  \/ AgcTop(a, op, b)
  \/ \E i \in 1 .. LastOf(c) : \/ AgcHear(c, i, a, op, b)
                             \/ \E j \in 1 .. Len(ParamsOf(c)[i].check) : AgcShow(c, i, j, a, op, b)
  \/ \E i \in 1 .. LastOf(c) + 1 : AgcTell(c, i, a, op, b)

\* The operations of sx1302_arb_start.
ArbLeads(c, a, op, b) ==
  \E k \in 1 .. 7 : a = ArbAt(k) /\ op = ArbStart(c.ftime)[k] /\ b = ArbAt(k + 1)

\* Operation op leads from note a to note b.
OpLeads(c, a, op, b) ==
  \/ op.op = "do" /\ DoLeads(c, a, op, b)
  \/ CalLeads(a, op, b)
  \/ AgcLeads(c, a, op, b)
  \/ ArbLeads(c, a, op, b)

-----------------------------------------------------------------------------
\* One sequence after another, the concatenation kept whole.
Cat(s, t) == s \o t

\* f is a note before each operation of s and after the last; what a lock or a
\* judgement leaves out leads back to where it began.
Annotates(c, f, s) ==
  \A k \in 1 .. Len(s) :
    /\ OpLeads(c, f[k], s[k], f[k + 1])
    /\ s[k].op \in {"locked", "judge"} =>
         k + 1 + s[k].count <= Len(s) + 1 /\ f[k + 1 + s[k].count] = f[k]

\* The operations of s lead from note a to note b.
Leads(c, s, a, b) ==
  /\ s \in Seq(Operation)
  /\ \E f : f[1] = a /\ f[Len(s) + 1] = b /\ Annotates(c, f, s)

\* A set of natural numbers that is not empty has a least element.
LEMMA Least ==
    ASSUME NEW S \in SUBSET Nat, S # {}
    PROVE  \E x \in S : \A y \in S : x <= y
<1>1. PICK x \in S : \A y \in S : ~(<<y, x>> \in OpToRel(<, Nat))
  BY NatLessThanWellFounded, WFMin
<1>2. \A y \in S : ~(y < x)
  BY <1>1 DEF OpToRel
<1> QED
  BY <1>2

\* How many operations a lock or a judgement leaves out is a natural number.
LEMMA CountIsNat == \A op \in Operation : op.op \in {"locked", "judge"} => op.count \in Nat
BY DEF Operation

\* No operation leads from a note to itself.
LEMMA NoOperation ==
    ASSUME NEW c, NEW a
    PROVE  Leads(c, <<>>, a, a)
<1> DEFINE f == [k \in 1 .. 1 |-> a]
<1>1. <<>> \in Seq(Operation) /\ Len(<<>>) = 0
  OBVIOUS
<1>2. f[1] = a /\ f[Len(<<>>) + 1] = a
  BY <1>1
<1>3. Annotates(c, f, <<>>)
  BY <1>1 DEF Annotates
<1> QED
  BY <1>1, <1>2, <1>3 DEF Leads

\* One operation that leaves none out leads where it leads.
LEMMA OneOperation ==
    ASSUME NEW c, NEW a, NEW b, NEW op \in Operation, OpLeads(c, a, op, b),
           op.op \in {"locked", "judge"} => op.count = 0 /\ a = b
    PROVE  Leads(c, <<op>>, a, b)
<1> DEFINE f == [k \in 1 .. 2 |-> IF k = 1 THEN a ELSE b]
           s == <<op>>
<1>1. s \in Seq(Operation) /\ Len(s) = 1 /\ s[1] = op
  OBVIOUS
<1>2. f[1] = a /\ f[2] = b
  OBVIOUS
<1> HIDE DEF f, s
<1>3. f[Len(s) + 1] = b
  BY <1>1, <1>2
<1>4. Annotates(c, f, s)
  BY <1>1, <1>2 DEF Annotates
<1>5. Leads(c, s, a, b)
  BY <1>1, <1>2, <1>3, <1>4 DEF Leads
<1> QED
  BY <1>5 DEF s

\* One sequence of operations after another.
LEMMA Join ==
    ASSUME NEW c, NEW s, NEW t, NEW a, NEW b, NEW d, Leads(c, s, a, b), Leads(c, t, b, d)
    PROVE  Leads(c, s \o t, a, d)
<1>1. s \in Seq(Operation) /\ t \in Seq(Operation)
  BY DEF Leads
<1>2. PICK f : f[1] = a /\ f[Len(s) + 1] = b /\ Annotates(c, f, s)
  BY DEF Leads
<1>3. PICK g : g[1] = b /\ g[Len(t) + 1] = d /\ Annotates(c, g, t)
  BY DEF Leads
<1>4. PICK m \in Nat : m = Len(s)
  BY <1>1
<1>5. PICK n \in Nat : n = Len(t)
  BY <1>1
<1>6. PICK u : u = s \o t
  OBVIOUS
<1>7. /\ u \in Seq(Operation) /\ Len(u) = m + n
      /\ \A k \in 1 .. m : u[k] = s[k]
      /\ \A k \in 1 .. n : u[m + k] = t[k]
  BY <1>1, <1>4, <1>5, <1>6
<1>8. PICK h : h = [k \in 1 .. m + n + 1 |-> IF k <= m + 1 THEN f[k] ELSE g[k - m]]
  OBVIOUS
<1>9. /\ \A k \in 1 .. m + 1 : h[k] = f[k]
      /\ \A k \in 1 .. n + 1 : h[m + k] = g[k]
  <2>1. \A k \in 1 .. m + 1 : h[k] = f[k]
    BY <1>8
  <2>2. ASSUME NEW k \in 1 .. n + 1 PROVE h[m + k] = g[k]
    <3>1. CASE k = 1
      BY <2>1, <1>2, <1>3, <1>4, <3>1
    <3>2. CASE k > 1
      BY <1>8, <3>2
    <3> QED
      BY <3>1, <3>2
  <2> QED
    BY <2>1, <2>2
<1>10. h[1] = a /\ h[Len(u) + 1] = d
  <2>1. h[1] = f[1]
    BY <1>9
  <2>2. h[m + (n + 1)] = g[n + 1]
    BY <1>9
  <2>3. m + (n + 1) = Len(u) + 1
    BY <1>7
  <2> QED
    BY <2>1, <2>2, <2>3, <1>2, <1>3, <1>5
<1>11. Annotates(c, h, u)
  <2> SUFFICES ASSUME NEW k \in 1 .. m + n
               PROVE  /\ OpLeads(c, h[k], u[k], h[k + 1])
                      /\ u[k].op \in {"locked", "judge"} =>
                           /\ k + 1 + u[k].count <= m + n + 1
                           /\ h[k + 1 + u[k].count] = h[k]
    BY <1>7 DEF Annotates
  <2>1. CASE k <= m
    <3>1. /\ OpLeads(c, f[k], s[k], f[k + 1])
          /\ s[k].op \in {"locked", "judge"} =>
               k + 1 + s[k].count <= m + 1 /\ f[k + 1 + s[k].count] = f[k]
      BY <1>2, <1>4, <2>1 DEF Annotates
    <3>2. h[k] = f[k] /\ h[k + 1] = f[k + 1] /\ u[k] = s[k] /\ s[k] \in Operation
      BY <1>1, <1>4, <1>7, <1>9, <2>1
    <3>3. ASSUME s[k].op \in {"locked", "judge"}
          PROVE  k + 1 + s[k].count <= m + n + 1 /\ h[k + 1 + s[k].count] = f[k]
      <4>1. s[k].count \in Nat
        BY <3>2, <3>3, CountIsNat
      <4>2. k + 1 + s[k].count \in 1 .. m + 1
        BY <3>1, <3>3, <4>1
      <4> QED
        BY <3>1, <3>3, <4>1, <4>2, <1>9
    <3> QED
      BY <3>1, <3>2, <3>3
  <2>2. CASE k > m
    <3>1. PICK i \in 1 .. n : k = m + i
      <4>1. k - m \in 1 .. n /\ k = m + (k - m)
        BY <2>2
      <4> QED
        BY <4>1
    <3>2. /\ OpLeads(c, g[i], t[i], g[i + 1])
          /\ t[i].op \in {"locked", "judge"} =>
               i + 1 + t[i].count <= n + 1 /\ g[i + 1 + t[i].count] = g[i]
      BY <1>3, <1>5, <3>1 DEF Annotates
    <3>3. h[k] = g[i] /\ h[k + 1] = g[i + 1] /\ u[k] = t[i] /\ t[i] \in Operation
      <4>1. k + 1 = m + (i + 1) /\ i + 1 \in 1 .. n + 1 /\ i \in 1 .. n + 1
        BY <3>1
      <4>2. h[k] = g[i] /\ h[k + 1] = g[i + 1]
        BY <1>9, <3>1, <4>1
      <4>3. t[i] \in Operation
        BY <1>1, <1>5, <3>1
      <4>4. u[k] = t[i]
        BY <1>7, <3>1
      <4> QED
        BY <4>2, <4>3, <4>4
    <3>4. ASSUME t[i].op \in {"locked", "judge"}
          PROVE  k + 1 + t[i].count <= m + n + 1 /\ h[k + 1 + t[i].count] = g[i]
      <4>1. t[i].count \in Nat
        BY <3>3, <3>4, CountIsNat
      <4>2. PICK j \in 1 .. n + 1 : j = i + 1 + t[i].count
        BY <3>2, <3>4, <4>1
      <4>3. k + 1 + t[i].count = m + j
        BY <3>1, <4>1, <4>2
      <4> QED
        BY <3>2, <3>4, <4>2, <4>3, <1>9
    <3> QED
      BY <3>2, <3>3, <3>4
  <2> QED
    BY <2>1, <2>2
<1> QED
  BY <1>6, <1>7, <1>10, <1>11 DEF Leads

\* A lock or a judgement in front of the operations it may leave out.
LEMMA Skip ==
    ASSUME NEW c, NEW a, NEW b, NEW body, NEW op \in {Locked(Len(body)), Judge(Len(body))},
           OpLeads(c, a, op, b), Leads(c, body, b, a)
    PROVE  Leads(c, <<op>> \o body, a, a)
<1>1. body \in Seq(Operation)
  BY DEF Leads
<1>2. PICK f : f[1] = b /\ f[Len(body) + 1] = a /\ Annotates(c, f, body)
  BY DEF Leads
<1>3. PICK n \in Nat : n = Len(body)
  BY <1>1
<1>4. op \in Operation /\ op.op \in {"locked", "judge"} /\ op.count = n
  BY <1>3 DEF Locked, Judge, Operation
<1>5. PICK u : u = <<op>> \o body
  OBVIOUS
<1>6. /\ u \in Seq(Operation) /\ Len(u) = n + 1 /\ u[1] = op
      /\ \A k \in 1 .. n : u[k + 1] = body[k]
  BY <1>1, <1>3, <1>4, <1>5
<1>7. PICK h : h = [k \in 1 .. n + 2 |-> IF k = 1 THEN a ELSE f[k - 1]]
  OBVIOUS
<1>8. h[1] = a /\ \A k \in 1 .. n + 1 : h[k + 1] = f[k]
  BY <1>7
<1>9. h[n + 2] = a
  <2>1. h[(n + 1) + 1] = f[n + 1]
    BY <1>8
  <2> QED
    BY <2>1, <1>2, <1>3
<1>10. Annotates(c, h, u)
  <2> SUFFICES ASSUME NEW k \in 1 .. n + 1
               PROVE  /\ OpLeads(c, h[k], u[k], h[k + 1])
                      /\ u[k].op \in {"locked", "judge"} =>
                           /\ k + 1 + u[k].count <= n + 2
                           /\ h[k + 1 + u[k].count] = h[k]
    BY <1>6 DEF Annotates
  <2>1. CASE k = 1
    <3>1. h[2] = b
      BY <1>2, <1>8
    <3>2. OpLeads(c, h[1], u[1], h[2])
      BY <1>6, <1>8, <3>1
    <3>3. 1 + 1 + op.count = n + 2
      BY <1>4
    <3> QED
      BY <2>1, <3>2, <3>3, <1>6, <1>8, <1>9
  <2>2. CASE k > 1
    <3>1. PICK i \in 1 .. n : k = i + 1
      <4>1. k - 1 \in 1 .. n /\ k = (k - 1) + 1
        BY <2>2
      <4> QED
        BY <4>1
    <3>2. /\ OpLeads(c, f[i], body[i], f[i + 1])
          /\ body[i].op \in {"locked", "judge"} =>
               i + 1 + body[i].count <= n + 1 /\ f[i + 1 + body[i].count] = f[i]
      BY <1>2, <1>3, <3>1 DEF Annotates
    <3>3. h[k] = f[i] /\ h[k + 1] = f[i + 1] /\ u[k] = body[i] /\ body[i] \in Operation
      <4>1. k + 1 = (i + 1) + 1 /\ i + 1 \in 1 .. n + 1 /\ i \in 1 .. n + 1
        BY <3>1
      <4> QED
        BY <1>1, <1>3, <1>6, <1>8, <3>1, <4>1
    <3>4. ASSUME body[i].op \in {"locked", "judge"}
          PROVE  k + 1 + body[i].count <= n + 2 /\ h[k + 1 + body[i].count] = f[i]
      <4>1. body[i].count \in Nat
        BY <3>3, <3>4, CountIsNat
      <4>2. PICK j \in 1 .. n + 1 : j = i + 1 + body[i].count
        BY <3>2, <3>4, <4>1
      <4>3. k + 1 + body[i].count = j + 1
        BY <3>1, <4>1, <4>2
      <4> QED
        BY <3>2, <3>4, <4>2, <4>3, <1>8
    <3> QED
      BY <3>2, <3>3, <3>4
  <2> QED
    BY <2>1, <2>2
<1> QED
  BY <1>5, <1>6, <1>8, <1>9, <1>10 DEF Leads

\* f joins the first m of some sequences, one after the other.
Joins(f, seqs, m) == f = [i \in 1 .. m |-> IF i = 1 THEN seqs[i] ELSE Cat(f[i - 1], seqs[i])]

\* The joins of some sequences, from the first on, exist.
LEMMA JoinExists ==
    ASSUME NEW seqs, NEW n \in Nat, NEW m \in 1 .. n
    PROVE  \E f : Joins(f, seqs, m)
<1> DEFINE Bad == {j \in 1 .. n : ~ \E f : Joins(f, seqs, j)}
<1>1. \E f : Joins(f, seqs, 1)
  <2> DEFINE f == [i \in 1 .. 1 |-> seqs[1]]
  <2>1. f = [i \in 1 .. 1 |-> IF i = 1 THEN seqs[i] ELSE Cat(f[i - 1], seqs[i])]
    OBVIOUS
  <2> QED
    BY <2>1 DEF Joins
<1>2. ASSUME NEW j \in 1 .. n, j > 1, \E f : Joins(f, seqs, j - 1) PROVE \E f : Joins(f, seqs, j)
  <2>1. PICK f : f = [i \in 1 .. j - 1 |-> IF i = 1 THEN seqs[i] ELSE Cat(f[i - 1], seqs[i])]
    BY <1>2 DEF Joins
  <2> DEFINE g == [i \in 1 .. j |-> IF i = j THEN Cat(f[j - 1], seqs[j]) ELSE f[i]]
             h == [i \in 1 .. j |-> IF i = 1 THEN seqs[i] ELSE Cat(g[i - 1], seqs[i])]
  <2>2. ASSUME NEW i \in 1 .. j PROVE g[i] = h[i]
    <3>1. CASE i = j
      <4>1. g[j - 1] = f[j - 1] /\ g[j] = Cat(f[j - 1], seqs[j])
        BY <1>2
      <4>2. h[j] = Cat(g[j - 1], seqs[j])
        BY <1>2
      <4> QED
        BY <3>1, <4>1, <4>2
    <3>2. CASE i # j /\ i # 1
      <4>1. f[i] = Cat(f[i - 1], seqs[i])
        BY <2>1, <3>2
      <4>2. g[i] = f[i] /\ g[i - 1] = f[i - 1]
        BY <3>2
      <4> QED
        BY <4>1, <4>2, <3>2
    <3>3. CASE i = 1 /\ i # j
      BY <3>3, <2>1
    <3> QED
      BY <3>1, <3>2, <3>3
  <2>3. g = h
    BY <2>2
  <2> HIDE DEF g
  <2>4. Joins(g, seqs, j)
    BY <2>3 DEF Joins
  <2> QED
    BY <2>4
<1>3. Bad = {}
  <2> SUFFICES ASSUME Bad # {} PROVE FALSE
    OBVIOUS
  <2>1. Bad \in SUBSET Nat
    OBVIOUS
  <2>2. PICK j \in Bad : \A i \in Bad : j <= i
    BY <2>1, Least
  <2>3. j > 1 /\ j \in 1 .. n
    BY <1>1
  <2>4. j - 1 \in 1 .. n /\ j - 1 \notin Bad
    BY <2>2, <2>3
  <2> QED
    BY <2>3, <2>4, <1>2
<1> QED
  BY <1>3

\* FlattenSeq is the last of the joins.
LEMMA Flattened ==
    ASSUME NEW seqs, Len(seqs) \in Nat \ {0}
    PROVE  \E f : Joins(f, seqs, Len(seqs)) /\ FlattenSeq(seqs) = f[Len(seqs)]
<1> DEFINE joins == CHOOSE f : f = [i \in 1 .. Len(seqs) |-> IF i = 1 THEN seqs[i] ELSE Cat(f[i - 1], seqs[i])]
<1>1. \E f : Joins(f, seqs, Len(seqs))
  <2>1. PICK n \in Nat : n = Len(seqs) /\ n \in 1 .. n
    OBVIOUS
  <2> QED
    BY <2>1, JoinExists
<1>2. Joins(joins, seqs, Len(seqs))
  BY <1>1 DEF Joins
<1>3. FlattenSeq(seqs) = joins[Len(seqs)]
  BY DEF FlattenSeq, Cat
<1> QED
  BY <1>2, <1>3

\* What leads from note to note, one sequence after the other, leads so flattened.
Each(c, seqs, g) ==
  \A i \in 1 .. Len(seqs) : Leads(c, seqs[i], g[i], g[i + 1])

\* Sequences that lead from note to note lead so when flattened.
LEMMA Flat ==
    ASSUME NEW c, NEW seqs, NEW g, Len(seqs) \in Nat \ {0}, Each(c, seqs, g)
    PROVE  Leads(c, FlattenSeq(seqs), g[1], g[Len(seqs) + 1])
<1>1. PICK n \in Nat \ {0} : n = Len(seqs)
  OBVIOUS
<1>2. PICK f : Joins(f, seqs, n) /\ FlattenSeq(seqs) = f[n]
  BY <1>1, Flattened
<1>3. f[1] = seqs[1] /\ \A i \in 2 .. n : f[i] = Cat(f[i - 1], seqs[i])
  BY <1>2 DEF Joins
<1> DEFINE Bad == {i \in 1 .. n : ~Leads(c, f[i], g[1], g[i + 1])}
<1>4. Leads(c, f[1], g[1], g[1 + 1])
  BY <1>1, <1>3 DEF Each
<1>5. ASSUME NEW i \in 2 .. n, Leads(c, f[i - 1], g[1], g[i]) PROVE Leads(c, f[i], g[1], g[i + 1])
  <2>1. Leads(c, seqs[i], g[i], g[i + 1])
    BY <1>1 DEF Each
  <2>2. Leads(c, Cat(f[i - 1], seqs[i]), g[1], g[i + 1])
    BY <1>5, <2>1, Join DEF Cat
  <2> QED
    BY <2>2, <1>3
<1>6. Bad = {}
  <2> SUFFICES ASSUME Bad # {} PROVE FALSE
    OBVIOUS
  <2>1. Bad \in SUBSET Nat
    OBVIOUS
  <2>2. PICK i \in Bad : \A j \in Bad : i <= j
    BY <2>1, Least
  <2>3. i \in 2 .. n
    BY <1>4
  <2>4. i - 1 \in 1 .. n /\ i - 1 \notin Bad /\ (i - 1) + 1 = i
    BY <2>2, <2>3
  <2>5. Leads(c, f[i - 1], g[1], g[i])
    BY <2>4
  <2> QED
    BY <2>3, <2>5, <1>5
<1> QED
  BY <1>1, <1>2, <1>6

-----------------------------------------------------------------------------
(* The tables of the AGC firmware.                                           *)

\* The parameters of an exchange.
Param == [put : Seq(Nat), check : Seq(Nat), code : Nat, status : Nat, how : {"number", "flag"}]

\* A parameter fits a round: what is put is checked, and what is told is expected.
Fits(p, r) ==
  /\ p \in Param
  /\ Len(p.put) \in 1 .. Len(p.check) /\ Len(p.check) \in 1 .. 3
  /\ \A k \in 1 .. Len(p.put) : p.put[k] = p.check[k]
  /\ r.code = p.code /\ r.status = p.status

\* Two rounds in a row have different codes, and different answers.
Differ(r, s) == r.code # s.code /\ r.status # s.status

\* Sequences of one, two and three natural numbers.
LEMMA TupleType ==
    ASSUME NEW a \in Nat, NEW b \in Nat, NEW d \in Nat
    PROVE  /\ <<a>> \in Seq(Nat) /\ <<a, b>> \in Seq(Nat) /\ <<a, b, d>> \in Seq(Nat)
           /\ Len(<<a>>) = 1 /\ Len(<<a, b>>) = 2 /\ Len(<<a, b, d>>) = 3
OBVIOUS

\* A sequence and its length.
Listing(s, T, n) == n \in Nat /\ s \in Seq(T) /\ Len(s) = n

\* A sequence made of two, of the lengths given.
Halves(x, s, t, T, m, n) ==
  /\ Listing(x, T, m + n)
  /\ \A i \in 1 .. m : x[i] = s[i]
  /\ \A i \in 1 .. n : x[m + i] = t[i]

\* The elements of a concatenation.
LEMMA CatIndex ==
    ASSUME NEW T, NEW s, NEW t, NEW m, NEW n, Listing(s, T, m), Listing(t, T, n)
    PROVE  Halves(Cat(s, t), s, t, T, m, n)
<1>0. m \in Nat /\ n \in Nat /\ s \in Seq(T) /\ t \in Seq(T) /\ m = Len(s) /\ n = Len(t)
  BY DEF Listing
<1>1. PICK u : u = s \o t
  OBVIOUS
<1>2. /\ u \in Seq(T) /\ Len(u) = m + n
      /\ \A k \in 1 .. m : u[k] = s[k]
      /\ \A k \in 1 .. n : u[m + k] = t[k]
  BY <1>0, <1>1
<1>3. m + n \in Nat
  BY DEF Listing
<1> QED
  BY <1>1, <1>2, <1>3 DEF Cat, Listing, Halves

\* A sequence made of four parts, of the lengths given.
Parts(x, s, t, u, v, k, l, m, n) ==
  /\ Len(x) = k + l + m + n
  /\ \A i \in 1 .. k : x[i] = s[i]
  /\ \A i \in 1 .. l : x[k + i] = t[i]
  /\ \A i \in 1 .. m : x[k + l + i] = u[i]
  /\ \A i \in 1 .. n : x[k + l + m + i] = v[i]

\* The elements of a concatenation of four.
LEMMA FourParts ==
    ASSUME NEW T, NEW s, NEW t, NEW u, NEW v, NEW k \in Nat, NEW l \in Nat, NEW m \in Nat, NEW n \in Nat,
           Listing(s, T, k), Listing(t, T, l), Listing(u, T, m), Listing(v, T, n)
    PROVE  Parts(Cat(Cat(Cat(s, t), u), v), s, t, u, v, k, l, m, n)
<1>1. PICK x : x = Cat(s, t)
  OBVIOUS
<1>2. Listing(x, T, k + l) /\ (\A i \in 1 .. k : x[i] = s[i]) /\ (\A i \in 1 .. l : x[k + i] = t[i])
  <2>1. Halves(x, s, t, T, k, l)
    BY <1>1, CatIndex
  <2> QED
    BY <2>1 DEF Halves
<1>3. PICK y : y = Cat(x, u)
  OBVIOUS
<1>4. Listing(y, T, k + l + m) /\ (\A i \in 1 .. k + l : y[i] = x[i]) /\ (\A i \in 1 .. m : y[k + l + i] = u[i])
  <2>1. PICK p \in Nat : p = k + l
    OBVIOUS
  <2>2. Listing(x, T, p)
    BY <1>2, <2>1
  <2>3. Halves(y, x, u, T, p, m)
    BY <2>2, <1>3, CatIndex
  <2> QED
    BY <2>1, <2>3 DEF Halves
<1>5. PICK z : z = Cat(y, v)
  OBVIOUS
<1>6. /\ Listing(z, T, k + l + m + n) /\ (\A i \in 1 .. k + l + m : z[i] = y[i])
      /\ (\A i \in 1 .. n : z[k + l + m + i] = v[i])
  <2>1. PICK p \in Nat : p = k + l + m
    OBVIOUS
  <2>2. Listing(y, T, p)
    BY <1>4, <2>1
  <2>3. Halves(z, y, v, T, p, n)
    BY <2>2, <1>5, CatIndex
  <2> QED
    BY <2>1, <2>3 DEF Halves
<1>7. \A i \in 1 .. k : z[i] = s[i]
  BY <1>2, <1>4, <1>6
<1>8. \A i \in 1 .. l : z[k + i] = t[i]
  BY <1>2, <1>4, <1>6
<1>9. \A i \in 1 .. m : z[k + l + i] = u[i]
  <2>1. \A i \in 1 .. m : k + l + i \in 1 .. k + l + m
    OBVIOUS
  <2> QED
    BY <1>4, <1>6, <2>1
<1>10. Len(z) = k + l + m + n
  BY <1>6 DEF Listing
<1>11. Parts(z, s, t, u, v, k, l, m, n)
  BY <1>6, <1>7, <1>8, <1>9, <1>10 DEF Parts
<1> QED
  BY <1>1, <1>3, <1>5, <1>11

\* A parameter whose values are the ones read back, as they are or as flags, and a round.
Pair(p, code, status, how) == [put |-> p, check |-> p, code |-> code, status |-> status, how |-> how]
Round(code, status) == [code |-> code, status |-> status]

Values(p) == p \in Seq(Nat) /\ Len(p) \in 1 .. 3

\* A parameter read back as it is put fits its round.
LEMMA PairFits ==
    ASSUME NEW p, Values(p), NEW k \in Nat, NEW l \in Nat, NEW how \in {"number", "flag"}
    PROVE  Pair(p, k, l, how) \in Param /\ Fits(Pair(p, k, l, how), Round(k, l))
<1>1. Pair(p, k, l, how) \in Param
  BY DEF Pair, Param, Values
<1> QED
  BY <1>1 DEF Pair, Round, Fits, Values

\* The tables of the two kinds of radio.
Tables(P, R, lbt) ==
  /\ Len(P) \in Nat \ {0, 1} /\ Len(R) = Len(P) + 1
  /\ \A i \in 1 .. Len(P) : Fits(P[i], R[i]) /\ Differ(R[i], R[i + 1])
  /\ R[1].code = 128 /\ R[1].status # 1
  /\ R[Len(P) + 1] = [code |-> 15, status |-> 0]
  /\ Len(P[Len(P)].put) = 1 /\ P[Len(P)].check[1] = lbt
  /\ P[Len(P) - 1].how = "number" /\ P[Len(P) - 1].check[1] = 8

\* The parameters sx1302_agc_start puts and the rounds of the firmware fit, with sx1250 radios.
LEMMA TablesSx1250 ==
    ASSUME NEW type, type = "sx1250", NEW fdd \in {0, 1}, NEW lbt \in {0, 1}
    PROVE  Tables(AgcParams(type, fdd, lbt), AgcRounds(type), lbt)
<1> DEFINE a1 == [put |-> <<255, 255>>, check |-> <<255, 255, fdd>>, code |-> 128, status |-> 2, how |-> "number"]
           a2 == [put |-> <<255, 255>>, check |-> <<255, 255, fdd>>, code |-> 32, status |-> 3, how |-> "number"]
           A == <<a1, a2>>
           B == [i \in 1 .. 6 |->
                  LET p == (<<<<1, 13>>, <<3, 12>>, <<4, 15>>, <<40, 80, 90>>, <<4, 14>>, <<52, 132>>>>)[i]
                  IN  [put |-> p, check |-> p, code |-> i + 2, status |-> i + 3, how |-> "number"]]
           C == <<Pair(<<0, 7, 4>>, 9, 10, "number")>>
           D == <<Pair(<<8>>, 10, 11, "number"), Pair(<<lbt>>, 11, 15, "flag")>>
           P == Cat(Cat(Cat(A, B), C), D)
<1>1. AgcParams(type, fdd, lbt) = P
  BY DEF AgcParams, Pair, Cat
<1>1a. /\ Values(<<1, 13>>) /\ Values(<<3, 12>>) /\ Values(<<4, 15>>) /\ Values(<<40, 80, 90>>)
       /\ Values(<<4, 14>>) /\ Values(<<52, 132>>) /\ Values(<<0, 7, 4>>) /\ Values(<<8>>) /\ Values(<<lbt>>)
  BY TupleType DEF Values
<1>2. A \in Seq(Param) /\ Len(A) = 2 /\ A[1] = a1 /\ A[2] = a2
  BY TupleType DEF Param
<1>3. /\ B[1] = Pair(<<1, 13>>, 3, 4, "number") /\ B[2] = Pair(<<3, 12>>, 4, 5, "number")
      /\ B[3] = Pair(<<4, 15>>, 5, 6, "number") /\ B[4] = Pair(<<40, 80, 90>>, 6, 7, "number")
      /\ B[5] = Pair(<<4, 14>>, 7, 8, "number") /\ B[6] = Pair(<<52, 132>>, 8, 9, "number")
  BY DEF Pair
<1>4. B \in Seq(Param) /\ Len(B) = 6
  <2>1. \A i \in 1 .. 6 : B[i] \in Param
    <3> HIDE DEF B
    <3>2. \A i \in 1 .. 6 : i = 1 \/ i = 2 \/ i = 3 \/ i = 4 \/ i = 5 \/ i = 6
      OBVIOUS
    <3>4. /\ B[1] \in Param /\ B[2] \in Param /\ B[3] \in Param
          /\ B[4] \in Param /\ B[5] \in Param /\ B[6] \in Param
      BY <1>1a, <1>3, PairFits
    <3> QED
      BY <3>2, <3>4
  <2>2. DOMAIN B = 1 .. 6
    OBVIOUS
  <2> QED
    BY <2>1, <2>2
<1>5. C \in Seq(Param) /\ Len(C) = 1 /\ C[1] = Pair(<<0, 7, 4>>, 9, 10, "number")
  BY TupleType DEF Param, Pair
<1>6. D \in Seq(Param) /\ Len(D) = 2 /\ D[1] = Pair(<<8>>, 10, 11, "number") /\ D[2] = Pair(<<lbt>>, 11, 15, "flag")
  BY TupleType DEF Param, Pair
<1> DEFINE S == [i \in 1 .. 6 |-> [code |-> i + 2, status |-> i + 3]]
           U == <<Round(128, 2), Round(32, 3)>>
           V == <<Round(9, 10)>>
           W == <<Round(10, 11), Round(11, 15), Round(15, 0)>>
           R == Cat(Cat(Cat(U, S), V), W)
           Rec == [code : Nat, status : Nat]
<1>7. AgcRounds(type) = R
  BY DEF AgcRounds, Round, Cat
<1>8. /\ U \in Seq(Rec) /\ S \in Seq(Rec) /\ V \in Seq(Rec) /\ W \in Seq(Rec)
      /\ Len(U) = 2 /\ Len(S) = 6 /\ Len(V) = 1 /\ Len(W) = 3
      /\ U[1] = Round(128, 2) /\ U[2] = Round(32, 3)
      /\ \A i \in 1 .. 6 : S[i] = Round(i + 2, i + 3)
      /\ V[1] = Round(9, 10)
      /\ W[1] = Round(10, 11) /\ W[2] = Round(11, 15) /\ W[3] = Round(15, 0)
  BY DEF Round
<1> HIDE DEF A, B, C, D, S, U, V, W, Rec
<1>9. /\ Len(P) = 11 /\ P[1] = a1 /\ P[2] = a2
      /\ \A i \in 1 .. 6 : P[2 + i] = B[i]
      /\ P[9] = C[1] /\ P[10] = D[1] /\ P[11] = D[2]
  <2>1. /\ Len(P) = 2 + 6 + 1 + 2
        /\ \A i \in 1 .. 2 : P[i] = A[i]
        /\ \A i \in 1 .. 6 : P[2 + i] = B[i]
        /\ \A i \in 1 .. 1 : P[2 + 6 + i] = C[i]
        /\ \A i \in 1 .. 2 : P[2 + 6 + 1 + i] = D[i]
    <3>1. Listing(A, Param, 2) /\ Listing(B, Param, 6) /\ Listing(C, Param, 1) /\ Listing(D, Param, 2)
      BY <1>2, <1>4, <1>5, <1>6 DEF Listing
    <3>2. Parts(P, A, B, C, D, 2, 6, 1, 2)
      BY <3>1, FourParts
    <3> HIDE DEF P
    <3> QED
      BY <3>2 DEF Parts
  <2> HIDE DEF P
  <2> QED
    BY <2>1, <1>2
<1>10. /\ Len(R) = 12 /\ R[1] = Round(128, 2) /\ R[2] = Round(32, 3)
       /\ \A i \in 1 .. 6 : R[2 + i] = Round(i + 2, i + 3)
       /\ R[9] = Round(9, 10) /\ R[10] = Round(10, 11) /\ R[11] = Round(11, 15) /\ R[12] = Round(15, 0)
  <2>1. /\ Len(R) = 2 + 6 + 1 + 3
        /\ \A i \in 1 .. 2 : R[i] = U[i]
        /\ \A i \in 1 .. 6 : R[2 + i] = S[i]
        /\ \A i \in 1 .. 1 : R[2 + 6 + i] = V[i]
        /\ \A i \in 1 .. 3 : R[2 + 6 + 1 + i] = W[i]
    <3>1. Listing(U, Rec, 2) /\ Listing(S, Rec, 6) /\ Listing(V, Rec, 1) /\ Listing(W, Rec, 3)
      BY <1>8 DEF Listing
    <3>2. Parts(R, U, S, V, W, 2, 6, 1, 3)
      BY <3>1, FourParts
    <3> HIDE DEF R
    <3> QED
      BY <3>2 DEF Parts
  <2> HIDE DEF R
  <2> QED
    BY <2>1, <1>8
<1> HIDE DEF P, R
<1>11. /\ P[3] = Pair(<<1, 13>>, 3, 4, "number") /\ P[4] = Pair(<<3, 12>>, 4, 5, "number")
       /\ P[5] = Pair(<<4, 15>>, 5, 6, "number") /\ P[6] = Pair(<<40, 80, 90>>, 6, 7, "number")
       /\ P[7] = Pair(<<4, 14>>, 7, 8, "number") /\ P[8] = Pair(<<52, 132>>, 8, 9, "number")
       /\ P[9] = Pair(<<0, 7, 4>>, 9, 10, "number") /\ P[10] = Pair(<<8>>, 10, 11, "number") /\ P[11] = Pair(<<lbt>>, 11, 15, "flag")
  <2>1. P[2 + 1] = B[1] /\ P[2 + 2] = B[2] /\ P[2 + 3] = B[3] /\ P[2 + 4] = B[4] /\ P[2 + 5] = B[5] /\ P[2 + 6] = B[6]
    BY <1>9
  <2> QED
    BY <2>1, <1>3, <1>5, <1>6, <1>9
<1>12. /\ R[3] = Round(3, 4) /\ R[4] = Round(4, 5) /\ R[5] = Round(5, 6)
       /\ R[6] = Round(6, 7) /\ R[7] = Round(7, 8) /\ R[8] = Round(8, 9)
  <2>1. /\ R[2 + 1] = Round(1 + 2, 1 + 3) /\ R[2 + 2] = Round(2 + 2, 2 + 3) /\ R[2 + 3] = Round(3 + 2, 3 + 3)
        /\ R[2 + 4] = Round(4 + 2, 4 + 3) /\ R[2 + 5] = Round(5 + 2, 5 + 3) /\ R[2 + 6] = Round(6 + 2, 6 + 3)
    BY <1>10
  <2> QED
    BY <2>1
<1>14. Fits(a1, Round(128, 2)) /\ Fits(a2, Round(32, 3))
  <2>1. /\ a1 \in Param /\ a2 \in Param
    BY TupleType DEF Param
  <2> QED
    BY <2>1, TupleType DEF Fits, Round
<1> HIDE DEF a1, a2
<1>16. \A i \in 1 .. 11 : Fits(P[i], R[i])
  <2>1. \A i \in 1 .. 11 : i = 1 \/ i = 2 \/ i = 3 \/ i = 4 \/ i = 5 \/ i = 6 \/ i = 7 \/ i = 8 \/ i = 9 \/ i = 10 \/ i = 11
    OBVIOUS
  <2>2. Fits(P[1], R[1]) /\ Fits(P[2], R[2])
    BY <1>9, <1>10, <1>14
  <2>3. Fits(P[3], R[3]) /\ Fits(P[4], R[4]) /\ Fits(P[5], R[5]) /\ Fits(P[6], R[6]) /\ Fits(P[7], R[7]) /\ Fits(P[8], R[8])
    BY <1>11, <1>12, <1>1a, PairFits
  <2>4. Fits(P[9], R[9]) /\ Fits(P[10], R[10]) /\ Fits(P[11], R[11])
    BY <1>11, <1>10, <1>1a, PairFits
  <2> QED
    BY <2>1, <2>2, <2>3, <2>4
<1>17. \A i \in 1 .. 11 : Differ(R[i], R[i + 1])
  BY <1>10, <1>12 DEF Differ, Round
<1>18. Len(P[11].put) = 1 /\ P[11].check[1] = lbt /\ P[10].how = "number" /\ P[10].check[1] = 8 /\ R[1].code = 128 /\ R[1].status # 1 /\ R[12] = Round(15, 0)
  BY <1>1a, <1>10, <1>11 DEF Pair, Round
<1>19. Len(P) \in Nat \ {0, 1} /\ Len(R) = Len(P) + 1
  BY <1>9, <1>10
<1>20. Tables(P, R, lbt)
  BY <1>9, <1>10, <1>16, <1>17, <1>18, <1>19 DEF Tables, Round
<1> QED
  BY <1>1, <1>7, <1>20

\* The same, with the other radios.
LEMMA TablesOther ==
    ASSUME NEW type, type # "sx1250", NEW fdd \in {0, 1}, NEW lbt \in {0, 1}
    PROVE  Tables(AgcParams(type, fdd, lbt), AgcRounds(type), lbt)
<1> DEFINE a1 == [put |-> <<255, 255, fdd>>, check |-> <<255, 255, fdd>>, code |-> 128, status |-> 2, how |-> "number"]
           a2 == [put |-> <<255, 255, fdd>>, check |-> <<255, 255, fdd>>, code |-> 32, status |-> 3, how |-> "number"]
           A == <<a1, a2>>
           B == [i \in 1 .. 6 |->
                  LET p == (<<<<0, 9>>, <<16, 35>>, <<7, 11>>, <<45, 100, 115>>, <<4, 14>>, <<52, 132>>>>)[i]
                  IN  [put |-> p, check |-> p, code |-> i + 2, status |-> i + 3, how |-> "number"]]
           C == <<>>
           D == <<Pair(<<8>>, 10, 11, "number"), Pair(<<lbt>>, 11, 15, "flag")>>
           P == Cat(Cat(Cat(A, B), C), D)
<1>1. AgcParams(type, fdd, lbt) = P
  BY DEF AgcParams, Pair, Cat
<1>1a. /\ Values(<<0, 9>>) /\ Values(<<16, 35>>) /\ Values(<<7, 11>>) /\ Values(<<45, 100, 115>>)
       /\ Values(<<4, 14>>) /\ Values(<<52, 132>>) /\ Values(<<8>>) /\ Values(<<lbt>>)
  BY TupleType DEF Values
<1>2. A \in Seq(Param) /\ Len(A) = 2 /\ A[1] = a1 /\ A[2] = a2
  BY TupleType DEF Param
<1>3. /\ B[1] = Pair(<<0, 9>>, 3, 4, "number") /\ B[2] = Pair(<<16, 35>>, 4, 5, "number")
      /\ B[3] = Pair(<<7, 11>>, 5, 6, "number") /\ B[4] = Pair(<<45, 100, 115>>, 6, 7, "number")
      /\ B[5] = Pair(<<4, 14>>, 7, 8, "number") /\ B[6] = Pair(<<52, 132>>, 8, 9, "number")
  BY DEF Pair
<1>4. B \in Seq(Param) /\ Len(B) = 6
  <2>1. \A i \in 1 .. 6 : B[i] \in Param
    <3> HIDE DEF B
    <3>2. \A i \in 1 .. 6 : i = 1 \/ i = 2 \/ i = 3 \/ i = 4 \/ i = 5 \/ i = 6
      OBVIOUS
    <3>4. /\ B[1] \in Param /\ B[2] \in Param /\ B[3] \in Param
          /\ B[4] \in Param /\ B[5] \in Param /\ B[6] \in Param
      BY <1>1a, <1>3, PairFits
    <3> QED
      BY <3>2, <3>4
  <2>2. DOMAIN B = 1 .. 6
    OBVIOUS
  <2> QED
    BY <2>1, <2>2
<1>5. C \in Seq(Param) /\ Len(C) = 0
  OBVIOUS
<1>6. D \in Seq(Param) /\ Len(D) = 2 /\ D[1] = Pair(<<8>>, 10, 11, "number") /\ D[2] = Pair(<<lbt>>, 11, 15, "flag")
  BY TupleType DEF Param, Pair
<1> DEFINE S == [i \in 1 .. 6 |-> [code |-> i + 2, status |-> i + 3]]
           U == <<Round(128, 2), Round(32, 3)>>
           V == <<>>
           W == <<Round(10, 11), Round(11, 15), Round(15, 0)>>
           R == Cat(Cat(Cat(U, S), V), W)
           Rec == [code : Nat, status : Nat]
<1>7. AgcRounds(type) = R
  BY DEF AgcRounds, Round, Cat
<1>8. /\ U \in Seq(Rec) /\ S \in Seq(Rec) /\ V \in Seq(Rec) /\ W \in Seq(Rec)
      /\ Len(U) = 2 /\ Len(S) = 6 /\ Len(V) = 0 /\ Len(W) = 3
      /\ U[1] = Round(128, 2) /\ U[2] = Round(32, 3)
      /\ \A i \in 1 .. 6 : S[i] = Round(i + 2, i + 3)
      /\ W[1] = Round(10, 11) /\ W[2] = Round(11, 15) /\ W[3] = Round(15, 0)
  BY DEF Round
<1> HIDE DEF A, B, C, D, S, U, V, W, Rec
<1>9. /\ Len(P) = 10 /\ P[1] = a1 /\ P[2] = a2
      /\ \A i \in 1 .. 6 : P[2 + i] = B[i]
      /\ P[9] = D[1] /\ P[10] = D[2]
  <2>1. /\ Len(P) = 2 + 6 + 0 + 2
        /\ \A i \in 1 .. 2 : P[i] = A[i]
        /\ \A i \in 1 .. 6 : P[2 + i] = B[i]
        /\ \A i \in 1 .. 0 : P[2 + 6 + i] = C[i]
        /\ \A i \in 1 .. 2 : P[2 + 6 + 0 + i] = D[i]
    <3>1. Listing(A, Param, 2) /\ Listing(B, Param, 6) /\ Listing(C, Param, 0) /\ Listing(D, Param, 2)
      BY <1>2, <1>4, <1>5, <1>6 DEF Listing
    <3>2. Parts(P, A, B, C, D, 2, 6, 0, 2)
      BY <3>1, FourParts
    <3> HIDE DEF P
    <3> QED
      BY <3>2 DEF Parts
  <2> HIDE DEF P
  <2> QED
    BY <2>1, <1>2
<1>10. /\ Len(R) = 11 /\ R[1] = Round(128, 2) /\ R[2] = Round(32, 3)
       /\ \A i \in 1 .. 6 : R[2 + i] = Round(i + 2, i + 3)
       /\ R[9] = Round(10, 11) /\ R[10] = Round(11, 15) /\ R[11] = Round(15, 0)
  <2>1. /\ Len(R) = 2 + 6 + 0 + 3
        /\ \A i \in 1 .. 2 : R[i] = U[i]
        /\ \A i \in 1 .. 6 : R[2 + i] = S[i]
        /\ \A i \in 1 .. 0 : R[2 + 6 + i] = V[i]
        /\ \A i \in 1 .. 3 : R[2 + 6 + 0 + i] = W[i]
    <3>1. Listing(U, Rec, 2) /\ Listing(S, Rec, 6) /\ Listing(V, Rec, 0) /\ Listing(W, Rec, 3)
      BY <1>8 DEF Listing
    <3>2. Parts(R, U, S, V, W, 2, 6, 0, 3)
      BY <3>1, FourParts
    <3> HIDE DEF R
    <3> QED
      BY <3>2 DEF Parts
  <2> HIDE DEF R
  <2> QED
    BY <2>1, <1>8
<1> HIDE DEF P, R
<1>11. /\ P[3] = Pair(<<0, 9>>, 3, 4, "number") /\ P[4] = Pair(<<16, 35>>, 4, 5, "number")
       /\ P[5] = Pair(<<7, 11>>, 5, 6, "number") /\ P[6] = Pair(<<45, 100, 115>>, 6, 7, "number")
       /\ P[7] = Pair(<<4, 14>>, 7, 8, "number") /\ P[8] = Pair(<<52, 132>>, 8, 9, "number")
       /\ P[9] = Pair(<<8>>, 10, 11, "number") /\ P[10] = Pair(<<lbt>>, 11, 15, "flag")
  <2>1. P[2 + 1] = B[1] /\ P[2 + 2] = B[2] /\ P[2 + 3] = B[3] /\ P[2 + 4] = B[4] /\ P[2 + 5] = B[5] /\ P[2 + 6] = B[6]
    BY <1>9
  <2> QED
    BY <2>1, <1>3, <1>5, <1>6, <1>9
<1>12. /\ R[3] = Round(3, 4) /\ R[4] = Round(4, 5) /\ R[5] = Round(5, 6)
       /\ R[6] = Round(6, 7) /\ R[7] = Round(7, 8) /\ R[8] = Round(8, 9)
  <2>1. /\ R[2 + 1] = Round(1 + 2, 1 + 3) /\ R[2 + 2] = Round(2 + 2, 2 + 3) /\ R[2 + 3] = Round(3 + 2, 3 + 3)
        /\ R[2 + 4] = Round(4 + 2, 4 + 3) /\ R[2 + 5] = Round(5 + 2, 5 + 3) /\ R[2 + 6] = Round(6 + 2, 6 + 3)
    BY <1>10
  <2> QED
    BY <2>1
<1>14. Fits(a1, Round(128, 2)) /\ Fits(a2, Round(32, 3))
  <2>1. /\ a1 \in Param /\ a2 \in Param
    BY TupleType DEF Param
  <2> QED
    BY <2>1, TupleType DEF Fits, Round
<1> HIDE DEF a1, a2
<1>16. \A i \in 1 .. 10 : Fits(P[i], R[i])
  <2>1. \A i \in 1 .. 10 : i = 1 \/ i = 2 \/ i = 3 \/ i = 4 \/ i = 5 \/ i = 6 \/ i = 7 \/ i = 8 \/ i = 9 \/ i = 10
    OBVIOUS
  <2>2. Fits(P[1], R[1]) /\ Fits(P[2], R[2])
    BY <1>9, <1>10, <1>14
  <2>3. Fits(P[3], R[3]) /\ Fits(P[4], R[4]) /\ Fits(P[5], R[5]) /\ Fits(P[6], R[6]) /\ Fits(P[7], R[7]) /\ Fits(P[8], R[8])
    BY <1>11, <1>12, <1>1a, PairFits
  <2>4. Fits(P[9], R[9]) /\ Fits(P[10], R[10])
    BY <1>11, <1>10, <1>1a, PairFits
  <2> QED
    BY <2>1, <2>2, <2>3, <2>4
<1>17. \A i \in 1 .. 10 : Differ(R[i], R[i + 1])
  BY <1>10, <1>12 DEF Differ, Round
<1>18. Len(P[10].put) = 1 /\ P[10].check[1] = lbt /\ P[9].how = "number" /\ P[9].check[1] = 8 /\ R[1].code = 128 /\ R[1].status # 1 /\ R[11] = Round(15, 0)
  BY <1>1a, <1>10, <1>11 DEF Pair, Round
<1>19. Len(P) \in Nat \ {0, 1} /\ Len(R) = Len(P) + 1
  BY <1>9, <1>10
<1>20. Tables(P, R, lbt)
  BY <1>9, <1>10, <1>16, <1>17, <1>18, <1>19 DEF Tables, Round
<1> QED
  BY <1>1, <1>7, <1>20

\* The same, with any radio.
LEMMA TheTables ==
    ASSUME NEW type, NEW fdd \in {0, 1}, NEW lbt \in {0, 1}
    PROVE  Tables(AgcParams(type, fdd, lbt), AgcRounds(type), lbt)
BY TablesSx1250, TablesOther

-----------------------------------------------------------------------------
(* The codes and the answers of the calibration firmware.                    *)

\* The codes of a receive calibration.
LEMMA ShortCodes ==
    ASSUME NEW m \in 0 .. 1
    PROVE  /\ Len(CalCodes(m)) = 7
           /\ CalCodes(m)[1] = 1 /\ CalCodes(m)[2] = 2 /\ CalCodes(m)[3] = 3 /\ CalCodes(m)[4] = 4
           /\ CalCodes(m)[5] = 6 /\ CalCodes(m)[6] = 7 /\ CalCodes(m)[7] = 8
           /\ CalAnswer(m, 1) = 1 /\ CalAnswer(m, 2) = 2 /\ CalAnswer(m, 3) = 3 /\ CalAnswer(m, 4) = 6
           /\ CalAnswer(m, 5) = 7 /\ CalAnswer(m, 6) = 8 /\ CalAnswer(m, 7) = IF m = 0 THEN 17 ELSE 34
<1>1. CalCodes(m) = <<1, 2, 3, 4, 6, 7, 8>>
  BY DEF CalCodes
<1>2. PICK s : s = CalCodes(m)
  OBVIOUS
<1>3. /\ Len(s) = 7 /\ s[1] = 1 /\ s[2] = 2 /\ s[3] = 3 /\ s[4] = 4 /\ s[5] = 6 /\ s[6] = 7 /\ s[7] = 8
  BY <1>1, <1>2
<1>4. <<17, 34, 51, 68>>[m + 1] = IF m = 0 THEN 17 ELSE 34
  <2>1. m = 0 \/ m = 1
    OBVIOUS
  <2> QED
    BY <2>1
<1>5. /\ CalAnswer(m, 1) = s[1] /\ CalAnswer(m, 2) = s[2] /\ CalAnswer(m, 3) = s[3]
      /\ CalAnswer(m, 4) = s[5] /\ CalAnswer(m, 5) = s[6] /\ CalAnswer(m, 6) = s[7]
      /\ CalAnswer(m, 7) = <<17, 34, 51, 68>>[m + 1]
  BY <1>2, <1>3 DEF CalAnswer
<1> QED
  BY <1>2, <1>3, <1>4, <1>5

\* The codes of a transmit calibration.
LEMMA LongCodes ==
    ASSUME NEW m \in 2 .. 3
    PROVE  /\ Len(CalCodes(m)) = 30
           /\ \A i \in 1 .. 30 : CalCodes(m)[i] = IF i <= 4 THEN i ELSE IF i <= 9 THEN i + 1 ELSE i + 2
           /\ \A i \in 1 .. 30 : CalAnswer(m, i) = IF i <= 3 THEN i ELSE IF i <= 8 THEN i + 2
                                                 ELSE IF i <= 29 THEN i + 3 ELSE IF m = 2 THEN 51 ELSE 68
<1> DEFINE S == <<1, 2, 3, 4>>
           T == [i \in 1 .. 5 |-> i + 5]
           U == [i \in 1 .. 21 |-> i + 11]
<1>1. CalCodes(m) = Cat(Cat(S, T), U)
  BY DEF CalCodes, Cat
<1>2. Listing(S, Nat, 4) /\ Listing(T, Nat, 5) /\ Listing(U, Nat, 21)
  BY DEF Listing
<1>3. \A i \in 1 .. 4 : S[i] = i
  <2>1. \A i \in 1 .. 4 : i = 1 \/ i = 2 \/ i = 3 \/ i = 4
    OBVIOUS
  <2> QED
    BY <2>1
<1>4. (\A i \in 1 .. 5 : T[i] = i + 5) /\ (\A i \in 1 .. 21 : U[i] = i + 11)
  OBVIOUS
<1> HIDE DEF S, T, U
<1>5. PICK x : x = Cat(S, T)
  OBVIOUS
<1>6. Halves(x, S, T, Nat, 4, 5)
  BY <1>2, <1>5, CatIndex
<1>7. Listing(x, Nat, 9) /\ (\A i \in 1 .. 4 : x[i] = i) /\ (\A i \in 1 .. 5 : x[4 + i] = i + 5)
  BY <1>3, <1>4, <1>6 DEF Halves
<1>8. PICK s : s = CalCodes(m)
  OBVIOUS
<1>9. Halves(s, x, U, Nat, 9, 21)
  BY <1>1, <1>2, <1>5, <1>7, <1>8, CatIndex
<1>10. /\ Len(s) = 30
       /\ \A i \in 1 .. 9 : s[i] = x[i]
       /\ \A i \in 1 .. 21 : s[9 + i] = i + 11
  <2>1. Listing(s, Nat, 30) /\ (\A i \in 1 .. 9 : s[i] = x[i]) /\ (\A i \in 1 .. 21 : s[9 + i] = U[i])
    BY <1>9 DEF Halves
  <2>2. Len(s) = 30
    BY <2>1 DEF Listing
  <2> QED
    BY <2>1, <2>2, <1>4
<1>11. \A i \in 1 .. 30 : s[i] = IF i <= 4 THEN i ELSE IF i <= 9 THEN i + 1 ELSE i + 2
  <2> SUFFICES ASSUME NEW i \in 1 .. 30
               PROVE  s[i] = IF i <= 4 THEN i ELSE IF i <= 9 THEN i + 1 ELSE i + 2
    OBVIOUS
  <2>1. CASE i <= 4
    BY <2>1, <1>7, <1>10
  <2>2. CASE i > 4 /\ i <= 9
    <3>1. i - 4 \in 1 .. 5 /\ i = 4 + (i - 4)
      BY <2>2
    <3>2. x[4 + (i - 4)] = (i - 4) + 5
      BY <3>1, <1>7
    <3> QED
      BY <2>2, <3>1, <3>2, <1>10
  <2>3. CASE i > 9
    <3>1. i - 9 \in 1 .. 21 /\ i = 9 + (i - 9)
      BY <2>3
    <3>2. s[9 + (i - 9)] = (i - 9) + 11
      BY <3>1, <1>10
    <3> QED
      BY <2>3, <3>1, <3>2
  <2> QED
    BY <2>1, <2>2, <2>3
<1>12. <<17, 34, 51, 68>>[m + 1] = IF m = 2 THEN 51 ELSE 68
  <2>1. m = 2 \/ m = 3
    OBVIOUS
  <2> QED
    BY <2>1
<1>13. \A i \in 1 .. 30 : CalAnswer(m, i) = IF i <= 3 THEN s[i] ELSE IF i = 30 THEN <<17, 34, 51, 68>>[m + 1] ELSE s[i + 1]
  BY <1>8, <1>10 DEF CalAnswer
<1> QED
  BY <1>8, <1>10, <1>11, <1>12, <1>13

\* What the invariant needs of them.
LEMMA CalTables ==
    ASSUME NEW m \in 0 .. 3
    PROVE  /\ Len(CalCodes(m)) \in Nat /\ Len(CalCodes(m)) > 3
           /\ CalCodes(m)[1] = 1 /\ CalAnswer(m, 1) = 1
           /\ CalCodes(m)[Len(CalCodes(m))] # 1 /\ CalAnswer(m, Len(CalCodes(m))) # 1
           /\ \A i \in 1 .. Len(CalCodes(m)) :
                                /\ CalCodes(m)[i] \in 1 .. 127
                                /\ CalAnswer(m, i) \in 1 .. 127
                                /\ i > 1 => /\ CalCodes(m)[i] # CalCodes(m)[i - 1]
                                            /\ CalAnswer(m, i) # CalAnswer(m, i - 1)
<1> DEFINE Sound(n) ==
             /\ n \in Nat /\ n > 3
             /\ CalCodes(m)[1] = 1 /\ CalAnswer(m, 1) = 1 /\ CalCodes(m)[n] # 1 /\ CalAnswer(m, n) # 1
             /\ \A i \in 1 .. n : /\ CalCodes(m)[i] \in 1 .. 127
                                  /\ CalAnswer(m, i) \in 1 .. 127
                                  /\ i > 1 => /\ CalCodes(m)[i] # CalCodes(m)[i - 1]
                                              /\ CalAnswer(m, i) # CalAnswer(m, i - 1)
<1>1. CASE m \in 0 .. 1
  <2>1. Len(CalCodes(m)) = 7
    BY <1>1, ShortCodes
  <2>2. \A i \in 1 .. 7 : i = 1 \/ i = 2 \/ i = 3 \/ i = 4 \/ i = 5 \/ i = 6 \/ i = 7
    OBVIOUS
  <2>3. \A i \in 1 .. 7 : /\ CalCodes(m)[i] = IF i <= 4 THEN i ELSE i + 1
                          /\ CalAnswer(m, i) = IF i <= 3 THEN i ELSE IF i <= 6 THEN i + 2 ELSE IF m = 0 THEN 17 ELSE 34
    BY <1>1, <2>2, ShortCodes
  <2>4. Sound(7)
    BY <2>3
  <2>5. \A v : v \in 1 .. 127 => v \in Nat
    OBVIOUS
  <2> QED
    BY <2>1, <2>4, <2>5, Zenon
<1>2. CASE m \in 2 .. 3
  <2>1. Len(CalCodes(m)) = 30
    BY <1>2, LongCodes
  <2>2. /\ \A i \in 1 .. 30 : CalCodes(m)[i] = IF i <= 4 THEN i ELSE IF i <= 9 THEN i + 1 ELSE i + 2
        /\ \A i \in 1 .. 30 : CalAnswer(m, i) = IF i <= 3 THEN i ELSE IF i <= 8 THEN i + 2
                                              ELSE IF i <= 29 THEN i + 3 ELSE IF m = 2 THEN 51 ELSE 68
    BY <1>2, LongCodes
  <2>3. Sound(30)
    BY <2>2
  <2> QED
    BY <2>1, <2>3
<1> QED
  BY <1>1, <1>2

-----------------------------------------------------------------------------
(* The operations of the script, and the notes they lead between.            *)

\* What the constructors of operations make are operations.
LEMMA Operations ==
    /\ \A mcu \in {"agc", "arb"} : \A m \in 0 .. 3 : \A v \in Nat :
         Put(mcu, m, v) \in Operation /\ \A how \in {"number", "flag"} : Check(mcu, m, v, how) \in Operation
    /\ \A mcu \in {"agc", "arb"} : \A v \in Nat : Await(mcu, v) \in Operation
    /\ \A v \in Nat : Collect(v) \in Operation /\ Locked(v) \in Operation /\ Judge(v) \in Operation
    /\ \A what \in Called : Do(what) \in Operation
BY DEF Operation, Put, Check, Await, Collect, Locked, Judge, Do

\* An operation that leaves none out.
Step(c, a, op, b) == op \in Operation /\ op.op \notin {"locked", "judge"} /\ OpLeads(c, a, op, b)

\* Operations one after the other.
LEMMA Straight ==
    ASSUME NEW c, NEW s, NEW f, NEW n \in Nat, Len(s) = n, DOMAIN s = 1 .. n, s \in [1 .. n -> Operation],
           \A k \in 1 .. n : Step(c, f[k], s[k], f[k + 1])
    PROVE  Leads(c, s, f[1], f[n + 1])
<1>1. s \in Seq(Operation)
  OBVIOUS
<1>2. Annotates(c, f, s)
  BY DEF Annotates, Step
<1> QED
  BY <1>1, <1>2 DEF Leads

\* The operations with which a calibration is aimed and commanded.
LEMMA CalSteps ==
    ASSUME NEW c, NEW m \in 0 .. 3
    PROVE  /\ Step(c, CalLocked, Put("agc", 2, m), CalAimed(m))
           /\ \A v \in Nat : /\ Step(c, CalAimed(m), Put("agc", 0, v), CalAimed(m))
                             /\ Step(c, CalAimed(m), Put("agc", 1, v), CalAimed(m))
           /\ Step(c, CalAimed(m), Put("agc", 3, 0), CalAimed(m))
           /\ Step(c, CalAimed(m), Put("agc", 3, 1), CalTold(m, 1))
<1>1. \A op : op.op = "put" => op.op \notin {"locked", "judge"}
  OBVIOUS
<1>2. \A b, v : Put("agc", b, v).op = "put" /\ Put("agc", b, v).mcu = "agc" /\ Put("agc", b, v).box = b /\ Put("agc", b, v).value = v
  BY DEF Put
<1>3. /\ CalLeads(CalLocked, Put("agc", 2, m), CalAimed(m))
      /\ \A v \in Nat : /\ CalLeads(CalAimed(m), Put("agc", 0, v), CalAimed(m))
                        /\ CalLeads(CalAimed(m), Put("agc", 1, v), CalAimed(m))
      /\ CalLeads(CalAimed(m), Put("agc", 3, 0), CalAimed(m))
      /\ CalLeads(CalAimed(m), Put("agc", 3, 1), CalTold(m, 1))
  BY <1>2 DEF CalLeads, CalTop, CalAim, CalTell, CalHear
<1> QED
  BY <1>1, <1>2, <1>3, Operations DEF Step, OpLeads

\* The operations of a calibration round.
LEMMA CalRounds ==
    ASSUME NEW c, NEW m \in 0 .. 3, NEW i \in 1 .. Len(CalCodes(m))
    PROVE  /\ \A v : v = CalAnswer(m, i) =>
                Step(c, CalTold(m, i), Await("agc", v), IF i = Len(CalCodes(m)) THEN CalIdle ELSE CalSettled(m, i + 1))
           /\ \A v \in Nat : /\ Step(c, CalSettled(m, i), Put("agc", 0, v), CalSettled(m, i))
                             /\ Step(c, CalSettled(m, i), Put("agc", 1, v), CalSettled(m, i))
           /\ Step(c, CalSettled(m, i), Put("agc", 2, 0), CalSettled(m, i))
           /\ \A v : v = i - 1 => Step(c, CalSettled(m, i), Collect(v), CalSettled(m, i))
           /\ \A v : v = CalCodes(m)[i] => Step(c, CalSettled(m, i), Put("agc", 3, v), CalTold(m, i))
<1>1. CalAnswer(m, i) \in Nat /\ CalCodes(m)[i] \in Nat /\ i - 1 \in Nat
  <2>1. CalAnswer(m, i) \in 1 .. 127 /\ CalCodes(m)[i] \in 1 .. 127
    BY CalTables
  <2>2. PICK n \in Nat : n = Len(CalCodes(m))
    BY CalTables
  <2>3. i \in 1 .. n
    BY <2>2
  <2>4. i - 1 \in Nat
    BY <2>3
  <2>5. \A v : v \in 1 .. 127 => v \in Nat
    OBVIOUS
  <2> QED
    BY <2>1, <2>4, <2>5, Zenon
<1>2. \A b, v : /\ Put("agc", b, v).op = "put" /\ Put("agc", b, v).mcu = "agc"
                /\ Put("agc", b, v).box = b /\ Put("agc", b, v).value = v
                /\ Await("agc", v).op = "await" /\ Collect(v).op = "collect"
  BY DEF Put, Await, Collect
<1>3. CalLeads(CalTold(m, i), Await("agc", CalAnswer(m, i)), IF i = Len(CalCodes(m)) THEN CalIdle ELSE CalSettled(m, i + 1))
  BY DEF CalLeads, CalTop, CalAim, CalTell, CalHear
<1>4. ASSUME NEW op, op.op = "put", op.mcu = "agc", op.box \in {0, 1} \/ (op.box = 2 /\ op.value \in 0 .. 3)
      PROVE  CalLeads(CalSettled(m, i), op, CalSettled(m, i))
  BY <1>4 DEF CalLeads, CalTop, CalAim, CalTell, CalHear
<1>5. CalLeads(CalSettled(m, i), Collect(i - 1), CalSettled(m, i))
  BY DEF CalLeads, CalTop, CalAim, CalTell, CalHear
<1>6. CalLeads(CalSettled(m, i), Put("agc", 3, CalCodes(m)[i]), CalTold(m, i))
  BY DEF CalLeads, CalTop, CalAim, CalTell, CalHear
<1>7. /\ Await("agc", CalAnswer(m, i)) \in Operation /\ Collect(i - 1) \in Operation
      /\ Put("agc", 3, CalCodes(m)[i]) \in Operation /\ Put("agc", 2, 0) \in Operation
      /\ \A v \in Nat : Put("agc", 0, v) \in Operation /\ Put("agc", 1, v) \in Operation
  BY <1>1, Operations
<1> QED
  BY <1>2, <1>3, <1>4, <1>5, <1>6, <1>7, SMTT(60) DEF Step, OpLeads

\* The notes of sx125x_cal_rx_image, between its operations.
RxBody(chain) ==
  <<Put("agc", 2, chain), Put("agc", 1, 16), Put("agc", 0, 0),
    Put("agc", 3, 0), Put("agc", 3, 1), Await("agc", 1),
    Put("agc", 3, 2), Await("agc", 2), Put("agc", 3, 3), Await("agc", 3),
    Put("agc", 2, 0), Put("agc", 1, 8), Put("agc", 3, 4),
    Await("agc", 6), Collect(4), Put("agc", 3, 6),
    Await("agc", 7), Collect(5), Put("agc", 3, 7),
    Await("agc", 8), Collect(6), Put("agc", 3, 8), Await("agc", RxDone(chain))>>

RxNotes(m) ==
  <<CalLocked, CalAimed(m), CalAimed(m), CalAimed(m),
    CalAimed(m), CalTold(m, 1), CalSettled(m, 2),
    CalTold(m, 2), CalSettled(m, 3), CalTold(m, 3), CalSettled(m, 4),
    CalSettled(m, 4), CalSettled(m, 4), CalTold(m, 4),
    CalSettled(m, 5), CalSettled(m, 5), CalTold(m, 5),
    CalSettled(m, 6), CalSettled(m, 6), CalTold(m, 6),
    CalSettled(m, 7), CalSettled(m, 7), CalTold(m, 7), CalIdle>>

\* sx125x_cal_rx_image leads from locked PLLs to the firmware at rest.
LEMMA RxBodyLeads ==
    ASSUME NEW c, NEW m \in 0 .. 1
    PROVE  Leads(c, RxBody(m), CalLocked, CalIdle)
<1>1. /\ Step(c, CalLocked, Put("agc", 2, m), CalAimed(m))
      /\ Step(c, CalAimed(m), Put("agc", 1, 16), CalAimed(m))
      /\ Step(c, CalAimed(m), Put("agc", 0, 0), CalAimed(m))
      /\ Step(c, CalAimed(m), Put("agc", 3, 0), CalAimed(m))
      /\ Step(c, CalAimed(m), Put("agc", 3, 1), CalTold(m, 1))
  BY CalSteps
<1>2. m \in 0 .. 3 /\ Len(CalCodes(m)) = 7
  BY ShortCodes
<1>3. \A i \in 1 .. 7 :
           /\ \A v : v = CalAnswer(m, i) =>
                Step(c, CalTold(m, i), Await("agc", v), IF i = 7 THEN CalIdle ELSE CalSettled(m, i + 1))
           /\ \A v \in Nat : /\ Step(c, CalSettled(m, i), Put("agc", 0, v), CalSettled(m, i))
                             /\ Step(c, CalSettled(m, i), Put("agc", 1, v), CalSettled(m, i))
           /\ Step(c, CalSettled(m, i), Put("agc", 2, 0), CalSettled(m, i))
           /\ \A v : v = i - 1 => Step(c, CalSettled(m, i), Collect(v), CalSettled(m, i))
           /\ \A v : v = CalCodes(m)[i] => Step(c, CalSettled(m, i), Put("agc", 3, v), CalTold(m, i))
  BY <1>2, CalRounds
<1>4. /\ Step(c, CalTold(m, 1), Await("agc", 1), CalSettled(m, 2))
      /\ Step(c, CalTold(m, 2), Await("agc", 2), CalSettled(m, 3))
      /\ Step(c, CalTold(m, 3), Await("agc", 3), CalSettled(m, 4))
      /\ Step(c, CalTold(m, 4), Await("agc", 6), CalSettled(m, 5))
      /\ Step(c, CalTold(m, 5), Await("agc", 7), CalSettled(m, 6))
      /\ Step(c, CalTold(m, 6), Await("agc", 8), CalSettled(m, 7))
      /\ Step(c, CalTold(m, 7), Await("agc", RxDone(m)), CalIdle)
  <2>1. RxDone(m) = CalAnswer(m, 7)
    BY ShortCodes DEF RxDone
  <2>2. ASSUME NEW i \in 1 .. 7 PROVE Step(c, CalTold(m, i), Await("agc", CalAnswer(m, i)), IF i = 7 THEN CalIdle ELSE CalSettled(m, i + 1))
    BY <1>3
  <2>3. ASSUME NEW i \in 1 .. 6 PROVE Step(c, CalTold(m, i), Await("agc", CalAnswer(m, i)), CalSettled(m, i + 1))
    <3>1. i # 7 /\ i \in 1 .. 7
      OBVIOUS
    <3> QED
      BY <2>2, <3>1, Zenon
  <2>4. /\ Step(c, CalTold(m, 1), Await("agc", CalAnswer(m, 1)), CalSettled(m, 1 + 1))
        /\ Step(c, CalTold(m, 2), Await("agc", CalAnswer(m, 2)), CalSettled(m, 2 + 1))
        /\ Step(c, CalTold(m, 3), Await("agc", CalAnswer(m, 3)), CalSettled(m, 3 + 1))
        /\ Step(c, CalTold(m, 4), Await("agc", CalAnswer(m, 4)), CalSettled(m, 4 + 1))
        /\ Step(c, CalTold(m, 5), Await("agc", CalAnswer(m, 5)), CalSettled(m, 5 + 1))
        /\ Step(c, CalTold(m, 6), Await("agc", CalAnswer(m, 6)), CalSettled(m, 6 + 1))
    BY <2>3
  <2>5. Step(c, CalTold(m, 7), Await("agc", RxDone(m)), CalIdle)
    BY <2>1, <2>2
  <2> QED
    BY <2>4, <2>5, ShortCodes
<1>5. /\ Step(c, CalSettled(m, 2), Put("agc", 3, 2), CalTold(m, 2))
      /\ Step(c, CalSettled(m, 3), Put("agc", 3, 3), CalTold(m, 3))
      /\ Step(c, CalSettled(m, 4), Put("agc", 3, 4), CalTold(m, 4))
      /\ Step(c, CalSettled(m, 5), Put("agc", 3, 6), CalTold(m, 5))
      /\ Step(c, CalSettled(m, 6), Put("agc", 3, 7), CalTold(m, 6))
      /\ Step(c, CalSettled(m, 7), Put("agc", 3, 8), CalTold(m, 7))
  BY <1>3, ShortCodes
<1>6. /\ Step(c, CalSettled(m, 4), Put("agc", 2, 0), CalSettled(m, 4))
      /\ Step(c, CalSettled(m, 4), Put("agc", 1, 8), CalSettled(m, 4))
      /\ Step(c, CalSettled(m, 5), Collect(4), CalSettled(m, 5))
      /\ Step(c, CalSettled(m, 6), Collect(5), CalSettled(m, 6))
      /\ Step(c, CalSettled(m, 7), Collect(6), CalSettled(m, 7))
  BY <1>3
<1>7. /\ Len(RxBody(m)) = 23 /\ DOMAIN RxBody(m) = 1 .. 23
      /\ RxBody(m)[1] = Put("agc", 2, m) /\ RxBody(m)[2] = Put("agc", 1, 16)
      /\ RxBody(m)[3] = Put("agc", 0, 0) /\ RxBody(m)[4] = Put("agc", 3, 0)
      /\ RxBody(m)[5] = Put("agc", 3, 1) /\ RxBody(m)[6] = Await("agc", 1)
      /\ RxBody(m)[7] = Put("agc", 3, 2) /\ RxBody(m)[8] = Await("agc", 2)
      /\ RxBody(m)[9] = Put("agc", 3, 3) /\ RxBody(m)[10] = Await("agc", 3)
      /\ RxBody(m)[11] = Put("agc", 2, 0) /\ RxBody(m)[12] = Put("agc", 1, 8)
      /\ RxBody(m)[13] = Put("agc", 3, 4) /\ RxBody(m)[14] = Await("agc", 6)
      /\ RxBody(m)[15] = Collect(4) /\ RxBody(m)[16] = Put("agc", 3, 6)
      /\ RxBody(m)[17] = Await("agc", 7) /\ RxBody(m)[18] = Collect(5)
      /\ RxBody(m)[19] = Put("agc", 3, 7) /\ RxBody(m)[20] = Await("agc", 8)
      /\ RxBody(m)[21] = Collect(6) /\ RxBody(m)[22] = Put("agc", 3, 8)
      /\ RxBody(m)[23] = Await("agc", RxDone(m))
  <2>1. /\ Len(RxBody(m)) = 23 /\ DOMAIN RxBody(m) = 1 .. 23
        /\ RxBody(m)[1] = Put("agc", 2, m) /\ RxBody(m)[2] = Put("agc", 1, 16)
        /\ RxBody(m)[3] = Put("agc", 0, 0) /\ RxBody(m)[4] = Put("agc", 3, 0)
        /\ RxBody(m)[5] = Put("agc", 3, 1) /\ RxBody(m)[6] = Await("agc", 1)
    BY DEF RxBody
  <2>2. /\ RxBody(m)[7] = Put("agc", 3, 2) /\ RxBody(m)[8] = Await("agc", 2)
        /\ RxBody(m)[9] = Put("agc", 3, 3) /\ RxBody(m)[10] = Await("agc", 3)
        /\ RxBody(m)[11] = Put("agc", 2, 0) /\ RxBody(m)[12] = Put("agc", 1, 8)
        /\ RxBody(m)[13] = Put("agc", 3, 4) /\ RxBody(m)[14] = Await("agc", 6)
    BY DEF RxBody
  <2>3. /\ RxBody(m)[15] = Collect(4) /\ RxBody(m)[16] = Put("agc", 3, 6)
        /\ RxBody(m)[17] = Await("agc", 7) /\ RxBody(m)[18] = Collect(5)
        /\ RxBody(m)[19] = Put("agc", 3, 7) /\ RxBody(m)[20] = Await("agc", 8)
        /\ RxBody(m)[21] = Collect(6) /\ RxBody(m)[22] = Put("agc", 3, 8)
        /\ RxBody(m)[23] = Await("agc", RxDone(m))
    BY DEF RxBody
  <2> QED
    BY <2>1, <2>2, <2>3, Zenon
<1>8. /\ RxNotes(m)[1] = CalLocked /\ RxNotes(m)[2] = CalAimed(m) /\ RxNotes(m)[3] = CalAimed(m)
      /\ RxNotes(m)[4] = CalAimed(m) /\ RxNotes(m)[5] = CalAimed(m) /\ RxNotes(m)[6] = CalTold(m, 1)
      /\ RxNotes(m)[7] = CalSettled(m, 2) /\ RxNotes(m)[8] = CalTold(m, 2)
      /\ RxNotes(m)[9] = CalSettled(m, 3) /\ RxNotes(m)[10] = CalTold(m, 3)
      /\ RxNotes(m)[11] = CalSettled(m, 4) /\ RxNotes(m)[12] = CalSettled(m, 4)
      /\ RxNotes(m)[13] = CalSettled(m, 4) /\ RxNotes(m)[14] = CalTold(m, 4)
      /\ RxNotes(m)[15] = CalSettled(m, 5) /\ RxNotes(m)[16] = CalSettled(m, 5)
      /\ RxNotes(m)[17] = CalTold(m, 5) /\ RxNotes(m)[18] = CalSettled(m, 6)
      /\ RxNotes(m)[19] = CalSettled(m, 6) /\ RxNotes(m)[20] = CalTold(m, 6)
      /\ RxNotes(m)[21] = CalSettled(m, 7) /\ RxNotes(m)[22] = CalSettled(m, 7)
      /\ RxNotes(m)[23] = CalTold(m, 7) /\ RxNotes(m)[24] = CalIdle
  BY DEF RxNotes
<1> DEFINE Fine(k) == Step(c, RxNotes(m)[k], RxBody(m)[k], RxNotes(m)[k + 1])
<1>9. Fine(1) /\ Fine(2) /\ Fine(3) /\ Fine(4) /\ Fine(5) /\ Fine(6) /\ Fine(7) /\ Fine(8)
  BY <1>1, <1>4, <1>5, <1>7, <1>8
<1>10. Fine(9) /\ Fine(10) /\ Fine(11) /\ Fine(12) /\ Fine(13) /\ Fine(14) /\ Fine(15) /\ Fine(16)
  BY <1>4, <1>5, <1>6, <1>7, <1>8
<1>11. Fine(17) /\ Fine(18) /\ Fine(19) /\ Fine(20) /\ Fine(21) /\ Fine(22) /\ Fine(23)
  BY <1>4, <1>5, <1>6, <1>7, <1>8
<1>12. \A k \in 1 .. 23 : Fine(k)
  <2> HIDE DEF Fine
  <2>1. \A k \in 1 .. 23 : \/ k = 1 \/ k = 2 \/ k = 3 \/ k = 4 \/ k = 5 \/ k = 6 \/ k = 7 \/ k = 8
                           \/ k = 9 \/ k = 10 \/ k = 11 \/ k = 12 \/ k = 13 \/ k = 14 \/ k = 15 \/ k = 16
                           \/ k = 17 \/ k = 18 \/ k = 19 \/ k = 20 \/ k = 21 \/ k = 22 \/ k = 23
    OBVIOUS
  <2> QED
    BY <2>1, <1>9, <1>10, <1>11
<1>13. RxBody(m) \in [1 .. 23 -> Operation]
  <2>1. \A k \in 1 .. 23 : RxBody(m)[k] \in Operation
    BY <1>12 DEF Step
  <2>2. RxBody(m) = [k \in 1 .. 23 |-> RxBody(m)[k]]
    BY DEF RxBody
  <2> QED
    BY <2>1, <2>2
<1>14. Leads(c, RxBody(m), RxNotes(m)[1], RxNotes(m)[23 + 1])
  BY <1>7, <1>12, <1>13, Straight
<1> QED
  BY <1>8, <1>14

\* A short run of operations.
LEMMA Three ==
    ASSUME NEW c, NEW a, NEW b, NEW d, NEW e, NEW p, NEW q, NEW r,
           Step(c, a, p, b), Step(c, b, q, d), Step(c, d, r, e)
    PROVE  Leads(c, <<p, q, r>>, a, e)
<1> DEFINE s == <<p, q, r>>
           f == <<a, b, d, e>>
<1>1. /\ Len(s) = 3 /\ DOMAIN s = 1 .. 3 /\ s[1] = p /\ s[2] = q /\ s[3] = r
      /\ f[1] = a /\ f[2] = b /\ f[3] = d /\ f[4] = e
  OBVIOUS
<1>2. s = [k \in 1 .. 3 |-> s[k]]
  OBVIOUS
<1> HIDE DEF s, f
<1>3. \A k \in 1 .. 3 : k = 1 \/ k = 2 \/ k = 3
  OBVIOUS
<1>4. \A k \in 1 .. 3 : Step(c, f[k], s[k], f[k + 1])
  <2>1. Step(c, f[1], s[1], f[1 + 1]) /\ Step(c, f[2], s[2], f[2 + 1]) /\ Step(c, f[3], s[3], f[3 + 1])
    BY <1>1
  <2> QED
    BY <1>3, <2>1
<1>5. \A k \in 1 .. 3 : s[k] \in Operation
  BY <1>4 DEF Step
<1>6. s \in [1 .. 3 -> Operation]
  BY <1>2, <1>5
<1>7. Leads(c, s, f[1], f[3 + 1])
  BY <1>1, <1>4, <1>6, Straight
<1> QED
  BY <1>1, <1>7 DEF s

\* The parts of sx125x_cal_tx_dc_offset.
TxHead(chain) ==
  <<Put("agc", 2, chain + 2), Put("agc", 1, 16), Put("agc", 0, 0),
    Put("agc", 3, 0), Put("agc", 3, 1), Await("agc", 1),
    Put("agc", 2, 0), Put("agc", 1, 0), Put("agc", 3, 2), Await("agc", 2),
    Put("agc", 2, 0), Put("agc", 1, 0), Put("agc", 3, 3), Await("agc", 3),
    Put("agc", 2, 0), Put("agc", 1, 64), Put("agc", 3, 4)>>
TxSearch == [i \in 1 .. 5 |-> <<Await("agc", i + 5), Collect(i + 3), Put("agc", 3, i + 5)>>]
TxLevels == [i \in 1 .. 20 |-> <<Await("agc", i + 11), Collect(i + 8), Put("agc", 3, i + 11)>>]
TxTail(chain) == <<Await("agc", 32), Put("agc", 3, 32), Await("agc", TxDone(chain))>>

TxNotes(m) ==
  <<CalLocked, CalAimed(m), CalAimed(m), CalAimed(m), CalAimed(m), CalTold(m, 1),
    CalSettled(m, 2), CalSettled(m, 2), CalSettled(m, 2), CalTold(m, 2),
    CalSettled(m, 3), CalSettled(m, 3), CalSettled(m, 3), CalTold(m, 3),
    CalSettled(m, 4), CalSettled(m, 4), CalSettled(m, 4), CalTold(m, 4)>>

\* The rounds of a transmit calibration.
LEMMA TxRounds ==
    ASSUME NEW c, NEW m \in 2 .. 3
    PROVE  /\ \A i \in 1 .. 29 : \A v : v = CalAnswer(m, i) => Step(c, CalTold(m, i), Await("agc", v), CalSettled(m, i + 1))
           /\ \A v : v = CalAnswer(m, 30) => Step(c, CalTold(m, 30), Await("agc", v), CalIdle)
           /\ \A i \in 1 .. 30 :
                /\ Step(c, CalSettled(m, i), Put("agc", 2, 0), CalSettled(m, i))
                /\ \A v \in Nat : Step(c, CalSettled(m, i), Put("agc", 1, v), CalSettled(m, i))
                /\ \A v : v = i - 1 => Step(c, CalSettled(m, i), Collect(v), CalSettled(m, i))
                /\ \A v : v = CalCodes(m)[i] => Step(c, CalSettled(m, i), Put("agc", 3, v), CalTold(m, i))
<1>1. m \in 0 .. 3 /\ Len(CalCodes(m)) = 30
  BY LongCodes
<1>2. \A i \in 1 .. 30 : \A v : v = CalAnswer(m, i) =>
        Step(c, CalTold(m, i), Await("agc", v), IF i = 30 THEN CalIdle ELSE CalSettled(m, i + 1))
  BY <1>1, CalRounds
<1>3. ASSUME NEW i \in 1 .. 29, NEW v, v = CalAnswer(m, i)
      PROVE  Step(c, CalTold(m, i), Await("agc", v), CalSettled(m, i + 1))
  <2>1. i # 30 /\ i \in 1 .. 30
    OBVIOUS
  <2> QED
    BY <1>2, <1>3, <2>1, Zenon
<1>4. ASSUME NEW v, v = CalAnswer(m, 30) PROVE Step(c, CalTold(m, 30), Await("agc", v), CalIdle)
  <2>1. 30 \in 1 .. 30
    OBVIOUS
  <2> QED
    BY <1>2, <1>4, <2>1, Zenon
<1>5. ASSUME NEW i \in 1 .. 30
      PROVE  /\ Step(c, CalSettled(m, i), Put("agc", 2, 0), CalSettled(m, i))
             /\ \A v \in Nat : Step(c, CalSettled(m, i), Put("agc", 1, v), CalSettled(m, i))
             /\ \A v : v = i - 1 => Step(c, CalSettled(m, i), Collect(v), CalSettled(m, i))
             /\ \A v : v = CalCodes(m)[i] => Step(c, CalSettled(m, i), Put("agc", 3, v), CalTold(m, i))
  BY <1>1, CalRounds
<1> QED
  BY <1>3, <1>4, <1>5

\* The beginning of sx125x_cal_tx_dc_offset leads to its fourth round.
LEMMA TxHeadLeads ==
    ASSUME NEW c, NEW chain \in Chains
    PROVE  Leads(c, TxHead(chain), CalLocked, CalTold(chain + 2, 4))
<1>1. PICK m \in 2 .. 3 : m = chain + 2
  BY DEF Chains
<1>2. /\ Step(c, CalLocked, Put("agc", 2, m), CalAimed(m))
      /\ Step(c, CalAimed(m), Put("agc", 1, 16), CalAimed(m))
      /\ Step(c, CalAimed(m), Put("agc", 0, 0), CalAimed(m))
      /\ Step(c, CalAimed(m), Put("agc", 3, 0), CalAimed(m))
      /\ Step(c, CalAimed(m), Put("agc", 3, 1), CalTold(m, 1))
  BY CalSteps
<1>3. /\ CalAnswer(m, 1) = 1 /\ CalAnswer(m, 2) = 2 /\ CalAnswer(m, 3) = 3
      /\ CalCodes(m)[2] = 2 /\ CalCodes(m)[3] = 3 /\ CalCodes(m)[4] = 4
  BY LongCodes
<1>4. /\ Step(c, CalTold(m, 1), Await("agc", 1), CalSettled(m, 1 + 1))
      /\ Step(c, CalTold(m, 2), Await("agc", 2), CalSettled(m, 2 + 1))
      /\ Step(c, CalTold(m, 3), Await("agc", 3), CalSettled(m, 3 + 1))
  BY <1>3, TxRounds
<1>5. /\ Step(c, CalSettled(m, 2), Put("agc", 2, 0), CalSettled(m, 2))
      /\ Step(c, CalSettled(m, 2), Put("agc", 1, 0), CalSettled(m, 2))
      /\ Step(c, CalSettled(m, 2), Put("agc", 3, 2), CalTold(m, 2))
      /\ Step(c, CalSettled(m, 3), Put("agc", 2, 0), CalSettled(m, 3))
      /\ Step(c, CalSettled(m, 3), Put("agc", 1, 0), CalSettled(m, 3))
      /\ Step(c, CalSettled(m, 3), Put("agc", 3, 3), CalTold(m, 3))
      /\ Step(c, CalSettled(m, 4), Put("agc", 2, 0), CalSettled(m, 4))
      /\ Step(c, CalSettled(m, 4), Put("agc", 1, 64), CalSettled(m, 4))
      /\ Step(c, CalSettled(m, 4), Put("agc", 3, 4), CalTold(m, 4))
  BY <1>3, TxRounds
<1>6. PICK s : s = TxHead(chain)
  OBVIOUS
<1>7. /\ Len(s) = 17 /\ DOMAIN s = 1 .. 17
      /\ s[1] = Put("agc", 2, m) /\ s[2] = Put("agc", 1, 16) /\ s[3] = Put("agc", 0, 0)
      /\ s[4] = Put("agc", 3, 0) /\ s[5] = Put("agc", 3, 1) /\ s[6] = Await("agc", 1)
      /\ s[7] = Put("agc", 2, 0) /\ s[8] = Put("agc", 1, 0) /\ s[9] = Put("agc", 3, 2)
      /\ s[10] = Await("agc", 2) /\ s[11] = Put("agc", 2, 0) /\ s[12] = Put("agc", 1, 0)
      /\ s[13] = Put("agc", 3, 3) /\ s[14] = Await("agc", 3) /\ s[15] = Put("agc", 2, 0)
      /\ s[16] = Put("agc", 1, 64) /\ s[17] = Put("agc", 3, 4)
  BY <1>1, <1>6 DEF TxHead
<1>7a. s = [k \in 1 .. 17 |-> s[k]]
  BY <1>6 DEF TxHead
<1>8. PICK f : f = TxNotes(m)
  OBVIOUS
<1>9. /\ f[1] = CalLocked /\ f[2] = CalAimed(m) /\ f[3] = CalAimed(m) /\ f[4] = CalAimed(m)
      /\ f[5] = CalAimed(m) /\ f[6] = CalTold(m, 1) /\ f[7] = CalSettled(m, 2) /\ f[8] = CalSettled(m, 2)
      /\ f[9] = CalSettled(m, 2) /\ f[10] = CalTold(m, 2) /\ f[11] = CalSettled(m, 3)
      /\ f[12] = CalSettled(m, 3) /\ f[13] = CalSettled(m, 3) /\ f[14] = CalTold(m, 3)
      /\ f[15] = CalSettled(m, 4) /\ f[16] = CalSettled(m, 4) /\ f[17] = CalSettled(m, 4)
      /\ f[18] = CalTold(m, 4)
  BY <1>8 DEF TxNotes
<1> DEFINE Fine(k) == Step(c, f[k], s[k], f[k + 1])
<1>10. Fine(1) /\ Fine(2) /\ Fine(3) /\ Fine(4) /\ Fine(5) /\ Fine(6) /\ Fine(7) /\ Fine(8) /\ Fine(9)
  BY <1>2, <1>4, <1>5, <1>7, <1>9
<1>11. Fine(10) /\ Fine(11) /\ Fine(12) /\ Fine(13) /\ Fine(14) /\ Fine(15) /\ Fine(16) /\ Fine(17)
  BY <1>4, <1>5, <1>7, <1>9
<1>12. \A k \in 1 .. 17 : Fine(k)
  <2> HIDE DEF Fine
  <2>1. \A k \in 1 .. 17 : \/ k = 1 \/ k = 2 \/ k = 3 \/ k = 4 \/ k = 5 \/ k = 6 \/ k = 7 \/ k = 8 \/ k = 9
                           \/ k = 10 \/ k = 11 \/ k = 12 \/ k = 13 \/ k = 14 \/ k = 15 \/ k = 16 \/ k = 17
    OBVIOUS
  <2> QED
    BY <2>1, <1>10, <1>11
<1>13. s \in [1 .. 17 -> Operation]
  <2>1. \A k \in 1 .. 17 : s[k] \in Operation
    BY <1>12 DEF Step
  <2> QED
    BY <2>1, <1>7a
<1>14. Leads(c, s, f[1], f[17 + 1])
  BY <1>7, <1>12, <1>13, Straight
<1> QED
  BY <1>1, <1>6, <1>9, <1>14

\* The search and the signal levels lead through the rounds after.
LEMMA TxTripleLeads ==
    ASSUME NEW c, NEW m \in 2 .. 3
    PROVE  /\ Leads(c, FlattenSeq(TxSearch), CalTold(m, 4), CalTold(m, 9))
           /\ Leads(c, FlattenSeq(TxLevels), CalTold(m, 9), CalTold(m, 29))
<1>1. ASSUME NEW i \in 1 .. 5
      PROVE  Leads(c, <<Await("agc", i + 5), Collect(i + 3), Put("agc", 3, i + 5)>>, CalTold(m, i + 3), CalTold(m, i + 4))
  <2>1. i + 3 \in 1 .. 29 /\ i + 4 \in 1 .. 30 /\ i + 5 = CalAnswer(m, i + 3) /\ i + 5 = CalCodes(m)[i + 4]
        /\ i + 3 = (i + 4) - 1 /\ (i + 3) + 1 = i + 4
    BY LongCodes
  <2>2. Step(c, CalTold(m, i + 3), Await("agc", i + 5), CalSettled(m, (i + 3) + 1))
    BY <2>1, TxRounds
  <2>3. Step(c, CalSettled(m, i + 4), Collect(i + 3), CalSettled(m, i + 4))
    BY <2>1, TxRounds
  <2>4. Step(c, CalSettled(m, i + 4), Put("agc", 3, i + 5), CalTold(m, i + 4))
    BY <2>1, TxRounds
  <2>5. Step(c, CalTold(m, i + 3), Await("agc", i + 5), CalSettled(m, i + 4))
    BY <2>1, <2>2
  <2> QED
    BY <2>3, <2>4, <2>5, Three
<1>2. ASSUME NEW i \in 1 .. 20
      PROVE  Leads(c, <<Await("agc", i + 11), Collect(i + 8), Put("agc", 3, i + 11)>>, CalTold(m, i + 8), CalTold(m, i + 9))
  <2>1. i + 8 \in 1 .. 29 /\ i + 9 \in 1 .. 30 /\ i + 11 = CalAnswer(m, i + 8) /\ i + 11 = CalCodes(m)[i + 9]
        /\ i + 8 = (i + 9) - 1 /\ (i + 8) + 1 = i + 9
    BY LongCodes
  <2>2. Step(c, CalTold(m, i + 8), Await("agc", i + 11), CalSettled(m, (i + 8) + 1))
    BY <2>1, TxRounds
  <2>3. Step(c, CalSettled(m, i + 9), Collect(i + 8), CalSettled(m, i + 9))
    BY <2>1, TxRounds
  <2>4. Step(c, CalSettled(m, i + 9), Put("agc", 3, i + 11), CalTold(m, i + 9))
    BY <2>1, TxRounds
  <2>5. Step(c, CalTold(m, i + 8), Await("agc", i + 11), CalSettled(m, i + 9))
    BY <2>1, <2>2
  <2> QED
    BY <2>3, <2>4, <2>5, Three
<1>3. Leads(c, FlattenSeq(TxSearch), CalTold(m, 4), CalTold(m, 9))
  <2> DEFINE g == [i \in 1 .. 6 |-> CalTold(m, i + 3)]
  <2>1. Len(TxSearch) = 5
    BY DEF TxSearch
  <2>2. \A i \in 1 .. 5 : g[i] = CalTold(m, i + 3) /\ g[i + 1] = CalTold(m, i + 4)
    <3>1. \A i \in 1 .. 5 : i \in 1 .. 6 /\ i + 1 \in 1 .. 6 /\ (i + 1) + 3 = i + 4
      OBVIOUS
    <3> QED
      BY <3>1
  <2>3. g[1] = CalTold(m, 4) /\ g[5 + 1] = CalTold(m, 9)
    OBVIOUS
  <2> HIDE DEF g
  <2>4. Each(c, TxSearch, g)
    BY <1>1, <2>1, <2>2 DEF Each, TxSearch
  <2>5. Len(TxSearch) \in Nat \ {0}
    BY <2>1
  <2>6. Leads(c, FlattenSeq(TxSearch), g[1], g[Len(TxSearch) + 1])
    BY <2>4, <2>5, Flat
  <2> QED
    BY <2>1, <2>3, <2>6
<1>4. Leads(c, FlattenSeq(TxLevels), CalTold(m, 9), CalTold(m, 29))
  <2> DEFINE g == [i \in 1 .. 21 |-> CalTold(m, i + 8)]
  <2>1. Len(TxLevels) = 20
    BY DEF TxLevels
  <2>2. \A i \in 1 .. 20 : g[i] = CalTold(m, i + 8) /\ g[i + 1] = CalTold(m, i + 9)
    <3>1. \A i \in 1 .. 20 : i \in 1 .. 21 /\ i + 1 \in 1 .. 21 /\ (i + 1) + 8 = i + 9
      OBVIOUS
    <3> QED
      BY <3>1
  <2>3. g[1] = CalTold(m, 9) /\ g[20 + 1] = CalTold(m, 29)
    OBVIOUS
  <2> HIDE DEF g
  <2>4. Each(c, TxLevels, g)
    BY <1>2, <2>1, <2>2 DEF Each, TxLevels
  <2>5. Len(TxLevels) \in Nat \ {0}
    BY <2>1
  <2>6. Leads(c, FlattenSeq(TxLevels), g[1], g[Len(TxLevels) + 1])
    BY <2>4, <2>5, Flat
  <2> QED
    BY <2>1, <2>3, <2>6
<1> QED
  BY <1>3, <1>4

\* The end of sx125x_cal_tx_dc_offset leads back to the firmware at rest.
LEMMA TxTailLeads ==
    ASSUME NEW c, NEW chain \in Chains
    PROVE  Leads(c, TxTail(chain), CalTold(chain + 2, 29), CalIdle)
<1>1. PICK m \in 2 .. 3 : m = chain + 2
  BY DEF Chains
<1>2. CalAnswer(m, 29) = 32 /\ CalCodes(m)[30] = 32 /\ CalAnswer(m, 30) = TxDone(chain)
  BY <1>1, LongCodes DEF TxDone, Chains
<1>3. Step(c, CalTold(m, 29), Await("agc", 32), CalSettled(m, 29 + 1))
  BY <1>2, TxRounds
<1>4. Step(c, CalSettled(m, 30), Put("agc", 3, 32), CalTold(m, 30))
  BY <1>2, TxRounds
<1>5. Step(c, CalTold(m, 30), Await("agc", TxDone(chain)), CalIdle)
  BY <1>2, TxRounds
<1>6. Leads(c, TxTail(chain), CalTold(m, 29), CalIdle)
  BY <1>3, <1>4, <1>5, Three DEF TxTail
<1> QED
  BY <1>1, <1>6

\* The flattening of no sequence.
LEMMA FlattenNone == FlattenSeq(<<>>) = <<>>
BY DEF FlattenSeq

\* An iteration, left out or not, finds the firmware at rest and leaves it so.
LEMMA IterationLeads ==
    ASSUME NEW c, NEW body, Leads(c, body, CalLocked, CalIdle)
    PROVE  Leads(c, Iteration(body), CalIdle, CalIdle)
<1>1. OpLeads(c, CalIdle, Locked(Len(body)), CalLocked)
  BY DEF OpLeads, CalLeads, CalTop, Locked
<1>2. Leads(c, <<Locked(Len(body))>> \o body, CalIdle, CalIdle)
  BY <1>1, Skip
<1> QED
  BY <1>2 DEF Iteration

\* What leads from a note to itself does so CalIter times.
LEMMA ThriceLeads ==
    ASSUME NEW c, NEW body, NEW a, Leads(c, body, a, a)
    PROVE  Leads(c, Thrice(body), a, a)
<1> DEFINE s == [i \in 1 .. 3 |-> body]
           g == [i \in 1 .. 4 |-> a]
<1>1. Len(s) = 3 /\ \A i \in 1 .. 3 : s[i] = body /\ g[i] = a /\ g[i + 1] = a
  OBVIOUS
<1>2. g[1] = a /\ g[3 + 1] = a
  OBVIOUS
<1>3. Thrice(body) = FlattenSeq(s)
  BY DEF Thrice, CalIter
<1> HIDE DEF s, g
<1>4. Each(c, s, g)
  BY <1>1 DEF Each
<1>5. Len(s) \in Nat \ {0}
  BY <1>1
<1>6. Leads(c, FlattenSeq(s), g[1], g[Len(s) + 1])
  BY <1>4, <1>5, Flat
<1> QED
  BY <1>1, <1>2, <1>3, <1>6

\* The iterations of the two calibrations.
LEMMA CalImagesLead ==
    ASSUME NEW c, NEW chain \in Chains
    PROVE  /\ Leads(c, Thrice(CalRxImage(chain)), CalIdle, CalIdle)
           /\ Leads(c, Thrice(CalTxOffset(chain)), CalIdle, CalIdle)
<1>1. Leads(c, CalRxImage(chain), CalIdle, CalIdle)
  <2>1. Leads(c, RxBody(chain), CalLocked, CalIdle)
    BY RxBodyLeads DEF Chains
  <2>2. CalRxImage(chain) = Iteration(RxBody(chain))
    BY DEF CalRxImage, RxBody
  <2> QED
    BY <2>1, <2>2, IterationLeads
<1>2. Leads(c, CalTxOffset(chain), CalIdle, CalIdle)
  <2>1. PICK m \in 2 .. 3 : m = chain + 2
    BY DEF Chains
  <2>2. Leads(c, TxHead(chain) \o FlattenSeq(TxSearch), CalLocked, CalTold(m, 9))
    BY <2>1, TxHeadLeads, TxTripleLeads, Join
  <2>3. Leads(c, TxHead(chain) \o FlattenSeq(TxSearch) \o FlattenSeq(TxLevels), CalLocked, CalTold(m, 29))
    BY <2>2, TxTripleLeads, Join
  <2>4. Leads(c, TxHead(chain) \o FlattenSeq(TxSearch) \o FlattenSeq(TxLevels) \o TxTail(chain), CalLocked, CalIdle)
    BY <2>1, <2>3, TxTailLeads, Join
  <2>5. CalTxOffset(chain) = Iteration(TxHead(chain) \o FlattenSeq(TxSearch) \o FlattenSeq(TxLevels) \o TxTail(chain))
    BY DEF CalTxOffset, TxHead, TxSearch, TxLevels, TxTail
  <2> QED
    BY <2>4, <2>5, IterationLeads
<1> QED
  BY <1>1, <1>2, ThriceLeads

\* The results are judged: they agree, or what follows is done.
LEMMA JudgeLeads ==
    ASSUME NEW c
    PROVE  /\ Leads(c, <<Judge(0)>>, CalIdle, CalIdle)
           /\ \A s : Leads(c, s, CalIdle, CalIdle) => Leads(c, <<Judge(Len(s))>> \o s, CalIdle, CalIdle)
<1>1. \A n : OpLeads(c, CalIdle, Judge(n), CalIdle)
  BY DEF OpLeads, CalLeads, CalTop, Judge
<1>2. Leads(c, <<Judge(0)>>, CalIdle, CalIdle)
  <2>1. Judge(0) \in Operation /\ Judge(0).count = 0
    BY Operations DEF Judge
  <2> QED
    BY <1>1, <2>1, OneOperation
<1>3. ASSUME NEW s, Leads(c, s, CalIdle, CalIdle) PROVE Leads(c, <<Judge(Len(s))>> \o s, CalIdle, CalIdle)
  BY <1>1, <1>3, Skip
<1> QED
  BY <1>2, <1>3

\* The receive calibration of a chain.
LEMMA CalRxLeads ==
    ASSUME NEW c, NEW conf_, NEW chain \in Chains
    PROVE  Leads(c, CalRx(conf_, chain), CalIdle, CalIdle)
<1> DEFINE runs == Thrice(CalRxImage(chain))
           loop == runs \o <<Judge(0)>>
<1>1. Leads(c, runs, CalIdle, CalIdle)
  BY CalImagesLead
<1>2. Leads(c, loop, CalIdle, CalIdle)
  BY <1>1, JudgeLeads, Join
<1>3. Leads(c, <<Judge(Len(loop))>> \o loop, CalIdle, CalIdle)
  BY <1>2, JudgeLeads
<1>4. PICK u : u = <<Judge(Len(loop))>> \o loop
  OBVIOUS
<1>5. Leads(c, runs \o u, CalIdle, CalIdle)
  BY <1>1, <1>3, <1>4, Join
<1>6. \/ CalRx(conf_, chain) = <<>>
      \/ CalRx(conf_, chain) = runs \o <<Judge(Len(loop))>> \o loop
      \/ CalRx(conf_, chain) = loop
  BY DEF CalRx
<1> HIDE DEF loop, runs
<1>7. Leads(c, <<>>, CalIdle, CalIdle)
  BY NoOperation
<1>8. Leads(c, runs \o <<Judge(Len(loop))>> \o loop, CalIdle, CalIdle)
  <2>1. PICK j : j = <<Judge(Len(loop))>>
    OBVIOUS
  <2>2. runs \in Seq(Operation) /\ loop \in Seq(Operation) /\ j \in Seq(Operation)
    <3>1. Len(loop) \in Nat /\ loop \in Seq(Operation)
      BY <1>2 DEF Leads
    <3>2. Judge(Len(loop)) \in Operation
      BY <3>1, Operations
    <3> QED
      BY <1>1, <2>1, <3>1, <3>2 DEF Leads
  <2>3. (runs \o j) \o loop = runs \o (j \o loop)
    BY <2>2, ConcatAssociative
  <2> QED
    BY <1>4, <1>5, <2>1, <2>3
<1> QED
  BY <1>2, <1>6, <1>7, <1>8

\* The transmit calibration of a chain, for each of its gains.
LEMMA CalTxLeads ==
    ASSUME NEW c, NEW conf_, conf_.gains \in Nat, NEW chain \in Chains
    PROVE  Leads(c, CalTx(conf_, chain), CalIdle, CalIdle)
<1>1. PICK body : body = Thrice(CalTxOffset(chain)) \o <<Judge(0)>>
  OBVIOUS
<1>2. Leads(c, body, CalIdle, CalIdle)
  BY <1>1, CalImagesLead, JudgeLeads, Join
<1>3. Leads(c, <<>>, CalIdle, CalIdle)
  BY NoOperation
<1>4. PICK n \in Nat : n = conf_.gains
  OBVIOUS
<1> DEFINE s == [g \in 1 .. n |-> body]
           h == [g \in 1 .. n + 1 |-> CalIdle]
<1>5. CalTx(conf_, chain) = <<>> \/ CalTx(conf_, chain) = FlattenSeq(s)
  BY <1>1, <1>4 DEF CalTx
<1>6. Leads(c, FlattenSeq(s), CalIdle, CalIdle)
  <2>1. CASE n = 0
    <3>1. s = <<>>
      BY <2>1
    <3> QED
      BY <3>1, <1>3, FlattenNone
  <2>2. CASE n > 0
    <3>1. Len(s) = n /\ \A g \in 1 .. n : s[g] = body /\ h[g] = CalIdle /\ h[g + 1] = CalIdle
      OBVIOUS
    <3>2. h[1] = CalIdle /\ h[n + 1] = CalIdle
      OBVIOUS
    <3> HIDE DEF s, h
    <3>3. Each(c, s, h)
      BY <3>1, <1>2 DEF Each
    <3>4. Len(s) \in Nat \ {0}
      BY <3>1, <2>2
    <3>5. Leads(c, FlattenSeq(s), h[1], h[Len(s) + 1])
      BY <3>3, <3>4, Flat
    <3> QED
      BY <3>1, <3>2, <3>5
  <2> QED
    BY <2>1, <2>2
<1> QED
  BY <1>3, <1>5, <1>6

\* sx1302_radio_calibrate from the boot of the calibration firmware on.
LEMMA CalStartLeads ==
    ASSUME NEW c, NEW conf_, conf_.gains \in Nat
    PROVE  Leads(c, CalStart(conf_), CalBoot, CalIdle)
<1> DEFINE head == <<Await("agc", 1), Check("agc", 0, CalVersion, "number"), Put("agc", 3, 255), Await("agc", 0)>>
<1>1. /\ Step(c, CalBoot, Await("agc", 1), CalAwake)
      /\ Step(c, CalAwake, Check("agc", 0, CalVersion, "number"), CalAwake)
      /\ Step(c, CalAwake, Put("agc", 3, 255), CalResuming)
      /\ Step(c, CalResuming, Await("agc", 0), CalIdle)
  <2>1. /\ CalLeads(CalBoot, Await("agc", 1), CalAwake)
        /\ CalLeads(CalAwake, Check("agc", 0, CalVersion, "number"), CalAwake)
        /\ CalLeads(CalAwake, Put("agc", 3, 255), CalResuming)
        /\ CalLeads(CalResuming, Await("agc", 0), CalIdle)
    BY DEF CalLeads, CalTop, CalAim, CalTell, CalHear, Check
  <2>2. /\ Await("agc", 1) \in Operation /\ Check("agc", 0, CalVersion, "number") \in Operation
        /\ Put("agc", 3, 255) \in Operation /\ Await("agc", 0) \in Operation
    BY Operations DEF CalVersion
  <2>3. /\ Await("agc", 1).op = "await" /\ Check("agc", 0, CalVersion, "number").op = "check"
        /\ Put("agc", 3, 255).op = "put" /\ Await("agc", 0).op = "await"
    BY DEF Await, Check, Put
  <2> QED
    BY <2>1, <2>2, <2>3 DEF Step, OpLeads
<1>2. Leads(c, <<Await("agc", 1), Check("agc", 0, CalVersion, "number"), Put("agc", 3, 255)>>, CalBoot, CalResuming)
  BY <1>1, Three
<1>3. Leads(c, <<Await("agc", 0)>>, CalResuming, CalIdle)
  BY <1>1, OneOperation DEF Step
<1>4. PICK t : t = <<Await("agc", 1), Check("agc", 0, CalVersion, "number"), Put("agc", 3, 255)>>
  OBVIOUS
<1>5. PICK u : u = <<Await("agc", 0)>>
  OBVIOUS
<1>6. Leads(c, t \o u, CalBoot, CalIdle)
  BY <1>2, <1>3, <1>4, <1>5, Join
<1>7. head = t \o u
  BY <1>4, <1>5
<1> HIDE DEF head
<1>8. Leads(c, head \o CalRx(conf_, 0), CalBoot, CalIdle)
  BY <1>6, <1>7, CalRxLeads, Join DEF Chains
<1>9. Leads(c, head \o CalRx(conf_, 0) \o CalRx(conf_, 1), CalBoot, CalIdle)
  BY <1>8, CalRxLeads, Join DEF Chains
<1>10. Leads(c, head \o CalRx(conf_, 0) \o CalRx(conf_, 1) \o CalTx(conf_, 0), CalBoot, CalIdle)
  BY <1>9, CalTxLeads, Join DEF Chains
<1>11. Leads(c, head \o CalRx(conf_, 0) \o CalRx(conf_, 1) \o CalTx(conf_, 0) \o CalTx(conf_, 1), CalBoot, CalIdle)
  BY <1>10, CalTxLeads, Join DEF Chains
<1> QED
  BY <1>11 DEF CalStart, head

-----------------------------------------------------------------------------
(* The rest of the script.                                                   *)

\* The last parameter of the AGC.
Lbt(c) == IF c.lbt THEN 1 ELSE 0

\* The parameters and the rounds of a configuration.
LEMMA ConfTables ==
    ASSUME NEW c
    PROVE  Tables(ParamsOf(c), RoundsOf(c), Lbt(c))
<1>1. (IF c.fdd THEN 1 ELSE 0) \in {0, 1} /\ Lbt(c) \in {0, 1}
  BY DEF Lbt
<1> QED
  BY <1>1, TheTables DEF ParamsOf, RoundsOf, Lbt

\* The parameters and the rounds, one by one.
LEMMA ConfRounds ==
    ASSUME NEW c
    PROVE  /\ LastOf(c) \in Nat \ {0, 1}
           /\ \A i \in 1 .. LastOf(c) :
                /\ Len(ParamsOf(c)[i].put) \in 1 .. 3 /\ Len(ParamsOf(c)[i].check) \in 1 .. 3
                /\ Len(ParamsOf(c)[i].put) <= Len(ParamsOf(c)[i].check)
                /\ \A k \in 1 .. Len(ParamsOf(c)[i].put) : /\ ParamsOf(c)[i].put[k] \in Nat
                                                           /\ ParamsOf(c)[i].put[k] = ParamsOf(c)[i].check[k]
                /\ \A k \in 1 .. Len(ParamsOf(c)[i].check) : ParamsOf(c)[i].check[k] \in Nat
                /\ ParamsOf(c)[i].code \in Nat /\ ParamsOf(c)[i].status \in Nat
                /\ ParamsOf(c)[i].how \in {"number", "flag"}
                /\ RoundsOf(c)[i].code = ParamsOf(c)[i].code /\ RoundsOf(c)[i].status = ParamsOf(c)[i].status
                /\ RoundsOf(c)[i].code # RoundsOf(c)[i + 1].code /\ RoundsOf(c)[i].status # RoundsOf(c)[i + 1].status
           /\ RoundsOf(c)[1].code = 128 /\ RoundsOf(c)[1].status # 1
           /\ RoundsOf(c)[LastOf(c) + 1].code = 15 /\ RoundsOf(c)[LastOf(c) + 1].status = 0
           /\ Len(RoundsOf(c)) = LastOf(c) + 1
           /\ Len(ParamsOf(c)[LastOf(c)].put) = 1 /\ ParamsOf(c)[LastOf(c)].check[1] = Lbt(c)
           /\ ParamsOf(c)[LastOf(c) - 1].how = "number" /\ ParamsOf(c)[LastOf(c) - 1].check[1] = 8
<1>1. Tables(ParamsOf(c), RoundsOf(c), Lbt(c))
  BY ConfTables
<1>2. /\ LastOf(c) \in Nat \ {0, 1}
      /\ RoundsOf(c)[1].code = 128 /\ RoundsOf(c)[1].status # 1
      /\ RoundsOf(c)[LastOf(c) + 1] = [code |-> 15, status |-> 0]
      /\ Len(RoundsOf(c)) = LastOf(c) + 1
      /\ Len(ParamsOf(c)[LastOf(c)].put) = 1 /\ ParamsOf(c)[LastOf(c)].check[1] = Lbt(c)
      /\ ParamsOf(c)[LastOf(c) - 1].how = "number" /\ ParamsOf(c)[LastOf(c) - 1].check[1] = 8
      /\ \A i \in 1 .. LastOf(c) : /\ Fits(ParamsOf(c)[i], RoundsOf(c)[i])
                                   /\ Differ(RoundsOf(c)[i], RoundsOf(c)[i + 1])
  BY <1>1 DEF Tables, LastOf
<1>3. \A p, r : Fits(p, r) =>
        /\ Len(p.put) \in 1 .. 3 /\ Len(p.check) \in 1 .. 3 /\ Len(p.put) <= Len(p.check)
        /\ \A k \in 1 .. Len(p.put) : p.put[k] = p.check[k]
        /\ \A k \in 1 .. Len(p.check) : p.check[k] \in Nat
        /\ p.code \in Nat /\ p.status \in Nat /\ p.how \in {"number", "flag"} /\ r.code = p.code /\ r.status = p.status
  <2> SUFFICES ASSUME NEW p, NEW r, Fits(p, r)
               PROVE  /\ Len(p.put) \in 1 .. 3 /\ Len(p.check) \in 1 .. 3 /\ Len(p.put) <= Len(p.check)
                      /\ \A k \in 1 .. Len(p.put) : p.put[k] = p.check[k]
                      /\ \A k \in 1 .. Len(p.check) : p.check[k] \in Nat
                      /\ p.code \in Nat /\ p.status \in Nat /\ p.how \in {"number", "flag"} /\ r.code = p.code /\ r.status = p.status
    OBVIOUS
  <2>1. p.put \in Seq(Nat) /\ p.check \in Seq(Nat) /\ p.code \in Nat /\ p.status \in Nat /\ p.how \in {"number", "flag"}
    BY DEF Fits, Param
  <2>2. \A k \in 1 .. Len(p.check) : p.check[k] \in Nat
    BY <2>1
  <2>3. /\ Len(p.put) \in 1 .. Len(p.check) /\ Len(p.check) \in 1 .. 3
        /\ \A k \in 1 .. Len(p.put) : p.put[k] = p.check[k]
        /\ r.code = p.code /\ r.status = p.status
    BY DEF Fits
  <2>4. Len(p.put) \in 1 .. 3 /\ Len(p.put) <= Len(p.check)
    <3>1. PICK n : n = Len(p.check)
      OBVIOUS
    <3>2. PICK k : k = Len(p.put)
      OBVIOUS
    <3>3. n \in 1 .. 3 /\ k \in 1 .. n
      BY <2>3, <3>1, <3>2
    <3>4. k \in 1 .. 3 /\ k <= n
      BY <3>3
    <3> QED
      BY <3>1, <3>2, <3>4
  <2> QED
    BY <2>1, <2>2, <2>3, <2>4, Zenon
<1>4. ASSUME NEW i \in 1 .. LastOf(c)
      PROVE  /\ Len(ParamsOf(c)[i].put) \in 1 .. 3 /\ Len(ParamsOf(c)[i].check) \in 1 .. 3
             /\ Len(ParamsOf(c)[i].put) <= Len(ParamsOf(c)[i].check)
             /\ \A k \in 1 .. Len(ParamsOf(c)[i].put) : /\ ParamsOf(c)[i].put[k] \in Nat
                                                        /\ ParamsOf(c)[i].put[k] = ParamsOf(c)[i].check[k]
             /\ \A k \in 1 .. Len(ParamsOf(c)[i].check) : ParamsOf(c)[i].check[k] \in Nat
             /\ ParamsOf(c)[i].code \in Nat /\ ParamsOf(c)[i].status \in Nat
             /\ ParamsOf(c)[i].how \in {"number", "flag"}
             /\ RoundsOf(c)[i].code = ParamsOf(c)[i].code /\ RoundsOf(c)[i].status = ParamsOf(c)[i].status
  <2>1. Fits(ParamsOf(c)[i], RoundsOf(c)[i])
    BY <1>2
  <2>2. PICK p : p = ParamsOf(c)[i]
    OBVIOUS
  <2>3. /\ Len(p.put) \in 1 .. 3 /\ Len(p.check) \in 1 .. 3 /\ Len(p.put) <= Len(p.check)
        /\ \A k \in 1 .. Len(p.put) : p.put[k] = p.check[k]
        /\ \A k \in 1 .. Len(p.check) : p.check[k] \in Nat
        /\ p.code \in Nat /\ p.status \in Nat /\ p.how \in {"number", "flag"} /\ RoundsOf(c)[i].code = p.code /\ RoundsOf(c)[i].status = p.status
    BY <2>1, <2>2, <1>3
  <2>4. \A k \in 1 .. Len(p.put) : p.put[k] \in Nat
    BY <2>3
  <2> QED
    BY <2>2, <2>3, <2>4
<1>5. \A i \in 1 .. LastOf(c) : RoundsOf(c)[i].code # RoundsOf(c)[i + 1].code /\ RoundsOf(c)[i].status # RoundsOf(c)[i + 1].status
  BY <1>2 DEF Differ
<1>6. RoundsOf(c)[LastOf(c) + 1].code = 15 /\ RoundsOf(c)[LastOf(c) + 1].status = 0
  BY <1>2
<1> QED
  BY <1>2, <1>4, <1>5, <1>6

\* There are exchanges, and a round for each of them.
LEMMA ConfLast ==
    ASSUME NEW c
    PROVE  LastOf(c) \in Nat \ {0, 1}
BY ConfTables DEF Tables, LastOf

\* The parameter and the round of an exchange, and the round after.
LEMMA ConfRound ==
    ASSUME NEW c, NEW i \in 1 .. LastOf(c)
    PROVE  /\ RoundsOf(c)[i].code = ParamsOf(c)[i].code /\ ParamsOf(c)[i].code \in Nat
           /\ RoundsOf(c)[i].status = ParamsOf(c)[i].status /\ ParamsOf(c)[i].status \in Nat
           /\ RoundsOf(c)[i].code # RoundsOf(c)[i + 1].code /\ RoundsOf(c)[i].status # RoundsOf(c)[i + 1].status
<1>1. Tables(ParamsOf(c), RoundsOf(c), Lbt(c))
  BY ConfTables
<1>2. Fits(ParamsOf(c)[i], RoundsOf(c)[i]) /\ Differ(RoundsOf(c)[i], RoundsOf(c)[i + 1])
  BY <1>1 DEF Tables, LastOf
<1>3. \A p, r : Fits(p, r) => r.code = p.code /\ p.code \in Nat /\ r.status = p.status /\ p.status \in Nat
  BY DEF Fits, Param
<1>4. \A r, s : Differ(r, s) => r.code # s.code /\ r.status # s.status
  BY DEF Differ
<1> QED
  BY <1>2, <1>3, <1>4, Zenon

\* The values put are those checked.
LEMMA ConfMatch ==
    ASSUME NEW c, NEW k \in 1 .. LastOf(c), NEW i \in 1 .. Len(ParamsOf(c)[k].put)
    PROVE  ParamsOf(c)[k].put[i] = ParamsOf(c)[k].check[i]
<1>1. Fits(ParamsOf(c)[k], RoundsOf(c)[k])
  BY ConfTables DEF Tables, LastOf
<1> QED
  BY <1>1 DEF Fits

\* The operations of an exchange with the AGC.
LEMMA AgcSteps ==
    ASSUME NEW c, NEW i \in 1 .. LastOf(c)
    PROVE  /\ \A b \in 0 .. 2 : \A v \in Nat : i # LastOf(c) \/ v # 255 => Step(c, AgcReady(i), Put("agc", b, v), AgcReady(i))
           /\ Step(c, AgcReady(i), Put("agc", 3, ParamsOf(c)[i].code), AgcToldOf(i))
           /\ Step(c, AgcToldOf(i), Await("agc", ParamsOf(c)[i].status), AgcCheck(i, 0))
           /\ \A j \in 1 .. Len(ParamsOf(c)[i].check) :
                Step(c, AgcCheck(i, j - 1), Check("agc", j - 1, ParamsOf(c)[i].check[j], ParamsOf(c)[i].how),
                     IF j = Len(ParamsOf(c)[i].check) THEN AgcReady(i + 1) ELSE AgcCheck(i, j))
<1>1. ASSUME NEW b \in 0 .. 2, NEW v \in Nat, i # LastOf(c) \/ v # 255 PROVE Step(c, AgcReady(i), Put("agc", b, v), AgcReady(i))
  <2>1. AgcLeads(c, AgcReady(i), Put("agc", b, v), AgcReady(i))
    <3>1. AgcHear(c, i, AgcReady(i), Put("agc", b, v), AgcReady(i))
      BY <1>1 DEF AgcHear, Put
    <3> QED
      BY <3>1 DEF AgcLeads
  <2>2. Put("agc", b, v) \in Operation /\ Put("agc", b, v).op = "put"
    BY Operations DEF Put
  <2> QED
    BY <2>1, <2>2 DEF Step, OpLeads
<1>2. Step(c, AgcReady(i), Put("agc", 3, ParamsOf(c)[i].code), AgcToldOf(i))
  <2>1. RoundsOf(c)[i].code = ParamsOf(c)[i].code /\ ParamsOf(c)[i].code \in Nat /\ LastOf(c) \in Nat
    BY ConfLast, ConfRound
  <2>2. i \in 1 .. LastOf(c) + 1
    BY <2>1
  <2>3. AgcLeads(c, AgcReady(i), Put("agc", 3, RoundsOf(c)[i].code), AgcToldOf(i))
    BY <2>2 DEF AgcLeads, AgcTop, AgcHear, AgcShow, AgcTell
  <2>4. Put("agc", 3, ParamsOf(c)[i].code) \in Operation /\ Put("agc", 3, ParamsOf(c)[i].code).op = "put"
    BY <2>1, Operations DEF Put
  <2> QED
    BY <2>1, <2>3, <2>4 DEF Step, OpLeads
<1>3. Step(c, AgcToldOf(i), Await("agc", ParamsOf(c)[i].status), AgcCheck(i, 0))
  <2>1. ParamsOf(c)[i].status \in Nat
    BY ConfRounds
  <2>2. AgcLeads(c, AgcToldOf(i), Await("agc", ParamsOf(c)[i].status), AgcCheck(i, 0))
    BY DEF AgcLeads, AgcTop, AgcHear, AgcShow, AgcTell
  <2>3. Await("agc", ParamsOf(c)[i].status) \in Operation /\ Await("agc", ParamsOf(c)[i].status).op = "await"
    BY <2>1, Operations DEF Await
  <2> QED
    BY <2>2, <2>3 DEF Step, OpLeads
<1>4. ASSUME NEW j \in 1 .. Len(ParamsOf(c)[i].check)
      PROVE  Step(c, AgcCheck(i, j - 1), Check("agc", j - 1, ParamsOf(c)[i].check[j], ParamsOf(c)[i].how),
                  IF j = Len(ParamsOf(c)[i].check) THEN AgcReady(i + 1) ELSE AgcCheck(i, j))
  <2>1. ParamsOf(c)[i].check[j] \in Nat /\ j \in 1 .. 3
    <3>1. Len(ParamsOf(c)[i].check) \in 1 .. 3
      BY ConfRounds
    <3>2. ParamsOf(c)[i].check[j] \in Nat
      BY ConfRounds
    <3> QED
      BY <3>1, <3>2
  <2>2. AgcLeads(c, AgcCheck(i, j - 1), Check("agc", j - 1, ParamsOf(c)[i].check[j], ParamsOf(c)[i].how),
                 IF j = Len(ParamsOf(c)[i].check) THEN AgcReady(i + 1) ELSE AgcCheck(i, j))
    BY DEF AgcLeads, AgcTop, AgcHear, AgcShow, AgcTell
  <2>3. /\ Check("agc", j - 1, ParamsOf(c)[i].check[j], ParamsOf(c)[i].how) \in Operation
        /\ Check("agc", j - 1, ParamsOf(c)[i].check[j], ParamsOf(c)[i].how).op = "check"
    <3>1. j - 1 \in 0 .. 3
      BY <2>1
    <3>2. ParamsOf(c)[i].how \in {"number", "flag"}
      BY ConfRounds
    <3> QED
      BY <2>1, <3>1, <3>2, Operations DEF Check
  <2> QED
    BY <2>2, <2>3 DEF Step, OpLeads
<1> QED
  BY <1>1, <1>2, <1>3, <1>4

\* An exchange leads from the round it tells of to the next.
LEMMA ExchangeLeads ==
    ASSUME NEW c, NEW i \in 1 .. LastOf(c)
    PROVE  Leads(c, Exchange(ParamsOf(c)[i]), AgcReady(i), AgcReady(i + 1))
<1>1. PICK p : p = ParamsOf(c)[i]
  OBVIOUS
<1>2. PICK l \in 1 .. 3 : l = Len(p.put)
  BY <1>1, ConfRounds
<1>3. PICK n \in 1 .. 3 : n = Len(p.check)
  BY <1>1, ConfRounds
<1> DEFINE puts == [k \in 1 .. l |-> Put("agc", k - 1, p.put[k])]
           checks == [k \in 1 .. n |-> Check("agc", k - 1, p.check[k], p.how)]
           tell == <<Put("agc", 3, p.code), Await("agc", p.status)>>
<1>4. Leads(c, puts, AgcReady(i), AgcReady(i))
  <2> DEFINE f == [k \in 1 .. l + 1 |-> AgcReady(i)]
  <2>1. Len(puts) = l /\ DOMAIN puts = 1 .. l /\ f[1] = AgcReady(i) /\ f[l + 1] = AgcReady(i)
    OBVIOUS
  <2>2. ASSUME NEW k \in 1 .. l PROVE Step(c, f[k], puts[k], f[k + 1])
    <3>1. f[k] = AgcReady(i) /\ f[k + 1] = AgcReady(i) /\ puts[k] = Put("agc", k - 1, p.put[k]) /\ k - 1 \in 0 .. 2
      OBVIOUS
    <3>2. p.put[k] \in Nat
      BY <1>1, <1>2, ConfRounds
    <3>3. ASSUME i = LastOf(c) PROVE p.put[k] # 255
      <4>1. l = 1 /\ k = 1
        <5>1. Len(ParamsOf(c)[LastOf(c)].put) = 1
          BY ConfRounds
        <5> QED
          BY <1>1, <1>2, <3>3, <5>1
      <4>2. p.put[1] = p.check[1]
        <5>1. \A m \in 1 .. Len(ParamsOf(c)[i].put) : ParamsOf(c)[i].put[m] = ParamsOf(c)[i].check[m]
          BY ConfMatch
        <5> QED
          BY <1>1, <1>2, <4>1, <5>1
      <4>3. p.check[1] = Lbt(c)
        BY <1>1, <3>3, ConfRounds
      <4> QED
        BY <4>1, <4>2, <4>3 DEF Lbt
    <3> QED
      BY <3>1, <3>2, <3>3, AgcSteps
  <2>3. puts \in [1 .. l -> Operation]
    BY <2>2 DEF Step
  <2> HIDE DEF puts, f
  <2>4. Leads(c, puts, f[1], f[l + 1])
    <3>1. l \in Nat /\ Len(puts) = l /\ DOMAIN puts = 1 .. l
      BY <2>1
    <3>2. \A k \in 1 .. l : Step(c, f[k], puts[k], f[k + 1])
      BY <2>2
    <3> QED
      BY <2>3, <3>1, <3>2, Straight
  <2> QED
    BY <2>1, <2>4
<1>5. Leads(c, tell, AgcReady(i), AgcCheck(i, 0))
  <2>1. Step(c, AgcReady(i), Put("agc", 3, p.code), AgcToldOf(i)) /\ Step(c, AgcToldOf(i), Await("agc", p.status), AgcCheck(i, 0))
    BY <1>1, AgcSteps
  <2>2. Leads(c, <<Put("agc", 3, p.code)>>, AgcReady(i), AgcToldOf(i)) /\ Leads(c, <<Await("agc", p.status)>>, AgcToldOf(i), AgcCheck(i, 0))
    BY <2>1, OneOperation DEF Step
  <2>3. Leads(c, <<Put("agc", 3, p.code)>> \o <<Await("agc", p.status)>>, AgcReady(i), AgcCheck(i, 0))
    BY <2>2, Join
  <2>4. tell = <<Put("agc", 3, p.code)>> \o <<Await("agc", p.status)>>
    OBVIOUS
  <2> QED
    BY <2>3, <2>4
<1>6. Leads(c, checks, AgcCheck(i, 0), AgcReady(i + 1))
  <2> DEFINE f == [k \in 1 .. n + 1 |-> IF k = n + 1 THEN AgcReady(i + 1) ELSE AgcCheck(i, k - 1)]
  <2>1. Len(checks) = n /\ DOMAIN checks = 1 .. n /\ f[1] = AgcCheck(i, 0) /\ f[n + 1] = AgcReady(i + 1)
    OBVIOUS
  <2>2. ASSUME NEW k \in 1 .. n PROVE Step(c, f[k], checks[k], f[k + 1])
    <3>1. /\ f[k] = AgcCheck(i, k - 1) /\ f[k + 1] = IF k = n THEN AgcReady(i + 1) ELSE AgcCheck(i, k)
          /\ checks[k] = Check("agc", k - 1, p.check[k], p.how)
      OBVIOUS
    <3> QED
      BY <1>1, <1>3, <3>1, AgcSteps
  <2>3. checks \in [1 .. n -> Operation]
    BY <2>2 DEF Step
  <2> HIDE DEF checks, f
  <2>4. Leads(c, checks, f[1], f[n + 1])
    <3>1. n \in Nat /\ Len(checks) = n /\ DOMAIN checks = 1 .. n
      BY <2>1
    <3>2. \A k \in 1 .. n : Step(c, f[k], checks[k], f[k + 1])
      BY <2>2
    <3> QED
      BY <2>3, <3>1, <3>2, Straight
  <2> QED
    BY <2>1, <2>4
<1>7. Exchange(p) = (puts \o tell) \o checks
  BY <1>2, <1>3 DEF Exchange
<1> HIDE DEF puts, tell, checks
<1>8. Leads(c, puts \o tell, AgcReady(i), AgcCheck(i, 0))
  BY <1>4, <1>5, Join
<1>9. Leads(c, (puts \o tell) \o checks, AgcReady(i), AgcReady(i + 1))
  BY <1>6, <1>8, Join
<1> QED
  BY <1>1, <1>7, <1>9

\* sx1302_agc_start leads to the last round, told.
LEMMA AgcStartLeads ==
    ASSUME NEW c
    PROVE  Leads(c, AgcStart(c.type[c.clksrc], IF c.fdd THEN 1 ELSE 0, IF c.lbt THEN 1 ELSE 0),
                 AgcBoot, AgcToldOf(LastOf(c) + 1))
<1>1. PICK n \in Nat \ {0} : n = LastOf(c)
  BY ConfRounds
<1>2. PICK type : type = c.type[c.clksrc]
  OBVIOUS
<1> DEFINE head == <<Await("agc", 1), Check("agc", 0, AgcVersion(type), "number")>>
           s == [i \in 1 .. Len(ParamsOf(c)) |-> Exchange(ParamsOf(c)[i])]
           g == [i \in 1 .. n + 1 |-> AgcReady(i)]
<1>3. Leads(c, head, AgcBoot, AgcReady(1))
  <2>1. AgcVersion(type) \in Nat
    BY DEF AgcVersion
  <2>2. Await("agc", 1) \in Operation /\ Check("agc", 0, AgcVersion(type), "number") \in Operation
    BY <2>1, Operations
  <2>3. AgcLeads(c, AgcBoot, Await("agc", 1), AgcReady(1)) /\ AgcLeads(c, AgcReady(1), Check("agc", 0, AgcVersion(type), "number"), AgcReady(1))
    BY DEF AgcLeads, AgcTop, AgcHear, AgcShow, AgcTell, Check
  <2>4. Await("agc", 1).op = "await" /\ Check("agc", 0, AgcVersion(type), "number").op = "check"
    BY DEF Await, Check
  <2>5. Leads(c, <<Await("agc", 1)>>, AgcBoot, AgcReady(1)) /\ Leads(c, <<Check("agc", 0, AgcVersion(type), "number")>>, AgcReady(1), AgcReady(1))
    BY <2>2, <2>3, <2>4, OneOperation DEF OpLeads
  <2>6. Leads(c, <<Await("agc", 1)>> \o <<Check("agc", 0, AgcVersion(type), "number")>>, AgcBoot, AgcReady(1))
    BY <2>5, Join
  <2>7. head = <<Await("agc", 1)>> \o <<Check("agc", 0, AgcVersion(type), "number")>>
    OBVIOUS
  <2> QED
    BY <2>6, <2>7
<1>4. Leads(c, FlattenSeq(s), AgcReady(1), AgcReady(n + 1))
  <2>1. Len(s) = n /\ \A i \in 1 .. n : s[i] = Exchange(ParamsOf(c)[i])
    BY <1>1 DEF LastOf
  <2>2. \A i \in 1 .. n : g[i] = AgcReady(i) /\ g[i + 1] = AgcReady(i + 1)
    OBVIOUS
  <2>3. g[1] = AgcReady(1) /\ g[n + 1] = AgcReady(n + 1)
    OBVIOUS
  <2> HIDE DEF s, g
  <2>4. Each(c, s, g)
    BY <1>1, <2>1, <2>2, ExchangeLeads DEF Each
  <2>5. Len(s) \in Nat \ {0}
    BY <2>1
  <2>6. Leads(c, FlattenSeq(s), g[1], g[Len(s) + 1])
    BY <2>4, <2>5, Flat
  <2> QED
    BY <2>1, <2>3, <2>6
<1>5. Leads(c, <<Put("agc", 3, 15)>>, AgcReady(n + 1), AgcToldOf(n + 1))
  <2>1. RoundsOf(c)[n + 1].code = 15 /\ n + 1 \in 1 .. LastOf(c) + 1
    BY <1>1, ConfRounds
  <2>2. AgcLeads(c, AgcReady(n + 1), Put("agc", 3, 15), AgcToldOf(n + 1))
    <3>1. AgcLeads(c, AgcReady(n + 1), Put("agc", 3, RoundsOf(c)[n + 1].code), AgcToldOf(n + 1))
      BY <2>1 DEF AgcLeads, AgcTop, AgcHear, AgcShow, AgcTell
    <3> QED
      BY <2>1, <3>1
  <2>3. Put("agc", 3, 15) \in Operation /\ Put("agc", 3, 15).op = "put"
    BY Operations DEF Put
  <2> QED
    BY <2>2, <2>3, OneOperation DEF OpLeads
<1>6. AgcStart(type, IF c.fdd THEN 1 ELSE 0, IF c.lbt THEN 1 ELSE 0) = head \o FlattenSeq(s) \o <<Put("agc", 3, 15)>>
  BY <1>2 DEF AgcStart, ParamsOf
<1> HIDE DEF head, s
<1>7. Leads(c, head \o FlattenSeq(s), AgcBoot, AgcReady(n + 1))
  BY <1>3, <1>4, Join
<1>8. Leads(c, head \o FlattenSeq(s) \o <<Put("agc", 3, 15)>>, AgcBoot, AgcToldOf(n + 1))
  BY <1>5, <1>7, Join
<1> QED
  BY <1>1, <1>2, <1>6, <1>8

\* sx1302_arb_start leads to the arbiter told its mode.
LEMMA ArbStartLeads ==
    ASSUME NEW c, c.ftime \in {"off", "all", "high"}
    PROVE  Leads(c, ArbStart(c.ftime), ArbAt(1), ArbAt(8))
<1> DEFINE f == [k \in 1 .. 8 |-> ArbAt(k)]
<1>1. PICK s : s = ArbStart(c.ftime)
  OBVIOUS
<1>2. ArbDualDemod(c.ftime) \in Nat
  BY DEF ArbDualDemod
<1>3. /\ Len(s) = 7 /\ DOMAIN s = 1 .. 7
      /\ s[1] = Await("arb", 1) /\ s[2] = Check("arb", 0, ArbVersion, "number") /\ s[3] = Put("arb", 0, 7)
      /\ s[4] = Put("arb", 3, ArbDualDemod(c.ftime)) /\ s[5] = Put("arb", 2, 3) /\ s[6] = Put("arb", 1, 1)
      /\ s[7] = Await("arb", 0)
  BY <1>1 DEF ArbStart
<1>4. s = [k \in 1 .. 7 |-> s[k]]
  BY <1>1 DEF ArbStart
<1>5. \A k \in 1 .. 7 : k = 1 \/ k = 2 \/ k = 3 \/ k = 4 \/ k = 5 \/ k = 6 \/ k = 7
  OBVIOUS
<1>6. \A k \in 1 .. 7 : s[k] \in Operation /\ s[k].op \notin {"locked", "judge"}
  <2>1. /\ Await("arb", 1) \in Operation /\ Check("arb", 0, ArbVersion, "number") \in Operation /\ Put("arb", 0, 7) \in Operation
        /\ Put("arb", 3, ArbDualDemod(c.ftime)) \in Operation /\ Put("arb", 2, 3) \in Operation
        /\ Put("arb", 1, 1) \in Operation /\ Await("arb", 0) \in Operation
    BY <1>2, Operations DEF ArbVersion
  <2>2. \A b, v, how : Await("arb", v).op = "await" /\ Check("arb", b, v, how).op = "check" /\ Put("arb", b, v).op = "put"
    BY DEF Await, Check, Put
  <2> QED
    BY <1>3, <1>5, <2>1, <2>2
<1>7. ASSUME NEW k \in 1 .. 7 PROVE Step(c, f[k], s[k], f[k + 1])
  <2>1. f[k] = ArbAt(k) /\ f[k + 1] = ArbAt(k + 1)
    OBVIOUS
  <2>2. ArbLeads(c, ArbAt(k), s[k], ArbAt(k + 1))
    BY <1>1 DEF ArbLeads
  <2> QED
    BY <1>6, <2>1, <2>2 DEF Step, OpLeads
<1>8. s \in [1 .. 7 -> Operation]
  BY <1>4, <1>6
<1>9. f[1] = ArbAt(1) /\ f[7 + 1] = ArbAt(8)
  OBVIOUS
<1> HIDE DEF f
<1>10. Leads(c, s, f[1], f[7 + 1])
  BY <1>3, <1>7, <1>8, Straight
<1> QED
  BY <1>1, <1>9, <1>10

\* Functions that load no firmware change no note.
Doing == {Do(what) : what \in Called \ Loads}

Doings(s) == s \in Seq(Doing)

\* Sequences of functions that load no firmware.
LEMMA AllDoings ==
    /\ Doings(<<>>)
    /\ \A p \in Doing : Doings(<<p>>)
    /\ \A p, q \in Doing : Doings(<<p, q>>)
    /\ \A p, q, r \in Doing : Doings(<<p, q, r>>)
    /\ \A p, q, r, s \in Doing : Doings(<<p, q, r, s>>)
    /\ \A p, q, r, s, t, u \in Doing : Doings(<<p, q, r, s, t, u>>)
BY DEF Doings

\* They lead from any note to itself.
LEMMA DoingLeads ==
    ASSUME NEW c, NEW s, Doings(s), NEW a
    PROVE  Leads(c, s, a, a)
<1>0. s \in Seq(Doing)
  BY DEF Doings
<1>1. PICK n \in Nat : n = Len(s)
  BY <1>0
<1> DEFINE f == [k \in 1 .. n + 1 |-> a]
<1>2. \A op \in Doing : Step(c, a, op, a)
  <2> SUFFICES ASSUME NEW what \in Called \ Loads PROVE Step(c, a, Do(what), a)
    BY DEF Doing
  <2>1. Do(what) \in Operation /\ Do(what).op = "do" /\ Do(what).what = what
    BY Operations DEF Do
  <2> QED
    BY <2>1 DEF Step, OpLeads, DoLeads
<1>3. \A k \in 1 .. n : s[k] \in Doing
  BY <1>0, <1>1
<1>4. \A k \in 1 .. n : f[k] = a /\ f[k + 1] = a
  OBVIOUS
<1>5. f[1] = a /\ f[n + 1] = a
  OBVIOUS
<1>6. s \in [1 .. n -> Operation] /\ DOMAIN s = 1 .. n
  <2>1. \A k \in 1 .. n : s[k] \in Operation
    BY <1>2, <1>3 DEF Step
  <2>2. s \in [1 .. n -> Doing]
    BY <1>0, <1>1
  <2> QED
    BY <2>1, <2>2
<1> HIDE DEF f
<1>7. Leads(c, s, f[1], f[n + 1])
  BY <1>1, <1>2, <1>3, <1>4, <1>6, Straight
<1> QED
  BY <1>5, <1>7

\* The same, done for each radio in use.
LEMMA PairLeads ==
    ASSUME NEW c, NEW s, Doings(s), NEW t, Doings(t), NEW a
    PROVE  \A seqs : Len(seqs) = 2 /\ seqs[1] = s /\ seqs[2] = t => Leads(c, FlattenSeq(seqs), a, a)
<1> SUFFICES ASSUME NEW seqs, Len(seqs) = 2, seqs[1] = s, seqs[2] = t PROVE Leads(c, FlattenSeq(seqs), a, a)
  OBVIOUS
<1> DEFINE g == [k \in 1 .. 3 |-> a]
<1>1. g[1] = a /\ g[2] = a /\ g[3] = a
  OBVIOUS
<1> HIDE DEF g
<1>2. Leads(c, s, a, a) /\ Leads(c, t, a, a)
  BY DoingLeads
<1>3. \A i \in 1 .. 2 : i = 1 \/ i = 2
  OBVIOUS
<1>4. Leads(c, seqs[1], g[1], g[1 + 1]) /\ Leads(c, seqs[2], g[2], g[2 + 1])
  BY <1>1, <1>2
<1>5. Each(c, seqs, g)
  BY <1>3, <1>4 DEF Each
<1>6. Len(seqs) \in Nat \ {0} /\ g[Len(seqs) + 1] = a
  BY <1>1
<1>7. Leads(c, FlattenSeq(seqs), g[1], g[Len(seqs) + 1])
  BY <1>5, <1>6, Flat
<1> QED
  BY <1>1, <1>6, <1>7

\* sx1302_radio_calibrate: with sx1250 radios no firmware is loaded.
LEMMA CalibrateLeads ==
    ASSUME NEW c \in Configuration
    PROVE  Leads(c, Calibrate(c), Off, Off) \/ Leads(c, Calibrate(c), Off, CalIdle)
<1>1. c.gains \in Nat
  BY DEF Configuration
<1>2. PICK r : r = FlattenSeq([i \in 1 .. 2 |-> IF c.enable[i - 1] THEN <<Do("reset radio"), Do("radio mode")>> ELSE <<>>])
  OBVIOUS
<1>3. PICK q : q = FlattenSeq([i \in 1 .. 2 |-> IF c.enable[i - 1] THEN <<Do("calibrate sx1250")>> ELSE <<>>])
  OBVIOUS
<1>4. \A what \in Called \ Loads : Do(what) \in Doing
  BY DEF Doing
<1>5. Leads(c, r, Off, Off)
  <2> DEFINE seqs == [i \in 1 .. 2 |-> IF c.enable[i - 1] THEN <<Do("reset radio"), Do("radio mode")>> ELSE <<>>]
  <2>1. Len(seqs) = 2
    OBVIOUS
  <2>2. Do("reset radio") \in Doing /\ Do("radio mode") \in Doing
    BY <1>4 DEF Loads, Called
  <2>3. Doings(seqs[1]) /\ Doings(seqs[2])
    <3>1. seqs[1] \in {<<>>, <<Do("reset radio"), Do("radio mode")>>} /\ seqs[2] \in {<<>>, <<Do("reset radio"), Do("radio mode")>>}
      OBVIOUS
    <3>2. Doings(<<>>) /\ Doings(<<Do("reset radio"), Do("radio mode")>>)
      BY <2>2, AllDoings
    <3> HIDE DEF seqs
    <3> QED
      BY <3>1, <3>2
  <2> HIDE DEF seqs
  <2>4. Leads(c, FlattenSeq(seqs), Off, Off)
    BY <2>1, <2>3, PairLeads
  <2> QED
    BY <1>2, <2>4 DEF seqs
<1>6. Leads(c, q, Off, Off)
  <2> DEFINE seqs == [i \in 1 .. 2 |-> IF c.enable[i - 1] THEN <<Do("calibrate sx1250")>> ELSE <<>>]
  <2>1. Len(seqs) = 2
    OBVIOUS
  <2>2. Do("calibrate sx1250") \in Doing
    BY <1>4 DEF Loads, Called
  <2>3. Doings(seqs[1]) /\ Doings(seqs[2])
    <3>1. seqs[1] \in {<<>>, <<Do("calibrate sx1250")>>} /\ seqs[2] \in {<<>>, <<Do("calibrate sx1250")>>}
      OBVIOUS
    <3>2. Doings(<<>>) /\ Doings(<<Do("calibrate sx1250")>>)
      BY <2>2, AllDoings
    <3> HIDE DEF seqs
    <3> QED
      BY <3>1, <3>2
  <2> HIDE DEF seqs
  <2>4. Leads(c, FlattenSeq(seqs), Off, Off)
    BY <2>1, <2>3, PairLeads
  <2> QED
    BY <1>3, <2>4 DEF seqs
<1>7. \A a : Leads(c, <<Do("clock select")>>, a, a) /\ Leads(c, <<Do("release front end")>>, a, a)
  <2>1. Doings(<<Do("clock select")>>) /\ Doings(<<Do("release front end")>>)
    <3>1. Do("clock select") \in Doing /\ Do("release front end") \in Doing
      BY <1>4 DEF Loads, Called
    <3> QED
      BY <3>1, AllDoings
  <2> QED
    BY <2>1, DoingLeads
<1>8. Leads(c, <<Do("load cal")>>, Off, CalBoot)
  <2>1. Do("load cal") \in Operation /\ Do("load cal").op = "do" /\ Do("load cal").what = "load cal"
    BY Operations DEF Do, Called
  <2> QED
    BY <2>1, OneOperation DEF OpLeads, DoLeads
<1>9. PICK u : u = <<Do("load cal")>> \o CalStart(c)
  OBVIOUS
<1>10. Leads(c, u, Off, CalIdle)
  BY <1>1, <1>8, <1>9, CalStartLeads, Join
<1>11. \/ Calibrate(c) = r \o <<Do("clock select")>> \o q \o <<Do("release front end")>>
       \/ Calibrate(c) = r \o <<Do("clock select")>> \o u \o <<Do("release front end")>>
  BY <1>2, <1>3, <1>9 DEF Calibrate, ForEnabled
<1>12. Leads(c, r \o <<Do("clock select")>>, Off, Off)
  BY <1>5, <1>7, Join
<1>13. Leads(c, r \o <<Do("clock select")>> \o q, Off, Off)
  BY <1>6, <1>12, Join
<1>14. Leads(c, r \o <<Do("clock select")>> \o u, Off, CalIdle)
  BY <1>10, <1>12, Join
<1>15. Leads(c, r \o <<Do("clock select")>> \o q \o <<Do("release front end")>>, Off, Off)
  BY <1>7, <1>13, Join
<1>16. Leads(c, r \o <<Do("clock select")>> \o u \o <<Do("release front end")>>, Off, CalIdle)
  BY <1>7, <1>14, Join
<1> QED
  BY <1>11, <1>15, <1>16

\* The radios are set up; no note changes.
LEMMA SetupRadiosLeads ==
    ASSUME NEW c, NEW a
    PROVE  Leads(c, SetupRadios(c), a, a)
<1> DEFINE seqs == [i \in 1 .. 2 |-> IF c.enable[i - 1] THEN <<Do("reset radio"), Do("setup radio"), Do("radio mode")>> ELSE <<>>]
           tail == <<Do("clock select"), Do("release radios")>>
<1>1. \A what \in Called \ Loads : Do(what) \in Doing
  BY DEF Doing
<1>2. /\ Do("reset radio") \in Doing /\ Do("setup radio") \in Doing /\ Do("radio mode") \in Doing
      /\ Do("clock select") \in Doing /\ Do("release radios") \in Doing
  BY <1>1 DEF Loads, Called
<1>3. Len(seqs) = 2
  OBVIOUS
<1>4. Doings(seqs[1]) /\ Doings(seqs[2]) /\ Doings(tail)
  <2>1. seqs[1] \in {<<>>, <<Do("reset radio"), Do("setup radio"), Do("radio mode")>>}
    OBVIOUS
  <2>2. seqs[2] \in {<<>>, <<Do("reset radio"), Do("setup radio"), Do("radio mode")>>}
    OBVIOUS
  <2>3. /\ Doings(<<>>) /\ Doings(<<Do("reset radio"), Do("setup radio"), Do("radio mode")>>)
        /\ Doings(<<Do("clock select"), Do("release radios")>>)
    BY <1>2, AllDoings
  <2> HIDE DEF seqs
  <2> QED
    BY <2>1, <2>2, <2>3
<1>5. SetupRadios(c) = FlattenSeq(seqs) \o tail
  BY DEF SetupRadios, ForEnabled
<1> HIDE DEF seqs, tail
<1>6. Leads(c, FlattenSeq(seqs), a, a)
  BY <1>3, <1>4, PairLeads
<1>7. Leads(c, tail, a, a)
  BY <1>4, DoingLeads
<1> QED
  BY <1>5, <1>6, <1>7, Join

\* The modems are configured; no note changes.
LEMMA ModemsLeads ==
    ASSUME NEW c, NEW a
    PROVE  Leads(c, Modems(c), a, a)
<1> DEFINE p == <<Do("init"), Do("pa lna lut"), Do("radio fe"), Do("channelizer"), Do("correlators"), Do("modems")>>
           q == IF c.service THEN <<Do("service correlator"), Do("service modem")>> ELSE <<>>
           r == IF c.fsk THEN <<Do("fsk")>> ELSE <<>>
           s == <<Do("syncword"), Do("enable modems")>>
<1>1. \A what \in Called \ Loads : Do(what) \in Doing
  BY DEF Doing
<1>2. Doings(p)
  <2>1. /\ Do("init") \in Doing /\ Do("pa lna lut") \in Doing /\ Do("radio fe") \in Doing
        /\ Do("channelizer") \in Doing /\ Do("correlators") \in Doing /\ Do("modems") \in Doing
    BY <1>1 DEF Loads, Called
  <2> QED
    BY <2>1, AllDoings
<1>3. Doings(q) /\ Doings(r) /\ Doings(s)
  <2>1. /\ Do("service correlator") \in Doing /\ Do("service modem") \in Doing /\ Do("fsk") \in Doing
        /\ Do("syncword") \in Doing /\ Do("enable modems") \in Doing
    BY <1>1 DEF Loads, Called
  <2> QED
    BY <2>1, AllDoings
<1>4. Modems(c) = p \o q \o r \o s
  BY DEF Modems
<1> HIDE DEF p, q, r, s
<1>5. Leads(c, p, a, a) /\ Leads(c, q, a, a) /\ Leads(c, r, a, a) /\ Leads(c, s, a, a)
  BY <1>2, <1>3, DoingLeads
<1>6. Leads(c, p \o q, a, a)
  BY <1>5, Join
<1>7. Leads(c, p \o q \o r, a, a)
  BY <1>5, <1>6, Join
<1>8. Leads(c, p \o q \o r \o s, a, a)
  BY <1>5, <1>7, Join
<1> QED
  BY <1>4, <1>8

\* The AGC and the arbiter firmware are loaded and started.
LEMMA McusLeads ==
    ASSUME NEW c, c.ftime \in {"off", "all", "high"}, NEW a \in {Off, CalIdle}
    PROVE  Leads(c, Mcus(c), a, ArbAt(8))
<1>1. PICK g : g = AgcStart(c.type[c.clksrc], IF c.fdd THEN 1 ELSE 0, IF c.lbt THEN 1 ELSE 0)
  OBVIOUS
<1>2. Leads(c, <<Do("load agc")>>, a, AgcBoot) /\ Leads(c, <<Do("load arb")>>, AgcToldOf(LastOf(c) + 1), ArbAt(1))
  <2>1. \A what \in Called : Do(what) \in Operation /\ Do(what).op = "do" /\ Do(what).what = what
    BY Operations DEF Do
  <2> QED
    BY <2>1, OneOperation DEF OpLeads, DoLeads, Called
<1>3. Mcus(c) = <<Do("load agc")>> \o g \o <<Do("load arb")>> \o ArbStart(c.ftime)
  BY <1>1 DEF Mcus
<1>4. Leads(c, <<Do("load agc")>> \o g, a, AgcToldOf(LastOf(c) + 1))
  BY <1>1, <1>2, AgcStartLeads, Join
<1>5. Leads(c, <<Do("load agc")>> \o g \o <<Do("load arb")>>, a, ArbAt(1))
  BY <1>2, <1>4, Join
<1>6. Leads(c, <<Do("load agc")>> \o g \o <<Do("load arb")>> \o ArbStart(c.ftime), a, ArbAt(8))
  <2>1. PICK h : h = <<Do("load agc")>> \o g \o <<Do("load arb")>>
    OBVIOUS
  <2>2. Leads(c, h, a, ArbAt(1)) /\ Leads(c, ArbStart(c.ftime), ArbAt(1), ArbAt(8))
    <3>1. Leads(c, h, a, ArbAt(1))
      BY <1>5, <2>1
    <3> QED
      BY <3>1, ArbStartLeads
  <2>3. Leads(c, h \o ArbStart(c.ftime), a, ArbAt(8))
    BY <2>2, Join
  <2> QED
    BY <2>1, <2>3
<1> QED
  BY <1>3, <1>6

\* The end of lgw_start; no note changes.
LEMMA EndingLeads ==
    ASSUME NEW c, NEW a
    PROVE  Leads(c, Ending(c), a, a)
<1> DEFINE p == <<Do("tx configure"), Do("gps"), Do("i2c")>>
           q == IF c.fdd THEN <<Do("dac"), Do("dac 0V")>> ELSE <<>>
           r == IF c.lbt THEN <<Do("sx1261 connect"), Do("sx1261 pram"), Do("sx1261 calibrate"), Do("sx1261 setup")>> ELSE <<>>
           s == <<Do("gpio 1")>>
<1>1. \A what \in Called \ Loads : Do(what) \in Doing
  BY DEF Doing
<1>2. Doings(p) /\ Doings(q) /\ Doings(s)
  <2>1. /\ Do("tx configure") \in Doing /\ Do("gps") \in Doing /\ Do("i2c") \in Doing
        /\ Do("dac") \in Doing /\ Do("dac 0V") \in Doing /\ Do("gpio 1") \in Doing
    BY <1>1 DEF Loads, Called
  <2> QED
    BY <2>1, AllDoings
<1>3. Doings(r)
  <2>1. /\ Do("sx1261 connect") \in Doing /\ Do("sx1261 pram") \in Doing
        /\ Do("sx1261 calibrate") \in Doing /\ Do("sx1261 setup") \in Doing
    BY <1>1 DEF Loads, Called
  <2> QED
    BY <2>1, AllDoings
<1>4. Ending(c) = p \o q \o r \o s
  BY DEF Ending
<1> HIDE DEF p, q, r, s
<1>5. Leads(c, p, a, a) /\ Leads(c, q, a, a) /\ Leads(c, r, a, a) /\ Leads(c, s, a, a)
  BY <1>2, <1>3, DoingLeads
<1>6. Leads(c, p \o q, a, a)
  BY <1>5, Join
<1>7. Leads(c, p \o q \o r, a, a)
  BY <1>5, <1>6, Join
<1>8. Leads(c, p \o q \o r \o s, a, a)
  BY <1>5, <1>7, Join
<1> QED
  BY <1>4, <1>8

\* Every operation of lgw_start is well formed, and what the host waits for, checks and
\* reads is, at each of them, what the firmware has reached when it has been told what came
\* before: from concentrator off to arbiter told, for every configuration.
THEOREM StartScriptLeads ==
    ASSUME NEW c \in Configuration
    PROVE  Leads(c, StartScript(c), Off, ArbAt(8))
<1>1. PICK a \in {Off, CalIdle} : Leads(c, Calibrate(c), Off, a)
  BY CalibrateLeads
<1>2. c.ftime \in {"off", "all", "high"}
  BY DEF Configuration
<1>3. PICK h : h = <<Do("connect"), Do("gpio 0")>>
  OBVIOUS
<1>4. Leads(c, h, Off, Off)
  <2>1. Do("connect") \in Doing /\ Do("gpio 0") \in Doing
    BY DEF Doing, Loads, Called
  <2>2. Doings(h)
    BY <1>3, <2>1, AllDoings
  <2> QED
    BY <2>2, DoingLeads
<1>5. Leads(c, h \o Calibrate(c), Off, a)
  BY <1>1, <1>4, Join
<1>6. Leads(c, h \o Calibrate(c) \o SetupRadios(c), Off, a)
  BY <1>5, SetupRadiosLeads, Join
<1>7. Leads(c, h \o Calibrate(c) \o SetupRadios(c) \o Modems(c), Off, a)
  BY <1>6, ModemsLeads, Join
<1>8. Leads(c, h \o Calibrate(c) \o SetupRadios(c) \o Modems(c) \o Mcus(c), Off, ArbAt(8))
  BY <1>2, <1>7, McusLeads, Join
<1>9. Leads(c, h \o Calibrate(c) \o SetupRadios(c) \o Modems(c) \o Mcus(c) \o Ending(c), Off, ArbAt(8))
  BY <1>8, EndingLeads, Join
<1> QED
  BY <1>3, <1>9 DEF StartScript

-----------------------------------------------------------------------------
(* The script of a configuration and its notes.                              *)

\* The script kept for a configuration is its script.
LEMMA ScriptIs ==
    ASSUME NEW c \in Configurations
    PROVE  Script[c] = StartScript(c)
<1> DEFINE run(iter) == iter = [s \in SUBSET {c} |-> IF s = {} THEN <<>> ELSE LET x == CHOOSE y \in s : TRUE IN StartScript(x)]
<1>1. \E iter : run(iter)
  OBVIOUS
<1>2. (CHOOSE iter : run(iter))[{c}] = StartScript(c)
  <2> DEFINE it == CHOOSE iter : run(iter)
  <2>1. run(it)
    BY <1>1
  <2>2. {c} \in SUBSET {c} /\ {c} # {} /\ (CHOOSE y \in {c} : TRUE) = c
    OBVIOUS
  <2> QED
    BY <2>1, <2>2
<1>3. Script[c] = (CHOOSE iter : run(iter))[{c}]
  BY DEF Script, MapThenFoldSet
<1> QED
  BY <1>2, <1>3

\* The notes of the script of c.
NotesOf(c) == CHOOSE f : f[1] = Off /\ f[Len(Script[c]) + 1] = ArbAt(8) /\ Annotates(c, f, Script[c])

\* The note before the operation it is at, and after it.
Here(c, k) == NotesOf(c)[k]

\* It has notes: each operation leads from its own to the next.
LEMMA ScriptNotes ==
    ASSUME NEW c \in Configurations
    PROVE  /\ Script[c] \in Seq(Operation)
           /\ Here(c, 1) = Off /\ Here(c, Len(Script[c]) + 1) = ArbAt(8)
           /\ \A k \in 1 .. Len(Script[c]) :
                /\ Script[c][k] \in Operation
                /\ OpLeads(c, Here(c, k), Script[c][k], Here(c, k + 1))
                /\ Script[c][k].op \in {"locked", "judge"} =>
                     /\ k + 1 + Script[c][k].count <= Len(Script[c]) + 1
                     /\ Here(c, k + 1 + Script[c][k].count) = Here(c, k)
<1>1. Leads(c, Script[c], Off, ArbAt(8))
  BY ConfigurationAssumption, ScriptIs, StartScriptLeads
<1>2. PICK s : s = Script[c]
  OBVIOUS
<1>3. s \in Seq(Operation) /\ \E f : f[1] = Off /\ f[Len(s) + 1] = ArbAt(8) /\ Annotates(c, f, s)
  BY <1>1, <1>2 DEF Leads
<1>4. PICK f : f = NotesOf(c)
  OBVIOUS
<1>5. f[1] = Off /\ f[Len(s) + 1] = ArbAt(8) /\ Annotates(c, f, s)
  BY <1>2, <1>3, <1>4 DEF NotesOf
<1>6. \A k \in 1 .. Len(s) : s[k] \in Operation
  BY <1>3
<1>7. \A k \in 1 .. Len(s) :
        /\ OpLeads(c, f[k], s[k], f[k + 1])
        /\ s[k].op \in {"locked", "judge"} => /\ k + 1 + s[k].count <= Len(s) + 1
                                              /\ f[k + 1 + s[k].count] = f[k]
  BY <1>5 DEF Annotates
<1> QED
  BY <1>2, <1>3, <1>4, <1>5, <1>6, <1>7 DEF Here

-----------------------------------------------------------------------------
(* What holds at a note, of the configuration c, the two micro-controllers g *)
(* and r, the calibrations n commanded and the mishaps m.                    *)

\* What a firmware takes of three mailboxes, and a micro-controller.
Triples == Nat \X Nat \X Nat
Micro == [fw : {"none", "cal", "agc", "arb"}, status : Nat, put : [0 .. 3 -> Nat], show : [0 .. 3 -> Nat],
          round : Nat, mode : 0 .. 3, runs : Nat, taken : Seq(Triples)]

\* A note is of a round there is.
CalFormed(a) ==
  /\ a[1] \in CalNotes
  /\ a[1] \in {"cal aimed", "cal told", "cal settled"} => a[2] \in 0 .. 3
  /\ a[1] \in {"cal told", "cal settled"} => a[3] \in 1 .. Len(CalCodes(a[2]))

AgcFormed(c, a) ==
  /\ a[1] \in AgcNotes
  /\ a[1] \in {"agc ready", "agc told"} => a[2] \in 1 .. LastOf(c) + 1
  /\ a[1] = "agc check" => a[2] \in 1 .. LastOf(c)

\* The calibration firmware is at rest.
Waiting(g) == g.round = 2 /\ g.status # 1 /\ g.put[3] # 1

\* It has been told to resume, and did or did not yet.
WaitsTo(g, n) == /\ g.put[3] = 255 /\ g.runs = n
                 /\ \/ g.round = 1 /\ g.status = 1
                    \/ g.round = 2 /\ g.status = 0

\* It has been told the code of its round i, or had been and took it.
ToldOf(k, i, g, n) ==
  /\ g.put[3] = CalCodes(k)[i]
  /\ \/ i = 1 /\ g.round = 2 /\ g.status # 1 /\ g.put[2] = k /\ g.runs = n - 1
     \/ i > 1 /\ g.round = i + 1 /\ g.status = CalAnswer(k, i - 1) /\ g.mode = k /\ g.runs = n
     \/ /\ g.round = (IF i = Len(CalCodes(k)) THEN 2 ELSE i + 2)
        /\ g.status = CalAnswer(k, i) /\ g.mode = k /\ g.runs = n

\* It waits for the code of its round i, that it has not been told.
SettledAt(k, i, g, n) ==
  /\ i > 1 /\ g.put[3] # CalCodes(k)[i]
  /\ g.round = i + 1 /\ g.status = CalAnswer(k, i - 1) /\ g.mode = k /\ g.runs = n

CalHolds(a, g, n) ==
  /\ a[1] = "cal boot" => g.round \in {0, 1} /\ g.status = g.round /\ g.put[3] # 255 /\ g.runs = n
  /\ a[1] = "cal awake" => g.round = 1 /\ g.status = 1 /\ g.put[3] # 255 /\ g.runs = n
  /\ a[1] = "cal resuming" => WaitsTo(g, n)
  /\ a[1] = "cal idle" => Waiting(g) /\ g.runs = n
  /\ a[1] = "cal locked" => Waiting(g) /\ g.runs = n - 1
  /\ a[1] = "cal aimed" => Waiting(g) /\ g.runs = n - 1 /\ g.put[2] = a[2]
  /\ a[1] = "cal told" => ToldOf(a[2], a[3], g, n)
  /\ a[1] = "cal settled" => SettledAt(a[2], a[3], g, n)

Tame(g) == g.fw = "cal" /\ g.put[3] # 128 /\ g.put[2] \in 0 .. 3
Calm(m) == m \cap {"wait", "agc write"} = {}

CalFine(a, g, n, m) == Tame(g) /\ (Calm(m) => CalHolds(a, g, n))

\* The AGC firmware waits for its round k.
AgcAt(c, k, g) == /\ g.round = k /\ Len(g.taken) = k - 1
                  /\ g.status = IF k = 1 THEN 1 ELSE RoundsOf(c)[k - 1].status
Quiet(c, k, g) == AgcAt(c, k, g) /\ (k <= LastOf(c) + 1 => g.put[3] # RoundsOf(c)[k].code)
Shown(g) == \A k \in 1 .. 3 : g.taken[Len(g.taken)][k] = g.put[k - 1] /\ g.show[k - 1] = g.put[k - 1]

\* The first k parameters are those taken.
Matched(c, k, g) ==
  \A i \in 1 .. k : \A j \in 1 .. Len(ParamsOf(c)[i].put) :
    Same(g.taken[i][j], ParamsOf(c)[i].put[j], ParamsOf(c)[i].how)

\* From the last exchange on, the AGC is not asked to clear its status.
Unasked(c, k, g) == k >= LastOf(c) => g.put[0] # 255

\* It waits for its round k, that it has not been told.
ReadyAt(c, k, g, m) ==
  /\ Quiet(c, k, g)
  /\ "read" \notin m => Matched(c, k - 1, g) /\ Unasked(c, k, g)

\* It has been told its round k, unless that was lost, or had been and took it.
TellingAt(c, k, g, m) ==
  /\ \/ AgcAt(c, k, g) /\ ("agc write" \notin m => g.put[3] = RoundsOf(c)[k].code)
     \/ Quiet(c, k + 1, g) /\ Shown(g)
  /\ "read" \notin m => Matched(c, k - 1, g) /\ Unasked(c, k, g)

\* It took its round k; j of the values it took are those of the round.
ShownAt(c, k, j, g, m) ==
  /\ Quiet(c, k + 1, g) /\ Shown(g)
  /\ "read" \notin m => /\ Matched(c, k - 1, g) /\ Unasked(c, k, g)
                        /\ \A i \in 1 .. j : Same(g.taken[k][i], ParamsOf(c)[k].check[i], ParamsOf(c)[k].how)

AgcHolds(c, a, g, m) ==
  /\ a[1] = "agc boot" => g.round \in {0, 1} /\ g.status = g.round /\ g.put[3] # 128 /\ g.taken = <<>>
  /\ a[1] = "agc ready" => ReadyAt(c, a[2], g, m)
  /\ a[1] = "agc told" => TellingAt(c, a[2], g, m)
  /\ a[1] = "agc check" => ShownAt(c, a[2], a[3], g, m)

AgcFine(c, a, g, m) == g.fw = "agc" /\ ("wait" \notin m => AgcHolds(c, a, g, m))

\* The AGC firmware has been told everything.
AgcDone(c, g, m) == /\ Quiet(c, LastOf(c) + 1, g) \/ AgcAt(c, LastOf(c) + 2, g)
                    /\ "agc write" \notin m => g.round = LastOf(c) + 2
                    /\ "read" \notin m => Matched(c, LastOf(c), g) /\ g.put[0] # 255

ArbTaken(c, r) == r.round = 2 /\ r.status = 0 /\ r.taken = <<<<7, 3, ArbDualDemod(c.ftime)>>>>
ArbWritten(c, k, r) == /\ k > 3 => r.put[0] = 7
                       /\ k > 4 => r.put[3] = ArbDualDemod(c.ftime)
                       /\ k > 5 => r.put[2] = 3
ArbHolds(c, k, r) ==
  IF k = 8 THEN ArbTaken(c, r)
  ELSE /\ ArbWritten(c, k, r)
       /\ \/ k = 1 /\ r.round = 0 /\ r.status = 0 /\ r.put[1] = 0
          \/ r.round = 1 /\ r.status = 1 /\ r.put[1] = IF k = 7 THEN 1 ELSE 0
          \/ k = 7 /\ ArbTaken(c, r)

ArbFine(c, k, g, r, m) ==
  /\ g.fw = "agc" /\ r.fw = "arb"
  /\ "wait" \notin m => AgcDone(c, g, m)
  /\ m \cap {"wait", "arb write"} = {} => ArbHolds(c, k, r)

CalNote(a, g, n, m) == CalFormed(a) /\ CalFine(a, g, n, m)
AgcNote(c, a, g, m) == AgcFormed(c, a) /\ AgcFine(c, a, g, m)
ArbNote(c, a, g, r, m) == a[1] = "arb" /\ a[2] \in 1 .. 8 /\ ArbFine(c, a[2], g, r, m)

Holds(c, a, g, r, n, m) ==
  \/ a = Off /\ g = Held /\ n = 0
  \/ CalNote(a, g, n, m)
  \/ AgcNote(c, a, g, m)
  \/ ArbNote(c, a, g, r, m)

\* The notes, by their parts.
LEMMA Kinds ==
    /\ Off[1] = "off" /\ CalBoot[1] = "cal boot" /\ CalAwake[1] = "cal awake" /\ CalResuming[1] = "cal resuming"
    /\ CalIdle[1] = "cal idle" /\ CalLocked[1] = "cal locked" /\ AgcBoot[1] = "agc boot"
    /\ \A x : /\ CalAimed(x)[1] = "cal aimed" /\ CalAimed(x)[2] = x
              /\ AgcReady(x)[1] = "agc ready" /\ AgcReady(x)[2] = x
              /\ AgcToldOf(x)[1] = "agc told" /\ AgcToldOf(x)[2] = x
              /\ ArbAt(x)[1] = "arb" /\ ArbAt(x)[2] = x
    /\ \A x, y : /\ CalTold(x, y)[1] = "cal told" /\ CalTold(x, y)[2] = x /\ CalTold(x, y)[3] = y
                 /\ CalSettled(x, y)[1] = "cal settled" /\ CalSettled(x, y)[2] = x /\ CalSettled(x, y)[3] = y
                 /\ AgcCheck(x, y)[1] = "agc check" /\ AgcCheck(x, y)[2] = x /\ AgcCheck(x, y)[3] = y
BY DEF Off, CalBoot, CalAwake, CalResuming, CalIdle, CalLocked, AgcBoot, CalAimed, AgcReady, AgcToldOf, ArbAt,
       CalTold, CalSettled, AgcCheck

\* What holds at the notes of a calibration.
LEMMA CalStages ==
    ASSUME NEW g, NEW n, NEW m
    PROVE  /\ CalNote(CalBoot, g, n, m)
                <=> Tame(g) /\ (Calm(m) => g.round \in {0, 1} /\ g.status = g.round /\ g.put[3] # 255 /\ g.runs = n)
           /\ CalNote(CalAwake, g, n, m)
                <=> Tame(g) /\ (Calm(m) => g.round = 1 /\ g.status = 1 /\ g.put[3] # 255 /\ g.runs = n)
           /\ CalNote(CalResuming, g, n, m) <=> Tame(g) /\ (Calm(m) => WaitsTo(g, n))
           /\ CalNote(CalIdle, g, n, m) <=> Tame(g) /\ (Calm(m) => Waiting(g) /\ g.runs = n)
           /\ CalNote(CalLocked, g, n, m) <=> Tame(g) /\ (Calm(m) => Waiting(g) /\ g.runs = n - 1)
<1>1. /\ CalBoot[1] = "cal boot" /\ CalAwake[1] = "cal awake" /\ CalResuming[1] = "cal resuming"
      /\ CalIdle[1] = "cal idle" /\ CalLocked[1] = "cal locked"
  BY Kinds
<1> QED
  BY <1>1 DEF CalNote, CalNotes, CalFormed, CalFine, CalHolds

\* What holds when it has been aimed.
LEMMA AimedStage ==
    ASSUME NEW g, NEW n, NEW m, NEW k \in 0 .. 3
    PROVE  CalNote(CalAimed(k), g, n, m)
             <=> Tame(g) /\ (Calm(m) => Waiting(g) /\ g.runs = n - 1 /\ g.put[2] = k)
<1>1. PICK a : a = CalAimed(k)
  OBVIOUS
<1>2. a[1] = "cal aimed" /\ a[2] = k
  BY <1>1 DEF CalAimed
<1>3. CalNote(a, g, n, m) <=> Tame(g) /\ (Calm(m) => Waiting(g) /\ g.runs = n - 1 /\ g.put[2] = k)
  BY <1>2 DEF CalNote, CalNotes, CalFormed, CalFine, CalHolds
<1> QED
  BY <1>1, <1>3

\* What holds when it has been told a code.
LEMMA ToldStage ==
    ASSUME NEW g, NEW n, NEW m, NEW k \in 0 .. 3, NEW i \in 1 .. Len(CalCodes(k))
    PROVE  CalNote(CalTold(k, i), g, n, m) <=> Tame(g) /\ (Calm(m) => ToldOf(k, i, g, n))
<1>1. PICK a : a = CalTold(k, i)
  OBVIOUS
<1>2. a[1] = "cal told" /\ a[2] = k /\ a[3] = i
  BY <1>1 DEF CalTold
<1>3. CalNote(a, g, n, m) <=> Tame(g) /\ (Calm(m) => ToldOf(k, i, g, n))
  BY <1>2 DEF CalNote, CalNotes, CalFormed, CalFine, CalHolds
<1> QED
  BY <1>1, <1>3

\* What holds when it has answered one.
LEMMA SettledStage ==
    ASSUME NEW g, NEW n, NEW m, NEW k \in 0 .. 3, NEW i \in 1 .. Len(CalCodes(k))
    PROVE  CalNote(CalSettled(k, i), g, n, m) <=> Tame(g) /\ (Calm(m) => SettledAt(k, i, g, n))
<1>1. PICK a : a = CalSettled(k, i)
  OBVIOUS
<1>2. a[1] = "cal settled" /\ a[2] = k /\ a[3] = i
  BY <1>1 DEF CalSettled
<1>3. CalNote(a, g, n, m) <=> Tame(g) /\ (Calm(m) => SettledAt(k, i, g, n))
  BY <1>2 DEF CalNote, CalNotes, CalFormed, CalFine, CalHolds
<1> QED
  BY <1>1, <1>3

\* What holds at the notes of sx1302_agc_start.
LEMMA AgcStages ==
    ASSUME NEW c, NEW g, NEW m
    PROVE  /\ AgcNote(c, AgcBoot, g, m)
                <=> /\ g.fw = "agc"
                    /\ "wait" \notin m => g.round \in {0, 1} /\ g.status = g.round /\ g.put[3] # 128 /\ g.taken = <<>>
           /\ \A k \in 1 .. LastOf(c) + 1 :
                /\ AgcNote(c, AgcReady(k), g, m) <=> g.fw = "agc" /\ ("wait" \notin m => ReadyAt(c, k, g, m))
                /\ AgcNote(c, AgcToldOf(k), g, m) <=> g.fw = "agc" /\ ("wait" \notin m => TellingAt(c, k, g, m))
           /\ \A k \in 1 .. LastOf(c) : \A j :
                AgcNote(c, AgcCheck(k, j), g, m) <=> g.fw = "agc" /\ ("wait" \notin m => ShownAt(c, k, j, g, m))
<1>1. AgcNote(c, AgcBoot, g, m)
        <=> /\ g.fw = "agc"
            /\ "wait" \notin m => g.round \in {0, 1} /\ g.status = g.round /\ g.put[3] # 128 /\ g.taken = <<>>
  <2>1. AgcBoot[1] = "agc boot"
    BY Kinds
  <2> QED
    BY <2>1 DEF AgcNote, AgcNotes, AgcFormed, AgcFine, AgcHolds
<1>2. ASSUME NEW k \in 1 .. LastOf(c) + 1
      PROVE  AgcNote(c, AgcReady(k), g, m) <=> g.fw = "agc" /\ ("wait" \notin m => ReadyAt(c, k, g, m))
  <2>1. PICK a : a = AgcReady(k)
    OBVIOUS
  <2>2. a[1] = "agc ready" /\ a[2] = k
    BY <2>1 DEF AgcReady
  <2>3. AgcNote(c, a, g, m) <=> g.fw = "agc" /\ ("wait" \notin m => ReadyAt(c, k, g, m))
    BY <2>2 DEF AgcNote, AgcNotes, AgcFormed, AgcFine, AgcHolds
  <2> QED
    BY <2>1, <2>3
<1>3. ASSUME NEW k \in 1 .. LastOf(c) + 1
      PROVE  AgcNote(c, AgcToldOf(k), g, m) <=> g.fw = "agc" /\ ("wait" \notin m => TellingAt(c, k, g, m))
  <2>1. PICK a : a = AgcToldOf(k)
    OBVIOUS
  <2>2. a[1] = "agc told" /\ a[2] = k
    BY <2>1 DEF AgcToldOf
  <2>3. AgcNote(c, a, g, m) <=> g.fw = "agc" /\ ("wait" \notin m => TellingAt(c, k, g, m))
    BY <2>2 DEF AgcNote, AgcNotes, AgcFormed, AgcFine, AgcHolds
  <2> QED
    BY <2>1, <2>3
<1>4. ASSUME NEW k \in 1 .. LastOf(c), NEW j
      PROVE  AgcNote(c, AgcCheck(k, j), g, m) <=> g.fw = "agc" /\ ("wait" \notin m => ShownAt(c, k, j, g, m))
  <2>1. PICK a : a = AgcCheck(k, j)
    OBVIOUS
  <2>2. a[1] = "agc check" /\ a[2] = k /\ a[3] = j
    BY <2>1 DEF AgcCheck
  <2>3. AgcNote(c, a, g, m) <=> g.fw = "agc" /\ ("wait" \notin m => ShownAt(c, k, j, g, m))
    BY <2>2 DEF AgcNote, AgcNotes, AgcFormed, AgcFine, AgcHolds
  <2> QED
    BY <2>1, <2>3
<1> QED
  BY <1>1, <1>2, <1>3, <1>4

\* A micro-controller one of whose mailboxes has been written.
Rewritten(w, g, b, v) ==
  /\ w \in Micro
  /\ w.fw = g.fw /\ w.status = g.status /\ w.round = g.round /\ w.mode = g.mode /\ w.runs = g.runs
  /\ w.taken = g.taken /\ w.show = g.show
  /\ w.put[0] = (IF b = 0 THEN v ELSE g.put[0]) /\ w.put[1] = (IF b = 1 THEN v ELSE g.put[1])
  /\ w.put[2] = (IF b = 2 THEN v ELSE g.put[2]) /\ w.put[3] = (IF b = 3 THEN v ELSE g.put[3])

\* A mailbox write is that.
LEMMA WrittenIs ==
    ASSUME NEW g \in Micro, NEW b \in 0 .. 3, NEW v \in Nat
    PROVE  Rewritten(Written(g, b, v), g, b, v)
<1>1. PICK w : w = Written(g, b, v)
  OBVIOUS
<1>2. /\ w \in Micro
      /\ w.fw = g.fw /\ w.status = g.status /\ w.round = g.round /\ w.mode = g.mode /\ w.runs = g.runs
      /\ w.taken = g.taken /\ w.show = g.show
      /\ \A x \in 0 .. 3 : w.put[x] = IF x = b THEN v ELSE g.put[x]
  BY <1>1 DEF Written, Micro
<1>3. /\ w.put[0] = (IF b = 0 THEN v ELSE g.put[0]) /\ w.put[1] = (IF b = 1 THEN v ELSE g.put[1])
      /\ w.put[2] = (IF b = 2 THEN v ELSE g.put[2]) /\ w.put[3] = (IF b = 3 THEN v ELSE g.put[3])
  BY <1>2
<1> QED
  BY <1>1, <1>2, <1>3 DEF Rewritten

\* What a micro-controller held by the host is.
LEMMA HeldIs ==
    /\ Held \in Micro /\ Held.fw = "none" /\ Held.status = 0 /\ Held.round = 0 /\ Held.runs = 0 /\ Held.mode = 0
    /\ Held.taken = <<>> /\ \A x \in 0 .. 3 : Held.put[x] = 0
BY DEF Held, Micro, Triples

\* More mishaps ask for less.
LEMMA Worse ==
    ASSUME NEW c, NEW a, NEW g, NEW r, NEW n, NEW m, NEW x
    PROVE  /\ CalNote(a, g, n, m) => CalNote(a, g, n, m \cup {x})
           /\ AgcNote(c, a, g, m) => AgcNote(c, a, g, m \cup {x})
           /\ ArbNote(c, a, g, r, m) => ArbNote(c, a, g, r, m \cup {x})
<1>1. CalFine(a, g, n, m) => CalFine(a, g, n, m \cup {x})
  BY DEF CalFine, Calm
<1>2. AgcFine(c, a, g, m) => AgcFine(c, a, g, m \cup {x})
  BY DEF AgcFine, AgcHolds, ReadyAt, TellingAt, ShownAt
<1>3. ArbFine(c, a[2], g, r, m) => ArbFine(c, a[2], g, r, m \cup {x})
  BY DEF ArbFine, AgcDone
<1> QED
  BY <1>1, <1>2, <1>3 DEF CalNote, AgcNote, ArbNote

-----------------------------------------------------------------------------
(* The host's operations on the calibration firmware.                        *)

\* A mishap of a calibration makes it ask for nothing.
LEMMA NotCalm == \A m : ~Calm(m \cup {"wait"}) /\ ~Calm(m \cup {"agc write"})
BY DEF Calm

\* The writes among them.
LEMMA CalPutIs ==
    ASSUME NEW a, NEW b, NEW op, op.op = "put", CalLeads(a, op, b)
    PROVE  \/ a = CalAwake /\ op = Put("agc", 3, 255) /\ b = CalResuming
           \/ \E k \in 0 .. 3 : CalAim(k, a, op, b)
           \/ \E k \in 0 .. 3 : \E i \in 1 .. Len(CalCodes(k)) : CalTell(k, i, a, op, b)
<1>1. \A mcu, v : op # Await(mcu, v) /\ op # Collect(v)
  BY DEF Await, Collect
<1>2. CalTop(a, op, b) => a = CalAwake /\ op = Put("agc", 3, 255) /\ b = CalResuming
  BY <1>1 DEF CalTop
<1>3. \A k, i : ~CalHear(k, i, a, op, b)
  BY <1>1 DEF CalHear
<1> QED
  BY <1>2, <1>3, Zenon DEF CalLeads

\* The waits among them.
LEMMA CalAwaitIs ==
    ASSUME NEW a, NEW b, NEW op, op.op = "await", CalLeads(a, op, b)
    PROVE  \/ a = CalBoot /\ op = Await("agc", 1) /\ b = CalAwake
           \/ a = CalResuming /\ op = Await("agc", 0) /\ b = CalIdle
           \/ \E k \in 0 .. 3 : \E i \in 1 .. Len(CalCodes(k)) : CalHear(k, i, a, op, b)
<1>1. \A mcu, x, v : op # Put(mcu, x, v) /\ op # Collect(v)
  BY DEF Put, Collect
<1>2. CalTop(a, op, b) => \/ a = CalBoot /\ op = Await("agc", 1) /\ b = CalAwake
                          \/ a = CalResuming /\ op = Await("agc", 0) /\ b = CalIdle
  BY <1>1 DEF CalTop
<1>3. \A k, i : ~CalAim(k, a, op, b) /\ ~CalTell(k, i, a, op, b)
  BY <1>1 DEF CalAim, CalTell
<1> QED
  BY <1>2, <1>3, Zenon DEF CalLeads

\* What is neither a write nor a wait.
LEMMA CalElseIs ==
    ASSUME NEW a, NEW b, NEW op, op.op \notin {"put", "await"}, CalLeads(a, op, b)
    PROVE  \/ a = CalAwake /\ op.op = "check" /\ op.mcu = "agc" /\ b = CalAwake
           \/ a = CalIdle /\ op.op = "locked" /\ b = CalLocked
           \/ a = CalIdle /\ op.op = "judge" /\ b = CalIdle
           \/ \E k \in 0 .. 3 : \E i \in 1 .. Len(CalCodes(k)) : CalHear(k, i, a, op, b)
<1>1. \A mcu, x, v : op # Put(mcu, x, v) /\ op # Await(mcu, v)
  BY DEF Put, Await
<1>2. CalTop(a, op, b) => \/ a = CalAwake /\ op.op = "check" /\ op.mcu = "agc" /\ b = CalAwake
                          \/ a = CalIdle /\ op.op = "locked" /\ b = CalLocked
                          \/ a = CalIdle /\ op.op = "judge" /\ b = CalIdle
  BY <1>1 DEF CalTop
<1>3. \A k, i : ~CalAim(k, a, op, b) /\ ~CalTell(k, i, a, op, b)
  BY <1>1 DEF CalAim, CalTell
<1> QED
  BY <1>2, <1>3, Zenon DEF CalLeads

\* A mailbox write during a calibration, done or lost.
LEMMA CalPut ==
    ASSUME NEW a, NEW b, NEW op, op.op = "put", CalLeads(a, op, b),
           NEW g, NEW n, NEW m, CalNote(a, g, n, m), NEW w, Rewritten(w, g, op.box, op.value)
    PROVE  /\ op.mcu = "agc"
           /\ CalNote(b, w, n, m)
           /\ CalNote(b, g, n, m \cup {"agc write"})
<1> DEFINE Goal == /\ op.mcu = "agc"
                   /\ CalNote(b, w, n, m)
                   /\ CalNote(b, g, n, m \cup {"agc write"})
<1>2. /\ w.fw = g.fw /\ w.status = g.status /\ w.round = g.round /\ w.mode = g.mode /\ w.runs = g.runs
      /\ w.put[2] = (IF op.box = 2 THEN op.value ELSE g.put[2])
      /\ w.put[3] = (IF op.box = 3 THEN op.value ELSE g.put[3])
  BY DEF Rewritten
<1>3. Tame(g)
  BY DEF CalNote, CalFormed, CalFine
<1>4. ~Calm(m \cup {"agc write"})
  BY NotCalm
<1>5. \A mcu, x, v : Put(mcu, x, v).op = "put" /\ Put(mcu, x, v).mcu = mcu /\ Put(mcu, x, v).box = x /\ Put(mcu, x, v).value = v
  BY DEF Put
<1>6. ASSUME a = CalAwake, op = Put("agc", 3, 255), b = CalResuming PROVE Goal
  <2>1. op.mcu = "agc" /\ op.box = 3 /\ op.value = 255
    BY <1>5, <1>6
  <2>2. Calm(m) => g.round = 1 /\ g.status = 1 /\ g.put[3] # 255 /\ g.runs = n
    BY <1>6, CalStages
  <2>3. Tame(w) /\ (Calm(m) => WaitsTo(w, n))
    BY <1>2, <1>3, <2>1, <2>2 DEF WaitsTo, Tame
  <2>4. CalNote(CalResuming, w, n, m) /\ CalNote(CalResuming, g, n, m \cup {"agc write"})
    <3>1. \A x, p : CalNote(CalResuming, x, n, p) <=> Tame(x) /\ (Calm(p) => WaitsTo(x, n))
      BY CalStages
    <3> QED
      BY <1>3, <1>4, <2>3, <3>1
  <2> QED
    BY <1>6, <2>1, <2>4
<1>7. ASSUME NEW k \in 0 .. 3, a = CalLocked, op = Put("agc", 2, k), b = CalAimed(k) PROVE Goal
  <2>1. op.mcu = "agc" /\ op.box = 2 /\ op.value = k
    BY <1>5, <1>7
  <2>2. Calm(m) => Waiting(g) /\ g.runs = n - 1
    BY <1>7, CalStages
  <2>3. Tame(w) /\ (Calm(m) => Waiting(w) /\ w.runs = n - 1 /\ w.put[2] = k)
    BY <1>2, <1>3, <2>1, <2>2 DEF Waiting, Tame
  <2> QED
    BY <1>3, <1>4, <1>7, <2>1, <2>3, AimedStage
<1>8. ASSUME NEW k \in 0 .. 3, a = CalAimed(k), b = a, op.mcu = "agc", op.box \in {0, 1} \/ (op.box = 3 /\ op.value = 0)
      PROVE  Goal
  <2>2. Calm(m) => Waiting(g) /\ g.runs = n - 1 /\ g.put[2] = k
    BY <1>8, AimedStage
  <2>3. Tame(w) /\ (Calm(m) => Waiting(w) /\ w.runs = n - 1 /\ w.put[2] = k)
    BY <1>2, <1>3, <1>8, <2>2 DEF Waiting, Tame
  <2> QED
    BY <1>3, <1>4, <1>8, <2>3, AimedStage
<1>9. ASSUME NEW k \in 0 .. 3, a = CalAimed(k), op = Put("agc", 3, 1), b = CalTold(k, 1) PROVE Goal
  <2>1. op.mcu = "agc" /\ op.box = 3 /\ op.value = 1
    BY <1>5, <1>9
  <2>2. Calm(m) => Waiting(g) /\ g.runs = n - 1 /\ g.put[2] = k
    BY <1>9, AimedStage
  <2>3. CalCodes(k)[1] = 1 /\ 1 \in 1 .. Len(CalCodes(k))
    <3>1. CalCodes(k)[1] = 1 /\ Len(CalCodes(k)) \in Nat /\ Len(CalCodes(k)) > 3
      BY CalTables
    <3> QED
      BY <3>1
  <2>4. Tame(w) /\ (Calm(m) => ToldOf(k, 1, w, n))
    BY <1>2, <1>3, <2>1, <2>2, <2>3 DEF Waiting, Tame, ToldOf
  <2> QED
    BY <1>3, <1>4, <1>9, <2>1, <2>3, <2>4, ToldStage
<1>10. ASSUME NEW k \in 0 .. 3, NEW i \in 1 .. Len(CalCodes(k)), a = CalSettled(k, i), b = a, op.mcu = "agc",
              op.box \in {0, 1} \/ (op.box = 2 /\ op.value \in 0 .. 3)
       PROVE  Goal
  <2>2. Calm(m) => SettledAt(k, i, g, n)
    BY <1>10, SettledStage
  <2>3. Tame(w) /\ (Calm(m) => SettledAt(k, i, w, n))
    BY <1>2, <1>3, <1>10, <2>2 DEF Tame, SettledAt
  <2> QED
    BY <1>3, <1>4, <1>10, <2>3, SettledStage
<1>11. ASSUME NEW k \in 0 .. 3, NEW i \in 1 .. Len(CalCodes(k)), a = CalSettled(k, i),
              op = Put("agc", 3, CalCodes(k)[i]), b = CalTold(k, i)
       PROVE  Goal
  <2>1. op.mcu = "agc" /\ op.box = 3 /\ op.value = CalCodes(k)[i]
    BY <1>5, <1>11
  <2>2. Calm(m) => SettledAt(k, i, g, n)
    BY <1>11, SettledStage
  <2>3. CalCodes(k)[i] # 128
    <3>1. CalCodes(k)[i] \in 1 .. 127
      BY CalTables
    <3>2. \A x \in 1 .. 127 : x # 128
      OBVIOUS
    <3> QED
      BY <3>1, <3>2, Zenon
  <2>4. Tame(w) /\ (Calm(m) => ToldOf(k, i, w, n))
    BY <1>2, <1>3, <2>1, <2>2, <2>3 DEF Tame, ToldOf, SettledAt
  <2> QED
    BY <1>3, <1>4, <1>11, <2>1, <2>4, ToldStage
<1> HIDE DEF Goal
<1>13. ASSUME NEW k \in 0 .. 3, CalAim(k, a, op, b) PROVE Goal
  BY <1>7, <1>8, <1>9, <1>13, Zenon DEF CalAim
<1>14. ASSUME NEW k \in 0 .. 3, NEW i \in 1 .. Len(CalCodes(k)), CalTell(k, i, a, op, b) PROVE Goal
  BY <1>10, <1>11, <1>14, Zenon DEF CalTell
<1>15. Goal
  BY <1>6, <1>13, <1>14, CalPutIs, Zenon
<1> QED
  BY <1>15 DEF Goal

\* The status awaited during a calibration, or the wait given up.
LEMMA CalAwait ==
    ASSUME NEW a, NEW b, NEW op, op.op = "await", CalLeads(a, op, b),
           NEW g, NEW n, NEW m, CalNote(a, g, n, m)
    PROVE  /\ op.mcu = "agc"
           /\ g.status = op.value => CalNote(b, g, n, m)
           /\ CalNote(b, g, n, m \cup {"wait"})
<1> DEFINE Goal == /\ op.mcu = "agc"
                   /\ g.status = op.value => CalNote(b, g, n, m)
                   /\ CalNote(b, g, n, m \cup {"wait"})
<1>1. Tame(g)
  BY DEF CalNote, CalFormed, CalFine
<1>2. ~Calm(m \cup {"wait"})
  BY NotCalm
<1>3. \A mcu, v : Await(mcu, v).op = "await" /\ Await(mcu, v).mcu = mcu /\ Await(mcu, v).value = v
  BY DEF Await
<1>4. ASSUME a = CalBoot, op = Await("agc", 1), b = CalAwake PROVE Goal
  <2>1. op.mcu = "agc" /\ op.value = 1
    BY <1>3, <1>4
  <2>2. Calm(m) => g.round \in {0, 1} /\ g.status = g.round /\ g.put[3] # 255 /\ g.runs = n
    BY <1>4, CalStages
  <2> QED
    BY <1>1, <1>2, <1>4, <2>1, <2>2, CalStages
<1>5. ASSUME a = CalResuming, op = Await("agc", 0), b = CalIdle PROVE Goal
  <2>1. op.mcu = "agc" /\ op.value = 0
    BY <1>3, <1>5
  <2>2. Calm(m) => WaitsTo(g, n)
    BY <1>5, CalStages
  <2>3. Calm(m) /\ g.status = 0 => Waiting(g) /\ g.runs = n
    BY <2>2 DEF WaitsTo, Waiting
  <2> QED
    BY <1>1, <1>2, <1>5, <2>1, <2>3, CalStages
<1>6. ASSUME NEW k \in 0 .. 3, NEW i \in 1 .. Len(CalCodes(k)), a = CalTold(k, i), op = Await("agc", CalAnswer(k, i)),
             b = IF i = Len(CalCodes(k)) THEN CalIdle ELSE CalSettled(k, i + 1)
      PROVE  Goal
  <2>1. op.mcu = "agc" /\ op.value = CalAnswer(k, i)
    BY <1>3, <1>6
  <2>2. Calm(m) => ToldOf(k, i, g, n)
    BY <1>6, ToldStage
  <2>3. PICK l \in Nat : l = Len(CalCodes(k))
    BY CalTables
  <2>4. /\ l > 3 /\ CalAnswer(k, 1) = 1 /\ CalCodes(k)[l] # 1 /\ CalAnswer(k, l) # 1
        /\ \A j \in 1 .. l : j > 1 => /\ CalCodes(k)[j] # CalCodes(k)[j - 1]
                                      /\ CalAnswer(k, j) # CalAnswer(k, j - 1)
    BY <2>3, CalTables
  <2>5. Calm(m) /\ g.status = CalAnswer(k, i) =>
          /\ g.put[3] = CalCodes(k)[i] /\ g.mode = k /\ g.runs = n
          /\ g.round = IF i = l THEN 2 ELSE i + 2
    BY <2>2, <2>3, <2>4 DEF ToldOf
  <2>6. CASE i = l
    <3>1. Calm(m) /\ g.status = CalAnswer(k, i) => Waiting(g) /\ g.runs = n
      BY <2>4, <2>5, <2>6 DEF Waiting
    <3>2. b = CalIdle
      BY <1>6, <2>3, <2>6
    <3> QED
      BY <1>1, <1>2, <2>1, <3>1, <3>2, CalStages
  <2>7. CASE i # l
    <3>1. b = CalSettled(k, i + 1)
      BY <1>6, <2>3, <2>7
    <3>2. PICK j \in 1 .. l : j = i + 1 /\ j > 1 /\ i = j - 1
      BY <2>3, <2>7
    <3>3. CalCodes(k)[i] # CalCodes(k)[j]
      BY <2>4, <3>2
    <3>4. Calm(m) /\ g.status = CalAnswer(k, i) => SettledAt(k, j, g, n)
      BY <2>5, <2>7, <3>2, <3>3 DEF SettledAt
    <3>5. Calm(m) /\ g.status = CalAnswer(k, i) => SettledAt(k, i + 1, g, n)
      BY <3>2, <3>4
    <3>6. i + 1 \in 1 .. Len(CalCodes(k))
      BY <2>3, <3>2
    <3> QED
      BY <1>1, <1>2, <2>1, <3>1, <3>5, <3>6, SettledStage
  <2> QED
    BY <2>6, <2>7
<1> HIDE DEF Goal
<1>7. ASSUME NEW k \in 0 .. 3, NEW i \in 1 .. Len(CalCodes(k)), CalHear(k, i, a, op, b) PROVE Goal
  <2>1. op # Collect(i - 1)
    BY DEF Collect
  <2> QED
    BY <1>6, <1>7, <2>1, Zenon DEF CalHear
<1>8. Goal
  BY <1>4, <1>5, <1>7, CalAwaitIs, Zenon
<1> QED
  BY <1>8 DEF Goal

\* Reads and comparisons during a calibration; what is collected is of the round asked for.
LEMMA CalElse ==
    ASSUME NEW a, NEW b, NEW op, op.op \notin {"put", "await"}, CalLeads(a, op, b),
           NEW g, NEW n \in Nat, NEW m, CalNote(a, g, n, m)
    PROVE  /\ op.op = "check" => op.mcu = "agc" /\ CalNote(b, g, n, m)
           /\ op.op = "locked" => CalNote(b, g, n + 1, m)
           /\ op.op = "judge" => CalNote(b, g, n, m)
           /\ op.op = "collect" => /\ CalNote(b, g, n, m)
                                   /\ Calm(m) => <<n, op.round>> = <<g.runs, g.round - 2>>
<1> DEFINE Goal == /\ op.op = "check" => op.mcu = "agc" /\ CalNote(b, g, n, m)
                   /\ op.op = "locked" => CalNote(b, g, n + 1, m)
                   /\ op.op = "judge" => CalNote(b, g, n, m)
                   /\ op.op = "collect" => /\ CalNote(b, g, n, m)
                                           /\ Calm(m) => <<n, op.round>> = <<g.runs, g.round - 2>>
<1>1. ASSUME a = CalAwake, op.op = "check", op.mcu = "agc", b = CalAwake PROVE Goal
  BY <1>1
<1>2. ASSUME a = CalIdle, op.op = "locked", b = CalLocked PROVE Goal
  <2>1. Tame(g) /\ (Calm(m) => Waiting(g) /\ g.runs = n)
    BY <1>2, CalStages
  <2>2. Tame(g) /\ (Calm(m) => Waiting(g) /\ g.runs = (n + 1) - 1)
    BY <2>1
  <2>3. CalNote(b, g, n + 1, m)
    BY <1>2, <2>2, CalStages
  <2> QED
    BY <1>2, <2>3
<1>3. ASSUME a = CalIdle, op.op = "judge", b = CalIdle PROVE Goal
  BY <1>3
<1>4. ASSUME NEW k \in 0 .. 3, NEW i \in 1 .. Len(CalCodes(k)), a = CalSettled(k, i), op = Collect(i - 1), b = a PROVE Goal
  <2>1. op.op = "collect" /\ op.round = i - 1
    BY <1>4 DEF Collect
  <2>0. Calm(m) => SettledAt(k, i, g, n)
    BY <1>4, SettledStage
  <2>2. Calm(m) => g.round = i + 1 /\ g.runs = n
    BY <2>0 DEF SettledAt
  <2>3. Len(CalCodes(k)) \in Nat
    BY CalTables
  <2>4. Calm(m) => <<n, op.round>> = <<g.runs, g.round - 2>>
    BY <2>1, <2>2, <2>3
  <2> QED
    BY <1>4, <2>1, <2>4
<1> HIDE DEF Goal
<1>5. ASSUME NEW k \in 0 .. 3, NEW i \in 1 .. Len(CalCodes(k)), CalHear(k, i, a, op, b) PROVE Goal
  <2>1. \A v : op # Await("agc", v)
    BY DEF Await
  <2> QED
    BY <1>4, <1>5, <2>1, Zenon DEF CalHear
<1>6. Goal
  BY <1>1, <1>2, <1>3, <1>5, CalElseIs, Zenon
<1> QED
  BY <1>6 DEF Goal

-----------------------------------------------------------------------------
(* The steps of the calibration firmware.                                    *)

\* A calibration is at a stage of its round there is.
LEMMA CalCases ==
    ASSUME NEW a, NEW g, NEW n, NEW m, CalNote(a, g, n, m), Calm(m)
    PROVE  /\ Tame(g)
           /\ \/ g.round \in {0, 1} /\ g.put[3] # 255
              \/ a[1] = "cal resuming" /\ WaitsTo(g, n)
              \/ Waiting(g)
              \/ /\ a[1] = "cal told" /\ a[2] \in 0 .. 3 /\ a[3] \in 1 .. Len(CalCodes(a[2]))
                 /\ ToldOf(a[2], a[3], g, n)
              \/ /\ a[1] = "cal settled" /\ a[2] \in 0 .. 3 /\ a[3] \in 1 .. Len(CalCodes(a[2]))
                 /\ SettledAt(a[2], a[3], g, n)
BY DEF CalNote, CalNotes, CalFormed, CalFine, CalHolds

\* The calibration firmware boots.
LEMMA CalBoots ==
    ASSUME NEW a, NEW g, NEW n, NEW m, CalNote(a, g, n, m),
           NEW w, w.fw = g.fw, w.put = g.put, w.mode = g.mode, w.runs = g.runs, w.status = 1, w.round = 1, g.round = 0
    PROVE  CalNote(a, w, n, m)
<1>1. Tame(g) /\ (Calm(m) => CalHolds(a, g, n)) /\ a[1] \in CalNotes /\ CalFormed(a)
  BY DEF CalNote, CalFormed, CalFine
<1>2. Tame(w)
  BY <1>1 DEF Tame
<1>3. ASSUME Calm(m), a[1] # "cal boot" PROVE FALSE
  <2>1. ASSUME a[1] = "cal told" PROVE FALSE
    <3>1. ToldOf(a[2], a[3], g, n) /\ a[2] \in 0 .. 3 /\ a[3] \in 1 .. Len(CalCodes(a[2]))
      BY <1>1, <1>3, <2>1 DEF CalHolds, CalFormed
    <3>2. Len(CalCodes(a[2])) \in Nat
      BY <3>1, CalTables
    <3> QED
      BY <3>1, <3>2 DEF ToldOf
  <2>2. ASSUME a[1] = "cal settled" PROVE FALSE
    <3>1. SettledAt(a[2], a[3], g, n) /\ a[2] \in 0 .. 3 /\ a[3] \in 1 .. Len(CalCodes(a[2]))
      BY <1>1, <1>3, <2>2 DEF CalHolds, CalFormed
    <3>2. Len(CalCodes(a[2])) \in Nat
      BY <3>1, CalTables
    <3> QED
      BY <3>1, <3>2 DEF SettledAt
  <2>3. a[1] \in {"cal awake", "cal resuming", "cal idle", "cal locked", "cal aimed"}
    BY <1>1, <1>3, <2>1, <2>2 DEF CalNotes
  <2>4. g.round = 1 \/ WaitsTo(g, n) \/ Waiting(g)
    BY <1>1, <1>3, <2>3 DEF CalHolds
  <2> QED
    BY <2>4 DEF WaitsTo, Waiting
<1>5. ASSUME Calm(m) PROVE g.put[3] # 255 /\ g.runs = n /\ a[1] = "cal boot"
  BY <1>1, <1>3, <1>5 DEF CalHolds
<1>4. ASSUME Calm(m) PROVE CalHolds(a, w, n)
  <2>4. a[1] = "cal boot" /\ g.put[3] # 255 /\ g.runs = n
    BY <1>4, <1>5, Zenon
  <2>5. w.put[3] # 255 /\ w.runs = n
    <3>1. PICK p : p = g.put
      OBVIOUS
    <3>2. p[3] # 255 /\ w.put = p
      BY <2>4, <3>1
    <3>3. w.put[3] # 255
      BY <3>2
    <3>4. w.runs = n
      BY <2>4
    <3> QED
      BY <3>3, <3>4
  <2>1. w.round = 1 /\ w.status = 1 /\ w.put[3] # 255 /\ w.runs = n /\ a[1] = "cal boot"
    BY <2>4, <2>5, Zenon
  <2>2. a[1] \notin {"cal awake", "cal resuming", "cal idle", "cal locked", "cal aimed", "cal told", "cal settled"}
    BY <2>1
  <2>3. a[1] = "cal boot" => w.round \in {0, 1} /\ w.status = w.round /\ w.put[3] # 255 /\ w.runs = n
    BY <2>1
  <2> QED
    BY <2>2, <2>3 DEF CalHolds
<1> QED
  BY <1>1, <1>2, <1>4 DEF CalNote, CalFine

\* Told to resume.
LEMMA CalResumes ==
    ASSUME NEW a, NEW g, NEW n, NEW m, CalNote(a, g, n, m), g.round = 1, g.put[3] = 255,
           NEW w, w.fw = g.fw, w.put = g.put, w.mode = g.mode, w.runs = g.runs, w.status = 0, w.round = 2
    PROVE  CalNote(a, w, n, m)
<1>1. Tame(g) /\ (Calm(m) => CalHolds(a, g, n)) /\ a[1] \in CalNotes /\ CalFormed(a)
  BY DEF CalNote, CalFormed, CalFine
<1>2. Tame(w)
  BY <1>1 DEF Tame
<1>3. ASSUME Calm(m) PROVE a[1] = "cal resuming" /\ g.runs = n
  <2>1. ASSUME NEW k \in 0 .. 3, NEW i \in 1 .. Len(CalCodes(k)), ToldOf(k, i, g, n) \/ SettledAt(k, i, g, n) PROVE FALSE
    <3>1. Len(CalCodes(k)) \in Nat
      BY CalTables
    <3> QED
      BY <2>1, <3>1 DEF ToldOf, SettledAt
  <2>2. ~Waiting(g) /\ (WaitsTo(g, n) => g.runs = n)
    BY DEF WaitsTo, Waiting
  <2>3. ~(g.round \in {0, 1} /\ g.put[3] # 255)
    OBVIOUS
  <2>5. \A k \in 0 .. 3 : \A i \in 1 .. Len(CalCodes(k)) : ~ToldOf(k, i, g, n) /\ ~SettledAt(k, i, g, n)
    BY <2>1
  <2>6. \/ g.round \in {0, 1} /\ g.put[3] # 255
        \/ a[1] = "cal resuming" /\ WaitsTo(g, n)
        \/ Waiting(g)
        \/ /\ a[1] = "cal told" /\ a[2] \in 0 .. 3 /\ a[3] \in 1 .. Len(CalCodes(a[2]))
           /\ ToldOf(a[2], a[3], g, n)
        \/ /\ a[1] = "cal settled" /\ a[2] \in 0 .. 3 /\ a[3] \in 1 .. Len(CalCodes(a[2]))
           /\ SettledAt(a[2], a[3], g, n)
    BY <1>3, CalCases
  <2>4. a[1] = "cal resuming" /\ WaitsTo(g, n)
    <3>1. ~(a[1] = "cal told" /\ a[2] \in 0 .. 3 /\ a[3] \in 1 .. Len(CalCodes(a[2])) /\ ToldOf(a[2], a[3], g, n))
      BY <2>5, ZenonT(40)
    <3>2. ~(a[1] = "cal settled" /\ a[2] \in 0 .. 3 /\ a[3] \in 1 .. Len(CalCodes(a[2])) /\ SettledAt(a[2], a[3], g, n))
      BY <2>5, ZenonT(40)
    <3> QED
      BY <2>2, <2>3, <2>6, <3>1, <3>2
  <2> QED
    BY <2>2, <2>4
<1>4. Calm(m) => CalHolds(a, w, n)
  BY <1>1, <1>3 DEF CalHolds, WaitsTo
<1> QED
  BY <1>1, <1>2, <1>4 DEF CalNote, CalFine

\* The command.
LEMMA CalBegins ==
    ASSUME NEW a, NEW g, NEW n \in Nat, NEW m, CalNote(a, g, n, m), g.round = 2, g.put[3] = 1,
           NEW w, w.fw = g.fw, w.put = g.put, w.mode = g.put[2], w.runs = g.runs + 1, w.status = 1, w.round = 3
    PROVE  CalNote(a, w, n, m)
<1>1. Tame(g) /\ (Calm(m) => CalHolds(a, g, n)) /\ a[1] \in CalNotes /\ CalFormed(a)
  BY DEF CalNote, CalFormed, CalFine
<1>2. Tame(w)
  BY <1>1 DEF Tame
<1>3. ASSUME NEW k \in 0 .. 3, NEW i \in 1 .. Len(CalCodes(k)), ToldOf(k, i, g, n) \/ SettledAt(k, i, g, n)
      PROVE  ToldOf(k, i, w, n)
  <2>1. PICK l \in Nat : l = Len(CalCodes(k))
    BY CalTables
  <2>2. l > 3 /\ CalAnswer(k, 1) = 1 /\ CalCodes(k)[l] # 1 /\ i \in 1 .. l
    BY <2>1, CalTables
  <2>3. i = 1 /\ g.put[3] = CalCodes(k)[i] /\ g.put[2] = k /\ g.runs = n - 1
    BY <1>3, <2>1, <2>2 DEF ToldOf, SettledAt
  <2>4. w.round = (IF i = l THEN 2 ELSE i + 2) /\ w.status = CalAnswer(k, i) /\ w.mode = k /\ w.runs = n
    BY <2>2, <2>3
  <2> QED
    BY <2>1, <2>3, <2>4 DEF ToldOf
<1>4. ASSUME Calm(m) PROVE a[1] = "cal told" /\ ToldOf(a[2], a[3], w, n)
  <2>1. ~WaitsTo(g, n) /\ ~Waiting(g) /\ g.round \notin {0, 1}
    BY DEF WaitsTo, Waiting
  <2>2. a[1] # "cal settled"
    <3>1. ASSUME NEW k \in 0 .. 3, NEW i \in 1 .. Len(CalCodes(k)), SettledAt(k, i, g, n) PROVE FALSE
      <4>1. Len(CalCodes(k)) \in Nat
        BY CalTables
      <4> QED
        BY <3>1, <4>1 DEF SettledAt
    <3>2. ASSUME a[1] = "cal settled" PROVE FALSE
      BY <1>1, <1>4, <3>1, <3>2 DEF CalHolds, CalFormed
    <3> QED
      BY <3>2
  <2> QED
    BY <1>3, <1>4, <2>1, <2>2, CalCases
<1>5. Calm(m) => CalHolds(a, w, n)
  BY <1>4 DEF CalHolds
<1> QED
  BY <1>1, <1>2, <1>5 DEF CalNote, CalFine

\* A code after the first.
LEMMA CalGoesOn ==
    ASSUME NEW a, NEW g, NEW n, NEW m, CalNote(a, g, n, m),
           g.round \in 3 .. Len(CalCodes(g.mode)) + 1, g.put[3] = CalCodes(g.mode)[g.round - 1],
           NEW w, w.fw = g.fw, w.put = g.put, w.mode = g.mode, w.runs = g.runs,
           w.status = CalAnswer(g.mode, g.round - 1),
           w.round = IF g.round = Len(CalCodes(g.mode)) + 1 THEN 2 ELSE g.round + 1
    PROVE  CalNote(a, w, n, m)
<1>1. Tame(g) /\ (Calm(m) => CalHolds(a, g, n)) /\ a[1] \in CalNotes /\ CalFormed(a)
  BY DEF CalNote, CalFormed, CalFine
<1>2. Tame(w)
  BY <1>1 DEF Tame
<1>3. g.round > 2
  OBVIOUS
<1>4. ASSUME NEW k \in 0 .. 3, NEW i \in 1 .. Len(CalCodes(k)), ToldOf(k, i, g, n) PROVE ToldOf(k, i, w, n)
  <2>1. PICK l \in Nat : l = Len(CalCodes(k))
    BY CalTables
  <2>2. i \in 1 .. l /\ l > 3 /\ \A j \in 1 .. l : j > 1 => CalCodes(k)[j] # CalCodes(k)[j - 1]
    BY <2>1, CalTables
  <2>3. g.mode = k /\ g.runs = n /\ g.put[3] = CalCodes(k)[i] /\ (g.round = i + 1 \/ (g.round = i + 2 /\ i # l))
    BY <1>3, <1>4, <2>1, <2>2 DEF ToldOf
  <2>4. g.round # i + 2
    <3> SUFFICES ASSUME g.round = i + 2 PROVE FALSE
      OBVIOUS
    <3>1. PICK j \in 1 .. l : j = i + 1 /\ j > 1 /\ j - 1 = i /\ g.round - 1 = j
      BY <2>1, <2>2, <2>3
    <3>2. CalCodes(k)[j] # CalCodes(k)[i]
      BY <2>2, <3>1
    <3>3. CalCodes(k)[j] = g.put[3]
      BY <2>3, <3>1
    <3> QED
      BY <2>3, <3>2, <3>3
  <2>5. g.round = i + 1 /\ g.round - 1 = i
    BY <2>2, <2>3, <2>4
  <2>6. w.status = CalAnswer(k, i) /\ w.round = (IF i = l THEN 2 ELSE i + 2)
    BY <2>1, <2>2, <2>3, <2>5
  <2> QED
    BY <2>1, <2>3, <2>6 DEF ToldOf
<1>5. ASSUME NEW k \in 0 .. 3, NEW i \in 1 .. Len(CalCodes(k)), SettledAt(k, i, g, n) PROVE FALSE
  <2>1. PICK l \in Nat : l = Len(CalCodes(k))
    BY CalTables
  <2>2. i \in 1 .. l /\ g.round = i + 1 /\ g.mode = k /\ g.put[3] # CalCodes(k)[i]
    BY <1>5, <2>1 DEF SettledAt
  <2>3. g.round - 1 = i
    BY <2>2
  <2> QED
    BY <2>2, <2>3
<1>6. ASSUME Calm(m) PROVE a[1] = "cal told" /\ ToldOf(a[2], a[3], w, n)
  <2>1. ~WaitsTo(g, n) /\ ~Waiting(g) /\ g.round \notin {0, 1}
    BY <1>3 DEF WaitsTo, Waiting
  <2> QED
    BY <1>4, <1>5, <1>6, <2>1, CalCases
<1>7. Calm(m) => CalHolds(a, w, n)
  BY <1>6 DEF CalHolds
<1> QED
  BY <1>1, <1>2, <1>7 DEF CalNote, CalFine

-----------------------------------------------------------------------------
(* The host's operations of sx1302_agc_start.                                *)

\* A mailbox write to the AGC, done or lost.
LEMMA AgcPut ==
    ASSUME NEW c, NEW a, NEW b, NEW op, op.op = "put", AgcLeads(c, a, op, b),
           NEW g, NEW m, AgcNote(c, a, g, m), NEW w, Rewritten(w, g, op.box, op.value)
    PROVE  /\ op.mcu = "agc"
           /\ AgcNote(c, b, w, m)
           /\ AgcNote(c, b, g, m \cup {"agc write"})
<1> DEFINE Goal == /\ op.mcu = "agc"
                   /\ AgcNote(c, b, w, m)
                   /\ AgcNote(c, b, g, m \cup {"agc write"})
<1>1. /\ w.fw = g.fw /\ w.status = g.status /\ w.round = g.round /\ w.taken = g.taken
      /\ w.put[0] = (IF op.box = 0 THEN op.value ELSE g.put[0])
      /\ w.put[3] = (IF op.box = 3 THEN op.value ELSE g.put[3])
  BY DEF Rewritten
<1>2. AgcNote(c, a, g, m \cup {"agc write"})
  BY Worse
<1>3. PICK l \in Nat \ {0} : l = LastOf(c)
  BY ConfLast
<1>4. \A mcu, x, v, how : op # Await(mcu, v) /\ op # Check(mcu, x, v, how)
  BY DEF Await, Check
<1>5. ~AgcTop(a, op, b)
  BY <1>4 DEF AgcTop
<1>6. \A k, j : ~AgcShow(c, k, j, a, op, b)
  BY <1>4 DEF AgcShow
<1>7. ASSUME NEW k \in 1 .. LastOf(c), AgcHear(c, k, a, op, b) PROVE Goal
  <2>1. a = AgcReady(k) /\ b = AgcReady(k) /\ op.mcu = "agc" /\ op.box \in 0 .. 2 /\ k \in 1 .. LastOf(c) + 1
        /\ k # LastOf(c) + 1 /\ (k # LastOf(c) \/ op.value # 255)
    BY <1>3, <1>4, <1>7 DEF AgcHear
  <2>2. g.fw = "agc" /\ ("wait" \notin m => ReadyAt(c, k, g, m))
    BY <2>1, AgcStages
  <2>3. w.put[3] = g.put[3]
    BY <1>1, <2>1
  <2>4. ReadyAt(c, k, g, m) => ReadyAt(c, k, w, m)
    <3>1. Unasked(c, k, g) => Unasked(c, k, w)
      BY <1>1, <1>3, <2>1 DEF Unasked
    <3> QED
      BY <1>1, <2>1, <2>3, <3>1 DEF ReadyAt, Quiet, AgcAt, Matched
  <2>5. AgcNote(c, b, w, m)
    BY <1>1, <2>1, <2>2, <2>4, AgcStages
  <2> QED
    BY <1>2, <2>1, <2>5
<1>8. ASSUME NEW k \in 1 .. LastOf(c) + 1, AgcTell(c, k, a, op, b) PROVE Goal
  <2>1. a = AgcReady(k) /\ b = AgcToldOf(k) /\ op.mcu = "agc" /\ op.box = 3 /\ op.value = RoundsOf(c)[k].code
    BY <1>8 DEF AgcTell, Put
  <2>2. g.fw = "agc" /\ ("wait" \notin m => ReadyAt(c, k, g, m))
    BY <2>1, AgcStages
  <2>3. ReadyAt(c, k, g, m) => TellingAt(c, k, w, m)
    BY <1>1, <2>1 DEF ReadyAt, TellingAt, Quiet, AgcAt, Matched, Unasked
  <2>4. ReadyAt(c, k, g, m) => TellingAt(c, k, g, m \cup {"agc write"})
    BY DEF ReadyAt, TellingAt, Quiet
  <2>5. AgcNote(c, b, w, m)
    BY <1>1, <2>1, <2>2, <2>3, AgcStages
  <2>6. "wait" \notin m \cup {"agc write"} => "wait" \notin m
    OBVIOUS
  <2>7. AgcNote(c, b, g, m \cup {"agc write"})
    BY <2>1, <2>2, <2>4, <2>6, AgcStages
  <2> QED
    BY <2>1, <2>5, <2>7
<1> HIDE DEF Goal
<1>9. Goal
  BY <1>5, <1>6, <1>7, <1>8, Zenon DEF AgcLeads
<1> QED
  BY <1>9 DEF Goal

\* The status of the AGC awaited, or the wait given up.
LEMMA AgcAwait ==
    ASSUME NEW c, NEW a, NEW b, NEW op, op.op = "await", AgcLeads(c, a, op, b),
           NEW g, NEW m, AgcNote(c, a, g, m)
    PROVE  /\ op.mcu = "agc"
           /\ g.status = op.value => AgcNote(c, b, g, m)
           /\ AgcNote(c, b, g, m \cup {"wait"})
<1> DEFINE Goal == /\ op.mcu = "agc"
                   /\ g.status = op.value => AgcNote(c, b, g, m)
                   /\ AgcNote(c, b, g, m \cup {"wait"})
<1>1. g.fw = "agc"
  BY DEF AgcNote, AgcFine
<1>2. "wait" \in m \cup {"wait"}
  OBVIOUS
<1>3. PICK l \in Nat \ {0, 1} : l = LastOf(c)
  BY ConfLast
<1>4. \A mcu, x, v, how : op # Put(mcu, x, v) /\ op # Check(mcu, x, v, how)
  BY DEF Put, Check
<1>5. \A k, j : ~AgcShow(c, k, j, a, op, b) /\ ~AgcTell(c, k, a, op, b)
  BY <1>4 DEF AgcShow, AgcTell
<1>6. ASSUME AgcTop(a, op, b) PROVE Goal
  <2>1. a = AgcBoot /\ op.mcu = "agc" /\ op.value = 1 /\ b = AgcReady(1)
    BY <1>6 DEF AgcTop, Await
  <2>2. "wait" \notin m => g.round \in {0, 1} /\ g.status = g.round /\ g.put[3] # 128 /\ g.taken = <<>>
    BY <2>1, AgcStages
  <2>3. RoundsOf(c)[1].code = 128 /\ 1 \in 1 .. LastOf(c) + 1 /\ Unasked(c, 1, g)
    <3>1. RoundsOf(c)[1].code = 128
      BY ConfRounds
    <3> QED
      BY <1>3, <3>1 DEF Unasked
  <2>4. g.status = 1 /\ "wait" \notin m => Quiet(c, 1, g)
    BY <2>2, <2>3 DEF Quiet, AgcAt
  <2>5. Matched(c, 0, g)
    BY DEF Matched
  <2>6. g.status = 1 /\ "wait" \notin m => ReadyAt(c, 1, g, m)
    BY <2>3, <2>4, <2>5 DEF ReadyAt
  <2> QED
    BY <1>1, <1>2, <2>1, <2>3, <2>6, AgcStages
<1>7. ASSUME NEW k \in 1 .. LastOf(c), AgcHear(c, k, a, op, b) PROVE Goal
  <2>1. a = AgcToldOf(k) /\ op.mcu = "agc" /\ op.value = ParamsOf(c)[k].status /\ b = AgcCheck(k, 0)
    BY <1>4, <1>7 DEF AgcHear, Await
  <2>2. k \in 1 .. LastOf(c) + 1 /\ k # LastOf(c) + 1
    BY <1>3
  <2>3. "wait" \notin m => TellingAt(c, k, g, m)
    BY <2>1, <2>2, AgcStages
  <2>4. ASSUME g.status = op.value, AgcAt(c, k, g) PROVE FALSE
    <3>1. RoundsOf(c)[k].status = ParamsOf(c)[k].status
      BY ConfRound
    <3>2. CASE k = 1
      <4>1. RoundsOf(c)[1].status # 1
        BY ConfRounds
      <4> QED
        BY <2>1, <2>4, <3>1, <3>2, <4>1 DEF AgcAt
    <3>3. CASE k # 1
      <4>1. PICK j \in 1 .. LastOf(c) : j = k - 1 /\ j + 1 = k
        BY <1>3, <3>3
      <4>3. RoundsOf(c)[j].status # RoundsOf(c)[j + 1].status
        BY ConfRound
      <4>4. PICK h : h = j + 1
        OBVIOUS
      <4>5. RoundsOf(c)[j].status # RoundsOf(c)[h].status /\ h = k
        BY <4>1, <4>3, <4>4, Zenon
      <4>2. RoundsOf(c)[j].status # RoundsOf(c)[k].status
        BY <4>5, Zenon
      <4> QED
        BY <2>1, <2>4, <3>1, <3>3, <4>1, <4>2 DEF AgcAt
    <3> QED
      BY <3>2, <3>3
  <2>5. g.status = op.value /\ TellingAt(c, k, g, m) => ShownAt(c, k, 0, g, m)
    <3>1. \A i \in 1 .. 0 : Same(g.taken[k][i], ParamsOf(c)[k].check[i], ParamsOf(c)[k].how)
      OBVIOUS
    <3> QED
      BY <2>4, <3>1 DEF TellingAt, ShownAt
  <2> QED
    BY <1>1, <1>2, <2>1, <2>3, <2>5, AgcStages
<1> HIDE DEF Goal
<1>8. Goal
  BY <1>5, <1>6, <1>7, Zenon DEF AgcLeads
<1> QED
  BY <1>8 DEF Goal

\* A mailbox of the AGC is what it was compared with, or could not be read.
LEMMA AgcShows ==
    ASSUME NEW c \in Configuration, NEW a, NEW b, NEW op, op.op = "check", AgcLeads(c, a, op, b),
           NEW g, NEW m, AgcNote(c, a, g, m)
    PROVE  /\ op.mcu = "agc"
           /\ Same(g.show[op.box], op.value, op.how) => AgcNote(c, b, g, m)
           /\ AgcNote(c, b, g, m \cup {"read"})
<1> DEFINE Goal == /\ op.mcu = "agc"
                   /\ Same(g.show[op.box], op.value, op.how) => AgcNote(c, b, g, m)
                   /\ AgcNote(c, b, g, m \cup {"read"})
<1>1. g.fw = "agc"
  BY DEF AgcNote, AgcFine
<1>2. AgcNote(c, a, g, m \cup {"read"})
  BY Worse
<1>3. PICK l \in Nat \ {0} : l = LastOf(c)
  BY ConfLast
<1>4. \A mcu, x, v : op # Put(mcu, x, v) /\ op # Await(mcu, v)
  BY DEF Put, Await
<1>5. \A k : ~AgcHear(c, k, a, op, b) /\ ~AgcTell(c, k, a, op, b)
  BY <1>4 DEF AgcHear, AgcTell
<1>6. ASSUME AgcTop(a, op, b) PROVE Goal
  <2>1. op.mcu = "agc" /\ b = a
    BY <1>4, <1>6 DEF AgcTop
  <2> QED
    BY <1>2, <2>1
<1>7. ASSUME NEW k \in 1 .. LastOf(c), NEW j \in 1 .. Len(ParamsOf(c)[k].check), AgcShow(c, k, j, a, op, b) PROVE Goal
  <2>1. /\ a = AgcCheck(k, j - 1) /\ op.mcu = "agc" /\ op.box = j - 1 /\ op.value = ParamsOf(c)[k].check[j] /\ op.how = ParamsOf(c)[k].how
        /\ b = IF j = Len(ParamsOf(c)[k].check) THEN AgcReady(k + 1) ELSE AgcCheck(k, j)
    BY <1>7 DEF AgcShow, Check
  <2>2. "wait" \notin m => ShownAt(c, k, j - 1, g, m)
    BY <2>1, AgcStages
  <2>3. PICK n \in 1 .. 3 : n = Len(ParamsOf(c)[k].check)
    BY ConfRounds
  <2>4. ASSUME ShownAt(c, k, j - 1, g, m), Same(g.show[op.box], op.value, op.how) PROVE ShownAt(c, k, j, g, m)
    <3>1. Quiet(c, k + 1, g) /\ Shown(g)
      BY <2>4 DEF ShownAt
    <3>2. Len(g.taken) = k
      BY <1>3, <3>1 DEF Quiet, AgcAt
    <3>10. j \in 1 .. n
      BY <2>3
    <3>3. j \in 1 .. 3
      BY <3>10
    <3>4. Same(g.taken[k][j], ParamsOf(c)[k].check[j], ParamsOf(c)[k].how)
      BY <2>1, <2>4, <3>1, <3>2, <3>3 DEF Shown
    <3>5. "read" \notin m => \A i \in 1 .. j - 1 : Same(g.taken[k][i], ParamsOf(c)[k].check[i], ParamsOf(c)[k].how)
      BY <2>4 DEF ShownAt
    <3>6. \A i \in 1 .. j : i = j \/ i \in 1 .. j - 1
      BY <3>3
    <3>7. "read" \notin m => \A i \in 1 .. j : Same(g.taken[k][i], ParamsOf(c)[k].check[i], ParamsOf(c)[k].how)
      BY <3>4, <3>5, <3>6
    <3>8. "read" \notin m => Matched(c, k - 1, g) /\ Unasked(c, k, g)
      BY <2>4 DEF ShownAt
    <3> QED
      BY <3>1, <3>7, <3>8 DEF ShownAt
  <2>5. ASSUME ShownAt(c, k, j, g, m), j = n PROVE ReadyAt(c, k + 1, g, m)
    <3>1. Quiet(c, k + 1, g) /\ Shown(g)
      BY <2>5 DEF ShownAt
    <3>2. ASSUME "read" \notin m PROVE Matched(c, k, g)
      <4>1. \A i \in 1 .. n : Same(g.taken[k][i], ParamsOf(c)[k].check[i], ParamsOf(c)[k].how)
        BY <2>5, <3>2 DEF ShownAt
      <4>2. PICK p \in 1 .. 3 : p = Len(ParamsOf(c)[k].put)
        BY ConfRounds
      <4>3. p <= n /\ \A i \in 1 .. p : ParamsOf(c)[k].put[i] = ParamsOf(c)[k].check[i]
        <5>1. Len(ParamsOf(c)[k].put) <= Len(ParamsOf(c)[k].check)
          BY ConfRounds
        <5>2. \A i \in 1 .. Len(ParamsOf(c)[k].put) : ParamsOf(c)[k].put[i] = ParamsOf(c)[k].check[i]
          BY ConfMatch
        <5> QED
          BY <2>3, <4>2, <5>1, <5>2
      <4>4. \A i \in 1 .. p : i \in 1 .. n
        BY <4>3
      <4>5. \A i \in 1 .. Len(ParamsOf(c)[k].put) : Same(g.taken[k][i], ParamsOf(c)[k].put[i], ParamsOf(c)[k].how)
        BY <4>1, <4>2, <4>3, <4>4
      <4>6. Matched(c, k - 1, g)
        BY <2>5, <3>2 DEF ShownAt
      <4>7. \A h \in 1 .. k : h = k \/ h \in 1 .. k - 1
        BY <1>3
      <4> QED
        BY <4>5, <4>6, <4>7 DEF Matched
    <3>3. ASSUME "read" \notin m PROVE Unasked(c, k + 1, g)
      <4>1. CASE k >= LastOf(c)
        BY <2>5, <3>3, <4>1 DEF ShownAt, Unasked
      <4>2. CASE k = LastOf(c) - 1
        <5>1. Len(g.taken) = k
          BY <1>3, <3>1 DEF Quiet, AgcAt
        <5>2. ParamsOf(c)[k].check[1] = 8 /\ ParamsOf(c)[k].how = "number"
          BY <4>2, ConfRounds
        <5>3. Same(g.taken[k][1], ParamsOf(c)[k].check[1], ParamsOf(c)[k].how)
          <6>1. 1 \in 1 .. j
            BY <2>3, <2>5
          <6> QED
            BY <2>5, <3>3, <6>1 DEF ShownAt
        <5>4. g.taken[k][1] = g.put[0]
          BY <3>1, <5>1 DEF Shown
        <5> QED
          BY <5>2, <5>3, <5>4 DEF Unasked, Same
      <4>3. CASE k < LastOf(c) - 1
        BY <1>3, <4>3 DEF Unasked
      <4> QED
        BY <1>3, <4>1, <4>2, <4>3
    <3>4. (k + 1) - 1 = k
      BY <1>3
    <3> QED
      BY <3>1, <3>2, <3>3, <3>4 DEF ReadyAt
  <2>6. CASE j = n
    <3>1. b = AgcReady(k + 1) /\ k + 1 \in 1 .. LastOf(c) + 1
      BY <1>3, <2>1, <2>3, <2>6
    <3>2. ShownAt(c, k, j - 1, g, m) => ReadyAt(c, k + 1, g, m \cup {"read"})
      BY DEF ShownAt, ReadyAt
    <3>3. "wait" \notin m \cup {"read"} => "wait" \notin m
      OBVIOUS
    <3>4. AgcNote(c, b, g, m \cup {"read"})
      BY <1>1, <2>2, <3>1, <3>2, <3>3, AgcStages
    <3>5. Same(g.show[op.box], op.value, op.how) => AgcNote(c, b, g, m)
      BY <1>1, <2>2, <2>4, <2>5, <2>6, <3>1, AgcStages
    <3> QED
      BY <2>1, <3>4, <3>5
  <2>7. CASE j # n
    <3>1. b = AgcCheck(k, j)
      BY <2>1, <2>3, <2>7
    <3>2. ShownAt(c, k, j - 1, g, m) => ShownAt(c, k, j, g, m \cup {"read"})
      BY DEF ShownAt
    <3>3. "wait" \notin m \cup {"read"} => "wait" \notin m
      OBVIOUS
    <3>4. AgcNote(c, b, g, m \cup {"read"})
      BY <1>1, <2>2, <3>1, <3>2, <3>3, AgcStages
    <3>5. Same(g.show[op.box], op.value, op.how) => AgcNote(c, b, g, m)
      BY <1>1, <2>2, <2>4, <3>1, AgcStages
    <3> QED
      BY <2>1, <3>4, <3>5
  <2> QED
    BY <2>6, <2>7
<1> HIDE DEF Goal
<1>8. Goal
  BY <1>5, <1>6, <1>7, Zenon DEF AgcLeads
<1> QED
  BY <1>8 DEF Goal

-----------------------------------------------------------------------------
(* The steps of the AGC firmware.                                            *)

\* The AGC firmware boots.
LEMMA AgcBoots ==
    ASSUME NEW c, NEW a, NEW g, NEW m, AgcNote(c, a, g, m), g.round = 0,
           NEW w, w.fw = g.fw, w.put = g.put, w.taken = g.taken, w.status = 1, w.round = 1
    PROVE  AgcNote(c, a, w, m)
<1>1. g.fw = "agc" /\ ("wait" \notin m => AgcHolds(c, a, g, m)) /\ AgcFormed(c, a)
  BY DEF AgcNote, AgcFine
<1>2. PICK l \in Nat \ {0} : l = LastOf(c)
  BY ConfLast
<1>3. \A k \in 1 .. l + 1 : ~AgcAt(c, k, g)
  BY DEF AgcAt
<1>4. \A k \in 1 .. l + 1 : ~ReadyAt(c, k, g, m)
  BY <1>3 DEF ReadyAt, Quiet
<1>5. \A k \in 1 .. l + 1 : g.round # k + 1
  OBVIOUS
<1>6. \A k \in 1 .. l + 1 : ~TellingAt(c, k, g, m)
  BY <1>3, <1>5 DEF TellingAt, Quiet, AgcAt
<1>7. \A k \in 1 .. LastOf(c) : \A j : ~ShownAt(c, k, j, g, m)
  BY <1>2, <1>5 DEF ShownAt, Quiet, AgcAt
<1>8. ASSUME "wait" \notin m PROVE a[1] = "agc boot"
  <2>1. a[1] # "agc ready" /\ a[1] # "agc told"
    BY <1>1, <1>2, <1>4, <1>6, <1>8 DEF AgcFormed, AgcHolds
  <2>2. a[1] # "agc check"
    BY <1>1, <1>7, <1>8, Zenon DEF AgcFormed, AgcHolds
  <2> QED
    BY <1>1, <2>1, <2>2 DEF AgcFormed, AgcNotes
<1>9. "wait" \notin m => AgcHolds(c, a, w, m)
  BY <1>1, <1>8 DEF AgcHolds
<1> QED
  BY <1>1, <1>9 DEF AgcNote, AgcFine

\* The firmware has been told what it waits for.
ToldTo(c, g) == g.round \in 1 .. LastOf(c) + 1 /\ g.put[3] = RoundsOf(c)[g.round].code

\* A firmware not told of its round does not take it.
LEMMA NotTold ==
    ASSUME NEW c, NEW k \in Nat, NEW g, Quiet(c, k, g)
    PROVE  ~ToldTo(c, g)
BY DEF Quiet, AgcAt, ToldTo

\* And takes it.
TookIt(c, g, w) ==
  /\ w.fw = g.fw /\ w.put = g.put /\ w.status = RoundsOf(c)[g.round].status /\ w.round = g.round + 1
  /\ \A k \in 0 .. 3 : w.show[k] = g.put[k]
  /\ w.taken = Append(g.taken, <<g.put[0], g.put[1], g.put[2]>>)

\* A firmware told of its round waits for the next, and has taken what was put.
LEMMA TookAt ==
    ASSUME NEW c, NEW k \in 1 .. LastOf(c) + 1, NEW g \in Micro, NEW m, TellingAt(c, k, g, m), ToldTo(c, g),
           NEW w, TookIt(c, g, w)
    PROVE  Quiet(c, k + 1, w) /\ TellingAt(c, k, w, m)
<1>1. PICK l \in Nat \ {0} : l = LastOf(c)
  BY ConfLast
<1>2. k \in Nat /\ k + 1 \in Nat /\ (k + 1) - 1 = k /\ k + 1 # 1
  BY <1>1
<1>3. AgcAt(c, k, g)
  BY <1>2, NotTold DEF TellingAt
<1>4. g.round = k /\ Len(g.taken) = k - 1 /\ g.put[3] = RoundsOf(c)[k].code
  BY <1>3 DEF AgcAt, ToldTo
<1>5. PICK t : t = g.taken
  OBVIOUS
<1>6. PICK u : u = <<g.put[0], g.put[1], g.put[2]>>
  OBVIOUS
<1>7. t \in Seq(Triples) /\ u[1] = g.put[0] /\ u[2] = g.put[1] /\ u[3] = g.put[2] /\ u \in Triples
  BY <1>5, <1>6 DEF Micro, Triples
<1>8. /\ Len(Append(t, u)) = k /\ Append(t, u)[k] = u
      /\ \A i \in 1 .. k - 1 : Append(t, u)[i] = t[i]
  BY <1>2, <1>4, <1>5, <1>7
<1>9. PICK v : v = w.taken
  OBVIOUS
<1>10. Len(v) = k /\ v[k] = u /\ \A i \in 1 .. k - 1 : v[i] = g.taken[i]
  BY <1>5, <1>6, <1>8, <1>9 DEF TookIt
<1>11. w.round = k + 1 /\ w.status = RoundsOf(c)[k].status /\ w.put = g.put /\ \A i \in 0 .. 3 : w.show[i] = g.put[i]
  BY <1>4 DEF TookIt
<1>12. AgcAt(c, k + 1, w)
  BY <1>2, <1>9, <1>10, <1>11 DEF AgcAt
<1>13. k + 1 <= LastOf(c) + 1 => RoundsOf(c)[k].code # RoundsOf(c)[k + 1].code
  <2>1. k + 1 <= LastOf(c) + 1 => k \in 1 .. LastOf(c)
    BY <1>1
  <2>2. \A i \in 1 .. LastOf(c) : RoundsOf(c)[i].code # RoundsOf(c)[i + 1].code
    BY ConfRound
  <2> QED
    BY <2>1, <2>2
<1>14. Quiet(c, k + 1, w)
  BY <1>4, <1>11, <1>12, <1>13 DEF Quiet
<1>15. Shown(w)
  <2> SUFFICES ASSUME NEW i \in 1 .. 3
               PROVE  w.taken[Len(w.taken)][i] = w.put[i - 1] /\ w.show[i - 1] = w.put[i - 1]
    BY DEF Shown
  <2>1. w.taken[Len(w.taken)] = u
    BY <1>9, <1>10
  <2>2. i - 1 \in 0 .. 3 /\ (i = 1 \/ i = 2 \/ i = 3)
    OBVIOUS
  <2>3. u[i] = g.put[i - 1]
    BY <1>7, <2>2
  <2> QED
    BY <1>11, <2>1, <2>2, <2>3
<1>16. "read" \notin m => Matched(c, k - 1, w)
  <2>1. "read" \notin m => Matched(c, k - 1, g)
    BY DEF TellingAt
  <2> QED
    BY <1>9, <1>10, <2>1 DEF Matched
<1>17. "read" \notin m => Unasked(c, k, w)
  BY <1>11 DEF TellingAt, Unasked
<1> QED
  BY <1>14, <1>15, <1>16, <1>17 DEF TellingAt

\* The AGC firmware takes what it was told of.
LEMMA AgcTook ==
    ASSUME NEW c, NEW a, NEW g \in Micro, NEW m, AgcNote(c, a, g, m), ToldTo(c, g), NEW w, TookIt(c, g, w)
    PROVE  AgcNote(c, a, w, m)
<1>1. g.fw = "agc" /\ ("wait" \notin m => AgcHolds(c, a, g, m)) /\ AgcFormed(c, a) /\ w.fw = "agc"
  BY DEF AgcNote, AgcFine, TookIt
<1>2. PICK l \in Nat \ {0} : l = LastOf(c)
  BY ConfLast
<1>6. \A k \in 1 .. LastOf(c) + 1 : ~ReadyAt(c, k, g, m)
  BY <1>2, NotTold DEF ReadyAt
<1>7. \A k \in 1 .. LastOf(c) : \A j : ~ShownAt(c, k, j, g, m)
  BY <1>2, NotTold DEF ShownAt
<1>8. ~(g.round \in {0, 1} /\ g.put[3] # 128)
  <2>1. RoundsOf(c)[1].code = 128
    BY ConfRounds
  <2> QED
    BY <1>2, <2>1 DEF ToldTo
<1>3. ASSUME "wait" \notin m PROVE a[1] = "agc told"
  <2>1. a[1] # "agc boot"
    BY <1>1, <1>3, <1>8, Zenon DEF AgcHolds
  <2>2. a[1] # "agc ready"
    BY <1>1, <1>3, <1>6, Zenon DEF AgcHolds, AgcFormed
  <2>3. a[1] # "agc check"
    BY <1>1, <1>3, <1>7, Zenon DEF AgcHolds, AgcFormed
  <2> QED
    BY <1>1, <2>1, <2>2, <2>3 DEF AgcFormed, AgcNotes
<1>4. ASSUME "wait" \notin m PROVE TellingAt(c, a[2], w, m)
  <2>1. a[2] \in 1 .. LastOf(c) + 1 /\ TellingAt(c, a[2], g, m)
    BY <1>1, <1>3, <1>4 DEF AgcFormed, AgcHolds
  <2> QED
    BY <2>1, TookAt
<1>5. "wait" \notin m => AgcHolds(c, a, w, m)
  BY <1>3, <1>4 DEF AgcHolds
<1> QED
  BY <1>1, <1>5 DEF AgcNote, AgcFine

-----------------------------------------------------------------------------
(* The arbiter.                                                              *)

\* At each of its notes.
ArbStage(c, k, g, r, m) == k \in 1 .. 8 /\ ArbFine(c, k, g, r, m)

\* What holds at the notes of sx1302_arb_start.
LEMMA ArbStages ==
    ASSUME NEW c, NEW g, NEW r, NEW m, NEW k
    PROVE  ArbNote(c, ArbAt(k), g, r, m) <=> ArbStage(c, k, g, r, m)
<1>1. PICK a : a = ArbAt(k)
  OBVIOUS
<1>2. a[1] = "arb" /\ a[2] = k
  BY <1>1 DEF ArbAt
<1>3. ArbNote(c, a, g, r, m) <=> ArbStage(c, k, g, r, m)
  BY <1>2 DEF ArbNote, ArbStage
<1> QED
  BY <1>1, <1>3

\* The operations of sx1302_arb_start.
LEMMA ArbOps ==
    ASSUME NEW c, NEW a, NEW b, NEW op, ArbLeads(c, a, op, b)
    PROVE  \E k \in 1 .. 7 :
             /\ a = ArbAt(k) /\ b = ArbAt(k + 1)
             /\ \/ k = 1 /\ op = Await("arb", 1)
                \/ k = 2 /\ op = Check("arb", 0, ArbVersion, "number")
                \/ k = 3 /\ op = Put("arb", 0, 7)
                \/ k = 4 /\ op = Put("arb", 3, ArbDualDemod(c.ftime))
                \/ k = 5 /\ op = Put("arb", 2, 3)
                \/ k = 6 /\ op = Put("arb", 1, 1)
                \/ k = 7 /\ op = Await("arb", 0)
<1>1. PICK k \in 1 .. 7 : a = ArbAt(k) /\ op = ArbStart(c.ftime)[k] /\ b = ArbAt(k + 1)
  BY DEF ArbLeads
<1>2. PICK s : s = ArbStart(c.ftime)
  OBVIOUS
<1>3. /\ s[1] = Await("arb", 1) /\ s[2] = Check("arb", 0, ArbVersion, "number") /\ s[3] = Put("arb", 0, 7)
      /\ s[4] = Put("arb", 3, ArbDualDemod(c.ftime)) /\ s[5] = Put("arb", 2, 3) /\ s[6] = Put("arb", 1, 1)
      /\ s[7] = Await("arb", 0)
  BY <1>2 DEF ArbStart
<1>4. k = 1 \/ k = 2 \/ k = 3 \/ k = 4 \/ k = 5 \/ k = 6 \/ k = 7
  OBVIOUS
<1> QED
  BY <1>1, <1>2, <1>3, <1>4, Zenon

\* The status of the arbiter at its notes.
LEMMA ArbStatus ==
    ASSUME NEW c, NEW k \in 1 .. 7, NEW r
    PROVE  ArbHolds(c, k, r) <=> /\ ArbWritten(c, k, r)
                                 /\ \/ k = 1 /\ r.round = 0 /\ r.status = 0 /\ r.put[1] = 0
                                    \/ r.round = 1 /\ r.status = 1 /\ r.put[1] = IF k = 7 THEN 1 ELSE 0
                                    \/ k = 7 /\ ArbTaken(c, r)
BY DEF ArbHolds

\* A mailbox write to the arbiter, done or lost.
LEMMA ArbPut ==
    ASSUME NEW c, NEW a, NEW b, NEW op, op.op = "put", ArbLeads(c, a, op, b),
           NEW g, NEW r, NEW m, ArbNote(c, a, g, r, m), NEW w, Rewritten(w, r, op.box, op.value)
    PROVE  /\ op.mcu = "arb"
           /\ ArbNote(c, b, g, w, m)
           /\ ArbNote(c, b, g, r, m \cup {"arb write"})
<1>1. \A mcu, x, v, how : op # Await(mcu, v) /\ op # Check(mcu, x, v, how)
  BY DEF Await, Check
<1>0. PICK k \in 1 .. 7 :
             /\ a = ArbAt(k) /\ b = ArbAt(k + 1)
             /\ \/ k = 1 /\ op = Await("arb", 1)
                \/ k = 2 /\ op = Check("arb", 0, ArbVersion, "number")
                \/ k = 3 /\ op = Put("arb", 0, 7)
                \/ k = 4 /\ op = Put("arb", 3, ArbDualDemod(c.ftime))
                \/ k = 5 /\ op = Put("arb", 2, 3)
                \/ k = 6 /\ op = Put("arb", 1, 1)
                \/ k = 7 /\ op = Await("arb", 0)
  BY ArbOps
<1>2. /\ a = ArbAt(k) /\ b = ArbAt(k + 1)
      /\ \/ k = 3 /\ op = Put("arb", 0, 7)
         \/ k = 4 /\ op = Put("arb", 3, ArbDualDemod(c.ftime))
         \/ k = 5 /\ op = Put("arb", 2, 3)
         \/ k = 6 /\ op = Put("arb", 1, 1)
  BY <1>0, <1>1, Zenon
<1>3. /\ op.mcu = "arb"
      /\ \/ k = 3 /\ op.box = 0 /\ op.value = 7
         \/ k = 4 /\ op.box = 3 /\ op.value = ArbDualDemod(c.ftime)
         \/ k = 5 /\ op.box = 2 /\ op.value = 3
         \/ k = 6 /\ op.box = 1 /\ op.value = 1
  BY <1>2 DEF Put
<1>4. /\ g.fw = "agc" /\ r.fw = "arb"
      /\ "wait" \notin m => AgcDone(c, g, m)
      /\ m \cap {"wait", "arb write"} = {} => ArbHolds(c, k, r)
  BY <1>2, ArbStages DEF ArbStage, ArbFine
<1>5. /\ w.fw = r.fw /\ w.status = r.status /\ w.round = r.round /\ w.taken = r.taken
      /\ w.put[0] = (IF op.box = 0 THEN op.value ELSE r.put[0]) /\ w.put[1] = (IF op.box = 1 THEN op.value ELSE r.put[1])
      /\ w.put[2] = (IF op.box = 2 THEN op.value ELSE r.put[2]) /\ w.put[3] = (IF op.box = 3 THEN op.value ELSE r.put[3])
  BY DEF Rewritten
<1>6. k + 1 \in 1 .. 7 /\ k + 1 \in 1 .. 8 /\ k # 1 /\ k # 7 /\ k + 1 # 1 /\ (k + 1 = 7 <=> k = 6)
  BY <1>3
<1>7. ArbHolds(c, k, r) => ArbWritten(c, k, r) /\ r.round = 1 /\ r.status = 1 /\ r.put[1] = 0
  BY <1>6, ArbStatus
<1>8. ArbWritten(c, k, r) => ArbWritten(c, k + 1, w)
  BY <1>3, <1>5 DEF ArbWritten
<1>9. r.put[1] = 0 => w.put[1] = IF k + 1 = 7 THEN 1 ELSE 0
  BY <1>3, <1>5, <1>6
<1>10. ArbHolds(c, k, r) => ArbHolds(c, k + 1, w)
  BY <1>5, <1>6, <1>7, <1>8, <1>9, ArbStatus
<1>11. ArbStage(c, k + 1, g, w, m)
  BY <1>4, <1>5, <1>6, <1>10 DEF ArbStage, ArbFine
<1>12. ArbNote(c, a, g, r, m \cup {"arb write"})
  BY Worse
<1>13. ArbFine(c, k, g, r, m \cup {"arb write"})
  BY <1>2, <1>12, ArbStages DEF ArbStage
<1>14. ArbStage(c, k + 1, g, r, m \cup {"arb write"})
  BY <1>6, <1>13 DEF ArbStage, ArbFine
<1> QED
  BY <1>2, <1>3, <1>11, <1>14, ArbStages

\* The status of the arbiter awaited, or the wait given up.
LEMMA ArbAwait ==
    ASSUME NEW c, NEW a, NEW b, NEW op, op.op = "await", ArbLeads(c, a, op, b),
           NEW g, NEW r, NEW m, ArbNote(c, a, g, r, m)
    PROVE  /\ op.mcu = "arb"
           /\ r.status = op.value => ArbNote(c, b, g, r, m)
           /\ ArbNote(c, b, g, r, m \cup {"wait"})
<1>1. \A mcu, x, v, how : op # Put(mcu, x, v) /\ op # Check(mcu, x, v, how)
  BY DEF Put, Check
<1>0. PICK k \in 1 .. 7 :
             /\ a = ArbAt(k) /\ b = ArbAt(k + 1)
             /\ \/ k = 1 /\ op = Await("arb", 1)
                \/ k = 2 /\ op = Check("arb", 0, ArbVersion, "number")
                \/ k = 3 /\ op = Put("arb", 0, 7)
                \/ k = 4 /\ op = Put("arb", 3, ArbDualDemod(c.ftime))
                \/ k = 5 /\ op = Put("arb", 2, 3)
                \/ k = 6 /\ op = Put("arb", 1, 1)
                \/ k = 7 /\ op = Await("arb", 0)
  BY ArbOps
<1>2. /\ a = ArbAt(k) /\ b = ArbAt(k + 1)
      /\ \/ k = 1 /\ op = Await("arb", 1)
         \/ k = 7 /\ op = Await("arb", 0)
  BY <1>0, <1>1, Zenon
<1>3. op.mcu = "arb" /\ ((k = 1 /\ op.value = 1) \/ (k = 7 /\ op.value = 0))
  BY <1>2 DEF Await
<1>4. /\ g.fw = "agc" /\ r.fw = "arb"
      /\ "wait" \notin m => AgcDone(c, g, m)
      /\ m \cap {"wait", "arb write"} = {} => ArbHolds(c, k, r)
  BY <1>2, ArbStages DEF ArbStage, ArbFine
<1>5. r.status = op.value /\ ArbHolds(c, k, r) => ArbHolds(c, k + 1, r)
  <2>1. CASE k = 1
    <3>1. ArbHolds(c, 1, r) /\ r.status = 1 => r.round = 1 /\ r.put[1] = 0
      BY DEF ArbHolds
    <3>2. ArbWritten(c, 2, r)
      BY DEF ArbWritten
    <3>3. ArbHolds(c, 2, r) <=> /\ ArbWritten(c, 2, r)
                                /\ r.round = 1 /\ r.status = 1 /\ r.put[1] = 0
      BY DEF ArbHolds
    <3> QED
      BY <1>3, <2>1, <3>1, <3>2, <3>3
  <2>2. CASE k = 7
    <3>1. ArbHolds(c, 7, r) /\ r.status = 0 => ArbTaken(c, r)
      BY DEF ArbHolds
    <3>2. ArbTaken(c, r) => ArbHolds(c, 8, r)
      BY DEF ArbHolds
    <3> QED
      BY <1>3, <2>2, <3>1, <3>2
  <2> QED
    BY <1>3, <2>1, <2>2
<1>6. k + 1 \in 1 .. 8
  BY <1>3
<1>7. r.status = op.value => ArbStage(c, k + 1, g, r, m)
  BY <1>4, <1>5, <1>6 DEF ArbStage, ArbFine
<1>8. ArbStage(c, k + 1, g, r, m \cup {"wait"})
  BY <1>4, <1>6 DEF ArbStage, ArbFine
<1> QED
  BY <1>2, <1>3, <1>7, <1>8, ArbStages

\* The version of the arbiter is compared.
LEMMA ArbCheck ==
    ASSUME NEW c, NEW a, NEW b, NEW op, op.op = "check", ArbLeads(c, a, op, b),
           NEW g, NEW r, NEW m, ArbNote(c, a, g, r, m)
    PROVE  /\ op.mcu = "arb"
           /\ ArbNote(c, b, g, r, m)
<1>1. \A mcu, x, v : op # Put(mcu, x, v) /\ op # Await(mcu, v)
  BY DEF Put, Await
<1>0. PICK k \in 1 .. 7 :
             /\ a = ArbAt(k) /\ b = ArbAt(k + 1)
             /\ \/ k = 1 /\ op = Await("arb", 1)
                \/ k = 2 /\ op = Check("arb", 0, ArbVersion, "number")
                \/ k = 3 /\ op = Put("arb", 0, 7)
                \/ k = 4 /\ op = Put("arb", 3, ArbDualDemod(c.ftime))
                \/ k = 5 /\ op = Put("arb", 2, 3)
                \/ k = 6 /\ op = Put("arb", 1, 1)
                \/ k = 7 /\ op = Await("arb", 0)
  BY ArbOps
<1>2. op = Check("arb", 0, ArbVersion, "number") /\ a = ArbAt(2) /\ b = ArbAt(3)
  <2>1. a = ArbAt(k) /\ b = ArbAt(k + 1) /\ k = 2 /\ op = Check("arb", 0, ArbVersion, "number")
    BY <1>0, <1>1, Zenon
  <2> QED
    BY <2>1
<1>3. ArbHolds(c, 2, r) => ArbHolds(c, 3, r)
  BY DEF ArbHolds, ArbWritten
<1>5. ArbStage(c, 2, g, r, m)
  BY <1>2, ArbStages
<1>6. /\ g.fw = "agc" /\ r.fw = "arb"
      /\ "wait" \notin m => AgcDone(c, g, m)
      /\ m \cap {"wait", "arb write"} = {} => ArbHolds(c, 3, r)
  BY <1>3, <1>5 DEF ArbStage, ArbFine
<1>7. 3 \in 1 .. 8
  OBVIOUS
<1>4. ArbStage(c, 3, g, r, m)
  BY <1>6, <1>7 DEF ArbStage, ArbFine
<1> QED
  BY <1>2, <1>4, ArbStages DEF Check

\* sx1302_arb_start writes, waits and checks, and nothing else.
LEMMA ArbElse ==
    ASSUME NEW c, NEW a, NEW b, NEW op, ArbLeads(c, a, op, b)
    PROVE  op.op \in {"put", "await", "check"}
<1>1. \A mcu, x, v, how : Put(mcu, x, v).op = "put" /\ Await(mcu, v).op = "await" /\ Check(mcu, x, v, how).op = "check"
  BY DEF Put, Await, Check
<1> QED
  BY <1>1, ArbOps

\* The arbiter firmware boots.
LEMMA ArbBoots ==
    ASSUME NEW c, NEW a, NEW g, NEW r, NEW m, ArbNote(c, a, g, r, m), r.round = 0,
           NEW w, w.fw = r.fw, w.put = r.put, w.status = 1, w.round = 1
    PROVE  ArbNote(c, a, g, w, m)
<1>1. PICK k \in 1 .. 8 : k = a[2]
  BY DEF ArbNote
<1>2. ArbHolds(c, k, r) => ArbHolds(c, k, w)
  BY DEF ArbHolds, ArbTaken, ArbWritten
<1> QED
  BY <1>1, <1>2 DEF ArbNote, ArbFine

\* The arbiter takes its mode.
LEMMA ArbTook ==
    ASSUME NEW c, NEW a, NEW g, NEW r, NEW m, ArbNote(c, a, g, r, m), r.round = 1, r.put[1] = 1,
           NEW w, w.fw = r.fw, w.put = r.put, w.status = 0, w.round = 2,
           w.taken = <<<<r.put[0], r.put[2], r.put[3]>>>>
    PROVE  ArbNote(c, a, g, w, m)
<1>1. PICK k \in 1 .. 8 : k = a[2]
  BY DEF ArbNote
<1>2. ArbHolds(c, k, r) => k = 7 /\ ArbWritten(c, 7, r)
  BY DEF ArbHolds, ArbTaken
<1>3. ArbWritten(c, 7, r) => ArbTaken(c, w) /\ ArbWritten(c, 7, w)
  BY DEF ArbWritten, ArbTaken
<1>4. ArbHolds(c, k, r) => ArbHolds(c, k, w)
  BY <1>2, <1>3 DEF ArbHolds
<1> QED
  BY <1>1, <1>4 DEF ArbNote, ArbFine

-----------------------------------------------------------------------------
(* What holds at a note, from operation to operation.                        *)

\* An operation of a calibration is at a note of a calibration.
LEMMA CalFrom ==
    ASSUME NEW a, NEW b, NEW op, CalLeads(a, op, b)
    PROVE  a[1] \in CalNotes /\ op.op # "do"
<1>1. /\ CalBoot[1] \in CalNotes /\ CalAwake[1] \in CalNotes /\ CalResuming[1] \in CalNotes
      /\ CalIdle[1] \in CalNotes /\ CalLocked[1] \in CalNotes
      /\ \A k : CalAimed(k)[1] \in CalNotes
      /\ \A k, i : CalTold(k, i)[1] \in CalNotes /\ CalSettled(k, i)[1] \in CalNotes
  BY DEF CalBoot, CalAwake, CalResuming, CalIdle, CalLocked, CalAimed, CalTold, CalSettled, CalNotes
<1>2. \A mcu, x, v : Put(mcu, x, v).op # "do" /\ Await(mcu, v).op # "do" /\ Collect(v).op # "do"
  BY DEF Put, Await, Collect
<1>3. CalTop(a, op, b) => a[1] \in CalNotes /\ op.op # "do"
  BY <1>1, <1>2 DEF CalTop
<1>4. \A k : CalAim(k, a, op, b) => a[1] \in CalNotes /\ op.op # "do"
  BY <1>1, <1>2 DEF CalAim
<1>5. \A k, i : CalTell(k, i, a, op, b) \/ CalHear(k, i, a, op, b) => a[1] \in CalNotes /\ op.op # "do"
  BY <1>1, <1>2 DEF CalTell, CalHear
<1> QED
  BY <1>3, <1>4, <1>5, Zenon DEF CalLeads

\* An operation of sx1302_agc_start is at a note of it.
LEMMA AgcFrom ==
    ASSUME NEW c, NEW a, NEW b, NEW op, AgcLeads(c, a, op, b)
    PROVE  a[1] \in AgcNotes /\ op.op \in {"put", "await", "check"}
<1>1. /\ AgcBoot[1] \in AgcNotes
      /\ \A k : AgcReady(k)[1] \in AgcNotes /\ AgcToldOf(k)[1] \in AgcNotes
      /\ \A k, i : AgcCheck(k, i)[1] \in AgcNotes
  BY DEF AgcBoot, AgcReady, AgcToldOf, AgcCheck, AgcNotes
<1>2. \A mcu, x, v, how : Put(mcu, x, v).op = "put" /\ Await(mcu, v).op = "await" /\ Check(mcu, x, v, how).op = "check"
  BY DEF Put, Await, Check
<1> DEFINE Goal == a[1] \in AgcNotes /\ op.op \in {"put", "await", "check"}
<1>3. AgcTop(a, op, b) => Goal
  BY <1>1, <1>2 DEF AgcTop
<1>4. \A k : AgcHear(c, k, a, op, b) \/ AgcTell(c, k, a, op, b) => Goal
  BY <1>1, <1>2 DEF AgcHear, AgcTell
<1>5. \A k, i : AgcShow(c, k, i, a, op, b) => Goal
  BY <1>1, <1>2 DEF AgcShow
<1> HIDE DEF Goal
<1>6. Goal
  BY <1>3, <1>4, <1>5, Zenon DEF AgcLeads
<1> QED
  BY <1>6 DEF Goal

\* An operation of sx1302_arb_start is at a note of it.
LEMMA ArbFrom ==
    ASSUME NEW c, NEW a, NEW b, NEW op, ArbLeads(c, a, op, b)
    PROVE  a[1] = "arb" /\ op.op \in {"put", "await", "check"}
<1>1. \A k : ArbAt(k)[1] = "arb"
  BY DEF ArbAt
<1> QED
  BY <1>1, ArbElse DEF ArbLeads

\* Which note it is says what holds.
LEMMA HoldsKinds ==
    ASSUME NEW c, NEW a, NEW g, NEW r, NEW n, NEW m, Holds(c, a, g, r, n, m)
    PROVE  /\ a[1] \in CalNotes => CalNote(a, g, n, m)
           /\ a[1] \in AgcNotes => AgcNote(c, a, g, m)
           /\ a[1] = "arb" => ArbNote(c, a, g, r, m)
           /\ a = Off => g = Held /\ n = 0
<1>1. Off[1] = "off"
  BY DEF Off
<1>2. a = Off => a[1] = "off"
  BY <1>1
<1>3. CalNote(a, g, n, m) => a[1] \in CalNotes
  BY DEF CalNote, CalFormed
<1>4. AgcNote(c, a, g, m) => a[1] \in AgcNotes
  BY DEF AgcNote, AgcFormed
<1>5. ArbNote(c, a, g, r, m) => a[1] = "arb"
  BY DEF ArbNote
<1> QED
  BY <1>2, <1>3, <1>4, <1>5 DEF Holds, CalNotes, AgcNotes

\* A mailbox write, done or lost.
LEMMA HoldsPut ==
    ASSUME NEW c, NEW a, NEW b, NEW op, OpLeads(c, a, op, b), op.op = "put",
           NEW g, NEW r, NEW n, NEW m, Holds(c, a, g, r, n, m),
           NEW w, Rewritten(w, g, op.box, op.value), NEW x, Rewritten(x, r, op.box, op.value)
    PROVE  \/ op.mcu = "agc" /\ Holds(c, b, w, r, n, m) /\ Holds(c, b, g, r, n, m \cup {"agc write"})
           \/ op.mcu = "arb" /\ Holds(c, b, g, x, n, m) /\ Holds(c, b, g, r, n, m \cup {"arb write"})
<1>1. ASSUME CalLeads(a, op, b)
      PROVE  op.mcu = "agc" /\ Holds(c, b, w, r, n, m) /\ Holds(c, b, g, r, n, m \cup {"agc write"})
  <2>1. CalNote(a, g, n, m)
    BY <1>1, CalFrom, HoldsKinds
  <2>2. op.mcu = "agc" /\ CalNote(b, w, n, m) /\ CalNote(b, g, n, m \cup {"agc write"})
    BY <1>1, <2>1, CalPut
  <2> QED
    BY <2>2 DEF Holds
<1>2. ASSUME AgcLeads(c, a, op, b)
      PROVE  op.mcu = "agc" /\ Holds(c, b, w, r, n, m) /\ Holds(c, b, g, r, n, m \cup {"agc write"})
  <2>1. AgcNote(c, a, g, m)
    BY <1>2, AgcFrom, HoldsKinds
  <2>2. op.mcu = "agc" /\ AgcNote(c, b, w, m) /\ AgcNote(c, b, g, m \cup {"agc write"})
    BY <1>2, <2>1, AgcPut
  <2> QED
    BY <2>2 DEF Holds
<1>3. ASSUME ArbLeads(c, a, op, b)
      PROVE  op.mcu = "arb" /\ Holds(c, b, g, x, n, m) /\ Holds(c, b, g, r, n, m \cup {"arb write"})
  <2>1. ArbNote(c, a, g, r, m)
    BY <1>3, ArbFrom, HoldsKinds
  <2>2. op.mcu = "arb" /\ ArbNote(c, b, g, x, m) /\ ArbNote(c, b, g, r, m \cup {"arb write"})
    BY <1>3, <2>1, ArbPut
  <2> QED
    BY <2>2 DEF Holds
<1> QED
  BY <1>1, <1>2, <1>3 DEF OpLeads

\* A status that is the one awaited, or a wait given up.
LEMMA HoldsAwait ==
    ASSUME NEW c, NEW a, NEW b, NEW op, OpLeads(c, a, op, b), op.op = "await",
           NEW g, NEW r, NEW n, NEW m, Holds(c, a, g, r, n, m)
    PROVE  /\ (IF op.mcu = "agc" THEN g ELSE r).status = op.value => Holds(c, b, g, r, n, m)
           /\ Holds(c, b, g, r, n, m \cup {"wait"})
<1> DEFINE Goal == /\ (IF op.mcu = "agc" THEN g ELSE r).status = op.value => Holds(c, b, g, r, n, m)
                   /\ Holds(c, b, g, r, n, m \cup {"wait"})
<1>1. ASSUME CalLeads(a, op, b) PROVE Goal
  <2>1. CalNote(a, g, n, m)
    BY <1>1, CalFrom, HoldsKinds
  <2>2. op.mcu = "agc" /\ (g.status = op.value => CalNote(b, g, n, m)) /\ CalNote(b, g, n, m \cup {"wait"})
    BY <1>1, <2>1, CalAwait
  <2> QED
    BY <2>2 DEF Holds
<1>2. ASSUME AgcLeads(c, a, op, b) PROVE Goal
  <2>1. AgcNote(c, a, g, m)
    BY <1>2, AgcFrom, HoldsKinds
  <2>2. op.mcu = "agc" /\ (g.status = op.value => AgcNote(c, b, g, m)) /\ AgcNote(c, b, g, m \cup {"wait"})
    BY <1>2, <2>1, AgcAwait
  <2> QED
    BY <2>2 DEF Holds
<1>3. ASSUME ArbLeads(c, a, op, b) PROVE Goal
  <2>1. ArbNote(c, a, g, r, m)
    BY <1>3, ArbFrom, HoldsKinds
  <2>2. op.mcu = "arb" /\ (r.status = op.value => ArbNote(c, b, g, r, m)) /\ ArbNote(c, b, g, r, m \cup {"wait"})
    BY <1>3, <2>1, ArbAwait
  <2>3. op.mcu # "agc"
    BY <2>2
  <2> QED
    BY <2>2, <2>3 DEF Holds
<1> QED
  BY <1>1, <1>2, <1>3 DEF OpLeads

\* A mailbox that is what it is compared with, or could not be read.
LEMMA HoldsCheck ==
    ASSUME NEW c \in Configuration, NEW a, NEW b, NEW op, OpLeads(c, a, op, b), op.op = "check",
           NEW g, NEW r, NEW n \in Nat, NEW m, Holds(c, a, g, r, n, m)
    PROVE  /\ Same((IF op.mcu = "agc" THEN g ELSE r).show[op.box], op.value, op.how) => Holds(c, b, g, r, n, m)
           /\ Holds(c, b, g, r, n, m \cup {"read"})
<1> DEFINE Goal == /\ Same((IF op.mcu = "agc" THEN g ELSE r).show[op.box], op.value, op.how) => Holds(c, b, g, r, n, m)
                   /\ Holds(c, b, g, r, n, m \cup {"read"})
<1>1. ASSUME CalLeads(a, op, b) PROVE Goal
  <2>1. CalNote(a, g, n, m)
    BY <1>1, CalFrom, HoldsKinds
  <2>2. CalNote(b, g, n, m)
    BY <1>1, <2>1, CalElse
  <2>3. CalNote(b, g, n, m \cup {"read"})
    BY <2>2, Worse
  <2> QED
    BY <2>2, <2>3 DEF Holds
<1>2. ASSUME AgcLeads(c, a, op, b) PROVE Goal
  <2>1. AgcNote(c, a, g, m)
    BY <1>2, AgcFrom, HoldsKinds
  <2>2. op.mcu = "agc" /\ (Same(g.show[op.box], op.value, op.how) => AgcNote(c, b, g, m)) /\ AgcNote(c, b, g, m \cup {"read"})
    BY <1>2, <2>1, AgcShows
  <2> QED
    BY <2>2 DEF Holds
<1>3. ASSUME ArbLeads(c, a, op, b) PROVE Goal
  <2>1. ArbNote(c, a, g, r, m)
    BY <1>3, ArbFrom, HoldsKinds
  <2>2. ArbNote(c, b, g, r, m)
    BY <1>3, <2>1, ArbCheck
  <2>3. ArbNote(c, b, g, r, m \cup {"read"})
    BY <2>2, Worse
  <2> QED
    BY <2>2, <2>3 DEF Holds
<1> QED
  BY <1>1, <1>2, <1>3 DEF OpLeads

\* A lock, a judgement, and what is collected: of the round and the calibration asked for.
LEMMA HoldsElse ==
    ASSUME NEW c, NEW a, NEW b, NEW op, OpLeads(c, a, op, b), op.op \in {"collect", "locked", "judge"},
           NEW g, NEW r, NEW n \in Nat, NEW m, Holds(c, a, g, r, n, m)
    PROVE  /\ op.op = "locked" => Holds(c, b, g, r, n + 1, m)
           /\ op.op = "judge" => Holds(c, b, g, r, n, m)
           /\ op.op = "collect" => /\ Holds(c, b, g, r, n, m)
                                   /\ Calm(m) => <<n, op.round>> = <<g.runs, g.round - 2>>
<1>1. op.op \notin {"put", "await", "check", "do"}
  OBVIOUS
<1>2. CalLeads(a, op, b)
  BY <1>1, AgcFrom, ArbFrom DEF OpLeads
<1>3. CalNote(a, g, n, m)
  BY <1>2, CalFrom, HoldsKinds
<1>4. /\ op.op = "locked" => CalNote(b, g, n + 1, m)
      /\ op.op = "judge" => CalNote(b, g, n, m)
      /\ op.op = "collect" => /\ CalNote(b, g, n, m)
                              /\ Calm(m) => <<n, op.round>> = <<g.runs, g.round - 2>>
  BY <1>1, <1>2, <1>3, CalElse
<1> QED
  BY <1>4 DEF Holds

\* The functions that load a firmware, and the others.
LEMMA HoldsDo ==
    ASSUME NEW c, NEW a, NEW b, NEW op, OpLeads(c, a, op, b), op.op = "do",
           NEW g, NEW r, NEW n \in Nat, NEW m, Holds(c, a, g, r, n, m)
    PROVE  /\ op.what \notin Loads => Holds(c, b, g, r, n, m)
           /\ \A w : op.what = "load cal" /\ w = [Held EXCEPT !.fw = "cal", !.put = g.put] => Holds(c, b, w, r, n, m)
           /\ \A w : op.what = "load agc" /\ w = [Held EXCEPT !.fw = "agc", !.put = g.put] => Holds(c, b, w, r, n, m)
           /\ \A x : op.what = "load arb" /\ x = [Held EXCEPT !.fw = "arb"] /\ ~(g.fw = "agc" /\ ToldTo(c, g)) => Holds(c, b, g, x, n, m)
<1>1. DoLeads(c, a, op, b)
  BY CalFrom, AgcFrom, ArbFrom DEF OpLeads
<1>2. op.what \notin Loads => Holds(c, b, g, r, n, m)
  BY <1>1 DEF DoLeads, Loads
<1>3. ASSUME NEW w, op.what = "load cal", w = [Held EXCEPT !.fw = "cal", !.put = g.put] PROVE Holds(c, b, w, r, n, m)
  <2>1. a = Off /\ b = CalBoot
    BY <1>1, <1>3 DEF DoLeads, Loads
  <2>2. g = Held /\ n = 0
    BY <2>1, HoldsKinds
  <2>3. w.fw = "cal" /\ w.put = g.put /\ w.status = 0 /\ w.round = 0 /\ w.runs = 0
    BY <1>3 DEF Held
  <2>4. w.put[2] = 0 /\ w.put[3] = 0
    BY <2>2, <2>3, HeldIs
  <2>5. CalNote(b, w, n, m)
    BY <2>1, <2>2, <2>3, <2>4, CalStages DEF Tame
  <2> QED
    BY <2>5 DEF Holds
<1>4. ASSUME NEW w, op.what = "load agc", w = [Held EXCEPT !.fw = "agc", !.put = g.put] PROVE Holds(c, b, w, r, n, m)
  <2>1. a \in {Off, CalIdle} /\ b = AgcBoot
    BY <1>1, <1>4 DEF DoLeads, Loads
  <2>2. w.fw = "agc" /\ w.put = g.put /\ w.status = 0 /\ w.round = 0 /\ w.taken = <<>>
    BY <1>4 DEF Held
  <2>3. g.put[3] # 128
    <3>1. CASE a = Off
      BY <3>1, HoldsKinds, HeldIs
    <3>2. CASE a = CalIdle
      <4>1. a[1] \in CalNotes
        BY <3>2 DEF CalIdle, CalNotes
      <4>2. CalNote(a, g, n, m)
        BY <4>1, HoldsKinds
      <4> QED
        BY <4>2 DEF CalNote, CalFine, Tame
    <3> QED
      BY <2>1, <3>1, <3>2
  <2>4. AgcNote(c, b, w, m)
    BY <2>1, <2>2, <2>3, AgcStages
  <2> QED
    BY <2>4 DEF Holds
<1>5. ASSUME NEW x, op.what = "load arb", x = [Held EXCEPT !.fw = "arb"], ~(g.fw = "agc" /\ ToldTo(c, g)) PROVE Holds(c, b, g, x, n, m)
  <2>1. a = AgcToldOf(LastOf(c) + 1) /\ b = ArbAt(1)
    BY <1>1, <1>5 DEF DoLeads, Loads
  <2>2. PICK l \in Nat \ {0} : l = LastOf(c)
    BY ConfLast
  <2>3. a[1] \in AgcNotes
    BY <2>1 DEF AgcToldOf, AgcNotes
  <2>4. AgcNote(c, a, g, m)
    BY <2>3, HoldsKinds
  <2>5. l + 1 \in 1 .. LastOf(c) + 1 /\ l + 1 = LastOf(c) + 1
    BY <2>2
  <2>6. g.fw = "agc" /\ ("wait" \notin m => TellingAt(c, l + 1, g, m))
    BY <2>1, <2>4, <2>5, AgcStages
  <2>7. ASSUME TellingAt(c, l + 1, g, m) PROVE AgcDone(c, g, m)
    <3>1. AgcAt(c, l + 1, g) => g.put[3] # RoundsOf(c)[l + 1].code
      BY <1>5, <2>2, <2>5, <2>6 DEF ToldTo, AgcAt
    <3>2. (l + 1) + 1 = LastOf(c) + 2 /\ (l + 1) - 1 = LastOf(c)
      BY <2>2
    <3>3. (Quiet(c, LastOf(c) + 1, g) /\ "agc write" \in m) \/ AgcAt(c, LastOf(c) + 2, g)
      BY <2>5, <2>7, <3>1, <3>2 DEF TellingAt, Quiet
    <3>4. "read" \notin m => Matched(c, LastOf(c), g) /\ g.put[0] # 255
      <4>1. "read" \notin m => Matched(c, LastOf(c), g) /\ Unasked(c, l + 1, g)
        BY <2>7, <3>2 DEF TellingAt
      <4> QED
        BY <2>2, <4>1 DEF Unasked
    <3> QED
      BY <3>3, <3>4 DEF AgcDone, AgcAt
  <2>8. x.fw = "arb" /\ x.round = 0 /\ x.status = 0 /\ x.put[1] = 0
    <3>1. x.fw = "arb" /\ x.round = 0 /\ x.status = 0 /\ x.put = Held.put
      BY <1>5 DEF Held
    <3> QED
      BY <3>1, HeldIs
  <2>9. ArbHolds(c, 1, x)
    BY <2>8 DEF ArbHolds, ArbWritten
  <2>10. ArbStage(c, 1, g, x, m)
    <3>1. "wait" \notin m => AgcDone(c, g, m)
      BY <2>6, <2>7
    <3>2. 1 \in 1 .. 8
      OBVIOUS
    <3> QED
      BY <2>6, <2>8, <2>9, <3>1, <3>2 DEF ArbStage, ArbFine
  <2>11. ArbNote(c, b, g, x, m)
    BY <2>1, <2>10, ArbStages
  <2> QED
    BY <2>11 DEF Holds
<1> QED
  BY <1>2, <1>3, <1>4, <1>5

-----------------------------------------------------------------------------
(* What holds at a note, from step to step of a firmware.                    *)

\* The firmware of the AGC micro-controller boots.
LEMMA HoldsBoots ==
    ASSUME NEW c, NEW a, NEW g, NEW r, NEW n, NEW m, Holds(c, a, g, r, n, m), g.fw # "none", g.round = 0,
           NEW w, w.fw = g.fw, w.put = g.put, w.mode = g.mode, w.runs = g.runs, w.taken = g.taken,
           w.status = 1, w.round = 1
    PROVE  Holds(c, a, w, r, n, m)
<1>1. ~(a = Off /\ g = Held /\ n = 0)
  BY HeldIs
<1>2. CalNote(a, g, n, m) => CalNote(a, w, n, m)
  BY CalBoots
<1>3. AgcNote(c, a, g, m) => AgcNote(c, a, w, m)
  BY AgcBoots
<1>4. ArbNote(c, a, g, r, m) => ArbNote(c, a, w, r, m)
  <2>1. PICK l \in Nat \ {0} : l = LastOf(c)
    BY ConfLast
  <2>3. \A k \in 1 .. l + 2 : ~AgcAt(c, k, g)
    BY DEF AgcAt
  <2>4. LastOf(c) + 1 \in 1 .. l + 2 /\ LastOf(c) + 2 \in 1 .. l + 2
    BY <2>1
  <2>2. ~AgcDone(c, g, m)
    BY <2>3, <2>4 DEF AgcDone, Quiet
  <2> QED
    BY <2>2 DEF ArbNote, ArbFine
<1> QED
  BY <1>1, <1>2, <1>3, <1>4 DEF Holds

\* The firmware of the arbiter boots.
LEMMA HoldsArbBoots ==
    ASSUME NEW c, NEW a, NEW g, NEW r, NEW n, NEW m, Holds(c, a, g, r, n, m), r.round = 0,
           NEW w, w.fw = r.fw, w.put = r.put, w.status = 1, w.round = 1
    PROVE  Holds(c, a, g, w, n, m)
BY ArbBoots DEF Holds

\* The AGC takes what it was told of.
LEMMA HoldsTook ==
    ASSUME NEW c, NEW a, NEW g \in Micro, NEW r, NEW n, NEW m, Holds(c, a, g, r, n, m), g.fw = "agc", ToldTo(c, g),
           NEW w, TookIt(c, g, w)
    PROVE  Holds(c, a, w, r, n, m)
<1>1. ~(a = Off /\ g = Held /\ n = 0)
  BY HeldIs
<1>2. ~CalNote(a, g, n, m)
  BY DEF CalNote, CalFine, Tame
<1>3. AgcNote(c, a, g, m) => AgcNote(c, a, w, m)
  BY AgcTook
<1>4. ArbNote(c, a, g, r, m) => ArbNote(c, a, w, r, m)
  <2>1. PICK l \in Nat \ {0} : l = LastOf(c)
    BY ConfLast
  <2>2. ~Quiet(c, LastOf(c) + 1, g)
    <3>1. LastOf(c) + 1 \in Nat
      BY <2>1
    <3> QED
      BY <3>1, NotTold
  <2>3. ~AgcAt(c, LastOf(c) + 2, g)
    BY <2>1 DEF AgcAt, ToldTo
  <2>4. w.fw = "agc"
    BY DEF TookIt
  <2> QED
    BY <2>2, <2>3, <2>4 DEF ArbNote, ArbFine, AgcDone
<1> QED
  BY <1>1, <1>2, <1>3, <1>4 DEF Holds

\* The steps of the calibration firmware.
CalTook(g, w) ==
  /\ w.fw = g.fw /\ w.put = g.put
  /\ \/ g.round = 1 /\ g.put[3] = 255 /\ w.status = 0 /\ w.round = 2 /\ w.mode = g.mode /\ w.runs = g.runs
     \/ /\ g.round = 2 /\ g.put[3] = 1
        /\ w.status = 1 /\ w.round = 3 /\ w.mode = g.put[2] /\ w.runs = g.runs + 1
     \/ /\ g.round \in 3 .. Len(CalCodes(g.mode)) + 1 /\ g.put[3] = CalCodes(g.mode)[g.round - 1]
        /\ w.status = CalAnswer(g.mode, g.round - 1)
        /\ w.round = (IF g.round = Len(CalCodes(g.mode)) + 1 THEN 2 ELSE g.round + 1)
        /\ w.mode = g.mode /\ w.runs = g.runs

\* The calibration firmware takes what it was told of.
LEMMA HoldsCalTook ==
    ASSUME NEW c, NEW a, NEW g, NEW r, NEW n \in Nat, NEW m, Holds(c, a, g, r, n, m), g.fw = "cal",
           NEW w, CalTook(g, w)
    PROVE  Holds(c, a, w, r, n, m)
<1>1. ~(a = Off /\ g = Held /\ n = 0)
  BY HeldIs
<1>2. ~AgcNote(c, a, g, m) /\ ~ArbNote(c, a, g, r, m)
  BY DEF AgcNote, AgcFine, ArbNote, ArbFine
<1>3. CalNote(a, g, n, m)
  BY <1>1, <1>2 DEF Holds
<1>4. CalNote(a, w, n, m)
  <2>1. CASE g.round = 1 /\ g.put[3] = 255 /\ w.status = 0 /\ w.round = 2 /\ w.mode = g.mode /\ w.runs = g.runs
    BY <1>3, <2>1, CalResumes DEF CalTook
  <2>2. CASE /\ g.round = 2 /\ g.put[3] = 1
             /\ w.status = 1 /\ w.round = 3 /\ w.mode = g.put[2] /\ w.runs = g.runs + 1
    BY <1>3, <2>2, CalBegins DEF CalTook
  <2>3. CASE /\ g.round \in 3 .. Len(CalCodes(g.mode)) + 1 /\ g.put[3] = CalCodes(g.mode)[g.round - 1]
             /\ w.status = CalAnswer(g.mode, g.round - 1)
             /\ w.round = (IF g.round = Len(CalCodes(g.mode)) + 1 THEN 2 ELSE g.round + 1)
             /\ w.mode = g.mode /\ w.runs = g.runs
    BY <1>3, <2>3, CalGoesOn DEF CalTook
  <2> QED
    BY <2>1, <2>2, <2>3 DEF CalTook
<1> QED
  BY <1>4 DEF Holds

\* The arbiter takes what it was told of.
LEMMA HoldsArbTook ==
    ASSUME NEW c, NEW a, NEW g, NEW r, NEW n, NEW m, Holds(c, a, g, r, n, m), r.round = 1, r.put[1] = 1,
           NEW w, w.fw = r.fw, w.put = r.put, w.status = 0, w.round = 2,
           w.taken = <<<<r.put[0], r.put[2], r.put[3]>>>>
    PROVE  Holds(c, a, g, w, n, m)
BY ArbTook DEF Holds

\* A firmware that has been told everything has nothing to clear.
LEMMA HoldsCleared ==
    ASSUME NEW c, NEW a, NEW g, NEW r, NEW n, NEW m, Holds(c, a, g, r, n, m), g.fw = "agc", g.round > LastOf(c) + 1,
           g.status # 0, NEW w, w.fw = g.fw
    PROVE  Holds(c, a, w, r, n, m)
<1>1. PICK l \in Nat \ {0} : l = LastOf(c)
  BY ConfLast
<1>2. ~(a = Off /\ g = Held /\ n = 0) /\ ~CalNote(a, g, n, m)
  BY HeldIs DEF CalNote, CalFine, Tame
<1>3. RoundsOf(c)[LastOf(c) + 1].status = 0
  BY ConfRounds
<1>4. \A k \in 1 .. l + 2 : ~AgcAt(c, k, g)
  <2>1. ASSUME NEW k \in 1 .. l + 2, AgcAt(c, k, g) PROVE FALSE
    <3>1. g.round = k /\ k = l + 2 /\ k - 1 = LastOf(c) + 1 /\ k # 1
      BY <1>1, <2>1 DEF AgcAt
    <3> QED
      BY <1>3, <2>1, <3>1 DEF AgcAt
  <2> QED
    BY <2>1
<1>5. \A k \in 1 .. LastOf(c) + 1 : k \in 1 .. l + 2 /\ k + 1 \in 1 .. l + 2
  BY <1>1
<1>6. \A k \in 1 .. LastOf(c) + 1 : ~ReadyAt(c, k, g, m) /\ ~TellingAt(c, k, g, m)
  BY <1>4, <1>5 DEF ReadyAt, TellingAt, Quiet
<1>7. \A k \in 1 .. LastOf(c) : \A j : ~ShownAt(c, k, j, g, m)
  <2>1. \A k \in 1 .. LastOf(c) : k + 1 \in 1 .. l + 2
    BY <1>1
  <2> QED
    BY <1>4, <2>1 DEF ShownAt, Quiet
<1>8. ~(g.round \in {0, 1})
  BY <1>1
<1>9. AgcNote(c, a, g, m) => "wait" \in m
  BY <1>6, <1>7, <1>8, Zenon DEF AgcNote, AgcFormed, AgcFine, AgcHolds, AgcNotes
<1>10. AgcNote(c, a, g, m) => AgcNote(c, a, w, m)
  BY <1>9 DEF AgcNote, AgcFine
<1>11. ~AgcDone(c, g, m)
  <2>1. LastOf(c) + 1 \in 1 .. l + 2 /\ LastOf(c) + 2 \in 1 .. l + 2
    BY <1>1
  <2> QED
    BY <1>4, <2>1 DEF AgcDone, Quiet
<1>12. ArbNote(c, a, g, r, m) => ArbNote(c, a, w, r, m)
  BY <1>11 DEF ArbNote, ArbFine
<1> QED
  BY <1>2, <1>10, <1>12 DEF Holds

-----------------------------------------------------------------------------
(* The micro-controllers, in a state and after a step.                       *)

\* A micro-controller, field by field.
Made(f, s, p, h, o, d, u, t) ==
  [fw |-> f, status |-> s, put |-> p, show |-> h, round |-> o, mode |-> d, runs |-> u, taken |-> t]

\* A micro-controller with given fields.
LEMMA MadeIs ==
    /\ \A f \in {"none", "cal", "agc", "arb"} : \A s \in Nat : \A p, h \in [0 .. 3 -> Nat] :
       \A o \in Nat : \A d \in 0 .. 3 : \A u \in Nat : \A t \in Seq(Triples) : Made(f, s, p, h, o, d, u, t) \in Micro
    /\ \A f, s, p, h, o, d, u, t :
         /\ Made(f, s, p, h, o, d, u, t).fw = f /\ Made(f, s, p, h, o, d, u, t).status = s
         /\ Made(f, s, p, h, o, d, u, t).put = p /\ Made(f, s, p, h, o, d, u, t).show = h
         /\ Made(f, s, p, h, o, d, u, t).round = o /\ Made(f, s, p, h, o, d, u, t).mode = d
         /\ Made(f, s, p, h, o, d, u, t).runs = u /\ Made(f, s, p, h, o, d, u, t).taken = t
BY DEF Made, Micro

\* A micro-controller that boots.
LEMMA BootIs ==
    ASSUME NEW g \in Micro, g.fw # "none"
    PROVE  /\ Boot(g) \in Micro
           /\ Boot(g).fw = g.fw /\ Boot(g).put = g.put /\ Boot(g).mode = g.mode /\ Boot(g).runs = g.runs
           /\ Boot(g).taken = g.taken /\ Boot(g).status = 1 /\ Boot(g).round = 1
<1>1. PICK v : v = CASE g.fw = "cal" -> CalVersion
                     [] g.fw = "agc" -> AgcVersion(conf.type[conf.clksrc])
                     [] g.fw = "arb" -> ArbVersion
  OBVIOUS
<1>2. v \in Nat
  <2>1. g.fw = "cal" \/ g.fw = "agc" \/ g.fw = "arb"
    BY DEF Micro
  <2>2. CalVersion \in Nat /\ AgcVersion(conf.type[conf.clksrc]) \in Nat /\ ArbVersion \in Nat
    BY DEF CalVersion, AgcVersion, ArbVersion
  <2> QED
    BY <1>1, <2>1, <2>2
<1>3. Boot(g) = [g EXCEPT !.status = 1, !.round = 1, !.show[0] = v]
  BY <1>1 DEF Boot
<1>4. PICK h : h = [g.show EXCEPT ![0] = v]
  OBVIOUS
<1>5. h \in [0 .. 3 -> Nat]
  BY <1>2, <1>4 DEF Micro
<1>6. Boot(g) = Made(g.fw, 1, g.put, h, 1, g.mode, g.runs, g.taken)
  BY <1>3, <1>4 DEF Micro, Made
<1>7. g.fw \in {"none", "cal", "agc", "arb"} /\ g.put \in [0 .. 3 -> Nat] /\ g.mode \in 0 .. 3 /\ g.runs \in Nat /\ g.taken \in Seq(Triples)
  BY DEF Micro
<1>9. 1 \in Nat
  OBVIOUS
<1>10. PICK f : f = g.fw
  OBVIOUS
<1>11. Made(f, 1, g.put, h, 1, g.mode, g.runs, g.taken) \in Micro
  BY <1>5, <1>7, <1>9, <1>10, MadeIs, ZenonT(30)
<1>8. Boot(g) \in Micro
  BY <1>6, <1>10, <1>11
<1> QED
  BY <1>6, <1>8, MadeIs

\* The rounds of the configuration.
LEMMA RoundsIs == Rounds = RoundsOf(conf) /\ Len(Rounds) = LastOf(conf) + 1 /\ LastOf(conf) \in Nat \ {0}
<1>1. Rounds = RoundsOf(conf)
  BY DEF Rounds, RoundsOf
<1> QED
  BY <1>1, ConfRounds

\* The AGC has been told of its round.
LEMMA ToldIs == AgcTold <=> agc.fw = "agc" /\ ToldTo(conf, agc)
BY RoundsIs DEF AgcTold, ToldTo

\* The status of a round is a natural number.
LEMMA StatusIs ==
    ASSUME NEW c, NEW k \in 1 .. LastOf(c) + 1
    PROVE  RoundsOf(c)[k].status \in Nat
<1>1. LastOf(c) \in Nat
  BY ConfRounds
<1>2. CASE k = LastOf(c) + 1
  <2>1. RoundsOf(c)[LastOf(c) + 1].status = 0
    BY ConfRounds
  <2> QED
    BY <1>2, <2>1
<1>3. CASE k \in 1 .. LastOf(c)
  <2>1. ParamsOf(c)[k].status \in Nat
    BY <1>3, ConfRounds
  <2>2. RoundsOf(c)[k].status = ParamsOf(c)[k].status
    BY <1>3, ConfRound
  <2> QED
    BY <2>1, <2>2
<1> QED
  BY <1>1, <1>2, <1>3

\* AgcTakes, its fields.
LEMMA AgcTakesIs ==
    ASSUME AgcTakes, agc \in Micro
    PROVE  agc' \in Micro /\ TookIt(conf, agc, agc') /\ agc.fw = "agc" /\ ToldTo(conf, agc)
<1>1. agc.fw = "agc" /\ ToldTo(conf, agc)
  BY ToldIs DEF AgcTakes
<1>2. RoundsOf(conf)[agc.round].status \in Nat
  BY <1>1, StatusIs DEF ToldTo
<1>3. agc' = [agc EXCEPT !.status = RoundsOf(conf)[agc.round].status, !.round = @ + 1,
                         !.show = [m \in 0 .. 3 |-> agc.put[m]],
                         !.taken = Append(@, <<agc.put[0], agc.put[1], agc.put[2]>>)]
  BY RoundsIs DEF AgcTakes
<1>4. PICK t : t = Append(agc.taken, <<agc.put[0], agc.put[1], agc.put[2]>>)
  OBVIOUS
<1>5. t \in Seq(Triples)
  <2>1. agc.taken \in Seq(Triples) /\ <<agc.put[0], agc.put[1], agc.put[2]>> \in Triples
    BY DEF Micro, Triples
  <2> QED
    BY <1>4, <2>1
<1>6. PICK s : s = [m \in 0 .. 3 |-> agc.put[m]]
  OBVIOUS
<1>7. s \in [0 .. 3 -> Nat] /\ \A k \in 0 .. 3 : s[k] = agc.put[k]
  BY <1>6 DEF Micro
<1>8. PICK v \in Nat : v = RoundsOf(conf)[agc.round].status
  BY <1>2
<1>9. agc' = [agc EXCEPT !.status = v, !.round = @ + 1, !.show = s, !.taken = t]
  BY <1>3, <1>4, <1>6, <1>8
<1>13. agc' = Made(agc.fw, v, agc.put, s, agc.round + 1, agc.mode, agc.runs, t)
  BY <1>9 DEF Micro, Made
<1>14. /\ agc.fw \in {"none", "cal", "agc", "arb"} /\ agc.put \in [0 .. 3 -> Nat] /\ agc.round + 1 \in Nat
       /\ agc.mode \in 0 .. 3 /\ agc.runs \in Nat
  BY DEF Micro
<1>15. PICK f, p, o, d, u : f = agc.fw /\ p = agc.put /\ o = agc.round + 1 /\ d = agc.mode /\ u = agc.runs
  OBVIOUS
<1>16. Made(f, v, p, s, o, d, u, t) \in Micro
  BY <1>5, <1>7, <1>14, <1>15, MadeIs, ZenonT(30)
<1>10. agc' \in Micro
  BY <1>13, <1>15, <1>16
<1>11. /\ agc'.fw = agc.fw /\ agc'.put = agc.put /\ agc'.status = v /\ agc'.round = agc.round + 1
       /\ agc'.show = s /\ agc'.taken = t
  BY <1>9 DEF Micro
<1>12. TookIt(conf, agc, agc')
  BY <1>4, <1>7, <1>8, <1>11 DEF TookIt
<1> QED
  BY <1>1, <1>10, <1>12

\* CalTakes, its fields.
LEMMA CalTakesIs ==
    ASSUME CalTakes, agc \in Micro, agc.fw = "cal" => agc.put[2] \in 0 .. 3
    PROVE  agc' \in Micro /\ CalTook(agc, agc') /\ agc.fw = "cal"
<1>1. agc.fw = "cal" /\ agc.mode \in 0 .. 3 /\ agc.put[2] \in 0 .. 3
  BY DEF CalTakes, Micro
<1>2. CASE /\ agc.round = 1 /\ agc.put[3] = 255
           /\ agc' = [agc EXCEPT !.status = 0, !.round = 2, !.taken = <<>>]
  <2>1. <<>> \in Seq(Triples)
    OBVIOUS
  <2> QED
    BY <1>1, <1>2, <2>1 DEF CalTook, Micro
<1>3. CASE /\ agc.round = 2 /\ agc.put[3] = 1
           /\ agc' = [agc EXCEPT !.status = 1, !.round = 3, !.mode = agc.put[2], !.runs = @ + 1]
  <2>1. agc' = Made(agc.fw, 1, agc.put, agc.show, 3, agc.put[2], agc.runs + 1, agc.taken)
    BY <1>3 DEF Micro, Made
  <2>2. /\ agc.fw \in {"none", "cal", "agc", "arb"} /\ agc.put \in [0 .. 3 -> Nat] /\ agc.show \in [0 .. 3 -> Nat]
        /\ agc.runs + 1 \in Nat /\ agc.taken \in Seq(Triples)
    BY DEF Micro
  <2>3. agc' \in Micro
    BY <1>1, <2>1, <2>2, MadeIs
  <2>4. /\ agc'.fw = agc.fw /\ agc'.put = agc.put /\ agc'.status = 1 /\ agc'.round = 3
        /\ agc'.mode = agc.put[2] /\ agc'.runs = agc.runs + 1
    BY <2>1, MadeIs
  <2> QED
    BY <1>1, <1>3, <2>3, <2>4 DEF CalTook
<1>4. CASE /\ agc.round \in 3 .. Len(CalCodes(agc.mode)) + 1
           /\ agc.put[3] = CalCodes(agc.mode)[agc.round - 1]
           /\ agc' = [agc EXCEPT !.status = CalAnswer(agc.mode, agc.round - 1),
                                 !.round = IF @ = Len(CalCodes(agc.mode)) + 1 THEN 2 ELSE @ + 1]
  <2>1. PICK l \in Nat : l = Len(CalCodes(agc.mode))
    BY <1>1, CalTables
  <2>2. agc.round - 1 \in 1 .. Len(CalCodes(agc.mode))
    BY <1>4, <2>1
  <2>3. CalAnswer(agc.mode, agc.round - 1) \in 1 .. 127
    BY <1>1, <2>2, CalTables
  <2>4. PICK v \in Nat : v = CalAnswer(agc.mode, agc.round - 1)
    BY <2>3
  <2>5. PICK o \in Nat : o = IF agc.round = Len(CalCodes(agc.mode)) + 1 THEN 2 ELSE agc.round + 1
    BY <2>1, SMTT(40) DEF Micro
  <2>6. agc' = [agc EXCEPT !.status = v, !.round = o]
    BY <1>4, <2>4, <2>5
  <2>7. agc' \in Micro
    BY <2>6 DEF Micro
  <2>8. /\ agc'.fw = agc.fw /\ agc'.put = agc.put /\ agc'.status = v /\ agc'.round = o
        /\ agc'.mode = agc.mode /\ agc'.runs = agc.runs
    BY <2>6 DEF Micro
  <2> QED
    BY <1>1, <1>4, <2>4, <2>5, <2>7, <2>8 DEF CalTook
<1> QED
  BY <1>2, <1>3, <1>4 DEF CalTakes

\* ArbTakes, its fields.
LEMMA ArbTakesIs ==
    ASSUME ArbTakes, arb \in Micro
    PROVE  /\ arb' \in Micro
           /\ arb.round = 1 /\ arb.put[1] = 1 /\ arb'.fw = arb.fw /\ arb'.put = arb.put /\ arb'.status = 0 /\ arb'.round = 2
           /\ arb'.taken = <<<<arb.put[0], arb.put[2], arb.put[3]>>>>
<1>1. PICK t : t = <<<<arb.put[0], arb.put[2], arb.put[3]>>>>
  OBVIOUS
<1>2. t \in Seq(Triples)
  <2>1. <<arb.put[0], arb.put[2], arb.put[3]>> \in Triples
    BY DEF Micro, Triples
  <2> QED
    BY <1>1, <2>1
<1>3. arb' = [arb EXCEPT !.status = 0, !.round = 2, !.taken = t]
  BY <1>1 DEF ArbTakes
<1>4. arb' = Made(arb.fw, 0, arb.put, arb.show, 2, arb.mode, arb.runs, t)
  BY <1>3 DEF Micro, Made
<1>5. /\ arb.fw \in {"none", "cal", "agc", "arb"} /\ arb.put \in [0 .. 3 -> Nat] /\ arb.show \in [0 .. 3 -> Nat]
      /\ arb.mode \in 0 .. 3 /\ arb.runs \in Nat
  BY DEF Micro
<1>6. arb' \in Micro
  BY <1>2, <1>4, <1>5, MadeIs
<1>7. arb'.fw = arb.fw /\ arb'.put = arb.put /\ arb'.status = 0 /\ arb'.round = 2 /\ arb'.taken = t
  BY <1>4, MadeIs
<1> QED
  BY <1>1, <1>6, <1>7 DEF ArbTakes

\* Its status is written.
LEMMA StatusSet ==
    ASSUME NEW g \in Micro, NEW v \in Nat, NEW w, w = [g EXCEPT !.status = v]
    PROVE  /\ w \in Micro /\ w.status = v
           /\ w.fw = g.fw /\ w.put = g.put /\ w.round = g.round /\ w.mode = g.mode /\ w.runs = g.runs /\ w.taken = g.taken
BY DEF Micro

-----------------------------------------------------------------------------
(* The types of everything but the micro-controllers and the place in the    *)
(* script.                                                                   *)

\* What may fail unseen, and the types.
Mishaps == {"agc write", "arb write", "wait", "read", "timeout", "status", "abort", "stop"}

Plain ==
  /\ conf \in Configurations
  /\ host \in {"starting", "failed", "up", "triggering", "polling", "clearing", "aborting", "stopping", "stopped"}
  /\ started \in BOOLEAN /\ connected \subseteq {"com", "i2c"}
  /\ tx \in {"free", "scheduled", "emitting"} /\ sx1261 \in {"idle", "rx", "lbt"}
  /\ decision \in {"none", "allowed", "blocked"} /\ error \in {"none", "send", "status"}
  /\ answer \in {"none", "sent", "blocked", "error"}
  /\ faults \in 0 .. MaxFaults /\ mishaps \subseteq Mishaps /\ calls \in Nat

\* The types at the start.
LEMMA PlainInit == Init => Plain
<1>1. MaxFaults \in 0 .. MaxFaults
  BY BoundsAssumption
<1>2. ASSUME Init
      PROVE  /\ conf \in Configurations /\ host = "starting" /\ started = FALSE /\ connected = {}
             /\ tx = "free" /\ sx1261 = "idle" /\ decision = "none" /\ error = "none" /\ answer = "none"
             /\ faults = MaxFaults /\ mishaps = {} /\ calls = 0
  BY <1>2 DEF Init
<1> QED
  BY <1>1, <1>2 DEF Plain

\* What a step makes of the mishaps and of the faults left.
Grows == mishaps' \subseteq Mishaps /\ faults' \in 0 .. MaxFaults

\* Every step keeps them.
LEMMA PlainNext == Plain /\ [Next]_vars => Plain'
<1> SUFFICES ASSUME Plain, [Next]_vars PROVE Plain'
  OBVIOUS
<1>1. /\ conf \in Configurations
      /\ host \in {"starting", "failed", "up", "triggering", "polling", "clearing", "aborting", "stopping", "stopped"}
      /\ started \in BOOLEAN /\ connected \subseteq {"com", "i2c"}
      /\ tx \in {"free", "scheduled", "emitting"} /\ sx1261 \in {"idle", "rx", "lbt"}
      /\ decision \in {"none", "allowed", "blocked"} /\ error \in {"none", "send", "status"}
      /\ answer \in {"none", "sent", "blocked", "error"}
      /\ calls \in Nat
  BY DEF Plain
<1>2. Fault => faults' \in 0 .. MaxFaults
  BY BoundsAssumption DEF Plain, Fault
<1>3. mishaps \subseteq Mishaps /\ faults \in 0 .. MaxFaults
  BY DEF Plain
<1>30. UNCHANGED <<faults, mishaps>> => Grows
  BY <1>3 DEF Grows
<1>31. \A x \in Mishaps : Fault /\ mishaps' = mishaps \cup {x} => Grows
  BY <1>2, <1>3 DEF Grows
<1>32. Fault /\ mishaps' = mishaps => Grows
  BY <1>2, <1>3 DEF Grows
<1>33. /\ "agc write" \in Mishaps /\ "arb write" \in Mishaps /\ "wait" \in Mishaps /\ "read" \in Mishaps
       /\ "timeout" \in Mishaps /\ "status" \in Mishaps /\ "abort" \in Mishaps /\ "stop" \in Mishaps
  BY DEF Mishaps
<1>34. \A v : Tell(v, {}) => Grows
  BY <1>2, <1>3, <1>33 DEF Grows, Tell
<1>36. \A v : Tell(v, {"timeout"}) => Grows
  BY <1>2, <1>3, <1>33 DEF Grows, Tell
<1>35. Abort => Grows /\ tx' \in {"free", "scheduled", "emitting"}
  BY <1>1, <1>30, <1>31, <1>33 DEF Abort
<1>4. CASE StepDone
  <2>1. Grows
    BY <1>4, <1>30 DEF StepDone
  <2>2. connected' \subseteq {"com", "i2c"}
    BY <1>1, <1>4 DEF StepDone
  <2>3. UNCHANGED <<conf, host, started, calls, sendVars>>
    BY <1>4 DEF StepDone
  <2> QED
    BY <1>1, <2>1, <2>2, <2>3 DEF Plain, Grows, sendVars
<1>5. CASE StepFails
  BY <1>1, <1>32, <1>5 DEF StepFails, Plain, Grows, sendVars, startVars
<1>6. CASE WriteBox
  <2>1. Grows
    BY <1>6, <1>30, <1>31, <1>33 DEF WriteBox
  <2>2. UNCHANGED <<conf, host, started, connected, calls, sendVars>>
    BY <1>6 DEF WriteBox
  <2> QED
    BY <1>1, <2>1, <2>2 DEF Plain, Grows, sendVars
<1>7. CASE AwaitStatus
  <2>1. Grows
    BY <1>7, <1>30, <1>31, <1>33 DEF AwaitStatus
  <2> QED
    BY <1>1, <1>7, <2>1 DEF AwaitStatus, Plain, Grows, sendVars
<1>8. CASE CheckBox
  <2>1. Grows
    BY <1>8, <1>30, <1>31, <1>33 DEF CheckBox
  <2>2. host' \in {host, "failed"}
    BY <1>8 DEF CheckBox
  <2>3. UNCHANGED <<conf, started, connected, calls, sendVars>>
    BY <1>8 DEF CheckBox
  <2> QED
    BY <1>1, <2>1, <2>2, <2>3 DEF Plain, Grows, sendVars
<1>9. CASE CollectRound
  BY <1>1, <1>9, <1>30 DEF CollectRound, Plain, Grows, sendVars
<1>10. CASE LockPll
  <2>1. Grows
    BY <1>10, <1>30 DEF LockPll
  <2>2. calls' \in Nat
    <3>1. calls' = calls + 1 \/ calls' = calls
      BY <1>10 DEF LockPll
    <3> QED
      BY <1>1, <3>1
  <2>3. UNCHANGED <<conf, host, started, connected, sendVars>>
    BY <1>10 DEF LockPll
  <2> QED
    BY <1>1, <2>1, <2>2, <2>3 DEF Plain, Grows, sendVars
<1>11. CASE JudgeResults
  <2>1. Grows
    BY <1>11, <1>30 DEF JudgeResults
  <2>2. host' \in {host, "failed"}
    BY <1>11 DEF JudgeResults
  <2>3. UNCHANGED <<conf, started, connected, calls, sendVars>>
    BY <1>11 DEF JudgeResults
  <2> QED
    BY <1>1, <2>1, <2>2, <2>3 DEF Plain, Grows, sendVars
<1>12. CASE StartDone
  BY <1>1, <1>30, <1>12 DEF StartDone, Plain, Grows, sendVars, startVars
<1> USE DEF Plain, Grows, sendVars, startVars, sendUnchanged
<1>13. CASE SendRefused
  BY <1>1, <1>30, <1>13 DEF SendRefused, Return
<1>14. CASE SendStarts
  BY <1>1, <1>30, <1>32, <1>14 DEF SendStarts, Return
<1>15. CASE SendTriggers
  BY <1>1, <1>30, <1>32, <1>15 DEF SendTriggers, Return
<1>16. CASE PollInitiated
  <2>1. Grows
    BY <1>16, <1>31, <1>33, <1>34, <1>36 DEF PollInitiated
  <2>2. /\ host' \in {"clearing", "aborting"} /\ error' \in {error, "status"} /\ answer' \in {answer, "sent", "blocked"}
        /\ UNCHANGED <<sendUnchanged, tx, sx1261, decision, sends>>
    BY <1>16 DEF PollInitiated
  <2> QED
    BY <1>1, <2>1, <2>2
<1>17. CASE PollCleared
  <2>1. Grows
    BY <1>17, <1>31, <1>33, <1>34, <1>36 DEF PollCleared
  <2>2. /\ host' \in {"stopping", "aborting"} /\ error' \in {error, "status"}
        /\ UNCHANGED <<sendUnchanged, tx, sx1261, decision, answer, sends>>
    BY <1>17 DEF PollCleared
  <2> QED
    BY <1>1, <2>1, <2>2
<1>18. CASE SendAborts
  BY <1>1, <1>35, <1>18 DEF SendAborts
<1>19. CASE SendStops
  <2>1. Grows
    BY <1>19, <1>30, <1>31, <1>33 DEF SendStops
  <2>2. /\ host' = "up" /\ sx1261' \in {sx1261, "idle"} /\ answer' \in {answer, "error"}
        /\ UNCHANGED <<sendUnchanged, tx, decision, error, sends>>
    BY <1>19 DEF SendStops, Return
  <2> QED
    BY <1>1, <2>1, <2>2
<1>20. CASE Stop
  BY <1>1, <1>35, <1>20 DEF Stop
<1>21. CASE McuBoots
  BY <1>1, <1>30, <1>21 DEF McuBoots
<1>22. CASE AgcTakes
  BY <1>1, <1>30, <1>22 DEF AgcTakes
<1>23. CASE CalTakes
  BY <1>1, <1>30, <1>23 DEF CalTakes
<1>24. CASE ArbTakes
  BY <1>1, <1>30, <1>24 DEF ArbTakes
<1>25. CASE Departs
  BY <1>1, <1>30, <1>25 DEF Departs
<1>26. CASE AgcClears
  BY <1>1, <1>30, <1>26 DEF AgcClears
<1>27. CASE Emitted
  BY <1>1, <1>30, <1>27 DEF Emitted
<1>28. CASE UNCHANGED vars
  BY <1>1, <1>30, <1>28 DEF vars
<1> QED
  BY <1>4, <1>5, <1>6, <1>7, <1>8, <1>9, <1>10, <1>11, <1>12, <1>13, <1>14, <1>15, <1>16, <1>17, <1>18, <1>19,
     <1>20, <1>21, <1>22, <1>23, <1>24, <1>25, <1>26, <1>27, <1>28 DEF Next, Host, Concentrator

-----------------------------------------------------------------------------
(* While lgw_start runs: its place in the script, the micro-controllers, and *)
(* what holds at the note of that place.                                     *)

\* The operation it is at, or the end.
Placed == at \in 1 .. Len(Script[conf]) + 1

\* The micro-controllers, and the mode there is for a calibration to take.
Micros == /\ agc \in Micro /\ arb \in Micro
          /\ agc.fw \in {"none", "cal", "agc"} /\ arb.fw \in {"none", "arb"}
          /\ agc.fw = "cal" => agc.put[2] \in 0 .. 3

\* What holds at the note of the operation it is at.
Noted == host = "starting" => Holds(conf, Here(conf, at), agc, arb, calls, mishaps)

\* What there is in an operation.
LEMMA OperationIs ==
    ASSUME NEW op \in Operation
    PROVE  /\ op.op \in {"put", "check"} => op.mcu \in {"agc", "arb"} /\ op.box \in 0 .. 3 /\ op.value \in Nat
           /\ op.op = "await" => op.mcu \in {"agc", "arb"} /\ op.value \in Nat
           /\ op.op \in {"locked", "judge"} => op.count \in Nat
           /\ op.op = "do" => op.what \in Called
BY DEF Operation

\* The operation it is at leads from its note to the next.
LEMMA OpIs ==
    ASSUME Plain, Placed, NEW kind, AtOp(kind)
    PROVE  /\ host = "starting" /\ Op \in Operation /\ Op.op = kind
           /\ OpLeads(conf, Here(conf, at), Op, Here(conf, at + 1))
           /\ at \in 1 .. Len(Script[conf]) /\ at + 1 \in 1 .. Len(Script[conf]) + 1
           /\ kind \in {"locked", "judge"} => /\ at + 1 + Op.count \in 1 .. Len(Script[conf]) + 1
                                              /\ Here(conf, at + 1 + Op.count) = Here(conf, at)
<1>1. conf \in Configurations
  BY DEF Plain
<1>2. PICK l \in Nat : l = Len(Script[conf])
  BY <1>1, ScriptNotes
<1>3. host = "starting" /\ at \in 1 .. l /\ Op.op = kind /\ Op = Script[conf][at]
  BY <1>2 DEF AtOp, Placed, Op
<1>4. /\ Op \in Operation
      /\ OpLeads(conf, Here(conf, at), Op, Here(conf, at + 1))
      /\ Op.op \in {"locked", "judge"} => /\ at + 1 + Op.count <= l + 1
                                          /\ Here(conf, at + 1 + Op.count) = Here(conf, at)
  BY <1>1, <1>2, <1>3, ScriptNotes
<1>5. kind \in {"locked", "judge"} => Op.count \in Nat
  BY <1>3, <1>4, OperationIs
<1> QED
  BY <1>2, <1>3, <1>4, <1>5

\* A calibration firmware has a mode to take.
LEMMA ModeIs ==
    ASSUME NEW c, NEW a, NEW g, NEW r, NEW n, NEW m, Holds(c, a, g, r, n, m), g.fw = "cal"
    PROVE  g.put[2] \in 0 .. 3
<1>1. g # Held
  BY HeldIs
<1> QED
  BY <1>1 DEF Holds, CalNote, CalFine, Tame, AgcNote, AgcFine, ArbNote, ArbFine

\* lgw_start begins with the micro-controllers off.
LEMMA FoundedInit == Init => Placed /\ Micros /\ Noted
<1> SUFFICES ASSUME Init PROVE Placed /\ Micros /\ Noted
  OBVIOUS
<1>1. conf \in Configurations /\ at = 1 /\ agc = Held /\ arb = Held /\ calls = 0
  BY DEF Init
<1>2. Script[conf] \in Seq(Operation) /\ Here(conf, 1) = Off
  BY <1>1, ScriptNotes
<1>3. Placed
  BY <1>1, <1>2 DEF Placed
<1>4. Micros
  BY <1>1, HeldIs DEF Micros
<1>5. Noted
  BY <1>1, <1>2 DEF Noted, Holds
<1> QED
  BY <1>3, <1>4, <1>5

\* A function of lgw_start done, a firmware loaded by it or not.
LEMMA StepDoneFounded ==
    ASSUME Plain, Placed, Micros, Noted, StepDone
    PROVE  Placed' /\ Micros' /\ Noted'
<1>1. AtOp("do") /\ at' = at + 1 /\ agc' = Loaded(Op.what) /\ UNCHANGED <<conf, host, calls, mishaps>>
  BY DEF StepDone
<1>2. /\ Op.what = "load arb" => ~AgcTold
      /\ arb' = IF Op.what = "load arb" THEN [Held EXCEPT !.fw = "arb"] ELSE arb
  BY DEF StepDone
<1>3. /\ host = "starting" /\ Op.op = "do" /\ OpLeads(conf, Here(conf, at), Op, Here(conf, at + 1))
      /\ at + 1 \in 1 .. Len(Script[conf]) + 1
  BY <1>1, OpIs
<1>4. Placed'
  BY <1>1, <1>3 DEF Placed
<1>5. Holds(conf, Here(conf, at), agc, arb, calls, mishaps) /\ calls \in Nat
  BY <1>3 DEF Noted, Plain
<1>6. PICK a, b : a = Here(conf, at) /\ b = Here(conf, at + 1)
  OBVIOUS
<1>7. PICK op : op = Op
  OBVIOUS
<1>8. /\ op.what \notin Loads => Holds(conf, b, agc, arb, calls, mishaps)
      /\ \A w : op.what = "load cal" /\ w = [Held EXCEPT !.fw = "cal", !.put = agc.put] => Holds(conf, b, w, arb, calls, mishaps)
      /\ \A w : op.what = "load agc" /\ w = [Held EXCEPT !.fw = "agc", !.put = agc.put] => Holds(conf, b, w, arb, calls, mishaps)
      /\ \A x : op.what = "load arb" /\ x = [Held EXCEPT !.fw = "arb"] /\ ~(agc.fw = "agc" /\ ToldTo(conf, agc))
                  => Holds(conf, b, agc, x, calls, mishaps)
  <2>1. OpLeads(conf, a, op, b) /\ op.op = "do" /\ Holds(conf, a, agc, arb, calls, mishaps)
    BY <1>3, <1>5, <1>6, <1>7
  <2> QED
    BY <1>5, <2>1, HoldsDo
<1>9. CASE op.what = "load cal"
  <2>1. agc' = [Held EXCEPT !.fw = "cal", !.put = agc.put] /\ arb' = arb
    BY <1>1, <1>2, <1>7, <1>9 DEF Loaded
  <2>2. Holds(conf, b, agc', arb', calls, mishaps)
    BY <1>8, <1>9, <2>1
  <2>3. agc' \in Micro /\ agc'.fw = "cal"
    BY <2>1, HeldIs DEF Micro, Micros
  <2> QED
    BY <1>1, <1>4, <1>6, <2>1, <2>2, <2>3, ModeIs DEF Micros, Noted
<1>10. CASE op.what = "load agc"
  <2>1. agc' = [Held EXCEPT !.fw = "agc", !.put = agc.put] /\ arb' = arb
    BY <1>1, <1>2, <1>7, <1>10 DEF Loaded
  <2>2. Holds(conf, b, agc', arb', calls, mishaps)
    BY <1>8, <1>10, <2>1
  <2>3. agc' \in Micro /\ agc'.fw = "agc"
    BY <2>1, HeldIs DEF Micro, Micros
  <2> QED
    BY <1>1, <1>4, <1>6, <2>1, <2>2, <2>3 DEF Micros, Noted
<1>11. CASE op.what = "load arb"
  <2>1. agc' = agc /\ arb' = [Held EXCEPT !.fw = "arb"] /\ ~(agc.fw = "agc" /\ ToldTo(conf, agc))
    BY <1>1, <1>2, <1>7, <1>11, ToldIs DEF Loaded
  <2>2. Holds(conf, b, agc', arb', calls, mishaps)
    BY <1>8, <1>11, <2>1
  <2>3. arb' \in Micro /\ arb'.fw = "arb"
    BY <2>1, HeldIs DEF Micro
  <2> QED
    BY <1>1, <1>4, <1>6, <2>1, <2>2, <2>3 DEF Micros, Noted
<1>12. CASE op.what \notin Loads
  <2>1. agc' = agc /\ arb' = arb
    BY <1>1, <1>2, <1>7, <1>12 DEF Loaded, Loads
  <2>2. Holds(conf, b, agc', arb', calls, mishaps)
    BY <1>8, <1>12, <2>1
  <2> QED
    BY <1>1, <1>4, <1>6, <2>1, <2>2 DEF Micros, Noted
<1> QED
  BY <1>9, <1>10, <1>11, <1>12 DEF Loads

\* A mailbox written, or not.
LEMMA WriteBoxFounded ==
    ASSUME Plain, Placed, Micros, Noted, WriteBox
    PROVE  Placed' /\ Micros' /\ Noted'
<1>1. AtOp("put") /\ at' = at + 1 /\ UNCHANGED <<conf, host, calls>>
  BY DEF WriteBox
<1>2. PICK op : op = Op
  OBVIOUS
<1>3. \/ /\ agc' = IF op.mcu = "agc" THEN Written(agc, op.box, op.value) ELSE agc
         /\ arb' = IF op.mcu = "arb" THEN Written(arb, op.box, op.value) ELSE arb
         /\ mishaps' = mishaps
      \/ /\ mishaps' = mishaps \cup {IF op.mcu = "agc" THEN "agc write" ELSE "arb write"}
         /\ agc' = agc /\ arb' = arb
  BY <1>2 DEF WriteBox
<1>4. /\ host = "starting" /\ op \in Operation /\ op.op = "put" /\ OpLeads(conf, Here(conf, at), op, Here(conf, at + 1))
      /\ at + 1 \in 1 .. Len(Script[conf]) + 1
  BY <1>1, <1>2, OpIs
<1>5. Placed'
  BY <1>1, <1>4 DEF Placed
<1>6. op.box \in 0 .. 3 /\ op.value \in Nat
  BY <1>4, OperationIs
<1>7. PICK w : w = Written(agc, op.box, op.value)
  OBVIOUS
<1>8. PICK x : x = Written(arb, op.box, op.value)
  OBVIOUS
<1>9. Rewritten(w, agc, op.box, op.value) /\ Rewritten(x, arb, op.box, op.value)
  BY <1>6, <1>7, <1>8, WrittenIs DEF Micros
<1>10. PICK a, b : a = Here(conf, at) /\ b = Here(conf, at + 1)
  OBVIOUS
<1>11. \/ op.mcu = "agc" /\ Holds(conf, b, w, arb, calls, mishaps) /\ Holds(conf, b, agc, arb, calls, mishaps \cup {"agc write"})
       \/ op.mcu = "arb" /\ Holds(conf, b, agc, x, calls, mishaps) /\ Holds(conf, b, agc, arb, calls, mishaps \cup {"arb write"})
  <2>1. OpLeads(conf, a, op, b) /\ Holds(conf, a, agc, arb, calls, mishaps)
    BY <1>4, <1>10 DEF Noted
  <2> QED
    BY <1>4, <1>9, <2>1, HoldsPut
<1>12. Holds(conf, b, agc', arb', calls, mishaps')
  BY <1>3, <1>7, <1>8, <1>11
<1>13. agc' \in {agc, w} /\ arb' \in {arb, x}
  BY <1>3, <1>7, <1>8
<1>14. agc' \in Micro /\ agc'.fw = agc.fw /\ arb' \in Micro /\ arb'.fw = arb.fw
  BY <1>9, <1>13 DEF Rewritten, Micros
<1>15. agc'.fw = "cal" => agc'.put[2] \in 0 .. 3
  BY <1>12, ModeIs
<1>16. Micros'
  BY <1>14, <1>15 DEF Micros
<1>17. Noted'
  BY <1>1, <1>10, <1>12 DEF Noted
<1> QED
  BY <1>5, <1>16, <1>17

\* A status awaited.
LEMMA AwaitFounded ==
    ASSUME Plain, Placed, Micros, Noted, AwaitStatus
    PROVE  Placed' /\ Micros' /\ Noted'
<1>1. AtOp("await") /\ at' = at + 1 /\ UNCHANGED <<conf, host, agc, arb, calls>>
  BY DEF AwaitStatus
<1>2. PICK op : op = Op
  OBVIOUS
<1>3. \/ (IF op.mcu = "agc" THEN agc ELSE arb).status = op.value /\ mishaps' = mishaps
      \/ mishaps' = mishaps \cup {"wait"}
  BY <1>2 DEF AwaitStatus, Answered, Mcu
<1>4. /\ host = "starting" /\ op.op = "await" /\ OpLeads(conf, Here(conf, at), op, Here(conf, at + 1))
      /\ at + 1 \in 1 .. Len(Script[conf]) + 1
  BY <1>1, <1>2, OpIs
<1>5. PICK a, b : a = Here(conf, at) /\ b = Here(conf, at + 1)
  OBVIOUS
<1>6. /\ (IF op.mcu = "agc" THEN agc ELSE arb).status = op.value => Holds(conf, b, agc, arb, calls, mishaps)
      /\ Holds(conf, b, agc, arb, calls, mishaps \cup {"wait"})
  <2>1. OpLeads(conf, a, op, b) /\ Holds(conf, a, agc, arb, calls, mishaps)
    BY <1>4, <1>5 DEF Noted
  <2> QED
    BY <1>4, <2>1, HoldsAwait
<1>7. Holds(conf, b, agc, arb, calls, mishaps')
  BY <1>3, <1>6
<1>8. Placed'
  BY <1>1, <1>4 DEF Placed
<1>9. Micros'
  BY <1>1 DEF Micros
<1>10. Noted'
  BY <1>1, <1>5, <1>7 DEF Noted
<1> QED
  BY <1>8, <1>9, <1>10

\* A mailbox compared.
LEMMA CheckFounded ==
    ASSUME Plain, Placed, Micros, Noted, CheckBox
    PROVE  Placed' /\ Micros' /\ Noted'
<1>1. AtOp("check") /\ UNCHANGED <<conf, agc, arb, calls>>
  BY DEF CheckBox
<1>2. PICK op : op = Op
  OBVIOUS
<1>3. \/ (IF op.mcu = "agc" THEN agc ELSE arb).show[op.box] = val' /\ mishaps' = mishaps
      \/ mishaps' = mishaps \cup {"read"}
  BY <1>2 DEF CheckBox, Mcu
<1>4. (Same(val', op.value, op.how) /\ at' = at + 1 /\ host' = host) \/ (host' = "failed" /\ at' = at)
  BY <1>2 DEF CheckBox
<1>5. /\ host = "starting" /\ op.op = "check" /\ OpLeads(conf, Here(conf, at), op, Here(conf, at + 1))
      /\ at + 1 \in 1 .. Len(Script[conf]) + 1
  BY <1>1, <1>2, OpIs
<1>6. PICK a, b : a = Here(conf, at) /\ b = Here(conf, at + 1)
  OBVIOUS
<1>7. /\ Same((IF op.mcu = "agc" THEN agc ELSE arb).show[op.box], op.value, op.how) => Holds(conf, b, agc, arb, calls, mishaps)
      /\ Holds(conf, b, agc, arb, calls, mishaps \cup {"read"})
  <2>1. OpLeads(conf, a, op, b) /\ Holds(conf, a, agc, arb, calls, mishaps) /\ calls \in Nat
    BY <1>5, <1>6 DEF Noted, Plain
  <2>2. conf \in Configuration
    BY ConfigurationAssumption DEF Plain
  <2> QED
    BY <1>5, <2>1, <2>2, HoldsCheck
<1>8. Same(val', op.value, op.how) => Holds(conf, b, agc, arb, calls, mishaps')
  BY <1>3, <1>7
<1>9. Placed'
  BY <1>1, <1>4, <1>5 DEF Placed
<1>10. Micros'
  BY <1>1 DEF Micros
<1>11. Noted'
  BY <1>1, <1>4, <1>6, <1>8 DEF Noted
<1> QED
  BY <1>9, <1>10, <1>11

\* And what is collected is what was asked for.
LEMMA CollectFounded ==
    ASSUME Plain, Placed, Micros, Noted, CollectRound
    PROVE  Placed' /\ Micros' /\ Noted' /\ (Calm(mishaps) => collected'[1] = collected'[2])
<1>1. /\ AtOp("collect") /\ at' = at + 1 /\ UNCHANGED <<conf, host, agc, arb, calls, mishaps>>
      /\ collected' = <<<<calls, Op.round>>, <<agc.runs, agc.round - 2>>>>
  BY DEF CollectRound
<1>2. PICK op : op = Op
  OBVIOUS
<1>3. /\ host = "starting" /\ op.op = "collect" /\ OpLeads(conf, Here(conf, at), op, Here(conf, at + 1))
      /\ at + 1 \in 1 .. Len(Script[conf]) + 1
  BY <1>1, <1>2, OpIs
<1>4. PICK a, b : a = Here(conf, at) /\ b = Here(conf, at + 1)
  OBVIOUS
<1>5. Holds(conf, b, agc, arb, calls, mishaps) /\ (Calm(mishaps) => <<calls, op.round>> = <<agc.runs, agc.round - 2>>)
  <2>1. OpLeads(conf, a, op, b) /\ Holds(conf, a, agc, arb, calls, mishaps) /\ calls \in Nat
    BY <1>3, <1>4 DEF Noted, Plain
  <2> QED
    BY <1>3, <2>1, HoldsElse
<1>6. Placed'
  BY <1>1, <1>3 DEF Placed
<1>7. Micros'
  BY <1>1 DEF Micros
<1>8. Noted'
  BY <1>1, <1>4, <1>5 DEF Noted
<1>9. collected'[1] = <<calls, op.round>> /\ collected'[2] = <<agc.runs, agc.round - 2>>
  BY <1>1, <1>2
<1> QED
  BY <1>5, <1>6, <1>7, <1>8, <1>9

\* The PLLs locked, or the calibration left out.
LEMMA LockFounded ==
    ASSUME Plain, Placed, Micros, Noted, LockPll
    PROVE  Placed' /\ Micros' /\ Noted'
<1>1. AtOp("locked") /\ UNCHANGED <<conf, host, agc, arb, mishaps>>
  BY DEF LockPll
<1>2. PICK op : op = Op
  OBVIOUS
<1>3. (at' = at + 1 /\ calls' = calls + 1) \/ (at' = at + 1 + op.count /\ calls' = calls)
  BY <1>2 DEF LockPll
<1>4. /\ host = "starting" /\ op.op = "locked" /\ OpLeads(conf, Here(conf, at), op, Here(conf, at + 1))
      /\ at + 1 \in 1 .. Len(Script[conf]) + 1 /\ at + 1 + op.count \in 1 .. Len(Script[conf]) + 1
      /\ Here(conf, at + 1 + op.count) = Here(conf, at)
  BY <1>1, <1>2, OpIs
<1>5. Holds(conf, Here(conf, at), agc, arb, calls, mishaps)
  BY <1>4 DEF Noted
<1>6. PICK a, b : a = Here(conf, at) /\ b = Here(conf, at + 1)
  OBVIOUS
<1>7. Holds(conf, b, agc, arb, calls + 1, mishaps)
  <2>1. OpLeads(conf, a, op, b) /\ Holds(conf, a, agc, arb, calls, mishaps) /\ calls \in Nat
    BY <1>4, <1>5, <1>6 DEF Plain
  <2> QED
    BY <1>4, <2>1, HoldsElse
<1>8. Placed'
  BY <1>1, <1>3, <1>4 DEF Placed
<1>9. Micros'
  BY <1>1 DEF Micros
<1>10. Holds(conf, Here(conf, at'), agc, arb, calls', mishaps)
  BY <1>3, <1>4, <1>5, <1>6, <1>7
<1>11. Noted'
  BY <1>1, <1>10 DEF Noted
<1> QED
  BY <1>8, <1>9, <1>11

\* The results judged.
LEMMA JudgeFounded ==
    ASSUME Plain, Placed, Micros, Noted, JudgeResults
    PROVE  Placed' /\ Micros' /\ Noted'
<1>1. AtOp("judge") /\ UNCHANGED <<conf, agc, arb, calls, mishaps>>
  BY DEF JudgeResults
<1>2. PICK op : op = Op
  OBVIOUS
<1>3. at' = at + 1 + op.count \/ at' = at + 1 \/ (host' = "failed" /\ at' = at)
  BY <1>2 DEF JudgeResults
<1>4. /\ host = "starting" /\ op.op = "judge" /\ OpLeads(conf, Here(conf, at), op, Here(conf, at + 1))
      /\ at + 1 \in 1 .. Len(Script[conf]) + 1 /\ at + 1 + op.count \in 1 .. Len(Script[conf]) + 1
      /\ Here(conf, at + 1 + op.count) = Here(conf, at)
  BY <1>1, <1>2, OpIs
<1>5. Holds(conf, Here(conf, at), agc, arb, calls, mishaps)
  BY <1>4 DEF Noted
<1>6. PICK a, b : a = Here(conf, at) /\ b = Here(conf, at + 1)
  OBVIOUS
<1>7. Holds(conf, b, agc, arb, calls, mishaps)
  <2>1. OpLeads(conf, a, op, b) /\ Holds(conf, a, agc, arb, calls, mishaps) /\ calls \in Nat
    BY <1>4, <1>5, <1>6 DEF Plain
  <2> QED
    BY <1>4, <2>1, HoldsElse
<1>8. Placed'
  BY <1>1, <1>3, <1>4 DEF Placed
<1>9. Micros'
  BY <1>1 DEF Micros
<1>10. Holds(conf, Here(conf, at'), agc, arb, calls, mishaps) \/ host' = "failed"
  BY <1>3, <1>4, <1>5, <1>6, <1>7
<1>11. Noted'
  BY <1>1, <1>10 DEF Noted
<1> QED
  BY <1>8, <1>9, <1>11

\* A micro-controller boots.
LEMMA BootsFounded ==
    ASSUME Placed, Micros, Noted, McuBoots
    PROVE  Placed' /\ Micros' /\ Noted'
<1>1. UNCHANGED <<conf, host, at, calls, mishaps>>
  BY DEF McuBoots, startVars
<1>2. Placed'
  BY <1>1 DEF Placed
<1>3. CASE agc.fw # "none" /\ agc.round = 0 /\ agc' = Boot(agc) /\ arb' = arb
  <2>1. /\ agc' \in Micro /\ agc'.fw = agc.fw /\ agc'.put = agc.put /\ agc'.mode = agc.mode /\ agc'.runs = agc.runs
        /\ agc'.taken = agc.taken /\ agc'.status = 1 /\ agc'.round = 1
    BY <1>3, BootIs DEF Micros
  <2>2. host = "starting" => Holds(conf, Here(conf, at), agc', arb, calls, mishaps)
    BY <1>3, <2>1, HoldsBoots DEF Noted
  <2> QED
    BY <1>1, <1>2, <1>3, <2>1, <2>2 DEF Micros, Noted
<1>4. CASE arb.fw # "none" /\ arb.round = 0 /\ arb' = Boot(arb) /\ agc' = agc
  <2>1. arb' \in Micro /\ arb'.fw = arb.fw /\ arb'.put = arb.put /\ arb'.status = 1 /\ arb'.round = 1
    BY <1>4, BootIs DEF Micros
  <2>2. host = "starting" => Holds(conf, Here(conf, at), agc, arb', calls, mishaps)
    BY <1>4, <2>1, HoldsArbBoots DEF Noted
  <2> QED
    BY <1>1, <1>2, <1>4, <2>1, <2>2 DEF Micros, Noted
<1> QED
  BY <1>3, <1>4 DEF McuBoots

\* The AGC takes what it was told of.
LEMMA AgcTakesFounded ==
    ASSUME Placed, Micros, Noted, AgcTakes
    PROVE  Placed' /\ Micros' /\ Noted'
<1>1. UNCHANGED <<conf, host, at, calls, mishaps, arb>>
  BY DEF AgcTakes, startVars
<1>2. agc' \in Micro /\ TookIt(conf, agc, agc') /\ agc.fw = "agc" /\ ToldTo(conf, agc) /\ agc \in Micro
  BY AgcTakesIs DEF Micros
<1>3. host = "starting" => Holds(conf, Here(conf, at), agc', arb, calls, mishaps)
  BY <1>2, HoldsTook DEF Noted
<1>4. Placed'
  BY <1>1 DEF Placed
<1>5. Micros'
  BY <1>1, <1>2 DEF Micros, TookIt
<1>6. Noted'
  BY <1>1, <1>3 DEF Noted
<1> QED
  BY <1>4, <1>5, <1>6

\* The calibration firmware takes what it was told of.
LEMMA CalTakesFounded ==
    ASSUME Plain, Placed, Micros, Noted, CalTakes
    PROVE  Placed' /\ Micros' /\ Noted'
<1>1. UNCHANGED <<conf, host, at, calls, mishaps, arb>>
  BY DEF CalTakes, startVars
<1>2. agc' \in Micro /\ CalTook(agc, agc') /\ agc.fw = "cal"
  BY CalTakesIs DEF Micros
<1>3. host = "starting" => Holds(conf, Here(conf, at), agc', arb, calls, mishaps)
  BY <1>2, HoldsCalTook DEF Noted, Plain
<1>4. Placed'
  BY <1>1 DEF Placed
<1>5. Micros'
  BY <1>1, <1>2 DEF Micros, CalTook
<1>6. Noted'
  BY <1>1, <1>3 DEF Noted
<1> QED
  BY <1>4, <1>5, <1>6

\* The arbiter takes what it was told of.
LEMMA ArbTakesFounded ==
    ASSUME Placed, Micros, Noted, ArbTakes
    PROVE  Placed' /\ Micros' /\ Noted'
<1>1. UNCHANGED <<conf, host, at, calls, mishaps, agc>>
  BY DEF ArbTakes, startVars
<1>2. /\ arb' \in Micro
      /\ arb.round = 1 /\ arb.put[1] = 1 /\ arb'.fw = arb.fw /\ arb'.put = arb.put /\ arb'.status = 0 /\ arb'.round = 2
      /\ arb'.taken = <<<<arb.put[0], arb.put[2], arb.put[3]>>>>
  BY ArbTakesIs DEF Micros
<1>3. host = "starting" => Holds(conf, Here(conf, at), agc, arb', calls, mishaps)
  BY <1>2, HoldsArbTook DEF Noted
<1>4. Placed'
  BY <1>1 DEF Placed
<1>5. Micros'
  BY <1>1, <1>2 DEF Micros
<1>6. Noted'
  BY <1>1, <1>3 DEF Noted
<1> QED
  BY <1>4, <1>5, <1>6

\* The AGC clears its status.
LEMMA ClearsFounded ==
    ASSUME Placed, Micros, Noted, AgcClears
    PROVE  Placed' /\ Micros' /\ Noted'
<1>1. UNCHANGED <<conf, host, at, calls, mishaps, arb>>
  BY DEF AgcClears, sendUnchanged, startVars
<1>2. agc.fw = "agc" /\ agc.round > LastOf(conf) + 1 /\ agc.status # 0 /\ agc' = [agc EXCEPT !.status = 0]
  BY RoundsIs DEF AgcClears, AgcRuns
<1>3. agc' \in Micro /\ agc'.fw = agc.fw
  BY <1>2, StatusSet DEF Micros
<1>4. host = "starting" => Holds(conf, Here(conf, at), agc', arb, calls, mishaps)
  BY <1>2, <1>3, HoldsCleared DEF Noted
<1>5. Placed'
  BY <1>1 DEF Placed
<1>6. Micros'
  BY <1>1, <1>2, <1>3 DEF Micros
<1>7. Noted'
  BY <1>1, <1>4 DEF Noted
<1> QED
  BY <1>5, <1>6, <1>7

\* Once lgw_start has returned, the mailboxes and the status are all that is written.
LEMMA ElsewhereFounded ==
    ASSUME Placed, Micros, host' # "starting", UNCHANGED <<conf, at, arb>>,
           \/ agc' = agc
           \/ \E v \in Nat : agc' = Written(agc, 0, v)
           \/ agc.fw = "agc" /\ \E v \in Nat : agc' = [agc EXCEPT !.status = v]
    PROVE  Placed' /\ Micros' /\ Noted'
<1>1. Placed' /\ Noted'
  BY DEF Placed, Noted
<1>2. CASE agc' = agc
  BY <1>1, <1>2 DEF Micros
<1>3. ASSUME NEW v \in Nat, agc' = Written(agc, 0, v) PROVE Micros'
  <2>1. Rewritten(agc', agc, 0, v)
    BY <1>3, WrittenIs DEF Micros
  <2> QED
    BY <2>1 DEF Rewritten, Micros
<1>4. ASSUME NEW v \in Nat, agc.fw = "agc", agc' = [agc EXCEPT !.status = v] PROVE Micros'
  BY <1>4, StatusSet DEF Micros
<1> QED
  BY <1>1, <1>2, <1>3, <1>4

-----------------------------------------------------------------------------
(* Nothing is sent before lgw_start has returned.                            *)

Unsent == host \in {"starting", "failed"} =>
            tx = "free" /\ error = "none" /\ sx1261 = "idle" /\ decision = "none" /\ answer = "none"

\* Nothing has been sent at the start.
LEMMA UnsentInit == Init => Unsent
BY DEF Init, Unsent

\* And nothing is until lgw_start has returned.
LEMMA UnsentNext == Unsent /\ [Next]_vars => Unsent'
<1> SUFFICES ASSUME Unsent, [Next]_vars PROVE Unsent'
  OBVIOUS
<1>1. CASE host \notin {"starting", "failed"}
  <2>1. host' \notin {"starting", "failed"}
    BY <1>1 DEF Next, Host, Concentrator, StepDone, StepFails, WriteBox, AwaitStatus, CheckBox, CollectRound, LockPll,
         JudgeResults, StartDone, AtOp, SendRefused, SendStarts, SendTriggers, PollInitiated, PollCleared, SendAborts,
         SendStops, Stop, Return, McuBoots, AgcTakes, CalTakes, ArbTakes, Departs, AgcClears, Emitted, vars
  <2> QED
    BY <2>1 DEF Unsent
<1>2. CASE host \in {"starting", "failed"}
  <2>1. tx = "free" /\ error = "none" /\ sx1261 = "idle" /\ decision = "none" /\ answer = "none"
    BY <1>2 DEF Unsent
  <2>2. UNCHANGED sendVars
    <3>1. CASE Host
      BY <1>2, <3>1 DEF Host, StepDone, StepFails, WriteBox, AwaitStatus, CheckBox, CollectRound, LockPll,
         JudgeResults, StartDone, SendRefused, SendStarts, SendTriggers, PollInitiated, PollCleared, SendAborts,
         SendStops, Stop
    <3>2. CASE Concentrator
      BY <2>1, <3>2 DEF Concentrator, McuBoots, AgcTakes, CalTakes, ArbTakes, Departs, AgcClears, Emitted
    <3>3. CASE UNCHANGED vars
      BY <3>3 DEF vars, sendVars
    <3> QED
      BY <3>1, <3>2, <3>3 DEF Next
  <2> QED
    BY <2>1, <2>2 DEF Unsent, sendVars
<1> QED
  BY <1>1, <1>2

-----------------------------------------------------------------------------
(* The inductive invariant up to the end of lgw_start.                       *)

Founded == Plain /\ Placed /\ Micros /\ Noted /\ Unsent

\* Every step keeps it.
LEMMA FoundedNext == Founded /\ [Next]_vars => Founded'
<1> SUFFICES ASSUME Founded, [Next]_vars PROVE Founded'
  OBVIOUS
<1>1. Plain /\ Placed /\ Micros /\ Noted /\ Unsent
  BY DEF Founded
<1>2. Plain' /\ Unsent'
  BY <1>1, PlainNext, UnsentNext
<1> DEFINE Goal == Placed' /\ Micros' /\ Noted'
<1> HIDE DEF Goal
<1> SUFFICES Goal
  BY <1>2 DEF Founded, Goal
<1>4. CASE StepDone
  BY <1>1, <1>4, StepDoneFounded DEF Goal
<1>5. CASE StepFails
  BY <1>1, <1>5, ElsewhereFounded DEF Goal, StepFails, startVars
<1>6. CASE WriteBox
  BY <1>1, <1>6, WriteBoxFounded DEF Goal
<1>7. CASE AwaitStatus
  BY <1>1, <1>7, AwaitFounded DEF Goal
<1>8. CASE CheckBox
  BY <1>1, <1>8, CheckFounded DEF Goal
<1>9. CASE CollectRound
  BY <1>1, <1>9, CollectFounded DEF Goal
<1>10. CASE LockPll
  BY <1>1, <1>10, LockFounded DEF Goal
<1>11. CASE JudgeResults
  BY <1>1, <1>11, JudgeFounded DEF Goal
<1>12. CASE StartDone
  BY <1>1, <1>12, ElsewhereFounded DEF Goal, StartDone, startVars
<1>13. CASE SendRefused
  BY <1>1, <1>13, ElsewhereFounded DEF Goal, SendRefused, Return, sendUnchanged, startVars
<1>14. CASE SendStarts
  BY <1>1, <1>14, ElsewhereFounded DEF Goal, SendStarts, Return, sendUnchanged, startVars
<1>15. CASE SendTriggers
  BY <1>1, <1>15, ElsewhereFounded DEF Goal, SendTriggers, Return, sendUnchanged, startVars
<1>16. CASE PollInitiated
  <2>1. host = "polling" /\ host' \in {"clearing", "aborting"} /\ UNCHANGED sendUnchanged
    BY <1>16 DEF PollInitiated
  <2>2. agc' = agc \/ agc' = Written(agc, 0, 255)
    BY <1>16 DEF PollInitiated, Tell
  <2> QED
    BY <1>1, <2>1, <2>2, ElsewhereFounded DEF Goal, sendUnchanged, startVars
<1>17. CASE PollCleared
  BY <1>1, <1>17, ElsewhereFounded DEF Goal, PollCleared, Tell, sendUnchanged, startVars
<1>18. CASE SendAborts
  BY <1>1, <1>18, ElsewhereFounded DEF Goal, SendAborts, sendUnchanged, startVars
<1>19. CASE SendStops
  BY <1>1, <1>19, ElsewhereFounded DEF Goal, SendStops, Return, sendUnchanged, startVars
<1>20. CASE Stop
  BY <1>1, <1>20, ElsewhereFounded DEF Goal, Stop, startVars
<1>21. CASE McuBoots
  BY <1>1, <1>21, BootsFounded DEF Goal
<1>22. CASE AgcTakes
  BY <1>1, <1>22, AgcTakesFounded DEF Goal
<1>23. CASE CalTakes
  BY <1>1, <1>23, CalTakesFounded DEF Goal
<1>24. CASE ArbTakes
  BY <1>1, <1>24, ArbTakesFounded DEF Goal
<1>25. CASE Departs
  <2>1. host # "starting"
    BY <1>1, <1>25 DEF Unsent, Departs
  <2>2. UNCHANGED <<conf, at, arb, host>> /\ agc.fw = "agc" /\ \E free \in BOOLEAN :
          agc' = IF conf.lbt THEN [agc EXCEPT !.status = IF free THEN 1 ELSE 65] ELSE agc
    BY <1>25 DEF Departs, AgcRuns, sendUnchanged, startVars
  <2>3. agc' = agc \/ agc' = [agc EXCEPT !.status = 1] \/ agc' = [agc EXCEPT !.status = 65]
    BY <2>2
  <2>4. agc' = agc \/ \E v \in Nat : agc' = [agc EXCEPT !.status = v]
    BY <2>3
  <2> QED
    BY <1>1, <2>1, <2>2, <2>4, ElsewhereFounded DEF Goal
<1>26. CASE AgcClears
  BY <1>1, <1>26, ClearsFounded DEF Goal
<1>27. CASE Emitted
  BY <1>1, <1>27 DEF Goal, Emitted, sendUnchanged, startVars, Placed, Micros, Noted
<1>28. CASE UNCHANGED vars
  BY <1>1, <1>28 DEF vars, Goal, Placed, Micros, Noted
<1> QED
  BY <1>4, <1>5, <1>6, <1>7, <1>8, <1>9, <1>10, <1>11, <1>12, <1>13, <1>14, <1>15, <1>16, <1>17, <1>18, <1>19,
     <1>20, <1>21, <1>22, <1>23, <1>24, <1>25, <1>26, <1>27, <1>28 DEF Next, Host, Concentrator

\* Everything has its type and holds at its note, all along.
THEOREM StartIsAnnotated == Spec => []Founded
<1>1. Init => Founded
  BY PlainInit, FoundedInit, UnsentInit DEF Founded
<1> QED
  BY <1>1, FoundedNext, PTL DEF Spec

\* Type correctness.
THEOREM ConcentratorTypeCorrect == Spec => []TypeOK
<1>1. Founded => TypeOK
  BY DEF Founded, Plain, Mishaps, Placed, Micros, TypeOK
<1> QED
  BY <1>1, StartIsAnnotated, PTL

\* A calibration round that is read is the one commanded last.
THEOREM CalibrationInStep == Spec => []RoundsInStep
<1>1. Init => RoundsInStep
  BY DEF Init, RoundsInStep
<1>2. Founded /\ RoundsInStep /\ [Next]_vars => RoundsInStep'
  <2> SUFFICES ASSUME Founded, RoundsInStep, [Next]_vars PROVE RoundsInStep'
    OBVIOUS
  <2>1. CASE CollectRound
    <3>1. Calm(mishaps) => collected'[1] = collected'[2]
      BY <2>1, CollectFounded DEF Founded
    <3>2. mishaps' = mishaps
      BY <2>1 DEF CollectRound
    <3> QED
      BY <3>1, <3>2 DEF Calm, RoundsInStep
  <2>2. ASSUME ~CollectRound PROVE collected' = collected /\ mishaps \subseteq mishaps'
    <3>1. CASE Host
      BY <2>2, <3>1 DEF Host, StepDone, StepFails, WriteBox, AwaitStatus, CheckBox, LockPll, JudgeResults, StartDone,
           SendRefused, SendStarts, SendTriggers, PollInitiated, PollCleared, SendAborts, SendStops, Stop,
           sendUnchanged, startVars, Tell, Abort
    <3>2. CASE Concentrator
      BY <3>2 DEF Concentrator, McuBoots, AgcTakes, CalTakes, ArbTakes, Departs, AgcClears, Emitted,
           sendUnchanged, startVars
    <3>3. CASE UNCHANGED vars
      BY <3>3 DEF vars
    <3> QED
      BY <3>1, <3>2, <3>3 DEF Next
  <2> QED
    BY <2>1, <2>2 DEF RoundsInStep
<1> QED
  BY <1>1, <1>2, StartIsAnnotated, PTL DEF Spec

-----------------------------------------------------------------------------
(* The sx1261 and the errors of lgw_send.                                    *)

\* Between a call of lgw_send and its answer.
Busy == {"triggering", "polling", "clearing", "aborting", "stopping"}

Listens == sx1261 = "lbt" => conf.lbt /\ (host \in Busy \/ "stop" \in mishaps)

Silent == /\ host = "triggering" => error = "none"
          /\ error = "status" /\ host \in {"up", "stopping"} /\ "abort" \notin mishaps => tx = "free"

\* The operations of lgw_start.
Starts == StepDone \/ StepFails \/ WriteBox \/ AwaitStatus \/ CheckBox \/ CollectRound \/ LockPll \/ JudgeResults
          \/ StartDone

\* What an operation of lgw_start leaves alone.
LEMMA StartsKeep ==
    ASSUME Starts, Unsent
    PROVE  /\ host = "starting" /\ host' \in {"starting", "failed", "up"} /\ UNCHANGED <<conf, sendVars>>
           /\ mishaps \subseteq mishaps'
           /\ tx' = "free" /\ error' = "none" /\ sx1261' = "idle" /\ decision' = "none" /\ answer' = "none"
           /\ host' = "up" => StartDone
<1>1. host = "starting" /\ host' \in {"starting", "failed", "up"} /\ UNCHANGED <<conf, sendVars>> /\ mishaps \subseteq mishaps'
  BY DEF Starts, StepDone, StepFails, WriteBox, AwaitStatus, CheckBox, CollectRound, LockPll, JudgeResults, StartDone,
         AtOp, startVars
<1>2. host' = "up" => StartDone
  BY DEF Starts, StepDone, StepFails, WriteBox, AwaitStatus, CheckBox, CollectRound, LockPll, JudgeResults, AtOp
<1> QED
  BY <1>1, <1>2 DEF Unsent, sendVars

\* What the micro-controllers do on their own.
Works == McuBoots \/ AgcTakes \/ CalTakes \/ ArbTakes

\* What the micro-controllers leave alone.
LEMMA WorksKeep ==
    ASSUME Works
    PROVE  UNCHANGED <<conf, host, started, sendVars, faults, mishaps>>
BY DEF Works, McuBoots, AgcTakes, CalTakes, ArbTakes

\* Every step, by what it is part of.
LEMMA Cases ==
    ASSUME [Next]_vars
    PROVE  \/ Starts \/ Works \/ SendRefused \/ SendStarts \/ SendTriggers \/ PollInitiated \/ PollCleared
           \/ SendAborts \/ SendStops \/ Stop \/ Departs \/ AgcClears \/ Emitted \/ UNCHANGED vars
BY DEF Next, Host, Concentrator, Starts, Works

\* The sx1261 listens during a call of lgw_send, or could not be stopped.
LEMMA ListensNext == Unsent /\ Listens /\ [Next]_vars => Listens'
<1> SUFFICES ASSUME Unsent, Listens, [Next]_vars PROVE Listens'
  OBVIOUS
<1> USE DEF Listens, Busy, Return, sendUnchanged, sendVars
<1>1. CASE Starts
  BY <1>1, StartsKeep
<1>2. CASE Works
  BY <1>2, WorksKeep
<1>3. CASE SendRefused
  BY <1>3 DEF SendRefused
<1>4. CASE SendStarts
  BY <1>4 DEF SendStarts
<1>5. CASE SendTriggers
  BY <1>5 DEF SendTriggers
<1>6. CASE PollInitiated
  BY <1>6 DEF PollInitiated, Tell
<1>7. CASE PollCleared
  BY <1>7 DEF PollCleared, Tell
<1>8. CASE SendAborts
  BY <1>8 DEF SendAborts, Abort
<1>9. CASE SendStops
  BY <1>9 DEF SendStops
<1>10. CASE Stop
  BY <1>10 DEF Stop, Abort
<1>11. CASE Departs
  BY <1>11 DEF Departs
<1>12. CASE AgcClears
  BY <1>12 DEF AgcClears
<1>13. CASE Emitted
  BY <1>13 DEF Emitted
<1>14. CASE UNCHANGED vars
  BY <1>14 DEF vars
<1> QED
  BY <1>1, <1>2, <1>3, <1>4, <1>5, <1>6, <1>7, <1>8, <1>9, <1>10, <1>11, <1>12, <1>13, <1>14, Cases

\* After an error nothing is left in the TX state machine, unless it could not be aborted.
LEMMA SilentNext == Unsent /\ Silent /\ [Next]_vars => Silent'
<1> SUFFICES ASSUME Unsent, Silent, [Next]_vars PROVE Silent'
  OBVIOUS
<1> USE DEF Silent, Return, sendUnchanged, sendVars
<1>1. CASE Starts
  BY <1>1, StartsKeep
<1>2. CASE Works
  BY <1>2, WorksKeep
<1>3. CASE SendRefused
  BY <1>3 DEF SendRefused
<1>4. CASE SendStarts
  BY <1>4 DEF SendStarts
<1>5. CASE SendTriggers
  BY <1>5 DEF SendTriggers
<1>6. CASE PollInitiated
  BY <1>6 DEF PollInitiated, Tell
<1>7. CASE PollCleared
  BY <1>7 DEF PollCleared, Tell
<1>8. CASE SendAborts
  BY <1>8 DEF SendAborts, Abort
<1>9. CASE SendStops
  BY <1>9 DEF SendStops
<1>10. CASE Stop
  BY <1>10 DEF Stop, Abort
<1>11. CASE Departs
  BY <1>11 DEF Departs
<1>12. CASE AgcClears
  BY <1>12 DEF AgcClears
<1>13. CASE Emitted
  BY <1>13 DEF Emitted
<1>14. CASE UNCHANGED vars
  BY <1>14 DEF vars
<1> QED
  BY <1>1, <1>2, <1>3, <1>4, <1>5, <1>6, <1>7, <1>8, <1>9, <1>10, <1>11, <1>12, <1>13, <1>14, Cases

-----------------------------------------------------------------------------
(* What the micro-controllers took, and the sending of a packet.             *)

\* The concentrator is started.
Running == {"up"} \cup Busy

\* What the AGC and the arbiter took are the parameters of the configuration.
Took(c, g, m) == m \cap {"wait", "read"} = {} => Len(g.taken) >= LastOf(c) /\ Matched(c, LastOf(c), g)
ArbTookIt(c, r, m) == m \cap {"wait", "arb write"} = {} => ArbTaken(c, r)

Informed == host \in Running => agc.fw = "agc" /\ Took(conf, agc, mishaps) /\ ArbTookIt(conf, arb, mishaps)

\* The AGC has nothing to say, and is not asked to clear its status.
Idle(g) == g.status = 0 /\ g.put[0] # 255
Decided(g, dec, t) == \/ dec = "allowed" /\ g.status = 1 /\ t # "scheduled"
                      \/ dec = "blocked" /\ g.status = 65 /\ t = "free"
Told(ans, dec) == (ans = "sent" => dec = "allowed") /\ (ans = "blocked" => dec = "blocked")

Sending(h, g, dec, t, ans, err) ==
  /\ h = "up" => Idle(g) /\ t # "scheduled" /\ Told(ans, dec)
  /\ h = "triggering" => Idle(g) /\ t # "scheduled" /\ err = "none"
  /\ h = "polling" => /\ g.put[0] # 255 /\ err = "none"
                      /\ (t = "scheduled" /\ g.status = 0) \/ Decided(g, dec, t)
  /\ h = "clearing" => err = "none" /\ t # "scheduled" /\ Told(ans, dec)
  /\ h = "stopping" => Idle(g) /\ t # "scheduled" /\ (err # "none" \/ Told(ans, dec))
  /\ h # "aborting"

\* With listen-before-talk, as long as nothing fails: where the host is in lgw_send agrees
\* with what the AGC, the TX state machine and the answer are.
Attended == conf.lbt /\ mishaps = {} /\ host \in Running =>
              agc.round = LastOf(conf) + 2 /\ Sending(host, agc, decision, tx, answer, error)

\* What holds when lgw_start returns.
LEMMA DoneIs ==
    ASSUME Founded, StartDone
    PROVE  /\ agc.fw = "agc" /\ Took(conf, agc, mishaps) /\ ArbTookIt(conf, arb, mishaps)
           /\ mishaps = {} => agc.round = LastOf(conf) + 2 /\ Idle(agc)
<1>1. Plain /\ Placed /\ Micros /\ Noted
  BY DEF Founded
<1>2. PICK l \in Nat \ {0} : l = LastOf(conf)
  BY ConfLast
<1>3. conf \in Configurations
  BY <1>1 DEF Plain
<1>4. at = Len(Script[conf]) + 1
  <2>1. PICK n \in Nat : n = Len(Script[conf])
    BY <1>3, ScriptNotes
  <2> QED
    BY <1>1, <2>1 DEF Placed, StartDone
<1>5. Here(conf, at) = ArbAt(8)
  BY <1>3, <1>4, ScriptNotes
<1>6. Holds(conf, ArbAt(8), agc, arb, calls, mishaps)
  BY <1>1, <1>5 DEF Noted, StartDone
<1>7. ArbAt(8)[1] = "arb" /\ ArbAt(8)[2] = 8
  BY DEF ArbAt
<1>8. ArbFine(conf, 8, agc, arb, mishaps)
  <2>1. ArbNote(conf, ArbAt(8), agc, arb, mishaps)
    BY <1>6, <1>7, HoldsKinds
  <2> QED
    BY <1>7, <2>1 DEF ArbNote
<1>9. agc.fw = "agc" /\ ("wait" \notin mishaps => AgcDone(conf, agc, mishaps)) /\ ArbTookIt(conf, arb, mishaps)
  BY <1>8 DEF ArbFine, ArbHolds, ArbTookIt
<1>10. ASSUME mishaps \cap {"wait", "read"} = {} PROVE Len(agc.taken) >= LastOf(conf) /\ Matched(conf, LastOf(conf), agc)
  <2>1. AgcDone(conf, agc, mishaps) /\ "read" \notin mishaps
    BY <1>9, <1>10
  <2>2. Matched(conf, LastOf(conf), agc)
    BY <2>1 DEF AgcDone
  <2>3. Len(agc.taken) = l \/ Len(agc.taken) = l + 1
    <3>1. AgcAt(conf, l + 1, agc) \/ AgcAt(conf, l + 2, agc)
      BY <1>2, <2>1 DEF AgcDone, Quiet
    <3>2. (l + 1) - 1 = l /\ (l + 2) - 1 = l + 1
      BY <1>2
    <3> QED
      BY <3>1, <3>2 DEF AgcAt
  <2> QED
    BY <1>2, <2>2, <2>3
<1>11. ASSUME mishaps = {} PROVE agc.round = LastOf(conf) + 2 /\ Idle(agc)
  <2>1. AgcDone(conf, agc, mishaps) /\ "read" \notin mishaps /\ "agc write" \notin mishaps
    BY <1>9, <1>11
  <2>2. agc.round = l + 2 /\ agc.put[0] # 255
    BY <1>2, <2>1 DEF AgcDone
  <2>3. AgcAt(conf, l + 2, agc)
    BY <1>2, <2>1, <2>2 DEF AgcDone, Quiet, AgcAt
  <2>4. agc.status = RoundsOf(conf)[l + 1].status
    BY <2>3 DEF AgcAt
  <2>5. agc.status = 0
    BY <1>2, <2>4, ConfRounds
  <2> QED
    BY <1>2, <2>2, <2>5 DEF Idle
<1> QED
  BY <1>9, <1>10, <1>11 DEF Took

\* What a step of the firmware leaves of what it took.
LEMMA TookStays ==
    ASSUME NEW c, NEW g \in Micro, NEW m, Took(c, g, m), NEW w,
           w.taken = g.taken \/ \E x \in Triples : w.taken = Append(g.taken, x)
    PROVE  Took(c, w, m)
<1>1. PICK l \in Nat \ {0} : l = LastOf(c)
  BY ConfLast
<1>2. g.taken \in Seq(Triples)
  BY DEF Micro
<1>3. CASE w.taken = g.taken
  BY <1>3 DEF Took, Matched
<1>4. ASSUME NEW x \in Triples, w.taken = Append(g.taken, x) PROVE Took(c, w, m)
  <2>1. Len(w.taken) = Len(g.taken) + 1 /\ \A i \in 1 .. Len(g.taken) : w.taken[i] = g.taken[i]
    BY <1>2, <1>4
  <2>2. Len(g.taken) \in Nat
    BY <1>2
  <2>3. Len(g.taken) >= l => Len(w.taken) >= l /\ \A i \in 1 .. l : w.taken[i] = g.taken[i]
    BY <2>1, <2>2
  <2> QED
    BY <1>1, <2>3 DEF Took, Matched
<1> QED
  BY <1>3, <1>4

\* More mishaps ask for less.
LEMMA TookWorse ==
    ASSUME NEW c, NEW g, NEW r, NEW m, NEW x, m \subseteq x
    PROVE  (Took(c, g, m) => Took(c, g, x)) /\ (ArbTookIt(c, r, m) => ArbTookIt(c, r, x))
BY DEF Took, ArbTookIt

\* What the micro-controllers took at the start they keep.
LEMMA InformedNext == Founded /\ Informed /\ [Next]_vars => Informed'
<1> SUFFICES ASSUME Founded, Informed, [Next]_vars, host' \in Running PROVE Informed'
  BY DEF Informed
<1>1. Unsent /\ Micros
  BY DEF Founded
<1> DEFINE Goal == agc'.fw = "agc" /\ Took(conf', agc', mishaps') /\ ArbTookIt(conf', arb', mishaps')
<1> HIDE DEF Goal
<1>2. SUFFICES Goal
  BY DEF Informed, Goal
<1>3. CASE Starts
  <2>1. StartDone
    BY <1>1, <1>3, StartsKeep DEF Running, Busy
  <2>2. UNCHANGED <<conf, agc, arb, mishaps>>
    BY <2>1 DEF StartDone
  <2> QED
    BY <2>1, <2>2, DoneIs DEF Goal
<1>4. ASSUME ~Starts, ~(UNCHANGED vars) PROVE host \in Running
  BY <1>4, Cases, WorksKeep DEF Running, Busy, SendRefused, SendStarts, SendTriggers, PollInitiated, PollCleared,
     SendAborts, SendStops, Stop, Departs, AgcClears, Emitted, sendUnchanged
<1>5. ASSUME host \in Running, UNCHANGED <<conf, arb>>, mishaps \subseteq mishaps', agc'.fw = agc.fw, agc'.taken = agc.taken
      PROVE  Goal
  <2>1. agc.fw = "agc" /\ Took(conf, agc, mishaps) /\ ArbTookIt(conf, arb, mishaps)
    BY <1>5 DEF Informed
  <2>2. Took(conf, agc', mishaps)
    BY <1>1, <1>5, <2>1, TookStays DEF Micros
  <2>3. Took(conf, agc', mishaps') /\ ArbTookIt(conf, arb, mishaps')
    BY <1>5, <2>1, <2>2, TookWorse
  <2> QED
    BY <1>5, <2>1, <2>3 DEF Goal
<1>6. \A v : Written(agc, 0, v).fw = agc.fw /\ Written(agc, 0, v).taken = agc.taken
  BY <1>1 DEF Written, Micros, Micro
<1>7. \A v : [agc EXCEPT !.status = v].fw = agc.fw /\ [agc EXCEPT !.status = v].taken = agc.taken
  BY <1>1 DEF Micros, Micro
<1>8. CASE McuBoots
  <2>1. host \in Running /\ UNCHANGED <<conf, mishaps>>
    BY <1>8 DEF McuBoots, startVars, sendVars
  <2>2. CASE agc.round = 0 /\ agc.fw # "none" /\ agc' = Boot(agc) /\ arb' = arb
    BY <1>1, <1>5, <2>1, <2>2, BootIs DEF Micros
  <2>3. CASE arb.round = 0 /\ arb.fw # "none" /\ arb' = Boot(arb) /\ agc' = agc
    <3>1. agc.fw = "agc" /\ Took(conf, agc, mishaps) /\ ArbTookIt(conf, arb, mishaps)
      BY <2>1 DEF Informed
    <3>2. ~ArbTaken(conf, arb)
      BY <2>3 DEF ArbTaken
    <3>3. ArbTookIt(conf, arb', mishaps)
      BY <3>1, <3>2 DEF ArbTookIt
    <3> QED
      BY <2>1, <2>3, <3>1, <3>3 DEF Goal
  <2> QED
    BY <1>8, <2>2, <2>3 DEF McuBoots
<1>9. CASE AgcTakes
  <2>1. host \in Running /\ UNCHANGED <<conf, mishaps, arb>>
    BY <1>9 DEF AgcTakes, startVars, sendVars
  <2>2. TookIt(conf, agc, agc')
    BY <1>1, <1>9, AgcTakesIs DEF Micros
  <2>3. <<agc.put[0], agc.put[1], agc.put[2]>> \in Triples
    <3>1. agc \in Micro
      BY <1>1 DEF Micros
    <3>2. agc.put[0] \in Nat /\ agc.put[1] \in Nat /\ agc.put[2] \in Nat
      BY <3>1 DEF Micro
    <3> QED
      BY <3>2 DEF Triples
  <2>4. agc'.fw = agc.fw /\ \E x \in Triples : agc'.taken = Append(agc.taken, x)
    BY <2>2, <2>3 DEF TookIt
  <2>5. agc.fw = "agc" /\ Took(conf, agc, mishaps) /\ ArbTookIt(conf, arb, mishaps)
    BY <2>1 DEF Informed
  <2>6. Took(conf, agc', mishaps)
    BY <1>1, <2>4, <2>5, TookStays DEF Micros
  <2> QED
    BY <2>1, <2>4, <2>5, <2>6 DEF Goal
<1>10. CASE CalTakes
  <2>1. host \in Running /\ agc.fw = "cal"
    BY <1>10 DEF CalTakes, startVars, sendVars
  <2> QED
    BY <2>1 DEF Informed
<1>11. CASE ArbTakes
  <2>1. host \in Running /\ UNCHANGED <<conf, mishaps, agc>> /\ arb.round = 1
    BY <1>11 DEF ArbTakes, startVars, sendVars
  <2>2. agc.fw = "agc" /\ Took(conf, agc, mishaps) /\ ArbTookIt(conf, arb, mishaps)
    BY <2>1 DEF Informed
  <2>3. ~ArbTaken(conf, arb)
    BY <2>1 DEF ArbTaken
  <2>4. ArbTookIt(conf, arb', mishaps)
    BY <2>2, <2>3 DEF ArbTookIt
  <2> QED
    BY <2>1, <2>2, <2>4 DEF Goal
<1>12. CASE SendRefused
  BY <1>5, <1>12 DEF SendRefused, Running, sendUnchanged
<1>13. CASE SendStarts
  BY <1>5, <1>13 DEF SendStarts, Running, sendUnchanged
<1>14. CASE SendTriggers
  BY <1>5, <1>14 DEF SendTriggers, Running, Busy, sendUnchanged
<1>15. CASE PollInitiated
  <2>1. host \in Running /\ UNCHANGED <<conf, arb>>
    BY <1>15 DEF PollInitiated, Running, Busy, sendUnchanged
  <2>2. agc' = agc \/ agc' = Written(agc, 0, 255)
    BY <1>15 DEF PollInitiated, Tell
  <2>3. mishaps \subseteq mishaps'
    BY <1>15 DEF PollInitiated, Tell
  <2>4. agc'.fw = agc.fw /\ agc'.taken = agc.taken
    BY <1>6, <2>2
  <2> QED
    BY <1>5, <2>1, <2>3, <2>4
<1>16. CASE PollCleared
  BY <1>5, <1>6, <1>16 DEF PollCleared, Tell, Running, Busy, sendUnchanged
<1>17. CASE SendAborts
  BY <1>5, <1>17 DEF SendAborts, Abort, Running, Busy, sendUnchanged
<1>18. CASE SendStops
  BY <1>5, <1>18 DEF SendStops, Running, Busy, sendUnchanged
<1>19. CASE Stop
  BY <1>19 DEF Stop, Running, Busy
<1>20. CASE Departs
  <2>1. agc' = agc \/ agc' = [agc EXCEPT !.status = 1] \/ agc' = [agc EXCEPT !.status = 65]
    BY <1>20 DEF Departs
  <2>2. host \in Running /\ UNCHANGED <<conf, arb, mishaps>>
    BY <1>20 DEF Departs, sendUnchanged
  <2>3. agc'.fw = agc.fw /\ agc'.taken = agc.taken
    BY <1>7, <2>1
  <2> QED
    BY <1>5, <2>2, <2>3
<1>21. CASE AgcClears
  BY <1>5, <1>7, <1>21 DEF AgcClears, sendUnchanged
<1>22. CASE Emitted
  BY <1>5, <1>22 DEF Emitted, sendUnchanged
<1>23. CASE UNCHANGED vars
  BY <1>5, <1>23 DEF vars
<1> QED
  BY <1>3, <1>8, <1>9, <1>10, <1>11, <1>12, <1>13, <1>14, <1>15, <1>16, <1>17, <1>18, <1>19, <1>20, <1>21, <1>22, <1>23,
     Cases DEF Works

-----------------------------------------------------------------------------

\* Whether the AGC let the packet go, read from its status.
LEMMA StatusReads ==
    /\ 1 % 2 = 1 /\ (1 \div 64) % 2 = 0 /\ 65 % 2 = 1 /\ (65 \div 64) % 2 = 1 /\ 0 % 2 = 0
OBVIOUS

\* A write to mailbox 0, the status kept.
LEMMA ToldWell ==
    ASSUME agc \in Micro, NEW v \in Nat, NEW more, Tell(v, more), mishaps' = {}
    PROVE  /\ agc'.put[0] = v /\ agc'.status = agc.status /\ agc'.round = agc.round
           /\ more = {} /\ mishaps = {}
<1>1. agc' = Written(agc, 0, v) /\ mishaps' = mishaps \cup more
  BY DEF Tell
<1>2. Rewritten(agc', agc, 0, v)
  BY <1>1, WrittenIs
<1> QED
  BY <1>1, <1>2 DEF Rewritten

\* While nothing fails, lgw_send follows the AGC to its decision.
LEMMA AttendedNext == Founded /\ Informed /\ Silent /\ Attended /\ [Next]_vars => Attended'
<1> SUFFICES ASSUME Founded, Informed, Silent, Attended, [Next]_vars, conf'.lbt, mishaps' = {}, host' \in Running
             PROVE  agc'.round = LastOf(conf') + 2 /\ Sending(host', agc', decision', tx', answer', error')
  BY DEF Attended
<1>1. Unsent /\ agc \in Micro
  BY DEF Founded, Micros
<1>2. PICK l \in Nat \ {0} : l = LastOf(conf)
  BY ConfLast
<1> DEFINE Goal == agc'.round = LastOf(conf') + 2 /\ Sending(host', agc', decision', tx', answer', error')
<1> HIDE DEF Goal
<1>3. SUFFICES Goal
  BY DEF Goal
<1>4. CASE Starts
  <2>1. StartDone /\ tx' = "free" /\ error' = "none" /\ decision' = "none" /\ answer' = "none"
    BY <1>1, <1>4, StartsKeep DEF Running, Busy
  <2>2. UNCHANGED <<conf, agc, mishaps>> /\ host' = "up"
    BY <2>1 DEF StartDone
  <2>3. agc.round = LastOf(conf) + 2 /\ Idle(agc)
    BY <2>1, <2>2, DoneIs
  <2> QED
    BY <2>1, <2>2, <2>3 DEF Goal, Sending, Told
<1>5. ASSUME conf' = conf, mishaps = {}, host \in Running
      PROVE  agc.round = l + 2 /\ agc.fw = "agc" /\ Sending(host, agc, decision, tx, answer, error) /\ conf.lbt
  BY <1>2, <1>5 DEF Attended, Informed
<1>6. ASSUME Works PROVE UNCHANGED <<conf, host, mishaps, sendVars>>
  BY <1>6, WorksKeep
<1>7. CASE McuBoots
  <2>1. conf' = conf /\ mishaps = {} /\ host \in Running /\ UNCHANGED <<host, sendVars>>
    BY <1>6, <1>7 DEF Works
  <2>2. agc' = agc
    BY <1>2, <1>5, <1>7, <2>1 DEF McuBoots
  <2> QED
    BY <1>2, <1>5, <2>1, <2>2 DEF Goal, sendVars
<1>8. CASE AgcTakes
  <2>1. conf' = conf /\ mishaps = {} /\ host \in Running
    BY <1>6, <1>8 DEF Works
  <2>2. ToldTo(conf, agc)
    BY <1>1, <1>8, AgcTakesIs
  <2> QED
    BY <1>2, <1>5, <2>1, <2>2 DEF ToldTo
<1>9. CASE CalTakes
  <2>1. conf' = conf /\ mishaps = {} /\ host \in Running /\ agc.fw = "cal"
    BY <1>6, <1>9 DEF Works, CalTakes
  <2> QED
    BY <1>5, <2>1
<1>10. CASE ArbTakes
  <2>1. conf' = conf /\ mishaps = {} /\ host \in Running /\ UNCHANGED <<host, agc, sendVars>>
    BY <1>6, <1>10 DEF Works, ArbTakes
  <2> QED
    BY <1>2, <1>5, <2>1 DEF Goal, sendVars
<1>11. CASE SendRefused
  <2>1. /\ host = "up" /\ host' = "up" /\ answer' = "error" /\ UNCHANGED <<conf, mishaps, agc, tx>>
    BY <1>11 DEF SendRefused, Return, sendUnchanged
  <2>2. agc.round = l + 2 /\ Sending(host, agc, decision, tx, answer, error)
    BY <1>5, <2>1 DEF Running
  <2> QED
    BY <1>2, <2>1, <2>2 DEF Goal, Sending, Told
<1>12. CASE SendStarts
  <2>1. /\ host = "up"
        /\ host' = "triggering" \/ (host' = "up" /\ answer' = "error")
        /\ error' = "none" /\ UNCHANGED <<conf, mishaps, agc, tx>>
    BY <1>12 DEF SendStarts, Return, sendUnchanged
  <2>2. agc.round = l + 2 /\ Sending(host, agc, decision, tx, answer, error)
    BY <1>5, <1>12, <2>1 DEF Running, SendStarts
  <2>3. host = "up"
    BY <1>12 DEF SendStarts
  <2> QED
    BY <1>2, <2>1, <2>2, <2>3 DEF Goal, Sending, Told
<1>13. CASE SendTriggers
  <2>1. /\ host = "triggering" /\ UNCHANGED <<conf, mishaps, agc, decision>>
    BY <1>13 DEF SendTriggers, sendUnchanged
  <2>2. agc.round = l + 2 /\ Sending(host, agc, decision, tx, answer, error) /\ conf.lbt
    BY <1>5, <2>1 DEF Running, Busy
  <2>3. \/ tx' = "scheduled" /\ host' = "polling" /\ error' = error
        \/ tx' = tx /\ host' = "stopping" /\ error' = "send"
    BY <1>13, <2>2 DEF SendTriggers
  <2> QED
    BY <1>2, <2>1, <2>2, <2>3 DEF Goal, Sending, Idle
<1>14. CASE PollInitiated
  <2>1. host = "polling" /\ UNCHANGED <<conf, tx, decision>>
    BY <1>14 DEF PollInitiated, sendUnchanged
  <2>2. /\ Initiated /\ answer' = (IF Allowed THEN "sent" ELSE "blocked") /\ Tell(255, {}) /\ host' = "clearing"
        /\ error' = error
    <3>1. ~Tell(255, {"timeout"})
      BY <1>1, ToldWell
    <3>2. mishaps' # mishaps \cup {"status"}
      OBVIOUS
    <3> QED
      BY <1>14, <3>1, <3>2 DEF PollInitiated
  <2>3. agc'.put[0] = 255 /\ agc'.round = agc.round /\ mishaps = {}
    BY <1>1, <2>2, ToldWell
  <2>4. agc.round = l + 2 /\ Sending(host, agc, decision, tx, answer, error)
    BY <1>5, <2>1, <2>3 DEF Running, Busy
  <2>5. error = "none" /\ Decided(agc, decision, tx)
    <3>1. agc.status # 0
      BY <2>2, StatusReads DEF Initiated
    <3> QED
      BY <2>1, <2>4, <3>1 DEF Sending
  <2>6. tx # "scheduled" /\ Told(answer', decision)
    <3>1. CASE decision = "allowed" /\ agc.status = 1 /\ tx # "scheduled"
      BY <2>2, <3>1, StatusReads DEF Allowed, Told
    <3>2. CASE decision = "blocked" /\ agc.status = 65 /\ tx = "free"
      BY <2>2, <3>2, StatusReads DEF Allowed, Told
    <3> QED
      BY <2>5, <3>1, <3>2 DEF Decided
  <2> QED
    BY <1>2, <2>1, <2>2, <2>3, <2>4, <2>5, <2>6 DEF Goal, Sending
<1>15. CASE PollCleared
  <2>1. host = "clearing" /\ UNCHANGED <<conf, tx, decision, answer>>
    BY <1>15 DEF PollCleared, sendUnchanged
  <2>2. /\ agc.status = 0 /\ Tell(0, {}) /\ host' = (IF error # "none" THEN "aborting" ELSE "stopping") /\ error' = error
    <3>1. ~Tell(0, {"timeout"})
      BY <1>1, ToldWell
    <3>2. mishaps' # mishaps \cup {"status"}
      OBVIOUS
    <3> QED
      BY <1>15, <3>1, <3>2 DEF PollCleared
  <2>3. agc'.put[0] = 0 /\ agc'.status = 0 /\ agc'.round = agc.round /\ mishaps = {}
    BY <1>1, <2>2, ToldWell
  <2>4. agc.round = l + 2 /\ Sending(host, agc, decision, tx, answer, error)
    BY <1>5, <2>1, <2>3 DEF Running, Busy
  <2> QED
    BY <1>2, <2>1, <2>2, <2>3, <2>4 DEF Goal, Sending, Idle
<1>16. CASE SendAborts
  <2>1. host = "aborting" /\ UNCHANGED conf /\ mishaps = {}
    BY <1>16 DEF SendAborts, Abort, sendUnchanged
  <2> QED
    BY <1>5, <2>1 DEF Sending, Running, Busy
<1>17. CASE SendStops
  <2>1. /\ host = "stopping" /\ UNCHANGED <<conf, agc, tx, decision, error>> /\ mishaps = {}
        /\ host' = "up" /\ answer' = IF error # "none" THEN "error" ELSE answer
    BY <1>17 DEF SendStops, Return, sendUnchanged
  <2>2. agc.round = l + 2 /\ Sending(host, agc, decision, tx, answer, error)
    BY <1>5, <2>1 DEF Running, Busy
  <2> QED
    BY <1>2, <2>1, <2>2 DEF Goal, Sending, Told
<1>18. CASE Stop
  BY <1>18 DEF Stop, Running, Busy
<1>19. CASE Departs
  <2>1. tx = "scheduled" /\ UNCHANGED <<conf, host, mishaps, answer, error>>
    BY <1>19 DEF Departs, sendUnchanged
  <2>2. agc.round = l + 2 /\ Sending(host, agc, decision, tx, answer, error) /\ conf.lbt
    BY <1>5, <2>1
  <2>3. host = "polling"
    BY <2>1, <2>2 DEF Sending, Running, Busy
  <2>4. \/ tx' = "emitting" /\ decision' = "allowed" /\ agc' = [agc EXCEPT !.status = 1]
        \/ tx' = "free" /\ decision' = "blocked" /\ agc' = [agc EXCEPT !.status = 65]
    BY <1>19, <2>2 DEF Departs
  <2>5. agc'.put = agc.put /\ agc'.round = agc.round
    BY <1>1, <2>4, StatusSet
  <2>6. Decided(agc', decision', tx')
    <3>1. CASE tx' = "emitting" /\ decision' = "allowed" /\ agc' = [agc EXCEPT !.status = 1]
      <4>1. agc'.status = 1
        BY <1>1, <3>1, StatusSet
      <4> QED
        BY <3>1, <4>1 DEF Decided
    <3>2. CASE tx' = "free" /\ decision' = "blocked" /\ agc' = [agc EXCEPT !.status = 65]
      <4>1. agc'.status = 65
        BY <1>1, <3>2, StatusSet
      <4> QED
        BY <3>2, <4>1 DEF Decided
    <3> QED
      BY <2>4, <3>1, <3>2
  <2> QED
    BY <1>2, <2>1, <2>2, <2>3, <2>5, <2>6 DEF Goal, Sending
<1>20. CASE AgcClears
  <2>1. UNCHANGED <<conf, host, mishaps, sendVars>> /\ agc.put[0] = 255 /\ agc.status # 0 /\ agc' = [agc EXCEPT !.status = 0]
    BY <1>20 DEF AgcClears, sendUnchanged
  <2>2. agc.round = l + 2 /\ Sending(host, agc, decision, tx, answer, error)
    BY <1>5, <2>1
  <2>3. host = "clearing"
    BY <2>1, <2>2 DEF Sending, Running, Busy, Idle
  <2>4. agc'.round = agc.round
    BY <1>1, <2>1 DEF Micro
  <2> QED
    BY <1>2, <2>1, <2>2, <2>3, <2>4 DEF Goal, Sending, sendVars
<1>21. CASE Emitted
  <2>1. tx = "emitting" /\ tx' = "free" /\ UNCHANGED <<conf, agc, host, decision, answer, error, mishaps>>
    BY <1>21 DEF Emitted, sendUnchanged
  <2>2. agc.round = l + 2 /\ Sending(host, agc, decision, tx, answer, error)
    BY <1>5, <2>1
  <2> QED
    BY <1>2, <2>1, <2>2 DEF Goal, Sending, Decided
<1>22. CASE UNCHANGED vars
  <2>1. UNCHANGED <<conf, agc, host, tx, decision, answer, error, mishaps>>
    BY <1>22 DEF vars
  <2> QED
    BY <1>2, <1>5, <2>1 DEF Goal
<1> QED
  BY <1>4, <1>7, <1>8, <1>9, <1>10, <1>11, <1>12, <1>13, <1>14, <1>15, <1>16, <1>17, <1>18, <1>19, <1>20, <1>21, <1>22,
     Cases DEF Works

-----------------------------------------------------------------------------
\* lgw_start and lgw_stop say whether the concentrator is started.
StartedRuns == started => host \in Running

\* The concentrator is started from the end of lgw_start to lgw_stop.
LEMMA StartedNext == Unsent /\ StartedRuns /\ [Next]_vars => StartedRuns'
<1> SUFFICES ASSUME StartedRuns, [Next]_vars, started' PROVE host' \in Running
  BY DEF StartedRuns
<1> USE DEF StartedRuns, Running, Busy, sendUnchanged, Return
<1>1. CASE Starts
  <2>1. CASE StartDone
    BY <2>1 DEF StartDone
  <2>2. CASE ~StartDone
    <3>1. host = "starting" /\ started' = started
      BY <1>1, <2>2 DEF Starts, StepDone, StepFails, WriteBox, AwaitStatus, CheckBox, CollectRound, LockPll, JudgeResults,
         AtOp
    <3> QED
      BY <3>1
  <2> QED
    BY <2>1, <2>2
<1>2. CASE Works
  BY <1>2, WorksKeep
<1>3. CASE SendRefused
  BY <1>3 DEF SendRefused
<1>4. CASE SendStarts
  BY <1>4 DEF SendStarts
<1>5. CASE SendTriggers
  BY <1>5 DEF SendTriggers
<1>6. CASE PollInitiated
  BY <1>6 DEF PollInitiated
<1>7. CASE PollCleared
  BY <1>7 DEF PollCleared
<1>8. CASE SendAborts
  BY <1>8 DEF SendAborts
<1>9. CASE SendStops
  BY <1>9 DEF SendStops
<1>10. CASE Stop
  BY <1>10 DEF Stop
<1>11. CASE Departs
  BY <1>11 DEF Departs
<1>12. CASE AgcClears
  BY <1>12 DEF AgcClears
<1>13. CASE Emitted
  BY <1>13 DEF Emitted
<1>14. CASE UNCHANGED vars
  BY <1>14 DEF vars
<1> QED
  BY <1>1, <1>2, <1>3, <1>4, <1>5, <1>6, <1>7, <1>8, <1>9, <1>10, <1>11, <1>12, <1>13, <1>14, Cases

\* The inductive invariant of the whole life of the concentrator.
ConcentratorInv == /\ Founded /\ Listens /\ Silent /\ Informed /\ Attended /\ StartedRuns

\* The invariant holds.
LEMMA ConcentratorInvariant == Spec => []ConcentratorInv
<1>1. Init => ConcentratorInv
  <2> SUFFICES ASSUME Init PROVE ConcentratorInv
    OBVIOUS
  <2>1. Founded
    BY PlainInit, FoundedInit, UnsentInit DEF Founded
  <2>2. host = "starting" /\ started = FALSE /\ sx1261 = "idle" /\ error = "none"
    BY DEF Init
  <2> QED
    BY <2>1, <2>2 DEF ConcentratorInv, Listens, Silent, Informed, Attended, StartedRuns, Running, Busy
<1>2. ConcentratorInv /\ [Next]_vars => ConcentratorInv'
  <2>1. Founded => Unsent
    BY DEF Founded
  <2> QED
    BY <2>1, FoundedNext, ListensNext, SilentNext, InformedNext, AttendedNext, StartedNext DEF ConcentratorInv
<1> QED
  BY <1>1, <1>2, PTL DEF Spec

\* What lgw_send leaves behind is what it reports.
THEOREM SendingIsHonest == Spec => []SendIsHonest
<1>1. ConcentratorInv => SendIsHonest
  <2> SUFFICES ASSUME ConcentratorInv PROVE SendIsHonest
    OBVIOUS
  <2>1. ListeningEnds
    BY DEF ConcentratorInv, Listens, Busy, ListeningEnds
  <2>2. AnswerIsDecision
    BY DEF ConcentratorInv, Attended, Running, Sending, Told, AnswerIsDecision
  <2>3. ErrorIsSilence
    BY DEF ConcentratorInv, Silent, ErrorIsSilence
  <2> QED
    BY <2>1, <2>2, <2>3 DEF SendIsHonest
<1> QED
  BY <1>1, ConcentratorInvariant, PTL

\* lgw_start succeeds only when both micro-controllers took their parameters, that of LBT
\* compared as a flag (loragw_sx1302.c:1612), whatever writes to their mailboxes were lost.
THEOREM StartedMeansTold == Spec => []McusTookParameters
<1>1. ConcentratorInv => McusTookParameters
  <2> SUFFICES ASSUME ConcentratorInv, started PROVE McusTookParameters
    BY DEF McusTookParameters, AgcTookParameters, ArbTookMode
  <2>1. Took(conf, agc, mishaps) /\ ArbTookIt(conf, arb, mishaps) /\ agc \in Micro
    BY DEF ConcentratorInv, StartedRuns, Informed, Founded, Micros
  <2>2. ArbTookMode
    BY <2>1 DEF ArbTookIt, ArbTaken, ArbTookMode
  <2>3. ASSUME mishaps \cap {"wait", "read"} = {}, NEW i \in 1 .. LastOf(conf)
        PROVE  /\ i <= Len(agc.taken)
               /\ \A j \in 1 .. Len(ParamsOf(conf)[i].put) :
                    Same(agc.taken[i][j], ParamsOf(conf)[i].put[j], ParamsOf(conf)[i].how)
    <3>1. PICK l \in Nat \ {0} : l = LastOf(conf)
      BY ConfLast
    <3>2. Len(agc.taken) >= l /\ Len(agc.taken) \in Nat
      BY <2>1, <2>3, <3>1, SMTT(40) DEF Took, Micro
    <3>3. \A j \in 1 .. Len(ParamsOf(conf)[i].put) :
            Same(agc.taken[i][j], ParamsOf(conf)[i].put[j], ParamsOf(conf)[i].how)
      BY <2>1, <2>3 DEF Took, Matched
    <3> QED
      BY <3>1, <3>2, <3>3
  <2>4. AgcTookParameters
    BY <2>3 DEF AgcTookParameters, ParamsOf, LastOf
  <2> QED
    BY <2>2, <2>4 DEF McusTookParameters
<1> QED
  BY <1>1, ConcentratorInvariant, PTL
=============================================================================
