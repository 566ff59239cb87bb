---------------------------- MODULE DriverProofs ----------------------------
(***************************************************************************)
(* Four parts of the driver of the concentrator: an operation on the bus   *)
(* that reports success has done what was asked and gives the bus back,    *)
(* whatever the layout of the registers, the size of a chunk and the       *)
(* transactions that fail; the fine timestamps are right for every         *)
(* counter, length of the history and run of lost pulses that              *)
(* PpsAssumption admits; what is computed of a packet, a channel, a gain   *)
(* table, a frequency, a plan or metadata at several places agrees,        *)
(* whichever it is; and a batch of packets is merged without loss or       *)
(* repetition, whatever is in it.                                          *)
(***************************************************************************)
EXTENDS Bus, Computing, Pps, SequenceTheorems, FiniteSetTheorems, NaturalsInduction, WellFoundedInduction, TLAPS

-----------------------------------------------------------------------------
(* Powers of two.                                                            *)

\* A set of natural numbers that is not empty has a least element.
LEMMA Least ==
    ASSUME NEW T \in SUBSET Nat, T # {}
    PROVE  \E x \in T : \A y \in T : x <= y
<1> DEFINE Less == OpToRel(<, Nat)
<1>1. IsWellFoundedOn(Less, Nat)
  BY NatLessThanWellFounded
<1>2. \A x, y \in Nat : <<y, x>> \in Less <=> y < x
  BY DEF OpToRel
<1> HIDE DEF Less
<1>3. \E x \in T : \A y \in T : ~(<<y, x>> \in Less)
  BY <1>1, WFMin
<1>4. \A x, y \in Nat : ~(y < x) => x <= y
  OBVIOUS
<1> QED
  BY <1>2, <1>3, <1>4

\* Powers of two count the subsets of a set,
LEMMA PowerCounts ==
    ASSUME NEW n \in Nat
    PROVE  /\ IsFiniteSet(SUBSET (1 .. n)) /\ Cardinality(SUBSET (1 .. n)) = 2^n /\ 2^n \in Nat
<1>1. IsFiniteSet(1 .. n) /\ Cardinality(1 .. n) = n
  <2>1. 1 \in Int /\ n \in Int
    OBVIOUS
  <2>2. IsFiniteSet(1 .. n) /\ Cardinality(1 .. n) = IF 1 > n THEN 0 ELSE n - 1 + 1
    BY <2>1, FS_Interval
  <2> QED
    BY <2>2
<1>2. IsFiniteSet(SUBSET (1 .. n)) /\ Cardinality(SUBSET (1 .. n)) = 2^n
  BY <1>1, FS_SUBSET
<1> QED
  BY <1>2, FS_CardinalityType

\* so that one element more makes twice as many,
LEMMA TwoDoubles ==
    ASSUME NEW n \in Nat
    PROVE  2^(n + 1) = 2 * 2^n
<1> DEFINE A == SUBSET (1 .. n)
           B == {T \cup {n + 1} : T \in A}
           f == [T \in A |-> T \cup {n + 1}]
<1>1. A \cup B = SUBSET (1 .. n + 1)
  <2>1. 1 .. n + 1 = (1 .. n) \cup {n + 1}
    OBVIOUS
  <2>2. ASSUME NEW S \in SUBSET (1 .. n + 1) PROVE S \in A \cup B
    <3>1. CASE n + 1 \in S
      <4>1. S = (S \ {n + 1}) \cup {n + 1} /\ S \ {n + 1} \in A
        BY <2>1, <3>1
      <4> QED
        BY <4>1
    <3>2. CASE n + 1 \notin S
      BY <2>1, <3>2
    <3> QED
      BY <3>1, <3>2
  <2>3. ASSUME NEW S \in A \cup B PROVE S \in SUBSET (1 .. n + 1)
    BY <2>1
  <2> QED
    BY <2>2, <2>3
<1>2. A \cap B = {}
  BY DEF A, B
<1>3. f \in Bijection(A, B)
  <2>1. n + 1 \notin 1 .. n
    OBVIOUS
  <2>2. f \in [A -> B]
    OBVIOUS
  <2>3. \A S, T \in A : f[S] = f[T] => S = T
    <3> SUFFICES ASSUME NEW S \in A, NEW T \in A, f[S] = f[T] PROVE S = T
      OBVIOUS
    <3>1. S \cup {n + 1} = T \cup {n + 1} /\ n + 1 \notin S /\ n + 1 \notin T
      BY <2>1
    <3> QED
      BY <3>1
  <2>4. \A b \in B : \E S \in A : f[S] = b
    OBVIOUS
  <2> HIDE DEF f, A, B
  <2> QED
    BY <2>2, <2>3, <2>4 DEF Bijection, Injection, Surjection, IsInjective
<1>4. IsFiniteSet(A) /\ Cardinality(A) = 2^n /\ 2^n \in Nat
  BY PowerCounts
<1>5. IsFiniteSet(SUBSET (1 .. n + 1)) /\ Cardinality(SUBSET (1 .. n + 1)) = 2^(n + 1)
  <2>1. n + 1 \in Nat
    OBVIOUS
  <2> QED
    BY <2>1, PowerCounts
<1> HIDE DEF A, B, f
<1>6. IsFiniteSet(B) /\ Cardinality(B) = Cardinality(A)
  <2>1. ExistsBijection(A, B)
    BY <1>3 DEF ExistsBijection
  <2> QED
    BY <1>4, <2>1, FS_Bijection
<1>7. Cardinality(A \cup B) = Cardinality(A) + Cardinality(B) - Cardinality(A \cap B)
  BY <1>4, <1>6, FS_Union
<1>8. Cardinality(A \cap B) = 0
  BY <1>2, FS_EmptySet
<1>9. PICK x \in Nat : x = 2^n
  BY <1>4
<1>10. 2^(n + 1) = x + x - 0
  BY <1>1, <1>4, <1>5, <1>6, <1>7, <1>8, <1>9
<1>11. x + x - 0 = 2 * x
  OBVIOUS
<1> QED
  BY <1>9, <1>10, <1>11

\* and no element makes one.
LEMMA TwoOfNone ==
    ASSUME NEW n \in Nat, n = 0
    PROVE  2^n = 1
OBVIOUS

\* They are positive numbers,
LEMMA TwoPositive ==
    ASSUME NEW n \in Nat
    PROVE  2^n \in Nat /\ 2^n > 0
<1> DEFINE T == {k \in Nat : 2^k < 1}
<1>1. T = {}
  <2> SUFFICES ASSUME T # {} PROVE FALSE
    OBVIOUS
  <2>1. PICK k \in T : \A y \in T : k <= y
    <3>1. T \in SUBSET Nat
      OBVIOUS
    <3> HIDE DEF T
    <3> QED
      BY <3>1, Least
  <2>2. k # 0
    <3>1. k \in Nat /\ 2^k < 1
      OBVIOUS
    <3> QED
      BY <3>1, TwoOfNone
  <2>3. k - 1 \in Nat /\ k - 1 \notin T
    BY <2>1, <2>2
  <2>4. 2^k = 2 * 2^(k - 1)
    <3>1. 2^((k - 1) + 1) = 2 * 2^(k - 1)
      BY <2>3, TwoDoubles
    <3>2. (k - 1) + 1 = k
      OBVIOUS
    <3> QED
      BY <3>1, <3>2
  <2>5. 2^(k - 1) \in Nat /\ 2^k \in Nat
    BY <2>3, PowerCounts
  <2> QED
    BY <2>3, <2>4, <2>5
<1>2. 2^n \in Nat
  BY PowerCounts
<1> QED
  BY <1>1, <1>2

\* and add up in the exponent.
LEMMA TwoAdds ==
    ASSUME NEW a \in Nat, NEW n \in Nat
    PROVE  2^(a + n) = 2^a * 2^n
<1> DEFINE T == {k \in Nat : 2^(a + k) # 2^a * 2^k}
<1>1. T = {}
  <2> SUFFICES ASSUME T # {} PROVE FALSE
    OBVIOUS
  <2>1. PICK k \in T : \A y \in T : k <= y
    <3>1. T \in SUBSET Nat
      OBVIOUS
    <3> HIDE DEF T
    <3> QED
      BY <3>1, Least
  <2>2. k # 0
    <3>1. k \in Nat /\ 2^(a + k) # 2^a * 2^k
      OBVIOUS
    <3> SUFFICES ASSUME k = 0 PROVE FALSE
      OBVIOUS
    <3>2. 2^k = 1 /\ a + k = a
      BY <3>1, TwoOfNone
    <3>3. PICK x \in Nat : x = 2^a
      BY PowerCounts
    <3>4. x * 1 = x
      OBVIOUS
    <3> QED
      BY <3>1, <3>2, <3>3, <3>4
  <2>3. k - 1 \in Nat /\ k - 1 \notin T
    BY <2>1, <2>2
  <2>4. 2^k = 2 * 2^(k - 1)
    <3>1. 2^((k - 1) + 1) = 2 * 2^(k - 1)
      BY <2>3, TwoDoubles
    <3>2. (k - 1) + 1 = k
      OBVIOUS
    <3> QED
      BY <3>1, <3>2
  <2>5. 2^(a + k) = 2 * 2^(a + (k - 1))
    <3>1. a + (k - 1) \in Nat
      BY <2>3
    <3>2. 2^((a + (k - 1)) + 1) = 2 * 2^(a + (k - 1))
      BY <3>1, TwoDoubles
    <3>3. (a + (k - 1)) + 1 = a + k
      OBVIOUS
    <3> QED
      BY <3>2, <3>3
  <2>6. 2^(a + (k - 1)) = 2^a * 2^(k - 1)
    BY <2>3
  <2>7. PICK x \in Nat : x = 2^a
    BY PowerCounts
  <2>8. PICK y \in Nat : y = 2^(k - 1)
    BY <2>3, PowerCounts
  <2>9. 2 * (x * y) = x * (2 * y)
    OBVIOUS
  <2> QED
    BY <2>4, <2>5, <2>6, <2>7, <2>8, <2>9
<1> QED
  BY <1>1

\* A number with the quotient q and the remainder r.
Joint(M, q, r) == M * q + r

\* The quotient of a number that is so composed.
LEMMA JointDiv ==
    ASSUME NEW M \in Nat, M > 0, NEW q \in Nat, NEW r \in 0 .. M - 1
    PROVE  Joint(M, q, r) \in Nat /\ Joint(M, q, r) \div M = q /\ Joint(M, q, r) % M = r
<1>1. M * q \in Nat /\ r \in Nat
  OBVIOUS
<1>2. PICK a \in Nat : a = M * q + r
  BY <1>1
<1>3. a \div M = q /\ a % M = r
  BY <1>2
<1> QED
  BY <1>2, <1>3 DEF Joint

\* Every number is composed so, of its quotient and its remainder.
LEMMA JointParts ==
    ASSUME NEW M \in Nat, M > 0, NEW a \in Nat
    PROVE  \E q \in Nat : \E r \in 0 .. M - 1 : a = Joint(M, q, r)
<1>1. a \div M \in Nat /\ a % M \in 0 .. M - 1
  OBVIOUS
<1>2. a = M * (a \div M) + (a % M)
  OBVIOUS
<1> WITNESS a \div M \in Nat
<1> WITNESS a % M \in 0 .. M - 1
<1> QED
  BY <1>2 DEF Joint

-----------------------------------------------------------------------------
(* Fields of bytes.                                                          *)

\* A byte, taken apart at a field of l values from o on: k above it, p in it, lo below.
Bytes(o, l, k, p, lo) == Joint(o, Joint(l, k, p), lo)

\* Powers multiplied, kept from the solver.
Product(a, b, c) == (a * b) * c

\* Every byte is composed so.
LEMMA ByteParts ==
    ASSUME NEW o \in Nat, o > 0, NEW l \in Nat, l > 0, NEW x \in Nat
    PROVE  \E k \in Nat : \E p \in 0 .. l - 1 : \E lo \in 0 .. o - 1 :
             x = Bytes(o, l, k, p, lo)
<1>1. PICK h \in Nat : \E lo \in 0 .. o - 1 : x = Joint(o, h, lo)
  BY JointParts
<1>2. PICK lo \in 0 .. o - 1 : x = Joint(o, h, lo)
  BY <1>1
<1>3. PICK k \in Nat : \E p \in 0 .. l - 1 : h = Joint(l, k, p)
  BY JointParts
<1>4. PICK p \in 0 .. l - 1 : h = Joint(l, k, p)
  BY <1>3
<1>5. x = Bytes(o, l, k, p, lo)
  BY <1>2, <1>4 DEF Bytes
<1> QED
  BY <1>5

\* The field of such a byte.
LEMMA ByteField ==
    ASSUME NEW o \in Nat, o > 0, NEW l \in Nat, l > 0,
           NEW k \in Nat, NEW p \in 0 .. l - 1, NEW lo \in 0 .. o - 1
    PROVE  /\ Bytes(o, l, k, p, lo) \in Nat
           /\ (Bytes(o, l, k, p, lo) \div o) % l = p
<1>1. Joint(l, k, p) \in Nat /\ Joint(l, k, p) % l = p
  BY JointDiv
<1>2. /\ Joint(o, Joint(l, k, p), lo) \in Nat
      /\ Joint(o, Joint(l, k, p), lo) \div o = Joint(l, k, p)
  BY <1>1, JointDiv
<1> QED
  BY <1>1, <1>2 DEF Bytes

\* It may be taken apart above the field.
LEMMA ByteAbove ==
    ASSUME NEW o \in Nat, o > 0, NEW l \in Nat, l > 0,
           NEW k \in Nat, NEW p \in 0 .. l - 1, NEW lo \in 0 .. o - 1
    PROVE  /\ o * l \in Nat /\ o * l > 0
           /\ Joint(o, p, lo) \in 0 .. (o * l) - 1
           /\ Bytes(o, l, k, p, lo) = Joint(o * l, k, Joint(o, p, lo))
<1>1. o * l \in Nat /\ o * l > 0
  OBVIOUS
<1>2. PICK rest \in Nat : rest = o * p + lo
  <2>1. o * p \in Nat /\ lo \in Nat
    OBVIOUS
  <2> QED
    BY <2>1
<1>3. rest < o * l
  <2>1. o * p <= o * (l - 1) /\ o * (l - 1) = o * l - o /\ o * p \in Nat
    OBVIOUS
  <2> QED
    BY <1>1, <1>2, <2>1
<1>4. o * (l * k + p) + lo = (o * l) * k + rest
  <2>1. o * (l * k + p) = (o * l) * k + o * p
    OBVIOUS
  <2>2. (o * l) * k \in Nat /\ o * p \in Nat /\ lo \in Nat
    OBVIOUS
  <2> QED
    BY <1>2, <2>1, <2>2
<1>5. Joint(o, p, lo) = rest
  BY <1>2 DEF Joint
<1>6. Bytes(o, l, k, p, lo) = Joint(o * l, k, rest)
  BY <1>4 DEF Bytes, Joint
<1>7. PICK n \in Nat : n = o * l
  BY <1>1
<1>8. rest \in 0 .. n - 1
  BY <1>3, <1>7
<1> QED
  BY <1>1, <1>5, <1>6, <1>7, <1>8

\* How large it is.
LEMMA JointRange ==
    ASSUME NEW M \in Nat, M > 0, NEW q \in Nat, NEW r \in 0 .. M - 1, NEW s \in Nat
    PROVE  Joint(M, q, r) < M * s <=> q < s
<1>1. M * q \in Nat /\ M * s \in Nat /\ r \in Nat /\ Joint(M, q, r) = M * q + r
  BY DEF Joint
<1>2. CASE q < s
  <2>1. M * (q + 1) <= M * s /\ M * (q + 1) = M * q + M
    BY <1>2
  <2> QED
    BY <1>1, <1>2, <2>1
<1>3. CASE q >= s
  <2>1. M * q >= M * s
    BY <1>3
  <2> QED
    BY <1>1, <1>3, <2>1
<1> QED
  BY <1>2, <1>3

\* A field does not change what lies above it,
LEMMA JointAbove ==
    ASSUME NEW M \in Nat, M > 0, NEW q \in Nat, NEW r \in 0 .. M - 1, NEW m \in Nat, m > 0
    PROVE  Joint(M, q, r) \div (M * m) = q \div m
<1>1. PICK u \in Nat : \E v \in 0 .. m - 1 : q = Joint(m, u, v)
  BY JointParts
<1>2. PICK v \in 0 .. m - 1 : q = Joint(m, u, v)
  BY <1>1
<1>3. q \div m = u
  BY <1>2, JointDiv
<1>4. M * m \in Nat /\ M * m > 0
  OBVIOUS
<1>5. PICK n \in Nat : n = M * m /\ n > 0
  BY <1>4
<1>6. v \in Nat /\ v < m
  OBVIOUS
<1>7. PICK y \in Nat : y = Joint(M, v, r)
  BY <1>6, JointDiv
<1>8. y < n
  BY <1>5, <1>6, <1>7, JointRange
<1>9. Joint(M, q, r) = Joint(n, u, y)
  <2>1. M * (m * u + v) = (M * m) * u + M * v
    OBVIOUS
  <2>2. (M * m) * u \in Nat /\ M * v \in Nat /\ r \in Nat
    BY <1>6
  <2>3. y = M * v + r
    BY <1>7 DEF Joint
  <2>4. M * (m * u + v) + r = (M * m) * u + y
    BY <2>1, <2>2, <2>3
  <2> QED
    BY <1>2, <1>5, <2>4 DEF Joint
<1>10. y \in 0 .. n - 1
  BY <1>5, <1>8
<1>11. Joint(n, u, y) \div n = u
  BY <1>5, <1>10, JointDiv
<1> QED
  BY <1>3, <1>5, <1>9, <1>11

\* nor what lies below.
LEMMA JointBelow ==
    ASSUME NEW a \in Nat, a > 0, NEW b \in Nat, b > 0, NEW m \in Nat, NEW h \in Nat, NEW lo \in Nat,
           NEW n \in Nat, n = Product(a, b, m)
    PROVE  (Joint(n, h, lo) \div a) % b = (lo \div a) % b
<1>1. PICK q \in Nat : \E r \in 0 .. a - 1 : lo = Joint(a, q, r)
  BY JointParts
<1>2. PICK r \in 0 .. a - 1 : lo = Joint(a, q, r)
  BY <1>1
<1>3. PICK s \in Nat : \E t \in 0 .. b - 1 : q = Joint(b, s, t)
  BY JointParts
<1>4. PICK t \in 0 .. b - 1 : q = Joint(b, s, t)
  BY <1>3
<1>5. PICK c \in Nat : c = m * h
  OBVIOUS
<1>6. PICK e \in Nat : e = c + s
  OBVIOUS
<1>7. PICK d \in Nat : d = Joint(b, e, t)
  BY JointDiv
<1>8. Joint(n, h, lo) = Joint(a, d, r)
  <2>1. ((a * b) * m) * h = a * (b * c)
    BY <1>5
  <2>2. PICK g \in Nat : g = b * c
    OBVIOUS
  <2>3. d = g + q
    <3>1. b * (c + s) = b * c + b * s /\ b * s \in Nat
      OBVIOUS
    <3>2. d = b * (c + s) + t /\ q = b * s + t
      BY <1>4, <1>6, <1>7 DEF Joint
    <3> QED
      BY <2>2, <3>1, <3>2
  <2>4. a * (g + q) = a * g + a * q /\ a * g \in Nat /\ a * q \in Nat /\ r \in Nat
    OBVIOUS
  <2>5. lo = a * q + r
    BY <1>2 DEF Joint
  <2>6. n * h = a * g
    BY <2>1, <2>2 DEF Product
  <2>7. n * h + lo = a * d + r
    BY <2>3, <2>4, <2>5, <2>6
  <2> QED
    BY <2>7 DEF Joint
<1>9. Joint(a, d, r) \div a = d
  BY JointDiv
<1>10. d % b = t
  BY <1>7, JointDiv
<1>11. lo \div a = q /\ q % b = t
  BY <1>2, <1>4, JointDiv
<1> QED
  BY <1>8, <1>9, <1>10, <1>11

\* A field that lies above another one reads what it did before that one was written,
LEMMA FieldAbove ==
    ASSUME NEW o \in Nat, o > 0, NEW l \in Nat, l > 0, NEW m \in Nat, m > 0,
           NEW k \in Nat, NEW p \in 0 .. l - 1, NEW lo \in 0 .. o - 1
    PROVE  Bytes(o, l, k, p, lo) \div Product(o, l, m) = k \div m
<1>1. /\ o * l \in Nat /\ o * l > 0
      /\ Joint(o, p, lo) \in 0 .. (o * l) - 1
      /\ Bytes(o, l, k, p, lo) = Joint(o * l, k, Joint(o, p, lo))
  BY ByteAbove
<1>2. PICK n \in Nat : n = o * l /\ n > 0
  BY <1>1
<1>3. PICK rest \in 0 .. n - 1 : rest = Joint(o, p, lo)
  BY <1>1, <1>2
<1>4. Joint(n, k, rest) \div (n * m) = k \div m
  BY <1>2, JointAbove
<1> QED
  BY <1>1, <1>2, <1>3, <1>4 DEF Product

\* and so does one that lies below.
LEMMA FieldBelow ==
    ASSUME NEW a \in Nat, a > 0, NEW b \in Nat, b > 0, NEW m \in Nat,
           NEW o \in Nat, o > 0, o = Product(a, b, m), NEW l \in Nat, l > 0,
           NEW k \in Nat, NEW p \in 0 .. l - 1, NEW lo \in 0 .. o - 1
    PROVE  (Bytes(o, l, k, p, lo) \div a) % b = (lo \div a) % b
<1>1. PICK h \in Nat : h = Joint(l, k, p)
  BY JointDiv
<1>2. lo \in Nat
  OBVIOUS
<1>3. (Joint(o, h, lo) \div a) % b = (lo \div a) % b
  BY <1>2, JointBelow, SMTT(30)
<1> QED
  BY <1>1, <1>3 DEF Bytes

\* The powers of two of a field.
LEMMA FieldPowers ==
    ASSUME NEW f \in RegisterMap
    PROVE  /\ f.offs \in Nat /\ f.leng \in Nat /\ Bits \in Nat /\ f.offs + f.leng <= Bits
           /\ 2^f.offs \in Nat /\ 2^f.offs > 0 /\ 2^f.leng \in Nat /\ 2^f.leng > 0
           /\ \E r \in Nat : r > 0 /\ 2^Bits = (2^f.offs * 2^f.leng) * r
<1>1. /\ f.offs \in Nat /\ f.leng \in Nat /\ f.leng > 0 /\ Bits \in Nat /\ f.offs + f.leng <= Bits
  BY BusAssumption DEF Register
<1>2. 2^f.offs \in Nat /\ 2^f.offs > 0 /\ 2^f.leng \in Nat /\ 2^f.leng > 0
  BY <1>1, TwoPositive
<1>3. PICK d \in Nat : Bits = (f.offs + f.leng) + d
  <2>1. Bits - (f.offs + f.leng) \in Nat /\ Bits = (f.offs + f.leng) + (Bits - (f.offs + f.leng))
    BY <1>1
  <2> QED
    BY <2>1
<1>4. 2^d \in Nat /\ 2^d > 0
  BY TwoPositive
<1>5. 2^Bits = (2^f.offs * 2^f.leng) * 2^d
  <2>1. f.offs + f.leng \in Nat
    BY <1>1
  <2>2. 2^((f.offs + f.leng) + d) = 2^(f.offs + f.leng) * 2^d
    BY <2>1, TwoAdds
  <2>3. 2^(f.offs + f.leng) = 2^f.offs * 2^f.leng
    BY <1>1, TwoAdds
  <2> QED
    BY <1>3, <2>2, <2>3
<1> QED
  BY <1>1, <1>2, <1>4, <1>5

\* The new bits are in their place, everything around them as it was.
LEMMA MixedBytes ==
    ASSUME NEW f \in RegisterMap, NEW byte \in Byte, NEW v \in Int
    PROVE  \E k \in Nat : \E p, w \in 0 .. 2^f.leng - 1 : \E lo \in 0 .. 2^f.offs - 1 :
             /\ byte = Bytes(2^f.offs, 2^f.leng, k, p, lo)
             /\ Mixed(byte, f, v) = Bytes(2^f.offs, 2^f.leng, k, w, lo)
             /\ Mixed(byte, f, v) \in Byte
             /\ w = v % 2^f.leng
<1>1. PICK o \in Nat : o = 2^f.offs /\ o > 0
  BY FieldPowers
<1>2. PICK l \in Nat : l = 2^f.leng /\ l > 0
  BY FieldPowers
<1>3. PICK r \in Nat : r > 0 /\ 2^Bits = (o * l) * r
  BY <1>1, <1>2, FieldPowers
<1>4. byte \in Nat /\ byte < (o * l) * r
  BY <1>3 DEF Byte
<1>5. PICK k \in Nat : \E p \in 0 .. l - 1 : \E lo \in 0 .. o - 1 : byte = Bytes(o, l, k, p, lo)
  BY <1>1, <1>2, <1>4, ByteParts, ZenonT(40)
<1>6. PICK p \in 0 .. l - 1 : \E lo \in 0 .. o - 1 : byte = Bytes(o, l, k, p, lo)
  BY <1>5
<1>7. PICK lo \in 0 .. o - 1 : byte = Bytes(o, l, k, p, lo)
  BY <1>6
<1>8. PICK w \in 0 .. l - 1 : w = v % l
  <2>1. v % l \in 0 .. l - 1
    BY <1>2
  <2> QED
    BY <2>1
<1>9. Piece(byte, f) = p
  <2>1. (Bytes(o, l, k, p, lo) \div o) % l = p
    <3>1. o \in Nat /\ o > 0 /\ l \in Nat /\ l > 0 /\ k \in Nat /\ p \in 0 .. l - 1 /\ lo \in 0 .. o - 1
      BY <1>1, <1>2
    <3> QED
      BY <3>1, ByteField
  <2> QED
    BY <1>1, <1>2, <1>7, <2>1 DEF Piece
<1>10. Mixed(byte, f, v) = Bytes(o, l, k, w, lo)
  <2>1. Mixed(byte, f, v) = (byte - p * o) + w * o
    BY <1>1, <1>2, <1>8, <1>9 DEF Mixed
  <2>2. PICK c \in Nat : c = l * k
    OBVIOUS
  <2>3. byte = o * (c + p) + lo /\ Bytes(o, l, k, w, lo) = o * (c + w) + lo
    BY <1>7, <2>2 DEF Bytes, Joint
  <2>4. o * (c + p) = o * c + p * o /\ o * (c + w) = o * c + w * o
        /\ o * c \in Nat /\ p * o \in Nat /\ w * o \in Nat
    OBVIOUS
  <2>5. lo \in Nat
    OBVIOUS
  <2> QED
    BY <2>1, <2>3, <2>4, <2>5
<1>11. Mixed(byte, f, v) \in Byte
  <2>1. ASSUME NEW j \in 0 .. l - 1 PROVE Bytes(o, l, k, j, lo) < (o * l) * r <=> k < r
    <3>1. o \in Nat /\ o > 0 /\ l \in Nat /\ l > 0 /\ k \in Nat /\ j \in 0 .. l - 1 /\ lo \in 0 .. o - 1
      BY <1>1, <1>2
    <3>2. /\ o * l \in Nat /\ o * l > 0 /\ Joint(o, j, lo) \in 0 .. (o * l) - 1
          /\ Bytes(o, l, k, j, lo) = Joint(o * l, k, Joint(o, j, lo))
      BY <3>1, ByteAbove
    <3>3. PICK n \in Nat : n = o * l
      BY <3>2
    <3>4. Joint(n, k, Joint(o, j, lo)) < n * r <=> k < r
      BY <3>2, <3>3, JointRange
    <3> QED
      BY <3>2, <3>3, <3>4
  <2>2. Bytes(o, l, k, w, lo) < (o * l) * r
    BY <1>4, <1>7, <2>1
  <2>3. Bytes(o, l, k, w, lo) \in Nat
    <3>1. o \in Nat /\ o > 0 /\ l \in Nat /\ l > 0 /\ k \in Nat /\ w \in 0 .. l - 1 /\ lo \in 0 .. o - 1
      BY <1>1, <1>2
    <3> QED
      BY <3>1, ByteField
  <2>4. PICK n \in Nat : n = 2^Bits
    BY <1>3
  <2>5. Mixed(byte, f, v) \in Nat /\ Mixed(byte, f, v) < n
    BY <1>3, <1>10, <2>2, <2>3, <2>4
  <2> QED
    BY <2>4, <2>5 DEF Byte
<1> QED
  BY <1>1, <1>2, <1>7, <1>8, <1>10, <1>11

\* The goal of the next lemma, kept from the solver.
Mod0(M, q) == (M * q) % M = 0

\* A multiple of a modulus has no remainder.
LEMMA ModMultiple ==
    ASSUME NEW M \in Nat, M > 0, NEW q \in Int
    PROVE  Mod0(M, q)
BY DEF Mod0

\* The value of the field, up to what does not fit it.
LEMMA MixedValue ==
    ASSUME NEW f \in RegisterMap, NEW byte \in Byte, NEW v \in Int
    PROVE  (FieldValue(Mixed(byte, f, v), f) - v) % 2^f.leng = 0
<1>1. PICK k \in Nat : \E p, w \in 0 .. 2^f.leng - 1 : \E lo \in 0 .. 2^f.offs - 1 :
             /\ Mixed(byte, f, v) = Bytes(2^f.offs, 2^f.leng, k, w, lo)
             /\ w = v % 2^f.leng
  BY MixedBytes
<1>2. PICK w \in 0 .. 2^f.leng - 1 : \E lo \in 0 .. 2^f.offs - 1 :
             /\ Mixed(byte, f, v) = Bytes(2^f.offs, 2^f.leng, k, w, lo)
             /\ w = v % 2^f.leng
  BY <1>1
<1>3. PICK lo \in 0 .. 2^f.offs - 1 : Mixed(byte, f, v) = Bytes(2^f.offs, 2^f.leng, k, w, lo)
  BY <1>2
<1>4. PICK l \in Nat : l = 2^f.leng /\ l > 0
  BY FieldPowers
<1>5. Piece(Mixed(byte, f, v), f) = w
  <2>1. PICK o \in Nat : o = 2^f.offs /\ o > 0
    BY FieldPowers
  <2>2. w \in 0 .. l - 1 /\ lo \in 0 .. o - 1
    BY <1>4, <2>1
  <2>3. (Bytes(o, l, k, w, lo) \div o) % l = w
    <3>1. o \in Nat /\ o > 0 /\ l \in Nat /\ l > 0 /\ k \in Nat /\ w \in 0 .. l - 1 /\ lo \in 0 .. o - 1
      BY <1>4, <2>1, <2>2
    <3> QED
      BY <3>1, ByteField
  <2> QED
    BY <1>3, <1>4, <2>1, <2>3 DEF Piece
<1>6. FieldValue(Mixed(byte, f, v), f) \in {w, w - l}
  BY <1>4, <1>5 DEF FieldValue
<1>7. PICK q \in Int : v = l * q + w
  <2>1. l \in Nat /\ l > 0
    BY <1>4
  <2>2. v \div l \in Int /\ v = l * (v \div l) + (v % l)
    BY <2>1
  <2>3. v % l = w
    BY <1>2, <1>4
  <2> QED
    BY <2>2, <2>3
<1>8. (w - v) % l = 0 /\ ((w - l) - v) % l = 0
  <2>1. l * (-q) = -(l * q) /\ l * (-q - 1) = -(l * q) - l /\ l * q \in Int /\ w \in Int
    OBVIOUS
  <2>2. w - v = l * (-q) + 0 /\ (w - l) - v = l * (-q - 1) + 0
    BY <1>7, <2>1
  <2>3. /\ w - v \in Int /\ (w - l) - v \in Int /\ -q \in Int /\ -q - 1 \in Int /\ 0 \in 0 .. l - 1
    BY <1>4, <2>1
  <2> QED
    <3>1. l * (-q) \in Int /\ l * (-q - 1) \in Int /\ l \in Nat /\ l > 0
      BY <1>4, <2>1
    <3>2. Mod0(l, -q) /\ Mod0(l, -q - 1)
      BY <2>3, <3>1, ModMultiple
    <3> QED
      BY <2>2, <3>1, <3>2 DEF Mod0
<1> QED
  BY <1>4, <1>6, <1>8

\* No other field of the byte.
LEMMA MixedElsewhere ==
    ASSUME NEW f \in RegisterMap, NEW g \in RegisterMap \ {f}, g.addr = f.addr, NEW byte \in Byte, NEW v \in Int
    PROVE  FieldValue(Mixed(byte, f, v), g) = FieldValue(byte, g)
<1>1. PICK k \in Nat : \E p, w \in 0 .. 2^f.leng - 1 : \E lo \in 0 .. 2^f.offs - 1 :
             /\ byte = Bytes(2^f.offs, 2^f.leng, k, p, lo)
             /\ Mixed(byte, f, v) = Bytes(2^f.offs, 2^f.leng, k, w, lo)
             /\ Mixed(byte, f, v) \in Byte
             /\ w = v % 2^f.leng
  BY MixedBytes
<1>2. PICK p \in 0 .. 2^f.leng - 1 : \E w \in 0 .. 2^f.leng - 1 : \E lo \in 0 .. 2^f.offs - 1 :
             /\ byte = Bytes(2^f.offs, 2^f.leng, k, p, lo)
             /\ Mixed(byte, f, v) = Bytes(2^f.offs, 2^f.leng, k, w, lo)
  BY <1>1
<1>3. PICK w \in 0 .. 2^f.leng - 1 : \E lo \in 0 .. 2^f.offs - 1 :
             /\ byte = Bytes(2^f.offs, 2^f.leng, k, p, lo)
             /\ Mixed(byte, f, v) = Bytes(2^f.offs, 2^f.leng, k, w, lo)
  BY <1>2
<1>4. PICK lo \in 0 .. 2^f.offs - 1 :
             /\ byte = Bytes(2^f.offs, 2^f.leng, k, p, lo)
             /\ Mixed(byte, f, v) = Bytes(2^f.offs, 2^f.leng, k, w, lo)
  BY <1>3
<1>5. PICK o \in Nat : o = 2^f.offs /\ o > 0
  BY FieldPowers
<1>6. PICK l \in Nat : l = 2^f.leng /\ l > 0
  BY FieldPowers
<1>7. p \in 0 .. l - 1 /\ w \in 0 .. l - 1 /\ lo \in 0 .. o - 1
      /\ byte = Bytes(o, l, k, p, lo) /\ Mixed(byte, f, v) = Bytes(o, l, k, w, lo)
  BY <1>4, <1>5, <1>6
<1>8. /\ f.offs \in Nat /\ f.leng \in Nat /\ g.offs \in Nat /\ g.leng \in Nat
      /\ 2^g.offs \in Nat /\ 2^g.offs > 0 /\ 2^g.leng \in Nat /\ 2^g.leng > 0
  BY FieldPowers
<1>9. CASE f.offs + f.leng <= g.offs
  <2>1. PICK d \in Nat : g.offs = (f.offs + f.leng) + d
    <3>1. g.offs - (f.offs + f.leng) \in Nat /\ g.offs = (f.offs + f.leng) + (g.offs - (f.offs + f.leng))
      BY <1>8, <1>9
    <3> QED
      BY <3>1
  <2>2. PICK m \in Nat : m = 2^d /\ m > 0
    BY TwoPositive
  <2>3. 2^g.offs = (o * l) * m
    <3>1. f.offs + f.leng \in Nat
      BY <1>8
    <3>2. 2^((f.offs + f.leng) + d) = 2^(f.offs + f.leng) * 2^d
      BY <3>1, TwoAdds
    <3>3. 2^(f.offs + f.leng) = 2^f.offs * 2^f.leng
      BY <1>8, TwoAdds
    <3> QED
      BY <1>5, <1>6, <2>1, <2>2, <3>2, <3>3
  <2>4. ASSUME NEW j \in 0 .. l - 1 PROVE Bytes(o, l, k, j, lo) \div Product(o, l, m) = k \div m
    <3>1. /\ o \in Nat /\ o > 0 /\ l \in Nat /\ l > 0 /\ m \in Nat /\ m > 0
          /\ k \in Nat /\ j \in 0 .. l - 1 /\ lo \in 0 .. o - 1
      BY <1>5, <1>6, <1>7, <2>2
    <3> QED
      BY <3>1, FieldAbove
  <2>5. Piece(byte, g) = Piece(Mixed(byte, f, v), g)
    BY <1>7, <2>3, <2>4 DEF Piece, Product
  <2> QED
    BY <2>5 DEF FieldValue
<1>10. CASE g.offs + g.leng <= f.offs
  <2>1. PICK d \in Nat : f.offs = (g.offs + g.leng) + d
    <3>1. f.offs - (g.offs + g.leng) \in Nat /\ f.offs = (g.offs + g.leng) + (f.offs - (g.offs + g.leng))
      BY <1>8, <1>10
    <3> QED
      BY <3>1
  <2>2. PICK m \in Nat : m = 2^d /\ m > 0
    BY TwoPositive
  <2>3. PICK a \in Nat : a = 2^g.offs /\ a > 0
    BY <1>8
  <2>4. PICK b \in Nat : b = 2^g.leng /\ b > 0
    BY <1>8
  <2>5. o = (a * b) * m
    <3>1. g.offs + g.leng \in Nat
      BY <1>8
    <3>2. 2^((g.offs + g.leng) + d) = 2^(g.offs + g.leng) * 2^d
      BY <3>1, TwoAdds
    <3>3. 2^(g.offs + g.leng) = 2^g.offs * 2^g.leng
      BY <1>8, TwoAdds
    <3> QED
      BY <1>5, <2>1, <2>2, <2>3, <2>4, <3>2, <3>3
  <2>6. ASSUME NEW j \in 0 .. l - 1 PROVE (Bytes(o, l, k, j, lo) \div a) % b = (lo \div a) % b
    <3>1. /\ a \in Nat /\ a > 0 /\ b \in Nat /\ b > 0 /\ m \in Nat
          /\ o \in Nat /\ o > 0 /\ o = Product(a, b, m) /\ l \in Nat /\ l > 0
          /\ k \in Nat /\ j \in 0 .. l - 1 /\ lo \in 0 .. o - 1
      BY <1>5, <1>6, <1>7, <2>2, <2>3, <2>4, <2>5 DEF Product
    <3> QED
      BY <3>1, FieldBelow
  <2>7. Piece(byte, g) = Piece(Mixed(byte, f, v), g)
    <3>1. (byte \div a) % b = (lo \div a) % b
      BY <1>7, <2>6
    <3>2. (Mixed(byte, f, v) \div a) % b = (lo \div a) % b
      BY <1>7, <2>6
    <3> QED
      BY <2>3, <2>4, <3>1, <3>2 DEF Piece
  <2> QED
    BY <2>7 DEF FieldValue
<1> QED
  BY <1>9, <1>10, BusAssumption

-----------------------------------------------------------------------------
(* The bus.                                                                  *)

Memory == [0 .. Size - 1 -> Byte]
Settings == [Radios -> {0, 1}]

\* The operations, by their fields.
FieldWrites == [name : {"reg_w"}, field : RegisterMap, value : Int, before : Memory,
                state : {"read", "write", "ok", "error"}]
FieldReads == [name : {"reg_r"}, field : RegisterMap, before : Memory, state : {"read", "ok", "error"}]
MemoryWrites == [name : {"mem_wb"}, addr : Nat, data : Seq(Byte), before : Memory, done : Nat,
                 state : {"acquire", "transfer", "ok", "error"}]
MemoryReads == [name : {"mem_rb"}, addr : Nat, size : Nat, fifo : BOOLEAN, before : Memory, done : Nat,
                state : {"acquire", "transfer", "ok", "error"}]
RadioAccesses == [name : {"radio_w", "radio_r"}, radio : Radios, value : {0, 1}, before : Settings, regs : Memory,
                  state : {"acquire", "transfer", "ok", "error"}]
Others == [name : {"none", "connect", "disconnect"}, state : {"ok", "error"}]

Operations == FieldWrites \cup FieldReads \cup MemoryWrites \cup MemoryReads \cup RadioAccesses \cup Others

\* The memory after the first done bytes of data were written from addr on, and what
\* was read of as many.
Stored(before, addr, data, done) ==
  [a \in 0 .. Size - 1 |-> IF a \in addr .. addr + done - 1 THEN data[a - addr + 1] ELSE before[a]]
Loaded(before, addr, fifo, done) ==
  [i \in 1 .. done |-> before[IF fifo THEN addr ELSE addr + i - 1]]

\* What has been done of an operation.  Nothing is said of one that waits for a bus that
\* a failed chunk has left held: it never acquires it.
Underway(o, memory, settings, holds, bytes) ==
  /\ o.name = "reg_w" /\ o.state \in {"read", "write"} =>
       /\ memory = o.before
       /\ o.state = "read" => ~Direct(o.field)
       /\ o.state = "write" /\ ~Direct(o.field) => bytes \in {<<>>, <<memory[o.field.addr]>>}
  /\ o.name = "reg_r" /\ o.state = "read" => memory = o.before
  /\ o.name = "mem_wb" /\ (o.state = "transfer" \/ (o.state = "acquire" /\ ~holds)) =>
       /\ o.done < Len(o.data) /\ o.addr + Len(o.data) <= Size
       /\ memory = Stored(o.before, o.addr, o.data, o.done)
  /\ o.name = "mem_rb" /\ (o.state = "transfer" \/ (o.state = "acquire" /\ ~holds)) =>
       /\ o.done < o.size /\ o.addr + o.size <= Size
       /\ memory = o.before
       /\ bytes = Loaded(o.before, o.addr, o.fifo, o.done)
  /\ o.state \in {"acquire", "transfer"} /\ o.name \in {"radio_w", "radio_r"} =>
       settings = o.before /\ memory = o.regs

\* The invariant.
SoundInv ==
  /\ regs \in Memory /\ radios \in Settings /\ op \in Operations
  /\ op.state = "transfer" => held
  /\ held => burst \/ op.state = "transfer"
  /\ Underway(op, regs, radios, held, buf)
  /\ DoneAsAsked

\* Before the first operation.
LEMMA SoundInit == BusInit => SoundInv
<1> SUFFICES ASSUME BusInit PROVE SoundInv
  OBVIOUS
<1>1. 0 \in Byte
  <2>1. 2^Bits \in Nat /\ 2^Bits > 0
    BY BusAssumption, TwoPositive
  <2>2. PICK n \in Nat : n = 2^Bits /\ n > 0
    BY <2>1
  <2> QED
    BY <2>2 DEF Byte
<1>2. regs \in Memory /\ radios \in Settings
  BY <1>1 DEF BusInit, Memory, Settings
<1>3. op \in Others /\ op.name = "none" /\ op.state = "ok"
  BY DEF BusInit, Idle, Others
<1> QED
  BY <1>2, <1>3 DEF SoundInv, BusInit, Operations, Underway, DoneAsAsked

\* The state of an operation is one of its fields.
LEMMA StateSet ==
    ASSUME NEW o \in Operations
    PROVE  [o EXCEPT !.state = "error"] \in Operations /\ [o EXCEPT !.state = "error"].state = "error"
<1>1. CASE o \in FieldWrites
  BY <1>1 DEF FieldWrites, Operations
<1>2. CASE o \in FieldReads
  BY <1>2 DEF FieldReads, Operations
<1>3. CASE o \in MemoryWrites
  BY <1>3 DEF MemoryWrites, Operations
<1>4. CASE o \in MemoryReads
  BY <1>4 DEF MemoryReads, Operations
<1>5. CASE o \in RadioAccesses
  BY <1>5 DEF RadioAccesses, Operations
<1>6. CASE o \in Others
  BY <1>6 DEF Others, Operations
<1> QED
  BY <1>1, <1>2, <1>3, <1>4, <1>5, <1>6 DEF Operations

\* What an operation can be by its state.
LEMMA Kinds ==
    ASSUME NEW o \in Operations
    PROVE  /\ o.state = "read" => o \in FieldWrites \cup FieldReads
           /\ o.state = "write" => o \in FieldWrites
           /\ o.state \in {"acquire", "transfer"} => o \in MemoryWrites \cup MemoryReads \cup RadioAccesses
           /\ o.name = "reg_w" => o \in FieldWrites
           /\ o.name = "reg_r" => o \in FieldReads
           /\ o.name = "mem_wb" => o \in MemoryWrites
           /\ o.name = "mem_rb" => o \in MemoryReads
           /\ o.name \in {"radio_w", "radio_r"} => o \in RadioAccesses
<1>1. CASE o \in FieldWrites
  BY <1>1 DEF FieldWrites
<1>2. CASE o \in FieldReads
  BY <1>2 DEF FieldReads
<1>3. CASE o \in MemoryWrites
  BY <1>3 DEF MemoryWrites
<1>4. CASE o \in MemoryReads
  BY <1>4 DEF MemoryReads
<1>5. CASE o \in RadioAccesses
  BY <1>5 DEF RadioAccesses
<1>6. CASE o \in Others
  BY <1>6 DEF Others
<1> QED
  BY <1>1, <1>2, <1>3, <1>4, <1>5, <1>6 DEF Operations

\* An operation that has failed promises nothing.
LEMMA ErrorSound ==
    ASSUME SoundInv, regs' \in Memory, radios' \in Settings, op' \in Operations, op'.state = "error",
           held' => burst'
    PROVE  SoundInv'
BY DEF SoundInv, Underway, DoneAsAsked

\* Nor does one that goes on, beyond what it has done.
LEMMA WaitSound ==
    ASSUME SoundInv, regs' \in Memory, radios' \in Settings, op' \in Operations,
           op'.state \in {"read", "write", "acquire"}, held' => burst',
           Underway(op', regs', radios', held', buf')
    PROVE  SoundInv'
BY DEF SoundInv, DoneAsAsked

\* An operation that is refused,
LEMMA RefuseSound ==
    ASSUME SoundInv, Ready, NEW o \in Operations, Refuse(o)
    PROVE  SoundInv'
<1>1. op' \in Operations /\ op'.state = "error"
  BY StateSet DEF Refuse
<1>2. regs' \in Memory /\ radios' \in Settings /\ (held' => burst')
  BY DEF Refuse, SoundInv, Ready
<1> QED
  BY <1>1, <1>2, ErrorSound

\* and one that begins.
LEMMA BeginSound ==
    ASSUME SoundInv, Ready, NEW o \in Operations, Begin(o), o.state \in {"read", "write", "acquire"},
           Underway(o, regs, radios, held, <<>>)
    PROVE  SoundInv'
<1>1. /\ regs' \in Memory /\ radios' \in Settings /\ (held' => burst') /\ op' = o
      /\ Underway(op', regs', radios', held', buf')
  BY DEF Begin, SoundInv, Ready
<1> QED
  BY <1>1, WaitSound

\* lgw_connect and lgw_disconnect.
LEMMA ConnectSound ==
    ASSUME SoundInv, Connect \/ Disconnect
    PROVE  SoundInv'
<1>1. /\ UNCHANGED <<regs, radios, held, burst, buf>> /\ Ready
      /\ op' \in Others
  BY DEF Connect, Disconnect, Others
<1>2. op'.name \in {"connect", "disconnect"} /\ op'.state \in {"ok", "error"}
  BY DEF Connect, Disconnect
<1>3. op' \in Operations
  BY <1>1 DEF Operations
<1> QED
  BY <1>1, <1>2, <1>3 DEF SoundInv, Underway, DoneAsAsked, Ready

\* A call of lgw_reg_w,
LEMMA FieldWriteSound ==
    ASSUME SoundInv, NEW f \in RegisterMap, NEW v \in Values, CallRegWrite(f, v)
    PROVE  SoundInv'
<1> DEFINE o == [name |-> "reg_w", field |-> f, value |-> v, before |-> regs,
                 state |-> IF Direct(f) THEN "write" ELSE "read"]
<1>1. o \in Operations
  <2>1. v \in Int
    BY BusAssumption
  <2> QED
    BY <2>1 DEF Operations, FieldWrites, SoundInv
<1>2. Ready /\ (Refuse(o) \/ Begin(o))
  BY DEF CallRegWrite
<1>3. Underway(o, regs, radios, held, <<>>)
  BY DEF Underway
<1>4. o.state \in {"read", "write", "acquire"}
  OBVIOUS
<1> HIDE DEF o
<1> QED
  BY <1>1, <1>2, <1>3, <1>4, RefuseSound, BeginSound

\* of lgw_reg_r,
LEMMA FieldReadSound ==
    ASSUME SoundInv, NEW f \in RegisterMap, CallRegRead(f)
    PROVE  SoundInv'
<1> DEFINE o == [name |-> "reg_r", field |-> f, before |-> regs, state |-> "read"]
<1>1. o \in Operations
  BY DEF Operations, FieldReads, SoundInv
<1>2. Ready /\ (Refuse(o) \/ Begin(o))
  BY DEF CallRegRead
<1>3. Underway(o, regs, radios, held, <<>>)
  BY DEF Underway
<1>4. o.state \in {"read", "write", "acquire"}
  OBVIOUS
<1> HIDE DEF o
<1> QED
  BY <1>1, <1>2, <1>3, <1>4, RefuseSound, BeginSound

\* Nothing written, nothing read.
LEMMA NothingDone ==
    ASSUME NEW before \in Memory, NEW addr \in Nat, NEW data, NEW fifo
    PROVE  Stored(before, addr, data, 0) = before /\ Loaded(before, addr, fifo, 0) = <<>>
<1>1. Size \in Nat
  BY BusAssumption
<1>2. ASSUME NEW a \in 0 .. Size - 1 PROVE ~(a \in addr .. addr + 0 - 1)
  BY <1>1
<1>3. Stored(before, addr, data, 0) = before
  BY <1>2 DEF Stored, Memory
<1>4. 1 .. 0 = {}
  OBVIOUS
<1> QED
  BY <1>3, <1>4 DEF Loaded

\* of lgw_mem_wb,
LEMMA MemoryWriteSound ==
    ASSUME SoundInv, NEW a \in 0 .. Size - 1, NEW n \in 0 .. Size, NEW data \in [1 .. n -> {0, 2^Bits - 2}],
           CallMemWrite(a, data)
    PROVE  SoundInv'
<1> DEFINE o == [name |-> "mem_wb", addr |-> a, data |-> data, before |-> regs, done |-> 0, state |-> "acquire"]
<1>1. data \in Seq(Byte) /\ Len(data) = n
  <2>1. n \in Nat
    BY BusAssumption
  <2>2. 0 \in Byte /\ 2^Bits - 2 \in Byte
    <3>1. PICK h \in Nat : h = 2^(Bits - 1) /\ h > 0
      <4>1. Bits - 1 \in Nat
        BY BusAssumption
      <4> QED
        BY <4>1, TwoPositive
    <3>2. 2^Bits = 2 * h
      <4>1. Bits - 1 \in Nat /\ (Bits - 1) + 1 = Bits
        BY BusAssumption
      <4>2. 2^((Bits - 1) + 1) = 2 * 2^(Bits - 1)
        BY <4>1, TwoDoubles
      <4> QED
        BY <3>1, <4>1, <4>2
    <3>3. PICK b \in Nat : b = 2^Bits
      BY <3>2
    <3>4. b - 2 \in 0 .. b - 1 /\ 0 \in 0 .. b - 1
      BY <3>1, <3>2, <3>3
    <3> QED
      BY <3>3, <3>4 DEF Byte
  <2>3. data \in [1 .. n -> Byte]
    BY <2>2
  <2> QED
    BY <2>1, <2>3
<1>2. o \in Operations
  <2>1. a \in Nat /\ regs \in Memory
    BY DEF SoundInv
  <2> QED
    BY <1>1, <2>1 DEF Operations, MemoryWrites
<1>3. Ready /\ a + Len(data) <= Size /\ (Refuse(o) \/ (Begin(o) /\ data # <<>>))
  BY DEF CallMemWrite
<1>4. data # <<>> => Underway(o, regs, radios, held, <<>>)
  <2> SUFFICES ASSUME data # <<>> PROVE Underway(o, regs, radios, held, <<>>)
    OBVIOUS
  <2>1. 0 < Len(data)
    BY <1>1
  <2>2. regs = Stored(regs, a, data, 0)
    BY NothingDone DEF SoundInv
  <2> QED
    BY <1>3, <2>1, <2>2 DEF Underway
<1>5. o.state \in {"read", "write", "acquire"}
  OBVIOUS
<1> HIDE DEF o
<1> QED
  BY <1>2, <1>3, <1>4, <1>5, RefuseSound, BeginSound

\* of lgw_mem_rb,
LEMMA MemoryReadSound ==
    ASSUME SoundInv, NEW a \in 0 .. Size - 1, NEW n \in 0 .. Size, NEW fifo \in BOOLEAN, CallMemRead(a, n, fifo)
    PROVE  SoundInv'
<1> DEFINE o == [name |-> "mem_rb", addr |-> a, size |-> n, fifo |-> fifo, before |-> regs, done |-> 0,
                 state |-> "acquire"]
<1>1. n \in Nat /\ a \in Nat /\ regs \in Memory
  BY DEF SoundInv
<1>2. o \in Operations
  BY <1>1 DEF Operations, MemoryReads
<1>3. Ready /\ a + n <= Size /\ (Refuse(o) \/ (Begin(o) /\ n # 0))
  BY DEF CallMemRead
<1>4. n # 0 => Underway(o, regs, radios, held, <<>>)
  <2> SUFFICES ASSUME n # 0 PROVE Underway(o, regs, radios, held, <<>>)
    OBVIOUS
  <2>1. 0 < n
    BY <1>1
  <2>2. <<>> = Loaded(regs, a, fifo, 0)
    BY <1>1, NothingDone
  <2> QED
    BY <1>3, <2>1, <2>2 DEF Underway
<1>5. o.state \in {"read", "write", "acquire"}
  OBVIOUS
<1> HIDE DEF o
<1> QED
  BY <1>2, <1>3, <1>4, <1>5, RefuseSound, BeginSound

\* and of the accesses to a radio.
LEMMA RadioCallSound ==
    ASSUME SoundInv, NEW name \in {"radio_w", "radio_r"}, NEW r \in Radios, NEW v \in {0, 1}, NEW fits,
           CallRadio(name, r, v, fits)
    PROVE  SoundInv'
<1> DEFINE o == [name |-> name, radio |-> r, value |-> v, before |-> radios, regs |-> regs, state |-> "acquire"]
<1>1. o \in Operations
  BY DEF Operations, RadioAccesses, SoundInv
<1>2. Ready /\ (Refuse(o) \/ Begin(o))
  BY DEF CallRadio
<1>3. Underway(o, regs, radios, held, <<>>)
  BY DEF Underway
<1>4. o.state \in {"read", "write", "acquire"}
  OBVIOUS
<1> HIDE DEF o
<1> QED
  BY <1>1, <1>2, <1>3, <1>4, RefuseSound, BeginSound

\* The transfer of a byte that is read.
LEMMA SpiReadSound ==
    ASSUME SoundInv, SpiR
    PROVE  SoundInv'
<1>1. op.state = "read" /\ op \in FieldWrites \cup FieldReads /\ UNCHANGED <<regs, radios, held, burst>>
      /\ regs \in Memory /\ radios \in Settings /\ (held => burst)
  BY Kinds DEF SpiR, SoundInv
<1>2. CASE op \in FieldReads
  <2>1. regs = op.before /\ op.name = "reg_r"
    BY <1>1, <1>2 DEF SoundInv, Underway, FieldReads
  <2>2. op' \in FieldReads /\ op'.state \in {"ok", "error"} /\ op'.before = op.before /\ op'.name = "reg_r"
    BY <1>1, <1>2, <2>1 DEF SpiR, FieldReads
  <2> QED
    BY <1>1, <2>1, <2>2 DEF SoundInv, Underway, DoneAsAsked, Operations
<1>3. CASE op \in FieldWrites
  <2>1. regs = op.before /\ op.name = "reg_w"
    BY <1>1, <1>3 DEF SoundInv, Underway, FieldWrites
  <2>2. op' \in FieldWrites /\ op'.state = "write" /\ op'.before = op.before /\ op'.name = "reg_w"
        /\ op'.field = op.field
    BY <1>1, <1>3, <2>1 DEF SpiR, FieldWrites
  <2>3. buf' \in {<<>>, <<regs[op.field.addr]>>}
    BY DEF SpiR
  <2>4. Underway(op', regs', radios', held', buf')
    BY <1>1, <2>1, <2>2, <2>3 DEF Underway
  <2>5. op' \in Operations
    BY <2>2 DEF Operations
  <2> QED
    BY <1>1, <2>2, <2>4, <2>5, WaitSound
<1> QED
  BY <1>1, <1>2, <1>3

\* A whole byte is a field with nothing around it.
LEMMA DirectIsMixed ==
    ASSUME NEW f \in RegisterMap, Direct(f), NEW byte \in Byte, NEW v \in Int
    PROVE  v % 2^Bits = Mixed(byte, f, v)
<1>1. PICK b \in Nat : b = 2^Bits /\ b > 0
  BY BusAssumption, TwoPositive
<1>2. byte \in 0 .. b - 1
  BY <1>1 DEF Byte
<1>3. f.leng = Bits /\ f.offs = 0
  BY DEF Direct
<1>4. 2^f.offs = 1
  <2>1. f.offs \in Nat
    BY <1>3
  <2> QED
    BY <1>3, <2>1, TwoOfNone
<1>5. Piece(byte, f) = byte
  <2>1. byte \div 1 = byte /\ byte % b = byte
    BY <1>1, <1>2
  <2> QED
    BY <1>1, <1>3, <1>4, <2>1 DEF Piece
<1>6. PICK w \in Int : w = v % b
  BY <1>1
<1>7. Mixed(byte, f, v) = (byte - byte * 1) + w * 1
  BY <1>1, <1>3, <1>4, <1>5, <1>6 DEF Mixed
<1> QED
  BY <1>1, <1>2, <1>6, <1>7

\* The transfer of a byte that is written, mixed with what was read.
LEMMA SpiWriteSound ==
    ASSUME SoundInv, SpiW
    PROVE  SoundInv'
<1> DEFINE f == op.field
           byte == IF Direct(f) THEN regs[f.addr] ELSE IF buf = <<>> THEN 0 ELSE buf[1]
<1>1. op.state = "write" /\ op \in FieldWrites /\ UNCHANGED <<radios, held, burst>>
      /\ regs \in Memory /\ radios \in Settings /\ (held => burst)
  BY Kinds DEF SpiW, SoundInv
<1>2. /\ op.name = "reg_w" /\ f \in RegisterMap /\ op.value \in Int /\ regs = op.before
      /\ f.addr \in 0 .. Size - 1
      /\ ~Direct(f) => buf \in {<<>>, <<regs[f.addr]>>}
  BY <1>1, BusAssumption DEF SoundInv, Underway, FieldWrites, Register
<1>3. CASE op' = [op EXCEPT !.state = "error"] /\ UNCHANGED regs
  <2>1. op' \in Operations /\ op'.state = "error"
    BY <1>3, StateSet DEF SoundInv
  <2> QED
    BY <1>1, <1>3, <2>1, ErrorSound
<1>4. CASE /\ regs' = [regs EXCEPT ![f.addr] = IF Direct(f) THEN op.value % 2^Bits
                                                ELSE Mixed(IF buf = <<>> THEN 0 ELSE buf[1], f, op.value)]
           /\ op' = [op EXCEPT !.state = IF Direct(f) \/ buf # <<>> THEN "ok" ELSE "error"]
  <2>1. byte \in Byte
    <3>1. regs[f.addr] \in Byte
      BY <1>1, <1>2 DEF Memory
    <3>2. 0 \in Byte
      <4>1. PICK b \in Nat : b = 2^Bits /\ b > 0
        BY BusAssumption, TwoPositive
      <4> QED
        BY <4>1 DEF Byte
    <3> QED
      BY <1>2, <3>1, <3>2
  <2>2. regs' = [regs EXCEPT ![f.addr] = Mixed(byte, f, op.value)]
    <3>1. CASE Direct(f)
      <4>1. op.value % 2^Bits = Mixed(byte, f, op.value)
        BY <1>2, <2>1, <3>1, DirectIsMixed
      <4> QED
        BY <1>4, <3>1, <4>1
    <3>2. CASE ~Direct(f)
      BY <1>4, <3>2
    <3> QED
      BY <3>1, <3>2
  <2>3. PICK x \in Byte : x = Mixed(byte, f, op.value)
    <3>1. \E k \in Nat : \E p, w \in 0 .. 2^f.leng - 1 : \E lo \in 0 .. 2^f.offs - 1 :
             /\ byte = Bytes(2^f.offs, 2^f.leng, k, p, lo)
             /\ Mixed(byte, f, op.value) = Bytes(2^f.offs, 2^f.leng, k, w, lo)
             /\ Mixed(byte, f, op.value) \in Byte
             /\ w = op.value % 2^f.leng
      <4> HIDE DEF byte, f
      <4> QED
        BY <1>2, <2>1, MixedBytes
    <3> QED
      BY <3>1
  <2>4. regs' = [regs EXCEPT ![f.addr] = x]
    BY <2>2, <2>3
  <2>5. regs' \in Memory
    BY <1>1, <2>3, <2>4 DEF Memory
  <2>6. CASE ~(Direct(f) \/ buf # <<>>)
    <3>1. op' \in Operations /\ op'.state = "error"
      BY <1>4, <2>6, StateSet DEF SoundInv
    <3> QED
      BY <1>1, <2>5, <3>1, ErrorSound
  <2>7. CASE Direct(f) \/ buf # <<>>
    <3>1. /\ op' \in FieldWrites /\ op'.state = "ok" /\ op'.name = "reg_w"
          /\ op'.field = f /\ op'.value = op.value /\ op'.before = regs
      BY <1>1, <1>2, <1>4, <2>7 DEF FieldWrites
    <3>2. byte = regs[f.addr]
      BY <1>2, <2>7
    <3>3. regs'[f.addr] = x /\ \A a \in 0 .. Size - 1 : a # f.addr => regs'[a] = regs[a]
      BY <1>1, <1>2, <2>4 DEF Memory
    <3>4. (FieldValue(x, f) - op.value) % 2^f.leng = 0
      <4> HIDE DEF byte, f
      <4> QED
        BY <1>2, <2>1, <2>3, MixedValue
    <3>5. ASSUME NEW g \in RegisterMap \ {f} PROVE FieldValue(regs'[g.addr], g) = FieldValue(regs[g.addr], g)
      <4>1. g.addr \in 0 .. Size - 1
        BY BusAssumption DEF Register
      <4>2. CASE g.addr = f.addr
        <5> HIDE DEF byte, f
        <5>1. FieldValue(Mixed(byte, f, op.value), g) = FieldValue(byte, g)
          BY <1>2, <2>1, <4>2, MixedElsewhere
        <5> QED
          BY <2>3, <3>2, <3>3, <4>2, <5>1
      <4>3. CASE g.addr # f.addr
        BY <3>3, <4>1, <4>3
      <4> QED
        BY <4>2, <4>3
    <3>6. DoneAsAsked'
      BY <3>1, <3>3, <3>4, <3>5 DEF DoneAsAsked
    <3> QED
      BY <1>1, <2>5, <3>1, <3>6 DEF SoundInv, Underway, Operations
  <2> QED
    BY <2>6, <2>7
<1> QED
  BY <1>3, <1>4 DEF SpiW

\* The bus is acquired for a chunk.
LEMMA AcquireSound ==
    ASSUME SoundInv, Acquire
    PROVE  SoundInv'
<1>1. /\ op.state = "acquire" /\ ~held /\ held' /\ UNCHANGED <<regs, radios, buf, burst>>
      /\ op' = [op EXCEPT !.state = "transfer"] /\ op \in MemoryWrites \cup MemoryReads \cup RadioAccesses
  BY Kinds DEF Acquire, SoundInv
<1>2. CASE op \in MemoryWrites
  <2>1. op' \in MemoryWrites /\ op'.state = "transfer" /\ op.name = "mem_wb" /\ op'.name = "mem_wb"
        /\ op'.addr = op.addr /\ op'.data = op.data /\ op'.before = op.before /\ op'.done = op.done
    BY <1>1, <1>2 DEF MemoryWrites
  <2> QED
    BY <1>1, <2>1 DEF SoundInv, Underway, DoneAsAsked, Operations
<1>3. CASE op \in MemoryReads
  <2>1. op' \in MemoryReads /\ op'.state = "transfer" /\ op.name = "mem_rb" /\ op'.name = "mem_rb"
        /\ op'.addr = op.addr /\ op'.size = op.size /\ op'.fifo = op.fifo /\ op'.before = op.before
        /\ op'.done = op.done
    BY <1>1, <1>3 DEF MemoryReads
  <2> QED
    BY <1>1, <2>1 DEF SoundInv, Underway, DoneAsAsked, Operations
<1>4. CASE op \in RadioAccesses
  <2>1. op' \in RadioAccesses /\ op'.state = "transfer" /\ op.name \in {"radio_w", "radio_r"}
        /\ op'.name = op.name /\ op'.before = op.before /\ op'.regs = op.regs
    BY <1>1, <1>4 DEF RadioAccesses
  <2> QED
    BY <1>1, <2>1 DEF SoundInv, Underway, DoneAsAsked, Operations
<1> QED
  BY <1>1, <1>2, <1>3, <1>4

\* The command to a radio, as one chunk.
LEMMA RadioTransferSound ==
    ASSUME SoundInv, RadioTransfer
    PROVE  SoundInv'
<1>1. /\ op.state = "transfer" /\ op.name \in {"radio_w", "radio_r"} /\ op \in RadioAccesses /\ UNCHANGED regs
      /\ radios = op.before /\ regs = op.regs /\ radios \in Settings /\ regs \in Memory
      /\ op.radio \in Radios /\ op.value \in {0, 1}
  BY Kinds DEF RadioTransfer, SoundInv, Underway, RadioAccesses
<1>2. CASE burst' = TRUE /\ op' = [op EXCEPT !.state = "error"] /\ UNCHANGED <<radios, held, buf>>
  <2>1. op' \in Operations /\ op'.state = "error"
    BY <1>2, StateSet DEF SoundInv
  <2> QED
    BY <1>1, <1>2, <2>1, ErrorSound
<1>3. CASE /\ IF op.name = "radio_w"
                THEN radios' = [radios EXCEPT ![op.radio] = op.value] /\ UNCHANGED buf
                ELSE buf' = <<radios[op.radio]>> /\ UNCHANGED radios
           /\ held' = FALSE /\ op' = [op EXCEPT !.state = "ok"]
  <2>1. op' \in RadioAccesses /\ op'.state = "ok" /\ op'.name = op.name /\ op'.before = op.before
        /\ op'.regs = op.regs /\ op'.radio = op.radio /\ op'.value = op.value
    BY <1>1, <1>3 DEF RadioAccesses
  <2>2. radios' \in Settings
    BY <1>1, <1>3 DEF Settings
  <2>3. DoneAsAsked'
    BY <1>1, <1>3, <2>1 DEF DoneAsAsked
  <2>4. Underway(op', regs', radios', held', buf')
    BY <1>1, <2>1 DEF Underway
  <2> QED
    BY <1>1, <1>3, <2>1, <2>2, <2>3, <2>4 DEF SoundInv, Operations
<1> QED
  BY <1>2, <1>3 DEF RadioTransfer

\* Two sequences, one after the other, by their elements,
Follows(V, d, n, head, tail, all) ==
  /\ d \in Nat /\ n \in Nat
  /\ head \in [1 .. d -> V] /\ tail \in [1 .. n -> V] /\ all \in [1 .. d + n -> V]
  /\ \A i \in 1 .. d : all[i] = head[i]
  /\ \A j \in 1 .. n : all[d + j] = tail[j]

\* make a sequence.
LEMMA Appended ==
    ASSUME NEW V, NEW d, NEW n, NEW head, NEW tail, NEW all, Follows(V, d, n, head, tail, all)
    PROVE  head \o tail = all
<1> USE DEF Follows
<1>0. d + n \in Nat
  OBVIOUS
<1>1. head \in Seq(V) /\ Len(head) = d /\ tail \in Seq(V) /\ Len(tail) = n /\ all \in Seq(V) /\ Len(all) = d + n
  BY <1>0
<1>2. ASSUME NEW i \in 1 .. d + n PROVE (head \o tail)[i] = all[i]
  <2>2. CASE i <= d
    BY <1>1, <2>2
  <2>3. CASE i > d
    <3>1. i - d \in 1 .. n /\ d + (i - d) = i
      BY <2>3
    <3>2. all[i] = tail[i - d]
      BY <3>1
    <3>3. (head \o tail)[i] = tail[i - d]
      BY <1>1, <2>3
    <3> QED
      BY <3>2, <3>3
  <2> QED
    BY <2>2, <2>3
<1>3. head \o tail \in Seq(V) /\ Len(head \o tail) = d + n
  BY <1>1, ConcatProperties
<1> QED
  BY <1>1, <1>2, <1>3, SeqEqual

\* A further chunk of what is read: its bytes, put behind the ones read before,
Further(before, addr, fifo, d, n) ==
  [i \in 1 .. n |-> before[IF fifo THEN addr ELSE addr + d + i - 1]]

Joined(head, tail) == head \o tail

\* are what is read of the two together.
LEMMA LoadedMore ==
    ASSUME NEW before \in Memory, NEW addr \in Nat, NEW fifo \in BOOLEAN, NEW d \in Nat, NEW n \in Nat
    PROVE  Loaded(before, addr, fifo, d + n) =
             Joined(Loaded(before, addr, fifo, d), Further(before, addr, fifo, d, n))
<1> DEFINE V == {before[i] : i \in Int}
           head == Loaded(before, addr, fifo, d)
           tail == Further(before, addr, fifo, d, n)
           all  == Loaded(before, addr, fifo, d + n)
<1>1. head \in [1 .. d -> V] /\ tail \in [1 .. n -> V] /\ all \in [1 .. d + n -> V]
  BY DEF Loaded, Further
<1>2. ASSUME NEW i \in 1 .. d PROVE all[i] = head[i]
  <2>1. i \in 1 .. d + n
    OBVIOUS
  <2>2. head[i] = before[IF fifo THEN addr ELSE addr + i - 1]
    BY DEF Loaded
  <2>3. all[i] = before[IF fifo THEN addr ELSE addr + i - 1]
    BY <2>1 DEF Loaded
  <2> QED
    BY <2>2, <2>3
<1>3. ASSUME NEW j \in 1 .. n PROVE all[d + j] = tail[j]
  <2>1. d + j \in 1 .. d + n /\ addr + (d + j) - 1 = addr + d + j - 1
    OBVIOUS
  <2>2. tail[j] = before[IF fifo THEN addr ELSE addr + d + j - 1]
    BY DEF Further
  <2>3. all[d + j] = before[IF fifo THEN addr ELSE addr + (d + j) - 1]
    BY <2>1 DEF Loaded
  <2> QED
    BY <2>1, <2>2, <2>3
<1> HIDE DEF head, tail, all, V
<1>4. Follows(V, d, n, head, tail, all)
  BY <1>1, <1>2, <1>3 DEF Follows
<1>5. head \o tail = all
  BY <1>4, Appended
<1> QED
  BY <1>5 DEF Joined, head, tail, all

\* A further chunk of what is written, over the ones before,
Over(memory, from, data, d, n) ==
  [a \in 0 .. Size - 1 |-> IF a \in from .. from + n - 1 THEN data[d + 1 + a - from] ELSE memory[a]]

\* is what is written of the two together.
LEMMA StoredMore ==
    ASSUME NEW before \in Memory, NEW addr \in Nat, NEW data \in Seq(Byte), NEW d \in Nat, NEW n \in Nat,
           d + n <= Len(data)
    PROVE  /\ Stored(before, addr, data, d) \in Memory
           /\ Stored(before, addr, data, d + n) =
                Over(Stored(before, addr, data, d), addr + d, data, d, n)
<1>1. Size \in Nat
  BY BusAssumption
<1>2. Stored(before, addr, data, d) \in Memory
  <2>1. ASSUME NEW a \in addr .. addr + d - 1 PROVE data[a - addr + 1] \in Byte
    <3>1. a - addr + 1 \in 1 .. Len(data)
      OBVIOUS
    <3> QED
      BY <3>1
  <2>2. \A a \in 0 .. Size - 1 : before[a] \in Byte
    BY DEF Memory
  <2> QED
    BY <2>1, <2>2 DEF Stored, Memory
<1>3. ASSUME NEW a \in 0 .. Size - 1
      PROVE  Stored(before, addr, data, d + n)[a] =
               IF a \in addr + d .. addr + d + n - 1
                 THEN data[d + 1 + a - (addr + d)] ELSE Stored(before, addr, data, d)[a]
  <2>1. a \in Int /\ d + 1 + a - (addr + d) = a - addr + 1
    OBVIOUS
  <2>2. a \in addr .. addr + (d + n) - 1 <=> a \in addr .. addr + d - 1 \/ a \in addr + d .. addr + d + n - 1
    BY <2>1
  <2>3. ~(a \in addr .. addr + d - 1 /\ a \in addr + d .. addr + d + n - 1)
    BY <2>1
  <2>4. /\ Stored(before, addr, data, d + n)[a] =
             IF a \in addr .. addr + (d + n) - 1 THEN data[a - addr + 1] ELSE before[a]
        /\ Stored(before, addr, data, d)[a] = IF a \in addr .. addr + d - 1 THEN data[a - addr + 1] ELSE before[a]
    BY DEF Stored
  <2> QED
    BY <2>1, <2>2, <2>3, <2>4
<1> QED
  BY <1>2, <1>3 DEF Stored, Over

\* A chunk of a burst.
LEMMA TransferSound ==
    ASSUME SoundInv, Transfer
    PROVE  SoundInv'
<1> DEFINE n == IF Left > Chunk THEN Chunk ELSE Left
           goes == IF Left > n THEN "acquire" ELSE "ok"
<1>1. /\ op.state = "transfer" /\ op.name \in {"mem_wb", "mem_rb"} /\ UNCHANGED radios /\ held
      /\ radios \in Settings /\ regs \in Memory
  BY DEF Transfer, SoundInv
<1>2. Chunk \in Nat /\ Chunk > 0 /\ Size \in Nat
  BY BusAssumption
<1>3. /\ op.name = "mem_wb" => op \in MemoryWrites /\ op.done < Len(op.data) /\ op.addr + Len(op.data) <= Size
                               /\ Total = Len(op.data) /\ regs = Stored(op.before, op.addr, op.data, op.done)
      /\ op.name = "mem_rb" => op \in MemoryReads /\ op.done < op.size /\ op.addr + op.size <= Size
                               /\ Total = op.size /\ regs = op.before
                               /\ buf = Loaded(op.before, op.addr, op.fifo, op.done)
  BY <1>1, Kinds DEF SoundInv, Underway, Total
<1>4. Total \in Nat /\ op.done \in Nat /\ op.done < Total /\ op.addr \in Nat /\ op.addr + Total <= Size
      /\ op.before \in Memory /\ (op.name = "mem_wb" => op.data \in Seq(Byte))
      /\ (op.name = "mem_rb" => op.fifo \in BOOLEAN)
  BY <1>1, <1>3 DEF MemoryWrites, MemoryReads
<1>5. n \in Nat /\ n > 0 /\ op.done + n <= Total /\ (goes = "acquire" => op.done + n < Total)
      /\ (goes = "ok" => op.done + n = Total) /\ goes \in {"acquire", "ok"}
  BY <1>2, <1>4 DEF Left
<1> HIDE DEF n, goes
<1>6. ASSUME NEW s \in {"acquire", "ok", "error"}, op' = [op EXCEPT !.state = s, !.done = @ + n]
      PROVE  /\ op.name = "mem_wb" => op' \in MemoryWrites
             /\ op.name = "mem_rb" => op' \in MemoryReads
             /\ op' \in Operations /\ op'.state = s /\ op'.name = op.name /\ op'.done = op.done + n
             /\ op'.addr = op.addr /\ op'.before = op.before
             /\ op.name = "mem_wb" => op'.data = op.data
             /\ op.name = "mem_rb" => op'.size = op.size /\ op'.fifo = op.fifo
  <2>1. op.done + n \in Nat
    BY <1>4, <1>5
  <2>2. CASE op.name = "mem_wb"
    BY <1>3, <1>6, <2>1, <2>2 DEF MemoryWrites, Operations
  <2>3. CASE op.name = "mem_rb"
    BY <1>3, <1>6, <2>1, <2>3 DEF MemoryReads, Operations
  <2> QED
    BY <1>1, <2>2, <2>3
<1>7. CASE /\ burst' = TRUE /\ op' = [op EXCEPT !.state = IF goes = "ok" THEN "error" ELSE "acquire", !.done = @ + n]
           /\ UNCHANGED <<regs, held, buf>>
  <2>1. CASE goes = "ok"
    <3>1. op' \in Operations /\ op'.state = "error"
      BY <1>6, <1>7, <2>1
    <3> QED
      BY <1>1, <1>7, <3>1, ErrorSound
  <2>2. CASE goes = "acquire"
    <3>1. op' \in Operations /\ op'.state = "acquire" /\ op'.name = op.name
      BY <1>6, <1>7, <2>2
    <3>2. Underway(op', regs', radios', held', buf')
      BY <1>1, <1>7, <3>1 DEF Underway
    <3> QED
      BY <1>1, <1>7, <3>1, <3>2, WaitSound
  <2> QED
    BY <1>5, <2>1, <2>2
<1>8. CASE /\ IF op.name = "mem_wb"
                THEN regs' = [a \in DOMAIN regs |-> IF a \in ChunkAddress .. ChunkAddress + n - 1
                                                      THEN op.data[op.done + 1 + a - ChunkAddress] ELSE regs[a]]
                     /\ UNCHANGED buf
                ELSE buf' = buf \o [i \in 1 .. n |-> regs[IF op.fifo THEN op.addr ELSE ChunkAddress + i - 1]]
                     /\ UNCHANGED regs
           /\ held' = FALSE
           /\ op' = [op EXCEPT !.state = goes, !.done = @ + n]
           /\ UNCHANGED burst
  <2>1. /\ op' \in Operations /\ op'.state = goes /\ op'.name = op.name /\ op'.done = op.done + n
        /\ op'.addr = op.addr /\ op'.before = op.before
        /\ op.name = "mem_wb" => op'.data = op.data
        /\ op.name = "mem_rb" => op'.size = op.size /\ op'.fifo = op.fifo
    BY <1>5, <1>6, <1>8
  <2>2. CASE op.name = "mem_wb"
    <3>1. regs' = Stored(op.before, op.addr, op.data, op.done + n)
      <4>1. DOMAIN regs = 0 .. Size - 1 /\ ChunkAddress = op.addr + op.done
        BY <1>1, <2>2 DEF Memory, ChunkAddress
      <4>2. op.done + n <= Len(op.data)
        BY <1>3, <1>5, <2>2
      <4>3. Stored(op.before, op.addr, op.data, op.done + n) =
                Over(Stored(op.before, op.addr, op.data, op.done), op.addr + op.done, op.data, op.done, n)
        <5>1. /\ op.before \in Memory /\ op.addr \in Nat /\ op.data \in Seq(Byte) /\ op.done \in Nat /\ n \in Nat
              /\ op.done + n <= Len(op.data)
          BY <1>4, <1>5, <2>2, <4>2
        <5> QED
          BY <5>1, StoredMore
      <4> QED
        BY <1>3, <1>8, <2>2, <4>1, <4>3 DEF Over
    <3>2. regs' \in Memory
      <4>1. op.done + n \in Nat /\ op.done + n + 0 <= Len(op.data) /\ 0 \in Nat
        BY <1>3, <1>4, <1>5, <2>2
      <4>2. Stored(op.before, op.addr, op.data, op.done + n) \in Memory
        BY <1>4, <2>2, <4>1, StoredMore
      <4> QED
        BY <3>1, <4>2
    <3>3. CASE goes = "acquire"
      <4>1. Underway(op', regs', radios', held', buf')
        BY <1>1, <1>3, <1>5, <1>8, <2>1, <2>2, <3>1, <3>3 DEF Underway
      <4> QED
        BY <1>1, <1>8, <2>1, <3>2, <3>3, <4>1, WaitSound
    <3>4. CASE goes = "ok"
      <4>1. op.done + n = Len(op.data)
        BY <1>3, <1>5, <2>2, <3>4
      <4>2. regs' = [a \in DOMAIN regs' |-> IF a \in op.addr .. op.addr + Len(op.data) - 1
                                              THEN op.data[a - op.addr + 1] ELSE op.before[a]]
        BY <3>1, <4>1 DEF Stored
      <4>3. DoneAsAsked'
        BY <2>1, <2>2, <4>2 DEF DoneAsAsked
      <4>4. Underway(op', regs', radios', held', buf')
        BY <2>1, <2>2, <3>4 DEF Underway
      <4> QED
        BY <1>1, <1>8, <2>1, <3>2, <3>4, <4>3, <4>4 DEF SoundInv
    <3> QED
      BY <1>5, <3>3, <3>4
  <2>3. CASE op.name = "mem_rb"
    <3>1. buf' = Loaded(op.before, op.addr, op.fifo, op.done + n)
      <4>1. buf' = buf \o [i \in 1 .. n |-> op.before[IF op.fifo THEN op.addr ELSE op.addr + op.done + i - 1]]
        <5>1. \A i \in 1 .. n : (IF op.fifo THEN op.addr ELSE ChunkAddress + i - 1) =
                                (IF op.fifo THEN op.addr ELSE op.addr + op.done + i - 1)
          BY <2>3 DEF ChunkAddress
        <5>2. buf' = buf \o [i \in 1 .. n |-> op.before[IF op.fifo THEN op.addr ELSE ChunkAddress + i - 1]]
          BY <1>3, <1>8, <2>3
        <5> QED
          BY <5>1, <5>2
      <4>2. Loaded(op.before, op.addr, op.fifo, op.done + n) =
              Joined(Loaded(op.before, op.addr, op.fifo, op.done),
                     Further(op.before, op.addr, op.fifo, op.done, n))
        <5>1. op.before \in Memory /\ op.addr \in Nat /\ op.fifo \in BOOLEAN /\ op.done \in Nat /\ n \in Nat
          BY <1>4, <1>5, <2>3
        <5> QED
          BY <5>1, LoadedMore
      <4> QED
        BY <1>3, <2>3, <4>1, <4>2 DEF Further, Joined
    <3>2. regs' = regs /\ regs = op.before
      BY <1>3, <1>8, <2>3
    <3>3. CASE goes = "acquire"
      <4>1. Underway(op', regs', radios', held', buf')
        BY <1>1, <1>3, <1>5, <1>8, <2>1, <2>3, <3>1, <3>2, <3>3 DEF Underway
      <4> QED
        BY <1>1, <1>8, <2>1, <3>2, <3>3, <4>1, WaitSound
    <3>4. CASE goes = "ok"
      <4>1. op.done + n = op.size
        BY <1>3, <1>5, <2>3, <3>4
      <4>2. buf' = [i \in 1 .. op.size |-> op.before[IF op.fifo THEN op.addr ELSE op.addr + i - 1]]
        BY <3>1, <4>1 DEF Loaded
      <4>3. DoneAsAsked'
        BY <2>1, <2>3, <3>2, <4>2 DEF DoneAsAsked
      <4>4. Underway(op', regs', radios', held', buf')
        BY <2>1, <2>3, <3>4 DEF Underway
      <4> QED
        BY <1>1, <1>8, <2>1, <3>2, <3>4, <4>3, <4>4 DEF SoundInv
    <3> QED
      BY <1>5, <3>3, <3>4
  <2> QED
    BY <1>1, <2>2, <2>3
<1> QED
  BY <1>7, <1>8 DEF Transfer, n, goes

\* Every step.
LEMMA SoundNext == SoundInv /\ [BusNext]_busVars => SoundInv'
<1> SUFFICES ASSUME SoundInv, [BusNext]_busVars PROVE SoundInv'
  OBVIOUS
<1>1. CASE UNCHANGED busVars
  BY <1>1 DEF busVars, SoundInv, Underway, DoneAsAsked, Ready
<1>2. CASE \E f \in RegisterMap : CallRegRead(f) \/ \E v \in Values : CallRegWrite(f, v)
  BY <1>2, FieldReadSound, FieldWriteSound
<1>3. ASSUME NEW a \in 0 .. Size - 1, NEW n \in 0 .. Size, NEW data \in [1 .. n -> {0, 2^Bits - 2}],
             CallMemWrite(a, data)
      PROVE  SoundInv'
  BY <1>3, MemoryWriteSound
<1>4. ASSUME NEW a \in 0 .. Size - 1, NEW n \in 0 .. Size, NEW fifo \in BOOLEAN, CallMemRead(a, n, fifo)
      PROVE  SoundInv'
  BY <1>4, MemoryReadSound
<1>5. ASSUME NEW r \in Radios, NEW fits \in BOOLEAN, NEW v \in {0, 1}, CallRadio("radio_w", r, v, fits)
      PROVE  SoundInv'
  BY <1>5, RadioCallSound
<1>6. ASSUME NEW r \in Radios, NEW fits \in BOOLEAN, CallRadio("radio_r", r, 0, fits)
      PROVE  SoundInv'
  BY <1>6, RadioCallSound
<1> QED
  BY <1>1, <1>2, <1>3, <1>4, <1>5, <1>6, ConnectSound, SpiReadSound, SpiWriteSound, AcquireSound, TransferSound,
     RadioTransferSound DEF BusNext

BusSpec == BusInit /\ [][BusNext]_busVars

\* An operation that reports success did what it was asked: a field that was written
\* reads back the value, up to the bits that do not fit it, and every other field of the
\* register map what it did; a burst stored or returned every byte of its range, or
\* of the one address of a FIFO, whatever the chunks it was cut into; a command reached
\* its radio and nothing else.  And between two operations the bus is free unless the
\* transfer of a chunk failed, so a failing register access never makes the next one
\* wait for ever in spi_device_acquire_bus.
THEOREM BusAlwaysSound == BusSpec => []BusSound
<1>1. SoundInv => BusSound
  BY DEF SoundInv, BusSound, BusFree, Ready
<1> QED
  BY <1>1, SoundInit, SoundNext, PTL DEF BusSpec

-----------------------------------------------------------------------------
(* Numbers modulo another.                                                   *)

\* A remainder is below its modulus.
LEMMA ModRange ==
    ASSUME NEW M \in Nat, M > 0, NEW a \in Int
    PROVE  a % M \in 0 .. M - 1
OBVIOUS

\* A number is a multiple of the modulus and a remainder.
LEMMA ModParts ==
    ASSUME NEW M \in Nat, M > 0, NEW a \in Int
    PROVE  \E q \in Int : \E r \in 0 .. M - 1 : a = M * q + r /\ a % M = r
<1>1. a \div M \in Int /\ a % M \in 0 .. M - 1
  OBVIOUS
<1>2. a = M * (a \div M) + (a % M)
  OBVIOUS
<1> WITNESS a \div M \in Int
<1> WITNESS a % M \in 0 .. M - 1
<1> QED
  BY <1>2

\* It is so in only one way.
LEMMA ModUnique ==
    ASSUME NEW M \in Nat, M > 0, NEW a \in Int, NEW q \in Int, NEW r \in 0 .. M - 1, a = M * q + r
    PROVE  a % M = r
OBVIOUS

\* Multiples of one number, for the solver.
LEMMA Distribute ==
    ASSUME NEW M \in Int, NEW p \in Int, NEW q \in Int
    PROVE  M * p \in Int /\ M * q \in Int /\ M * (p + q) = M * p + M * q /\ M * (p - q) = M * p - M * q
OBVIOUS

\* Numbers that differ by a multiple of the modulus have the same remainder,
LEMMA ModSame ==
    ASSUME NEW M \in Nat, M > 0, NEW a \in Int, NEW b \in Int, NEW q \in Int, a = b + M * q
    PROVE  a % M = b % M
<1>1. PICK p \in Int : \E r \in 0 .. M - 1 : b = M * p + r /\ b % M = r
  BY ModParts
<1>2. PICK r \in 0 .. M - 1 : b = M * p + r /\ b % M = r
  BY <1>1
<1>3. M * (p + q) = M * p + M * q /\ M * p \in Int /\ M * q \in Int
  BY Distribute
<1>4. a = M * (p + q) + r
  BY <1>2, <1>3
<1>5. p + q \in Int
  OBVIOUS
<1>6. a % M = r
  BY <1>4, <1>5, ModUnique
<1> QED
  BY <1>2, <1>6

\* and only those have.
LEMMA ModDiff ==
    ASSUME NEW M \in Nat, M > 0, NEW a \in Int, NEW b \in Int, a % M = b % M
    PROVE  \E q \in Int : a = b + M * q
<1>1. PICK p \in Int : \E r \in 0 .. M - 1 : b = M * p + r /\ b % M = r
  BY ModParts
<1>2. PICK r \in 0 .. M - 1 : b = M * p + r /\ b % M = r
  BY <1>1
<1>3. PICK s \in Int : \E t \in 0 .. M - 1 : a = M * s + t /\ a % M = t
  BY ModParts
<1>4. PICK t \in 0 .. M - 1 : a = M * s + t /\ a % M = t
  BY <1>3
<1>5. M * (s - p) = M * s - M * p /\ M * s \in Int /\ M * p \in Int
  BY Distribute
<1>6. t = r
  BY <1>2, <1>4
<1>7. a = b + M * (s - p)
  BY <1>2, <1>4, <1>5, <1>6
<1>8. s - p \in Int
  OBVIOUS
<1> WITNESS s - p \in Int
<1> QED
  BY <1>7

\* A remainder may be taken before something is added.
LEMMA ModAdd ==
    ASSUME NEW M \in Nat, M > 0, NEW a \in Int, NEW b \in Int
    PROVE  ((a % M) + b) % M = (a + b) % M
<1>1. PICK p \in Int : \E r \in 0 .. M - 1 : a = M * p + r /\ a % M = r
  BY ModParts
<1>2. PICK r \in 0 .. M - 1 : a = M * p + r /\ a % M = r
  BY <1>1
<1>3. a + b = (r + b) + M * p
  BY <1>2
<1>4. (a + b) % M = (r + b) % M
  <2>1. a + b \in Int /\ r + b \in Int
    OBVIOUS
  <2> QED
    BY <1>3, <2>1, ModSame
<1> QED
  BY <1>2, <1>4

\* Congruent numbers that differ, differ by the modulus at the least.
LEMMA ModApart ==
    ASSUME NEW M \in Nat, M > 0, NEW a \in Int, NEW b \in Int, a % M = b % M, a > b
    PROVE  a >= b + M
<1>1. PICK q \in Int : a = b + M * q
  BY ModDiff
<1>2. M * q > 0
  BY <1>1
<1>3. q >= 1
  BY <1>2
<1>4. M * q >= M
  BY <1>3
<1> QED
  BY <1>1, <1>4

\* A number below the modulus is its own remainder.
LEMMA ModSmall ==
    ASSUME NEW M \in Nat, M > 0, NEW a \in 0 .. M - 1
    PROVE  a % M = a
OBVIOUS

-----------------------------------------------------------------------------
(* Counter values by their age.                                              *)

\* Values of the counter, places of the history, and the most counts between two pulses
\* that follow each other in it.
Counts == 0 .. Turn - 1
Slots == 0 .. Depth - 1
Gap == (Outage + 1) * Second + Stall

\* What PpsAssumption says, as facts about whole numbers.
LEMMA Bounds ==
    /\ Turn \in Nat /\ Turn > 0 /\ Second \in Nat /\ Second > 0 /\ Depth \in Nat /\ Depth >= 3
    /\ Outage \in Nat /\ Stall \in Nat /\ Wait \in Nat
    /\ Gap \in Nat /\ Gap >= Second + Stall /\ (Outage + 1) * Second \in Nat /\ Gap = (Outage + 1) * Second + Stall
    /\ Depth * Gap \in Nat /\ (Depth - 2) * Second \in Nat
    /\ Depth * Gap < Turn
    /\ Wait <= (Depth - 2) * Second
<1>1. /\ Turn \in Nat /\ Second \in Nat /\ Second > 0 /\ Depth \in Nat /\ Depth >= 3
      /\ Outage \in Nat /\ Stall \in Nat
  BY PpsAssumption
<1>2. Outage * Second \in Nat /\ (Outage + 1) * Second = Outage * Second + Second
  BY <1>1
<1>3. Gap \in Nat /\ Gap >= Second + Stall /\ (Outage + 1) * Second \in Nat
  BY <1>1, <1>2 DEF Gap
<1>4. Depth * Gap \in Nat /\ (Depth - 2) * Second \in Nat
  BY <1>1, <1>3
<1>5. Depth * Gap < Turn
  BY PpsAssumption DEF Gap
<1>6. Wait \in Nat /\ Wait <= (Depth - 2) * Second
  BY <1>4, PpsAssumption
<1>7. Turn > 0
  BY <1>1, <1>4, <1>5
<1> QED
  BY <1>1, <1>3, <1>4, <1>5, <1>6, <1>7 DEF Gap

\* The counts from one value to another are those of less than a turn.
LEMMA SinceType ==
    ASSUME NEW a \in Int, NEW b \in Int
    PROVE  Since(a, b) \in Counts
<1>1. Turn \in Nat /\ Turn > 0 /\ a - b \in Int
  BY Bounds
<1> QED
  BY <1>1, ModRange DEF Since, Counts

\* They are whole numbers, as the values are.
LEMMA SinceInt ==
    ASSUME NEW a \in Int, NEW b \in Int
    PROVE  Since(a, b) \in Int /\ Counts \subseteq Int
<1>1. Turn \in Nat
  BY Bounds
<1> QED
  BY <1>1, SinceType DEF Counts

\* From one past count to a later one, by their ages.
LEMMA SinceAges ==
    ASSUME NEW t \in Int, NEW a \in Int, NEW b \in Int
    PROVE  Since(Since(t, a), Since(t, b)) = (b - a) % Turn
<1>1. Turn \in Nat /\ Turn > 0
  BY Bounds
<1>2. PICK x \in Int : x = t - a
  OBVIOUS
<1>3. PICK y \in Int : y = t - b
  OBVIOUS
<1>4. PICK p \in Int : \E u \in 0 .. Turn - 1 : x = Turn * p + u /\ x % Turn = u
  BY <1>1, ModParts
<1>5. PICK u \in 0 .. Turn - 1 : x = Turn * p + u /\ x % Turn = u
  BY <1>4
<1>6. PICK q \in Int : \E v \in 0 .. Turn - 1 : y = Turn * q + v /\ y % Turn = v
  BY <1>1, ModParts
<1>7. PICK v \in 0 .. Turn - 1 : y = Turn * q + v /\ y % Turn = v
  BY <1>6
<1>8. Since(t, a) = u /\ Since(t, b) = v
  BY <1>2, <1>3, <1>5, <1>7 DEF Since
<1>9. Turn * (q - p) = Turn * q - Turn * p /\ Turn * q \in Int /\ Turn * p \in Int
  BY <1>1, Distribute
<1>10. u - v = (b - a) + Turn * (q - p)
  BY <1>2, <1>3, <1>5, <1>7, <1>9
<1>11. (u - v) % Turn = (b - a) % Turn
  <2>1. u - v \in Int /\ b - a \in Int /\ q - p \in Int
    BY <1>1
  <2> QED
    BY <1>1, <1>10, <2>1, ModSame
<1> QED
  BY <1>8, <1>11 DEF Since

\* The same for values less than a turn apart, the second the older one,
LEMMA SinceEarlier ==
    ASSUME NEW t \in Int, NEW a \in Int, NEW b \in Int, b - a \in 0 .. Turn - 1
    PROVE  Since(Since(t, a), Since(t, b)) = b - a
<1>1. Turn \in Nat /\ Turn > 0
  BY Bounds
<1> QED
  BY <1>1, SinceAges, ModSmall

\* and the second the younger one.
LEMMA SinceLater ==
    ASSUME NEW t \in Int, NEW a \in Int, NEW b \in Int, b - a < 0, b - a >= -Turn
    PROVE  Since(Since(t, a), Since(t, b)) = b - a + Turn
<1>1. Turn \in Nat /\ Turn > 0
  BY Bounds
<1>2. b - a + Turn \in 0 .. Turn - 1
  BY <1>1
<1>3. Turn * (-1) = -Turn /\ -1 \in Int
  BY <1>1
<1>4. b - a = (b - a + Turn) + Turn * (-1)
  BY <1>1, <1>3
<1>5. (b - a) % Turn = (b - a + Turn) % Turn
  <2>1. b - a \in Int /\ b - a + Turn \in Int
    BY <1>1
  <2> QED
    BY <1>1, <1>3, <1>4, <2>1, ModSame
<1>6. (b - a + Turn) % Turn = b - a + Turn
  BY <1>1, <1>2, ModSmall
<1> QED
  BY <1>5, <1>6, SinceAges

\* A count of less than a turn ago is told by its age.
LEMMA SinceInjective ==
    ASSUME NEW t \in Int, NEW a \in 0 .. Turn - 1, NEW b \in 0 .. Turn - 1, Since(t, a) = Since(t, b), a <= b
    PROVE  a = b
<1>1. b - a \in 0 .. Turn - 1 /\ Turn \in Nat /\ Turn > 0
  BY Bounds
<1>2. Since(Since(t, a), Since(t, b)) = b - a
  BY <1>1, SinceEarlier
<1>3. Since(t, a) \in Counts
  BY SinceType
<1>4. Since(Since(t, a), Since(t, a)) = 0
  <2>1. \A x \in Counts : Since(x, x) = 0
    BY <1>1, ModSmall DEF Since, Counts
  <2> QED
    BY <1>3, <2>1
<1> QED
  BY <1>2, <1>4

\* As the counter moves, the ages do.
LEMMA SinceTick ==
    ASSUME NEW t \in Int, NEW a \in Int
    PROVE  Since((t + 1) % Turn, a + 1) = Since(t, a)
<1>1. Turn \in Nat /\ Turn > 0 /\ t + 1 \in Int /\ -(a + 1) \in Int
  BY Bounds
<1>2. (((t + 1) % Turn) + (-(a + 1))) % Turn = (t + 1 + (-(a + 1))) % Turn
  BY <1>1, ModAdd
<1>3. (t + 1) % Turn \in Int
  BY <1>1, ModRange
<1>4. ((t + 1) % Turn) + (-(a + 1)) = ((t + 1) % Turn) - (a + 1) /\ t + 1 + (-(a + 1)) = t - a
  BY <1>3
<1> QED
  BY <1>2, <1>4 DEF Since

-----------------------------------------------------------------------------
(* The history by the ages of its pulses.                                    *)

\* The places after and before one, in the ring.
NextSlot(i) == IF i = Depth - 1 THEN 0 ELSE i + 1
PreviousSlot(i) == IF i = 0 THEN Depth - 1 ELSE i - 1

\* What timestamp_pps_history may hold.
Histories == [values : [Slots -> Counts], idx : Slots, size : 0 .. Depth]

\* How many values were saved after that of slot i.
Rank(h, i) == IF i <= h.idx THEN h.idx - i ELSE h.idx - i + Depth

\* The c newest values of the history are those of pulses: age is how long ago each was; the first
\* may have been read before there was any (fake).
Dated(h, c, t, ph, age, fake) ==
  /\ age \in [Slots -> Nat] /\ fake \subseteq {0}
  /\ 0 \in fake => c > 0 /\ Rank(h, 0) = c - 1 /\ h.values[0] = 0
  /\ \A i \in Slots \ fake : Rank(h, i) < c =>
       /\ h.values[i] = Since(t, age[i])
       /\ age[i] % Second = ph
       /\ age[i] >= age[h.idx] + Rank(h, i) * Second
       /\ age[i] <= age[h.idx] + Rank(h, i) * Gap
       /\ i # h.idx => age[i] >= age[NextSlot(i)] + Second

\* The newest is not newer than the pulse in the register, and hardly older.
Recent(h, c, age, fake, missed, pulse, slack) ==
  c > 0 /\ h.idx \notin fake =>
    missed >= 0 /\ pulse <= age[h.idx] /\ age[h.idx] < (Outage + 1) * Second + slack

\* The places and ranks of a history.
LEMMA SlotFacts ==
    ASSUME NEW h \in Histories
    PROVE  /\ h.idx \in Slots /\ h.size \in 0 .. Depth /\ h.values \in [Slots -> Counts]
           /\ \A i \in Slots : NextSlot(i) \in Slots /\ PreviousSlot(i) \in Slots /\ Rank(h, i) \in Slots
           /\ \A i \in Slots : Rank(h, i) = 0 <=> i = h.idx
           /\ \A i, j \in Slots : NextSlot(i) = NextSlot(j) => i = j
           /\ \A i, j \in Slots : Rank(h, i) = Rank(h, j) => i = j
           /\ \A i \in Slots : (i + 1) % Depth = NextSlot(i) /\ (i - 1) % Depth = PreviousSlot(i)
<1>1. Depth \in Nat /\ Depth >= 3 /\ Depth > 0
  BY Bounds
<1>2. h.idx \in Slots /\ h.size \in 0 .. Depth /\ h.values \in [Slots -> Counts]
  BY DEF Histories
<1>3. \A i \in Slots : NextSlot(i) \in Slots /\ PreviousSlot(i) \in Slots /\ Rank(h, i) \in Slots
  BY <1>1, <1>2 DEF Slots, NextSlot, PreviousSlot, Rank
<1>4. \A i \in Slots : Rank(h, i) = 0 <=> i = h.idx
  BY <1>1, <1>2 DEF Slots, Rank
<1>5. \A i, j \in Slots : NextSlot(i) = NextSlot(j) => i = j
  BY <1>1 DEF Slots, NextSlot
<1>6. ASSUME NEW i \in Slots PROVE (i + 1) % Depth = NextSlot(i) /\ (i - 1) % Depth = PreviousSlot(i)
  BY <1>1 DEF Slots, NextSlot, PreviousSlot
<1>7. \A i, j \in Slots : Rank(h, i) = Rank(h, j) => i = j
  BY <1>1, <1>2 DEF Slots, Rank
<1> QED
  BY <1>2, <1>3, <1>4, <1>5, <1>6, <1>7

\* A history with one more value: the ranks of the others rise.
LEMMA RankRises ==
    ASSUME NEW h \in Histories, NEW k \in Histories, k.idx = NextSlot(h.idx)
    PROVE  /\ Rank(k, k.idx) = 0
           /\ \A i \in Slots \ {k.idx} : Rank(k, i) = Rank(h, i) + 1
           /\ Rank(h, k.idx) = Depth - 1
<1>1. Depth \in Nat /\ Depth >= 3
  BY Bounds
<1>2. h.idx \in Slots /\ k.idx \in Slots
  BY SlotFacts
<1> QED
  BY <1>1, <1>2 DEF Slots, NextSlot, Rank

\* As the counter and the phase move, the ages do.
LEMMA DatedTick ==
    ASSUME NEW h \in Histories, NEW t \in Counts, NEW ph \in 0 .. Second - 1, NEW age, NEW fake, NEW c,
           Dated(h, c, t, ph, age, fake)
    PROVE  Dated(h, c, (t + 1) % Turn, (ph + 1) % Second, [i \in Slots |-> age[i] + 1], fake)
<1> DEFINE older == [i \in Slots |-> age[i] + 1]
           u == (t + 1) % Turn
           p == (ph + 1) % Second
<1>1. age \in [Slots -> Nat] /\ older \in [Slots -> Nat] /\ \A i \in Slots : older[i] = age[i] + 1
  BY DEF Dated
<1>2. h.idx \in Slots /\ t \in Int /\ ph \in Int /\ Second \in Nat /\ Second > 0
  BY Bounds, SlotFacts DEF Counts
<1> HIDE DEF older, u, p
<1>3. ASSUME NEW i \in Slots \ fake, Rank(h, i) < c
      PROVE  /\ h.values[i] = Since(u, older[i])
             /\ older[i] % Second = p
             /\ older[i] >= older[h.idx] + Rank(h, i) * Second
             /\ older[i] <= older[h.idx] + Rank(h, i) * Gap
             /\ i # h.idx => older[i] >= older[NextSlot(i)] + Second
  <2>1. /\ h.values[i] = Since(t, age[i])
        /\ age[i] % Second = ph
        /\ age[i] >= age[h.idx] + Rank(h, i) * Second
        /\ age[i] <= age[h.idx] + Rank(h, i) * Gap
        /\ i # h.idx => age[i] >= age[NextSlot(i)] + Second
    BY <1>3 DEF Dated
  <2>2. h.values[i] = Since(u, older[i])
    <3>1. Since((t + 1) % Turn, age[i] + 1) = Since(t, age[i])
      BY <1>1, <1>2, SinceTick
    <3> QED
      BY <1>1, <2>1, <3>1 DEF u
  <2>3. older[i] % Second = p
    <3>1. ((age[i] % Second) + 1) % Second = (age[i] + 1) % Second
      <4>1. age[i] \in Int /\ 1 \in Int
        BY <1>1
      <4> QED
        BY <1>2, <4>1, ModAdd
    <3> QED
      BY <1>1, <2>1, <3>1 DEF p
  <2>4. NextSlot(i) \in Slots /\ Rank(h, i) \in Nat /\ Rank(h, i) * Second \in Int /\ Rank(h, i) * Gap \in Int
    <3>1. NextSlot(i) \in Slots /\ Rank(h, i) \in Slots
      BY SlotFacts
    <3>2. Gap \in Nat /\ Rank(h, i) \in Nat
      BY <3>1, Bounds DEF Slots
    <3> QED
      BY <1>2, <3>1, <3>2
  <2> QED
    BY <1>1, <1>2, <2>1, <2>2, <2>3, <2>4
<1>4. Dated(h, c, u, p, older, fake)
  BY <1>1, <1>3 DEF Dated
<1> QED
  BY <1>4 DEF older, u, p

\* How old a value of the history can be: less than a turn.
LEMMA AgeBound ==
    ASSUME NEW h \in Histories, NEW t, NEW ph, NEW age, NEW fake, NEW c, Dated(h, c, t, ph, age, fake),
           NEW i \in Slots \ fake, Rank(h, i) < c, age[h.idx] < Gap
    PROVE  age[i] \in Nat /\ age[i] < Turn
<1>1. /\ age[i] \in Nat /\ age[h.idx] \in Nat /\ age[i] <= age[h.idx] + Rank(h, i) * Gap
  BY SlotFacts DEF Dated
<1>2. Rank(h, i) \in Nat /\ Rank(h, i) <= Depth - 1 /\ Depth \in Nat /\ Depth >= 3
  <2>1. Rank(h, i) \in Slots
    BY SlotFacts
  <2>2. Depth \in Nat /\ Depth >= 3
    BY Bounds
  <2> QED
    BY <2>1, <2>2 DEF Slots
<1>3. Gap \in Nat /\ Gap >= Second /\ Second \in Nat /\ Second > 0 /\ Turn \in Nat
      /\ Depth * Gap < Turn
  BY Bounds
<1>4. Rank(h, i) * Gap \in Nat /\ (Depth - 1) * Gap \in Nat /\ Rank(h, i) * Gap <= (Depth - 1) * Gap
      /\ Depth * Gap = (Depth - 1) * Gap + Gap
  <2> DEFINE r == Rank(h, i)
             g == Gap
             d == Depth
  <2>1. r \in Nat /\ r <= d - 1 /\ d \in Nat /\ d >= 3 /\ g \in Nat
    BY <1>2, <1>3
  <2> HIDE DEF r, g, d
  <2>2. r * g \in Nat /\ (d - 1) * g \in Nat /\ r * g <= (d - 1) * g /\ d * g = (d - 1) * g + g
    BY <2>1
  <2> QED
    BY <2>2 DEF r, g, d
<1>5. age[i] < Turn
  BY <1>1, <1>3, <1>4
<1> QED
  BY <1>1, <1>5

\* How many values are known after the register was read.
Counted(h, c, reg) == IF SavedLast(h, reg) \/ c = Depth THEN c ELSE c + 1

\* What is known of the history k after h was brought up to date.
KeptUp(k, d, h, reg, t, ph, missed, pulse) ==
  /\ k \in Histories /\ k.size > 0 /\ k.size >= h.size /\ k.values[k.idx] = reg
  /\ ~(missed >= 0) => k.size <= 1 /\ k.idx = 0
  /\ d \in 0 .. Depth /\ d <= k.size
  /\ \E older \in [Slots -> Nat], untrue \in SUBSET {0} :
       /\ Dated(k, d, t, ph, older, untrue)
       /\ Recent(k, d, older, untrue, missed, pulse, 0)
       /\ missed >= 0 /\ d > 0 => k.idx \notin untrue /\ older[k.idx] = pulse

\* timestamp_pps_history_save keeps what is known of the history: the register holds what was read
\* before (and, if that was read before there was a pulse, it is one now), or the next pulse.
LEMMA SavedDated ==
    ASSUME NEW h \in Histories, NEW t \in Counts, NEW ph, NEW age, NEW fake,
           NEW c \in 0 .. Depth, c <= h.size, Dated(h, c, t, ph, age, fake),
           NEW missed \in Int, NEW pulse \in Int, NEW slack \in 0 .. Stall, Recent(h, c, age, fake, missed, pulse, slack),
           NEW reg \in Counts, ~(missed >= 0) => reg = 0 /\ h.size <= 1 /\ h.idx = 0 /\ h.values[0] = 0,
           missed >= 0 => /\ reg = Since(t, pulse) /\ pulse % Second = ph
                   /\ pulse \in 0 .. (Outage + 1) * Second - 1,
           h.size = 0 => h.idx = 0
    PROVE  KeptUp(Saved(h, reg), Counted(h, c, reg), h, reg, t, ph, missed, pulse)
<1> DEFINE k == Saved(h, reg)
           d == Counted(h, c, reg)
           B == (Outage + 1) * Second
<1>1. /\ Depth \in Nat /\ Depth >= 3 /\ Second \in Nat /\ Second > 0 /\ Turn \in Nat /\ Turn > 0
      /\ B \in Nat /\ Stall \in Nat /\ Gap = B + Stall /\ Gap \in Nat
      /\ 0 \in Slots
  BY Bounds DEF Slots
<1>2. h.idx \in Slots /\ h.size \in 0 .. Depth /\ h.values \in [Slots -> Counts]
      /\ NextSlot(h.idx) \in Slots /\ (h.idx + 1) % Depth = NextSlot(h.idx) /\ Rank(h, h.idx) = 0
  BY SlotFacts
<1>3. age \in [Slots -> Nat] /\ fake \in SUBSET {0}
  BY DEF Dated
<1>4. B < Turn /\ Gap < Turn
  <2>1. Depth * Gap >= Gap
    <3> DEFINE m == Depth
               g == Gap
    <3>1. m \in Nat /\ m >= 1 /\ g \in Nat
      BY <1>1
    <3> HIDE DEF m, g
    <3>2. m * g >= g
      BY <3>1
    <3> QED
      BY <3>2 DEF m, g
  <2> QED
    BY <1>1, <2>1, Bounds
<1> HIDE DEF B
<1>9. k = Saved(h, reg) /\ d = Counted(h, c, reg)
  OBVIOUS
<1> SUFFICES KeptUp(k, d, h, reg, t, ph, missed, pulse)
  OBVIOUS
<1> HIDE DEF k, d
<1>8. ASSUME h.idx \in fake PROVE h.idx = 0 /\ c = 1
  <2>1. h.idx = 0
    BY <1>3, <1>8
  <2>2. Rank(h, 0) = c - 1
    BY <1>8, <2>1 DEF Dated
  <2>3. c - 1 = 0 /\ c \in Int
    BY <1>1, <1>2, <2>1, <2>2
  <2> QED
    BY <2>1, <2>3
\* The newest is that of the register, or older by a second at the least.
<1>5. ASSUME missed >= 0, c > 0, h.idx \notin fake
      PROVE  /\ age[h.idx] < Gap
             /\ h.values[h.idx] = reg => age[h.idx] = pulse
             /\ h.values[h.idx] # reg => age[h.idx] >= pulse + Second
  <2>1. pulse <= age[h.idx] /\ age[h.idx] < B + slack
    BY <1>5 DEF Recent, B
  <2>2. age[h.idx] \in Nat /\ age[h.idx] < Gap /\ pulse \in Nat
    BY <1>1, <1>2, <1>3, <1>5, <2>1
  <2>3. h.values[h.idx] = Since(t, age[h.idx]) /\ age[h.idx] % Second = ph
    BY <1>2, <1>5 DEF Dated
  <2>4. ASSUME h.values[h.idx] = reg PROVE age[h.idx] = pulse
    <3>1. Since(t, pulse) = Since(t, age[h.idx])
      BY <1>5, <2>3, <2>4
    <3>2. pulse \in 0 .. Turn - 1 /\ age[h.idx] \in 0 .. Turn - 1 /\ t \in Int
      BY <1>1, <1>4, <2>1, <2>2 DEF Counts
    <3> QED
      BY <2>1, <3>1, <3>2, SinceInjective
  <2>5. ASSUME h.values[h.idx] # reg PROVE age[h.idx] >= pulse + Second
    <3>1. age[h.idx] # pulse
      BY <1>5, <2>3, <2>5
    <3>2. age[h.idx] > pulse /\ age[h.idx] \in Int /\ pulse \in Int
      BY <2>1, <2>2, <3>1
    <3>3. age[h.idx] % Second = pulse % Second
      BY <1>5, <2>3
    <3> QED
      BY <1>1, <3>2, <3>3, ModApart
  <2> QED
    BY <2>2, <2>4, <2>5
<1>6. CASE SavedLast(h, reg)
  <2>1. k = h /\ d = c /\ h.values[h.idx] = reg /\ h.size > 0
    BY <1>2, <1>6, <1>9 DEF Saved, SavedLast, Counted
  <2>5. CASE c = 0
    <3>1. Dated(h, c, t, ph, age, {})
      <4>1. \A i \in Slots : ~(Rank(h, i) < c)
        <5>1. \A i \in Slots : Rank(h, i) \in Slots
          BY SlotFacts
        <5> QED
          BY <1>1, <2>5, <5>1 DEF Slots
      <4> QED
        BY <1>3, <4>1 DEF Dated
    <3>2. Recent(h, c, age, {}, missed, pulse, 0)
      BY <2>5 DEF Recent
    <3>3. {} \in SUBSET {0} /\ ~(c > 0)
      BY <2>5
    <3> QED
      BY <1>2, <1>3, <2>1, <3>1, <3>2, <3>3 DEF KeptUp
  <2>2. CASE c > 0 /\ h.idx \notin fake
    <3>1. missed >= 0 /\ pulse <= age[h.idx]
      BY <2>2 DEF Recent
    <3>2. age[h.idx] = pulse
      BY <1>5, <2>1, <2>2, <3>1
    <3>3. Recent(h, c, age, fake, missed, pulse, 0)
      <4>1. pulse < B + 0
        BY <1>1, <3>1 DEF B
      <4> QED
        BY <3>1, <3>2, <4>1 DEF Recent, B
    <3> QED
      BY <1>2, <1>3, <2>1, <2>2, <3>1, <3>2, <3>3 DEF KeptUp
  <2>3. CASE h.idx \in fake /\ ~(missed >= 0)
    <3>1. Recent(h, c, age, fake, missed, pulse, 0)
      BY <2>3 DEF Recent
    <3> QED
      BY <1>2, <1>3, <2>1, <2>3, <3>1 DEF KeptUp
  <2>4. CASE h.idx \in fake /\ missed >= 0
    <3>1. h.idx = 0 /\ c = 1
      BY <1>8, <2>4
    <3> DEFINE older == [i \in Slots |-> pulse]
    <3>2. older \in [Slots -> Nat] /\ {} \in SUBSET {0} /\ \A i \in Slots : older[i] = pulse
      BY <1>1, <2>4
    <3>3. ASSUME NEW i \in Slots, Rank(h, i) < c PROVE i = h.idx
      <4>1. Rank(h, i) \in Slots /\ (Rank(h, i) = 0 <=> i = h.idx)
        BY SlotFacts
      <4>2. Rank(h, i) = 0
        BY <1>1, <3>1, <3>3, <4>1 DEF Slots
      <4> QED
        BY <4>1, <4>2
    <3> HIDE DEF older
    <3>4. Dated(h, c, t, ph, older, {})
      <4> SUFFICES ASSUME NEW i \in Slots, Rank(h, i) < c
                   PROVE  /\ h.values[i] = Since(t, older[i])
                          /\ older[i] % Second = ph
                          /\ older[i] >= older[h.idx] + Rank(h, i) * Second
                          /\ older[i] <= older[h.idx] + Rank(h, i) * Gap
                          /\ i = h.idx
        BY <3>2 DEF Dated
      <4>1. i = h.idx /\ Rank(h, i) = 0
        BY <1>2, <3>3
      <4> QED
        BY <1>1, <2>1, <2>4, <3>2, <4>1
    <3>5. Recent(h, c, older, {}, missed, pulse, 0)
      BY <1>1, <1>2, <2>4, <3>2 DEF Recent, B
    <3>6. h.idx \notin {} /\ older[h.idx] = pulse
      BY <1>2, <3>2
    <3>7. \E o \in [Slots -> Nat], un \in SUBSET {0} :
            /\ Dated(h, c, t, ph, o, un)
            /\ Recent(h, c, o, un, missed, pulse, 0)
            /\ missed >= 0 /\ c > 0 => h.idx \notin un /\ o[h.idx] = pulse
      BY <3>2, <3>4, <3>5, <3>6
    <3> QED
      BY <1>2, <2>1, <2>4, <3>7 DEF KeptUp
  <2> QED
    BY <1>2, <2>2, <2>3, <2>4, <2>5
<1>7. CASE ~SavedLast(h, reg)
  <2> DEFINE n == k.idx
  <2>1. /\ k = [values |-> [h.values EXCEPT ![n] = reg], idx |-> n,
                size |-> IF h.size < Depth THEN h.size + 1 ELSE h.size]
        /\ n = IF h.size > 0 THEN NextSlot(h.idx) ELSE h.idx
        /\ d = IF c = Depth THEN c ELSE c + 1
    BY <1>2, <1>7, <1>9 DEF Saved, Counted
  <2>0. h.size > 0 => reg # h.values[h.idx]
    BY <1>7 DEF SavedLast
  <2>2. n \in Slots /\ k \in Histories /\ k.size > 0 /\ k.size >= h.size /\ k.size <= h.size + 1
        /\ k.values = [h.values EXCEPT ![n] = reg] /\ k.values[n] = reg
        /\ k.size = IF h.size < Depth THEN h.size + 1 ELSE h.size
    BY <1>1, <1>2, <2>1 DEF Histories
  <2>5. d \in 1 .. Depth /\ d <= k.size /\ d <= c + 1
    BY <1>1, <1>2, <2>1, <2>2
  <2>3. CASE ~(missed >= 0)
    <3>1. h.size = 0
      <4> SUFFICES ASSUME h.size # 0 PROVE FALSE
        OBVIOUS
      <4>1. h.size > 0 /\ h.values[h.idx] = reg
        BY <1>2, <2>3
      <4> QED
        BY <2>0, <4>1
    <3>2. n = 0 /\ k.size = 1 /\ k.values[0] = 0 /\ d = 1
      BY <1>1, <2>1, <2>2, <2>3, <2>5, <3>1
    <3>3. ASSUME NEW i \in Slots \ {0} PROVE ~(Rank(k, i) < d)
      <4>1. Rank(k, i) \in Slots /\ Rank(k, i) # 0
        BY <2>2, <3>2, SlotFacts
      <4> QED
        BY <3>2, <4>1 DEF Slots
    <3>4. Rank(k, 0) = 0
      BY <1>1, <2>2, <3>2, SlotFacts
    <3>5. Dated(k, d, t, ph, age, {0})
      BY <1>3, <3>2, <3>3, <3>4 DEF Dated
    <3>6. Recent(k, d, age, {0}, missed, pulse, 0)
      BY <3>2 DEF Recent
    <3> QED
      BY <1>1, <1>3, <2>2, <2>3, <2>5, <3>2, <3>5, <3>6 DEF KeptUp
  <2>4. CASE missed >= 0
    <3> DEFINE older == [age EXCEPT ![n] = pulse]
               untrue == fake \ {n}
    <3>1. /\ older \in [Slots -> Nat] /\ untrue \in SUBSET {0} /\ older[n] = pulse
          /\ \A i \in Slots \ {n} : older[i] = age[i]
      <4>1. age \in [Slots -> Nat] /\ pulse \in Nat /\ n \in Slots /\ fake \subseteq {0}
        BY <1>1, <1>3, <2>2, <2>4
      <4> QED
        BY <4>1
    <3>2. c = 0 => fake = {}
      BY <1>3 DEF Dated
    <3>3. ASSUME h.size > 0
          PROVE  /\ Rank(k, n) = 0 /\ Rank(h, n) = Depth - 1
                 /\ \A i \in Slots \ {n} : Rank(k, i) = Rank(h, i) + 1
      <4>1. k.idx = NextSlot(h.idx)
        BY <2>1, <3>3
      <4> QED
        BY <2>2, <4>1, RankRises
    <3>4. Rank(k, n) = 0
      BY <2>2, SlotFacts
    <3> HIDE DEF older, untrue
    <3>5. ASSUME 0 \in untrue PROVE d > 0 /\ Rank(k, 0) = d - 1 /\ k.values[0] = 0
      <4>1. 0 \in fake /\ 0 # n /\ h.size > 0 /\ c > 0
        BY <1>2, <3>2, <3>5 DEF untrue
      <4>2. Rank(h, 0) = c - 1 /\ h.values[0] = 0
        BY <4>1 DEF Dated
      <4>3. c < Depth
        <5>0. c \in Int /\ c <= Depth /\ Depth \in Int
          BY <1>1, <1>2
        <5> SUFFICES ASSUME c = Depth PROVE FALSE
          BY <5>0
        <5>1. Rank(h, 0) = Rank(h, n)
          BY <3>3, <4>1, <4>2
        <5>2. 0 = n
          BY <1>1, <2>2, <5>1, SlotFacts, SMTT(30)
        <5> QED
          BY <4>1, <5>2
      <4>4. Rank(k, 0) = Rank(h, 0) + 1 /\ k.values[0] = h.values[0]
        BY <1>1, <1>2, <2>2, <3>3, <4>1
      <4> QED
        BY <1>1, <2>1, <2>5, <4>2, <4>3, <4>4
    <3>6. ASSUME NEW i \in Slots \ untrue, Rank(k, i) < d
          PROVE  /\ k.values[i] = Since(t, older[i])
                 /\ older[i] % Second = ph
                 /\ older[i] >= older[n] + Rank(k, i) * Second
                 /\ older[i] <= older[n] + Rank(k, i) * Gap
                 /\ i # n => older[i] >= older[NextSlot(i)] + Second
      <4>1. CASE i = n
        BY <1>1, <2>2, <2>4, <3>1, <3>4, <4>1
      <4>2. CASE i # n
        <5>1. c > 0 /\ h.size > 0
          <6> SUFFICES ASSUME c = 0 PROVE FALSE
            BY <1>2
          <6>1. Rank(k, i) \in Slots /\ Rank(k, i) # 0
            BY <2>2, <4>2, SlotFacts
          <6> QED
            BY <1>1, <2>5, <3>6, <6>1 DEF Slots
        <5>2. i \notin fake /\ Rank(k, i) = Rank(h, i) + 1 /\ Rank(h, i) \in Nat
          <6>1. i \notin fake
            BY <3>6, <4>2 DEF untrue
          <6>2. Rank(k, i) = Rank(h, i) + 1
            BY <3>3, <4>2, <5>1
          <6>3. Rank(h, i) \in Slots
            BY SlotFacts
          <6> QED
            BY <6>1, <6>2, <6>3 DEF Slots
        <5>3. Rank(h, i) < c
          BY <1>1, <2>5, <3>6, <5>2
        <5>4. /\ h.values[i] = Since(t, age[i])
              /\ age[i] % Second = ph
              /\ age[i] >= age[h.idx] + Rank(h, i) * Second
              /\ age[i] <= age[h.idx] + Rank(h, i) * Gap
              /\ i # h.idx => age[i] >= age[NextSlot(i)] + Second
          BY <5>2, <5>3 DEF Dated
        <5>5. h.idx \notin fake
          <6> SUFFICES ASSUME h.idx \in fake PROVE FALSE
            OBVIOUS
          <6>1. h.idx = 0 /\ c = 1
            BY <1>8
          <6>2. i = h.idx
            BY <5>2, <5>3, <6>1, SlotFacts
          <6> QED
            BY <5>2, <6>2
        <5>6. /\ age[h.idx] < Gap /\ age[h.idx] >= pulse + Second
          BY <1>5, <2>0, <2>4, <5>1, <5>5
        <5>7. older[i] = age[i] /\ k.values[i] = h.values[i] /\ age[i] \in Nat /\ age[h.idx] \in Nat
              /\ pulse \in Nat
          BY <1>2, <1>3, <2>2, <2>4, <3>1, <4>2
        <5>8. Rank(k, i) * Second = Rank(h, i) * Second + Second /\ Rank(k, i) * Gap = Rank(h, i) * Gap + Gap
              /\ Rank(h, i) * Second \in Int /\ Rank(h, i) * Gap \in Int
          <6> DEFINE r == Rank(h, i)
                     g == Gap
          <6>1. r \in Nat /\ g \in Nat /\ Rank(k, i) = r + 1
            BY <1>1, <5>2
          <6> HIDE DEF r, g
          <6>2. (r + 1) * Second = r * Second + Second /\ (r + 1) * g = r * g + g /\ r * Second \in Int /\ r * g \in Int
            BY <1>1, <6>1
          <6> QED
            BY <6>1, <6>2 DEF r, g
        <5>9. older[i] >= older[NextSlot(i)] + Second
          <6>1. CASE i = h.idx
            <7>1. NextSlot(i) = n
              BY <2>1, <5>1, <6>1
            <7> QED
              BY <3>1, <5>6, <5>7, <6>1, <7>1
          <6>2. CASE i # h.idx
            <7>1. NextSlot(i) # n /\ NextSlot(i) \in Slots
              BY <1>2, <2>1, <5>1, <6>2, SlotFacts
            <7> QED
              BY <3>1, <5>4, <5>7, <6>2, <7>1
          <6> QED
            BY <6>1, <6>2
        <5>10. older[i] >= older[n] + Rank(k, i) * Second
          BY <1>1, <3>1, <5>4, <5>6, <5>7, <5>8
        <5>11. older[i] <= older[n] + Rank(k, i) * Gap
          BY <1>1, <3>1, <5>4, <5>6, <5>7, <5>8
        <5> QED
          BY <5>4, <5>7, <5>9, <5>10, <5>11
      <4> QED
        BY <4>1, <4>2
    <3>7. Dated(k, d, t, ph, older, untrue)
      BY <2>2, <3>1, <3>5, <3>6 DEF Dated
    <3>8. n \notin untrue
      BY DEF untrue
    <3>9. Recent(k, d, older, untrue, missed, pulse, 0)
      BY <1>1, <2>4, <3>1 DEF Recent, B
    <3> QED
      BY <1>1, <2>2, <2>4, <2>5, <3>1, <3>7, <3>8, <3>9 DEF KeptUp
  <2> QED
    BY <2>3, <2>4
<1> QED
  BY <1>6, <1>7

-----------------------------------------------------------------------------
(* Fine timestamps.                                                          *)

\* A division that comes out even.
LEMMA DivExact ==
    ASSUME NEW M \in Nat, M > 0, NEW a \in Int
    PROVE  (a * M) \div M = a
OBVIOUS

\* A lower bound of a quotient.
LEMMA DivAtLeast ==
    ASSUME NEW M \in Nat, M > 0, NEW a \in Nat, NEW b \in Nat, b >= M * a
    PROVE  b \div M >= a
OBVIOUS

\* Two pulses whose distance is sane are a second apart.
LEMMA OneSecond ==
    ASSUME NEW a \in Nat, NEW b \in Nat, a % Second = b % Second, a >= b + Second, Sane(a - b)
    PROVE  a - b = Second
<1>1. Second \in Nat /\ Second > 0
  BY Bounds
<1>2. PICK q \in Int : a = b + Second * q
  <2>1. a \in Int /\ b \in Int
    OBVIOUS
  <2>2. \E q \in Int : a = b + Second * q
    BY <1>1, <2>1, ModDiff
  <2> QED
    BY <2>2
<1>3. Second * q \in Int /\ a - b = Second * q
  BY <1>1, <1>2
<1>4. q >= 1
  BY <1>1, <1>3
<1>5. 4 * (a - b) <= 5 * Second
  BY DEF Sane
<1>6. ASSUME q >= 2 PROVE FALSE
  <2>1. Second * q >= 2 * Second
    BY <1>1, <1>6
  <2> QED
    BY <1>1, <1>3, <1>5, <2>1
<1>7. q = 1
  BY <1>4, <1>6
<1> QED
  BY <1>1, <1>3, <1>7

\* The fine timestamp from a pulse, when the pulses next to each other are a second apart.
LEMMA FineOfSecond ==
    ASSUME NEW count \in Counts, NEW ref \in Counts, Fine(count, ref, Second) # <<>>
    PROVE  Fine(count, ref, Second)[1] = Since(count, ref)
<1>1. Second \in Nat /\ Second > 0 /\ Turn \in Nat
  BY Bounds
<1>2. Since(count, ref) \in Int
  BY <1>1, SinceType DEF Counts
<1>3. (Since(count, ref) * Second) \div Second = Since(count, ref)
  BY <1>1, <1>2, DivExact
<1> QED
  BY <1>3 DEF Fine

\* A packet and a pulse, by their ages.
LEMMA PacketAge ==
    ASSUME NEW t \in Counts, NEW a \in 0 .. Wait, NEW b \in 0 .. Turn - 1,
           Since(Since(t, a), Since(t, b)) <= Second
    PROVE  b >= a /\ Since(Since(t, a), Since(t, b)) = b - a
<1>1. Turn \in Nat /\ Wait \in Nat /\ Second \in Nat /\ t \in Int /\ Turn - Wait > Second
  <2>1. (Depth - 2) * Second <= (Depth - 2) * Gap /\ Depth * Gap = (Depth - 2) * Gap + 2 * Gap
        /\ (Depth - 2) * Second \in Nat /\ (Depth - 2) * Gap \in Nat
    <3> DEFINE d == Depth
               g == Gap
    <3>1. d \in Nat /\ d >= 3 /\ g \in Nat /\ g >= Second /\ Second \in Nat
      BY Bounds
    <3> HIDE DEF d, g
    <3>2. (d - 2) * Second <= (d - 2) * g /\ d * g = (d - 2) * g + 2 * g
          /\ (d - 2) * Second \in Nat /\ (d - 2) * g \in Nat
      BY <3>1
    <3> QED
      BY <3>2 DEF d, g
  <2> QED
    BY <2>1, Bounds DEF Counts
<1>2. CASE b - a >= 0
  <2>1. b - a \in 0 .. Turn - 1
    BY <1>1, <1>2
  <2> QED
    BY <1>1, <1>2, <2>1, SinceEarlier
<1>3. CASE b - a < 0
  <2>1. b - a >= -Turn
    BY <1>1
  <2>2. Since(Since(t, a), Since(t, b)) = b - a + Turn
    BY <1>1, <1>3, <2>1, SinceLater
  <2> QED
    BY <1>1, <2>2
<1> QED
  BY <1>1, <1>2, <1>3

\* How far into the second the packet came.
LEMMA PacketPhase ==
    ASSUME NEW a \in Nat, NEW b \in Nat, NEW p \in 0 .. Second - 1, b % Second = (p + a) % Second
    PROVE  (b - a) % Second = p
<1>1. Second \in Nat /\ Second > 0 /\ p + a \in Int
  BY Bounds
<1>2. PICK q \in Int : b = (p + a) + Second * q
  <2>1. PICK c \in Int : c = p + a
    BY <1>1
  <2>2. b % Second = c % Second /\ b \in Int
    BY <2>1
  <2>3. \E q \in Int : b = c + Second * q
    BY <1>1, <2>2, ModDiff
  <2> QED
    BY <2>1, <2>3
<1>3. b - a = p + Second * q
  BY <1>1, <1>2
<1>4. (b - a) % Second = p % Second
  <2>1. b - a \in Int /\ p \in Int
    OBVIOUS
  <2> QED
    BY <1>1, <1>3, <2>1, ModSame
<1>5. p % Second = p
  BY <1>1, ModSmall
<1> QED
  BY <1>4, <1>5

\* A fine timestamp from a pulse and the one that follows or precedes it, by their ages.
LEMMA FineBetween ==
    ASSUME NEW t \in Counts, NEW a \in 0 .. Wait, NEW b \in 0 .. Turn - 1, NEW p \in 0 .. Second - 1,
           NEW first \in 0 .. Turn - 1, NEW second \in 0 .. Turn - 1, b \in {first, second},
           NEW ph, (p + a) % Second = ph, first % Second = ph, second % Second = ph, first >= second + Second,
           Since(Since(t, a), Since(t, b)) <= Second,
           NEW f, f = Fine(Since(t, a), Since(t, b), Since(Since(t, second), Since(t, first))), f # <<>>
    PROVE  f[1] % Second = p
<1>1. Second \in Nat /\ Second > 0 /\ Turn \in Nat /\ t \in Int
  BY Bounds DEF Counts
<1>2. b >= a /\ Since(Since(t, a), Since(t, b)) = b - a
  BY PacketAge
<1>3. Since(Since(t, second), Since(t, first)) = first - second
  <2>1. first - second \in 0 .. Turn - 1
    BY <1>1
  <2> QED
    BY <1>1, <2>1, SinceEarlier
<1>4. f = Fine(Since(t, a), Since(t, b), first - second)
  BY <1>3
<1>5. Sane(first - second)
  BY <1>4 DEF Fine
<1>6. first - second = Second
  BY <1>5, OneSecond
<1>7. f = Fine(Since(t, a), Since(t, b), Second)
  BY <1>4, <1>6
<1>8. Since(t, a) \in Counts /\ Since(t, b) \in Counts
  BY <1>1, SinceType
<1>9. f[1] = b - a
  <2>1. Fine(Since(t, a), Since(t, b), Second) # <<>>
    BY <1>7
  <2>2. Fine(Since(t, a), Since(t, b), Second)[1] = Since(Since(t, a), Since(t, b))
    BY <1>8, <2>1, FineOfSecond
  <2> QED
    BY <1>2, <1>7, <2>2
<1>10. (b - a) % Second = p
  <2>1. b % Second = (p + a) % Second
    OBVIOUS
  <2> QED
    BY <2>1, PacketPhase
<1> QED
  BY <1>9, <1>10

\* A value b counts old, by as much as v more than the newest of n counts, lies well
\* within a turn of a packet of a counts.
LEMMA YoungEnough ==
    ASSUME NEW a \in Nat, NEW n \in Nat, NEW v \in Nat, NEW g \in Nat, NEW M \in Nat, NEW s \in Nat,
           NEW b \in 0 .. M - 1, b >= a, b <= n + v, n < g, v + 2 * g < M, g >= s, n >= a => g >= 2 * s
    PROVE  b - a \in 0 .. M - 1 /\ 4 * (b - a) + 5 * s < 4 * M
OBVIOUS

\* A value read before the first pulse is taken for a pulse only by a packet that came
\* with the first one, and then makes no difference.
LEMMA FineFromFake ==
    ASSUME NEW count \in Counts, NEW value \in Counts, NEW x \in Nat, Since(count, value) = x,
           4 * x + 5 * Second < 4 * Turn, Since(count, 0) < Second,
           NEW f, f = Fine(count, 0, Since(value, 0)), f # <<>>
    PROVE  x = 0 /\ f[1] % Second = 0
<1>1. Second \in Nat /\ Second > 0 /\ Turn \in Nat /\ Turn > 0 /\ count \in 0 .. Turn - 1 /\ value \in 0 .. Turn - 1
  BY Bounds DEF Counts
<1>2. Since(count, 0) = count /\ Since(value, 0) = value
  <2>1. count - 0 = count /\ value - 0 = value
    BY <1>1
  <2>2. count % Turn = count /\ value % Turn = value
    BY <1>1, ModSmall
  <2> QED
    BY <2>1, <2>2 DEF Since
<1> DEFINE ftime == (count * Second) \div value
<1>3. Sane(value) /\ ftime <= Second /\ f[1] = ftime
  BY <1>2 DEF Fine
<1>4. 5 * Second <= 6 * value /\ 4 * value <= 5 * Second /\ value > 0
  BY <1>1, <1>3 DEF Sane
<1>5. x = IF count >= value THEN count - value ELSE count - value + Turn
  <2>1. CASE count >= value
    <3>1. count - value \in 0 .. Turn - 1
      BY <1>1, <2>1
    <3>2. (count - value) % Turn = count - value
      BY <1>1, <3>1, ModSmall
    <3> QED
      BY <2>1, <3>2 DEF Since
  <2>2. CASE count < value
    <3>1. count - value + Turn \in 0 .. Turn - 1 /\ count - value \in Int
      BY <1>1, <2>2
    <3>2. count - value = Turn * (-1) + (count - value + Turn)
      BY <1>1
    <3>3. (count - value) % Turn = count - value + Turn
      BY <1>1, <3>1, <3>2, ModUnique
    <3> QED
      BY <1>1, <2>2, <3>3 DEF Since
  <2> QED
    BY <1>1, <2>1, <2>2
<1>6. count >= value /\ x = count - value
  BY <1>1, <1>4, <1>5
<1>7. x = 0
  <2> SUFFICES ASSUME x >= 1 PROVE FALSE
    OBVIOUS
  <2>1. value + 1 <= count /\ value < Second
    BY <1>1, <1>2, <1>6
  <2>2. count * Second \in Nat /\ count * Second >= (value + 1) * Second
    BY <1>1, <2>1
  <2>3. (value + 1) * Second = value * Second + Second /\ value * (Second + 1) = value * Second + value
        /\ value * Second \in Nat
    BY <1>1
  <2>4. count * Second >= value * (Second + 1)
    BY <1>1, <2>1, <2>2, <2>3
  <2>5. value \in Nat /\ Second + 1 \in Nat
    BY <1>1
  <2>6. ftime >= Second + 1
    BY <1>4, <2>2, <2>4, <2>5, DivAtLeast
  <2>7. ftime \in Int
    BY <1>1, <1>4, <2>2
  <2> QED
    BY <1>1, <1>3, <2>6, <2>7
<1>8. ftime = Second
  <2>1. count = value /\ value \in Nat
    BY <1>1, <1>6, <1>7
  <2>2. value * Second = Second * value
    BY <1>1
  <2>3. (Second * value) \div value = Second
    BY <1>1, <1>4, <2>1, DivExact
  <2> QED
    BY <2>1, <2>2, <2>3
<1>9. Second % Second = 0
  <2>1. Second = Second * 1 + 0 /\ 0 \in 0 .. Second - 1
    BY <1>1
  <2> QED
    BY <1>1, <2>1, ModUnique
<1> QED
  BY <1>3, <1>7, <1>8, <1>9

\* precise_timestamp_calculate with a full history that is up to date.
LEMMA FineRight ==
    ASSUME NEW h \in Histories, h.size = Depth, NEW t \in Counts, NEW ph, NEW age, NEW fake,
           Dated(h, Depth, t, ph, age, fake), h.idx \notin fake, age[h.idx] < (Outage + 1) * Second,
           NEW a \in 0 .. Wait, NEW p \in 0 .. Second - 1, (p + a) % Second = ph,
           NEW f, f = PreciseTimestampCalculate(h, Since(t, a), h.values[h.idx]), f # <<>>
    PROVE  f[1] % Second = p
<1> DEFINE count == Since(t, a)
           reg == h.values[h.idx]
<1>1. /\ Depth \in Nat /\ Depth >= 3 /\ Second \in Nat /\ Second > 0 /\ Turn \in Nat /\ Gap \in Nat
      /\ Wait \in Nat /\ Wait <= (Depth - 2) * Second /\ t \in Int
      /\ (Outage + 1) * Second \in Nat /\ Gap >= (Outage + 1) * Second
  BY Bounds DEF Counts
<1>10. Depth \in Nat /\ Depth >= 3
  BY <1>1
<1>9. age[h.idx] \in Nat /\ age[h.idx] < Gap
  BY <1>1, SlotFacts DEF Dated
<1>2. h.idx \in Slots /\ h.values \in [Slots -> Counts] /\ Rank(h, h.idx) = 0
      /\ \A i \in Slots : NextSlot(i) \in Slots /\ PreviousSlot(i) \in Slots /\ Rank(h, i) \in 0 .. Depth - 1
  BY SlotFacts DEF Slots
\* Every value but the fake one.
<1>3. ASSUME NEW i \in Slots \ fake
      PROVE  /\ h.values[i] = Since(t, age[i]) /\ age[i] % Second = ph
             /\ age[i] \in 0 .. Turn - 1
             /\ i # h.idx => age[i] >= age[NextSlot(i)] + Second
             /\ age[i] >= age[h.idx] + Rank(h, i) * Second
             /\ age[i] <= age[h.idx] + Rank(h, i) * Gap
  <2>1. Rank(h, i) < Depth
    BY <1>1, <1>2
  <2>2. age[i] \in Nat /\ age[i] < Turn
    BY <1>9, <2>1, AgeBound
  <2>3. age[i] \in 0 .. Turn - 1
    BY <1>1, <2>2
  <2> QED
    BY <2>1, <2>2, <2>3 DEF Dated
<1>4. ASSUME 0 \in fake PROVE h.idx = Depth - 1 /\ h.values[0] = 0 /\ Rank(h, 0) = Depth - 1
  <2>1. Rank(h, 0) = Depth - 1 /\ h.values[0] = 0
    BY <1>4 DEF Dated
  <2> QED
    <3>1. h.idx \in 0 .. Depth - 1
      BY <1>2 DEF Slots
    <3> QED
      BY <1>10, <2>1, <3>1 DEF Rank
<1>5. fake \subseteq {0}
  BY DEF Dated
<1>8. \A i \in Slots : Since(count, h.values[i]) \in Int
  <2>1. count \in Int
    <3>1. a \in Int
      BY <1>1
    <3> QED
      BY <1>1, <3>1, SinceInt
  <2>2. \A i \in Slots : h.values[i] \in Int
    BY <1>1, <1>2, SinceInt
  <2> HIDE DEF count
  <2> QED
    BY <2>1, <2>2, SinceInt
<1>6. CASE ~(Since(count, reg) > Second)
  <2> DEFINE prev == PreviousSlot(h.idx)
  <2>1. (h.idx - 1) % Depth = prev
    BY <1>2, SlotFacts
  <2>2. f = Fine(count, reg, Since(reg, h.values[prev]))
    BY <1>6, <2>1 DEF PreciseTimestampCalculate
  <2>3. prev \in Slots /\ NextSlot(prev) = h.idx /\ prev # h.idx
    <3>1. \A x \in Slots : /\ PreviousSlot(x) \in Slots /\ PreviousSlot(x) # x
                          /\ NextSlot(PreviousSlot(x)) = x
      BY <1>10 DEF PreviousSlot, NextSlot, Slots
    <3> QED
      BY <1>2, <3>1
  <2>4. prev \notin fake
    <3>1. h.idx \in 0 .. Depth - 1
      BY <1>2 DEF Slots
    <3>2. prev = 0 => h.idx # Depth - 1
      BY <1>10, <3>1 DEF PreviousSlot
    <3> QED
      BY <1>4, <1>5, <3>2
  <2> HIDE DEF prev
  <2>5. /\ h.values[prev] = Since(t, age[prev]) /\ age[prev] % Second = ph /\ age[prev] \in 0 .. Turn - 1
        /\ age[prev] >= age[h.idx] + Second
    BY <1>3, <2>3, <2>4
  <2>6. reg = Since(t, age[h.idx]) /\ age[h.idx] % Second = ph /\ age[h.idx] \in 0 .. Turn - 1
    BY <1>2, <1>3
  <2>7. f = Fine(Since(t, a), Since(t, age[h.idx]), Since(Since(t, age[h.idx]), Since(t, age[prev])))
    BY <2>2, <2>5, <2>6
  <2>8. Since(Since(t, a), Since(t, age[h.idx])) <= Second
    <3>1. Since(count, reg) \in Int /\ Second \in Nat
      BY <1>1, <1>2, <1>8
    <3> QED
      BY <1>6, <2>6, <3>1
  <2> QED
    BY <2>5, <2>6, <2>7, <2>8, FineBetween
<1>7. CASE Since(count, reg) > Second
  <2> DEFINE before == {i \in 0 .. h.size - 1 : Since(count, h.values[i]) < Second}
             i == CHOOSE x \in before : \A y \in before : x <= y
  <2>1. f = Rewound(h, count)
    BY <1>7 DEF PreciseTimestampCalculate
  <2>2. /\ before # {}
        /\ f = Fine(count, h.values[i], Since(h.values[(i + 1) % Depth], h.values[i]))
    BY <2>1 DEF Rewound
  <2>3. before \in SUBSET Nat
    BY <1>1
  <2>4. \E x \in before : \A y \in before : x <= y
    <3> HIDE DEF before
    <3> QED
      BY <2>2, <2>3, Least
  <2>5. i \in before
    <3> HIDE DEF before
    <3> QED
      BY <2>4
  <2> HIDE DEF i
  <2>6. i \in Slots /\ Since(count, h.values[i]) < Second
    BY <1>1, <2>5 DEF Slots
  <2> HIDE DEF before
  <2>7. (i + 1) % Depth = NextSlot(i) /\ NextSlot(i) \in Slots
    BY <2>6, SlotFacts
  <2>8. i # h.idx
    BY <1>1, <1>2, <1>7, <1>8, <2>6
  <2>9. CASE i \notin fake
    <3> DEFINE next == NextSlot(i)
    <3>1. next \notin fake
      BY <1>1, <1>4, <1>5, <2>6, <2>8 DEF NextSlot, Slots
    <3> HIDE DEF next
    <3>2. next \in Slots
      BY <2>7 DEF next
    <3>3. /\ h.values[i] = Since(t, age[i]) /\ age[i] % Second = ph /\ age[i] \in 0 .. Turn - 1
          /\ age[i] >= age[next] + Second
      BY <1>3, <2>6, <2>8, <2>9 DEF next
    <3>4. h.values[next] = Since(t, age[next]) /\ age[next] % Second = ph /\ age[next] \in 0 .. Turn - 1
      BY <1>3, <3>1, <3>2
    <3>5. f = Fine(Since(t, a), Since(t, age[i]), Since(Since(t, age[next]), Since(t, age[i])))
      BY <2>2, <2>7, <3>3, <3>4 DEF next
    <3>6. Since(Since(t, a), Since(t, age[i])) <= Second
      <4>1. Since(count, h.values[i]) \in Int
        BY <1>8, <2>6
      <4> QED
        BY <1>1, <2>6, <3>3, <4>1
    <3> QED
      BY <3>3, <3>4, <3>5, <3>6, FineBetween
  <2>10. CASE i \in fake
    <3>1. i = 0 /\ h.idx = Depth - 1 /\ h.values[0] = 0 /\ NextSlot(i) = 1
      BY <1>1, <1>4, <1>5, <2>10 DEF NextSlot
    <3>2. 1 \in Slots \ fake /\ Rank(h, 1) = Depth - 2
      BY <1>1, <1>5, <3>1 DEF Slots, Rank
    <3>3. /\ h.values[1] = Since(t, age[1]) /\ age[1] % Second = ph /\ age[1] \in 0 .. Turn - 1
          /\ age[1] >= age[h.idx] + (Depth - 2) * Second
          /\ age[1] <= age[h.idx] + (Depth - 2) * Gap
      BY <1>1, <1>3, <3>2
    <3> DEFINE x == age[1] - a
    <3>5. x \in 0 .. Turn - 1 /\ 4 * x + 5 * Second < 4 * Turn
      <4>1. PICK w \in Nat : w = (Depth - 2) * Second
        BY Bounds
      <4>2. a <= w /\ age[1] >= age[h.idx] + w /\ a \in Nat
        BY <1>1, <3>3, <4>1
      <4>3. PICK b \in 0 .. Turn - 1 : b = age[1]
        BY <3>3
      <4>4. PICK n \in Nat : n = age[h.idx]
        BY <1>9
      <4>5. PICK g \in Nat : g = Gap
        BY <1>1
      <4>6. PICK v \in Nat : v = (Depth - 2) * g
        BY <1>1
      <4>7. v + 2 * g < Turn /\ g >= Second
        <5>1. Depth * g = (Depth - 2) * g + 2 * g
          BY <1>1
        <5> QED
          BY <1>1, <4>5, <4>6, <5>1, Bounds
      <4>8. b >= a /\ b <= n + v /\ n < g
        BY <1>9, <3>3, <4>2, <4>3, <4>4, <4>5, <4>6, SMTT(30)
      <4>9. n >= a => g >= 2 * Second
        <5> SUFFICES ASSUME n >= a PROVE g >= 2 * Second
          OBVIOUS
        <5>1. n - a > Second
          <6>1. n \in 0 .. Turn - 1 /\ n - a \in 0 .. Turn - 1
            BY <1>1, <4>2, <4>7, <4>8
          <6>2. Since(Since(t, a), Since(t, n)) = n - a
            BY <1>1, <4>2, <6>1, SinceEarlier
          <6>3. reg = Since(t, n)
            BY <1>2, <1>3, <4>4
          <6> QED
            BY <1>7, <6>2, <6>3
        <5>2. Outage \in Nat /\ (Outage + 1) * Second > Second
          BY <1>1, <4>2, <4>4, <5>1, Bounds, SMTT(30)
        <5>3. Outage >= 1
          BY <1>1, <5>2
        <5>4. (Outage + 1) * Second >= 2 * Second
          BY <1>1, <5>2, <5>3
        <5> QED
          BY <1>1, <4>5, <5>4, SMTT(30)
      <4>10. b - a \in 0 .. Turn - 1 /\ 4 * (b - a) + 5 * Second < 4 * Turn
        <5>1. Turn \in Nat /\ Second \in Nat
          BY <1>1
        <5> QED
          BY <4>2, <4>7, <4>8, <4>9, <5>1, YoungEnough
      <4> QED
        BY <4>3, <4>10
    <3>6. Since(count, h.values[1]) = x
      <4>1. PICK b \in Int : b = age[1]
        BY <3>3
      <4>2. a \in Int /\ t \in Int /\ b - a \in 0 .. Turn - 1
        BY <1>1, <3>5, <4>1
      <4>3. Since(Since(t, a), Since(t, b)) = b - a
        BY <4>2, SinceEarlier
      <4> QED
        BY <3>3, <4>1, <4>3
    <3>7. f = Fine(count, 0, Since(h.values[1], 0)) /\ Since(count, 0) < Second
      BY <2>2, <2>6, <2>7, <3>1
    <3>8. count \in Counts /\ h.values[1] \in Counts
      BY <1>1, <1>2, <3>2, SinceType, SMTT(30)
    <3> HIDE DEF count
    <3>9. x = 0 /\ f[1] % Second = 0
      <4> HIDE DEF x
      <4>1. x \in Nat
        BY <3>5
      <4> QED
        BY <3>5, <3>6, <3>7, <3>8, <4>1, FineFromFake
    <3>10. (age[1] - a) % Second = p
      <4>1. age[1] % Second = (p + a) % Second /\ age[1] \in Nat /\ a \in Nat
        BY <3>3
      <4> QED
        BY <4>1, PacketPhase
    <3>11. 0 % Second = 0
      <4>1. 0 \in 0 .. Second - 1
        BY <1>1
      <4> QED
        BY <1>1, <4>1, ModSmall
    <3> QED
      BY <3>9, <3>10, <3>11
  <2> QED
    BY <2>9, <2>10
<1> QED
  BY <1>6, <1>7

-----------------------------------------------------------------------------
(* The invariant.                                                            *)

\* How long ago the pulse of the register was, if no more than Outage were lost since.
Pulse == lost * Second + phase

\* What is known of the history, seen from the counter, is pulses, the first perhaps excepted.
Remembers ==
  \E age \in [Slots -> Nat], fake \in SUBSET {0} :
    /\ Dated(history, known, now, phase, age, fake)
    /\ Recent(history, known, age, fake, lost, Pulse, unread)

\* The packet that waits, by its age.
Waiting ==
  pkt # <<>> => /\ DOMAIN pkt = {"count", "phase", "age"}
                /\ pkt.age \in 0 .. Wait + 1 /\ pkt.phase \in 0 .. Second - 1
                /\ pkt.age <= Wait => /\ pkt.count = Since(now, pkt.age)
                                      /\ (pkt.phase + pkt.age) % Second = phase

\* The inductive invariant.
PpsInv ==
  /\ now \in Counts /\ phase \in 0 .. Second - 1 /\ pps \in Counts /\ lost \in -1 .. Outage + 1
  /\ unread \in 0 .. Stall + 1 /\ history \in Histories
  /\ known \in 0 .. Depth /\ known <= history.size
  /\ unread > Stall \/ lost > Outage => known = 0
  /\ history.size = 0 => history.idx = 0
  /\ lost = -1 => pps = 0 /\ history.size <= 1 /\ history.idx = 0 /\ history.values[0] = 0
  /\ lost \in 0 .. Outage => pps = Since(now, Pulse)
  /\ Remembers
  /\ Waiting
  /\ FineIsTrue

\* Of a history of which nothing is known nothing is said.
LEMMA DatedNone ==
    ASSUME NEW h \in Histories, NEW t, NEW ph
    PROVE  \E age \in [Slots -> Nat], fake \in SUBSET {0} : Dated(h, 0, t, ph, age, fake)
<1> DEFINE age == [i \in Slots |-> 0]
<1>1. age \in [Slots -> Nat] /\ {} \in SUBSET {0}
  OBVIOUS
<1>2. \A i \in Slots : ~(Rank(h, i) < 0)
  <2>1. Depth \in Nat /\ \A i \in Slots : Rank(h, i) \in Slots
    BY Bounds, SlotFacts
  <2> QED
    BY <2>1 DEF Slots
<1> HIDE DEF age
<1>3. Dated(h, 0, t, ph, age, {})
  BY <1>1, <1>2 DEF Dated
<1> QED
  BY <1>1, <1>3

\* It holds at first,
LEMMA InitPps == PpsInit => PpsInv
<1> SUFFICES ASSUME PpsInit PROVE PpsInv
  OBVIOUS
<1>1. Turn \in Nat /\ Turn > 0 /\ Depth \in Nat /\ Depth >= 3 /\ Outage \in Nat /\ Stall \in Nat
  BY Bounds
<1>2. /\ now \in Counts /\ phase \in 0 .. Second - 1 /\ pps \in Counts /\ lost = -1 /\ lost \in -1 .. Outage + 1
      /\ unread = 0 /\ unread \in 0 .. Stall + 1 /\ pps = 0 /\ pkt = <<>> /\ answer = <<>>
      /\ known = 0 /\ known \in 0 .. Depth
  BY <1>1 DEF PpsInit, Counts
<1>3. history \in Histories /\ history.size = 0 /\ history.idx = 0 /\ history.values[0] = 0
  BY <1>1 DEF PpsInit, Histories, Slots, Counts
<1>4. Remembers
  <2>1. PICK age \in [Slots -> Nat], fake \in SUBSET {0} : Dated(history, 0, now, phase, age, fake)
    BY <1>3, DatedNone
  <2>2. Recent(history, 0, age, fake, lost, Pulse, unread)
    BY DEF Recent
  <2> QED
    BY <1>2, <2>1, <2>2 DEF Remembers
<1> QED
  BY <1>1, <1>2, <1>3, <1>4 DEF PpsInv, Waiting, FineIsTrue

\* as the counter moves,
LEMMA TickPps == PpsInv /\ Tick => PpsInv'
<1> SUFFICES ASSUME PpsInv, Tick PROVE PpsInv'
  OBVIOUS
<1>1. /\ Turn \in Nat /\ Turn > 0 /\ Second \in Nat /\ Second > 0 /\ Outage \in Nat /\ Stall \in Nat
      /\ Wait \in Nat /\ Depth \in Nat
  BY Bounds
<1>2. /\ now \in 0 .. Turn - 1 /\ now \in Counts /\ phase \in 0 .. Second - 1 /\ pps \in Counts
      /\ lost \in -1 .. Outage + 1 /\ unread \in 0 .. Stall + 1 /\ history \in Histories
      /\ known \in 0 .. Depth /\ known <= history.size
  BY DEF PpsInv, Counts
<1>3. /\ now' = (now + 1) % Turn /\ phase' = (phase + 1) % Second
      /\ unread' = IF unread > Stall THEN unread ELSE unread + 1
      /\ known' = IF unread' > Stall \/ lost' > Outage THEN 0 ELSE known
      /\ UNCHANGED <<history, answer>>
  BY DEF Tick, OneMore
<1>4. now' \in Counts /\ phase' \in 0 .. Second - 1 /\ unread' \in 0 .. Stall + 1
  <2>1. (now + 1) % Turn \in 0 .. Turn - 1
    BY <1>1, <1>2, ModRange
  <2>2. (phase + 1) % Second \in 0 .. Second - 1
    BY <1>1, <1>2, ModRange
  <2>3. unread' \in 0 .. Stall + 1
    BY <1>1, <1>2, <1>3
  <2> QED
    BY <1>3, <2>1, <2>2, <2>3 DEF Counts
<1>5. phase' = IF phase = Second - 1 THEN 0 ELSE phase + 1
  BY <1>1, <1>2, <1>3
\* The register and how long ago its pulse was.
<1>6. /\ lost' \in -1 .. Outage + 1 /\ pps' \in Counts
      /\ \/ lost = -1 /\ lost' = -1 /\ pps' = pps
         \/ lost' = 0 /\ phase' = 0 /\ pps' = now'
         \/ lost >= 0 /\ lost' >= lost /\ pps' = pps /\ (lost' <= Outage => Pulse' = Pulse + 1)
  <2>1. CASE phase' # 0 /\ UNCHANGED <<pps, lost>>
    <3>1. phase' = phase + 1
      BY <1>5, <2>1
    <3>2. lost * Second \in Int
      BY <1>1, <1>2
    <3>3. Pulse' = Pulse + 1
      BY <1>1, <1>2, <2>1, <3>1, <3>2 DEF Pulse
    <3> QED
      BY <1>2, <2>1, <3>3
  <2>2. CASE phase' = 0 /\ pps' = now' /\ lost' = 0
    BY <1>1, <1>4, <2>2
  <2>3. CASE phase' = 0 /\ lost = -1 /\ UNCHANGED <<pps, lost>>
    BY <1>2, <2>3
  <2>4. CASE phase' = 0 /\ lost >= 0 /\ lost' = OneMore(lost, Outage) /\ UNCHANGED pps
    <3>1. phase = Second - 1
      BY <1>2, <1>5, <2>4
    <3>2. lost' = IF lost > Outage THEN lost ELSE lost + 1
      BY <2>4 DEF OneMore
    <3>3. (lost + 1) * Second = lost * Second + Second /\ lost * Second \in Int
      BY <1>1, <1>2
    <3>4. lost' <= Outage => Pulse' = Pulse + 1
      BY <1>1, <1>2, <2>4, <3>1, <3>2, <3>3 DEF Pulse
    <3>5. lost' \in -1 .. Outage + 1 /\ lost' >= lost
      BY <1>1, <1>2, <2>4, <3>2
    <3> QED
      BY <1>2, <2>4, <3>4, <3>5
  <2> QED
    BY <2>1, <2>2, <2>3, <2>4 DEF Tick
<1>7. Pulse \in Int /\ Pulse' \in Int
  BY <1>1, <1>2, <1>4, <1>6 DEF Pulse
<1>8. /\ known' \in 0 .. Depth /\ known' <= history'.size
      /\ unread' > Stall \/ lost' > Outage => known' = 0
      /\ known' # 0 => known' = known /\ unread' <= Stall /\ lost' <= Outage /\ unread <= Stall /\ lost <= Outage
  <2>1. known' = 0 \/ known' = known
    BY <1>3
  <2>2. 0 \in 0 .. Depth /\ 0 <= history.size
    BY <1>1, <1>2 DEF Histories
  <2>3. unread > Stall \/ lost > Outage => known = 0
    BY DEF PpsInv
  <2> QED
    BY <1>1, <1>2, <1>3, <1>4, <1>6, <2>1, <2>2, <2>3
<1>9. /\ lost' = -1 => pps' = 0 /\ history'.size <= 1 /\ history'.idx = 0 /\ history'.values[0] = 0
      /\ lost' \in 0 .. Outage => pps' = Since(now', Pulse')
  <2>1. CASE lost' = -1
    <3>1. lost = -1 /\ pps' = pps
      BY <1>2, <1>6, <2>1
    <3> QED
      BY <1>3, <2>1, <3>1 DEF PpsInv
  <2>2. CASE lost' = 0 /\ phase' = 0 /\ pps' = now'
    <3>1. Pulse' = 0
      BY <1>1, <2>2 DEF Pulse
    <3>2. now' - 0 = now' /\ now' % Turn = now'
      <4>1. now' \in 0 .. Turn - 1
        BY <1>4 DEF Counts
      <4>2. PICK n \in 0 .. Turn - 1 : n = now'
        BY <4>1
      <4>3. n % Turn = n /\ n - 0 = n
        BY <1>1, ModSmall
      <4> QED
        BY <4>2, <4>3
    <3> QED
      BY <2>2, <3>1, <3>2 DEF Since
  <2>3. CASE lost >= 0 /\ lost' >= lost /\ pps' = pps /\ (lost' <= Outage => Pulse' = Pulse + 1)
    <3> SUFFICES ASSUME lost' \in 0 .. Outage PROVE pps' = Since(now', Pulse')
      BY <1>2, <1>6, <2>3
    <3>1. pps = Since(now, Pulse)
      <4>1. lost \in 0 .. Outage
        BY <1>1, <1>2, <2>3
      <4> QED
        BY <4>1 DEF PpsInv
    <3>2. Since((now + 1) % Turn, Pulse + 1) = Since(now, Pulse)
      BY <1>2, <1>7, SinceTick
    <3>3. Pulse' = Pulse + 1
      BY <1>1, <2>3
    <3> QED
      BY <1>3, <2>3, <3>1, <3>2, <3>3
  <2> QED
    BY <1>6, <2>1, <2>2, <2>3
<1>10. Remembers'
  <2>1. CASE known' = 0
    <3>1. PICK age \in [Slots -> Nat], fake \in SUBSET {0} : Dated(history', 0, now', phase', age, fake)
      BY <1>2, <1>3, DatedNone
    <3>2. Recent(history', 0, age, fake, lost', Pulse', unread')
      BY DEF Recent
    <3> QED
      BY <2>1, <3>1, <3>2 DEF Remembers
  <2>2. CASE known' # 0
    <3>1. PICK age \in [Slots -> Nat], fake \in SUBSET {0} :
            /\ Dated(history, known, now, phase, age, fake)
            /\ Recent(history, known, age, fake, lost, Pulse, unread)
      BY DEF PpsInv, Remembers
    <3>2. known' = known /\ lost' <= Outage /\ unread' = unread + 1
      BY <1>2, <1>3, <1>4, <1>8, <2>2
    <3> DEFINE older == [i \in Slots |-> age[i] + 1]
    <3>3. older \in [Slots -> Nat] /\ \A i \in Slots : older[i] = age[i] + 1
      OBVIOUS
    <3>4. Dated(history', known', now', phase', older, fake)
      BY <1>2, <1>3, <3>1, <3>2, DatedTick
    <3> HIDE DEF older
    <3>5. Recent(history', known', older, fake, lost', Pulse', unread')
      <4> SUFFICES ASSUME known > 0, history.idx \notin fake
                   PROVE  /\ lost' >= 0 /\ Pulse' <= older[history.idx]
                          /\ older[history.idx] < (Outage + 1) * Second + unread'
        BY <1>3, <3>2 DEF Recent
      <4>1. lost >= 0 /\ Pulse <= age[history.idx] /\ age[history.idx] < (Outage + 1) * Second + unread
        BY <3>1 DEF Recent
      <4>2. history.idx \in Slots
        BY <1>2, SlotFacts
      <4>3. older[history.idx] = age[history.idx] + 1 /\ age[history.idx] \in Nat
        BY <3>3, <4>2
      <4>4. lost' >= 0 /\ (Pulse' = Pulse + 1 \/ Pulse' = 0)
        <5>1. lost' = 0 /\ phase' = 0 => Pulse' = 0
          BY <1>1 DEF Pulse
        <5> QED
          BY <1>1, <1>2, <1>6, <3>2, <4>1, <5>1
      <4>5. (Outage + 1) * Second \in Nat
        BY <1>1
      <4> QED
        BY <1>2, <1>7, <3>2, <4>1, <4>3, <4>4, <4>5
    <3> QED
      BY <3>3, <3>4, <3>5 DEF Remembers
  <2> QED
    BY <2>1, <2>2
<1>11. Waiting'
  <2> SUFFICES ASSUME pkt # <<>>
               PROVE  /\ DOMAIN pkt' = {"count", "phase", "age"}
                      /\ pkt'.age \in 0 .. Wait + 1 /\ pkt'.phase \in 0 .. Second - 1
                      /\ pkt'.age <= Wait => /\ pkt'.count = Since(now', pkt'.age)
                                             /\ (pkt'.phase + pkt'.age) % Second = phase'
    BY DEF Tick, Waiting
  <2>1. pkt' = [pkt EXCEPT !.age = IF pkt.age > Wait THEN pkt.age ELSE pkt.age + 1]
    BY DEF Tick, OneMore
  <2>2. /\ DOMAIN pkt = {"count", "phase", "age"}
        /\ pkt.age \in 0 .. Wait + 1 /\ pkt.phase \in 0 .. Second - 1
        /\ pkt.age <= Wait => /\ pkt.count = Since(now, pkt.age)
                              /\ (pkt.phase + pkt.age) % Second = phase
    BY DEF PpsInv, Waiting
  <2>3. /\ DOMAIN pkt' = {"count", "phase", "age"}
        /\ pkt'.age = IF pkt.age > Wait THEN pkt.age ELSE pkt.age + 1
        /\ pkt'.phase = pkt.phase /\ pkt'.count = pkt.count
    BY <2>1, <2>2
  <2>4. pkt'.age \in 0 .. Wait + 1 /\ (pkt'.age <= Wait => pkt.age <= Wait /\ pkt'.age = pkt.age + 1)
    BY <1>1, <2>2, <2>3
  <2>5. Since((now + 1) % Turn, pkt.age + 1) = Since(now, pkt.age)
    BY <1>1, <1>2, <2>2, SinceTick
  <2>6. (((pkt.phase + pkt.age) % Second) + 1) % Second = (pkt.phase + (pkt.age + 1)) % Second
    <3>1. PICK c \in Int : c = pkt.phase + pkt.age
      BY <1>1, <2>2
    <3>2. ((c % Second) + 1) % Second = (c + 1) % Second
      <4>1. 1 \in Int
        OBVIOUS
      <4> QED
        BY <1>1, <4>1, ModAdd
    <3>3. pkt.phase + (pkt.age + 1) = c + 1
      BY <1>1, <2>2, <3>1
    <3> QED
      BY <3>1, <3>2, <3>3
  <2>7. pkt'.age <= Wait => /\ pkt'.count = Since(now', pkt'.age)
                            /\ (pkt'.phase + pkt'.age) % Second = phase'
    BY <1>3, <2>2, <2>3, <2>4, <2>5, <2>6
  <2> QED
    BY <2>2, <2>3, <2>4, <2>7
<1>12. FineIsTrue'
  BY <1>3 DEF PpsInv, FineIsTrue
<1>13. history'.size = 0 => history'.idx = 0
  BY <1>3 DEF PpsInv
<1> QED
  BY <1>2, <1>3, <1>4, <1>6, <1>8, <1>9, <1>10, <1>11, <1>12, <1>13 DEF PpsInv

\* The history is brought up to date: what is saved,
LEMMA SavedType ==
    ASSUME NEW h \in Histories, NEW reg \in Counts, h.size = 0 => h.idx = 0
    PROVE  /\ Saved(h, reg) \in Histories /\ Saved(h, reg).size > 0 /\ Saved(h, reg).size >= h.size
           /\ Saved(h, reg).values[Saved(h, reg).idx] = reg
<1>1. Depth \in Nat /\ Depth >= 3
  BY Bounds
<1>2. h.idx \in Slots /\ h.size \in 0 .. Depth /\ h.values \in [Slots -> Counts]
      /\ (h.idx + 1) % Depth = NextSlot(h.idx) /\ NextSlot(h.idx) \in Slots
  BY SlotFacts
<1>3. CASE SavedLast(h, reg)
  <2>1. Saved(h, reg) = h /\ h.values[h.idx] = reg /\ h.size > 0
    BY <1>2, <1>3 DEF Saved, SavedLast
  <2> QED
    BY <1>2, <2>1
<1>4. CASE ~SavedLast(h, reg)
  <2>1. PICK n \in Slots : /\ n = IF h.size > 0 THEN (h.idx + 1) % Depth ELSE h.idx
                           /\ Saved(h, reg) = [values |-> [h.values EXCEPT ![n] = reg], idx |-> n,
                                               size |-> IF h.size < Depth THEN h.size + 1 ELSE h.size]
    BY <1>2, <1>4 DEF Saved
  <2> QED
    BY <1>1, <1>2, <2>1 DEF Histories
<1> QED
  BY <1>3, <1>4

\* and what is known of it.
LEMMA SavePps ==
    ASSUME PpsInv, ReadRegister
    PROVE  /\ KeptUp(history', known', history, pps, now, phase, lost, Pulse)
           /\ lost > Outage => known' = 0
<1>1. /\ Second \in Nat /\ Second > 0 /\ Outage \in Nat /\ Stall \in Nat /\ Depth \in Nat
      /\ lost \in -1 .. Outage + 1 /\ phase \in 0 .. Second - 1
      /\ history \in Histories /\ now \in Counts /\ pps \in Counts /\ unread \in 0 .. Stall + 1
      /\ known \in 0 .. Depth /\ known <= history.size
      /\ history.size = 0 => history.idx = 0
      /\ unread > Stall \/ lost > Outage => known = 0
  BY Bounds DEF PpsInv
<1>2. history' = Saved(history, pps)
  BY DEF ReadRegister
<1>3. CASE lost > Outage
  <2>1. known' = 0 /\ lost >= 0
    BY <1>1, <1>3 DEF ReadRegister
  <2>2. /\ history' \in Histories /\ history'.size > 0 /\ history'.size >= history.size
        /\ history'.values[history'.idx] = pps
    BY <1>1, <1>2, SavedType
  <2>3. \E age \in [Slots -> Nat], fake \in SUBSET {0} :
          Dated(history', 0, now, phase, age, fake) /\ Recent(history', 0, age, fake, lost, Pulse, 0)
    <3>1. PICK h \in Histories : h = history'
      BY <2>2
    <3>2. PICK age \in [Slots -> Nat], fake \in SUBSET {0} : Dated(h, 0, now, phase, age, fake)
      BY DatedNone
    <3>3. Recent(h, 0, age, fake, lost, Pulse, 0)
      BY DEF Recent
    <3> QED
      BY <3>1, <3>2, <3>3
  <2>4. 0 \in 0 .. Depth /\ 0 <= history'.size /\ ~(0 > 0)
    BY <1>1, <2>2 DEF Histories
  <2>5. KeptUp(history', 0, history, pps, now, phase, lost, Pulse)
    BY <2>1, <2>2, <2>3, <2>4 DEF KeptUp
  <2> QED
    BY <2>1, <2>5
<1>4. CASE ~(lost > Outage)
  <2>1. known' = Counted(history, known, pps)
    BY <1>4 DEF ReadRegister, Counted
  <2>2. PICK age \in [Slots -> Nat], fake \in SUBSET {0} :
          /\ Dated(history, known, now, phase, age, fake)
          /\ Recent(history, known, age, fake, lost, Pulse, unread)
    BY DEF PpsInv, Remembers
  <2>3. PICK slack \in 0 .. Stall : Recent(history, known, age, fake, lost, Pulse, slack)
    <3>1. CASE known = 0
      <4>1. Recent(history, known, age, fake, lost, Pulse, 0) /\ 0 \in 0 .. Stall
        BY <1>1, <3>1 DEF Recent
      <4> QED
        BY <4>1
    <3>2. CASE known # 0
      <4>1. unread \in 0 .. Stall
        BY <1>1, <3>2
      <4> QED
        BY <2>2, <4>1
    <3> QED
      BY <3>1, <3>2
  <2>4. Pulse \in Int /\ lost \in Int
    BY <1>1 DEF Pulse
  <2>5. ASSUME lost >= 0
        PROVE  /\ pps = Since(now, Pulse) /\ Pulse % Second = phase
               /\ Pulse \in 0 .. (Outage + 1) * Second - 1
    <3>1. pps = Since(now, Pulse)
      BY <1>1, <1>4, <2>5 DEF PpsInv
    <3>2. Pulse % Second = phase
      <4>1. Pulse = Second * lost + phase /\ lost \in Int
        BY <1>1 DEF Pulse
      <4> QED
        BY <1>1, <2>4, <4>1, ModUnique
    <3>3. Pulse \in 0 .. (Outage + 1) * Second - 1
      <4>1. lost * Second <= Outage * Second /\ lost * Second \in Nat /\ Outage * Second \in Nat
            /\ (Outage + 1) * Second = Outage * Second + Second
        BY <1>1, <1>4, <2>5
      <4> QED
        BY <1>1, <4>1 DEF Pulse
    <3> QED
      BY <3>1, <3>2, <3>3
  <2>6. ~(lost >= 0) => pps = 0 /\ history.size <= 1 /\ history.idx = 0 /\ history.values[0] = 0
    BY <1>1 DEF PpsInv
  <2>7. KeptUp(Saved(history, pps), Counted(history, known, pps), history, pps, now, phase, lost, Pulse)
    BY <1>1, <2>2, <2>3, <2>4, <2>5, <2>6, SavedDated
  <2> QED
    BY <1>2, <1>4, <2>1, <2>7
<1> QED
  BY <1>3, <1>4

\* A sure time is right.
LEMMA SurePps ==
    ASSUME PpsInv, ReadRegister, known' = Depth, pkt # <<>>, pkt.age <= Wait,
           PreciseTimestampCalculate(history', pkt.count, pps) # <<>>
    PROVE  PreciseTimestampCalculate(history', pkt.count, pps)[1] % Second = pkt.phase
<1> DEFINE f == PreciseTimestampCalculate(history', pkt.count, pps)
<1>1. /\ Second \in Nat /\ Second > 0 /\ Depth \in Nat /\ Depth >= 3 /\ Outage \in Nat /\ Wait \in Nat
      /\ (Outage + 1) * Second \in Nat /\ now \in Counts /\ lost \in -1 .. Outage + 1
  BY Bounds DEF PpsInv
<1>2. KeptUp(history', known', history, pps, now, phase, lost, Pulse) /\ ~(lost > Outage)
  BY <1>1, SavePps
<1>3. history' \in Histories /\ history'.size = Depth /\ history'.values[history'.idx] = pps /\ lost >= 0
  <2>1. /\ history' \in Histories /\ history'.values[history'.idx] = pps /\ Depth <= history'.size
        /\ ~(lost >= 0) => history'.size <= 1
    BY <1>2 DEF KeptUp
  <2>2. history'.size \in 0 .. Depth
    BY <2>1, SlotFacts
  <2> QED
    BY <1>1, <2>1, <2>2
<1>4. PICK older \in [Slots -> Nat], untrue \in SUBSET {0} :
        /\ Dated(history', Depth, now, phase, older, untrue)
        /\ Recent(history', Depth, older, untrue, lost, Pulse, 0)
        /\ history'.idx \notin untrue
  <2>1. known' > 0
    BY <1>1
  <2> QED
    BY <1>2, <1>3, <2>1 DEF KeptUp
<1>5. older[history'.idx] < (Outage + 1) * Second
  <2>1. older[history'.idx] < (Outage + 1) * Second + 0
    BY <1>1, <1>4 DEF Recent
  <2>2. older[history'.idx] \in Nat
    BY <1>3, SlotFacts
  <2> QED
    BY <1>1, <2>1, <2>2
<1>6. /\ pkt.age \in 0 .. Wait /\ pkt.phase \in 0 .. Second - 1 /\ pkt.count = Since(now, pkt.age)
      /\ (pkt.phase + pkt.age) % Second = phase
  <2>1. /\ pkt.age \in 0 .. Wait + 1 /\ pkt.phase \in 0 .. Second - 1 /\ pkt.count = Since(now, pkt.age)
        /\ (pkt.phase + pkt.age) % Second = phase
    BY DEF PpsInv, Waiting
  <2> QED
    BY <1>1, <2>1
<1>7. PICK h \in Histories : h = history'
  BY <1>3
<1>8. PICK a \in 0 .. Wait : a = pkt.age
  BY <1>6
<1>9. PICK p \in 0 .. Second - 1 : p = pkt.phase
  BY <1>6
<1>10. f = PreciseTimestampCalculate(h, Since(now, a), h.values[h.idx]) /\ f # <<>>
  BY <1>3, <1>6, <1>7, <1>8
<1> HIDE DEF f
<1>11. /\ h.size = Depth /\ Dated(h, Depth, now, phase, older, untrue) /\ h.idx \notin untrue
       /\ older[h.idx] < (Outage + 1) * Second /\ (p + a) % Second = phase
  BY <1>3, <1>4, <1>5, <1>6, <1>7, <1>8, <1>9
<1>12. f[1] % Second = p
  BY <1>1, <1>10, <1>11, FineRight
<1> QED
  BY <1>9, <1>12 DEF f

\* as the register is read and a packet is received or parsed,
LEMMA OthersPps == PpsInv /\ (CounterGet \/ Receive \/ Parse) => PpsInv'
<1> SUFFICES ASSUME PpsInv, CounterGet \/ Receive \/ Parse PROVE PpsInv'
  OBVIOUS
<1>1. UNCHANGED <<now, phase, pps, lost>> /\ Pulse' = Pulse
  BY DEF CounterGet, Receive, Parse, Pulse
<1>2. /\ Second \in Nat /\ Second > 0 /\ Stall \in Nat /\ Wait \in Nat /\ Turn \in Nat /\ Turn > 0
      /\ now \in Counts /\ now \in 0 .. Turn - 1 /\ phase \in 0 .. Second - 1
      /\ lost \in -1 .. Outage + 1
  BY Bounds DEF PpsInv, Counts
<1>3. ASSUME ReadRegister
      PROVE  /\ history' \in Histories /\ history'.size > 0 /\ unread' \in 0 .. Stall + 1
             /\ known' \in 0 .. Depth /\ known' <= history'.size
             /\ unread' > Stall \/ lost' > Outage => known' = 0
             /\ lost' = -1 => pps' = 0 /\ history'.size <= 1 /\ history'.idx = 0 /\ history'.values[0] = 0
             /\ lost' \in 0 .. Outage => pps' = Since(now', Pulse')
             /\ Remembers'
  <2>1. KeptUp(history', known', history, pps, now, phase, lost, Pulse) /\ (lost > Outage => known' = 0)
    BY <1>3, SavePps
  <2>2. /\ history' \in Histories /\ history'.size > 0 /\ known' \in 0 .. Depth /\ known' <= history'.size
        /\ history'.values[history'.idx] = pps
        /\ ~(lost >= 0) => history'.size <= 1 /\ history'.idx = 0
        /\ \E older \in [Slots -> Nat], untrue \in SUBSET {0} :
             /\ Dated(history', known', now, phase, older, untrue)
             /\ Recent(history', known', older, untrue, lost, Pulse, 0)
    BY <2>1 DEF KeptUp
  <2>3. unread' = 0 /\ unread' \in 0 .. Stall + 1 /\ ~(unread' > Stall)
    BY <1>2, <1>3 DEF ReadRegister
  <2>4. lost = -1 => pps = 0 /\ ~(lost >= 0)
    BY DEF PpsInv
  <2>5. lost \in 0 .. Outage => pps = Since(now, Pulse)
    BY DEF PpsInv
  <2>6. Remembers'
    BY <1>1, <2>2, <2>3 DEF Remembers
  <2> QED
    BY <1>1, <2>1, <2>2, <2>3, <2>4, <2>5, <2>6
<1>4. CASE CounterGet
  <2>1. ReadRegister /\ UNCHANGED <<pkt, answer>>
    BY <1>4 DEF CounterGet
  <2>2. Waiting' /\ FineIsTrue'
    BY <1>1, <2>1 DEF PpsInv, Waiting, FineIsTrue
  <2>3. now' \in Counts /\ phase' \in 0 .. Second - 1 /\ pps' \in Counts /\ lost' \in -1 .. Outage + 1
    BY <1>1 DEF PpsInv
  <2> QED
    BY <1>3, <2>1, <2>2, <2>3 DEF PpsInv
<1>5. CASE Receive
  <2>1. /\ pkt' = [count |-> now, phase |-> phase, age |-> 0] /\ answer' = <<>>
        /\ UNCHANGED <<unread, history, known>>
    BY <1>5 DEF Receive
  <2>2. Since(now, 0) = now
    <3>1. now - 0 = now /\ now % Turn = now
      BY <1>2, ModSmall
    <3> QED
      BY <3>1 DEF Since
  <2>3. phase + 0 = phase /\ phase % Second = phase
    BY <1>2, ModSmall
  <2>4. Waiting'
    BY <1>1, <1>2, <2>1, <2>2, <2>3 DEF Waiting
  <2>5. FineIsTrue' /\ Remembers'
    BY <1>1, <2>1 DEF PpsInv, FineIsTrue, Remembers
  <2> QED
    BY <1>1, <2>1, <2>4, <2>5 DEF PpsInv
<1>6. CASE Parse
  <2>1. pkt # <<>> /\ pkt' = <<>>
    BY <1>6 DEF Parse
  <2>2. Waiting'
    BY <2>1 DEF Waiting
  <2>3. CASE TooShort \/ Unreadable
    <3>1. UNCHANGED <<history, unread, known>> /\ (answer' # <<>> => ~answer'.sure)
      BY <2>3 DEF TooShort, Unreadable
    <3>2. FineIsTrue' /\ Remembers'
      BY <1>1, <3>1 DEF PpsInv, FineIsTrue, Remembers
    <3> QED
      BY <1>1, <2>2, <3>1, <3>2 DEF PpsInv
  <2>4. CASE Readable
    <3> DEFINE f == PreciseTimestampCalculate(history', pkt.count, pps)
    <3>1. /\ ReadRegister
          /\ answer' = IF f = <<>> THEN <<>>
                       ELSE [phase |-> pkt.phase, ftime |-> f[1], sure |-> known' = Depth /\ pkt.age <= Wait]
      BY <2>4 DEF Readable
    <3>2. f # <<>> /\ known' = Depth /\ pkt.age <= Wait => f[1] % Second = pkt.phase
      BY <2>1, <3>1, SurePps
    <3> HIDE DEF f
    <3>3. FineIsTrue'
      BY <3>1, <3>2 DEF FineIsTrue
    <3>4. now' \in Counts /\ phase' \in 0 .. Second - 1 /\ pps' \in Counts /\ lost' \in -1 .. Outage + 1
      BY <1>1 DEF PpsInv
    <3> QED
      BY <1>3, <2>2, <3>1, <3>3, <3>4 DEF PpsInv
  <2> QED
    BY <1>6, <2>3, <2>4 DEF Parse
<1> QED
  BY <1>4, <1>5, <1>6

\* and so after every step.
LEMMA NextPps == PpsInv /\ [PpsNext]_ppsVars => PpsInv'
<1> SUFFICES ASSUME PpsInv, [PpsNext]_ppsVars PROVE PpsInv'
  OBVIOUS
<1>1. CASE UNCHANGED ppsVars
  BY <1>1 DEF ppsVars, PpsInv, Remembers, Pulse, Waiting, FineIsTrue
<1> QED
  BY <1>1, TickPps, OthersPps DEF PpsNext

\* A fine timestamp is how long before the packet the second began, if the register could be read
\* for it, its history is of values that were saved in time, one outage and one stall apart at the
\* most, and the packet has not waited longer than Wait: whatever pulses were lost, readings failed
\* and values read before, whenever the register is read and overwritten, and however the counter
\* stands and rolls over; in particular a packet that came before the pulse in the register
\* gets its time from the history, and never from a value that was read before there was any
\* pulse (loragw_sx1302_timestamp.c:566).
THEOREM FineTimestampsAreTrue == PpsSpec => []FineIsTrue
<1>1. PpsInv => FineIsTrue
  BY DEF PpsInv
<1> QED
  BY <1>1, InitPps, NextPps, PTL DEF PpsSpec

-----------------------------------------------------------------------------
(* Numbers of packets and settings.                                          *)

\* What a packet is made of.
LEMMA PacketFields ==
    ASSUME NEW p \in Packet
    PROVE  /\ p.modu = "LORA" /\ p.bw \in {125, 250, 500} /\ p.sf \in 5 .. 12 /\ p.cr \in 1 .. 4
           /\ p.preamble \in Nat /\ p.preamble >= 6 /\ p.header \in BOOLEAN /\ p.crc \in BOOLEAN /\ p.size \in Nat
<1>1. p.modu = "LORA"
  BY DEF Packet
<1>2. p.bw \in {125, 250, 500}
  BY DEF Packet, R!BWs
<1>3. p.sf \in 5 .. 12
  BY DEF Packet, R!SFs
<1>4. p.cr \in 1 .. 4
  BY DEF Packet
<1>5. p.preamble \in Nat /\ p.preamble >= 6
  BY DEF Packet
<1>6. p.header \in BOOLEAN
  BY DEF Packet
<1>7. p.crc \in BOOLEAN
  BY DEF Packet
<1>8. p.size \in Nat
  BY DEF Packet
<1> QED
  BY <1>1, <1>2, <1>3, <1>4, <1>5, <1>6, <1>7, <1>8

\* The nibbles behind the header, in blocks of b or, as lgw_time_on_air counts them, of d.
LEMMA BlocksOfNibbles ==
    ASSUME NEW a \in Nat, a > 0, NEW d \in 3 .. 12, NEW b \in d .. 12,
           NEW last \in Nat, last = (IF a % b = 0 THEN b ELSE a % b)
    PROVE  /\ last \in 1 .. b /\ (a - last) \div b \in Nat /\ b * ((a - last) \div b) = a - last
           /\ (a - last) \div b + 1 <= (4 * a + 4 * d - 1) \div (4 * d)
<1> DEFINE q == (a - last) \div b
           k == (4 * a + 4 * d - 1) \div (4 * d)
<1>2. last \in 1 .. b /\ a - last \in Nat /\ (a - last) % b = 0
  OBVIOUS
<1>3. q \in Nat /\ b * q = a - last
  OBVIOUS
<1>4. k \in Nat /\ k * d >= a
  OBVIOUS
<1>5. q + 1 <= k
  OBVIOUS
<1> QED
  BY <1>2, <1>3, <1>5

\* What the code computes the blocks of a packet from.
LEMMA BlocksOfPacket ==
    ASSUME NEW p \in Packet
    PROVE  /\ R!BlockNibbles(p) \in 5 .. 12 /\ R!HeaderNibbles(p.sf) \in 5 .. 10 /\ R!Nibbles(p) \in Nat
           /\ R!BlockNibbles(p) <= p.sf /\ p.sf - 2 * R!One(R!Optimised(p.sf)) \in 5 .. R!BlockNibbles(p)
           /\ ~R!FitsInHeader(p) => R!Nibbles(p) - R!HeaderNibbles(p.sf) \in Nat \ {0}
           /\ R!FitsInHeader(p) => R!Nibbles(p) <= R!HeaderNibbles(p.sf)
           /\ p.header => 8 * p.size + 16 * R!One(p.crc) - 4 * p.sf + (IF p.sf >= 7 THEN 8 ELSE 0) + 20 * R!One(p.header)
                            = 4 * (R!Nibbles(p) - R!HeaderNibbles(p.sf))
<1>1. p.sf \in 5 .. 12 /\ p.bw \in {125, 250, 500} /\ p.size \in Nat /\ p.crc \in BOOLEAN /\ p.header \in BOOLEAN
  BY PacketFields
<1>2. PICK c \in {0, 1} : c = R!One(p.crc) /\ (c = 0 <=> ~p.crc)
  BY DEF R!One
<1>3. R!PpmOn(p.bw, p.sf) => R!Optimised(p.sf)
  BY <1>1 DEF R!PpmOn, R!Optimised
<1>4. R!Optimised(p.sf) => p.sf \in {11, 12}
  BY <1>1 DEF R!Optimised
<1>5. R!Nibbles(p) = 2 * (p.size + 2 * c) + 5
  BY <1>2 DEF R!Nibbles
<1>6. R!HeaderNibbles(p.sf) = (IF p.sf \in {5, 6} THEN p.sf ELSE p.sf - 2)
  BY DEF R!HeaderNibbles
<1>7. R!FitsInHeader(p) <=> 2 * (p.size + 2 * c) - (p.sf - 7) <= 0 \/ (p.size = 0 /\ c = 0)
  BY <1>2 DEF R!FitsInHeader
<1>8. R!BlockNibbles(p) \in 5 .. 12 /\ R!BlockNibbles(p) <= p.sf /\ p.sf - 2 * R!One(R!Optimised(p.sf)) \in 5 .. R!BlockNibbles(p)
  BY <1>1, <1>3, <1>4 DEF R!BlockNibbles, R!One
<1>9. /\ R!HeaderNibbles(p.sf) \in 5 .. 10 /\ R!Nibbles(p) \in Nat
      /\ ~R!FitsInHeader(p) => R!Nibbles(p) - R!HeaderNibbles(p.sf) \in Nat \ {0}
      /\ R!FitsInHeader(p) => R!Nibbles(p) <= R!HeaderNibbles(p.sf)
  <2>1. PICK s \in 5 .. 12, z \in Nat : s = p.sf /\ z = p.size
    BY <1>1
  <2>2. PICK h \in 5 .. 10 : h = R!HeaderNibbles(p.sf) /\ h = (IF s \in {5, 6} THEN s ELSE s - 2)
    BY <1>6, <2>1
  <2>3. R!Nibbles(p) = 2 * (z + 2 * c) + 5 /\ (R!FitsInHeader(p) <=> 2 * (z + 2 * c) - (s - 7) <= 0 \/ (z = 0 /\ c = 0))
    BY <1>5, <1>7, <2>1
  <2>4. 2 * (z + 2 * c) + 5 \in Nat
    BY <2>1
  <2>5. 2 * (z + 2 * c) - (s - 7) <= 0 \/ (z = 0 /\ c = 0) <=> 2 * (z + 2 * c) + 5 <= h
    <3>1. PICK w \in Nat : w = z + 2 * c /\ (w = 0 <=> z = 0 /\ c = 0)
      BY <2>1
    <3>2. CASE s \in {5, 6}
      <4>1. h = s
        BY <2>2, <3>2
      <4> QED
        BY <3>1, <3>2, <4>1
    <3>3. CASE s \notin {5, 6}
      <4>1. h = s - 2 /\ s >= 7
        BY <2>1, <2>2, <3>3
      <4>2. 2 * w - (s - 7) <= 0 <=> 2 * w + 5 <= h
        BY <2>1, <3>1, <4>1
      <4>3. w = 0 => 2 * w + 5 <= h
        BY <2>1, <3>1, <4>1
      <4> QED
        BY <3>1, <4>2, <4>3
    <3> QED
      BY <3>2, <3>3
  <2>6. ~(2 * (z + 2 * c) + 5 <= h) => 2 * (z + 2 * c) + 5 - h \in Nat \ {0}
    BY <2>2, <2>4
  <2> QED
    BY <2>2, <2>3, <2>4, <2>5, <2>6
<1>10. ASSUME p.header
       PROVE  8 * p.size + 16 * R!One(p.crc) - 4 * p.sf + (IF p.sf >= 7 THEN 8 ELSE 0) + 20 * R!One(p.header)
                = 4 * (R!Nibbles(p) - R!HeaderNibbles(p.sf))
  <2>1. R!One(p.header) = 1
    BY <1>10 DEF R!One
  <2>2. PICK s \in 5 .. 12, z \in Nat : s = p.sf /\ z = p.size
    BY <1>1
  <2>3. PICK h \in Int : h = R!HeaderNibbles(p.sf) /\ h = (IF s \in {5, 6} THEN s ELSE s - 2)
    BY <1>6, <2>2
  <2>4. 8 * z + 16 * c - 4 * s + (IF s >= 7 THEN 8 ELSE 0) + 20 * 1 = 4 * (2 * (z + 2 * c) + 5 - h)
    BY <2>2, <2>3
  <2> QED
    BY <1>2, <1>5, <2>1, <2>2, <2>3, <2>4
<1> QED
  BY <1>8, <1>9, <1>10

\* The blocks the receiver counts, of a packet that does not fit in the header.
LEMMA LastBlockIs ==
    ASSUME NEW p \in Packet, ~R!FitsInHeader(p)
    PROVE  /\ R!LastBlock(p) \in 1 .. p.sf /\ R!Blocks(p) \in Nat \ {0}
           /\ R!BlockNibbles(p) * (R!Blocks(p) - 1) = R!Nibbles(p) - R!HeaderNibbles(p.sf) - R!LastBlock(p)
           /\ p.header => R!Blocks(p) * (p.cr + 4) <= R!PayloadSymbols(p)
<1> DEFINE a == R!Nibbles(p) - R!HeaderNibbles(p.sf)
           b == R!BlockNibbles(p)
           d == p.sf - 2 * R!One(R!Optimised(p.sf))
           k == (4 * a + 4 * d - 1) \div (4 * d)
<1>1. a \in Nat /\ a > 0 /\ d \in 3 .. 12 /\ b \in d .. 12 /\ b \in 5 .. 12 /\ b <= p.sf /\ d \in 5 .. 12
  BY BlocksOfPacket
<1>2. p.cr + 4 \in 5 .. 8 /\ p.sf \in 5 .. 12
  BY PacketFields
<1>3. R!LastBlock(p) = (IF a % b = 0 THEN b ELSE a % b)
  BY DEF R!LastBlock
<1>4. R!Blocks(p) = (a - R!LastBlock(p)) \div b + 1
  BY DEF R!Blocks
<1>5. p.header => R!PayloadSymbols(p) = k * (p.cr + 4)
  <2> SUFFICES ASSUME p.header PROVE R!PayloadSymbols(p) = k * (p.cr + 4)
    OBVIOUS
  <2>1. R!PayloadSymbols(p) = R!CeilDiv(R!Positive(4 * a), 4 * d) * (p.cr + 4)
    BY BlocksOfPacket DEF R!PayloadSymbols
  <2>2. R!Positive(4 * a) = 4 * a
    BY <1>1 DEF R!Positive
  <2>3. R!CeilDiv(4 * a, 4 * d) = k
    BY DEF R!CeilDiv
  <2> QED
    BY <2>1, <2>2, <2>3
<1> HIDE DEF a, b, d
<1>6. PICK last \in Nat : last = R!LastBlock(p)
  BY <1>1, <1>3
<1>7. /\ last \in 1 .. b /\ (a - last) \div b \in Nat /\ b * ((a - last) \div b) = a - last
      /\ (a - last) \div b + 1 <= k
  BY <1>1, <1>3, <1>6, BlocksOfNibbles
<1> HIDE DEF k
<1>8. PICK q \in Nat : q = (a - last) \div b /\ R!Blocks(p) = q + 1
  BY <1>4, <1>6, <1>7
<1>9. k \in Int /\ q + 1 <= k
  BY <1>1, <1>7, <1>8 DEF k
<1>10. (q + 1) * (p.cr + 4) <= k * (p.cr + 4)
  BY <1>2, <1>9
<1>11. R!LastBlock(p) \in 1 .. p.sf /\ R!Blocks(p) \in Nat \ {0} /\ R!Blocks(p) - 1 = q
  BY <1>1, <1>2, <1>6, <1>7, <1>8
<1>12. b * q = a - last
  BY <1>7, <1>8
<1> QED
  BY <1>5, <1>6, <1>8, <1>10, <1>11, <1>12 DEF a, b

\* The blocks hold all the nibbles.
LEMMA BlocksAlwaysHold ==
    ASSUME NEW p \in Packet
    PROVE  R!BlocksHoldAll(p)
<1>1. p.sf \in 5 .. 12
  BY PacketFields
<1>2. CASE R!FitsInHeader(p)
  <2>1. R!LastBlock(p) = R!HeaderNibbles(p.sf) /\ R!Blocks(p) = 0
    BY <1>2 DEF R!LastBlock, R!Blocks
  <2>2. R!HeaderNibbles(p.sf) \in 1 .. p.sf
    BY <1>1 DEF R!HeaderNibbles
  <2>3. R!Positive(0 - 1) = 0 /\ R!Nibbles(p) <= R!HeaderNibbles(p.sf) /\ R!BlockNibbles(p) \in 5 .. 12 /\ R!Nibbles(p) \in Nat
    BY <1>2, BlocksOfPacket DEF R!Positive
  <2> QED
    BY <2>1, <2>2, <2>3 DEF R!BlocksHoldAll
<1>3. CASE ~R!FitsInHeader(p)
  <2>1. PICK n \in Nat, h \in Nat, b \in Nat : n = R!Nibbles(p) /\ h = R!HeaderNibbles(p.sf) /\ b = R!BlockNibbles(p)
    BY BlocksOfPacket
  <2>2. PICK last \in Nat, q \in Nat : last = R!LastBlock(p) /\ q + 1 = R!Blocks(p) /\ last \in 1 .. p.sf
    <3>1. R!LastBlock(p) \in 1 .. p.sf /\ R!Blocks(p) \in Nat \ {0}
      BY <1>3, LastBlockIs
    <3>2. R!LastBlock(p) \in Nat /\ R!Blocks(p) - 1 \in Nat /\ (R!Blocks(p) - 1) + 1 = R!Blocks(p)
      BY <1>1, <3>1
    <3> QED
      BY <3>1, <3>2
  <2>3. b * q = n - h - last
    <3>1. R!Blocks(p) - 1 = q
      BY <2>2
    <3> QED
      BY <1>3, <2>1, <2>2, <3>1, LastBlockIs
  <2>4. R!Positive(R!Blocks(p) - 1) = q
    BY <2>2 DEF R!Positive
  <2>5. h + q * b + last >= n /\ R!Blocks(p) # 0
    BY <2>1, <2>2, <2>3
  <2> QED
    BY <2>1, <2>2, <2>4, <2>5 DEF R!BlocksHoldAll
<1> QED
  BY <1>2, <1>3

\* A millisecond more than half of one is what rounding takes.
LEMMA Rounding ==
    ASSUME NEW x \in Nat, NEW y \in Nat, x <= y
    PROVE  x \div 4 <= 1000 * ((y \div 4 + 500) \div 1000) + 1000
OBVIOUS

\* The reservation covers the packet.
LEMMA AirtimeAlwaysCovers ==
    ASSUME NEW p \in Packet
    PROVE  R!AirtimeCovers(p)
<1> SUFFICES ASSUME p.header PROVE R!AirtimeCovers(p)
  BY DEF R!AirtimeCovers
<1>1. p.sf \in 5 .. 12 /\ p.bw \in {125, 250, 500} /\ p.cr \in 1 .. 4 /\ p.preamble \in Nat /\ p.preamble >= 6 /\ p.modu = "LORA"
  BY PacketFields
<1>2. R!Blocks(p) \in Nat /\ R!PayloadSymbols(p) \in Nat /\ R!Blocks(p) * (p.cr + 4) <= R!PayloadSymbols(p)
  <2>1. R!PayloadSymbols(p) \in Nat
    <3>1. PICK z \in Int : z = 8 * p.size + 16 * R!One(p.crc) - 4 * p.sf + (IF p.sf >= 7 THEN 8 ELSE 0) + 20 * R!One(p.header)
      BY <1>1, PacketFields DEF R!One
    <3>2. R!Positive(z) \in Nat
      BY DEF R!Positive
    <3>3. PICK e \in Nat : e = 4 * (p.sf - 2 * R!One(R!Optimised(p.sf))) /\ e > 0
      <4>1. p.sf - 2 * R!One(R!Optimised(p.sf)) \in 5 .. R!BlockNibbles(p) /\ R!BlockNibbles(p) \in 5 .. 12
        BY BlocksOfPacket
      <4> QED
        BY <4>1
    <3>4. R!CeilDiv(R!Positive(z), e) \in Nat
      BY <3>2, <3>3 DEF R!CeilDiv
    <3>5. R!PayloadSymbols(p) = R!CeilDiv(R!Positive(z), e) * (p.cr + 4)
      BY <3>1, <3>3 DEF R!PayloadSymbols
    <3> QED
      BY <1>1, <3>4, <3>5
  <2>2. CASE R!FitsInHeader(p)
    <3>1. R!Blocks(p) = 0
      BY <2>2 DEF R!Blocks
    <3> QED
      BY <1>1, <2>1, <3>1
  <2>3. CASE ~R!FitsInHeader(p)
    BY <2>1, <2>3, LastBlockIs
  <2> QED
    BY <2>2, <2>3
<1>3. R!LoRaPreamble(p.preamble) = p.preamble
  BY <1>1 DEF R!LoRaPreamble
<1>4. R!SymbolTime(p.bw, p.sf) \in Nat
  <2>1. 2^p.sf \in Nat
    BY <1>1, TwoPositive
  <2> QED
    BY <1>1, <2>1 DEF R!SymbolTime
<1>5. PICK t \in Nat : t = R!SymbolTime(p.bw, p.sf)
  BY <1>4
<1>6. PICK s \in Nat : s = R!PayloadSymbols(p)
  BY <1>2
<1>7. PICK m \in Nat : m = R!Blocks(p) * (p.cr + 4) /\ m <= s
  BY <1>1, <1>2, <1>6
<1>8. PICK e \in Nat : e = 4 * p.preamble + (IF p.sf >= 7 THEN 17 ELSE 25) + 32
  BY <1>1
<1>9. R!EmittedQuarters(p) = e + 4 * m
  <2>1. 4 * R!Blocks(p) * (p.cr + 4) = 4 * m
    BY <1>1, <1>2, <1>7
  <2> QED
    BY <1>3, <1>8, <2>1 DEF R!EmittedQuarters
<1>10. R!LoRaTimeOnAir(p) = ((e + 4 * s) * t) \div 4
  BY <1>5, <1>6, <1>8 DEF R!LoRaTimeOnAir
<1>11. PICK x \in Nat, y \in Nat : x = (e + 4 * m) * t /\ y = (e + 4 * s) * t /\ x <= y
  <2>1. (e + 4 * m) * t \in Nat /\ (e + 4 * s) * t \in Nat /\ (e + 4 * m) * t <= (e + 4 * s) * t
    BY <1>7
  <2> QED
    BY <2>1
<1>12. R!TimeOnAir(p) = (y \div 4 + 500) \div 1000
  BY <1>1, <1>10, <1>11 DEF R!TimeOnAir
<1>13. x \div 4 <= 1000 * ((y \div 4 + 500) \div 1000) + 1000
  BY <1>11, Rounding
<1> QED
  BY <1>5, <1>9, <1>11, <1>12, <1>13 DEF R!AirtimeCovers

\* Transmitter and receivers agree.
LEMMA LinksAlwaysAgree ==
    ASSUME NEW p \in Packet, NEW public
    PROVE  R!LinkAgreed(p, public)
<1>1. p.sf \in 5 .. 12 /\ p.bw \in {125, 250, 500}
  BY PacketFields
<1> QED
  BY <1>1 DEF R!LinkAgreed, R!Transmit, R!Service, R!MultiSf, R!TransmitSync, R!PpmOn

\* EXCEPT changes one field and keeps the others.
LEMMA Kept ==
    ASSUME NEW f, NEW a, NEW b, NEW v, b \in DOMAIN f, a # b
    PROVE  /\ [f EXCEPT ![a] = v][b] = f[b]
           /\ DOMAIN [f EXCEPT ![a] = v] = DOMAIN f
BY Zenon

\* What EXCEPT puts in place is there.
LEMMA Changed ==
    ASSUME NEW f, NEW a, NEW v, a \in DOMAIN f
    PROVE  [f EXCEPT ![a] = v][a] = v
BY Zenon

\* The parts of lgw_context that the lemmas below look at, before it is configured:
LEMMA HalFields == {"if", "lut", "error"} \subseteq DOMAIN HalDefault
<1>1. DOMAIN HalDefault = {"error", "public", "clksrc", "full_duplex", "rf", "if", "sfs", "service", "fsk", "lut", "ftime", "sx1261"}
  BY Zenon DEF HalDefault
<1> QED
  BY <1>1, Zenon

\* their values,
LEMMA HalIf ==
    /\ HalDefault.if = [c \in IfChains |-> [enable |-> FALSE, rf |-> 0, freq |-> 0]]
    /\ HalDefault.lut = [c \in RfChains |-> <<DefaultGain>>]
    /\ HalDefault.error = FALSE
BY Zenon DEF HalDefault

\* and the error that a refusal sets.
LEMMA HalRefuses == Refused(HalDefault).error
<1>1. "error" \in DOMAIN HalDefault
  BY HalFields, Zenon
<1>2. [HalDefault EXCEPT !["error"] = TRUE]["error"] = TRUE
  BY <1>1, Changed
<1> QED
  BY <1>2, Zenon DEF Refused

\* A channel that is accepted is set as it was asked for, inside the band.
LEMMA AcceptedIsSet ==
    ASSUME NEW chain \in IfChains, NEW conf, conf.enable, ~RxifSetconf(HalDefault, chain, conf).error
    PROVE  IfInBand(conf) /\ RxifSetconf(HalDefault, chain, conf).if[chain].freq = conf.freq
<1> DEFINE ctx  == RxifSetconf(HalDefault, chain, conf)
           bw   == Bandwidth(chain, conf)
           rate == Rate(chain, conf)
           set  == [HalDefault EXCEPT !.if[chain] = [enable |-> TRUE, rf |-> conf.rf, freq |-> conf.freq]]
           wide == [set EXCEPT !.service = [bw |-> bw, sf |-> rate]]
           fsk  == [set EXCEPT !.fsk = [bw |-> bw, rate |-> rate]]
<1>1. ctx = IF conf.rf \notin RfChains \/ ~IfInBand(conf) \/ ~Supported(chain, bw, rate) THEN Refused(HalDefault)
            ELSE IF chain = Std THEN wide ELSE IF chain = Fsk THEN fsk ELSE set
  BY Zenon DEF RxifSetconf
<1>2. \A name \in {"service", "fsk"} : \A value :
        set.if[chain].freq = conf.freq /\ [set EXCEPT ![name] = value].if[chain].freq = conf.freq
  <2> TAKE name \in {"service", "fsk"}
  <2> TAKE value
  <2> DEFINE new == [enable |-> TRUE, rf |-> conf.rf, freq |-> conf.freq]
             chains == [HalDefault.if EXCEPT ![chain] = new]
  <2>1. "if" \in DOMAIN HalDefault /\ "if" # name /\ chain \in DOMAIN HalDefault.if
    BY HalFields, HalIf, Zenon
  <2>2. new.freq = conf.freq
    BY Zenon
  <2>3. set = [HalDefault EXCEPT !["if"] = chains]
    BY Zenon
  <2> HIDE DEF new, set
  <2>4. chains[chain] = new
    BY <2>1, Changed
  <2> HIDE DEF chains
  <2>5. set["if"] = chains /\ "if" \in DOMAIN set
    BY <2>1, <2>3, Kept, Changed, Zenon
  <2>6. [set EXCEPT ![name] = value]["if"] = chains
    BY <2>1, <2>5, Kept
  <2> QED
    BY <2>2, <2>4, <2>5, <2>6, Zenon
<1> HIDE DEF set, bw, rate
<1>3. wide = [set EXCEPT !["service"] = [bw |-> bw, sf |-> rate]]
  BY Zenon
<1>4. fsk = [set EXCEPT !["fsk"] = [bw |-> bw, rate |-> rate]]
  BY Zenon
<1> HIDE DEF ctx, wide, fsk
<1>5. ctx # Refused(HalDefault)
  <2>1. ~ctx.error
    BY Zenon DEF ctx
  <2> QED
    BY <2>1, HalRefuses, Zenon
<1>6. IfInBand(conf) /\ ctx.if[chain].freq = conf.freq
  <2>1. "service" \in {"service", "fsk"} /\ "fsk" \in {"service", "fsk"}
    BY Zenon
  <2>2. wide.if[chain].freq = conf.freq
    BY <1>2, <1>3, <2>1, Zenon
  <2>3. fsk.if[chain].freq = conf.freq
    BY <1>2, <1>4, <2>1, Zenon
  <2>4. set.if[chain].freq = conf.freq
    BY <1>2, <2>1, Zenon
  <2> QED
    BY <1>1, <1>5, <2>2, <2>3, <2>4, Zenon
<1> QED
  BY <1>6, Zenon DEF ctx

\* Division as C does it leaves less than the divisor.
LEMMA QuotientOf ==
    ASSUME NEW a \in Int, NEW b \in Nat, b > 0
    PROVE  /\ Quotient(a, b) \in Int
           /\ a >= 0 => Quotient(a, b) >= 0 /\ b * Quotient(a, b) <= a /\ a < b * Quotient(a, b) + b
           /\ a < 0 => Quotient(a, b) <= 0 /\ b * Quotient(a, b) >= a /\ a > b * Quotient(a, b) - b
<1>1. CASE a >= 0
  <2>1. a \div b \in Nat /\ b * (a \div b) <= a /\ a < b * (a \div b) + b
    BY <1>1
  <2> QED
    BY <1>1, <2>1 DEF Quotient
<1>2. CASE a < 0
  <2>1. PICK n \in Nat : n = -a
    BY <1>2
  <2>2. PICK q \in Nat : q = n \div b /\ b * q <= n /\ n < b * q + b
    OBVIOUS
  <2>3. Quotient(a, b) = -q
    BY <1>2, <2>1, <2>2 DEF Quotient
  <2>4. b * (-q) = -(b * q)
    BY <2>2
  <2> QED
    BY <1>2, <2>1, <2>2, <2>3, <2>4
<1> QED
  BY <1>1, <1>2

\* The thirteen bits hold the register.
LEMMA ThirteenBits ==
    ASSUME NEW h \in Int, h >= -16, h <= 15, NEW l \in Nat, l < 256, NEW n \in Int, n = 256 * (h % 32) + l
    PROVE  (IF n >= 4096 THEN n - 8192 ELSE n) = 256 * h + l
<1>1. CASE h >= 0
  <2>1. h % 32 = h
    BY <1>1
  <2>2. n = 256 * h + l /\ n < 4096
    BY <1>1, <2>1
  <2> QED
    BY <2>2
<1>2. CASE h < 0
  <2>1. h % 32 = h + 32
    BY <1>2
  <2>2. n = 256 * h + 8192 + l /\ n >= 4096
    BY <1>2, <2>1
  <2> QED
    BY <2>2
<1> QED
  BY <1>1, <1>2

\* Every channel the HAL accepts is received where it was asked for.
LEMMA AcceptedAlwaysHeard ==
    ASSUME NEW chain \in IfChains, NEW conf, conf.freq \in Int, conf.bw \in Nat
    PROVE  AcceptedHeard(chain, conf)
<1> DEFINE ctx == RxifSetconf(HalDefault, chain, conf)
<1> SUFFICES ASSUME ~ctx.error, conf.enable, conf.bw # Undefined
             PROVE  /\ conf.freq + conf.bw \div 2 <= HalfBand /\ conf.freq - conf.bw \div 2 >= -HalfBand
                    /\ RegToIf(Channelizer(ctx, chain)) + IfError(conf.freq) = conf.freq
                    /\ IfError(conf.freq) <= 489 /\ IfError(conf.freq) >= -489
  BY Zenon DEF AcceptedHeard
<1>1. IfInBand(conf) /\ ctx.if[chain].freq = conf.freq
  BY AcceptedIsSet
<1> HIDE DEF ctx
<1>2. PICK freq \in Int, half \in Nat : freq = conf.freq /\ half = conf.bw \div 2
  OBVIOUS
<1>3. freq + half <= 800000 /\ freq - half >= -800000
  BY <1>1, <1>2 DEF IfInBand, HalfBand, Undefined
<1>4. freq <= 800000 /\ freq >= -800000
  BY <1>2, <1>3
<1>5. PICK reg \in Int : /\ reg = IfToReg(freq)
                         /\ freq >= 0 => reg >= 0 /\ 15625 * reg <= freq * 32 /\ freq * 32 < 15625 * reg + 15625
                         /\ freq < 0 => reg <= 0 /\ 15625 * reg >= freq * 32 /\ freq * 32 > 15625 * reg - 15625
  <2>1. PICK a \in Int : a = freq * 32
    OBVIOUS
  <2>2. IfToReg(freq) = Quotient(a, 15625)
    BY <2>1 DEF IfToReg
  <2>3. /\ Quotient(a, 15625) \in Int
        /\ a >= 0 => Quotient(a, 15625) >= 0 /\ 15625 * Quotient(a, 15625) <= a /\ a < 15625 * Quotient(a, 15625) + 15625
        /\ a < 0 => Quotient(a, 15625) <= 0 /\ 15625 * Quotient(a, 15625) >= a /\ a > 15625 * Quotient(a, 15625) - 15625
    BY QuotientOf
  <2>4. PICK q \in Int : q = Quotient(a, 15625)
    BY <2>3
  <2> QED
    BY <2>1, <2>2, <2>3, <2>4
<1>6. PICK back \in Int : /\ back = Quotient(reg * 15625, 32)
                          /\ reg >= 0 => 32 * back <= 15625 * reg /\ 15625 * reg < 32 * back + 32
                          /\ reg < 0 => 32 * back >= 15625 * reg /\ 15625 * reg > 32 * back - 32
  BY QuotientOf
<1>7. IfError(freq) = freq - back
  BY <1>5, <1>6 DEF IfError
<1>8. freq - back <= 489 /\ freq - back >= -489
  BY <1>4, <1>5, <1>6
<1>9. reg >= -4096 /\ reg < 4096
  BY <1>4, <1>5
<1>10. RegToIf(Channelizer(ctx, chain)) = back
  <2> DEFINE r == Channelizer(ctx, chain)
  <2>1. PICK h \in Int, l \in Nat : h = reg \div 256 /\ l = reg % 256 /\ reg = 256 * h + l /\ h >= -16 /\ h <= 15 /\ l < 256
    BY <1>9
  <2>2. PICK m \in Int : m = h % 32
    BY <2>1
  <2>3. r.msb = m /\ r.lsb = l
    <3>1. ctx.if[chain].freq = freq
      BY <1>1, <1>2
    <3>2. r = [radio |-> ctx.if[chain].rf, msb |-> (reg \div 256) % 32, lsb |-> reg % 256]
      BY <1>5, <3>1 DEF Channelizer
    <3>3. r.msb = (reg \div 256) % 32 /\ r.lsb = reg % 256
      <4> HIDE DEF r
      <4> QED
        BY <3>2
    <3> QED
      BY <2>1, <2>2, <3>3
  <2> HIDE DEF r
  <2>4. PICK n \in Int : n = 256 * m + l
    BY <2>1, <2>2
  <2>5. (IF n >= 4096 THEN n - 8192 ELSE n) = reg
    <3>1. (IF n >= 4096 THEN n - 8192 ELSE n) = 256 * h + l
      BY <2>1, <2>2, <2>4, ThirteenBits
    <3> QED
      BY <2>1, <3>1
  <2>6. 256 * r.msb + r.lsb = n
    BY <2>3, <2>4
  <2>7. RegToIf(r) = Quotient((IF n >= 4096 THEN n - 8192 ELSE n) * 15625, 32)
    BY <2>6 DEF RegToIf
  <2>8. RegToIf(r) = Quotient(reg * 15625, 32)
    BY <2>5, <2>7
  <2> QED
    BY <1>6, <2>8 DEF r
<1> QED
  BY <1>2, <1>3, <1>7, <1>8, <1>10 DEF HalfBand

\* A set of natural numbers that has an upper bound has a greatest element.
LEMMA Greatest ==
    ASSUME NEW T \in SUBSET Nat, NEW n \in Nat, \A x \in T : x <= n, T # {}
    PROVE  \E x \in T : \A y \in T : y <= x
<1> DEFINE D == {k \in Nat : k <= n /\ n - k \in T}
<1>1. D \in SUBSET Nat /\ D # {}
  <2>1. PICK x \in T : TRUE
    OBVIOUS
  <2>2. n - x \in Nat /\ n - x <= n /\ n - (n - x) = x
    BY <2>1
  <2> QED
    BY <2>1, <2>2
<1>2. PICK k \in D : \A m \in D : k <= m
  <2> HIDE DEF D
  <2> QED
    BY <1>1, Least
<1>3. n - k \in T
  OBVIOUS
<1>4. ASSUME NEW y \in T PROVE y <= n - k
  <2>1. n - y \in Nat /\ n - y <= n /\ n - (n - y) = y
    OBVIOUS
  <2>2. k <= n - y
    BY <1>2, <2>1
  <2> QED
    BY <2>2
<1> QED
  BY <1>3, <1>4

\* A gain table that is accepted, as sx1302_send finds it.
UsedTable(used) ==
  \E n \in Nat \ {0} :
    /\ DOMAIN used = 1 .. n /\ Len(used) = n
    /\ \A i \in 1 .. n : used[i].rf_power \in Int /\ GainInRange(used[i])

\* What is in use after a table has been accepted, be it the default, is one.
LEMMA TableUsed ==
    ASSUME NEW lut, GainTable(lut), ~ParseLut(HalDefault, 0, lut).error
    PROVE  UsedTable(ParseLut(HalDefault, 0, lut).lut[0])
<1> DEFINE ctx == ParseLut(HalDefault, 0, lut)
           s   == "pwr_idx" \in DOMAIN lut[1]
           new == [i \in DOMAIN lut |-> LutEntry(lut[i], s)]
<1>0. 0 \in RfChains /\ "lut" \in DOMAIN HalDefault /\ 0 \in DOMAIN HalDefault.lut /\ HalDefault.lut[0] = <<DefaultGain>>
  <2>1. 0 \in RfChains
    BY Zenon DEF RfChains
  <2> QED
    BY <2>1, HalFields, HalIf, Zenon
<1>1. CASE lut = <<>>
  <2>1. ctx.lut[0] = <<DefaultGain>>
    BY <1>0, <1>1, Zenon DEF ParseLut
  <2>2. DOMAIN <<DefaultGain>> = 1 .. 1 /\ Len(<<DefaultGain>>) = 1 /\ <<DefaultGain>>[1] = DefaultGain
    OBVIOUS
  <2>3. DefaultGain.rf_power \in Int /\ GainInRange(DefaultGain)
    BY DEF DefaultGain, GainInRange
  <2>4. UsedTable(<<DefaultGain>>)
    BY <2>2, <2>3 DEF UsedTable
  <2> QED
    BY <2>1, <2>4, Zenon
<1>2. CASE lut # <<>>
  <2>1. ctx = TxgainSetconf(HalDefault, 0, new)
    BY <1>2, Zenon DEF ParseLut
  <2>2. DOMAIN new = DOMAIN lut /\ \A i \in DOMAIN lut : new[i] = LutEntry(lut[i], s)
    BY Zenon
  <2> HIDE DEF ctx, new
  <2>3. ctx # Refused(HalDefault)
    <3>1. ~ctx.error
      BY Zenon DEF ctx
    <3> QED
      BY <3>1, HalRefuses, Zenon
  <2>4. /\ Len(new) \in 1 .. 16 /\ \A i \in DOMAIN new : GainInRange(new[i])
        /\ ctx = [HalDefault EXCEPT !.lut[0] = new]
    BY <2>1, <2>3, Zenon DEF TxgainSetconf
  <2>5. ctx.lut[0] = new
    <3> DEFINE both == [HalDefault.lut EXCEPT ![0] = new]
    <3>1. ctx = [HalDefault EXCEPT !["lut"] = both]
      BY <2>4, Zenon
    <3>2. both[0] = new
      BY <1>0, Changed
    <3> HIDE DEF both
    <3>3. ctx["lut"] = both
      BY <1>0, <3>1, Changed
    <3> QED
      BY <3>2, <3>3, Zenon
  <2>6. PICK n \in Nat : n = Len(lut) /\ DOMAIN lut = 1 .. n
    BY DEF GainTable
  <2>7. ASSUME NEW i \in DOMAIN lut PROVE new[i].rf_power \in Int
    <3>1. new[i].rf_power = Get(lut[i], "rf_power", 0)
      BY <2>2 DEF LutEntry
    <3>2. "rf_power" \in DOMAIN lut[i] => lut[i]["rf_power"] \in Int
      <4>1. "rf_power" \in GainFields
        BY Zenon DEF GainFields
      <4> QED
        BY <4>1, Zenon DEF GainTable
    <3> QED
      BY <3>1, <3>2 DEF Get
  <2>8. new \in Seq({new[i] : i \in 1 .. n})
    <3>1. new = [i \in 1 .. n |-> new[i]]
      BY <2>2, <2>6, Zenon DEF new
    <3>2. new \in [1 .. n -> {new[i] : i \in 1 .. n}]
      BY <3>1, Zenon
    <3> QED
      BY <3>2, SeqDef, Zenon
  <2>9. Len(new) \in Nat /\ DOMAIN new = 1 .. Len(new)
    BY <2>8, LenProperties
  <2>10. Len(new) # 0
    <3>1. Len(new) \in 1 .. 16
      BY <2>4, Zenon
    <3>2. 0 \notin 1 .. 16
      OBVIOUS
    <3> QED
      BY <3>1, <3>2, Zenon
  <2>11. \A i \in 1 .. Len(new) : new[i].rf_power \in Int /\ GainInRange(new[i])
    BY <2>2, <2>4, <2>7, <2>9, Zenon
  <2>12. UsedTable(new)
    <3>1. Len(new) \in Nat \ {0}
      BY <2>9, <2>10
    <3> QED
      BY <2>9, <2>11, <3>1, Zenon DEF UsedTable
  <2> QED
    BY <2>5, <2>12, Zenon DEF ctx
<1> QED
  BY <1>1, <1>2

Sorted(used) == \A i, j \in DOMAIN used : i < j => used[i].rf_power <= used[j].rf_power

\* Both searches of a sorted table come to entries of the same power.
LEMMA SearchesAgree ==
    ASSUME NEW used, UsedTable(used), Sorted(used), NEW asked \in Int,
           NEW chosen, chosen = Down!UsedPower([i \in DOMAIN used |-> used[i].rf_power], asked)
    PROVE  HalGain(used, chosen) \in DOMAIN used /\ used[HalGain(used, chosen)].rf_power = chosen
<1> DEFINE pw == [i \in DOMAIN used |-> used[i].rf_power]
           W  == Down!Within(pw, asked)
<1>1. PICK n \in Nat \ {0} : DOMAIN used = 1 .. n /\ Len(used) = n /\ \A i \in 1 .. n : used[i].rf_power \in Int
  BY DEF UsedTable
<1>2. DOMAIN pw = 1 .. n /\ \A i \in 1 .. n : pw[i] = used[i].rf_power /\ pw[i] \in Int
  BY <1>1, Zenon
<1>3. \A i, j \in 1 .. n : i <= j => pw[i] <= pw[j]
  BY <1>1, <1>2 DEF Sorted
<1>4. chosen = Down!UsedPower(pw, asked)
  BY Zenon
<1> HIDE DEF pw
<1>5. W = {i \in 1 .. n : pw[i] <= asked}
  BY <1>2, Zenon DEF Down!Within
<1>6. \E k \in 1 .. n : chosen = pw[k] /\ (k = 1 \/ k \in W)
  <2>1. CASE W = {}
    <3>1. chosen = pw[1]
      BY <1>4, <2>1, Zenon DEF Down!UsedPower, Down!GainIndex
    <3>2. 1 \in 1 .. n
      BY <1>1
    <3> QED
      BY <3>1, <3>2
  <2>2. CASE W # {}
    <3>1. PICK m \in W : \A y \in W : y <= m
      <4>1. W \in SUBSET Nat /\ \A x \in W : x <= n
        BY <1>5
      <4> HIDE DEF W
      <4> QED
        BY <1>1, <2>2, <4>1, Greatest
    <3> DEFINE S == {i \in W : pw[i] = pw[m]}
    <3>2. PICK k \in S : \A y \in S : k <= y
      <4>1. S \in SUBSET Nat /\ S # {}
        BY <1>5, <3>1
      <4> HIDE DEF S
      <4> QED
        BY <4>1, Least
    <3>3. k \in W /\ \A j \in W : pw[j] < pw[k] \/ (pw[j] = pw[k] /\ k <= j)
      <4>1. k \in W /\ pw[k] = pw[m] /\ m \in 1 .. n
        BY <1>5
      <4>2. ASSUME NEW j \in W PROVE pw[j] < pw[k] \/ (pw[j] = pw[k] /\ k <= j)
        <5>1. j \in 1 .. n /\ pw[j] <= pw[m] /\ pw[j] \in Int /\ pw[m] \in Int
          BY <1>2, <1>3, <1>5, <3>1, <4>1
        <5>2. CASE pw[j] = pw[m]
          BY <3>2, <4>1, <5>2
        <5>3. CASE pw[j] # pw[m]
          BY <4>1, <5>1, <5>3
        <5> QED
          BY <5>2, <5>3
      <4> QED
        BY <4>1, <4>2
    <3> DEFINE x == Down!GainIndex(pw, asked)
    <3>4. x = CHOOSE i \in W : \A j \in W : pw[j] < pw[i] \/ (pw[j] = pw[i] /\ i <= j)
      BY <2>2, Zenon DEF Down!GainIndex
    <3> HIDE DEF W, x
    <3>5. x \in W
      BY <3>3, <3>4, Zenon
    <3>6. x \in 1 .. n /\ x # 0
      BY <1>5, <3>5
    <3>7. chosen = pw[x]
      BY <1>4, <3>6, Zenon DEF Down!UsedPower, x
    <3> QED
      BY <3>5, <3>6, <3>7
  <2> QED
    BY <2>1, <2>2
<1>7. PICK k \in 1 .. n : chosen = pw[k] /\ (k = 1 \/ k \in W)
  BY <1>6
<1>8. chosen \in Int
  BY <1>2, <1>7
<1> DEFINE h == HalGain(used, chosen)
           A == {i \in 2 .. n : pw[i] <= chosen}
<1>9. CASE A = {}
  <2>1. \A i \in 2 .. n : ~(pw[i] <= chosen)
    <3>1. \A i \in 2 .. n : pw[i] <= chosen => i \in A
      OBVIOUS
    <3> HIDE DEF A
    <3> QED
      BY <1>9, <3>1, Zenon
  <2>2. 2 .. n \in SUBSET (1 .. n) /\ 2 .. Len(used) = 2 .. n
    BY <1>1
  <2> HIDE DEF A
  <2>3. ~\E i \in 2 .. Len(used) : used[i].rf_power <= chosen
    BY <1>2, <2>1, <2>2, Zenon
  <2>4. h = 1
    BY <2>3, Zenon DEF HalGain
  <2>5. k = 1
    <3>1. k # 1 => k \in 2 .. n
      OBVIOUS
    <3>2. pw[k] <= chosen
      BY <1>7, <1>8
    <3> QED
      BY <2>1, <3>1, <3>2, Zenon
  <2> HIDE DEF h
  <2>6. h \in DOMAIN used /\ used[h].rf_power = pw[1]
    <3>1. 1 \in 1 .. n
      BY <1>1
    <3> QED
      BY <1>1, <1>2, <2>4, <3>1, Zenon
  <2> QED
    BY <1>7, <2>5, <2>6, Zenon DEF h
<1>10. CASE A # {}
  <2>1. PICK m \in A : \A y \in A : y <= m
    <3>1. A \in SUBSET Nat /\ \A x \in A : x <= n
      OBVIOUS
    <3> HIDE DEF A
    <3> QED
      BY <1>1, <1>10, <3>1, Greatest
  <2>2. m \in 2 .. n /\ pw[m] <= chosen /\ \A j \in m + 1 .. n : pw[j] > chosen
    <3>1. m \in 2 .. n /\ pw[m] <= chosen
      OBVIOUS
    <3>2. ASSUME NEW j \in m + 1 .. n PROVE pw[j] > chosen
      <4>1. j \in 2 .. n /\ j > m /\ j \in 1 .. n
        BY <3>1
      <4>2. j \notin A
        BY <2>1, <3>1, <4>1
      <4> QED
        BY <1>2, <1>8, <4>1, <4>2
    <3> QED
      BY <3>1, <3>2
  <2>3. \E i \in 2 .. Len(used) : used[i].rf_power <= chosen
    <3>1. 2 .. n \in SUBSET (1 .. n) /\ 2 .. Len(used) = 2 .. n
      BY <1>1
    <3> HIDE DEF A
    <3> QED
      BY <1>2, <2>2, <3>1, Zenon
  <2>4. h = CHOOSE i \in 2 .. Len(used) : used[i].rf_power <= chosen /\ \A j \in i + 1 .. Len(used) : used[j].rf_power > chosen
    BY <2>3, Zenon DEF HalGain
  <2> HIDE DEF A, h
  <2>5. h \in 2 .. Len(used) /\ used[h].rf_power <= chosen /\ \A j \in h + 1 .. Len(used) : used[j].rf_power > chosen
    <3>1. m \in 2 .. Len(used) /\ used[m].rf_power <= chosen /\ \A j \in m + 1 .. Len(used) : used[j].rf_power > chosen
      BY <1>1, <1>2, <2>2
    <3> QED
      BY <2>4, <3>1, Zenon
  <2>6. h \in 1 .. n /\ pw[h] <= chosen /\ pw[h] \in Int
    BY <1>1, <1>2, <2>5
  <2>7. k <= h
    <3> SUFFICES ASSUME ~(k <= h) PROVE FALSE
      OBVIOUS
    <3>1. k \in h + 1 .. Len(used)
      BY <1>1, <2>6
    <3>2. pw[k] > chosen
      BY <1>2, <2>5, <3>1
    <3> QED
      BY <1>7, <1>8, <3>2
  <2>8. pw[k] <= pw[h]
    BY <1>3, <2>6, <2>7
  <2>9. pw[h] = chosen
    BY <1>7, <1>8, <2>6, <2>8
  <2> QED
    BY <1>1, <1>2, <2>6, <2>9 DEF h
<1> QED
  BY <1>9, <1>10

\* The register holds the entry.
LEMMA RegisterHolds ==
    ASSUME NEW g, GainInRange(g), NEW type
    PROVE  LET radio == PowerOf(type, PowerRegister(type, g))
           IN  /\ type = "SX1250" => radio.pwr_idx = g.pwr_idx /\ radio.pa = (g.pa_gain > 0)
               /\ type # "SX1250" => /\ radio.pa_gain = g.pa_gain /\ radio.dac_gain = g.dac_gain
                                     /\ radio.mix_gain = g.mix_gain
<1>1. PICK pa \in 0 .. 3, dac \in 0 .. 3, mix \in 5 .. 15, idx \in 0 .. 22 :
         pa = g.pa_gain /\ dac = g.dac_gain /\ mix = g.mix_gain /\ idx = g.pwr_idx
  BY DEF GainInRange
<1> DEFINE reg == PowerRegister(type, g)
           radio == PowerOf(type, reg)
<1>2. ASSUME type = "SX1250" PROVE radio.pwr_idx = idx /\ radio.pa = (pa > 0)
  <2>1. reg = (IF pa > 0 THEN 64 ELSE 0) + idx
    BY <1>1, <1>2 DEF PowerRegister
  <2>2. PICK r \in Nat : r = reg
    BY <2>1
  <2>3. r % 64 = idx /\ (r \div 64 > 0) = (pa > 0)
    BY <2>1, <2>2
  <2>4. radio = [pa |-> r \div 64 > 0, pwr_idx |-> r % 64]
    BY <1>2, <2>2 DEF PowerOf
  <2> HIDE DEF radio
  <2> QED
    BY <2>3, <2>4
<1>3. ASSUME type # "SX1250" PROVE radio.pa_gain = pa /\ radio.dac_gain = dac /\ radio.mix_gain = mix
  <2>1. reg = 64 * pa + 16 * dac + mix
    BY <1>1, <1>3 DEF PowerRegister
  <2>2. PICK r \in Nat : r = reg
    BY <2>1
  <2>3. r \div 64 = pa /\ (r \div 16) % 4 = dac /\ r % 16 = mix
    <3>1. r \div 16 = 4 * pa + dac /\ r % 16 = mix /\ r \div 64 = pa
      BY <2>1, <2>2
    <3>2. (4 * pa + dac) % 4 = dac
      OBVIOUS
    <3> QED
      BY <3>1, <3>2
  <2>4. radio = [pa_gain |-> r \div 64, dac_gain |-> (r \div 16) % 4, mix_gain |-> r % 16]
    BY <1>3, <2>2 DEF PowerOf
  <2> HIDE DEF radio
  <2> QED
    BY <2>3, <2>4
<1> QED
  BY <1>1, <1>2, <1>3

\* The power that is sent is the one that was reported.
LEMMA PowerAlwaysAgreed ==
    ASSUME NEW type, NEW lut, GainTable(lut), NEW asked \in Int
    PROVE  PowerAgreed(type, lut, asked)
<1> DEFINE ctx    == ParseLut(HalDefault, 0, lut)
           used   == ctx.lut[0]
           chosen == Down!UsedPower([i \in DOMAIN used |-> used[i].rf_power], asked)
           g      == used[HalGain(used, chosen)]
           radio  == PowerOf(type, PowerRegister(type, g))
<1> SUFFICES ASSUME ~ctx.error, Sorted(used)
             PROVE  /\ g.rf_power = chosen
                    /\ type = "SX1250" => radio.pwr_idx = g.pwr_idx /\ radio.pa = (g.pa_gain > 0)
                    /\ type # "SX1250" => /\ radio.pa_gain = g.pa_gain /\ radio.dac_gain = g.dac_gain
                                          /\ radio.mix_gain = g.mix_gain
  BY Zenon DEF PowerAgreed, Sorted
<1>1. UsedTable(used)
  BY TableUsed, Zenon
<1> HIDE DEF used
<1>2. HalGain(used, chosen) \in DOMAIN used /\ g.rf_power = chosen
  BY <1>1, SearchesAgree, Zenon
<1> HIDE DEF chosen
<1>3. GainInRange(g)
  BY <1>1, <1>2, Zenon DEF UsedTable
<1> HIDE DEF g
<1> QED
  BY <1>2, <1>3, RegisterHolds, Zenon DEF g

-----------------------------------------------------------------------------
(* Batches of packets.                                                       *)

\* What MergingAssumption says, as facts about whole numbers.
LEMMA CounterFacts == CounterTurn \in Nat /\ CounterTurn > 0 /\ Apart \in Nat
BY ComputingAssumption DEF Merge!MergingAssumption

\* How long after origin a packet came; half a turn.
After(origin, p) == (p.count - origin) % CounterTurn
Half == CounterTurn \div 2

\* A packet that came within half a turn from origin on.
Near(origin, p) == p \in Merge!RxPackets /\ After(origin, p) < Half

\* The fields of such a packet, as facts about whole numbers.
LEMMA NearFacts ==
    ASSUME NEW origin \in 0 .. CounterTurn - 1, NEW p, Near(origin, p)
    PROVE  /\ p.count \in 0 .. CounterTurn - 1 /\ p.crc_ok \in BOOLEAN /\ p.ftime \in BOOLEAN
           /\ After(origin, p) \in Nat /\ After(origin, p) < Half /\ Half \in Nat
<1>1. p.count \in 0 .. CounterTurn - 1 /\ p.crc_ok \in BOOLEAN /\ p.ftime \in BOOLEAN
  BY DEF Near, Merge!RxPackets
<1>2. p.count - origin \in Int
  BY <1>1
<1>3. After(origin, p) \in 0 .. CounterTurn - 1
  BY <1>2, CounterFacts, ModRange DEF After
<1>4. Half \in Nat
  BY CounterFacts DEF Half
<1>5. After(origin, p) \in Nat
  BY <1>3
<1> QED
  BY <1>1, <1>4, <1>5 DEF Near

\* The signed difference of two counters in a batch is that of the times since origin.
LEMMA SignedAfter ==
    ASSUME NEW origin \in 0 .. CounterTurn - 1, NEW p, Near(origin, p), NEW q, Near(origin, q)
    PROVE  Merge!Signed(p.count - q.count) = After(origin, p) - After(origin, q)
<1>1. PICK M \in Nat : M = CounterTurn /\ M > 0
  BY CounterFacts
<1>2. PICK a \in Int, b \in Int : a = p.count /\ b = q.count
  <2>1. p.count \in Int /\ q.count \in Int
    BY NearFacts
  <2> QED
    BY <2>1
<1>3. PICK o \in Int : o = origin
  OBVIOUS
<1>4. PICK h \in Nat : h = Half /\ h = M \div 2
  BY <1>1 DEF Half
<1>5. PICK x \in Nat, y \in Nat : x = After(origin, p) /\ y = After(origin, q) /\ x < h /\ y < h
  BY <1>4, NearFacts
<1>6. x = (a - o) % M /\ y = (b - o) % M
  BY <1>1, <1>2, <1>3, <1>5 DEF After
<1>7. PICK i \in Int : \E r \in 0 .. M - 1 : a - o = M * i + r /\ (a - o) % M = r
  <2>1. a - o \in Int
    OBVIOUS
  <2> QED
    BY <1>1, <2>1, ModParts
<1>8. PICK j \in Int : \E r \in 0 .. M - 1 : b - o = M * j + r /\ (b - o) % M = r
  <2>1. b - o \in Int
    OBVIOUS
  <2> QED
    BY <1>1, <2>1, ModParts
<1>9. a - o = M * i + x /\ b - o = M * j + y
  BY <1>6, <1>7, <1>8
<1>10. M * (i - j) = M * i - M * j /\ M * i \in Int /\ M * j \in Int
  BY Distribute
<1>11. PICK d \in Int : d = M * (i - j)
  BY <1>10
<1>12. (a - b) + h = d + ((x - y) + h)
  <2>1. PICK mi \in Int, mj \in Int : mi = M * i /\ mj = M * j
    BY <1>10
  <2>2. d = mi - mj /\ a - o = mi + x /\ b - o = mj + y
    BY <1>9, <1>10, <1>11, <2>1
  <2> QED
    BY <2>2
<1>13. (x - y) + h \in 0 .. M - 1
  <2>1. 2 * h <= M
    BY <1>1, <1>4
  <2> QED
    BY <1>5, <2>1
<1>14. ((a - b) + h) % M = (x - y) + h
  <2>1. i - j \in Int /\ (a - b) + h \in Int
    OBVIOUS
  <2>2. (a - b) + h = M * (i - j) + ((x - y) + h)
    BY <1>11, <1>12
  <2> QED
    BY <1>1, <1>13, <2>1, <2>2, ModUnique
<1>15. Merge!Signed(p.count - q.count) = (((a - b) + h) % M) - h
  BY <1>1, <1>2, <1>4 DEF Merge!Signed
<1>16. ((x - y) + h) - h = x - y
  OBVIOUS
<1> QED
  BY <1>5, <1>14, <1>15, <1>16

\* So the same packets are the same either way round, and the sort compares the times.
LEMMA SameEitherWay ==
    ASSUME NEW origin \in 0 .. CounterTurn - 1, NEW p, Near(origin, p), NEW q, Near(origin, q)
    PROVE  /\ Merge!IsSamePkt(p, q) => Merge!IsSamePkt(q, p)
           /\ Merge!Sooner(p, q) <=> After(origin, p) < After(origin, q)
<1>1. PICK x \in Nat, y \in Nat : x = After(origin, p) /\ y = After(origin, q)
  BY NearFacts
<1>2. Merge!Signed(p.count - q.count) = x - y /\ Merge!Signed(q.count - p.count) = y - x
  BY <1>1, SignedAfter
<1>3. x - y \in -Apart .. Apart => y - x \in -Apart .. Apart
  BY CounterFacts
<1>4. x - y < 0 <=> x < y
  OBVIOUS
<1> QED
  BY <1>1, <1>2, <1>3, <1>4 DEF Merge!IsSamePkt, Merge!Sooner

-----------------------------------------------------------------------------
(* Removing the duplicates.                                                  *)

\* Sequences of packets that came within half a turn from origin on.
Held(origin, t) ==
  /\ Len(t) \in Nat /\ DOMAIN t = 1 .. Len(t)
  /\ \A i \in DOMAIN t : Near(origin, t[i])

\* RemovePkt keeps all packets but the one, and adds none.
LEMMA RemoveKeeps ==
    ASSUME NEW t, Len(t) \in Nat, DOMAIN t = 1 .. Len(t), NEW d \in DOMAIN t
    PROVE  /\ Len(Merge!RemovePkt(t, d)) = Len(t) - 1 /\ Len(t) - 1 \in Nat
           /\ DOMAIN Merge!RemovePkt(t, d) = 1 .. Len(t) - 1
           /\ \A i \in DOMAIN Merge!RemovePkt(t, d) : \E j \in DOMAIN t : j # d /\ Merge!RemovePkt(t, d)[i] = t[j]
           /\ \A j \in DOMAIN t : j # d => \E i \in DOMAIN Merge!RemovePkt(t, d) : Merge!RemovePkt(t, d)[i] = t[j]
<1>1. PICK n \in Nat : n = Len(t) /\ DOMAIN t = 1 .. n
  OBVIOUS
<1>2. PICK u : u = Merge!RemovePkt(t, d)
  OBVIOUS
<1>3. u = [j \in 1 .. n - 1 |-> IF j = d THEN t[n] ELSE t[j]]
  BY <1>1, <1>2 DEF Merge!RemovePkt
<1>4. d \in 1 .. n /\ n - 1 \in Nat
  BY <1>1
<1>5. DOMAIN u = 1 .. n - 1 /\ Len(u) = n - 1
  BY <1>3, <1>4
<1>6. \A i \in 1 .. n - 1 : \E j \in 1 .. n : j # d /\ u[i] = t[j]
  <2> SUFFICES ASSUME NEW i \in 1 .. n - 1 PROVE \E j \in 1 .. n : j # d /\ u[i] = t[j]
    OBVIOUS
  <2>1. CASE i = d
    <3>1. n \in 1 .. n /\ n # d /\ u[i] = t[n]
      BY <1>3, <1>4, <2>1
    <3> QED
      BY <3>1
  <2>2. CASE i # d
    <3>1. i \in 1 .. n /\ u[i] = t[i]
      BY <1>3, <2>2
    <3> QED
      BY <2>2, <3>1
  <2> QED
    BY <2>1, <2>2
<1>7. \A j \in 1 .. n : j # d => \E i \in 1 .. n - 1 : u[i] = t[j]
  <2> SUFFICES ASSUME NEW j \in 1 .. n, j # d PROVE \E i \in 1 .. n - 1 : u[i] = t[j]
    OBVIOUS
  <2>1. CASE j = n
    <3>1. d \in 1 .. n - 1 /\ u[d] = t[n]
      BY <1>3, <1>4, <2>1
    <3> QED
      BY <2>1, <3>1
  <2>2. CASE j # n
    <3>1. j \in 1 .. n - 1 /\ u[j] = t[j]
      BY <1>3, <2>2
    <3> QED
      BY <3>1
  <2> QED
    BY <2>1, <2>2
<1>8. /\ Len(u) = Len(t) - 1 /\ Len(t) - 1 \in Nat /\ DOMAIN u = 1 .. Len(t) - 1
  BY <1>1, <1>4, <1>5
<1>9. /\ \A i \in DOMAIN u : \E j \in DOMAIN t : j # d /\ u[i] = t[j]
      /\ \A j \in DOMAIN t : j # d => \E i \in DOMAIN u : u[i] = t[j]
  BY <1>1, <1>5, <1>6, <1>7, Zenon
<1> QED
  BY <1>2, <1>8, <1>9, Zenon

\* So what came near origin still did.
LEMMA RemoveHeld ==
    ASSUME NEW origin, NEW t, Held(origin, t), NEW d \in DOMAIN t
    PROVE  Held(origin, Merge!RemovePkt(t, d))
<1>1. PICK u : u = Merge!RemovePkt(t, d)
  OBVIOUS
<1>2. Len(t) \in Nat /\ DOMAIN t = 1 .. Len(t)
  BY DEF Held
<1>3. /\ Len(u) = Len(t) - 1 /\ Len(t) - 1 \in Nat
      /\ DOMAIN u = 1 .. Len(t) - 1
      /\ \A i \in DOMAIN u : \E j \in DOMAIN t : u[i] = t[j]
  BY <1>1, <1>2, RemoveKeeps
<1>4. \A i \in DOMAIN u : Near(origin, u[i])
  BY <1>3 DEF Held
<1> QED
  BY <1>1, <1>3, <1>4 DEF Held

\* Of pairs of places, one is the first.
LEMMA FirstExists ==
    ASSUME NEW n \in Nat, NEW pairs \in SUBSET ((1 .. n) \X (1 .. n)), pairs # {}
    PROVE  Merge!FirstOf(pairs) \in pairs
<1> DEFINE Js == {j \in 1 .. n : \E k \in 1 .. n : <<j, k>> \in pairs}
<1>1. Js \in SUBSET Nat /\ Js # {}
  <2>1. PICK p \in pairs : TRUE
    OBVIOUS
  <2>2. p = <<p[1], p[2]>> /\ p[1] \in 1 .. n /\ p[2] \in 1 .. n
    BY <2>1
  <2> QED
    BY <2>1, <2>2
<1>2. PICK j \in Js : \A y \in Js : j <= y
  <2> HIDE DEF Js
  <2> QED
    BY <1>1, Least
<1> DEFINE Ks == {k \in 1 .. n : <<j, k>> \in pairs}
<1>3. Ks \in SUBSET Nat /\ Ks # {}
  <2>1. \E k \in 1 .. n : <<j, k>> \in pairs
    OBVIOUS
  <2> HIDE DEF Js
  <2>2. PICK k \in 1 .. n : <<j, k>> \in pairs
    BY <2>1
  <2>3. k \in Ks
    BY <2>2
  <2> QED
    BY <2>3
<1>4. PICK k \in Ks : \A y \in Ks : k <= y
  <2> HIDE DEF Ks
  <2> QED
    BY <1>3, Least
<1>5. <<j, k>> \in pairs /\ j \in 1 .. n /\ k \in 1 .. n
  OBVIOUS
<1>6. ASSUME NEW q \in pairs PROVE j < q[1] \/ (j = q[1] /\ k <= q[2])
  <2>1. PICK a \in 1 .. n, b \in 1 .. n : q = <<a, b>>
    OBVIOUS
  <2>2. a \in Js
    BY <2>1
  <2>3. j <= a
    BY <1>2, <2>2
  <2>4. j = a => b \in Ks
    BY <2>1
  <2>5. j = a => k <= b
    BY <1>4, <2>4
  <2> QED
    BY <1>5, <2>1, <2>3, <2>5
<1>7. \E p \in pairs : \A q \in pairs : p[1] < q[1] \/ (p[1] = q[1] /\ p[2] <= q[2])
  <2>1. PICK p : p = <<j, k>>
    OBVIOUS
  <2>2. p \in pairs /\ p[1] = j /\ p[2] = k
    BY <1>5, <2>1
  <2> QED
    BY <1>6, <2>2
<1> QED
  BY <1>7, Zenon DEF Merge!FirstOf

\* One search: it finds no pair and leaves all, or of a pair it removes one.
LEMMA SearchCases ==
    ASSUME NEW origin, NEW t, Held(origin, t)
    PROVE  \/ Merge!SamePairs(t) = {} /\ Merge!Search(t) = t
           \/ \E j, k \in DOMAIN t :
                /\ j < k /\ Merge!IsSamePkt(t[j], t[k])
                /\ Merge!Search(t) = Merge!RemovePkt(t, Merge!Duplicate(t, j, k))
<1>1. CASE Merge!SamePairs(t) = {}
  BY <1>1 DEF Merge!Search
<1>2. CASE Merge!SamePairs(t) # {}
  <2>1. PICK n \in Nat : DOMAIN t = 1 .. n
    BY DEF Held
  <2>2. PICK pairs : pairs = Merge!SamePairs(t)
    OBVIOUS
  <2>3. pairs \in SUBSET ((1 .. n) \X (1 .. n)) /\ pairs # {}
    BY <1>2, <2>1, <2>2 DEF Merge!SamePairs
  <2>4. PICK first : first = Merge!FirstOf(pairs) /\ first \in pairs
    BY <2>3, FirstExists
  <2>5. /\ first[1] \in DOMAIN t /\ first[2] \in DOMAIN t /\ first[1] < first[2]
        /\ Merge!IsSamePkt(t[first[1]], t[first[2]])
    BY <2>2, <2>4 DEF Merge!SamePairs
  <2>6. Merge!Search(t) = Merge!RemovePkt(t, Merge!Duplicate(t, first[1], first[2]))
    BY <1>2, <2>2, <2>4, Zenon DEF Merge!Search
  <2> QED
    BY <2>5, <2>6
<1> QED
  BY <1>1, <1>2

\* The removed packet is one of the two, and the other is as good: it passed the CRC if the
\* removed one did, and has a fine timestamp or at least the CRC for it.
LEMMA DuplicateIsWorse ==
    ASSUME NEW origin \in 0 .. CounterTurn - 1, NEW t, Held(origin, t),
           NEW j \in DOMAIN t, NEW k \in DOMAIN t, j < k
    PROVE  \E d, e \in {j, k} :
             /\ Merge!Duplicate(t, j, k) = d /\ d # e
             /\ t[d].crc_ok => t[e].crc_ok
             /\ t[d].ftime => t[e].ftime \/ (t[e].crc_ok /\ ~t[d].crc_ok)
<1>1. j # k
  BY DEF Held
<1>2. CASE t[j].crc_ok /\ ~t[k].crc_ok
  <2>1. Merge!Duplicate(t, j, k) = k
    BY <1>2, Zenon DEF Merge!Duplicate
  <2> QED
    BY <1>1, <1>2, <2>1, Zenon
<1>3. CASE ~t[j].crc_ok /\ t[k].crc_ok
  <2>1. Merge!Duplicate(t, j, k) = j
    BY <1>3, Zenon DEF Merge!Duplicate
  <2> QED
    BY <1>1, <1>3, <2>1, Zenon
<1>4. CASE ~(t[j].crc_ok /\ ~t[k].crc_ok) /\ ~(~t[j].crc_ok /\ t[k].crc_ok)
  <2>1. Merge!Duplicate(t, j, k) = IF t[j].ftime THEN k ELSE j
    BY <1>4, Zenon DEF Merge!Duplicate
  <2>2. CASE t[j].ftime
    <3>1. Merge!Duplicate(t, j, k) = k
      BY <2>1, <2>2, Zenon
    <3> QED
      BY <1>1, <1>4, <2>2, <3>1, Zenon
  <2>3. CASE ~t[j].ftime
    <3>1. Merge!Duplicate(t, j, k) = j
      BY <2>1, <2>3, Zenon
    <3> QED
      BY <1>1, <1>4, <2>3, <3>1, Zenon
  <2> QED
    BY <2>2, <2>3
<1> QED
  BY <1>2, <1>3, <1>4

\* Standing for a packet: each for itself, and one after the other.
LEMMA StandsForItself ==
    ASSUME NEW s, NEW i \in DOMAIN s
    PROVE  Merge!StandsFor(s, s[i], s[i])
<1>1. s[i] \in Merge!Twins(s, s[i])
  BY DEF Merge!Twins
<1> QED
  BY <1>1, Zenon DEF Merge!StandsFor

\* What stands for a packet that stands for another stands for that one as well.
LEMMA StandsForAll ==
    ASSUME NEW s, NEW p, NEW q, NEW r, Merge!StandsFor(s, p, q), Merge!StandsFor(s, q, r)
    PROVE  Merge!StandsFor(s, p, r)
<1>1. q \in Merge!Twins(s, p) /\ r \in Merge!Twins(s, q)
  BY Zenon DEF Merge!StandsFor
<1>2. r \in Merge!Twins(s, p)
  BY <1>1, Zenon DEF Merge!Twins
<1>3. /\ p.crc_ok => q.crc_ok
      /\ p.ftime => q.ftime \/ (q.crc_ok /\ ~p.crc_ok)
      /\ q.crc_ok => r.crc_ok
      /\ q.ftime => r.ftime \/ (r.crc_ok /\ ~q.crc_ok)
  BY Zenon DEF Merge!StandsFor
<1>4. /\ p.crc_ok => r.crc_ok
      /\ p.ftime => r.ftime \/ (r.crc_ok /\ ~p.crc_ok)
  BY <1>3, Zenon
<1> QED
  BY <1>2, <1>4, Zenon DEF Merge!StandsFor

\* The partner of a duplicate is its twin.
LEMMA PartnerIsTwin ==
    ASSUME NEW s, NEW p \in {s[i] : i \in DOMAIN s}, NEW q \in {s[i] : i \in DOMAIN s}, Merge!IsSamePkt(p, q)
    PROVE  q \in Merge!Twins(s, p)
<1> SUFFICES ASSUME NEW ps \in SUBSET {s[i] : i \in DOMAIN s}, p \in ps, Merge!Same(s, ps) \subseteq ps
             PROVE  q \in ps
  BY DEF Merge!Twins
<1>1. q \in Merge!Same(s, ps)
  BY Zenon DEF Merge!Same
<1> QED
  BY <1>1

\* What remains of batch s: packets of it, that stand for all of it.
Remain(s, t) ==
  /\ \A i \in DOMAIN t : t[i] \in {s[k] : k \in DOMAIN s}
  /\ Merge!BestTwinKept(s, t)

\* One search loses nothing.
LEMMA SearchKeeps ==
    ASSUME NEW origin \in 0 .. CounterTurn - 1, NEW s, NEW t, Held(origin, t), Remain(s, t)
    PROVE  /\ Held(origin, Merge!Search(t)) /\ Remain(s, Merge!Search(t))
           /\ \/ Merge!SamePairs(t) = {} /\ Merge!Search(t) = t
              \/ Len(Merge!Search(t)) = Len(t) - 1
<1>1. CASE Merge!SamePairs(t) = {} /\ Merge!Search(t) = t
  BY <1>1
<1>2. ASSUME NEW j \in DOMAIN t, NEW k \in DOMAIN t, j < k, Merge!IsSamePkt(t[j], t[k]),
             Merge!Search(t) = Merge!RemovePkt(t, Merge!Duplicate(t, j, k))
      PROVE  Held(origin, Merge!Search(t)) /\ Remain(s, Merge!Search(t)) /\ Len(Merge!Search(t)) = Len(t) - 1
  <2>1. PICK d \in {j, k}, e \in {j, k} :
             /\ Merge!Duplicate(t, j, k) = d /\ d # e
             /\ t[d].crc_ok => t[e].crc_ok
             /\ t[d].ftime => t[e].ftime \/ (t[e].crc_ok /\ ~t[d].crc_ok)
    BY <1>2, DuplicateIsWorse
  <2>2. d \in DOMAIN t /\ e \in DOMAIN t
    BY <1>2
  <2>3. PICK u : u = Merge!Search(t) /\ u = Merge!RemovePkt(t, d)
    BY <1>2, <2>1
  <2>4. Held(origin, u)
    BY <2>2, <2>3, RemoveHeld
  <2>5. Len(t) \in Nat /\ DOMAIN t = 1 .. Len(t)
    BY DEF Held
  <2>6. /\ Len(u) = Len(t) - 1
        /\ \A i \in DOMAIN u : \E h \in DOMAIN t : h # d /\ u[i] = t[h]
        /\ \A h \in DOMAIN t : h # d => \E i \in DOMAIN u : u[i] = t[h]
    <3> DEFINE w == Merge!RemovePkt(t, d)
    <3>1. /\ Len(w) = Len(t) - 1
          /\ \A i \in DOMAIN w : \E h \in DOMAIN t : h # d /\ w[i] = t[h]
          /\ \A h \in DOMAIN t : h # d => \E i \in DOMAIN w : w[i] = t[h]
      BY <2>2, <2>5, RemoveKeeps
    <3>2. u = w
      BY <2>3
    <3> HIDE DEF w
    <3> QED
      BY <3>1, <3>2
  <2>7. Merge!IsSamePkt(t[d], t[e])
    <3>1. Near(origin, t[j]) /\ Near(origin, t[k])
      BY <1>2 DEF Held
    <3>2. Merge!IsSamePkt(t[k], t[j])
      BY <1>2, <3>1, SameEitherWay
    <3>3. (d = j /\ e = k) \/ (d = k /\ e = j)
      BY <2>1
    <3> QED
      BY <1>2, <3>2, <3>3, Zenon
  <2>8. Merge!StandsFor(s, t[d], t[e])
    <3>1. t[d] \in {s[i] : i \in DOMAIN s} /\ t[e] \in {s[i] : i \in DOMAIN s}
      BY <2>2 DEF Remain
    <3>2. t[e] \in Merge!Twins(s, t[d])
      BY <2>7, <3>1, PartnerIsTwin
    <3> QED
      BY <2>1, <3>2, Zenon DEF Merge!StandsFor
  <2>9. ASSUME NEW i \in DOMAIN s PROVE \E h \in DOMAIN u : Merge!StandsFor(s, s[i], u[h])
    <3>1. PICK g \in DOMAIN t : Merge!StandsFor(s, s[i], t[g])
      BY Zenon DEF Remain, Merge!BestTwinKept
    <3>2. PICK f \in DOMAIN t : f # d /\ Merge!StandsFor(s, s[i], t[f])
      <4>1. CASE g # d
        BY <3>1, <4>1
      <4>2. CASE g = d
        <5>1. Merge!StandsFor(s, s[i], t[e])
          BY <2>8, <3>1, <4>2, StandsForAll, Zenon
        <5> QED
          BY <2>1, <2>2, <5>1, Zenon
      <4> QED
        BY <4>1, <4>2
    <3>3. PICK h \in DOMAIN u : u[h] = t[f]
      BY <2>6, <3>2
    <3> QED
      BY <3>2, <3>3, Zenon
  <2>10. \A i \in DOMAIN u : u[i] \in {s[h] : h \in DOMAIN s}
    <3> SUFFICES ASSUME NEW i \in DOMAIN u PROVE u[i] \in {s[h] : h \in DOMAIN s}
      OBVIOUS
    <3>1. PICK h \in DOMAIN t : u[i] = t[h]
      BY <2>6
    <3> QED
      BY <3>1, Zenon DEF Remain
  <2>11. Remain(s, u)
    BY <2>9, <2>10, Zenon DEF Remain, Merge!BestTwinKept
  <2> QED
    BY <2>3, <2>4, <2>6, <2>11
<1>3. \/ Merge!SamePairs(t) = {} /\ Merge!Search(t) = t
      \/ \E j, k \in DOMAIN t :
           /\ j < k /\ Merge!IsSamePkt(t[j], t[k])
           /\ Merge!Search(t) = Merge!RemovePkt(t, Merge!Duplicate(t, j, k))
  BY SearchCases
<1> QED
  BY <1>1, <1>2, <1>3, Zenon

\* f is the batch after each of the first m searches.
Searched(f, s, m) == f = [k \in 0 .. m |-> IF k = 0 THEN s ELSE Merge!Search(f[k - 1])]

\* There is one, so Deduplicated is what its definition says.
LEMMA SearchedExists ==
    ASSUME NEW s, NEW n \in Nat
    PROVE  \E f : Searched(f, s, n)
<1> DEFINE Exists(j) == \E f : Searched(f, s, j)
           Bad == {j \in 0 .. n : ~Exists(j)}
<1>1. Exists(0)
  <2> DEFINE f == [k \in 0 .. 0 |-> s]
  <2>1. f = [k \in 0 .. 0 |-> IF k = 0 THEN s ELSE Merge!Search(f[k - 1])]
    OBVIOUS
  <2> QED
    BY <2>1 DEF Searched
<1>2. ASSUME NEW j \in 1 .. n, Exists(j - 1) PROVE Exists(j)
  <2>1. PICK f : f = [k \in 0 .. j - 1 |-> IF k = 0 THEN s ELSE Merge!Search(f[k - 1])]
    BY <1>2 DEF Searched
  <2> DEFINE g == [k \in 0 .. j |-> IF k = j THEN Merge!Search(f[j - 1]) ELSE f[k]]
             h == [k \in 0 .. j |-> IF k = 0 THEN s ELSE Merge!Search(g[k - 1])]
  <2>2. ASSUME NEW k \in 0 .. j PROVE g[k] = h[k]
    <3>1. CASE k = j
      BY <3>1
    <3>2. CASE k # j /\ k # 0
      <4>1. f[k] = Merge!Search(f[k - 1])
        BY <2>1, <3>2
      <4>2. g[k] = f[k] /\ g[k - 1] = f[k - 1]
        BY <3>2
      <4> QED
        BY <4>1, <4>2, <3>2
    <3>3. CASE k = 0
      BY <3>3, <2>1
    <3> QED
      BY <3>1, <3>2, <3>3
  <2>3. g = h
    BY <2>2
  <2> HIDE DEF g
  <2>4. Searched(g, s, j)
    BY <2>3 DEF Searched
  <2> QED
    BY <2>4
<1> HIDE DEF Exists
<1>3. Bad = {}
  <2> SUFFICES ASSUME Bad # {} PROVE FALSE
    OBVIOUS
  <2>1. Bad \in SUBSET Nat
    OBVIOUS
  <2>2. PICK j \in Bad : \A i \in Bad : j <= i
    <3> HIDE DEF Bad
    <3> QED
      BY <2>1, Least
  <2>3. j # 0 /\ j \in 1 .. n
    BY <1>1
  <2>4. j - 1 \in 0 .. n /\ j - 1 \notin Bad
    BY <2>2, <2>3
  <2> QED
    BY <2>3, <2>4, <1>2
<1>4. Exists(n)
  BY <1>3
<1> QED
  BY <1>4 DEF Exists

\* After as many searches as there are packets, no two of those that remain are the same: each
\* search either finds no pair or leaves one packet less.
LEMMA DeduplicatedRemains ==
    ASSUME NEW origin \in 0 .. CounterTurn - 1, NEW s, Held(origin, s)
    PROVE  /\ Held(origin, Merge!Deduplicated(s)) /\ Remain(s, Merge!Deduplicated(s))
           /\ Merge!SamePairs(Merge!Deduplicated(s)) = {}
<1>1. PICK n \in Nat : n = Len(s)
  BY DEF Held
<1> DEFINE Run == CHOOSE f : f = [k \in 0 .. Len(s) |-> IF k = 0 THEN s ELSE Merge!Search(f[k - 1])]
<1>2. Run = [k \in 0 .. Len(s) |-> IF k = 0 THEN s ELSE Merge!Search(Run[k - 1])]
  <2>1. \E f : Searched(f, s, Len(s))
    BY <1>1, SearchedExists
  <2> QED
    BY <2>1 DEF Searched
<1>3. Merge!Deduplicated(s) = Run[n]
  BY <1>1 DEF Merge!Deduplicated
<1> HIDE DEF Run
<1>4. Run[0] = s /\ \A k \in 1 .. n : Run[k] = Merge!Search(Run[k - 1])
  BY <1>1, <1>2
<1> DEFINE Good(k) == /\ Held(origin, Run[k]) /\ Remain(s, Run[k])
                      /\ Merge!SamePairs(Run[k]) = {} \/ Len(Run[k]) = n - k
           Bad == {k \in 0 .. n : ~Good(k)}
<1>5. Good(0)
  <2>1. \A i \in DOMAIN s : \E j \in DOMAIN s : Merge!StandsFor(s, s[i], s[j])
    BY StandsForItself, Zenon
  <2>2. Remain(s, s)
    BY <2>1 DEF Remain, Merge!BestTwinKept
  <2>3. n - 0 = n
    OBVIOUS
  <2> QED
    BY <1>1, <1>4, <2>2, <2>3
<1>6. ASSUME NEW k \in 1 .. n, Good(k - 1) PROVE Good(k)
  <2>1. PICK t : t = Run[k - 1] /\ Run[k] = Merge!Search(t)
    BY <1>4
  <2>2. Held(origin, t) /\ Remain(s, t) /\ (Merge!SamePairs(t) = {} \/ Len(t) = n - (k - 1))
    BY <1>6, <2>1
  <2>3. /\ Held(origin, Merge!Search(t)) /\ Remain(s, Merge!Search(t))
        /\ \/ Merge!SamePairs(t) = {} /\ Merge!Search(t) = t
           \/ Len(Merge!Search(t)) = Len(t) - 1
    BY <2>2, SearchKeeps
  <2>4. CASE Merge!SamePairs(t) = {} /\ Merge!Search(t) = t
    BY <2>1, <2>3, <2>4
  <2>5. CASE Merge!SamePairs(t) # {} /\ Len(Merge!Search(t)) = Len(t) - 1
    <3>1. Len(t) = n - (k - 1)
      BY <2>2, <2>5
    <3>2. (n - (k - 1)) - 1 = n - k
      OBVIOUS
    <3> QED
      BY <2>1, <2>3, <2>5, <3>1, <3>2
  <2>6. CASE Merge!SamePairs(t) = {}
    <3>1. Merge!Search(t) = t
      BY <2>6, Zenon DEF Merge!Search
    <3> QED
      BY <2>1, <2>3, <2>6, <3>1
  <2> QED
    BY <2>3, <2>4, <2>5, <2>6
<1> HIDE DEF Good
<1>7. Bad = {}
  <2> SUFFICES ASSUME Bad # {} PROVE FALSE
    OBVIOUS
  <2>1. Bad \in SUBSET Nat
    OBVIOUS
  <2>2. PICK j \in Bad : \A i \in Bad : j <= i
    <3> HIDE DEF Bad
    <3> QED
      BY <2>1, Least
  <2>3. j # 0 /\ j \in 1 .. n
    BY <1>5
  <2>4. j - 1 \in 0 .. n /\ j - 1 \notin Bad
    BY <2>2, <2>3
  <2> QED
    BY <2>3, <2>4, <1>6
<1>8. Good(n)
  BY <1>7
<1>9. PICK t : t = Run[n]
  OBVIOUS
<1>10. Held(origin, t) /\ Remain(s, t) /\ (Merge!SamePairs(t) = {} \/ Len(t) = n - n)
  BY <1>8, <1>9 DEF Good
<1>11. Len(t) = n - n => Merge!SamePairs(t) = {}
  <2> SUFFICES ASSUME Len(t) = n - n PROVE Merge!SamePairs(t) = {}
    OBVIOUS
  <2>1. DOMAIN t = {}
    BY <1>10 DEF Held
  <2> QED
    BY <2>1 DEF Merge!SamePairs
<1> QED
  BY <1>3, <1>9, <1>10, <1>11

-----------------------------------------------------------------------------
(* Sorting what remains.                                                     *)

\* f arranges 1 .. n anew.
Rearranges(f, n) ==
  /\ f \in [1 .. n -> 1 .. n]
  /\ \A i, j \in 1 .. n : f[i] = f[j] => i = j
  /\ \A j \in 1 .. n : \E i \in 1 .. n : f[i] = j

\* t, arranged by f, is in the order of the times since origin.
Ordered(origin, t, f) ==
  \A i \in 1 .. Len(t) - 1 : After(origin, t[f[i]]) <= After(origin, t[f[i + 1]])

\* What qsort_r may leave, so described.
LEMMA SortedAs ==
    ASSUME NEW origin \in 0 .. CounterTurn - 1, NEW t, Held(origin, t), NEW u
    PROVE  u \in Merge!Sorted(t)
             <=> \E f : /\ Rearranges(f, Len(t)) /\ Ordered(origin, t, f)
                        /\ u = [i \in 1 .. Len(t) |-> t[f[i]]]
<1>1. PICK n \in Nat : n = Len(t) /\ DOMAIN t = 1 .. n
  BY DEF Held
<1>2. ASSUME NEW f PROVE f \in Merge!Bijection(1 .. n, 1 .. n) <=> Rearranges(f, n)
  BY DEF Rearranges, Merge!Bijection, Merge!Injection, Merge!Surjection, Merge!IsInjective
<1>3. ASSUME NEW f, Rearranges(f, n), NEW w, w = [i \in 1 .. n |-> t[f[i]]]
      PROVE  (\A i \in 1 .. Len(w) - 1 : ~Merge!Sooner(w[i + 1], w[i])) <=> Ordered(origin, t, f)
  <2>1. Len(w) = n
    BY <1>3
  <2>2. ASSUME NEW i \in 1 .. n - 1
        PROVE  ~Merge!Sooner(w[i + 1], w[i]) <=> After(origin, t[f[i]]) <= After(origin, t[f[i + 1]])
    <3>1. i \in 1 .. n /\ i + 1 \in 1 .. n
      OBVIOUS
    <3>2. PICK a \in 1 .. n, b \in 1 .. n : a = f[i] /\ b = f[i + 1]
      BY <1>3, <3>1 DEF Rearranges
    <3>3. w[i] = t[a] /\ w[i + 1] = t[b]
      BY <1>3, <3>1, <3>2
    <3>4. Near(origin, t[a]) /\ Near(origin, t[b])
      BY <1>1, <3>2 DEF Held
    <3>5. Merge!Sooner(t[b], t[a]) <=> After(origin, t[b]) < After(origin, t[a])
      BY <3>4, SameEitherWay
    <3>6. PICK x \in Nat, y \in Nat : x = After(origin, t[a]) /\ y = After(origin, t[b])
      BY <3>4, NearFacts
    <3>7. ~(y < x) <=> x <= y
      OBVIOUS
    <3> QED
      BY <3>2, <3>3, <3>5, <3>6, <3>7
  <2> QED
    BY <1>1, <2>1, <2>2 DEF Ordered
<1>4. u \in Merge!Sorted(t)
        <=> /\ \E f \in Merge!Bijection(1 .. n, 1 .. n) : u = [i \in 1 .. n |-> t[f[i]]]
            /\ \A i \in 1 .. Len(u) - 1 : ~Merge!Sooner(u[i + 1], u[i])
  <2> DEFINE All == {[i \in DOMAIN t |-> t[f[i]]] : f \in Merge!Bijection(DOMAIN t, DOMAIN t)}
  <2>1. u \in Merge!Sorted(t) <=> u \in All /\ \A i \in 1 .. Len(u) - 1 : ~Merge!Sooner(u[i + 1], u[i])
    BY Zenon DEF Merge!Sorted
  <2>2. u \in All <=> \E f \in Merge!Bijection(DOMAIN t, DOMAIN t) : u = [i \in DOMAIN t |-> t[f[i]]]
    BY Zenon
  <2> HIDE DEF All
  <2>3. DOMAIN t = 1 .. n
    BY <1>1
  <2> QED
    BY <2>1, <2>2, <2>3
<1>5. u \in Merge!Sorted(t)
        <=> \E f : /\ Rearranges(f, n) /\ u = [i \in 1 .. n |-> t[f[i]]]
                   /\ \A i \in 1 .. Len(u) - 1 : ~Merge!Sooner(u[i + 1], u[i])
  BY <1>2, <1>4, Zenon
<1> QED
  BY <1>1, <1>3, <1>5, Zenon

\* A packet that came last.
LEMMA LastExists ==
    ASSUME NEW origin \in 0 .. CounterTurn - 1, NEW t, Held(origin, t), Len(t) > 0
    PROVE  \E k \in DOMAIN t : \A i \in DOMAIN t : After(origin, t[i]) <= After(origin, t[k])
<1> DEFINE T == {After(origin, t[i]) : i \in DOMAIN t}
<1>1. \A i \in DOMAIN t : After(origin, t[i]) \in Nat /\ After(origin, t[i]) <= Half
  <2> SUFFICES ASSUME NEW i \in DOMAIN t PROVE After(origin, t[i]) \in Nat /\ After(origin, t[i]) <= Half
    OBVIOUS
  <2>1. Near(origin, t[i])
    BY DEF Held
  <2> QED
    BY <2>1, NearFacts
<1>2. 1 \in DOMAIN t
  BY DEF Held
<1>3. T \in SUBSET Nat /\ (\A x \in T : x <= Half) /\ T # {} /\ Half \in Nat
  <2>1. Half \in Nat
    BY CounterFacts DEF Half
  <2> QED
    BY <1>1, <1>2, <2>1
<1>4. PICK x \in T : \A y \in T : y <= x
  <2> HIDE DEF T
  <2> QED
    BY <1>3, Greatest
<1>5. PICK k \in DOMAIN t : x = After(origin, t[k])
  OBVIOUS
<1>6. \A i \in DOMAIN t : After(origin, t[i]) <= x
  BY <1>4
<1> QED
  BY <1>5, <1>6

\* The packets can be sorted: a last one goes to the end of the others, sorted.
LEMMA OrderExists ==
    ASSUME NEW origin \in 0 .. CounterTurn - 1, NEW s, Held(origin, s)
    PROVE  \E f : Rearranges(f, Len(s)) /\ Ordered(origin, s, f)
<1> DEFINE Unsortable(t) == Held(origin, t) /\ ~\E f : Rearranges(f, Len(t)) /\ Ordered(origin, t, f)
           T == {n \in Nat : \E t : Len(t) = n /\ Unsortable(t)}
<1>1. T = {}
  <2> SUFFICES ASSUME T # {} PROVE FALSE
    OBVIOUS
  <2>1. PICK n \in T : \A y \in T : n <= y
    <3>1. T \in SUBSET Nat
      OBVIOUS
    <3> HIDE DEF T
    <3> QED
      BY <3>1, Least
  <2>2. n \in Nat /\ \E t : Len(t) = n /\ Unsortable(t)
    OBVIOUS
  <2>3. PICK t : Len(t) = n /\ Unsortable(t)
    BY <2>2
  <2>4. Held(origin, t) /\ DOMAIN t = 1 .. n
    BY <2>3 DEF Held
  <2>5. n # 0
    <3> SUFFICES ASSUME n = 0 PROVE FALSE
      OBVIOUS
    <3>1. Rearranges([i \in 1 .. 0 |-> i], 0)
      BY DEF Rearranges
    <3>2. Ordered(origin, t, [i \in 1 .. 0 |-> i])
      BY <2>3 DEF Ordered
    <3> QED
      BY <2>3, <3>1, <3>2
  <2>6. PICK k \in 1 .. n : \A i \in 1 .. n : After(origin, t[i]) <= After(origin, t[k])
    <3>1. Len(t) > 0
      BY <2>2, <2>3, <2>5
    <3> QED
      BY <2>4, <3>1, LastExists
  <2>7. n - 1 \in Nat /\ n - 1 \notin T
    BY <2>1, <2>2, <2>5
  <2> DEFINE w == Merge!RemovePkt(t, k)
  <2>8. Held(origin, w) /\ Len(w) = n - 1
    BY <2>2, <2>3, <2>4, RemoveHeld, RemoveKeeps
  <2>9. PICK g : Rearranges(g, n - 1) /\ Ordered(origin, w, g)
    BY <2>7, <2>8
  <2>10. \A i \in 1 .. n - 1 : w[i] = IF i = k THEN t[n] ELSE t[i]
    BY <2>2, <2>3 DEF Merge!RemovePkt
  <2> HIDE DEF w, T, Unsortable
  <2> DEFINE e == [i \in 1 .. n - 1 |-> IF i = k THEN n ELSE i]
             f == [i \in 1 .. n |-> IF i = n THEN k ELSE e[g[i]]]
  <2>11. n \in Nat /\ n > 0
    BY <2>2, <2>5
  <2>12. /\ e \in [1 .. n - 1 -> 1 .. n]
         /\ \A i, j \in 1 .. n - 1 : e[i] = e[j] => i = j
         /\ \A i \in 1 .. n - 1 : e[i] # k /\ w[i] = t[e[i]]
         /\ \A j \in 1 .. n : j # k => \E i \in 1 .. n - 1 : e[i] = j
    <3>1. /\ e \in [1 .. n - 1 -> 1 .. n]
          /\ \A i, j \in 1 .. n - 1 : e[i] = e[j] => i = j
          /\ \A i \in 1 .. n - 1 : e[i] # k
      BY <2>11
    <3>2. \A i \in 1 .. n - 1 : w[i] = t[e[i]]
      BY <2>10, <2>11
    <3>3. ASSUME NEW j \in 1 .. n, j # k PROVE \E i \in 1 .. n - 1 : e[i] = j
      <4>1. CASE j = n
        <5>1. k \in 1 .. n - 1 /\ e[k] = n
          BY <2>11, <3>3, <4>1
        <5> QED
          BY <4>1, <5>1
      <4>2. CASE j # n
        <5>1. j \in 1 .. n - 1 /\ e[j] = j
          BY <2>11, <3>3, <4>2
        <5> QED
          BY <5>1
      <4> QED
        BY <4>1, <4>2
    <3> QED
      BY <3>1, <3>2, <3>3
  <2> HIDE DEF e
  <2>13. /\ g \in [1 .. n - 1 -> 1 .. n - 1]
         /\ \A i, j \in 1 .. n - 1 : g[i] = g[j] => i = j
         /\ \A j \in 1 .. n - 1 : \E i \in 1 .. n - 1 : g[i] = j
    BY <2>9 DEF Rearranges
  <2>14. f[n] = k /\ \A i \in 1 .. n - 1 : f[i] = e[g[i]] /\ f[i] # k
    <3>1. n \in 1 .. n /\ f[n] = k
      BY <2>11
    <3>2. ASSUME NEW i \in 1 .. n - 1 PROVE f[i] = e[g[i]] /\ f[i] # k
      <4>1. i \in 1 .. n /\ i # n
        BY <2>11
      <4>2. g[i] \in 1 .. n - 1
        BY <2>13
      <4> QED
        BY <4>1, <4>2, <2>12
    <3> QED
      BY <3>1, <3>2
  <2>15. f \in [1 .. n -> 1 .. n]
    <3> SUFFICES ASSUME NEW i \in 1 .. n PROVE (IF i = n THEN k ELSE e[g[i]]) \in 1 .. n
      OBVIOUS
    <3>1. CASE i = n
      BY <3>1
    <3>2. CASE i # n
      <4>1. i \in 1 .. n - 1
        BY <2>11, <3>2
      <4>2. g[i] \in 1 .. n - 1
        BY <2>13, <4>1
      <4> QED
        BY <2>12, <3>2, <4>2
    <3> QED
      BY <3>1, <3>2
  <2> HIDE DEF f
  <2>16. \A i \in 1 .. n : i = n \/ i \in 1 .. n - 1
    BY <2>11
  <2>17. ASSUME NEW i \in 1 .. n, NEW j \in 1 .. n, f[i] = f[j] PROVE i = j
    <3>1. CASE i \in 1 .. n - 1 /\ j \in 1 .. n - 1
      <4>1. g[i] \in 1 .. n - 1 /\ g[j] \in 1 .. n - 1 /\ e[g[i]] = e[g[j]]
        BY <2>13, <2>14, <2>17, <3>1
      <4>2. g[i] = g[j]
        BY <2>12, <4>1
      <4> QED
        BY <2>13, <3>1, <4>2
    <3> QED
      BY <2>14, <2>16, <2>17, <3>1
  <2>18. ASSUME NEW j \in 1 .. n PROVE \E i \in 1 .. n : f[i] = j
    <3>1. CASE j = k
      <4>1. n \in 1 .. n
        BY <2>11
      <4> QED
        BY <2>14, <3>1, <4>1
    <3>2. CASE j # k
      <4>1. PICK h \in 1 .. n - 1 : e[h] = j
        BY <2>12, <3>2
      <4>2. PICK i \in 1 .. n - 1 : g[i] = h
        BY <2>13
      <4>3. i \in 1 .. n /\ f[i] = j
        BY <2>11, <2>14, <4>1, <4>2
      <4> QED
        BY <4>3
    <3> QED
      BY <3>1, <3>2
  <2>19. Rearranges(f, n)
    BY <2>15, <2>17, <2>18 DEF Rearranges
  <2>20. ASSUME NEW i \in 1 .. n - 1 PROVE After(origin, t[f[i]]) <= After(origin, t[f[i + 1]])
    <3>1. i \in 1 .. n /\ i + 1 \in 1 .. n
      BY <2>11
    <3>2. CASE i + 1 = n
      BY <2>6, <2>14, <2>15, <3>1, <3>2
    <3>3. CASE i + 1 # n
      <4>1. i \in 1 .. (n - 1) - 1 /\ i + 1 \in 1 .. n - 1
        BY <2>11, <3>3
      <4>2. After(origin, w[g[i]]) <= After(origin, w[g[i + 1]])
        BY <2>8, <2>9, <4>1 DEF Ordered
      <4>3. g[i] \in 1 .. n - 1 /\ g[i + 1] \in 1 .. n - 1
        BY <2>13, <4>1
      <4>4. w[g[i]] = t[f[i]] /\ w[g[i + 1]] = t[f[i + 1]]
        BY <2>12, <2>14, <4>1, <4>3
      <4> QED
        BY <4>2, <4>4
    <3> QED
      BY <3>2, <3>3
  <2>21. Ordered(origin, t, f)
    BY <2>3, <2>20 DEF Ordered
  <2> QED
    BY <2>3, <2>19, <2>21 DEF Unsortable
<1>2. Len(s) \in Nat
  BY DEF Held
<1> QED
  BY <1>1, <1>2

\* Numbers none of which is above the next.
LEMMA NeverFalls ==
    ASSUME NEW n \in Nat, NEW f \in [1 .. n -> Nat],
           \A i \in 1 .. n - 1 : f[i] <= f[i + 1]
    PROVE  \A i, j \in 1 .. n : i < j => f[i] <= f[j]
<1> SUFFICES ASSUME NEW i \in 1 .. n, NEW k \in 1 .. n, i < k, ~(f[i] <= f[k])
             PROVE  FALSE
  OBVIOUS
<1> DEFINE T == {j \in 1 .. n : i < j /\ ~(f[i] <= f[j])}
<1>1. T \in SUBSET Nat /\ k \in T
  OBVIOUS
<1>2. PICK j \in T : \A y \in T : j <= y
  <2> HIDE DEF T
  <2> QED
    BY <1>1, Least
<1>3. j \in 1 .. n /\ i < j /\ ~(f[i] <= f[j])
  OBVIOUS
<1>4. CASE j = i + 1
  BY <1>3, <1>4
<1>5. CASE j # i + 1
  <2>1. j - 1 \in 1 .. n - 1 /\ j - 1 \in 1 .. n /\ i < j - 1 /\ (j - 1) + 1 = j /\ ~(j <= j - 1)
    BY <1>3, <1>5
  <2>2. j - 1 \notin T
    <3> HIDE DEF T
    <3> QED
      BY <1>2, <2>1
  <2>3. f[i] <= f[j - 1]
    BY <2>1, <2>2
  <2>4. f[j - 1] <= f[j]
    BY <2>1
  <2>5. f[i] \in Nat /\ f[j - 1] \in Nat /\ f[j] \in Nat
    BY <1>3, <2>1
  <2> HIDE DEF T
  <2> QED
    BY <1>3, <2>3, <2>4, <2>5
<1> QED
  BY <1>4, <1>5

\* An arrangement of packets that are not the same holds no two that are.
LEMMA ArrangedNoTwins ==
    ASSUME NEW origin \in 0 .. CounterTurn - 1, NEW t, Held(origin, t), Merge!SamePairs(t) = {},
           NEW f, Rearranges(f, Len(t)), NEW u, u = [i \in 1 .. Len(t) |-> t[f[i]]]
    PROVE  Merge!NoTwinsLeft(u)
<1>1. PICK n \in Nat : n = Len(t) /\ DOMAIN t = 1 .. n
  BY DEF Held
<1>2. DOMAIN u = 1 .. n
  BY <1>1
<1>3. ASSUME NEW a \in 1 .. n, NEW b \in 1 .. n, a < b PROVE ~Merge!IsSamePkt(t[a], t[b])
  <2> SUFFICES ASSUME Merge!IsSamePkt(t[a], t[b]) PROVE FALSE
    OBVIOUS
  <2>1. <<a, b>> \in (DOMAIN t) \X (DOMAIN t) /\ <<a, b>>[1] = a /\ <<a, b>>[2] = b
    BY <1>1
  <2>2. <<a, b>> \in Merge!SamePairs(t)
    BY <1>3, <2>1 DEF Merge!SamePairs
  <2> QED
    BY <2>2
<1>4. ASSUME NEW i \in 1 .. n, NEW j \in 1 .. n, i # j PROVE ~Merge!IsSamePkt(u[i], u[j])
  <2>1. PICK a \in 1 .. n, b \in 1 .. n : a = f[i] /\ b = f[j] /\ a # b
    <3>1. f[i] \in 1 .. n /\ f[j] \in 1 .. n
      BY <1>1 DEF Rearranges
    <3>2. f[i] # f[j]
      BY <1>1, <1>4, Zenon DEF Rearranges
    <3> QED
      BY <3>1, <3>2, Zenon
  <2>2. u[i] = t[a] /\ u[j] = t[b]
    BY <1>1, <2>1
  <2>3. Near(origin, t[a]) /\ Near(origin, t[b])
    BY <1>1 DEF Held
  <2>4. CASE a < b
    BY <1>3, <2>2, <2>4
  <2>5. CASE b < a
    BY <1>3, <2>2, <2>3, <2>5, SameEitherWay
  <2> QED
    BY <2>1, <2>4, <2>5
<1> QED
  BY <1>2, <1>4 DEF Merge!NoTwinsLeft

\* It holds all that stand for the batch,
LEMMA ArrangedKeeps ==
    ASSUME NEW s, NEW t, Len(t) \in Nat, DOMAIN t = 1 .. Len(t), Remain(s, t),
           NEW f, Rearranges(f, Len(t)), NEW u, u = [i \in 1 .. Len(t) |-> t[f[i]]]
    PROVE  Merge!BestTwinKept(s, u)
<1> SUFFICES ASSUME NEW i \in DOMAIN s PROVE \E j \in DOMAIN u : Merge!StandsFor(s, s[i], u[j])
  BY Zenon DEF Merge!BestTwinKept
<1>1. PICK h \in DOMAIN t : Merge!StandsFor(s, s[i], t[h])
  BY Zenon DEF Remain, Merge!BestTwinKept
<1>2. PICK j \in 1 .. Len(t) : f[j] = h
  BY Zenon DEF Rearranges
<1>3. j \in DOMAIN u /\ u[j] = t[h]
  BY <1>2
<1> QED
  BY <1>1, <1>3, Zenon

\* and if it is ordered, none comes before an earlier one.
LEMMA ArrangedInTime ==
    ASSUME NEW origin \in 0 .. CounterTurn - 1, NEW t, Held(origin, t),
           NEW f, Rearranges(f, Len(t)), Ordered(origin, t, f), NEW u, u = [i \in 1 .. Len(t) |-> t[f[i]]]
    PROVE  Merge!InOrderOfTime(u)
<1>1. PICK n \in Nat : n = Len(t) /\ DOMAIN t = 1 .. n
  BY DEF Held
<1>2. DOMAIN u = 1 .. n
  BY <1>1
<1>3. \A i \in 1 .. n : f[i] \in 1 .. n /\ u[i] = t[f[i]]
  BY <1>1 DEF Rearranges
<1>4. \A i \in 1 .. n : Near(origin, u[i])
  BY <1>1, <1>3 DEF Held
<1> DEFINE v == [i \in 1 .. n |-> After(origin, u[i])]
<1>5. v \in [1 .. n -> Nat]
  BY <1>4, NearFacts
<1>6. \A i \in 1 .. n - 1 : v[i] <= v[i + 1]
  <2> SUFFICES ASSUME NEW i \in 1 .. n - 1 PROVE v[i] <= v[i + 1]
    OBVIOUS
  <2>1. i \in 1 .. n /\ i + 1 \in 1 .. n
    OBVIOUS
  <2>2. After(origin, t[f[i]]) <= After(origin, t[f[i + 1]])
    BY <1>1 DEF Ordered
  <2> QED
    BY <1>3, <2>1, <2>2
<1>7. \A i \in 1 .. n : v[i] = After(origin, u[i])
  OBVIOUS
<1> HIDE DEF v
<1>8. \A i, j \in 1 .. n : i < j => v[i] <= v[j]
  BY <1>5, <1>6, NeverFalls
<1>9. ASSUME NEW i \in 1 .. n, NEW j \in 1 .. n, i < j
      PROVE  Merge!Signed(u[j].count - u[i].count) >= 0
  <2>1. PICK x \in Nat, y \in Nat : x = v[i] /\ y = v[j]
    BY <1>5
  <2>2. Merge!Signed(u[j].count - u[i].count) = y - x
    <3>1. Merge!Signed(u[j].count - u[i].count) = After(origin, u[j]) - After(origin, u[i])
      BY <1>4, SignedAfter
    <3> QED
      BY <1>7, <2>1, <3>1
  <2>3. x <= y
    BY <1>8, <1>9, <2>1
  <2> QED
    BY <2>2, <2>3
<1> QED
  BY <1>2, <1>9 DEF Merge!InOrderOfTime

\* Every batch is merged well.
LEMMA BatchMerged ==
    ASSUME NEW s, Merge!Batch(s)
    PROVE  Merge!MergesWell(s)
<1>1. s \in Seq(Merge!RxPackets)
  BY DEF Merge!Batch
<1>2. PICK origin \in 0 .. CounterTurn - 1 : \A i \in DOMAIN s : (s[i].count - origin) % CounterTurn < CounterTurn \div 2
  BY Zenon DEF Merge!Batch
<1>3. Held(origin, s)
  <2>1. Len(s) \in Nat /\ DOMAIN s = 1 .. Len(s)
    BY <1>1
  <2>2. \A i \in DOMAIN s : s[i] \in Merge!RxPackets
    BY <1>1
  <2> QED
    BY <1>2, <2>1, <2>2, Zenon DEF Held, Near, After, Half
<1>4. PICK t : t = Merge!Deduplicated(s)
  OBVIOUS
<1>5. Held(origin, t) /\ Remain(s, t) /\ Merge!SamePairs(t) = {}
  BY <1>3, <1>4, DeduplicatedRemains
<1>6. Len(t) \in Nat /\ DOMAIN t = 1 .. Len(t)
  BY <1>5 DEF Held
<1>7. PICK u : u \in Merge!Sorted(t)
  <2>1. PICK f : Rearranges(f, Len(t)) /\ Ordered(origin, t, f)
    BY <1>5, OrderExists
  <2>2. PICK u : u = [i \in 1 .. Len(t) |-> t[f[i]]]
    OBVIOUS
  <2> QED
    BY <1>5, <2>1, <2>2, SortedAs
<1>8. ASSUME NEW merged \in Merge!Sorted(t)
      PROVE  Merge!NoTwinsLeft(merged) /\ Merge!BestTwinKept(s, merged) /\ Merge!InOrderOfTime(merged)
  <2>1. PICK f : /\ Rearranges(f, Len(t)) /\ Ordered(origin, t, f)
                 /\ merged = [i \in 1 .. Len(t) |-> t[f[i]]]
    BY <1>5, SortedAs
  <2> QED
    BY <1>5, <1>6, <2>1, ArrangedNoTwins, ArrangedKeeps, ArrangedInTime
<1> QED
  BY <1>4, <1>7, <1>8, Zenon DEF Merge!MergesWell, Merge!MergePackets

-----------------------------------------------------------------------------
(* Frequencies of radios.                                                    *)

\* A register n of a frequency f, in steps of 15625 / factor Hz, is cut to a step.
CutTo(f, factor, n) == /\ n \in Nat
                       /\ n * 15625 <= f * factor
                       /\ f * factor < n * 15625 + 15625

\* Less than a step is lost on the way to a register and back.
LEMMA CutIsNear ==
    ASSUME NEW f \in Nat, NEW factor \in {128, 256, 512, 16384}, NEW n, CutTo(f, factor, n)
    PROVE  Tuned(n, factor) \in f - (15625 \div factor + 1) .. f
<1> DEFINE q == n \div factor
           s == n % factor
           t == (s * 15625) \div factor
<1>1. n \in Nat /\ n * 15625 <= f * factor /\ f * factor < n * 15625 + 15625
  BY SMT DEF CutTo
<1>2. q \in Nat /\ s \in Nat /\ n = q * factor + s
  BY <1>1, SMT
<1>3. t \in Nat /\ t * factor <= s * 15625 /\ s * 15625 < t * factor + factor
  BY <1>2, SMT
<1>4. Tuned(n, factor) = q * 15625 + t
  BY SMT DEF Tuned
<1> HIDE DEF q, s, t
<1>5. (q * 15625 + t) * factor <= n * 15625 /\ n * 15625 < (q * 15625 + t) * factor + factor
  BY <1>2, <1>3, SMT
<1> DEFINE u == q * 15625 + t
<1>6. u \in Nat
  BY <1>2, <1>3, SMT
<1> HIDE DEF u
<1>7. u * factor <= f * factor /\ f * factor < u * factor + factor + 15625
  BY <1>1, <1>5, <1>6, SMT DEF u
<1>8. u <= f /\ u >= f - (15625 \div factor + 1)
  BY <1>6, <1>7, SMT
<1>9. Tuned(n, factor) = u
  BY <1>4 DEF u
<1> QED
  BY <1>6, <1>8, <1>9, SMT

\* The scaled frequency is.
LEMMA ScaledCut ==
    ASSUME NEW f \in Nat, NEW factor \in {128, 256, 512, 16384}
    PROVE  CutTo(f, factor, Scaled(f, factor))
<1> DEFINE q == f \div 15625
           r == f % 15625
           s == (r * factor) \div 15625
<1>1. q \in Nat /\ r \in Nat /\ r < 15625 /\ q * 15625 + r = f
  BY SMT
<1>2. Scaled(f, factor) = q * factor + s
  BY SMT DEF Scaled
<1> HIDE DEF q, r
<1>3. s \in Nat /\ 15625 * s <= r * factor /\ r * factor < 15625 * s + 15625
  BY <1>1, SMT
<1> HIDE DEF s
<1>4. (q * factor + s) * 15625 = (q * 15625) * factor + 15625 * s
  BY <1>1, <1>3, SMT
<1>5. f * factor = (q * 15625) * factor + r * factor
  BY <1>1, SMT
<1>6. q * factor + s \in Nat
  BY <1>1, <1>3, SMT
<1> DEFINE n  == q * factor + s
           fq == (q * 15625) * factor
           fr == r * factor
<1>7. n \in Nat /\ n * 15625 = fq + 15625 * s /\ f * factor = fq + fr /\ 15625 * s <= fr /\ fr < 15625 * s + 15625
  BY <1>3, <1>4, <1>5, <1>6, SMT
<1>8. fq \in Int /\ fr \in Int
  BY <1>1, SMT
<1> HIDE DEF n, fq, fr
<1>9. CutTo(f, factor, n)
  BY <1>3, <1>7, <1>8, SMT DEF CutTo
<1> QED
  BY <1>2, <1>9 DEF n

\* So are the three bytes sx125x_setup writes.
LEMMA PartsCut ==
    ASSUME NEW f \in Nat, NEW type \in {"SX1255", "SX1257"}, f <= 960000000, type = "SX1255" => f <= 510000000
    PROVE  CutTo(f, IF type = "SX1255" THEN 512 ELSE 256, Sx125xReg(Sx125xParts(type, f)))
<1> DEFINE M      == IF type = "SX1255" THEN 2000000 ELSE 4000000
           factor == IF type = "SX1255" THEN 512 ELSE 256
           int    == f \div M
           r      == f % M
           frac   == (r * factor) \div 15625
<1>0. M \in {2000000, 4000000} /\ factor \in {256, 512} /\ M * factor = 1024000000 /\ f \div M < 256
  BY SMT
<1>1. Sx125xParts(type, f) = <<int, frac>>
  BY SMT DEF Sx125xParts
<1> HIDE DEF M, factor
<1>2. int \in Nat /\ r \in Nat /\ r < M /\ f = int * M + r /\ int < 256
  <2>1. CASE M = 2000000
    BY <1>0, <2>1, SMT
  <2>2. CASE M = 4000000
    BY <1>0, <2>2, SMT
  <2> QED
    BY <1>0, <2>1, <2>2, SMT
<1> HIDE DEF r, int
<1>3. frac \in Nat /\ frac * 15625 <= r * factor /\ r * factor < frac * 15625 + 15625
  BY <1>0, <1>2, SMT
<1> HIDE DEF frac
<1>4. r * factor < M * factor
  BY <1>0, <1>2, SMT
<1> DEFINE fr == r * factor
<1>5. fr \in Int /\ frac * 15625 <= fr /\ fr < frac * 15625 + 15625 /\ fr < 1024000000
  BY <1>0, <1>2, <1>3, <1>4, SMT
<1> HIDE DEF fr
<1>6. frac < 65536
  BY <1>3, <1>5, SMT
<1>7. ((frac \div 256) % 256) * 256 + (frac % 256) = frac
  BY <1>3, <1>6, SMT
<1> DEFINE n == int * 65536 + frac
<1>8. Sx125xReg(<<int, frac>>) = n
  BY <1>2, <1>3, <1>7, SMT DEF Sx125xReg
<1>9. f * factor = int * (1024000000) + fr
  <2>1. f * factor = int * (M * factor) + fr
    BY <1>0, <1>2, SMT DEF fr
  <2> QED
    BY <1>0, <2>1
<1>10. n * 15625 = int * (1024000000) + frac * 15625
  BY <1>2, <1>3, SMT
<1>11. n \in Nat
  BY <1>2, <1>3, SMT
<1> HIDE DEF n
<1>12. CutTo(f, factor, n)
  BY <1>0, <1>2, <1>3, <1>5, <1>9, <1>10, <1>11, SMT DEF CutTo
<1> QED
  BY <1>1, <1>8, <1>12, SMT DEF factor

\* A radio is tuned where it was asked to be.
LEMMA AlwaysTuned ==
    ASSUME NEW type \in RadioTypes, NEW f \in Nat
    PROVE  TunedAsAsked(type, f)
<1> SUFFICES ASSUME Works(type, f) PROVE TunedAsAsked(type, f)
  BY SMT DEF TunedAsAsked
<1>1. f <= 960000000 /\ (type = "SX1255" => f <= 510000000)
  BY SMT DEF Works
<1>2. ASSUME type = "SX1250"
      PROVE  /\ Tuned(Sx1250FreqToReg(f), 16384) \in f - (15625 \div 16384 + 1) .. f
             /\ Sx1250FreqToReg(f) \div 2^24 < 2^7
  <2> DEFINE n == Sx1250FreqToReg(f)
  <2>1. CutTo(f, 16384, n)
    BY ScaledCut, SMT DEF Sx1250FreqToReg
  <2> HIDE DEF n
  <2>2. n \in Nat /\ n <= 1006632960
    BY <1>1, <2>1, SMT DEF CutTo
  <2>3. 2^24 = 16777216 /\ 2^7 = 128
    BY SMT
  <2>4. n \div 2^24 < 2^7
    BY <2>2, <2>3, SMT
  <2> QED
    BY <2>1, <2>4, CutIsNear, SMT DEF n
<1>3. ASSUME type # "SX1250"
      PROVE  LET factor == IF type = "SX1255" THEN 512 ELSE 256
             IN  Tuned(Sx125xReg(Sx125xParts(type, f)), factor) \in f - (15625 \div factor + 1) .. f
  <2> DEFINE factor == IF type = "SX1255" THEN 512 ELSE 256
  <2>1. factor \in {256, 512}
    BY SMT
  <2>2. CutTo(f, factor, Sx125xReg(Sx125xParts(type, f)))
    BY <1>1, <1>3, PartsCut, SMT DEF RadioTypes
  <2> HIDE DEF factor
  <2>3. Tuned(Sx125xReg(Sx125xParts(type, f)), factor) \in f - (15625 \div factor + 1) .. f
    BY <2>1, <2>2, CutIsNear, SMT
  <2> QED
    BY <2>3, SMT DEF factor
<1>4. LET factor == IF type = "SX1255" THEN 256 ELSE 128
      IN  Tuned(TxFreqReg(type, f), factor) \in f - (15625 \div factor + 1) .. f
  <2> DEFINE tx     == IF type = "SX1255" THEN 2 * f ELSE f
             factor == IF type = "SX1255" THEN 256 ELSE 128
             n      == Scaled(tx, 128)
  <2>1. tx \in Nat /\ tx <= 1020000000 /\ tx * 128 = f * factor /\ factor \in {128, 256}
    BY <1>1, SMT
  <2>2. TxFreqReg(type, f) = n % 16777216
    <3>1. 2^24 = 16777216
      BY SMT
    <3> QED
      BY <3>1, SMT DEF TxFreqReg, Sx1302FreqToReg
  <2> HIDE DEF tx, factor
  <2>3. CutTo(tx, 128, n)
    BY <2>1, ScaledCut, SMT
  <2> HIDE DEF n
  <2>4. CutTo(f, factor, n)
    BY <2>1, <2>3, SMT DEF CutTo
  <2>5. n % 16777216 = n
    BY <2>1, <2>3, SMT DEF CutTo
  <2>6. Tuned(n, factor) \in f - (15625 \div factor + 1) .. f
    BY <2>1, <2>4, CutIsNear, SMT
  <2> QED
    BY <2>2, <2>5, <2>6, SMT DEF factor
<1> QED
  BY <1>2, <1>3, <1>4, SMT DEF TunedAsAsked

-----------------------------------------------------------------------------
(* The metadata of packets.                                                  *)

\* What sx1302_parse makes of the metadata can be serialised.
LEMMA AlwaysSerialisable ==
    ASSUME NEW raw \in Raw, NEW conf \in ServiceModem
    PROVE  Rx!ParsedSerialisable(raw, conf)
<1> DEFINE parsed == Rx!Sx1302Parse(raw, conf)
           mod    == Rx!IfMod(raw.channel)
           p      == parsed[1]
<1> SUFFICES ASSUME Rx!Wired(raw), NEW i \in DOMAIN parsed
             PROVE  Rx!Rx!Encodable(parsed[i]) /\ parsed[i].status \in Rx!Rx!Statuses
  BY Zenon DEF Rx!ParsedSerialisable
<1>1. Rx!Sane(raw) /\ raw.channel <= 9
  <2> SUFFICES ASSUME ~(Rx!Sane(raw) /\ raw.channel <= 9) PROVE FALSE
    OBVIOUS
  <2>1. ~Rx!Sane(raw) \/ raw.channel > 9
    BY DEF Raw
  <2>2. parsed = <<>>
    BY <2>1, SMT DEF Rx!Sx1302Parse, Rx!Sane, Raw
  <2> QED
    BY <2>2
<1>2. CASE mod = "FSK_STD"
  <2> DEFINE fsk == [modulation |-> "FSK", status |-> Rx!FskStatus(raw), datarate |-> conf.fsk_datarate,
                     bandwidth |-> conf.fsk_bandwidth, coderate |-> 0]
  <2>1. parsed = <<fsk>>
    BY <1>1, <1>2 DEF Rx!Sx1302Parse, Raw
  <2> HIDE DEF parsed
  <2>2. parsed[i] = fsk
    BY <2>1
  <2>3. fsk.status \in Rx!Rx!Statuses
    BY DEF Rx!FskStatus, Rx!Rx!Statuses
  <2> QED
    BY <2>2, <2>3 DEF Rx!Rx!Encodable
<1>3. CASE mod # "FSK_STD"
  <2> DEFINE multi  == mod = "LORA_MULTI"
             status == Rx!LoRaStatus(raw, conf)
             cr     == IF multi \/ ~conf.implicit_hdr THEN raw.cr ELSE conf.implicit_coderate
             lora   == [modulation |-> "LORA",
                        status     |-> status,
                        bandwidth  |-> IF multi THEN 125 ELSE conf.bandwidth,
                        datarate   |-> IF raw.sf \in 5 .. 12 THEN raw.sf ELSE 0,
                        coderate   |-> IF cr \in 1 .. 4 THEN cr ELSE 0,
                        ftime      |-> raw.metrics > 0 /\ raw.timing /\ status = "CRC_OK"]
  <2>1. raw.sf \in 5 .. 12
    BY <1>1, <1>3 DEF Rx!Sane, Rx!Wired, Rx!IfMod, Rx!LoRaModems, Rx!StdModem, Rx!FskModem, Raw
  <2>2. status # "REFUSED" /\ parsed = <<lora>>
    <3>1. ~(~Rx!Sane(raw) \/ raw.channel > 9)
      BY <1>1 DEF Raw
    <3>2. parsed = IF status = "REFUSED" THEN <<>> ELSE <<lora>>
      BY <1>3, <3>1, Zenon DEF Rx!Sx1302Parse
    <3> QED
      BY <3>2
  <2> HIDE DEF parsed
  <2>3. parsed[i] = lora
    BY <2>2
  <2>4. status \in Rx!Rx!Statuses
    BY <2>2 DEF Rx!LoRaStatus, Rx!Rx!Statuses
  <2>5. lora.bandwidth \in Rx!Rx!Bandwidths /\ lora.coderate \in Rx!Rx!CodeRates /\ lora.datarate \in Rx!Rx!SpreadingFactors
    BY <2>1 DEF Rx!Rx!Bandwidths, Rx!Rx!CodeRates, Rx!Rx!SpreadingFactors, ServiceModem
  <2> QED
    BY <2>3, <2>4, <2>5 DEF Rx!Rx!Encodable
<1> QED
  BY <1>2, <1>3

-----------------------------------------------------------------------------
(* Plans: what the sections of one must be like so that the parser accepts   *)
(* them, and that those of the program are.                                  *)

Tables == {"rf", "if", "lut"}

\* A context that no call was refused in.
Configuring(ctx) ==
  /\ DOMAIN ctx = {"error", "public", "clksrc", "full_duplex", "rf", "if", "sfs", "service", "fsk", "lut", "ftime", "sx1261"}
  /\ DOMAIN ctx.rf = RfChains /\ DOMAIN ctx.lut = RfChains /\ DOMAIN ctx.if = IfChains
  /\ ctx.error = FALSE

SameTables(ctx, new) == new.rf = ctx.rf /\ new.if = ctx.if /\ new.lut = ctx.lut

\* A setting
LEMMA FieldPut ==
    ASSUME NEW ctx, Configuring(ctx), NEW field \in {"public", "clksrc", "full_duplex", "sfs", "service", "fsk"}, NEW v
    PROVE  Configuring([ctx EXCEPT ![field] = v]) /\ SameTables(ctx, [ctx EXCEPT ![field] = v])
<1> DEFINE new == [ctx EXCEPT ![field] = v]
<1>1. \A name \in {"rf", "if", "lut", "error"} : name # field /\ name \in DOMAIN ctx
  BY Zenon DEF Configuring
<1>2. DOMAIN new = DOMAIN ctx /\ \A name \in {"rf", "if", "lut", "error"} : new[name] = ctx[name]
  BY <1>1, Kept, Zenon
<1> HIDE DEF new
<1>3. new["rf"] = ctx["rf"] /\ new["if"] = ctx["if"] /\ new["lut"] = ctx["lut"] /\ new["error"] = ctx["error"]
  BY <1>2, Zenon
<1>4. Configuring(new) /\ SameTables(ctx, new)
  BY <1>2, <1>3, Zenon DEF Configuring, SameTables
<1> QED
  BY <1>4, Zenon DEF new

Put(ctx, table, c, v) == [ctx EXCEPT ![table] = [ctx[table] EXCEPT ![c] = v]]

\* or one entry of a table is put in place.
LEMMA EntryPut ==
    ASSUME NEW ctx, Configuring(ctx), NEW table \in Tables, NEW c \in DOMAIN ctx[table], NEW v
    PROVE  /\ Configuring(Put(ctx, table, c, v))
           /\ Put(ctx, table, c, v)[table][c] = v
           /\ \A d \in DOMAIN ctx[table] : d # c => Put(ctx, table, c, v)[table][d] = ctx[table][d]
           /\ \A other \in Tables : other # table => Put(ctx, table, c, v)[other] = ctx[other]
<1> DEFINE entries == [ctx[table] EXCEPT ![c] = v]
           new     == [ctx EXCEPT ![table] = entries]
<1>1. /\ DOMAIN entries = DOMAIN ctx[table] /\ entries[c] = v
      /\ \A d \in DOMAIN ctx[table] : d # c => entries[d] = ctx[table][d]
  BY Zenon
<1> HIDE DEF entries
<1>2. table \in DOMAIN ctx /\ "error" \in DOMAIN ctx /\ "error" # table
  BY Zenon DEF Configuring, Tables
<1>3. \A other \in Tables : other \in DOMAIN ctx
  BY Zenon DEF Configuring, Tables
<1>4. /\ DOMAIN new = DOMAIN ctx /\ new[table] = entries /\ new["error"] = ctx["error"]
      /\ \A other \in Tables : other # table => new[other] = ctx[other]
  BY <1>2, <1>3, Kept, Changed, Zenon
<1> HIDE DEF new
<1>5. \A other \in Tables : DOMAIN new[other] = DOMAIN ctx[other]
  BY <1>1, <1>4, Zenon
<1>6. Configuring(new)
  <2>1. DOMAIN new["rf"] = DOMAIN ctx["rf"] /\ DOMAIN new["if"] = DOMAIN ctx["if"] /\ DOMAIN new["lut"] = DOMAIN ctx["lut"]
    BY <1>5, Zenon DEF Tables
  <2> QED
    BY <1>4, <2>1, Zenon DEF Configuring
<1> QED
  BY <1>1, <1>4, <1>6, Zenon DEF Put, new, entries

\* A channel that can be set is, and another is not touched.
LEMMA ChannelSet ==
    ASSUME NEW ctx, Configuring(ctx), NEW chain \in IfChains, NEW conf, conf.enable, conf.rf \in RfChains,
           IfInBand(conf), Supported(chain, Bandwidth(chain, conf), Rate(chain, conf))
    PROVE  LET new == RxifSetconf(ctx, chain, conf)
           IN  /\ Configuring(new) /\ new.rf = ctx.rf /\ new.lut = ctx.lut
               /\ new.if[chain] = [enable |-> TRUE, rf |-> conf.rf, freq |-> conf.freq]
               /\ \A c \in IfChains : c # chain => new.if[c] = ctx.if[c]
<1> DEFINE on   == [enable |-> TRUE, rf |-> conf.rf, freq |-> conf.freq]
           bw   == Bandwidth(chain, conf)
           rate == Rate(chain, conf)
           set  == Put(ctx, "if", chain, on)
           wide == [set EXCEPT !["service"] = [bw |-> bw, sf |-> rate]]
           fsk  == [set EXCEPT !["fsk"] = [bw |-> bw, rate |-> rate]]
           new  == RxifSetconf(ctx, chain, conf)
<1>1. new = IF chain = Std THEN wide ELSE IF chain = Fsk THEN fsk ELSE set
  BY Zenon DEF RxifSetconf, Put
<1>2. /\ Configuring(set) /\ set["if"][chain] = on
      /\ \A d \in IfChains : d # chain => set["if"][d] = ctx["if"][d]
      /\ set["rf"] = ctx["rf"] /\ set["lut"] = ctx["lut"]
  <2>1. "if" \in Tables /\ "rf" \in Tables /\ "lut" \in Tables /\ "rf" # "if" /\ "lut" # "if" /\ DOMAIN ctx["if"] = IfChains
    BY Zenon DEF Tables, Configuring
  <2> HIDE DEF on
  <2>3. chain \in DOMAIN ctx["if"]
    BY <2>1, Zenon
  <2>4. /\ Configuring(set) /\ set["if"][chain] = on
        /\ \A d \in DOMAIN ctx["if"] : d # chain => set["if"][d] = ctx["if"][d]
        /\ \A other \in Tables : other # "if" => set[other] = ctx[other]
    BY <2>1, <2>3, EntryPut, SMT
  <2> QED
    BY <2>1, <2>4, Zenon
<1> HIDE DEF on, bw, rate, set
<1>3. SameTables(set, set)
  BY Zenon DEF SameTables
<1>4. Configuring(wide) /\ SameTables(set, wide) /\ Configuring(fsk) /\ SameTables(set, fsk)
  BY <1>2, FieldPut, Zenon
<1> HIDE DEF wide, fsk, new
<1>5. Configuring(new) /\ SameTables(set, new)
  BY <1>1, <1>2, <1>3, <1>4, Zenon
<1> QED
  BY <1>2, <1>5, Zenon DEF SameTables, new, on

\* One that is not enabled is not either.
LEMMA ChannelOff ==
    ASSUME NEW ctx, Configuring(ctx), NEW chain \in IfChains, NEW conf, ~conf.enable,
           {"enable", "freq"} \subseteq DOMAIN ctx.if[chain]
    PROVE  LET new == RxifSetconf(ctx, chain, conf)
           IN  /\ Configuring(new) /\ new.rf = ctx.rf /\ new.lut = ctx.lut
               /\ ~new.if[chain].enable
               /\ \A c \in IfChains : c # chain => new.if[c] = ctx.if[c]
<1> DEFINE one  == [ctx["if"][chain] EXCEPT !["enable"] = FALSE]
           two  == [one EXCEPT !["freq"] = 0]
           set  == Put(ctx, "if", chain, one)
           off  == Put(set, "if", chain, two)
           new  == RxifSetconf(ctx, chain, conf)
<1>1. "if" \in Tables /\ "rf" \in Tables /\ "lut" \in Tables /\ "rf" # "if" /\ "lut" # "if" /\ DOMAIN ctx["if"] = IfChains
  BY Zenon DEF Tables, Configuring
<1>2. one["enable"] = FALSE /\ "enable" \in DOMAIN one /\ "enable" # "freq"
  BY Changed, Kept, Zenon
<1> HIDE DEF one
<1>3. two["enable"] = FALSE
  BY <1>2, Kept, Zenon
<1> HIDE DEF two
<1>4. /\ Configuring(set) /\ set["if"][chain] = one
      /\ \A d \in IfChains : d # chain => set["if"][d] = ctx["if"][d]
      /\ set["rf"] = ctx["rf"] /\ set["lut"] = ctx["lut"]
  <2>3. chain \in DOMAIN ctx["if"]
    BY <1>1, Zenon
  <2>4. /\ Configuring(set) /\ set["if"][chain] = one
        /\ \A d \in DOMAIN ctx["if"] : d # chain => set["if"][d] = ctx["if"][d]
        /\ \A other \in Tables : other # "if" => set[other] = ctx[other]
    BY <1>1, <2>3, EntryPut, SMT
  <2> QED
    BY <1>1, <2>4, Zenon
<1> HIDE DEF set
<1>5. DOMAIN set["if"] = IfChains
  BY <1>4, Zenon DEF Configuring
<1>6. /\ Configuring(off) /\ off["if"][chain] = two
      /\ \A d \in IfChains : d # chain => off["if"][d] = set["if"][d]
      /\ off["rf"] = set["rf"] /\ off["lut"] = set["lut"]
  <2>3. chain \in DOMAIN set["if"]
    BY <1>5, Zenon
  <2>4. /\ Configuring(off) /\ off["if"][chain] = two
        /\ \A d \in DOMAIN set["if"] : d # chain => off["if"][d] = set["if"][d]
        /\ \A other \in Tables : other # "if" => off[other] = set[other]
    BY <1>1, <1>4, <2>3, EntryPut, SMT
  <2> QED
    BY <1>1, <1>5, <2>4, Zenon
<1>7. new = off
  BY <1>4, Zenon DEF RxifSetconf, Put, off, set, two, one
<1> HIDE DEF off, new
<1> QED
  BY <1>3, <1>4, <1>6, <1>7, Zenon DEF new

\* What the section of a radio, of a multi-SF channel, of the service channel and of the
\* FSK channel needs to be accepted.
LutFits(lut) ==
  /\ lut # <<>> /\ DOMAIN lut = 1 .. 16 /\ "pwr_idx" \in DOMAIN lut[1]
  /\ \A i \in DOMAIN lut : GainInRange(LutEntry(lut[i], TRUE))

RadioFits(o) ==
  /\ {"enable", "type", "freq", "tx_enable"} \subseteq DOMAIN o
  /\ o.enable = TRUE /\ o.type \in RadioTypes /\ RxFreqInRange(o.freq)
  /\ o.tx_enable = FALSE \/ (o.tx_enable = TRUE /\ "tx_gain_lut" \in DOMAIN o /\ LutFits(o.tx_gain_lut))

Asks(o, bw, rate) == [enable |-> TRUE, rf |-> o.radio, freq |-> o.if, bw |-> bw, rate |-> rate]

ChannelFits(o) == {"enable", "radio", "if"} \subseteq DOMAIN o /\ o.enable = TRUE /\ o.radio \in RfChains

MultiFits(o) == ChannelFits(o) /\ IfInBand(Asks(o, Undefined, Undefined))

StdFits(o) ==
  /\ ChannelFits(o) /\ {"bandwidth", "spread_factor", "implicit_hdr"} \subseteq DOMAIN o
  /\ o.implicit_hdr = FALSE /\ o.bandwidth \in Widths /\ o.spread_factor \in 5 .. 12
  /\ IfInBand(Asks(o, o.bandwidth, o.spread_factor))

FskFits(o) ==
  /\ {"enable", "radio", "if", "bandwidth", "datarate"} \subseteq DOMAIN o
  /\ o.enable \in BOOLEAN /\ o.radio \in RfChains
  /\ o.bandwidth # 0 /\ o.datarate # 0 /\ Enough(o.bandwidth) = o.bandwidth
  /\ Supported(Fsk, o.bandwidth, o.datarate)
  /\ IfInBand(Asks(o, o.bandwidth, o.datarate))

\* A field that is there is taken.
LEMMA Gotten == ASSUME NEW o, NEW field, field \in DOMAIN o, NEW default PROVE Get(o, field, default) = o[field]
BY Zenon DEF Get

\* A gain table that fits takes the place of the one before.
LEMMA LutSet ==
    ASSUME NEW ctx, Configuring(ctx), NEW chain \in RfChains, NEW lut, LutFits(lut)
    PROVE  LET new == ParseLut(ctx, chain, lut)
           IN  /\ Configuring(new) /\ new.rf = ctx.rf /\ new.if = ctx.if
               /\ Len(new.lut[chain]) = 16
               /\ \A c \in RfChains : c # chain => new.lut[c] = ctx.lut[c]
<1> DEFINE entries == [i \in DOMAIN lut |-> LutEntry(lut[i], "pwr_idx" \in DOMAIN lut[1])]
           new     == ParseLut(ctx, chain, lut)
           put     == Put(ctx, "lut", chain, entries)
<1>1. DOMAIN entries = 1 .. 16 /\ \A i \in DOMAIN entries : GainInRange(entries[i])
  BY Zenon DEF LutFits
<1>2. Len(entries) = 16
  <2>1. entries = [i \in 1 .. 16 |-> entries[i]]
    BY Zenon DEF LutFits
  <2> HIDE DEF entries
  <2>2. entries \in [1 .. 16 -> {entries[i] : i \in 1 .. 16}]
    BY <2>1, Zenon
  <2>3. 16 \in Nat
    OBVIOUS
  <2>4. entries \in Seq({entries[i] : i \in 1 .. 16})
    BY <2>2, <2>3, SeqDef, Zenon
  <2> QED
    BY <1>1, <2>4, LenProperties
<1>3. Len(entries) \in 1 .. 16
  BY <1>2
<1>4. ParseLut(ctx, chain, lut) = put
  <2>1. ParseLut(ctx, chain, lut) = TxgainSetconf(ctx, chain, entries)
    BY Zenon DEF ParseLut, LutFits
  <2> HIDE DEF entries
  <2> QED
    BY <1>1, <1>3, <2>1, Zenon DEF TxgainSetconf, Put
<1> HIDE DEF entries
<1>5. "if" \in Tables /\ "rf" \in Tables /\ "lut" \in Tables /\ "rf" # "lut" /\ "lut" # "if" /\ DOMAIN ctx["lut"] = RfChains
  BY Zenon DEF Tables, Configuring
<1>6. chain \in DOMAIN ctx["lut"]
  BY <1>5, Zenon
<1>7. /\ Configuring(put) /\ put["lut"][chain] = entries
      /\ \A d \in DOMAIN ctx["lut"] : d # chain => put["lut"][d] = ctx["lut"][d]
      /\ \A other \in Tables : other # "lut" => put[other] = ctx[other]
  BY <1>5, <1>6, EntryPut, SMT
<1> HIDE DEF put
<1> QED
  BY <1>2, <1>4, <1>5, <1>7, Zenon

RadioIsSet(ctx, chain, o, new) ==
  /\ Configuring(new) /\ new.if = ctx.if /\ new.rf[chain].enable = TRUE /\ new.rf[chain].freq = o.freq
  /\ \A c \in RfChains : c # chain => new.rf[c] = ctx.rf[c] /\ new.lut[c] = ctx.lut[c]
  /\ o.tx_enable = TRUE => Len(new.lut[chain]) = 16
  /\ o.tx_enable = FALSE => new.lut = ctx.lut

\* A radio that fits is enabled.
LEMMA RadioSet ==
    ASSUME NEW ctx, Configuring(ctx), NEW chain \in RfChains, NEW o, RadioFits(o)
    PROVE  RadioIsSet(ctx, chain, o, ParseRadio(ctx, chain, o))
<1> DEFINE gains == IF o.tx_enable THEN ParseLut(ctx, chain, o.tx_gain_lut) ELSE ctx
           conf  == [enable |-> TRUE, freq |-> o.freq, type |-> o.type, tx |-> o.tx_enable]
           new   == ParseRadio(ctx, chain, o)
           put   == Put(gains, "rf", chain, conf)
<1>1. /\ Configuring(gains) /\ gains.if = ctx.if /\ gains.rf = ctx.rf
      /\ \A c \in RfChains : c # chain => gains.lut[c] = ctx.lut[c]
      /\ o.tx_enable = TRUE => Len(gains.lut[chain]) = 16
      /\ o.tx_enable = FALSE => gains.lut = ctx.lut
  <2>1. CASE o.tx_enable = FALSE
    <3>1. gains = ctx
      BY <2>1, Zenon
    <3> HIDE DEF gains
    <3> QED
      BY <2>1, <3>1, Zenon
  <2>2. CASE o.tx_enable = TRUE /\ "tx_gain_lut" \in DOMAIN o /\ LutFits(o.tx_gain_lut)
    <3>1. gains = ParseLut(ctx, chain, o.tx_gain_lut)
      BY <2>2, Zenon
    <3> HIDE DEF gains
    <3>2. /\ Configuring(gains) /\ gains.rf = ctx.rf /\ gains.if = ctx.if
          /\ Len(gains.lut[chain]) = 16
          /\ \A c \in RfChains : c # chain => gains.lut[c] = ctx.lut[c]
      BY <2>2, <3>1, LutSet
    <3> QED
      BY <2>2, <3>2, Zenon
  <2> QED
    BY <2>1, <2>2, Zenon DEF RadioFits
<1>2. new = RxrfSetconf(gains, chain, conf)
  <2>1. /\ Get(o, "enable", FALSE) = TRUE /\ Get(o, "tx_enable", FALSE) = o.tx_enable
        /\ Get(o, "freq", 0) = o.freq /\ Get(o, "type", "none") = o.type
        /\ o.tx_enable => Get(o, "tx_gain_lut", <<>>) = o.tx_gain_lut
    BY Gotten, Zenon DEF RadioFits
  <2>2. ~gains.error
    BY <1>1, Zenon DEF Configuring
  <2> HIDE DEF new
  <2>3. (TRUE /\ o.tx_enable) = o.tx_enable
    BY Zenon DEF RadioFits
  <2> QED
    BY <2>1, <2>2, <2>3, Zenon DEF ParseRadio, new
<1>3. conf.enable = TRUE /\ conf.type \in RadioTypes /\ RxFreqInRange(conf.freq) /\ conf.freq = o.freq
  BY Zenon DEF RadioFits
<1> HIDE DEF gains, conf
<1>4. new = put
  BY <1>2, <1>3, Zenon DEF RxrfSetconf, Put
<1>5. "if" \in Tables /\ "rf" \in Tables /\ "lut" \in Tables /\ "rf" # "lut" /\ "rf" # "if" /\ DOMAIN gains["rf"] = RfChains
  BY <1>1, Zenon DEF Tables, Configuring
<1>6. chain \in DOMAIN gains["rf"]
  BY <1>5, Zenon
<1>7. /\ Configuring(put) /\ put["rf"][chain] = conf
      /\ \A d \in DOMAIN gains["rf"] : d # chain => put["rf"][d] = gains["rf"][d]
      /\ \A other \in Tables : other # "rf" => put[other] = gains[other]
  BY <1>1, <1>5, <1>6, EntryPut, SMT
<1> HIDE DEF put, new
<1>8. new.rf[chain].enable = TRUE /\ new.rf[chain].freq = o.freq
  BY <1>3, <1>4, <1>7, Zenon
<1>9. new.if = ctx.if /\ (o.tx_enable = FALSE => new.lut = ctx.lut)
  BY <1>1, <1>4, <1>5, <1>7, Zenon
<1>10. o.tx_enable = TRUE => Len(new.lut[chain]) = 16
  BY <1>1, <1>4, <1>5, <1>7, Zenon
<1>11. \A c \in RfChains : c # chain => new.rf[c] = ctx.rf[c] /\ new.lut[c] = ctx.lut[c]
  BY <1>1, <1>4, <1>5, <1>7, Zenon
<1> QED
  BY <1>4, <1>7, <1>8, <1>9, <1>10, <1>11, Zenon DEF new, RadioIsSet

\* The multi-SF channels are set as they are asked for.
LEMMA MultisSet ==
    ASSUME NEW ctx, Configuring(ctx), NEW multi, DOMAIN multi = Multi, \A c \in Multi : MultiFits(multi[c])
    PROVE  LET new == ParseMultis(ctx, multi)
           IN  /\ Configuring(new) /\ new.rf = ctx.rf /\ new.lut = ctx.lut
               /\ \A c \in Multi : new.if[c] = [enable |-> TRUE, rf |-> multi[c].radio, freq |-> multi[c].if]
               /\ \A c \in IfChains \ Multi : new.if[c] = ctx.if[c]
<1> DEFINE parsed(c) == ParseMulti(ctx, c, multi[c])
           present   == Multi \cap DOMAIN multi
           error     == \E c \in present : parsed(c).error
           if        == [c \in IfChains |-> IF c \in present THEN parsed(c).if[c] ELSE ctx.if[c]]
           new       == ParseMultis(ctx, multi)
<1>1. present = Multi
  BY Zenon
<1>2. ASSUME NEW c \in Multi
      PROVE  ~parsed(c).error /\ parsed(c).if[c] = [enable |-> TRUE, rf |-> multi[c].radio, freq |-> multi[c].if]
  <2> DEFINE o    == multi[c]
             conf == Asks(o, Undefined, Undefined)
  <2>1. ChannelFits(o) /\ IfInBand(conf)
    BY Zenon DEF MultiFits
  <2> HIDE DEF o
  <2>2. Get(o, "enable", FALSE) = TRUE /\ Get(o, "radio", 0) = o.radio /\ Get(o, "if", 0) = o.if /\ o.radio \in RfChains
    BY <2>1, Gotten, Zenon DEF ChannelFits
  <2>3. ParseMulti(ctx, c, o) = RxifSetconf(ctx, c, conf)
    BY <2>2, Zenon DEF ParseMulti, Asks
  <2>4. conf.enable /\ conf.rf = o.radio /\ conf.freq = o.if /\ conf.bw = Undefined /\ conf.rate = Undefined
    BY Zenon DEF Asks
  <2> HIDE DEF conf
  <2>5. c \in IfChains /\ c # Std /\ c # Fsk
    BY DEF Multi, IfChains, Std, Fsk
  <2>6. Supported(c, Bandwidth(c, conf), Rate(c, conf))
    BY <2>4, <2>5, SMT DEF Supported, Bandwidth, Rate, Or
  <2>7. LET put == RxifSetconf(ctx, c, conf)
        IN  Configuring(put) /\ put.if[c] = [enable |-> TRUE, rf |-> conf.rf, freq |-> conf.freq]
    BY <2>1, <2>2, <2>4, <2>5, <2>6, ChannelSet
  <2> QED
    BY <2>3, <2>4, <2>7, Zenon DEF Configuring, o
<1>3. ~error
  BY <1>2, Zenon
<1>4. new = [[ctx EXCEPT !["error"] = error] EXCEPT !["if"] = if]
  <2>1. ctx.error = FALSE
    BY Zenon DEF Configuring
  <2> QED
    BY <2>1, Zenon DEF ParseMultis
<1>5. /\ DOMAIN if = IfChains
      /\ \A c \in Multi : if[c] = [enable |-> TRUE, rf |-> multi[c].radio, freq |-> multi[c].if]
      /\ \A c \in IfChains \ Multi : if[c] = ctx.if[c]
  <2>1. Multi \subseteq IfChains
    BY Zenon DEF IfChains
  <2> QED
    BY <1>1, <1>2, <2>1, Zenon
<1> HIDE DEF error, if, new
<1>6. Configuring(new) /\ new["rf"] = ctx["rf"] /\ new["lut"] = ctx["lut"] /\ new["if"] = if
  <2> DEFINE mid == [ctx EXCEPT !["error"] = error]
  <2>1. /\ mid["error"] = error /\ DOMAIN mid = DOMAIN ctx /\ mid["rf"] = ctx["rf"] /\ mid["lut"] = ctx["lut"]
    BY SMT DEF Configuring
  <2> HIDE DEF mid
  <2>2. new = [mid EXCEPT !["if"] = if]
    BY <1>4, Zenon DEF mid
  <2>3. /\ new["error"] = error /\ DOMAIN new = DOMAIN ctx /\ new["rf"] = ctx["rf"] /\ new["lut"] = ctx["lut"] /\ new["if"] = if
    BY <2>1, <2>2, SMT DEF Configuring
  <2>4. error = FALSE
    <3>1. error \in BOOLEAN
      BY DEF error
    <3> QED
      BY <1>3, <3>1, Zenon
  <2> QED
    BY <1>5, <2>3, <2>4, SMT DEF Configuring
<1> QED
  BY <1>5, <1>6, Zenon DEF new

\* So are the service channel
LEMMA StdSet ==
    ASSUME NEW ctx, Configuring(ctx), NEW o, StdFits(o)
    PROVE  LET new == ParseStd(ctx, o)
           IN  /\ Configuring(new) /\ new.rf = ctx.rf /\ new.lut = ctx.lut
               /\ new.if[Std] = [enable |-> TRUE, rf |-> o.radio, freq |-> o.if]
               /\ \A c \in IfChains : c # Std => new.if[c] = ctx.if[c]
<1> DEFINE conf == Asks(o, o.bandwidth, o.spread_factor)
<1>1. /\ Get(o, "enable", FALSE) = TRUE /\ Get(o, "radio", 0) = o.radio /\ Get(o, "if", 0) = o.if /\ o.radio \in RfChains
      /\ Get(o, "bandwidth", 0) = o.bandwidth /\ Get(o, "spread_factor", 0) = o.spread_factor
      /\ Get(o, "implicit_hdr", FALSE) = FALSE /\ o.bandwidth \in Widths /\ o.spread_factor \in 5 .. 12 /\ IfInBand(conf)
  BY Gotten, Zenon DEF StdFits, ChannelFits
<1>2. ParseStd(ctx, o) = RxifSetconf(ctx, Std, conf)
  BY <1>1, Zenon DEF ParseStd, Asks
<1>3. conf.enable /\ conf.rf = o.radio /\ conf.freq = o.if /\ conf.bw = o.bandwidth /\ conf.rate = o.spread_factor
  BY Zenon DEF Asks
<1> HIDE DEF conf
<1>4. Std \in IfChains /\ Std \notin Multi /\ Std # Fsk
  BY DEF Multi, IfChains, Std, Fsk
<1>5. Supported(Std, Bandwidth(Std, conf), Rate(Std, conf))
  BY <1>1, <1>3, <1>4, SMT DEF Supported, Bandwidth, Rate, Or, Widths, Undefined
<1>6. LET new == RxifSetconf(ctx, Std, conf)
      IN  /\ Configuring(new) /\ new.rf = ctx.rf /\ new.lut = ctx.lut
          /\ new.if[Std] = [enable |-> TRUE, rf |-> conf.rf, freq |-> conf.freq]
          /\ \A c \in IfChains : c # Std => new.if[c] = ctx.if[c]
  BY <1>1, <1>3, <1>4, <1>5, ChannelSet
<1> QED
  BY <1>2, <1>3, <1>6, Zenon

\* and, unless it is off, the FSK channel.
LEMMA FskSet ==
    ASSUME NEW ctx, Configuring(ctx), NEW o, FskFits(o), {"enable", "freq"} \subseteq DOMAIN ctx.if[Fsk]
    PROVE  LET new == ParseFsk(ctx, o)
           IN  /\ Configuring(new) /\ new.rf = ctx.rf /\ new.lut = ctx.lut
               /\ new.if[Fsk].enable => new.if[Fsk].rf = o.radio
               /\ \A c \in IfChains : c # Fsk => new.if[c] = ctx.if[c]
<1> DEFINE conf == [enable |-> o.enable, rf |-> o.radio, freq |-> o.if, bw |-> o.bandwidth, rate |-> o.datarate]
<1>1. /\ Get(o, "enable", FALSE) = o.enable /\ Get(o, "radio", 0) = o.radio /\ Get(o, "if", 0) = o.if /\ o.radio \in RfChains
      /\ Get(o, "bandwidth", 0) = o.bandwidth /\ Get(o, "datarate", 0) = o.datarate
  BY Gotten, Zenon DEF FskFits
<1>2. o.bandwidth # 0 /\ o.datarate # 0 /\ Enough(o.bandwidth) = o.bandwidth /\ Supported(Fsk, o.bandwidth, o.datarate)
  BY Zenon DEF FskFits
<1>3. ParseFsk(ctx, o) = RxifSetconf(ctx, Fsk, conf)
  BY <1>1, <1>2, Zenon DEF ParseFsk
<1>4. Fsk \in IfChains /\ Fsk \notin Multi /\ Std # Fsk
  BY DEF Multi, IfChains, Std, Fsk
<1>5. CASE o.enable = TRUE
  <2>1. conf = Asks(o, o.bandwidth, o.datarate)
    BY <1>5, Zenon DEF Asks
  <2>2. IfInBand(conf)
    BY <2>1, Zenon DEF FskFits
  <2>3. conf.enable /\ conf.rf = o.radio /\ conf.freq = o.if /\ conf.bw = o.bandwidth /\ conf.rate = o.datarate
    BY <1>5, Zenon
  <2> HIDE DEF conf
  <2>4. Supported(Fsk, Bandwidth(Fsk, conf), Rate(Fsk, conf))
    <3>1. Bandwidth(Fsk, conf) = o.bandwidth /\ Rate(Fsk, conf) = o.datarate
      BY <1>2, <2>3, <1>4, SMT DEF Bandwidth, Rate, Or, Undefined
    <3> QED
      BY <1>2, <3>1, Zenon
  <2>5. LET new == RxifSetconf(ctx, Fsk, conf)
        IN  /\ Configuring(new) /\ new.rf = ctx.rf /\ new.lut = ctx.lut
            /\ new.if[Fsk] = [enable |-> TRUE, rf |-> conf.rf, freq |-> conf.freq]
            /\ \A c \in IfChains : c # Fsk => new.if[c] = ctx.if[c]
    BY <1>1, <1>4, <2>2, <2>3, <2>4, ChannelSet
  <2>6. [enable |-> TRUE, rf |-> conf.rf, freq |-> conf.freq].rf = o.radio
    BY <2>3, Zenon
  <2> QED
    BY <1>3, <2>5, <2>6, Zenon
<1>6. CASE o.enable = FALSE
  <2>1. ~conf.enable
    BY <1>6, Zenon
  <2> HIDE DEF conf
  <2>2. LET new == RxifSetconf(ctx, Fsk, conf)
        IN  /\ Configuring(new) /\ new.rf = ctx.rf /\ new.lut = ctx.lut
            /\ ~new.if[Fsk].enable
            /\ \A c \in IfChains : c # Fsk => new.if[c] = ctx.if[c]
    BY <1>4, <2>1, ChannelOff
  <2> QED
    BY <1>3, <2>2, Zenon
<1>7. o.enable \in BOOLEAN
  BY Zenon DEF FskFits
<1> QED
  BY <1>5, <1>6, <1>7

\* What a plan needs so that none of its settings is refused.
PlanFits(plan) ==
  /\ DOMAIN plan = {"com_type", "com_path", "lorawan_public", "clksrc", "full_duplex", "radio", "multi", "std", "fsk", "gateway", "ref_payload"}
  /\ plan.com_type = "SPI"
  /\ DOMAIN plan.radio = RfChains /\ \A c \in RfChains : RadioFits(plan.radio[c])
  /\ plan.radio[0].tx_enable = TRUE /\ plan.radio[1].tx_enable = FALSE
  /\ DOMAIN plan.multi = Multi /\ \A c \in Multi : MultiFits(plan.multi[c])
  /\ StdFits(plan.std) /\ FskFits(plan.fsk)

\* lgw_context is one, before it is configured.
LEMMA HalConfiguring == Configuring(HalDefault) /\ {"enable", "freq"} \subseteq DOMAIN HalDefault.if[Fsk]
<1>1. /\ DOMAIN HalDefault = {"error", "public", "clksrc", "full_duplex", "rf", "if", "sfs", "service", "fsk", "lut", "ftime", "sx1261"}
      /\ HalDefault.error = FALSE
      /\ DOMAIN HalDefault.rf = RfChains /\ DOMAIN HalDefault.lut = RfChains
      /\ HalDefault.if = [c \in IfChains |-> [enable |-> FALSE, rf |-> 0, freq |-> 0]]
  BY Zenon DEF HalDefault
<1>2. Fsk \in IfChains
  BY DEF IfChains, Fsk
<1>3. HalDefault.if[Fsk] = [enable |-> FALSE, rf |-> 0, freq |-> 0]
  BY <1>1, <1>2, Zenon
<1>4. DOMAIN [enable |-> FALSE, rf |-> 0, freq |-> 0] = {"enable", "rf", "freq"}
  OBVIOUS
<1> QED
  BY <1>1, <1>3, <1>4, Zenon DEF Configuring

\* The board's section is accepted.
LEMMA BoardSet ==
    ASSUME NEW ctx, Configuring(ctx), NEW plan, PlanFits(plan)
    PROVE  Configuring(ParseBoard(ctx, plan)) /\ SameTables(ctx, ParseBoard(ctx, plan))
<1> DEFINE one   == [ctx EXCEPT !["public"] = Get(plan, "lorawan_public", FALSE)]
           two   == [one EXCEPT !["clksrc"] = Get(plan, "clksrc", 0)]
           three == [two EXCEPT !["full_duplex"] = Get(plan, "full_duplex", FALSE)]
<1>1. Configuring(one) /\ SameTables(ctx, one)
  BY FieldPut, Zenon
<1>2. Get(plan, "com_type", "absent") = "SPI" /\ "com_path" \in DOMAIN plan
  BY Gotten, Zenon DEF PlanFits
<1>3. ParseBoard(ctx, plan) = three
  BY <1>2, Zenon DEF ParseBoard
<1> HIDE DEF one
<1>4. Configuring(two) /\ SameTables(one, two)
  BY <1>1, FieldPut, Zenon
<1> HIDE DEF two
<1>5. Configuring(three) /\ SameTables(two, three)
  BY <1>4, FieldPut, Zenon
<1> HIDE DEF three
<1> QED
  BY <1>1, <1>3, <1>4, <1>5, Zenon DEF SameTables

\* No setting of such a plan is refused, and every one takes its place.
LEMMA PlanAccepted ==
    ASSUME NEW plan, PlanFits(plan)
    PROVE  LET ctx == ParseSX130x(plan)
           IN  /\ Configuring(ctx) /\ Len(ctx.lut[0]) = 16
               /\ \A c \in RfChains : ctx.rf[c].enable = TRUE /\ ctx.rf[c].freq = plan.radio[c].freq
               /\ \A c \in Multi : ctx.if[c] = [enable |-> TRUE, rf |-> plan.multi[c].radio, freq |-> plan.multi[c].if]
               /\ \A c \in IfChains : ctx.if[c].enable => ctx.if[c].rf \in RfChains
<1> DEFINE Then(ctx, present, next) == IF ctx.error \/ ~present THEN ctx ELSE next
           board   == ParseBoard(HalDefault, plan)
           ftime   == Then(board, TRUE, ParseFtime(board, plan))
           sx1261  == Then(ftime, TRUE, ParseSx1261(ftime, plan))
           radio0  == Then(sx1261, 0 \in DOMAIN plan.radio, ParseRadio(sx1261, 0, plan.radio[0]))
           radio1  == Then(radio0, 1 \in DOMAIN plan.radio, ParseRadio(radio0, 1, plan.radio[1]))
           demod   == Then(radio1, TRUE, ParseDemod(radio1, plan))
           multi   == ParseMultis(demod, plan.multi)
           std     == Then(multi, "std" \in DOMAIN plan, ParseStd(multi, plan.std))
           fsk     == Then(std, "fsk" \in DOMAIN plan, ParseFsk(std, plan.fsk))
<1>0. ParseSX130x(plan) = fsk
  BY Zenon DEF ParseSX130x
<1>1. /\ {"std", "fsk", "radio", "multi"} \subseteq DOMAIN plan
      /\ {"fine_timestamp", "sx1261_conf", "chan_multiSF_All"} \cap DOMAIN plan = {}
      /\ 0 \in DOMAIN plan.radio /\ 1 \in DOMAIN plan.radio
  <2>1. DOMAIN plan = {"com_type", "com_path", "lorawan_public", "clksrc", "full_duplex", "radio", "multi", "std", "fsk", "gateway", "ref_payload"}
        /\ DOMAIN plan.radio = RfChains
    BY Zenon DEF PlanFits
  <2> QED
    BY <2>1, SMT DEF RfChains
<1>ok. ASSUME NEW ctx, Configuring(ctx) PROVE ~ctx.error
  BY <1>ok, Zenon DEF Configuring
<1>2. Configuring(board) /\ SameTables(HalDefault, board)
  BY HalConfiguring, BoardSet, Zenon
<1> HIDE DEF board
<1>3. ftime = board
  <2>1. Get(plan, "fine_timestamp", <<>>) = <<>>
    BY <1>1, Zenon DEF Get
  <2>2. Get(<<>>, "enable", FALSE) = FALSE
    <3>1. "enable" \notin DOMAIN <<>>
      BY SMT
    <3> QED
      BY <3>1, Zenon DEF Get
  <2>3. ParseFtime(board, plan) = board
    BY <2>1, <2>2, Zenon DEF ParseFtime
  <2> QED
    BY <2>3, Zenon
<1> HIDE DEF ftime
<1>4. sx1261 = board
  <2>1. ParseSx1261(ftime, plan) = ftime
    <3>1. "sx1261_conf" \notin DOMAIN plan
      BY <1>1, Zenon
    <3> QED
      BY <3>1, SMT DEF ParseSx1261
  <2> QED
    BY <1>3, <2>1, Zenon
<1> HIDE DEF sx1261
<1>5. RfChains = {0, 1} /\ 0 # 1
  BY DEF RfChains
<1>6. /\ Configuring(radio0) /\ radio0.if = board.if /\ radio0.rf[0].enable = TRUE
      /\ radio0.rf[0].freq = plan.radio[0].freq /\ Len(radio0.lut[0]) = 16
  <2>1. radio0 = ParseRadio(board, 0, plan.radio[0])
    BY <1>1, <1>2, <1>4, <1>ok, Zenon
  <2> HIDE DEF radio0
  <2>2. RadioFits(plan.radio[0]) /\ plan.radio[0].tx_enable = TRUE
    BY <1>5, Zenon DEF PlanFits
  <2>3. 0 \in RfChains
    BY <1>5
  <2>4. RadioIsSet(board, 0, plan.radio[0], radio0)
    BY <1>2, <2>1, <2>2, <2>3, RadioSet, Zenon
  <2> QED
    BY <2>2, <2>4, Zenon DEF RadioIsSet
<1> HIDE DEF radio0
<1>7. /\ Configuring(radio1) /\ radio1.if = board.if /\ radio1.rf[1].enable = TRUE
      /\ radio1.rf[1].freq = plan.radio[1].freq /\ radio1.rf[0] = radio0.rf[0]
      /\ radio1.lut = radio0.lut
  <2>1. radio1 = ParseRadio(radio0, 1, plan.radio[1])
    BY <1>1, <1>6, <1>ok, Zenon
  <2> HIDE DEF radio1
  <2>2. RadioFits(plan.radio[1]) /\ plan.radio[1].tx_enable = FALSE
    BY <1>5, Zenon DEF PlanFits
  <2>3. 1 \in RfChains /\ 0 \in RfChains
    BY <1>5
  <2>4. RadioIsSet(radio0, 1, plan.radio[1], radio1)
    BY <1>6, <2>1, <2>2, <2>3, RadioSet, Zenon
  <2> QED
    BY <1>5, <1>6, <2>2, <2>3, <2>4, Zenon DEF RadioIsSet
<1> HIDE DEF radio1
<1>8. demod = radio1
  <2>1. ParseDemod(radio1, plan) = radio1
    BY <1>1, Zenon DEF ParseDemod
  <2> QED
    BY <2>1, Zenon
<1> HIDE DEF demod
<1>9. /\ Configuring(multi) /\ multi.rf = radio1.rf /\ multi.lut = radio1.lut
      /\ \A c \in Multi : multi.if[c] = [enable |-> TRUE, rf |-> plan.multi[c].radio, freq |-> plan.multi[c].if]
      /\ \A c \in IfChains \ Multi : multi.if[c] = board.if[c]
  <2>1. DOMAIN plan.multi = Multi /\ \A c \in Multi : MultiFits(plan.multi[c])
    BY Zenon DEF PlanFits
  <2> QED
    BY <1>7, <1>8, <2>1, MultisSet
<1> HIDE DEF multi
<1>10. /\ Configuring(std) /\ std.rf = radio1.rf /\ std.lut = radio1.lut
       /\ std.if[Std] = [enable |-> TRUE, rf |-> plan.std.radio, freq |-> plan.std.if]
       /\ \A c \in IfChains : c # Std => std.if[c] = multi.if[c]
  <2>1. std = ParseStd(multi, plan.std)
    BY <1>1, <1>9, <1>ok, Zenon
  <2> HIDE DEF std
  <2>2. StdFits(plan.std)
    BY Zenon DEF PlanFits
  <2> QED
    BY <1>9, <2>1, <2>2, StdSet
<1> HIDE DEF std
<1>11. /\ Fsk \in IfChains /\ Fsk # Std /\ Fsk \notin Multi /\ Std \in IfChains /\ Std \notin Multi
       /\ IfChains = Multi \cup {Std, Fsk}
  BY DEF IfChains, Multi, Std, Fsk
<1>12. /\ Configuring(fsk) /\ fsk.rf = radio1.rf /\ fsk.lut = radio1.lut
       /\ fsk.if[Fsk].enable => fsk.if[Fsk].rf = plan.fsk.radio
       /\ \A c \in IfChains : c # Fsk => fsk.if[c] = std.if[c]
  <2>1. fsk = ParseFsk(std, plan.fsk)
    BY <1>1, <1>10, <1>ok, Zenon
  <2> HIDE DEF fsk
  <2>2. FskFits(plan.fsk)
    BY Zenon DEF PlanFits
  <2>3. std.if[Fsk] = HalDefault.if[Fsk]
    BY <1>2, <1>9, <1>10, <1>11, Zenon DEF SameTables
  <2>4. {"enable", "freq"} \subseteq DOMAIN std.if[Fsk]
    BY <2>3, HalConfiguring, Zenon
  <2> QED
    BY <1>10, <2>1, <2>2, <2>4, FskSet
<1> HIDE DEF fsk
<1>13. \A c \in Multi : fsk.if[c] = [enable |-> TRUE, rf |-> plan.multi[c].radio, freq |-> plan.multi[c].if]
  BY <1>9, <1>10, <1>11, <1>12, Zenon
<1>14. \A c \in RfChains : fsk.rf[c].enable = TRUE /\ fsk.rf[c].freq = plan.radio[c].freq
  BY <1>5, <1>6, <1>7, <1>12, Zenon
<1>15. ASSUME NEW c \in IfChains, fsk.if[c].enable PROVE fsk.if[c].rf \in RfChains
  <2>1. CASE c \in Multi
    <3>1. fsk.if[c].rf = plan.multi[c].radio
      <4>1. [enable |-> TRUE, rf |-> plan.multi[c].radio, freq |-> plan.multi[c].if].rf = plan.multi[c].radio
        BY Zenon
      <4> QED
        BY <1>13, <2>1, <4>1, Zenon
    <3> QED
      BY <2>1, <3>1, Zenon DEF PlanFits, MultiFits, ChannelFits
  <2>2. CASE c = Std
    <3>1. fsk.if[c].rf = plan.std.radio
      BY <1>10, <1>11, <1>12, <2>2
    <3> QED
      BY <3>1, Zenon DEF PlanFits, StdFits, ChannelFits
  <2>3. CASE c = Fsk
    <3>1. fsk.if[c].rf = plan.fsk.radio
      BY <1>12, <1>15, <2>3, Zenon
    <3> QED
      BY <3>1, Zenon DEF PlanFits, FskFits
  <2> QED
    BY <1>11, <2>1, <2>2, <2>3, Zenon
<1> QED
  BY <1>0, <1>6, <1>7, <1>12, <1>13, <1>14, <1>15

\* A table of powers, amplifier settings and power indexes fits if they are in range.
LEMMA EntriesFit ==
    ASSUME NEW table, DOMAIN table = 1 .. 16, \A i \in 1 .. 16 : table[i][2] \in 0 .. 3 /\ table[i][3] \in 0 .. 22
    PROVE  LutFits(Entries(table))
<1> DEFINE lut == Entries(table)
           Entry(i) == [rf_power |-> table[i][1], pa_gain |-> table[i][2], pwr_idx |-> table[i][3]]
<1>1. DOMAIN lut = 1 .. 16 /\ \A i \in 1 .. 16 : lut[i] = Entry(i)
  BY DEF Entries
<1> HIDE DEF lut
<1>2. 1 \in 1 .. 16
  OBVIOUS
<1>3. lut # <<>>
  <2>1. 1 \notin DOMAIN <<>>
    BY SMT
  <2> QED
    BY <1>1, <1>2, <2>1, Zenon
<1>4. ASSUME NEW i \in 1 .. 16 PROVE "pwr_idx" \in DOMAIN lut[i] /\ GainInRange(LutEntry(lut[i], TRUE))
  <2>1. DOMAIN Entry(i) = {"rf_power", "pa_gain", "pwr_idx"} /\ Entry(i).pa_gain = table[i][2] /\ Entry(i).pwr_idx = table[i][3]
    BY Zenon
  <2>2. lut[i] = Entry(i)
    BY <1>1
  <2> HIDE DEF Entry
  <2>3. Get(lut[i], "pa_gain", 0) = table[i][2] /\ Get(lut[i], "pwr_idx", 0) = table[i][3] /\ "pwr_idx" \in DOMAIN lut[i]
    BY <2>1, <2>2, Zenon DEF Get
  <2> DEFINE e == LutEntry(lut[i], TRUE)
  <2>4. e.pa_gain = table[i][2] /\ e.pwr_idx = table[i][3] /\ e.dig_gain = 0 /\ e.dac_gain = 0 /\ e.mix_gain = 5
    BY <2>3, Zenon DEF LutEntry
  <2> HIDE DEF e
  <2>5. e.pa_gain \in 0 .. 3 /\ e.pwr_idx \in 0 .. 22
    BY <2>4
  <2>6. GainInRange(e)
    BY <2>4, <2>5, SMT DEF GainInRange
  <2> QED
    BY <2>3, <2>6, Zenon DEF e
<1> QED
  BY <1>1, <1>2, <1>3, <1>4, Zenon DEF LutFits, lut

\* So do those of the plans.
LEMMA ShippedTables == LutFits(CnLut) /\ LutFits(EuLut)
<1>1. LutFits(CnLut)
  <2> DEFINE table == << <<-6, 0, 0>>, <<-3, 0, 1>>, <<0, 0, 2>>, <<3, 1, 3>>, <<6, 1, 4>>, <<10, 1, 5>>, <<11, 1, 6>>,
                    <<12, 2, 7>>, <<13, 1, 8>>, <<14, 2, 9>>, <<16, 2, 10>>, <<20, 3, 11>>, <<23, 3, 12>>,
                    <<25, 3, 13>>, <<26, 3, 14>>, <<27, 3, 15>> >>
  <2>1. DOMAIN table = 1 .. 16 /\ \A i \in 1 .. 16 : table[i][2] \in 0 .. 3 /\ table[i][3] \in 0 .. 22
    BY SMT
  <2>2. CnLut = Entries(table)
    BY Zenon DEF CnLut
  <2> HIDE DEF table
  <2> QED
    BY <2>1, <2>2, EntriesFit, Zenon
<1>2. LutFits(EuLut)
  <2> DEFINE table == << <<12, 0, 15>>, <<13, 0, 16>>, <<14, 0, 17>>, <<15, 0, 19>>, <<16, 0, 20>>, <<17, 0, 22>>,
                    <<18, 1, 1>>, <<19, 1, 2>>, <<20, 1, 3>>, <<21, 1, 4>>, <<22, 1, 5>>, <<23, 1, 6>>,
                    <<24, 1, 7>>, <<25, 1, 9>>, <<26, 1, 11>>, <<27, 1, 14>> >>
  <2>1. DOMAIN table = 1 .. 16 /\ \A i \in 1 .. 16 : table[i][2] \in 0 .. 3 /\ table[i][3] \in 0 .. 22
    BY SMT
  <2>2. EuLut = Entries(table)
    BY Zenon DEF EuLut
  <2> HIDE DEF table
  <2> QED
    BY <2>1, <2>2, EntriesFit, Zenon
<1> QED
  BY <1>1, <1>2

\* The sections of a radio that receives,
LEMMA RadioFit ==
    ASSUME NEW f, RxFreqInRange(f)
    PROVE  RadioFits(Radio(f)) /\ Radio(f).tx_enable = FALSE /\ Radio(f).freq = f
<1>1. "SX1250" \in RadioTypes
  BY Zenon DEF RadioTypes
<1> QED
  BY <1>1, Zenon DEF Radio, RadioFits

\* of one that also sends,
LEMMA TxRadioFits ==
    ASSUME NEW f, RxFreqInRange(f), NEW min, NEW max, NEW lut, LutFits(lut)
    PROVE  /\ RadioFits(TxRadio(f, min, max, lut)) /\ TxRadio(f, min, max, lut).tx_enable = TRUE
           /\ TxRadio(f, min, max, lut).freq = f
<1>1. "SX1250" \in RadioTypes
  BY Zenon DEF RadioTypes
<1> QED
  BY <1>1, Zenon DEF TxRadio, RadioFits

\* of a multi-SF channel whose 125 kHz are in the band of its radio,
LEMMA MultisFit ==
    ASSUME NEW r \in RfChains, NEW f \in Int, f >= -737500, f <= 737500
    PROVE  MultiFits(Chan(r, f)) /\ Chan(r, f).radio = r /\ Chan(r, f).if = f
<1>1. ChannelFits(Chan(r, f)) /\ Chan(r, f).radio = r /\ Chan(r, f).if = f
  BY SMT DEF Chan, ChannelFits
<1> DEFINE conf == Asks(Chan(r, f), Undefined, Undefined)
<1>2. conf.freq = f /\ conf.bw = Undefined
  BY <1>1, SMT DEF Asks
<1> HIDE DEF conf
<1>3. IfInBand(conf)
  BY <1>2, SMT DEF IfInBand, HalfBand, Undefined
<1> QED
  BY <1>1, <1>3, SMT DEF MultiFits, conf

\* of a service channel that is in it at its widest,
LEMMA ServiceFits ==
    ASSUME NEW r \in RfChains, NEW f \in Int, f >= -550000, f <= 550000, NEW bw \in Widths, NEW sf \in 5 .. 12
    PROVE  StdFits(Service(r, f, bw, sf))
<1> DEFINE o == Service(r, f, bw, sf)
<1>1. /\ DOMAIN o = {"enable", "radio", "if", "bandwidth", "spread_factor", "implicit_hdr"}
      /\ o.enable = TRUE /\ o.radio = r /\ o.if = f /\ o.bandwidth = bw /\ o.spread_factor = sf /\ o.implicit_hdr = FALSE
  BY SMT DEF Service
<1> HIDE DEF o
<1>2. ChannelFits(o)
  BY <1>1, SMT DEF ChannelFits
<1> DEFINE conf == Asks(o, o.bandwidth, o.spread_factor)
<1>3. conf.freq = f /\ conf.bw = bw
  BY <1>1, SMT DEF Asks
<1> HIDE DEF conf
<1>4. IfInBand(conf)
  BY <1>3, SMT DEF IfInBand, HalfBand, Undefined, Widths
<1> QED
  BY <1>1, <1>2, <1>4, SMT DEF StdFits, conf, o

\* and of the FSK channel fit.
LEMMA FsksFit == ASSUME NEW enable \in BOOLEAN PROVE FskFits(FskChan(enable))
<1> DEFINE o == FskChan(enable)
<1>1. /\ {"enable", "radio", "if", "bandwidth", "datarate"} \subseteq DOMAIN o
      /\ o.enable = enable /\ o.radio = 1 /\ o.if = 300000 /\ o.bandwidth = 125000 /\ o.datarate = 50000
  BY SMT DEF FskChan
<1> HIDE DEF o
<1>2. 1 \in RfChains
  BY DEF RfChains
<1>3. /\ o.bandwidth # 0 /\ o.datarate # 0 /\ Enough(o.bandwidth) = o.bandwidth
      /\ Supported(Fsk, o.bandwidth, o.datarate)
  BY <1>1, SMT DEF Enough, Undefined, Supported, Widths
<1> DEFINE conf == Asks(o, o.bandwidth, o.datarate)
<1>4. conf.freq = o.if /\ conf.bw = o.bandwidth
  BY Zenon DEF Asks
<1> HIDE DEF conf
<1>5. IfInBand(conf)
  BY <1>1, <1>4, SMT DEF IfInBand, HalfBand, Undefined
<1>6. o.enable \in BOOLEAN /\ o.radio \in RfChains
  BY <1>1, <1>2, SMT
<1>7. {"enable", "radio", "if", "bandwidth", "datarate"} \subseteq DOMAIN o
  BY <1>1, SMT
<1> QED
  BY <1>3, <1>5, <1>6, <1>7, Zenon DEF FskFits, conf, o

PlanIsOf(plan, pair, multi) ==
  /\ PlanFits(plan) /\ GatewayAccepted(plan)
  /\ plan.radio[0] = pair[1] /\ plan.radio[1] = pair[2]
  /\ \A c \in Multi : plan.multi[c] = multi[c + 1]

\* A plan of such parts fits,
LEMMA PlansFit ==
    ASSUME NEW pair, NEW multi, NEW std, NEW fsk, NEW beacon,
           RadioFits(pair[1]), pair[1].tx_enable = TRUE, RadioFits(pair[2]), pair[2].tx_enable = FALSE,
           \A c \in Multi : MultiFits(multi[c + 1]), StdFits(std), FskFits(fsk)
    PROVE  PlanIsOf(Plan(pair, multi, std, fsk, beacon), pair, multi)
<1> DEFINE plan == Plan(pair, multi, std, fsk, beacon)
<1>1. /\ DOMAIN plan = {"com_type", "com_path", "lorawan_public", "clksrc", "full_duplex", "radio", "multi", "std", "fsk", "gateway", "ref_payload"}
      /\ plan.com_type = "SPI" /\ plan.radio = [c \in RfChains |-> pair[c + 1]] /\ plan.multi = [c \in Multi |-> multi[c + 1]]
      /\ plan.std = std /\ plan.fsk = fsk /\ plan.gateway = [beacon_period |-> 0, beacon_freq |-> beacon]
  BY Zenon DEF Plan
<1> HIDE DEF plan
<1>2. GatewayAccepted(plan)
  <2>1. Get([beacon_period |-> 0, beacon_freq |-> beacon], "beacon_period", 0) = 0
    BY Zenon DEF Get
  <2>2. 0 \notin 1 .. 5
    OBVIOUS
  <2> QED
    BY <1>1, <2>1, <2>2, Zenon DEF GatewayAccepted
<1>3. RfChains = {0, 1} /\ 0 + 1 = 1 /\ 1 + 1 = 2
  BY DEF RfChains
<1>4. plan.radio[0] = pair[1] /\ plan.radio[1] = pair[2]
  BY <1>1, <1>3, SMT
<1>5. DOMAIN plan.radio = RfChains /\ DOMAIN plan.multi = Multi /\ \A c \in Multi : plan.multi[c] = multi[c + 1]
  BY <1>1, Zenon
<1>6. \A c \in RfChains : RadioFits(plan.radio[c])
  BY <1>3, <1>4, Zenon
<1>7. PlanFits(plan)
  BY <1>1, <1>4, <1>5, <1>6, Zenon DEF PlanFits
<1> QED
  BY <1>2, <1>4, <1>5, <1>7, Zenon DEF PlanIsOf, plan

\* and so it does with other frequencies for its pair.
LEMMA PatchedFits ==
    ASSUME NEW plan, PlanFits(plan), NEW freq0 \in Nat, NEW freq1 \in Nat
    PROVE  LET new == Patched(plan, freq0, freq1)
           IN  /\ PlanFits(new) /\ new.multi = plan.multi /\ new.gateway = plan.gateway
               /\ new.radio[0].freq = (IF Replaces(freq0) THEN freq0 ELSE plan.radio[0].freq)
               /\ new.radio[1].freq = (IF Replaces(freq1) THEN freq1 ELSE plan.radio[1].freq)
<1> DEFINE New(old, f) == IF Replaces(f) THEN f ELSE old
           page == <<freq0, freq1>>
           r(c) == [plan.radio[c] EXCEPT !["freq"] = New(plan.radio[c]["freq"], page[c + 1])]
           rs   == [c \in RfChains |-> r(c)]
           new  == [plan EXCEPT !["radio"] = rs]
<1>1. RfChains = {0, 1} /\ 0 # 1 /\ 0 \in RfChains /\ 1 \in RfChains
  BY DEF RfChains
<1>2. /\ DOMAIN plan = {"com_type", "com_path", "lorawan_public", "clksrc", "full_duplex", "radio", "multi", "std", "fsk", "gateway", "ref_payload"}
      /\ DOMAIN plan.radio = RfChains /\ \A c \in RfChains : RadioFits(plan.radio[c])
      /\ plan.radio[0].tx_enable = TRUE /\ plan.radio[1].tx_enable = FALSE
  BY Zenon DEF PlanFits
<1>3. ASSUME NEW old, RxFreqInRange(old), NEW f \in Nat PROVE RxFreqInRange(New(old, f))
  BY <1>3, SMT DEF RxFreqInRange, Replaces
<1>new. ASSUME NEW old, NEW f PROVE New(old, f) = (IF Replaces(f) THEN f ELSE old)
  BY Zenon
<1> HIDE DEF New
<1>4. ASSUME NEW o, RadioFits(o), NEW f, RxFreqInRange(f)
      PROVE  RadioFits([o EXCEPT !["freq"] = f]) /\ [o EXCEPT !["freq"] = f].tx_enable = o.tx_enable
             /\ [o EXCEPT !["freq"] = f].freq = f
  <2> DEFINE p == [o EXCEPT !["freq"] = f]
  <2>1. /\ {"enable", "type", "freq", "tx_enable"} \subseteq DOMAIN o
        /\ "freq" \notin {"enable", "type", "tx_enable", "tx_gain_lut"}
    BY <1>4, Zenon DEF RadioFits
  <2>2. DOMAIN p = DOMAIN o /\ p["freq"] = f
    BY <2>1, Changed, Kept, Zenon
  <2>3. \A field \in {"enable", "type", "tx_enable"} : p[field] = o[field]
    BY <2>1, Kept, Zenon
  <2>4. "tx_gain_lut" \in DOMAIN o => p["tx_gain_lut"] = o["tx_gain_lut"]
    BY <2>1, Kept, Zenon
  <2> HIDE DEF p
  <2>5. p.enable = o.enable /\ p.type = o.type /\ p.tx_enable = o.tx_enable /\ p.freq = f
    BY <2>2, <2>3, Zenon
  <2>6. RadioFits(p)
    BY <1>4, <2>2, <2>4, <2>5, Zenon DEF RadioFits
  <2> QED
    BY <2>5, <2>6, Zenon DEF p
<1>5. Patched(plan, freq0, freq1) = new
  BY SMT DEF Patched, New
<1>6. page[0 + 1] = freq0 /\ page[1 + 1] = freq1
  OBVIOUS
<1> HIDE DEF page
<1>7. /\ RadioFits(r(0)) /\ r(0).tx_enable = TRUE /\ RadioFits(r(1)) /\ r(1).tx_enable = FALSE
      /\ r(0).freq = New(plan.radio[0]["freq"], freq0) /\ r(1).freq = New(plan.radio[1]["freq"], freq1)
  <2>1. RxFreqInRange(New(plan.radio[0]["freq"], page[0 + 1])) /\ RxFreqInRange(New(plan.radio[1]["freq"], page[1 + 1]))
    BY <1>1, <1>2, <1>3, <1>6, Zenon DEF RadioFits
  <2> QED
    <3>1. RadioFits(r(0)) /\ r(0).tx_enable = TRUE /\ r(0).freq = New(plan.radio[0]["freq"], freq0)
      <4> DEFINE o == plan.radio[0]
                 f == New(plan.radio[0]["freq"], page[0 + 1])
                 p == [o EXCEPT !["freq"] = f]
      <4>1. RadioFits(o) /\ RxFreqInRange(f) /\ o.tx_enable = TRUE
        BY <1>1, <1>2, <2>1, Zenon
      <4>2. r(0) = p
        BY Zenon
      <4>3. f = New(plan.radio[0]["freq"], freq0)
        BY <1>6, Zenon
      <4> HIDE DEF o, f
      <4>4. RadioFits(p) /\ p.tx_enable = o.tx_enable /\ p.freq = f
        BY <1>4, <4>1, Zenon
      <4> HIDE DEF p, r
      <4> QED
        BY <4>1, <4>2, <4>3, <4>4, Zenon
    <3>2. RadioFits(r(1)) /\ r(1).tx_enable = FALSE /\ r(1).freq = New(plan.radio[1]["freq"], freq1)
      <4> DEFINE o == plan.radio[1]
                 f == New(plan.radio[1]["freq"], page[1 + 1])
                 p == [o EXCEPT !["freq"] = f]
      <4>1. RadioFits(o) /\ RxFreqInRange(f) /\ o.tx_enable = FALSE
        BY <1>1, <1>2, <2>1, Zenon
      <4>2. r(1) = p
        BY Zenon
      <4>3. f = New(plan.radio[1]["freq"], freq1)
        BY <1>6, Zenon
      <4> HIDE DEF o, f
      <4>4. RadioFits(p) /\ p.tx_enable = o.tx_enable /\ p.freq = f
        BY <1>4, <4>1, Zenon
      <4> HIDE DEF p, r
      <4> QED
        BY <4>1, <4>2, <4>3, <4>4, Zenon
    <3> QED
      BY <3>1, <3>2, Zenon
<1> HIDE DEF r
<1>8. DOMAIN rs = RfChains /\ rs[0] = r(0) /\ rs[1] = r(1)
  BY <1>1, Zenon
<1> HIDE DEF rs
<1>9. DOMAIN new = DOMAIN plan /\ new.radio = rs /\ \A field \in DOMAIN plan \ {"radio"} : new[field] = plan[field]
  BY <1>2, Zenon
<1> HIDE DEF new
<1>10. new.com_type = plan.com_type /\ new.multi = plan.multi /\ new.std = plan.std /\ new.fsk = plan.fsk /\ new.gateway = plan.gateway
  BY <1>2, <1>9, SMT
<1>11. \A c \in RfChains : RadioFits(rs[c])
  BY <1>1, <1>7, <1>8, Zenon
<1>12. PlanFits(new)
  BY <1>2, <1>7, <1>8, <1>9, <1>10, <1>11, Zenon DEF PlanFits
<1>13. /\ new.radio[0].freq = (IF Replaces(freq0) THEN freq0 ELSE plan.radio[0].freq)
       /\ new.radio[1].freq = (IF Replaces(freq1) THEN freq1 ELSE plan.radio[1].freq)
  BY <1>7, <1>8, <1>9, <1>new, Zenon
<1> QED
  BY <1>5, <1>10, <1>12, <1>13, Zenon

\* Where channel c of a plan is received.
ChannelAt(plan, c) == plan.radio[plan.multi[c].radio].freq + plan.multi[c].if

\* No two multi-SF channels overlap, and the pair are where they can be calibrated.
Clear(a, b) == a - b >= 125000 \/ b - a >= 125000

Spread(plan) ==
  /\ \A c \in Multi : \A d \in Multi \ {c} : Clear(ChannelAt(plan, c), ChannelAt(plan, d))
  /\ \A c \in RfChains : Bands(plan.radio[c].freq) # {}

\* Of a plan that fits and is spread all settings are accepted, with whatever frequencies of
\* the web page, and its radios are calibrated with those that are in the bands.
LEMMA FittingServes ==
    ASSUME NEW region, PlanFits(RegionPlan(region)), GatewayAccepted(RegionPlan(region)), Spread(RegionPlan(region)),
           NEW freq0 \in Nat, NEW freq1 \in Nat
    PROVE  PlanServes(region, freq0, freq1)
<1> DEFINE old  == RegionPlan(region)
           plan == Patched(old, freq0, freq1)
           ctx  == ParseSX130x(plan)
           At(c) == old.radio[ctx.if[c].rf].freq + ctx.if[c].freq
<1>1. /\ PlanFits(plan) /\ plan.multi = old.multi /\ plan.gateway = old.gateway
      /\ plan.radio[0].freq = (IF Replaces(freq0) THEN freq0 ELSE old.radio[0].freq)
      /\ plan.radio[1].freq = (IF Replaces(freq1) THEN freq1 ELSE old.radio[1].freq)
  BY PatchedFits
<1>2. GatewayAccepted(plan)
  BY <1>1, Zenon DEF GatewayAccepted
<1> HIDE DEF plan
<1>3. /\ Configuring(ctx) /\ Len(ctx.lut[0]) = 16
      /\ \A c \in RfChains : ctx.rf[c].enable = TRUE /\ ctx.rf[c].freq = plan.radio[c].freq
      /\ \A c \in Multi : ctx.if[c] = [enable |-> TRUE, rf |-> plan.multi[c].radio, freq |-> plan.multi[c].if]
      /\ \A c \in IfChains : ctx.if[c].enable => ctx.if[c].rf \in RfChains
  BY <1>1, PlanAccepted
<1> HIDE DEF ctx
<1>4. \A c \in Multi : At(c) = ChannelAt(old, c)
  <2> TAKE c \in Multi
  <2> DEFINE chan == [enable |-> TRUE, rf |-> old.multi[c].radio, freq |-> old.multi[c].if]
  <2>1. ctx.if[c] = chan
    BY <1>1, <1>3, Zenon
  <2>2. chan.rf = old.multi[c].radio /\ chan.freq = old.multi[c].if
    BY Zenon
  <2> HIDE DEF chan
  <2> QED
    BY <2>1, <2>2, Zenon DEF ChannelAt
<1>5. ~ctx.error
  BY <1>3, Zenon DEF Configuring
<1>6. \A c \in IfChains : ctx.if[c].enable => ctx.rf[ctx.if[c].rf].enable
  BY <1>3, Zenon
<1>7. \A c \in Multi : \A d \in Multi \ {c} : At(c) - At(d) >= 125000 \/ At(d) - At(c) >= 125000
  BY <1>4, SMT DEF Spread, Clear
<1> HIDE DEF At
<1>8. SettingsAccepted(region, freq0, freq1)
  BY <1>2, <1>3, <1>5, <1>6, <1>7, SMT DEF SettingsAccepted, plan, ctx, At
<1>9. Calibrates(ctx) <=> \A f \in {freq0, freq1} : Replaces(f) => Bands(f) # {}
  <2>1. 0 \in RfChains /\ 1 \in RfChains /\ \A c \in RfChains : c = 0 \/ c = 1
    BY SMT DEF RfChains
  <2>2. Bands(old.radio[0].freq) # {} /\ Bands(old.radio[1].freq) # {}
    BY <2>1, Zenon DEF Spread
  <2>3. Calibrates(ctx) <=> Bands(plan.radio[0].freq) # {} /\ Bands(plan.radio[1].freq) # {}
    BY <1>3, <2>1, Zenon DEF Calibrates
  <2>4. Bands(plan.radio[0].freq) # {} <=> (Replaces(freq0) => Bands(freq0) # {})
    BY <1>1, <2>2, Zenon
  <2>5. Bands(plan.radio[1].freq) # {} <=> (Replaces(freq1) => Bands(freq1) # {})
    BY <1>1, <2>2, Zenon
  <2> QED
    BY <2>3, <2>4, <2>5, Zenon
<1> QED
  BY <1>8, <1>9, Zenon DEF PlanServes, plan, ctx

\* What is left to see of a plan of the program.
FitTogether(f0, f1, lut, multi, std, fsk) ==
  /\ RxFreqInRange(f0) /\ RxFreqInRange(f1) /\ LutFits(lut)
  /\ Bands(f0) # {} /\ Bands(f1) # {}
  /\ \A c \in Multi : MultiFits(multi[c + 1])
  /\ StdFits(std) /\ FskFits(fsk)
  /\ LET At(c) == (IF multi[c + 1].radio = 0 THEN f0 ELSE f1) + multi[c + 1].if
     IN  \A c \in Multi : \A d \in Multi \ {c} : Clear(At(c), At(d))

\* It serves then.
LEMMA TogetherServes ==
    ASSUME NEW f0, NEW f1, NEW lut, NEW multi, NEW std, NEW fsk, FitTogether(f0, f1, lut, multi, std, fsk),
           NEW min, NEW max, NEW beacon
    PROVE  LET plan == Plan(<<TxRadio(f0, min, max, lut), Radio(f1)>>, multi, std, fsk, beacon)
           IN  PlanFits(plan) /\ GatewayAccepted(plan) /\ Spread(plan)
<1> DEFINE r0     == TxRadio(f0, min, max, lut)
           r1     == Radio(f1)
           pair == <<r0, r1>>
           plan   == Plan(pair, multi, std, fsk, beacon)
           At(c)  == (IF multi[c + 1].radio = 0 THEN f0 ELSE f1) + multi[c + 1].if
<1>1. /\ RxFreqInRange(f0) /\ RxFreqInRange(f1) /\ LutFits(lut) /\ Bands(f0) # {} /\ Bands(f1) # {}
      /\ \A c \in Multi : MultiFits(multi[c + 1])
      /\ StdFits(std) /\ FskFits(fsk)
  BY Zenon DEF FitTogether
<1>2. \A c \in Multi : \A d \in Multi \ {c} : Clear(At(c), At(d))
  BY Zenon DEF FitTogether
<1>3. pair[1] = r0 /\ pair[2] = r1
  OBVIOUS
<1>4. RadioFits(r0) /\ r0.tx_enable = TRUE /\ r0.freq = f0
  BY <1>1, TxRadioFits, Zenon
<1>5. RadioFits(r1) /\ r1.tx_enable = FALSE /\ r1.freq = f1
  BY <1>1, RadioFit, Zenon
<1> HIDE DEF r0, r1, pair
<1>6. /\ PlanFits(plan) /\ GatewayAccepted(plan) /\ plan.radio[0] = r0 /\ plan.radio[1] = r1
      /\ \A c \in Multi : plan.multi[c] = multi[c + 1]
  <2>1. RadioFits(pair[1]) /\ pair[1].tx_enable = TRUE /\ RadioFits(pair[2]) /\ pair[2].tx_enable = FALSE
    BY <1>3, <1>4, <1>5, Zenon
  <2>2. PlanIsOf(plan, pair, multi)
    BY <1>1, <2>1, PlansFit, Zenon
  <2> HIDE DEF plan
  <2> QED
    BY <1>3, <2>2, Zenon DEF PlanIsOf
<1> HIDE DEF plan
<1>7. RfChains = {0, 1} /\ 0 # 1
  BY DEF RfChains
<1>8. ASSUME NEW c \in Multi PROVE ChannelAt(plan, c) = At(c)
  <2>1. multi[c + 1].radio = 0 \/ multi[c + 1].radio = 1
    BY <1>1, <1>7, Zenon DEF MultiFits, ChannelFits
  <2> QED
    BY <1>4, <1>5, <1>6, <1>7, <2>1, Zenon DEF ChannelAt
<1>9. Spread(plan)
  <2>1. \A c \in RfChains : Bands(plan.radio[c].freq) # {}
    BY <1>1, <1>4, <1>5, <1>6, <1>7, Zenon
  <2>2. \A c \in Multi : \A d \in Multi \ {c} : Clear(ChannelAt(plan, c), ChannelAt(plan, d))
    BY <1>2, <1>8, Zenon
  <2> QED
    BY <2>1, <2>2, Zenon DEF Spread
<1> QED
  BY <1>6, <1>9, Zenon DEF plan, pair, r0, r1

\* So do the plan of China,
LEMMA CNServes == PlanFits(CN) /\ GatewayAccepted(CN) /\ Spread(CN)
<1> DEFINE f0     == 480400000
           f1     == 481200000
           min    == 470000000
           max    == 510000000
           beacon == 508300000
           multi  == <<Chan(0, -300000), Chan(0, -100000), Chan(0, 100000), Chan(0, 300000),
                      Chan(1, -300000), Chan(1, -100000), Chan(1, 100000), Chan(1, 300000)>>
           std    == Service(1, -200000, 250000, 7)
           fsk    == FskChan(TRUE)
           At(c)  == (IF multi[c + 1].radio = 0 THEN f0 ELSE f1) + multi[c + 1].if
<1>1. 0 \in RfChains /\ 1 \in RfChains /\ Multi = 0 .. 7
  BY SMT DEF RfChains, Multi
<1>2. /\ MultiFits(multi[0 + 1]) /\ multi[0 + 1].radio = 0 /\ multi[0 + 1].if = -300000
      /\ MultiFits(multi[1 + 1]) /\ multi[1 + 1].radio = 0 /\ multi[1 + 1].if = -100000
      /\ MultiFits(multi[2 + 1]) /\ multi[2 + 1].radio = 0 /\ multi[2 + 1].if = 100000
      /\ MultiFits(multi[3 + 1]) /\ multi[3 + 1].radio = 0 /\ multi[3 + 1].if = 300000
      /\ MultiFits(multi[4 + 1]) /\ multi[4 + 1].radio = 1 /\ multi[4 + 1].if = -300000
      /\ MultiFits(multi[5 + 1]) /\ multi[5 + 1].radio = 1 /\ multi[5 + 1].if = -100000
      /\ MultiFits(multi[6 + 1]) /\ multi[6 + 1].radio = 1 /\ multi[6 + 1].if = 100000
      /\ MultiFits(multi[7 + 1]) /\ multi[7 + 1].radio = 1 /\ multi[7 + 1].if = 300000
  BY <1>1, MultisFit, SMT
<1>3. StdFits(std)
  <2>1. 250000 \in Widths /\ 7 \in 5 .. 12
    BY SMT DEF Widths
  <2> QED
    BY <1>1, <2>1, ServiceFits, SMT
<1>4. FskFits(fsk)
  BY FsksFit, Zenon
<1>5. CN = Plan(<<TxRadio(f0, min, max, CnLut), Radio(f1)>>, multi, std, fsk, beacon)
  BY SMT DEF CN
<1> HIDE DEF min, max, beacon, multi, std, fsk
<1>6. /\ At(0) = 480100000
      /\ At(1) = 480300000
      /\ At(2) = 480500000
      /\ At(3) = 480700000
      /\ At(4) = 480900000
      /\ At(5) = 481100000
      /\ At(6) = 481300000
      /\ At(7) = 481500000
  BY <1>2, SMT
<1>7. RxFreqInRange(f0) /\ RxFreqInRange(f1) /\ 2 \in Bands(f0) /\ 2 \in Bands(f1)
  BY SMT DEF RxFreqInRange, Bands, InBand, ImageBands
<1> HIDE DEF f0, f1, At
<1>8. \A c \in Multi : \A d \in Multi \ {c} : Clear(At(c), At(d))
  BY <1>1, <1>6, SMT DEF Clear
<1>9. \A c \in Multi : MultiFits(multi[c + 1])
  BY <1>1, <1>2, SMT
<1>10. FitTogether(f0, f1, CnLut, multi, std, fsk)
  BY <1>3, <1>4, <1>7, <1>8, <1>9, ShippedTables, Zenon DEF FitTogether, At
<1> QED
  BY <1>5, <1>10, TogetherServes, Zenon

\* that of Europe,
LEMMA EUServes == PlanFits(EU) /\ GatewayAccepted(EU) /\ Spread(EU)
<1> DEFINE f0     == 867500000
           f1     == 868500000
           min    == 863000000
           max    == 870000000
           beacon == 869525000
           multi  == <<Chan(1, -400000), Chan(1, -200000), Chan(1, 0), Chan(0, -400000),
                      Chan(0, -200000), Chan(0, 0), Chan(0, 200000), Chan(0, 400000)>>
           std    == Service(1, -200000, 250000, 7)
           fsk    == FskChan(TRUE)
           At(c)  == (IF multi[c + 1].radio = 0 THEN f0 ELSE f1) + multi[c + 1].if
<1>1. 0 \in RfChains /\ 1 \in RfChains /\ Multi = 0 .. 7
  BY SMT DEF RfChains, Multi
<1>2. /\ MultiFits(multi[0 + 1]) /\ multi[0 + 1].radio = 1 /\ multi[0 + 1].if = -400000
      /\ MultiFits(multi[1 + 1]) /\ multi[1 + 1].radio = 1 /\ multi[1 + 1].if = -200000
      /\ MultiFits(multi[2 + 1]) /\ multi[2 + 1].radio = 1 /\ multi[2 + 1].if = 0
      /\ MultiFits(multi[3 + 1]) /\ multi[3 + 1].radio = 0 /\ multi[3 + 1].if = -400000
      /\ MultiFits(multi[4 + 1]) /\ multi[4 + 1].radio = 0 /\ multi[4 + 1].if = -200000
      /\ MultiFits(multi[5 + 1]) /\ multi[5 + 1].radio = 0 /\ multi[5 + 1].if = 0
      /\ MultiFits(multi[6 + 1]) /\ multi[6 + 1].radio = 0 /\ multi[6 + 1].if = 200000
      /\ MultiFits(multi[7 + 1]) /\ multi[7 + 1].radio = 0 /\ multi[7 + 1].if = 400000
  BY <1>1, MultisFit, SMT
<1>3. StdFits(std)
  <2>1. 250000 \in Widths /\ 7 \in 5 .. 12
    BY SMT DEF Widths
  <2> QED
    BY <1>1, <2>1, ServiceFits, SMT
<1>4. FskFits(fsk)
  BY FsksFit, Zenon
<1>5. EU = Plan(<<TxRadio(f0, min, max, EuLut), Radio(f1)>>, multi, std, fsk, beacon)
  BY SMT DEF EU
<1> HIDE DEF min, max, beacon, multi, std, fsk
<1>6. /\ At(0) = 868100000
      /\ At(1) = 868300000
      /\ At(2) = 868500000
      /\ At(3) = 867100000
      /\ At(4) = 867300000
      /\ At(5) = 867500000
      /\ At(6) = 867700000
      /\ At(7) = 867900000
  BY <1>2, SMT
<1>7. RxFreqInRange(f0) /\ RxFreqInRange(f1) /\ 4 \in Bands(f0) /\ 4 \in Bands(f1)
  BY SMT DEF RxFreqInRange, Bands, InBand, ImageBands
<1> HIDE DEF f0, f1, At
<1>8. \A c \in Multi : \A d \in Multi \ {c} : Clear(At(c), At(d))
  BY <1>1, <1>6, SMT DEF Clear
<1>9. \A c \in Multi : MultiFits(multi[c + 1])
  BY <1>1, <1>2, SMT
<1>10. FitTogether(f0, f1, EuLut, multi, std, fsk)
  BY <1>3, <1>4, <1>7, <1>8, <1>9, ShippedTables, Zenon DEF FitTogether, At
<1> QED
  BY <1>5, <1>10, TogetherServes, Zenon

\* and that of the United States.
LEMMA USServes == PlanFits(US) /\ GatewayAccepted(US) /\ Spread(US)
<1> DEFINE f0     == 904300000
           f1     == 905000000
           min    == 923000000
           max    == 928000000
           beacon == 869525000
           multi  == <<Chan(0, -400000), Chan(0, -200000), Chan(0, 0), Chan(0, 200000),
                      Chan(1, -300000), Chan(1, -100000), Chan(1, 100000), Chan(1, 300000)>>
           std    == Service(0, 300000, 500000, 8)
           fsk    == FskChan(FALSE)
           At(c)  == (IF multi[c + 1].radio = 0 THEN f0 ELSE f1) + multi[c + 1].if
<1>1. 0 \in RfChains /\ 1 \in RfChains /\ Multi = 0 .. 7
  BY SMT DEF RfChains, Multi
<1>2. /\ MultiFits(multi[0 + 1]) /\ multi[0 + 1].radio = 0 /\ multi[0 + 1].if = -400000
      /\ MultiFits(multi[1 + 1]) /\ multi[1 + 1].radio = 0 /\ multi[1 + 1].if = -200000
      /\ MultiFits(multi[2 + 1]) /\ multi[2 + 1].radio = 0 /\ multi[2 + 1].if = 0
      /\ MultiFits(multi[3 + 1]) /\ multi[3 + 1].radio = 0 /\ multi[3 + 1].if = 200000
      /\ MultiFits(multi[4 + 1]) /\ multi[4 + 1].radio = 1 /\ multi[4 + 1].if = -300000
      /\ MultiFits(multi[5 + 1]) /\ multi[5 + 1].radio = 1 /\ multi[5 + 1].if = -100000
      /\ MultiFits(multi[6 + 1]) /\ multi[6 + 1].radio = 1 /\ multi[6 + 1].if = 100000
      /\ MultiFits(multi[7 + 1]) /\ multi[7 + 1].radio = 1 /\ multi[7 + 1].if = 300000
  BY <1>1, MultisFit, SMT
<1>3. StdFits(std)
  <2>1. 500000 \in Widths /\ 8 \in 5 .. 12
    BY SMT DEF Widths
  <2> QED
    BY <1>1, <2>1, ServiceFits, SMT
<1>4. FskFits(fsk)
  BY FsksFit, Zenon
<1>5. US = Plan(<<TxRadio(f0, min, max, UsLut), Radio(f1)>>, multi, std, fsk, beacon)
  BY SMT DEF US
<1> HIDE DEF min, max, beacon, multi, std, fsk
<1>6. /\ At(0) = 903900000
      /\ At(1) = 904100000
      /\ At(2) = 904300000
      /\ At(3) = 904500000
      /\ At(4) = 904700000
      /\ At(5) = 904900000
      /\ At(6) = 905100000
      /\ At(7) = 905300000
  BY <1>2, SMT
<1>7. RxFreqInRange(f0) /\ RxFreqInRange(f1) /\ 5 \in Bands(f0) /\ 5 \in Bands(f1)
  BY SMT DEF RxFreqInRange, Bands, InBand, ImageBands
<1> HIDE DEF f0, f1, At
<1>8. \A c \in Multi : \A d \in Multi \ {c} : Clear(At(c), At(d))
  BY <1>1, <1>6, SMT DEF Clear
<1>9. \A c \in Multi : MultiFits(multi[c + 1])
  BY <1>1, <1>2, SMT
<1>10. FitTogether(f0, f1, UsLut, multi, std, fsk)
  BY <1>3, <1>4, <1>7, <1>8, <1>9, ShippedTables, Zenon DEF FitTogether, At, UsLut
<1> QED
  BY <1>5, <1>10, TogetherServes, Zenon

\* The plans of all regions do.
LEMMA PlansAlwaysServe ==
    ASSUME NEW region, NEW freq0 \in Nat, NEW freq1 \in Nat
    PROVE  PlanServes(region, freq0, freq1)
<1>1. PlanFits(RegionPlan(region)) /\ GatewayAccepted(RegionPlan(region)) /\ Spread(RegionPlan(region))
  BY CNServes, EUServes, USServes, Zenon DEF RegionPlan
<1> QED
  BY <1>1, FittingServes, Zenon

-----------------------------------------------------------------------------
(* All that is computed.                                                     *)

\* What has been chosen, for every packet, channel, gain table, frequency, plan, metadata
\* and batch that ComputingAssumption admits.
ProbeOf ==
  /\ part = "modem"    => probe \in Packet \X BOOLEAN
  /\ part = "channel"  => probe \in Channel
  /\ part = "power"    => GainTable(probe[2]) /\ probe[3] \in Int
  /\ part = "radio"    => probe \in RadioTypes \X Nat
  /\ part = "plan"     => probe[2] \in Nat /\ probe[3] \in Nat
  /\ part = "metadata" => probe \in Raw \X ServiceModem
  /\ part = "merging"  => Merge!Batch(probe)

\* The step that chooses, chooses what ComputingAssumption admits.
LEMMA ProbeStep == ProbeOf /\ [part = Start /\ Choose]_<<part, probe>> => ProbeOf'
<1> SUFFICES ASSUME ProbeOf, [part = Start /\ Choose]_<<part, probe>> PROVE ProbeOf'
  OBVIOUS
<1>1. CASE part' = "modem" /\ probe' \in Packets \X BOOLEAN
  <2>1. probe' \in Packet \X BOOLEAN
    BY <1>1, ComputingAssumption, Zenon
  <2> QED
    BY <1>1, <2>1 DEF ProbeOf
<1>2. CASE part' = "channel" /\ probe' \in Channels
  <2>1. probe' \in Channel
    BY <1>2, ComputingAssumption, Zenon
  <2> QED
    BY <1>2, <2>1 DEF ProbeOf
<1>3. CASE part' = "power" /\ probe' \in Powers
  <2>1. GainTable(probe'[2]) /\ probe'[3] \in Int
    BY <1>3, ComputingAssumption, Zenon
  <2> QED
    BY <1>3, <2>1 DEF ProbeOf
<1>4. CASE part' = "merging" /\ probe' \in Batches
  <2>1. Merge!Batch(probe')
    BY <1>4, ComputingAssumption, Zenon
  <2>2. ProbeOf' <=> Merge!Batch(probe')
    BY <1>4 DEF ProbeOf
  <2> QED
    BY <2>1, <2>2
<1>5. CASE part' = "radio" /\ probe' \in Radioed
  <2>1. probe' \in RadioTypes \X Nat
    BY <1>5, ComputingAssumption, Zenon
  <2> QED
    BY <1>5, <2>1 DEF ProbeOf
<1>6. CASE part' = "plan" /\ probe' \in Plans
  <2>1. probe'[2] \in Nat /\ probe'[3] \in Nat
    BY <1>6, ComputingAssumption, Zenon
  <2> QED
    BY <1>6, <2>1 DEF ProbeOf
<1>7. CASE part' = "metadata" /\ probe' \in Metadata
  <2>1. probe' \in Raw \X ServiceModem
    BY <1>7, ComputingAssumption, Zenon
  <2> QED
    BY <1>7, <2>1 DEF ProbeOf
<1>8. CASE UNCHANGED <<part, probe>>
  BY <1>8 DEF ProbeOf
<1> QED
  BY <1>1, <1>2, <1>3, <1>4, <1>5, <1>6, <1>7, <1>8, Zenon DEF Choose

\* Of all of that ParametersAgree holds.
LEMMA ProbesAgree == ProbeOf => ParametersAgree
<1> SUFFICES ASSUME ProbeOf PROVE ParametersAgree
  OBVIOUS
<1>1. ASSUME part = "modem"
      PROVE  R!AirtimeCovers(probe[1]) /\ R!BlocksHoldAll(probe[1]) /\ R!LinkAgreed(probe[1], probe[2])
  <2>1. probe[1] \in Packet
    BY <1>1 DEF ProbeOf
  <2> QED
    BY <2>1, AirtimeAlwaysCovers, BlocksAlwaysHold, LinksAlwaysAgree, Zenon
<1>2. ASSUME part = "channel" PROVE AcceptedHeard(probe[1], probe[2])
  <2>1. PICK chain \in IfChains, conf \in [enable : BOOLEAN, rf : Nat, bw : Widths \cup {Undefined}, rate : Nat, freq : Int] :
          chain = probe[1] /\ conf = probe[2]
    BY <1>2 DEF ProbeOf, Channel
  <2>2. conf.freq \in Int /\ conf.bw \in Nat
    BY DEF Widths, Undefined
  <2> QED
    BY <2>1, <2>2, AcceptedAlwaysHeard, Zenon
<1>3. ASSUME part = "power" PROVE PowerAgreed(probe[1], probe[2], probe[3])
  <2>1. GainTable(probe[2]) /\ probe[3] \in Int
    BY <1>3, Zenon DEF ProbeOf
  <2> QED
    BY <2>1, PowerAlwaysAgreed, Zenon
<1>4. ASSUME part = "radio" PROVE TunedAsAsked(probe[1], probe[2])
  <2>1. probe[1] \in RadioTypes /\ probe[2] \in Nat
    BY <1>4 DEF ProbeOf
  <2> QED
    BY <2>1, AlwaysTuned, Zenon
<1>5. ASSUME part = "plan" PROVE PlanServes(probe[1], probe[2], probe[3])
  <2>1. probe[2] \in Nat /\ probe[3] \in Nat
    BY <1>5, Zenon DEF ProbeOf
  <2> QED
    BY <2>1, PlansAlwaysServe, Zenon
<1>6. ASSUME part = "metadata" PROVE Rx!ParsedSerialisable(probe[1], probe[2])
  <2>1. probe[1] \in Raw /\ probe[2] \in ServiceModem
    BY <1>6 DEF ProbeOf
  <2> QED
    BY <2>1, AlwaysSerialisable, Zenon
<1> QED
  BY <1>1, <1>2, <1>3, <1>4, <1>5, <1>6, Zenon DEF ParametersAgree

\* What is computed of a parameter at several places agrees: the time that
\* lgw_time_on_air reserves covers the packet, the blocks of legacy_timestamp_correction
\* hold it, both ends of a link are set alike, a channel that lgw_rxif_setconf accepts is
\* heard where it was asked for, sx1302_send finds the power that thread_down reported,
\* every radio is tuned to a step of any frequency it works at, what sx1302_parse makes of
\* any metadata can be serialised, and the settings of the program's plans are accepted with
\* whatever frequencies the web page adds, but the radios calibrated, as lgw_start needs, only
\* if those are in the bands of the sx1250.
THEOREM ParametersAlwaysAgree == ComputingSpec => []ParametersAgree
<1>1. ComputingInit => ProbeOf
  BY DEF ComputingInit, ProbeOf, Start
<1> QED
  BY <1>1, ProbeStep, ProbesAgree, PTL DEF ComputingSpec

\* merge_packets hands over no packet of a batch twice, keeps of each the best by its CRC
\* and its fine timestamp, and hands them over in the order of their reception, for every
\* batch received within half a turn of the counter, in whatever order; and there is an
\* order for the sort to find.
THEOREM BatchesMergeWell == ComputingSpec => []MergedOnce
<1>1. ComputingInit => ProbeOf
  BY DEF ComputingInit, ProbeOf, Start
<1>2. ProbeOf => MergedOnce
  BY BatchMerged, Zenon DEF ProbeOf, MergedOnce
<1> QED
  BY <1>1, <1>2, ProbeStep, PTL DEF ComputingSpec
=============================================================================
