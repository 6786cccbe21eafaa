---------------------------- MODULE CodecProofs ----------------------------
(* Proofs about module Codec, for bytes of any base, pages of any size, and *)
(* any row and record that the program can store.                           *)
(*                                                                          *)
(* What is written is a concatenation, and what is read is looked for at an *)
(* offset. Held(s, offset, e) says that the bytes e are among the bytes s   *)
(* at an offset; each piece of a concatenation is held where the lengths of *)
(* those before it say (HeldJoined), and each reader finds what is held     *)
(* (NumberHeld, VarintHeld). The loops are compared with an explicit list   *)
(* of their states, one for each step (SameLoop in module Loops): the types *)
(* and values found so far (TypesRead, ValuesRead), and the bytes found in  *)
(* the pages of a chain so far (ChainRead).                                 *)
EXTENDS Codec, Loops, SequenceTheorems
-----------------------------------------------------------------------------
(* Numbers                                                                  *)

(* Division by two numbers, one after the other.                            *)
LEMMA DivDiv ==
  ASSUME NEW b \in Nat \ {0}, NEW c \in Nat \ {0}, NEW n \in Int
  PROVE  n \div (b * c) = (n \div c) \div b
BY SMTT(20)

(* The quotient rounds down, also of a negative number.                     *)
LEMMA DivMod ==
  ASSUME NEW b \in Nat \ {0}, NEW n \in Int
  PROVE  n \div b \in Int /\ n % b \in 0..b - 1 /\ n = (n \div b) * b + (n % b)
<1>1. n % b \in 0..b - 1
  BY SMT
<1>2. n \div b \in Int
  BY SMT
<1>3. n = b * (n \div b) + (n % b)
  BY SMT
<1>4. \A x \in Int : b * x = x * b
  OBVIOUS
<1> QED
  BY <1>1, <1>2, <1>3, <1>4

LEMMA DivIs ==
  ASSUME NEW b \in Nat \ {0}, NEW q \in Int, NEW r \in 0..b - 1
  PROVE  (q * b + r) \div b = q /\ (q * b + r) % b = r
<1> DEFINE n == q * b + r
<1>1. n \in Int /\ n = q * b + r
  OBVIOUS
<1> HIDE DEF n
<1>2. n \div b = q
  BY <1>1, SMT
<1>3. n % b = r
  BY <1>1, SMT
<1> QED
  BY <1>2, <1>3 DEF n

(* A quotient is less than a number just if the dividend is less than its   *)
(* product.                                                                 *)
LEMMA DivBound ==
  ASSUME NEW b \in Nat \ {0}, NEW n \in Int, NEW q \in Int
  PROVE  (n \div b) < q <=> n < q * b
BY SMTT(20)

(* A remainder is the number itself, if it is less than the divisor.        *)
LEMMA Small ==
  ASSUME NEW b \in Nat \ {0}, NEW n \in 0..b - 1
  PROVE  n \div b = 0 /\ n % b = n
BY SMT

(* What the assumptions say of a byte.                                      *)
LEMMA Bytes ==
  /\ Base \in Nat \ {0} /\ 16 < Base
  /\ Base \div 2 \in Nat \ {0} /\ Base = 2 * (Base \div 2)
  /\ OneByte = Base - 16 /\ TwoBytes = OneByte + 8 * Base - 1
  /\ ThreeBytes = TwoBytes + Base * Base
<1>1. Base = 2 * (Base \div 2)
  BY BaseAssumption, SMT
<1> QED
  BY BaseAssumption, <1>1 DEF OneByte, TwoBytes, ThreeBytes
(* The powers of the base.                                                  *)
LEMMA Powers ==
  /\ Power[0] = 1
  /\ \A k \in 1..8 : Power[k] = Base * Power[k - 1]
  /\ \A k \in 0..8 : Power[k] \in Nat \ {0}
<1> DEFINE step(f) == [k \in 0..8 |-> IF k = 0 THEN 1 ELSE Base * f[k - 1]]
           S == [k \in 0..8 |-> Nat \ {0}]
           g == [k \in 1..8 |-> [x \in Nat \ {0} |-> Base * x]]
<1>1. Power = CHOOSE f : f = step(f)
  BY DEF Power
<1>2. PICK f : Follows(f, 8, S, 1, g)
  <2>1. \A k \in 1..8 : \A x \in S[k - 1] : g[k][x] \in S[k]
    <3> SUFFICES ASSUME NEW k \in 1..8, NEW x \in Nat \ {0} PROVE Base * x \in Nat \ {0}
      OBVIOUS
    <3> QED
      BY Bytes
  <2>2. 1 \in S[0] /\ 8 \in Nat
    OBVIOUS
  <2>3. Stepwise(8, S, 1, g)
    BY <2>1, <2>2 DEF Stepwise
  <2> QED
    BY <2>3, Recursion
<1>3. f[0] = 1 /\ (\A k \in 1..8 : f[k] = g[k][f[k - 1]]) /\ \A k \in 0..8 : f[k] \in Nat \ {0}
  BY <1>2 DEF Follows
<1>4. \A k \in 1..8 : f[k] = Base * f[k - 1]
  BY <1>3
<1> DEFINE h == [k \in 0..8 |-> f[k]]
<1>5. h = step(h)
  <2>1. \A k \in 0..8 : h[k] = f[k]
    OBVIOUS
  <2>2. \A k \in 0..8 : k # 0 => k - 1 \in 0..8
    OBVIOUS
  <2>3. \A k \in 0..8 : f[k] = IF k = 0 THEN 1 ELSE Base * h[k - 1]
    BY <2>1, <2>2, <1>3, <1>4
  <2> QED
    BY <2>3
<1>6. Power = step(Power)
  <2> HIDE DEF step, h
  <2> QED
    BY <1>1, <1>5
<1> DEFINE H == {k \in 0..8 : Power[k] = f[k]}
<1>7. \A k \in 0..8 : Power[k] = IF k = 0 THEN 1 ELSE Base * Power[k - 1]
  <2> DEFINE p == Power
  <2>1. p = step(p)
    BY <1>6
  <2> HIDE DEF p
  <2> QED
    BY <2>1 DEF p
<1>8. 0..8 \subseteq H
  <2>1. 0 \in H
    BY <1>3, <1>7
  <2>2. ASSUME NEW k \in 1..8, k - 1 \in H PROVE k \in H
    <3>1. k \in 0..8 /\ k # 0
      OBVIOUS
    <3> QED
      BY <2>2, <3>1, <1>4, <1>7
  <2> HIDE DEF H
  <2> QED
    BY <2>1, <2>2, Induction
<1> QED
  BY <1>3, <1>7, <1>8

(* One more byte to the right of a number.                                  *)
LEMMA NextDigit ==
  ASSUME NEW n \in Int, NEW w \in 1..8, NEW i \in 1..w
  PROVE  n \div Power[w - i] = (n \div Power[w - (i - 1)]) * Base + ((n \div Power[w - i]) % Base)
<1> DEFINE k == w - i
           m == n \div Power[k]
<1>1. k \in 0..7 /\ k + 1 \in 1..8 /\ w - (i - 1) = k + 1 /\ (k + 1) - 1 = k
  OBVIOUS
<1>2. Power[k + 1] = Base * Power[k] /\ Power[k] \in Nat \ {0}
  BY <1>1, Powers
<1>3. n \div Power[k + 1] = m \div Base
  BY <1>2, DivDiv, Bytes
<1>4. m \in Int
  BY <1>2, DivMod
<1> HIDE DEF k, m
<1>5. m = (m \div Base) * Base + (m % Base)
  BY <1>4, DivMod, Bytes
<1> QED
  BY <1>1, <1>3, <1>5 DEF k, m

(* The bytes of a number.                                                   *)
LEMMA DigitsAre ==
  ASSUME NEW n \in Int, NEW w \in 1..8
  PROVE  /\ Digits(n, w) \in Seq(0..Base - 1) /\ Len(Digits(n, w)) = w
         /\ \A i \in 1..w : Digits(n, w)[i] = (n \div Power[w - i]) % Base
<1>1. ASSUME NEW i \in 1..w PROVE (n \div Power[w - i]) % Base \in 0..Base - 1
  <2>1. w - i \in 0..8
    OBVIOUS
  <2>2. Power[w - i] \in Nat \ {0}
    BY <2>1, Powers
  <2>3. n \div Power[w - i] \in Int
    BY <2>2, DivMod
  <2> QED
    BY <2>3, DivMod, Bytes
<1>2. Digits(n, w) = [i \in 1..w |-> (n \div Power[w - i]) % Base]
  BY DEF Digits
<1> DEFINE e == [i \in 1..w |-> (n \div Power[w - i]) % Base]
<1>3. e \in Seq(0..Base - 1) /\ Len(e) = w
  <2>1. w \in Nat
    OBVIOUS
  <2> QED
    BY <1>1, <2>1
<1> QED
  BY <1>2, <1>3

(* The bytes of a number, behind what is left of it, stand for it.          *)
LEMMA DigitsRead ==
  ASSUME NEW n \in Int, NEW w \in 1..8
  PROVE  NumberAfter(n \div Power[w], Digits(n, w)) = n
<1> DEFINE s == Digits(n, w)
           z == n \div Power[w]
           step(f) == [i \in 0..Len(s) |-> IF i = 0 THEN z ELSE f[i - 1] * Base + s[i]]
           upTo == CHOOSE f : f = step(f)
           h == [i \in 0..w |-> n \div Power[w - i]]
           H == {i \in 0..w : upTo[i] = h[i]}
<1>1. Len(s) = w /\ \A i \in 1..w : s[i] = (n \div Power[w - i]) % Base
  BY DigitsAre
<1>2. NumberAfter(z, s) = upTo[w]
  BY <1>1 DEF NumberAfter
<1> HIDE DEF s
<1>3. \A i \in 1..w : h[i] = h[i - 1] * Base + s[i]
  <2> SUFFICES ASSUME NEW i \in 1..w PROVE h[i] = h[i - 1] * Base + s[i]
    OBVIOUS
  <2>1. i \in 0..w /\ i - 1 \in 0..w
    OBVIOUS
  <2> QED
    BY <2>1, <1>1, NextDigit
<1>4. h[0] = z
  OBVIOUS
<1>5. h = step(h)
  <2>1. \A i \in 0..w : i # 0 => i \in 1..w
    OBVIOUS
  <2> DEFINE v(i) == n \div Power[w - i]
  <2>2. \A i \in 0..w : h[i] = IF i = 0 THEN z ELSE h[i - 1] * Base + s[i]
    BY <1>3, <1>4, <2>1
  <2>3. h = [i \in 0..w |-> h[i]]
    OBVIOUS
  <2> HIDE DEF h, z
  <2> QED
    BY <2>2, <2>3, <1>1
<1>6. upTo = step(upTo)
  <2> HIDE DEF step, h
  <2> QED
    BY <1>5
<1>7. \A i \in 0..w : upTo[i] = IF i = 0 THEN z ELSE upTo[i - 1] * Base + s[i]
  <2> DEFINE p == upTo
  <2>1. p = step(p)
    BY <1>6
  <2> HIDE DEF p
  <2> QED
    BY <2>1, <1>1 DEF p
<1> HIDE DEF upTo, h, z
<1>8. 0..w \subseteq H
  <2>1. 0 \in H
    BY <1>4, <1>7
  <2>2. ASSUME NEW i \in 1..w, i - 1 \in H PROVE i \in H
    <3>1. i \in 0..w /\ i # 0
      OBVIOUS
    <3> QED
      BY <2>2, <3>1, <1>3, <1>7
  <2>3. w \in Nat
    OBVIOUS
  <2> HIDE DEF H
  <2> QED
    BY <2>1, <2>2, <2>3, Induction
<1>9. h[w] = n
  <2>1. h[w] = n \div Power[0]
    BY DEF h
  <2> QED
    BY <2>1, Powers
<1> QED
  BY <1>2, <1>8, <1>9 DEF s, z

-----------------------------------------------------------------------------
(* Bytes within bytes                                                       *)

(* The bytes e are among the bytes s, at an offset.                         *)
Held(s, offset, e) ==
  /\ offset \in Nat /\ s \in Seq(Int) /\ e \in Seq(Int)
  /\ offset + Len(e) <= Len(s)
  /\ \A j \in 1..Len(e) : s[offset + j] = e[j]

(* What is read there is e.                                                 *)
LEMMA SliceHeld ==
  ASSUME NEW s, NEW offset, NEW e, Held(s, offset, e)
  PROVE  Slice(s, offset, Len(e)) = e
<1> DEFINE t == SubSeq(s, offset + 1, offset + Len(e))
<1>1. offset \in Nat /\ s \in Seq(Int) /\ e \in Seq(Int) /\ Len(e) \in Nat /\ Len(s) \in Nat
      /\ offset + Len(e) <= Len(s) /\ \A j \in 1..Len(e) : s[offset + j] = e[j]
  BY DEF Held
<1>2. \A i \in offset + 1..offset + Len(e) : s[i] \in Int
  BY <1>1
<1>3. t \in Seq(Int) /\ Len(t) = Len(e) /\ \A j \in 1..Len(e) : t[j] = s[offset + j]
  <2> DEFINE m == offset + 1
             n == offset + Len(e)
  <2>1. m \in Int /\ n \in Int /\ \A i \in m..n : s[i] \in Int
    BY <1>1, <1>2
  <2>2. n - m + 1 = Len(e) /\ (m <= n <=> Len(e) # 0) /\ \A i \in 1..Len(e) : m + i - 1 = offset + i
    BY <1>1
  <2> HIDE DEF m, n
  <2> DEFINE u == SubSeq(s, m, n)
  <2>3. /\ u \in Seq(Int)
        /\ Len(u) = IF m <= n THEN n - m + 1 ELSE 0
        /\ \A i \in 1..n - m + 1 : u[i] = s[m + i - 1]
    BY <2>1, SubSeqProperties
  <2> HIDE DEF u
  <2>4. Len(u) = Len(e) /\ \A i \in 1..Len(e) : u[i] = s[offset + i]
    BY <2>2, <2>3, <1>1
  <2> QED
    BY <2>3, <2>4 DEF u, m, n
<1> HIDE DEF t
<1>4. t = e
  BY <1>1, <1>3, SeqEqual
<1> QED
  BY <1>4 DEF Slice, t

(* Of two pieces one after the other, each is where it should be.           *)
LEMMA HeldJoined ==
  ASSUME NEW s, NEW offset, NEW a \in Seq(Int), NEW b \in Seq(Int), Held(s, offset, a \o b)
  PROVE  Held(s, offset, a) /\ Held(s, offset + Len(a), b)
<1> DEFINE e == a \o b
<1>1. /\ Len(e) = Len(a) + Len(b)
      /\ \A k \in 1..Len(a) + Len(b) : e[k] = IF k <= Len(a) THEN a[k] ELSE b[k - Len(a)]
  BY ConcatProperties
<1>2. offset \in Nat /\ s \in Seq(Int) /\ offset + Len(e) <= Len(s)
      /\ (\A j \in 1..Len(e) : s[offset + j] = e[j])
      /\ Len(a) \in Nat /\ Len(b) \in Nat /\ Len(s) \in Nat
  BY DEF Held
<1> HIDE DEF e
<1>3. Held(s, offset, a)
  <2>1. \A j \in 1..Len(a) : j \in 1..Len(a) + Len(b) /\ j <= Len(a)
    BY <1>2
  <2>2. offset + Len(a) <= Len(s)
    BY <1>1, <1>2
  <2> QED
    BY <1>1, <1>2, <2>1, <2>2 DEF Held
<1>4. Held(s, offset + Len(a), b)
  <2>1. ASSUME NEW j \in 1..Len(b) PROVE s[(offset + Len(a)) + j] = b[j]
    <3>1. Len(a) + j \in 1..Len(a) + Len(b) /\ ~(Len(a) + j <= Len(a)) /\ (Len(a) + j) - Len(a) = j
          /\ offset + (Len(a) + j) = (offset + Len(a)) + j
      BY <1>2
    <3> QED
      BY <1>1, <1>2, <3>1
  <2>2. (offset + Len(a)) + Len(b) <= Len(s) /\ offset + Len(a) \in Nat
    BY <1>1, <1>2
  <2> QED
    BY <1>2, <2>1, <2>2 DEF Held
<1> QED
  BY <1>3, <1>4

(* Bytes, and what is put behind them.                                      *)
LEMMA HeldInFront ==
  ASSUME NEW a \in Seq(Int), NEW b \in Seq(Int)
  PROVE  a \o b \in Seq(Int) /\ Held(a \o b, 0, a)
<1> DEFINE e == a \o b
<1>1. e \in Seq(Int) /\ e \o << >> = e /\ Held(e, 0, e)
  <2>1. e \in Seq(Int)
    BY ConcatProperties
  <2> HIDE DEF e
  <2>2. Len(e) \in Nat /\ \A j \in 1..Len(e) : 0 + j = j
    BY <2>1
  <2> QED
    BY <2>1, <2>2, ConcatEmptySeq DEF Held
<1> QED
  BY <1>1, HeldJoined

(* The numbers that eight bytes hold, and no more than w bytes.             *)
LEMMA FitsInto ==
  ASSUME NEW n, Unsigned(n)
  PROVE  n \in Nat /\ n \div Power[8] = 0
<1>1. n \in Nat /\ n \div Power[7] < Base
  BY DEF Unsigned
<1>2. Power[7] \in Nat \ {0} /\ Power[8] = Base * Power[7]
  <2>1. 8 \in 1..8 /\ 8 - 1 = 7 /\ 7 \in 0..8
    OBVIOUS
  <2> QED
    BY <2>1, Powers
<1> DEFINE P == Power[7]
<1>0. n \in Int /\ P \in Nat \ {0} /\ Power[8] = Base * P
  BY <1>1, <1>2
<1> HIDE DEF P
<1>3. n \div Power[8] = (n \div P) \div Base
  BY <1>0, DivDiv, Bytes
<1>4. n \div P \in 0..Base - 1
  <2>1. n \div P \in Int
    BY <1>0, DivMod
  <2>2. ~((n \div P) < 0)
    <3>1. 0 * P = 0 /\ 0 \in Int /\ ~(n < 0)
      BY <1>0, <1>1
    <3> QED
      BY <1>0, <3>1, DivBound
  <2>3. (n \div P) < Base
    BY <1>1 DEF P
  <2> DEFINE m == n \div P
  <2> HIDE DEF m
  <2>4. m \in Int /\ ~(m < 0) /\ m < Base => m \in 0..Base - 1
    BY Bytes
  <2> QED
    BY <2>1, <2>2, <2>3, <2>4 DEF m
<1> DEFINE m == n \div P
<1> HIDE DEF m
<1>5. m \div Base = 0
  BY <1>4, Small, Bytes DEF m
<1> QED
  BY <1>1, <1>3, <1>5 DEF m

(* A number of w bytes, read where it is held.                              *)
LEMMA NumberHeld ==
  ASSUME NEW n \in Int, NEW w \in 1..8, NEW s, NEW offset, Held(s, offset, Digits(n, w))
  PROVE  NumberAfter(n \div Power[w], Slice(s, offset, w)) = n
<1>1. Len(Digits(n, w)) = w
  BY DigitsAre
<1>2. Slice(s, offset, w) = Digits(n, w)
  BY <1>1, SliceHeld
<1> QED
  BY <1>2, DigitsRead

-----------------------------------------------------------------------------
(* Variable-length integers                                                 *)

LEMMA MinIn ==
  ASSUME NEW T \in SUBSET Nat, T # {}
  PROVE  Min(T) \in T /\ \A k \in T : Min(T) <= k
<1>1. \E m \in T : \A k \in T : m <= k
  BY Least
<1> QED
  BY <1>1 DEF Min

(* The number of bytes of a long integer is enough for it.                  *)
LongSize(n) == Min({t \in 4..8 : n < Power[t - 1]} \union {9})

LEMMA LongSizeFits ==
  ASSUME NEW n \in Nat
  PROVE  LongSize(n) \in 4..9 /\ (Unsigned(n) => n \div Power[LongSize(n) - 1] = 0)
<1> DEFINE t == LongSize(n)
<1>1. t \in {k \in 4..8 : n < Power[k - 1]} \union {9}
  <2> DEFINE T == {k \in 4..8 : n < Power[k - 1]} \union {9}
  <2>1. T \in SUBSET Nat /\ T # {}
    OBVIOUS
  <2> HIDE DEF T
  <2>2. Min(T) \in T
    BY <2>1, MinIn
  <2> QED
    BY <2>2 DEF T, LongSize
<1> HIDE DEF t
<1>2. CASE t \in 4..8 /\ n < Power[t - 1]
  <2>1. t - 1 \in 0..8
    BY <1>2
  <2> DEFINE P == Power[t - 1]
  <2>2. P \in Nat \ {0}
    BY <2>1, Powers
  <2> HIDE DEF P
  <2>3. n \in 0..P - 1
    BY <2>2, <1>2 DEF P
  <2>4. n \div P = 0
    BY <2>2, <2>3, Small
  <2> QED
    BY <2>4, <1>2 DEF P, t
<1>3. CASE t = 9
  BY <1>3, FitsInto DEF t
<1> QED
  BY <1>1, <1>2, <1>3

(* The three short forms, and the long one.                                 *)
LEMMA Forms ==
  ASSUME NEW n
  PROVE  EncodeVarint(n) =
           IF n <= OneByte THEN <<n>>
           ELSE IF n <= TwoBytes THEN <<((n - OneByte) \div Base) + OneByte + 1, (n - OneByte) % Base>>
           ELSE IF n <= ThreeBytes THEN <<Base - 7>> \o Digits((n - TwoBytes) - 1, 2)
           ELSE <<(Base - 10) + LongSize(n)>> \o Digits(n, LongSize(n) - 1)
<1>1. Lead(4) - 1 = Base - 7 /\ Lead(LongSize(n)) = (Base - 10) + LongSize(n)
  <2>1. Base - 10 + 4 - 1 = Base - 7
    BY Bytes
  <2> QED
    BY <2>1, Bytes DEF Lead
<1> QED
  BY <1>1 DEF EncodeVarint, LongSize

LEMMA OneByteForm ==
  ASSUME NEW n \in Nat, n <= OneByte
  PROVE  /\ EncodeVarint(n) \in Seq(0..Base - 1) /\ Len(EncodeVarint(n)) = 1
         /\ \A s, offset : Held(s, offset, EncodeVarint(n)) => DecodeVarint(s, offset) = [value |-> n, size |-> 1]
<1>0. n \in 0..Base - 1
  BY Bytes
<1>1. EncodeVarint(n) = <<n>> /\ n \in 0..Base - 1
  BY <1>0, Forms
<1>2. ASSUME NEW s, NEW offset, Held(s, offset, EncodeVarint(n))
      PROVE  DecodeVarint(s, offset) = [value |-> n, size |-> 1]
  <2>1. s[offset + 1] = n
    BY <1>1, <1>2 DEF Held
  <2> QED
    BY <2>1 DEF DecodeVarint
<1> QED
  BY <1>1, <1>2

LEMMA TwoByteForm ==
  ASSUME NEW n \in Nat, ~(n <= OneByte), n <= TwoBytes
  PROVE  /\ EncodeVarint(n) \in Seq(0..Base - 1) /\ Len(EncodeVarint(n)) = 2
         /\ \A s, offset : Held(s, offset, EncodeVarint(n)) => DecodeVarint(s, offset) = [value |-> n, size |-> 2]
<1> DEFINE m == n - OneByte
           q == m \div Base
           r == m % Base
           a == q + OneByte + 1
<1>1. EncodeVarint(n) = <<a, r>>
  BY Forms
<1>2. m \in Nat /\ m < 8 * Base
  BY Bytes
<1>3. q \in Int /\ r \in 0..Base - 1 /\ m = q * Base + r
  <2> HIDE DEF m
  <2> QED
    BY <1>2, DivMod, Bytes
<1>4. q < 8 /\ 0 <= q
  <2> HIDE DEF m
  <2>1. q < 8
    BY <1>2, DivBound, Bytes
  <2>2. ~(m < 0 * Base) /\ 0 * Base = 0
    BY <1>2, Bytes
  <2>3. ~(q < 0)
    BY <2>2, <1>2, DivBound, Bytes
  <2> QED
    BY <2>1, <2>3, <1>3
<1>5. a \in 0..Base - 1 /\ ~(a <= OneByte) /\ a < Base - 7 /\ a - OneByte - 1 = q
  <2> HIDE DEF q
  <2> QED
    BY <1>3, <1>4, Bytes
<1>6. n = q * Base + r + OneByte
  <2> HIDE DEF q, r
  <2> QED
    BY <1>3, Bytes
<1> HIDE DEF m, q, r, a
<1>7. ASSUME NEW s, NEW offset, Held(s, offset, EncodeVarint(n))
      PROVE  DecodeVarint(s, offset) = [value |-> n, size |-> 2]
  <2>1. s[offset + 1] = a /\ s[offset + 2] = r
    BY <1>1, <1>7 DEF Held
  <2>2. Lead(4) - 1 = Base - 7
    BY Bytes DEF Lead
  <2> QED
    BY <2>1, <2>2, <1>5, <1>6 DEF DecodeVarint
<1> QED
  BY <1>1, <1>3, <1>5, <1>7

(* A byte in front of others.                                               *)
LEMMA Headed ==
  ASSUME NEW a \in 0..Base - 1, NEW b \in Seq(0..Base - 1)
  PROVE  /\ <<a>> \o b \in Seq(0..Base - 1) /\ Len(<<a>> \o b) = Len(b) + 1
         /\ \A s, offset : Held(s, offset, <<a>> \o b) => s[offset + 1] = a /\ Held(s, offset + 1, b)
<1> DEFINE o == <<a>>
<1>1. o \in Seq(0..Base - 1) /\ Len(o) = 1 /\ o[1] = a
  OBVIOUS
<1>2. o \in Seq(Int) /\ b \in Seq(Int) /\ Len(b) \in Nat
  <2> DEFINE D == 0..Base - 1
  <2>1. D \subseteq Int /\ o \in Seq(D) /\ b \in Seq(D)
    BY <1>1, Bytes
  <2> HIDE DEF o, D
  <2>2. o \in Seq(Int)
    BY <2>1, SeqMonotonic
  <2>3. b \in Seq(Int)
    BY <2>1, SeqMonotonic
  <2> QED
    BY <2>2, <2>3
<1> HIDE DEF o
<1>3. o \o b \in Seq(0..Base - 1) /\ Len(o \o b) = Len(o) + Len(b)
  BY <1>1, ConcatProperties
<1>4. ASSUME NEW s, NEW offset, Held(s, offset, o \o b)
      PROVE  s[offset + 1] = a /\ Held(s, offset + 1, b)
  <2>1. Held(s, offset, o) /\ Held(s, offset + Len(o), b)
    BY <1>2, <1>4, HeldJoined
  <2>2. 1 \in 1..Len(o)
    BY <1>1
  <2>3. s[offset + 1] = a
    BY <2>1, <2>2, <1>1 DEF Held
  <2> QED
    BY <2>1, <2>3, <1>1
<1>5. Len(o \o b) = Len(b) + 1
  BY <1>1, <1>2, <1>3
<1> QED
  BY <1>3, <1>4, <1>5 DEF o

LEMMA ThreeByteForm ==
  ASSUME NEW n \in Nat, ~(n <= TwoBytes), n <= ThreeBytes
  PROVE  /\ EncodeVarint(n) \in Seq(0..Base - 1) /\ Len(EncodeVarint(n)) = 3
         /\ \A s, offset : Held(s, offset, EncodeVarint(n)) => DecodeVarint(s, offset) = [value |-> n, size |-> 3]
<1> DEFINE k == (n - TwoBytes) - 1
           b == Digits(k, 2)
           a == Base - 7
           q == k \div Base
<1>1. EncodeVarint(n) = <<a>> \o b
  <2>1. ~(n <= OneByte)
    BY Bytes
  <2> QED
    BY <2>1, Forms
<1>2. k \in Nat /\ k < Base * Base /\ n = k + TwoBytes + 1
  <2> DEFINE B2 == Base * Base
  <2>1. B2 \in Nat /\ TwoBytes \in Nat /\ ThreeBytes = TwoBytes + B2
    BY Bytes
  <2> HIDE DEF B2
  <2>2. k \in Nat /\ k < B2 /\ n = k + TwoBytes + 1
    BY <2>1
  <2> QED
    BY <2>2 DEF B2
<1> HIDE DEF k
<1>3. q \in 0..Base - 1
  <2>1. q \in Int /\ q < Base
    BY <1>2, DivMod, DivBound, Bytes
  <2>2. ~(k < 0 * Base) /\ 0 * Base = 0
    BY <1>2, Bytes
  <2>3. ~(q < 0)
    BY <2>2, <1>2, DivBound, Bytes
  <2> HIDE DEF q
  <2> QED
    BY <2>1, <2>3, Bytes
<1>4. Power[0] = 1 /\ Power[1] = Base
  <2>1. Power[1] = Base * Power[1 - 1] /\ 1 - 1 = 0
    BY Powers
  <2> QED
    BY <2>1, Powers, Bytes
<1>5. b \in Seq(0..Base - 1) /\ Len(b) = 2 /\ b[1] = q /\ b[2] = k % Base
  <2>1. /\ b \in Seq(0..Base - 1) /\ Len(b) = 2
        /\ \A i \in 1..2 : b[i] = (k \div Power[2 - i]) % Base
    BY <1>2, DigitsAre
  <2>2. b[1] = q % Base /\ b[2] = (k \div 1) % Base
    <3>1. 1 \in 1..2 /\ 2 \in 1..2 /\ 2 - 1 = 1 /\ 2 - 2 = 0
      OBVIOUS
    <3> HIDE DEF b
    <3> QED
      BY <2>1, <3>1, <1>4
  <2>3. k \div 1 = k
    BY <1>2, SMT
  <2> HIDE DEF b, q
  <2>4. q % Base = q
    BY <1>3, Small, Bytes
  <2> QED
    BY <2>1, <2>2, <2>3, <2>4
<1>6. k = q * Base + (k % Base)
  BY <1>2, DivMod, Bytes
<1>7. a \in 0..Base - 1 /\ a = Lead(4) - 1 /\ ~(a <= OneByte)
  BY Bytes DEF Lead
<1> HIDE DEF a, b, q
<1>8. ASSUME NEW s, NEW offset, Held(s, offset, EncodeVarint(n))
      PROVE  DecodeVarint(s, offset) = [value |-> n, size |-> 3]
  <2>1. s[offset + 1] = a /\ Held(s, offset + 1, b)
    BY <1>1, <1>5, <1>7, <1>8, Headed
  <2>2. s[offset + 2] = q /\ s[offset + 3] = k % Base
    <3>1. offset \in Nat
      BY <1>8 DEF Held
    <3>2. (offset + 1) + 1 = offset + 2 /\ (offset + 1) + 2 = offset + 3
      BY <3>1
    <3>3. \A j \in 1..2 : s[(offset + 1) + j] = b[j]
      BY <2>1, <1>5 DEF Held
    <3> QED
      BY <3>2, <3>3, <1>5
  <2>3. n = q * Base + (k % Base) + TwoBytes + 1
    BY <1>2, <1>6
  <2>4. s[offset + 1] = Lead(4) - 1 /\ ~(s[offset + 1] <= OneByte) /\ ~(s[offset + 1] < Lead(4) - 1)
    BY <2>1, <1>7, Bytes
  <2> QED
    BY <2>2, <2>3, <2>4 DEF DecodeVarint
<1>9. <<a>> \o b \in Seq(0..Base - 1) /\ Len(<<a>> \o b) = Len(b) + 1
  BY <1>5, <1>7, Headed
<1> QED
  BY <1>1, <1>5, <1>8, <1>9

LEMMA LongForm ==
  ASSUME NEW n \in Nat, ~(n <= ThreeBytes)
  PROVE  /\ EncodeVarint(n) \in Seq(0..Base - 1) /\ Len(EncodeVarint(n)) = LongSize(n)
         /\ \A s, offset : Unsigned(n) /\ Held(s, offset, EncodeVarint(n))
                             => DecodeVarint(s, offset) = [value |-> n, size |-> LongSize(n)]
<1> DEFINE t == LongSize(n)
           w == t - 1
           b == Digits(n, w)
           a == (Base - 10) + t
<1>1. n \in Nat /\ t \in 4..9 /\ (Unsigned(n) => n \div Power[w] = 0)
  BY LongSizeFits
<1>2. EncodeVarint(n) = <<a>> \o b
  <2>1. ~(n <= OneByte) /\ ~(n <= TwoBytes)
    <3> DEFINE B2 == Base * Base
    <3>1. B2 \in Nat /\ ThreeBytes = TwoBytes + B2
      BY Bytes
    <3> HIDE DEF B2
    <3> QED
      BY <3>1, <1>1, Bytes
  <2> QED
    BY <2>1, Forms
<1> HIDE DEF t
<1>3. w \in 1..8
  BY <1>1
<1>4. b \in Seq(0..Base - 1) /\ Len(b) = w
  <2>1. n \in Int
    BY <1>1
  <2> HIDE DEF w
  <2> QED
    BY <2>1, <1>3, DigitsAre
<1>5. a \in 0..Base - 1 /\ ~(a <= OneByte) /\ ~(a < Lead(4) - 1) /\ a # Lead(4) - 1 /\ a - (Base - 10) = t
  BY <1>1, Bytes DEF Lead
<1> HIDE DEF a, b
<1>6. ASSUME NEW s, NEW offset, Unsigned(n), Held(s, offset, EncodeVarint(n))
      PROVE  DecodeVarint(s, offset) = [value |-> n, size |-> t]
  <2>1. s[offset + 1] = a /\ Held(s, offset + 1, b)
    BY <1>2, <1>4, <1>5, <1>6, Headed
  <2>2. NumberAfter(n \div Power[w], Slice(s, offset + 1, w)) = n
    <3> HIDE DEF w
    <3>1. n \in Int
      BY <1>1
    <3> QED
      BY <3>1, <2>1, <1>3, NumberHeld DEF b
  <2>3. Number(Slice(s, offset + 1, w)) = n
    BY <2>2, <1>1, <1>6 DEF Number
  <2> QED
    BY <2>1, <2>3, <1>5 DEF DecodeVarint
<1>7. EncodeVarint(n) \in Seq(0..Base - 1) /\ Len(EncodeVarint(n)) = w + 1
  BY <1>2, <1>4, <1>5, Headed
<1>8. w + 1 = t
  BY <1>1
<1> QED
  BY <1>6, <1>7, <1>8 DEF t

(* A variable-length integer is bytes, and is read back where it is held.   *)
LEMMA VarintBytes ==
  ASSUME NEW n \in Nat
  PROVE  EncodeVarint(n) \in Seq(0..Base - 1) /\ EncodeVarint(n) \in Seq(Int) /\ Len(EncodeVarint(n)) \in 1..9
<1>2. EncodeVarint(n) \in Seq(0..Base - 1) /\ Len(EncodeVarint(n)) \in 1..9
  <2>1. CASE n <= OneByte
    BY <2>1, OneByteForm
  <2>2. CASE ~(n <= OneByte) /\ n <= TwoBytes
    BY <2>2, TwoByteForm
  <2>3. CASE ~(n <= TwoBytes) /\ n <= ThreeBytes
    BY <2>3, ThreeByteForm
  <2>4. CASE ~(n <= ThreeBytes)
    <3>1. EncodeVarint(n) \in Seq(0..Base - 1) /\ Len(EncodeVarint(n)) = LongSize(n)
      BY <2>4, LongForm
    <3>2. LongSize(n) \in 4..9
      BY LongSizeFits
    <3> QED
      BY <3>1, <3>2
  <2> QED
    BY <2>1, <2>2, <2>3, <2>4
<1>3. 0..Base - 1 \subseteq Int
  BY Bytes
<1> QED
  BY <1>2, <1>3, SeqMonotonic

LEMMA VarintHeld ==
  ASSUME NEW n, Unsigned(n), NEW s, NEW offset, Held(s, offset, EncodeVarint(n))
  PROVE  DecodeVarint(s, offset) = [value |-> n, size |-> Len(EncodeVarint(n))]
<1>1. n \in Nat
  BY FitsInto
<1>2. CASE n <= OneByte
  BY <1>2, <1>1, OneByteForm
<1>3. CASE ~(n <= OneByte) /\ n <= TwoBytes
  BY <1>3, <1>1, TwoByteForm
<1>4. CASE ~(n <= TwoBytes) /\ n <= ThreeBytes
  BY <1>4, <1>1, ThreeByteForm
<1>5. CASE ~(n <= ThreeBytes)
  BY <1>1, <1>5, LongForm
<1> QED
  BY <1>2, <1>3, <1>4, <1>5

-----------------------------------------------------------------------------
(* Values                                                                   *)

(* A number of w bytes with a sign.                                         *)
InWidth(n, w) == n \div Power[w - 1] \in -(Base \div 2)..(Base \div 2) - 1

LEMMA FitsMeans ==
  ASSUME NEW n \in Int, NEW w \in 1..8, Fits(n, w)
  PROVE  InWidth(n, w)
<1> DEFINE h == Base \div 2
           P == Power[w - 1]
<1>1. h \in Nat \ {0} /\ P \in Nat \ {0} /\ Power[w] = Base * P /\ Base = 2 * h
  <2>1. w - 1 \in 0..8
    OBVIOUS
  <2> QED
    BY <2>1, Powers, Bytes
<1>2. n \in -Half(w)..Half(w) - 1 /\ Half(w) = Power[w] \div 2
  BY DEF Fits, Half
<1> HIDE DEF h, P
<1>3. Power[w] \div 2 = h * P
  <2> DEFINE k == h * P
  <2>1. k \in Nat /\ Power[w] = k * 2 + 0
    <3>1. (2 * h) * P = (h * P) * 2
      BY <1>1
    <3>2. h * P \in Nat
      BY <1>1
    <3> QED
      BY <3>1, <3>2, <1>1
  <2> HIDE DEF k
  <2>2. (k * 2 + 0) \div 2 = k
    BY <2>1, DivIs
  <2> QED
    BY <2>1, <2>2 DEF k
<1>4. n < h * P /\ ~(n < (-h) * P)
  <2> DEFINE k == h * P
  <2>1. k \in Nat /\ (-h) * P = -k
    BY <1>1
  <2>2. n < k /\ ~(n < -k)
    <3> HIDE DEF k
    <3> QED
      BY <2>1, <1>2, <1>3 DEF k
  <2> QED
    BY <2>1, <2>2
<1>5. (n \div P) < h /\ ~((n \div P) < -h)
  BY <1>1, <1>4, DivBound
<1>6. n \div P \in Int
  BY <1>1, DivMod
<1> DEFINE q == n \div P
<1>7. q \in -h..h - 1
  <2> HIDE DEF q
  <2> QED
    BY <1>1, <1>5, <1>6 DEF q
<1> QED
  BY <1>7 DEF InWidth, h, P

(* The bytes of a number with a sign.                                       *)
LEMMA SignedRead ==
  ASSUME NEW n \in Int, NEW w \in 1..8, InWidth(n, w)
  PROVE  Signed(Digits(n, w)) = n
<1> DEFINE h == Base \div 2
           q == n \div Power[w - 1]
           s == Digits(n, w)
           z == IF s[1] < h THEN 0 ELSE -1
<1>1. h \in Nat \ {0} /\ Base = 2 * h /\ Base \in Nat \ {0}
  BY Bytes
<1>2. q \in -h..h - 1
  BY DEF InWidth
<1>3. n \div Power[w] = q \div Base
  <2>1. w - 1 \in 0..8 /\ w \in 1..8
    OBVIOUS
  <2>2. Power[w] = Base * Power[w - 1] /\ Power[w - 1] \in Nat \ {0}
    BY <2>1, Powers
  <2> DEFINE P == Power[w - 1]
  <2>3. P \in Nat \ {0} /\ Base \in Nat \ {0} /\ n \in Int
    BY <2>2, <1>1
  <2>4. n \div Power[w] = n \div (Base * P)
    BY <2>2
  <2> HIDE DEF P
  <2>5. n \div (Base * P) = (n \div P) \div Base
    BY <2>3, DivDiv
  <2> QED
    BY <2>4, <2>5 DEF P
<1>4. s[1] = q % Base
  <2>1. 1 \in 1..w
    OBVIOUS
  <2> QED
    BY <2>1, DigitsAre
<1> HIDE DEF h, q
<1>5. q \div Base = z
  <2>1. CASE 0 <= q
    <3>1. q \in 0..Base - 1
      BY <2>1, <1>1, <1>2
    <3>2. q \div Base = 0 /\ q % Base = q
      BY <3>1, <1>1, Small
    <3>3. q < h
      BY <1>1, <1>2
    <3> QED
      BY <3>2, <3>3, <1>4
  <2>2. CASE ~(0 <= q)
    <3> DEFINE r == q + Base
    <3>1. r \in 0..Base - 1 /\ -1 \in Int /\ (-1) * Base + r = q /\ ~(r < h)
      BY <2>2, <1>1, <1>2
    <3> HIDE DEF r
    <3>2. ((-1) * Base + r) \div Base = -1 /\ ((-1) * Base + r) % Base = r
      BY <3>1, <1>1, DivIs
    <3>3. q \div Base = -1 /\ q % Base = r
      BY <3>1, <3>2
    <3> QED
      BY <3>1, <3>3, <1>4
  <2> QED
    BY <2>1, <2>2
<1>6. NumberAfter(z, s) = n
  <2> HIDE DEF z, s
  <2>1. NumberAfter(n \div Power[w], s) = n
    BY DigitsRead DEF s
  <2> QED
    BY <2>1, <1>3, <1>5
<1> QED
  BY <1>6 DEF Signed, h

(* A small number is one of eight bytes.                                    *)
LEMMA SmallUnsigned ==
  ASSUME NEW n \in Nat, n < Base
  PROVE  Unsigned(n)
<1>1. Power[7] \in Nat \ {0}
  <2>1. 7 \in 0..8
    OBVIOUS
  <2> QED
    BY <2>1, Powers
<1>2. n < Base * Power[7]
  <2> DEFINE P == Power[7]
  <2> HIDE DEF P
  <2>1. P \in Nat /\ 1 <= P
    BY <1>1 DEF P
  <2>2. Base * P >= Base
    BY <2>1, Bytes
  <2>3. Base * P \in Int
    BY <2>1, Bytes
  <2> QED
    BY <2>2, <2>3, Bytes DEF P
<1>3. (n \div Power[7]) < Base
  BY <1>1, <1>2, DivBound, Bytes
<1> QED
  BY <1>3 DEF Unsigned

(* So is one that is smaller than one of eight bytes.                       *)
LEMMA UnsignedBelow ==
  ASSUME NEW m, Unsigned(m), NEW n \in Nat, n <= m
  PROVE  Unsigned(n)
<1> DEFINE P == Power[7]
           k == Base * P
<1>1. m \in Nat /\ (m \div P) < Base
  BY DEF Unsigned
<1>2. P \in Nat \ {0}
  <2>1. 7 \in 0..8
    OBVIOUS
  <2> QED
    BY <2>1, Powers
<1> HIDE DEF P
<1>3. m < k /\ k \in Int
  BY <1>1, <1>2, DivBound, Bytes
<1>4. n < k
  <2> HIDE DEF k
  <2> QED
    BY <1>1, <1>3
<1>5. (n \div P) < Base
  BY <1>2, <1>4, DivBound, Bytes
<1> QED
  BY <1>5 DEF Unsigned, P

(* The bytes of a text or a blob.                                           *)
LEMMA ContentIs ==
  ASSUME NEW n \in Nat
  PROVE  Content(n) \in Seq(Int) /\ Len(Content(n)) = n
<1> DEFINE e == [i \in 1..n |-> (n + i) % Base]
<1>1. \A i \in 1..n : (n + i) % Base \in Int
  BY DivMod, Bytes
<1>2. e \in Seq(Int) /\ Len(e) = n
  BY <1>1
<1> QED
  BY <1>2 DEF Content

(* What reading one value takes: its type is a number, its bytes are as     *)
(* many as the type says, and they stand for the value.                     *)
Readable(v, type, s) ==
  /\ Unsigned(type) /\ s \in Seq(Int) /\ Len(s) = SizeOf(type) /\ ToValue(type, s) = v

LEMMA IntegerReadable ==
  ASSUME NEW v \in Values, InRange(v), v.kind = "int"
  PROVE  Readable(v, SerialType(v), ToBytes(v, SerialType(v)))
<1> DEFINE n == v.n
           type == SerialType(v)
           T == {t \in 1..5 : Fits(n, Width[t])} \union {6}
<1>1. v = [kind |-> "int", n |-> n] /\ n \in Int
  BY DEF Values
<1>2. type = IF n \in {0, 1} THEN 8 + n ELSE Min(T)
  BY <1>1 DEF SerialType
<1>3. InWidth(n, 8)
  BY <1>1 DEF InRange, InWidth
<1> HIDE DEF n, type
<1>4. CASE n \in {0, 1}
  <2>1. type \in {8, 9} /\ n = type - 8 /\ type \in Nat /\ type < Base
    BY <1>2, <1>4, Bytes
  <2>2. ToBytes(v, type) = << >>
    BY <2>1 DEF ToBytes
  <2>3. SizeOf(type) = 0
    BY <2>1 DEF SizeOf
  <2>4. ToValue(type, << >>) = [kind |-> "int", n |-> type - 8]
    <3>1. type # 0 /\ type \in {8, 9} /\ ~(type \in 1..6) /\ type # 7 /\ ~(type >= 12)
      BY <2>1
    <3> QED
      BY <3>1 DEF ToValue
  <2> QED
    BY <2>1, <2>2, <2>3, <2>4, <1>1, SmallUnsigned DEF Readable, type
<1>5. CASE ~(n \in {0, 1})
  <2>1. type \in T
    <3>1. T \in SUBSET Nat /\ T # {}
      OBVIOUS
    <3> HIDE DEF T
    <3> QED
      BY <3>1, <1>2, <1>5, MinIn
  <2>2. type \in 1..6 /\ Width[type] \in 1..8 /\ InWidth(n, Width[type])
    <3>1. CASE type \in 1..5 /\ Fits(n, Width[type])
      <4>1. Width[type] \in 1..8
        BY <3>1 DEF Width
      <4> QED
        BY <3>1, <4>1, <1>1, FitsMeans
    <3>2. CASE type = 6
      <4>1. Width[6] = 8
        BY DEF Width
      <4> QED
        BY <3>2, <4>1, <1>3
    <3> QED
      BY <2>1, <3>1, <3>2
  <2> DEFINE w == Width[type]
             s == Digits(n, w)
  <2>3. ToBytes(v, type) = s
    BY <2>2 DEF ToBytes, n
  <2>4. s \in Seq(Int) /\ Len(s) = w
    <3> DEFINE D == 0..Base - 1
    <3>1. s \in Seq(D) /\ Len(s) = w
      <4> HIDE DEF w
      <4> QED
        BY <2>2, <1>1, DigitsAre DEF w
    <3>2. D \subseteq Int
      BY Bytes
    <3> HIDE DEF s, D, w
    <3> QED
      BY <3>1, <3>2, SeqMonotonic
  <2>5. SizeOf(type) = w
    BY <2>2 DEF SizeOf
  <2>6. Signed(s) = n
    BY <2>2, <1>1, SignedRead
  <2> HIDE DEF s, w
  <2>7. ToValue(type, s) = [kind |-> "int", n |-> Signed(s)]
    <3>1. type # 0 /\ ~(type \in {8, 9}) /\ type \in 1..6 /\ type # 7 /\ ~(type >= 12)
      BY <2>2
    <3> QED
      BY <3>1 DEF ToValue
  <2>8. type \in Nat /\ type < Base
    BY <2>2, Bytes
  <2> QED
    BY <2>3, <2>4, <2>5, <2>6, <2>7, <2>8, <1>1, SmallUnsigned DEF Readable, type
<1> QED
  BY <1>4, <1>5

LEMMA BytesReadable ==
  ASSUME NEW v \in Values, InRange(v), v.kind \in {"text", "blob"}
  PROVE  Readable(v, SerialType(v), ToBytes(v, SerialType(v)))
<1> DEFINE n == v.n
           type == SerialType(v)
           s == Content(n)
<1>1. v = [kind |-> v.kind, n |-> n]
  BY DEF Values
<1>2. n \in Nat /\ Unsigned(13 + 2 * n)
  BY DEF InRange
<1>3. type = IF v.kind = "blob" THEN 12 + 2 * n ELSE 13 + 2 * n
  BY DEF SerialType
<1> HIDE DEF n, type
<1>4. type \in Nat /\ type >= 12 /\ ~(type \in {0, 8, 9}) /\ ~(type \in 1..6) /\ ~(type \in 1..7) /\ type # 7 /\ type # 0
  BY <1>2, <1>3
<1>5. type % 2 = (IF v.kind = "blob" THEN 0 ELSE 1)
  <2>1. CASE v.kind = "blob"
    <3>1. type = (n + 6) * 2 + 0 /\ n + 6 \in Int /\ 0 \in 0..2 - 1
      BY <2>1, <1>2, <1>3
    <3> QED
      BY <2>1, <3>1, DivIs
  <2>2. CASE v.kind # "blob"
    <3>1. type = (n + 6) * 2 + 1 /\ n + 6 \in Int /\ 1 \in 0..2 - 1
      BY <2>2, <1>2, <1>3
    <3> QED
      BY <2>2, <3>1, DivIs
  <2> QED
    BY <2>1, <2>2
<1>6. SizeOf(type) = n
  <2>1. type - (12 + (type % 2)) = n * 2 + 0 /\ n \in Int /\ 0 \in 0..2 - 1
    BY <1>2, <1>3, <1>5
  <2>2. (type - (12 + (type % 2))) \div 2 = n
    BY <2>1, DivIs
  <2> QED
    BY <2>2, <1>4 DEF SizeOf
<1>7. ToBytes(v, type) = s
  BY <1>4 DEF ToBytes, n
<1>8. s \in Seq(Int) /\ Len(s) = n
  BY <1>2, ContentIs
<1>9. ToValue(type, s) = v
  <2>1. s = Content(Len(s))
    BY <1>8
  <2> HIDE DEF s
  <2>2. ToValue(type, s) = [kind |-> IF type % 2 = 0 THEN "blob" ELSE "text", n |-> Len(s)]
    BY <2>1, <1>4 DEF ToValue
  <2> QED
    BY <2>2, <1>1, <1>5, <1>8
<1>10. Unsigned(type)
  BY <1>2, <1>3, <1>4, UnsignedBelow
<1> QED
  BY <1>6, <1>7, <1>8, <1>9, <1>10 DEF Readable, type

(* Every value that the program can store is read back from its bytes.      *)
LEMMA ValueReadable ==
  ASSUME NEW v \in Values, InRange(v)
  PROVE  Readable(v, SerialType(v), ToBytes(v, SerialType(v)))
<1>1. v.kind \in {"null", "int", "real", "text", "blob"} /\ v = [kind |-> v.kind, n |-> v.n]
  BY DEF Values
<1>2. CASE v.kind = "null"
  <2>1. SerialType(v) = 0 /\ v = [kind |-> "null", n |-> 0]
    BY <1>1, <1>2 DEF SerialType, InRange
  <2>2. ToBytes(v, 0) = << >> /\ SizeOf(0) = 0 /\ ToValue(0, << >>) = [kind |-> "null", n |-> 0]
    BY DEF ToBytes, SizeOf, ToValue
  <2>3. Unsigned(0)
    BY SmallUnsigned, Bytes
  <2>4. << >> \in Seq(Int) /\ Len(<< >>) = 0
    OBVIOUS
  <2> DEFINE s == ToBytes(v, 0)
  <2>5. s \in Seq(Int) /\ Len(s) = SizeOf(0) /\ ToValue(0, s) = v
    BY <2>1, <2>2, <2>4
  <2> HIDE DEF s
  <2>6. Readable(v, 0, s)
    BY <2>3, <2>5 DEF Readable
  <2> QED
    BY <2>1, <2>6 DEF s
<1>3. CASE v.kind = "real"
  <2> DEFINE s == Digits(v.n, 8)
  <2>1. SerialType(v) = 7 /\ Unsigned(v.n)
    BY <1>3 DEF SerialType, InRange
  <2>2. v.n \in Int /\ v.n \div Power[8] = 0 /\ 8 \in 1..8
    BY <2>1, FitsInto
  <2>3. s \in Seq(Int) /\ Len(s) = 8
    <3> DEFINE D == 0..Base - 1
    <3>1. s \in Seq(D) /\ Len(s) = 8
      BY <2>2, DigitsAre
    <3>2. D \subseteq Int
      BY Bytes
    <3> HIDE DEF s, D
    <3> QED
      BY <3>1, <3>2, SeqMonotonic
  <2>4. Number(s) = v.n
    <3>1. NumberAfter(v.n \div Power[8], s) = v.n
      BY <2>2, DigitsRead
    <3> HIDE DEF s
    <3> QED
      BY <3>1, <2>2 DEF Number
  <2>5. ToBytes(v, 7) = s /\ SizeOf(7) = 8
    BY DEF ToBytes, SizeOf, Width
  <2> HIDE DEF s
  <2>6. ToValue(7, s) = [kind |-> "real", n |-> Number(s)]
    BY DEF ToValue
  <2>7. Unsigned(7)
    BY SmallUnsigned, Bytes
  <2> QED
    BY <2>1, <2>3, <2>4, <2>5, <2>6, <2>7, <1>1, <1>3 DEF Readable
<1> QED
  BY <1>1, <1>2, <1>3, IntegerReadable, BytesReadable

-----------------------------------------------------------------------------
(* Pieces one after the other                                               *)

(* F[i] are the first i parts of a sequence that was flattened.             *)
Flat(F, parts) ==
  /\ Len(parts) \in Nat /\ F[0] = << >> /\ F[Len(parts)] = FlattenSeq(parts)
  /\ \A i \in 0..Len(parts) : F[i] \in Seq(Int)
  /\ \A i \in 1..Len(parts) : F[i] = F[i - 1] \o parts[i] /\ parts[i] \in Seq(Int)

LEMMA Flattened ==
  ASSUME NEW parts \in Seq(Seq(Int))
  PROVE  \E F : Flat(F, parts)
<1> DEFINE N == Len(parts)
           S == [i \in 0..N |-> Seq(Int)]
           g == [i \in 1..N |-> [x \in Seq(Int) |-> x \o parts[i]]]
           step(f) == [i \in 1..N |-> IF i = 1 THEN parts[i] ELSE f[i - 1] \o parts[i]]
           flatten == CHOOSE f : f = step(f)
<1>1. N \in Nat /\ \A i \in 1..N : parts[i] \in Seq(Int)
  OBVIOUS
<1>2. PICK F : Follows(F, N, S, << >>, g)
  <2> HIDE DEF N
  <2>1. ASSUME NEW i \in 1..N, NEW x \in S[i - 1] PROVE g[i][x] \in S[i]
    <3>1. i - 1 \in 0..N /\ i \in 0..N
      BY <1>1
    <3>2. x \in Seq(Int) /\ parts[i] \in Seq(Int)
      BY <2>1, <3>1, <1>1
    <3>3. x \o parts[i] \in Seq(Int)
      BY <3>2, ConcatProperties
    <3> QED
      BY <3>1, <3>2, <3>3
  <2>2. << >> \in S[0]
    BY <1>1
  <2> HIDE DEF S, g
  <2>3. Stepwise(N, S, << >>, g)
    BY <1>1, <2>1, <2>2 DEF Stepwise
  <2> QED
    BY <2>3, Recursion
<1>3. /\ F[0] = << >> /\ \A i \in 1..N : F[i] = g[i][F[i - 1]]
      /\ \A i \in 0..N : F[i] \in S[i]
  BY <1>2 DEF Follows
<1> HIDE DEF N
<1>4. \A i \in 0..N : F[i] \in Seq(Int)
  BY <1>3
<1>5. \A i \in 1..N : F[i] = F[i - 1] \o parts[i]
  <2>1. \A i \in 1..N : i - 1 \in 0..N
    BY <1>1
  <2> QED
    BY <2>1, <1>3, <1>4
<1>6. \A i \in 1..N : F[i] = IF i = 1 THEN parts[i] ELSE F[i - 1] \o parts[i]
  <2> SUFFICES ASSUME NEW i \in 1..N, i = 1 PROVE F[1] = parts[1]
    BY <1>5
  <2>0. 1 \in 1..N /\ 1 - 1 = 0
    OBVIOUS
  <2>1. F[1] = F[0] \o parts[1] /\ parts[1] \in Seq(Int)
    BY <2>0, <1>1, <1>5
  <2> QED
    BY <2>1, <1>3, ConcatEmptySeq
<1> DEFINE h == [i \in 1..N |-> F[i]]
<1>7. h = step(h)
  <2>1. \A i \in 1..N : i # 1 => i - 1 \in 1..N
    BY <1>1
  <2> QED
    BY <2>1, <1>6
<1>8. flatten = step(flatten)
  <2> HIDE DEF step, h
  <2> QED
    BY <1>7
<1>9. \A i \in 1..N : flatten[i] = IF i = 1 THEN parts[i] ELSE flatten[i - 1] \o parts[i]
  <2> DEFINE p == flatten
  <2>1. p = step(p)
    BY <1>8
  <2> HIDE DEF p
  <2> QED
    BY <2>1 DEF p
<1> DEFINE H == {i \in 0..N : i # 0 => flatten[i] = F[i]}
<1>10. FlattenSeq(parts) = IF N = 0 THEN parts ELSE flatten[N]
  BY DEF FlattenSeq, N
<1> HIDE DEF flatten
<1>11. 0..N \subseteq H
  <2>1. 0 \in H
    BY <1>1
  <2>2. ASSUME NEW i \in 1..N, i - 1 \in H PROVE i \in H
    <3>1. i \in 0..N /\ (i # 1 => i - 1 # 0)
      BY <1>1
    <3> QED
      BY <2>2, <3>1, <1>6, <1>9
  <2> HIDE DEF H
  <2> QED
    BY <1>1, <2>1, <2>2, Induction
<1>12. F[N] = FlattenSeq(parts)
  <2>1. CASE N = 0
    <3>1. parts = << >>
      BY <2>1 DEF N
    <3> QED
      BY <2>1, <3>1, <1>3, <1>10
  <2>2. CASE N # 0
    <3>1. N \in 0..N
      BY <1>1
    <3> QED
      BY <2>2, <3>1, <1>10, <1>11
  <2> QED
    BY <2>1, <2>2
<1> QED
  BY <1>1, <1>3, <1>4, <1>5, <1>12 DEF Flat, N

(* Each part is held behind those before it.                                *)
LEMMA PartsHeld ==
  ASSUME NEW parts, NEW F, Flat(F, parts), NEW s, NEW offset, Held(s, offset, FlattenSeq(parts))
  PROVE  \A i \in 1..Len(parts) :
           Held(s, offset + Len(F[i - 1]), parts[i]) /\ Len(F[i]) = Len(F[i - 1]) + Len(parts[i])
<1> DEFINE N == Len(parts)
           H == {k \in 0..N : Held(s, offset, F[N - k])}
<1>1. /\ N \in Nat /\ F[N] = FlattenSeq(parts)
      /\ \A i \in 0..N : F[i] \in Seq(Int)
      /\ \A i \in 1..N : F[i] = F[i - 1] \o parts[i] /\ parts[i] \in Seq(Int)
  BY DEF Flat
<1> HIDE DEF N
<1>2. ASSUME NEW i \in 1..N, Held(s, offset, F[i])
      PROVE  Held(s, offset, F[i - 1]) /\ Held(s, offset + Len(F[i - 1]), parts[i])
  <2>1. i - 1 \in 0..N
    BY <1>1
  <2>2. F[i - 1] \in Seq(Int) /\ parts[i] \in Seq(Int) /\ F[i] = F[i - 1] \o parts[i]
    BY <2>1, <1>1
  <2> QED
    BY <2>2, <1>2, HeldJoined
<1>3. 0..N \subseteq H
  <2>1. 0 \in H
    BY <1>1
  <2>2. ASSUME NEW k \in 1..N, k - 1 \in H PROVE k \in H
    <3>1. N - (k - 1) \in 1..N /\ (N - (k - 1)) - 1 = N - k /\ k \in 0..N
      BY <1>1
    <3> QED
      BY <2>2, <3>1, <1>2
  <2> HIDE DEF H
  <2> QED
    BY <1>1, <2>1, <2>2, Induction
<1>4. ASSUME NEW i \in 1..N PROVE Held(s, offset, F[i])
  <2>1. N - i \in 0..N /\ N - (N - i) = i
    BY <1>1
  <2> QED
    BY <2>1, <1>3
<1>5. ASSUME NEW i \in 1..N PROVE Len(F[i]) = Len(F[i - 1]) + Len(parts[i])
  <2>1. i - 1 \in 0..N
    BY <1>1
  <2>2. F[i - 1] \in Seq(Int) /\ parts[i] \in Seq(Int) /\ F[i] = F[i - 1] \o parts[i]
    BY <2>1, <1>1
  <2> QED
    BY <2>2, ConcatProperties
<1> QED
  BY <1>2, <1>4, <1>5 DEF N

-----------------------------------------------------------------------------
(* Records                                                                  *)

(* One more element of a sequence.                                          *)
LEMMA PrefixNext ==
  ASSUME NEW S, NEW s \in Seq(S), NEW k \in 1..Len(s)
  PROVE  Append(SubSeq(s, 1, k - 1), s[k]) = SubSeq(s, 1, k)
<1> DEFINE p == SubSeq(s, 1, k - 1)
<1>1. 1 \in 1..Len(s) /\ k \in 1..Len(s) /\ s[k] \in S
  OBVIOUS
<1>2. SubSeq(s, 1, k) = p \o <<s[k]>>
  BY <1>1, SubSeqRecursiveSecond
<1>3. p \in Seq(S)
  OBVIOUS
<1> HIDE DEF p
<1>4. Append(p, s[k]) = p \o <<s[k]>>
  BY <1>1, <1>3, AppendIsConcat
<1> QED
  BY <1>2, <1>4 DEF p

(* The types of a record, as the header holds them.                         *)
Heads(types) == [i \in DOMAIN types |-> EncodeVarint(types[i])]

LEMMA HeadsAre ==
  ASSUME NEW types \in Seq(Nat)
  PROVE  /\ Heads(types) \in Seq(Seq(Int)) /\ Len(Heads(types)) = Len(types)
         /\ \A i \in 1..Len(types) : Heads(types)[i] = EncodeVarint(types[i]) /\ Len(EncodeVarint(types[i])) \in 1..9
<1> DEFINE N == Len(types)
           h == [i \in 1..N |-> EncodeVarint(types[i])]
<1>1. \A i \in 1..N : EncodeVarint(types[i]) \in Seq(Int) /\ Len(EncodeVarint(types[i])) \in 1..9
  <2> SUFFICES ASSUME NEW i \in 1..N
               PROVE  EncodeVarint(types[i]) \in Seq(Int) /\ Len(EncodeVarint(types[i])) \in 1..9
    OBVIOUS
  <2>1. types[i] \in Nat
    OBVIOUS
  <2> QED
    BY <2>1, VarintBytes
<1>2. N \in Nat /\ DOMAIN types = 1..N
  OBVIOUS
<1>3. Heads(types) = h
  BY <1>2 DEF Heads
<1> HIDE DEF N
<1>4. h \in Seq(Seq(Int)) /\ Len(h) = N
  BY <1>1, <1>2
<1> QED
  BY <1>1, <1>3, <1>4 DEF N

(* Every part of the header takes a byte at least.                          *)
LEMMA HeaderGrows ==
  ASSUME NEW parts, NEW F, Flat(F, parts), \A i \in 1..Len(parts) : Len(parts[i]) \in Nat \ {0}
  PROVE  \A i \in 0..Len(parts) : Len(F[i]) + (Len(parts) - i) <= Len(F[Len(parts)])
<1> DEFINE N == Len(parts)
           H == {k \in 0..N : Len(F[N - k]) + k <= Len(F[N])}
<1>1. N \in Nat /\ (\A i \in 0..N : Len(F[i]) \in Nat)
      /\ \A i \in 1..N : Len(F[i]) = Len(F[i - 1]) + Len(parts[i])
  <2>1. N \in Nat /\ \A i \in 0..N : F[i] \in Seq(Int)
    BY DEF Flat
  <2>2. ASSUME NEW i \in 1..N PROVE Len(F[i]) = Len(F[i - 1]) + Len(parts[i])
    <3>1. i - 1 \in 0..N
      BY <2>1
    <3>2. F[i - 1] \in Seq(Int) /\ parts[i] \in Seq(Int) /\ F[i] = F[i - 1] \o parts[i]
      BY <3>1 DEF Flat
    <3> QED
      BY <3>2, ConcatProperties
  <2>3. ASSUME NEW i \in 0..N PROVE Len(F[i]) \in Nat
    BY <2>1
  <2> QED
    BY <2>1, <2>2, <2>3
<1> HIDE DEF N
<1>2. 0..N \subseteq H
  <2>1. 0 \in H
    <3>1. N - 0 = N /\ N \in 0..N /\ 0 \in 0..N
      BY <1>1
    <3> QED
      BY <3>1, <1>1
  <2>2. ASSUME NEW k \in 1..N, k - 1 \in H PROVE k \in H
    <3> DEFINE i == N - (k - 1)
    <3>1. i \in 1..N /\ i - 1 = N - k /\ k \in 0..N /\ i - 1 \in 0..N
      BY <1>1
    <3>2. Len(F[i]) + (k - 1) <= Len(F[N])
      BY <2>2
    <3> HIDE DEF i
    <3>3. Len(F[i]) = Len(F[i - 1]) + Len(parts[i]) /\ Len(F[i - 1]) \in Nat /\ Len(F[N]) \in Nat
      <4>1. N \in 0..N
        BY <1>1
      <4> QED
        BY <3>1, <4>1, <1>1
    <3>4. Len(parts[i]) \in Nat \ {0}
      BY <3>1 DEF N
    <3>5. Len(F[i - 1]) + k <= Len(F[N])
      <4> DEFINE a == Len(F[i - 1])
                 b == Len(parts[i])
                 c == Len(F[N])
      <4>1. (a + b) + (k - 1) <= c
        BY <3>2, <3>3
      <4>2. a \in Nat /\ b \in Nat \ {0} /\ c \in Nat /\ k \in Nat
        BY <3>3, <3>4, <1>1
      <4> HIDE DEF a, b, c
      <4>3. a + k <= c
        BY <4>1, <4>2
      <4> QED
        BY <4>3 DEF a, c
    <3> QED
      BY <3>1, <3>5
  <2> HIDE DEF H
  <2> QED
    BY <1>1, <2>1, <2>2, Induction
<1>3. ASSUME NEW i \in 0..N PROVE Len(F[i]) + (N - i) <= Len(F[N])
  <2>1. N - i \in 0..N /\ N - (N - i) = i
    BY <1>1
  <2> QED
    BY <2>1, <1>2
<1> QED
  BY <1>3 DEF N

(* The loop over the header finds the types.                                *)
LEMMA TypesRead ==
  ASSUME NEW types \in Seq(Nat), \A i \in 1..Len(types) : Unsigned(types[i]),
         NEW s, NEW offset, Held(s, offset, FlattenSeq(Heads(types)))
  PROVE  Types(s, offset, offset + Len(FlattenSeq(Heads(types)))) = types
<1> DEFINE heads == Heads(types)
           N == Len(types)
           L == Len(FlattenSeq(heads))
           end == offset + L
<1>1. /\ heads \in Seq(Seq(Int)) /\ Len(heads) = N /\ N \in Nat
      /\ \A i \in 1..N : heads[i] = EncodeVarint(types[i]) /\ Len(heads[i]) \in 1..9 /\ Unsigned(types[i])
  BY HeadsAre
<1>2. PICK F : Flat(F, heads)
  BY <1>1, Flattened
<1>3. /\ F[0] = << >> /\ F[N] = FlattenSeq(heads)
      /\ \A i \in 0..N : F[i] \in Seq(Int) /\ Len(F[i]) \in Nat
  <2>1. F[0] = << >> /\ F[N] = FlattenSeq(heads) /\ \A i \in 0..N : F[i] \in Seq(Int)
    BY <1>1, <1>2 DEF Flat
  <2> QED
    BY <2>1
<1>4. \A i \in 1..N : Held(s, offset + Len(F[i - 1]), heads[i]) /\ Len(F[i]) = Len(F[i - 1]) + Len(heads[i])
  <2> HIDE DEF heads
  <2> QED
    BY <1>1, <1>2, PartsHeld DEF heads
<1>5. \A i \in 0..N : Len(F[i]) + (N - i) <= L
  <2> HIDE DEF heads
  <2>1. \A i \in 1..Len(heads) : Len(heads[i]) \in Nat \ {0}
    <3>1. \A n \in 1..9 : n \in Nat \ {0}
      OBVIOUS
    <3> QED
      BY <3>1, <1>1
  <2> QED
    BY <2>1, <1>1, <1>2, <1>3, HeaderGrows
<1>6. L \in Nat /\ offset \in Nat /\ end - offset = L /\ end \in Nat
  <2>1. N \in 0..N
    BY <1>1
  <2>2. L \in Nat
    BY <2>1, <1>3
  <2> HIDE DEF L
  <2>3. offset \in Nat
    BY DEF Held
  <2> QED
    BY <2>2, <2>3
<1> HIDE DEF heads, N, L, end
<1>7. N <= L
  <2>1. 0 \in 0..N
    BY <1>1
  <2>2. Len(F[0]) + (N - 0) <= L
    BY <2>1, <1>5
  <2> QED
    BY <2>2, <1>1, <1>3, <1>6
<1> DEFINE Done(m) == [types |-> SubSeq(types, 1, m), offset |-> offset + Len(F[m])]
           h == [k \in 0..L |-> IF k <= N THEN Done(k) ELSE Done(N)]
           next(at) == LET d == DecodeVarint(s, at.offset)
                       IN  IF at.offset >= end THEN at
                           ELSE [types |-> Append(at.types, d.value), offset |-> at.offset + d.size]
           step(f) == [k \in 0..L |-> IF k = 0 THEN [types |-> << >>, offset |-> offset] ELSE next(f[k - 1])]
           loop == CHOOSE f : f = step(f)
<1>8. Types(s, offset, end) = loop[L].types
  BY <1>6 DEF Types
<1>9. \A m \in 1..N : next(Done(m - 1)) = Done(m)
  <2> SUFFICES ASSUME NEW m \in 1..N PROVE next(Done(m - 1)) = Done(m)
    OBVIOUS
  <2> DEFINE at == offset + Len(F[m - 1])
             n == Len(heads[m])
  <2>1. m - 1 \in 0..N /\ m \in 0..N
    BY <1>1
  <2> DEFINE a == Len(F[m - 1])
  <2>2. a \in Nat /\ a + (N - (m - 1)) <= L
    BY <2>1, <1>3, <1>5
  <2>20. Len(F[m]) = a + n /\ n \in Nat
    <3>1. n \in 1..9
      BY <1>1
    <3>2. Len(F[m]) = a + n
      BY <1>4
    <3> QED
      BY <3>1, <3>2
  <2>3. DecodeVarint(s, at) = [value |-> types[m], size |-> n]
    BY <1>1, <1>4, VarintHeld
  <2>4. ~(at >= end) /\ at + n = offset + Len(F[m])
    <3> HIDE DEF a, n
    <3>1. ~(offset + a >= offset + L) /\ (offset + a) + n = offset + (a + n)
      BY <2>2, <2>20, <1>1, <1>6
    <3> QED
      BY <3>1, <2>20 DEF end, a
  <2>5. Append(SubSeq(types, 1, m - 1), types[m]) = SubSeq(types, 1, m)
    BY PrefixNext DEF N
  <2> HIDE DEF at, n, a
  <2>6. Done(m - 1) = [types |-> SubSeq(types, 1, m - 1), offset |-> at]
    BY DEF at, a
  <2> HIDE DEF Done
  <2>60. Done(m - 1).types = SubSeq(types, 1, m - 1) /\ Done(m - 1).offset = at
    BY <2>6
  <2>7. next(Done(m - 1)) = [types |-> Append(SubSeq(types, 1, m - 1), types[m]), offset |-> at + n]
    <3> SUFFICES ASSUME NEW x, x.types = SubSeq(types, 1, m - 1), x.offset = at
                 PROVE  next(x) = [types |-> Append(SubSeq(types, 1, m - 1), types[m]), offset |-> at + n]
      BY <2>60
    <3>1. DecodeVarint(s, x.offset).value = types[m] /\ DecodeVarint(s, x.offset).size = n
      BY <2>3
    <3>2. ~(x.offset >= end)
      BY <2>4
    <3> QED
      BY <3>1, <3>2
  <2> HIDE DEF next
  <2> QED
    BY <2>4, <2>5, <2>7 DEF Done
<1>10. next(Done(N)) = Done(N)
  <2>1. Done(N).offset = end
    BY <1>3 DEF end, L
  <2> HIDE DEF Done
  <2> QED
    BY <2>1, <1>6
<1>11. Done(0) = [types |-> << >>, offset |-> offset]
  BY <1>3, <1>6
<1> HIDE DEF next, Done
<1>12. \A k \in 0..L : h[k] = IF k = 0 THEN [types |-> << >>, offset |-> offset] ELSE next(h[k - 1])
  <2>0. h[0] = [types |-> << >>, offset |-> offset]
    BY <1>1, <1>6, <1>11
  <2> SUFFICES ASSUME NEW k \in 0..L, k # 0 PROVE h[k] = next(h[k - 1])
    BY <2>0
  <2>1. k - 1 \in 0..L
    BY <1>6
  <2>2. CASE k <= N
    <3>1. k \in 1..N /\ k - 1 <= N
      BY <2>2, <1>1, <1>6
    <3> QED
      BY <2>1, <2>2, <3>1, <1>9
  <2>3. CASE ~(k <= N)
    <3>1. h[k - 1] = Done(N)
      <4>1. k - 1 <= N => k - 1 = N
        BY <2>3, <1>1, <1>6
      <4> QED
        BY <2>1, <4>1
    <3> QED
      BY <2>3, <3>1, <1>10
  <2> QED
    BY <2>2, <2>3
<1>13. h = step(h)
  <2>1. h = [k \in 0..L |-> h[k]]
    OBVIOUS
  <2> HIDE DEF h
  <2> QED
    BY <2>1, <1>12
<1>14. loop = step(loop)
  <2> HIDE DEF step, h
  <2> QED
    BY <1>13
<1>15. \A k \in 0..L : loop[k] = IF k = 0 THEN [types |-> << >>, offset |-> offset] ELSE next(loop[k - 1])
  <2> DEFINE p == loop
  <2>1. p = step(p)
    BY <1>14
  <2> HIDE DEF p
  <2> QED
    BY <2>1 DEF p
<1> HIDE DEF loop, h
<1>16. \A k \in 0..L : loop[k] = h[k]
  <2>1. 0 \in 0..L /\ \A k \in 1..L : k \in 0..L /\ k # 0
    BY <1>6
  <2>2. loop[0] = h[0] /\ \A k \in 1..L : loop[k - 1] = h[k - 1] => loop[k] = h[k]
    BY <2>1, <1>12, <1>15
  <2>3. L \in Nat
    BY <1>6
  <2>4. SameSteps(loop, h, L)
    BY <2>2, <2>3 DEF SameSteps
  <2> QED
    BY <2>4, SameLoop
<1>17. h[L] = Done(N)
  <2>1. L \in 0..L /\ (L <= N => L = N)
    BY <1>1, <1>6, <1>7
  <2> QED
    BY <2>1 DEF h
<1>18. SubSeq(types, 1, N) = types
  BY SubSeqFull DEF N
<1>19. L \in 0..L
  BY <1>6
<1>20. loop[L] = Done(N)
  BY <1>16, <1>17, <1>19
<1>21. Types(s, offset, end) = types
  BY <1>8, <1>18, <1>20 DEF Done
<1> QED
  BY <1>21 DEF end, L, heads

(* The types of a record's values, and their bytes.                         *)
TypesOf(record) == [i \in DOMAIN record |-> SerialType(record[i])]
Bodies(record) == [i \in DOMAIN record |-> ToBytes(record[i], SerialType(record[i]))]

(* A record whose values the program can store.                             *)
Storable(record) == record \in Seq(Values) /\ \A i \in 1..Len(record) : InRange(record[i])

LEMMA FieldsAre ==
  ASSUME NEW record, Storable(record)
  PROVE  /\ TypesOf(record) \in Seq(Nat) /\ Len(TypesOf(record)) = Len(record)
         /\ Bodies(record) \in Seq(Seq(Int)) /\ Len(Bodies(record)) = Len(record)
         /\ \A i \in 1..Len(record) :
              /\ Unsigned(TypesOf(record)[i])
              /\ Readable(record[i], TypesOf(record)[i], Bodies(record)[i])
<1> DEFINE N == Len(record)
           t == [i \in 1..N |-> SerialType(record[i])]
           b == [i \in 1..N |-> ToBytes(record[i], SerialType(record[i]))]
<1>1. N \in Nat /\ DOMAIN record = 1..N /\ \A i \in 1..N : record[i] \in Values /\ InRange(record[i])
  BY DEF Storable
<1>2. \A i \in 1..N : Readable(record[i], SerialType(record[i]), ToBytes(record[i], SerialType(record[i])))
  BY <1>1, ValueReadable
<1>3. \A i \in 1..N : /\ Unsigned(SerialType(record[i])) /\ SerialType(record[i]) \in Nat
                      /\ ToBytes(record[i], SerialType(record[i])) \in Seq(Int)
  BY <1>2 DEF Readable, Unsigned
<1>4. TypesOf(record) = t /\ Bodies(record) = b
  BY <1>1 DEF TypesOf, Bodies
<1> HIDE DEF N
<1>5. t \in Seq(Nat) /\ Len(t) = N
  BY <1>1, <1>3
<1>6. b \in Seq(Seq(Int)) /\ Len(b) = N
  BY <1>1, <1>3
<1>7. \A i \in 1..N : t[i] = SerialType(record[i]) /\ b[i] = ToBytes(record[i], SerialType(record[i]))
  OBVIOUS
<1> HIDE DEF t, b
<1>8. \A i \in 1..N : Unsigned(t[i]) /\ Readable(record[i], t[i], b[i])
  BY <1>2, <1>3, <1>7
<1> QED
  BY <1>4, <1>5, <1>6, <1>8 DEF N

(* The loop over the types finds the values.                                *)
LEMMA ValuesRead ==
  ASSUME NEW record, Storable(record), NEW s, NEW offset, Held(s, offset, FlattenSeq(Bodies(record)))
  PROVE  ValuesOf(TypesOf(record), s, offset) = record
<1> DEFINE N == Len(record)
           types == TypesOf(record)
           parts == Bodies(record)
<1>1. /\ N \in Nat /\ record \in Seq(Values) /\ Len(types) = N
      /\ parts \in Seq(Seq(Int)) /\ Len(parts) = N
      /\ \A i \in 1..N : Readable(record[i], types[i], parts[i])
  BY FieldsAre DEF Storable
<1>2. PICK F : Flat(F, parts)
  BY <1>1, Flattened
<1> HIDE DEF N, types, parts
<1>3. F[0] = << >> /\ \A i \in 0..N : Len(F[i]) \in Nat
  <2>1. F[0] = << >> /\ \A i \in 0..N : F[i] \in Seq(Int)
    BY <1>1, <1>2 DEF Flat
  <2> QED
    BY <2>1
<1>4. \A i \in 1..N : Held(s, offset + Len(F[i - 1]), parts[i]) /\ Len(F[i]) = Len(F[i - 1]) + Len(parts[i])
  BY <1>1, <1>2, PartsHeld DEF parts
<1>5. offset \in Nat
  BY DEF Held
<1> DEFINE Done(m) == [values |-> SubSeq(record, 1, m), offset |-> offset + Len(F[m])]
           h == [k \in 0..N |-> Done(k)]
           next(k, at) == LET size == SizeOf(types[k])
                          IN  [values |-> Append(at.values, ToValue(types[k], Slice(s, at.offset, size))),
                               offset |-> at.offset + size]
           step(f) == [k \in 0..Len(types) |->
                         IF k = 0 THEN [values |-> << >>, offset |-> offset] ELSE next(k, f[k - 1])]
           loop == CHOOSE f : f = step(f)
<1>6. ValuesOf(types, s, offset) = loop[Len(types)].values
  BY DEF ValuesOf
<1>7. \A m \in 1..N : next(m, Done(m - 1)) = Done(m)
  <2> SUFFICES ASSUME NEW m \in 1..N PROVE next(m, Done(m - 1)) = Done(m)
    OBVIOUS
  <2> DEFINE a == Len(F[m - 1])
             n == Len(parts[m])
             p == SubSeq(record, 1, m - 1)
  <2>1. a \in Nat /\ Len(F[m]) = a + n
    <3>1. m - 1 \in 0..N
      BY <1>1
    <3> QED
      BY <3>1, <1>3, <1>4
  <2>2. Held(s, offset + a, parts[m])
    BY <1>4
  <2>3. SizeOf(types[m]) = n /\ ToValue(types[m], parts[m]) = record[m] /\ n \in Nat
    BY <1>1 DEF Readable
  <2>4. Slice(s, offset + a, n) = parts[m]
    BY <2>2, SliceHeld
  <2>5. Append(p, record[m]) = SubSeq(record, 1, m)
    BY <1>1, PrefixNext DEF N
  <2>6. (offset + a) + n = offset + Len(F[m])
    <3> HIDE DEF a, n
    <3> QED
      BY <2>1, <2>3, <1>5
  <2>7. Done(m - 1) = [values |-> p, offset |-> offset + a]
    OBVIOUS
  <2> HIDE DEF a, n, p
  <2> SUFFICES ASSUME NEW x, x.values = p, x.offset = offset + a
               PROVE  next(m, x) = [values |-> SubSeq(record, 1, m), offset |-> offset + Len(F[m])]
    BY <2>7
  <2> QED
    BY <2>3, <2>4, <2>5, <2>6
<1>8. Done(0) = [values |-> << >>, offset |-> offset]
  BY <1>3, <1>5
<1> HIDE DEF next, Done
<1>9. \A k \in 0..N : h[k] = IF k = 0 THEN [values |-> << >>, offset |-> offset] ELSE next(k, h[k - 1])
  <2> SUFFICES ASSUME NEW k \in 0..N, k # 0 PROVE h[k] = next(k, h[k - 1])
    BY <1>1, <1>8
  <2>1. k - 1 \in 0..N /\ k \in 1..N
    BY <1>1
  <2> QED
    BY <2>1, <1>7
<1>10. h = step(h)
  <2>1. h = [k \in 0..N |-> h[k]]
    OBVIOUS
  <2> HIDE DEF h
  <2> QED
    BY <2>1, <1>1, <1>9
<1>11. loop = step(loop)
  <2> HIDE DEF step, h
  <2> QED
    BY <1>10
<1>12. \A k \in 0..N : loop[k] = IF k = 0 THEN [values |-> << >>, offset |-> offset] ELSE next(k, loop[k - 1])
  <2> DEFINE p == loop
  <2>1. p = step(p)
    BY <1>11
  <2> HIDE DEF p
  <2> QED
    BY <2>1, <1>1 DEF p
<1> HIDE DEF loop, h
<1>13. \A k \in 0..N : loop[k] = h[k]
  <2>1. 0 \in 0..N /\ \A k \in 1..N : k \in 0..N /\ k # 0
    BY <1>1
  <2>2. loop[0] = h[0] /\ \A k \in 1..N : loop[k - 1] = h[k - 1] => loop[k] = h[k]
    BY <2>1, <1>9, <1>12
  <2>3. N \in Nat
    BY <1>1
  <2>4. SameSteps(loop, h, N)
    BY <2>2, <2>3 DEF SameSteps
  <2> QED
    BY <2>4, SameLoop
<1>14. loop[N] = Done(N)
  <2>1. N \in 0..N
    BY <1>1
  <2> QED
    BY <2>1, <1>13 DEF h
<1>15. SubSeq(record, 1, N) = record
  BY <1>1, SubSeqFull DEF N
<1> QED
  BY <1>1, <1>6, <1>14, <1>15 DEF Done, types

(* The three pieces of a record's bytes.                                    *)
LEMMA EncodeIs ==
  ASSUME NEW record
  PROVE  LET header == FlattenSeq(Heads(TypesOf(record)))
         IN  Encode(record) = (EncodeVarint(Len(header) + 1) \o header) \o FlattenSeq(Bodies(record))
BY DEF Encode, Heads, TypesOf, Bodies

(* What is encoded is bytes.                                                *)
LEMMA FlatBytes ==
  ASSUME NEW parts \in Seq(Seq(Int))
  PROVE  FlattenSeq(parts) \in Seq(Int)
<1>1. PICK F : Flat(F, parts)
  BY Flattened
<1>2. Len(parts) \in 0..Len(parts)
  BY <1>1 DEF Flat
<1> QED
  BY <1>1, <1>2 DEF Flat

(* The bytes of a record: its header's length, the header, and the values.  *)
LEMMA EncodeBytes ==
  ASSUME NEW record, Storable(record)
  PROVE  LET header == FlattenSeq(Heads(TypesOf(record)))
             body == FlattenSeq(Bodies(record))
         IN  /\ header \in Seq(Int) /\ body \in Seq(Int)
             /\ EncodeVarint(Len(header) + 1) \in Seq(Int) /\ Len(EncodeVarint(Len(header) + 1)) \in 1..9
             /\ Encode(record) \in Seq(Int)
             /\ Len(Encode(record)) = Len(EncodeVarint(Len(header) + 1)) + Len(header) + Len(body)
<1> DEFINE header == FlattenSeq(Heads(TypesOf(record)))
           body == FlattenSeq(Bodies(record))
           v == EncodeVarint(Len(header) + 1)
<1>1. header \in Seq(Int) /\ body \in Seq(Int)
  BY FieldsAre, HeadsAre, FlatBytes
<1>2. Encode(record) = (v \o header) \o body
  BY EncodeIs
<1> HIDE DEF header, body
<1>3. v \in Seq(Int) /\ Len(v) \in 1..9
  <2>1. Len(header) + 1 \in Nat
    BY <1>1
  <2> QED
    BY <2>1, VarintBytes
<1> HIDE DEF v
<1>4. v \o header \in Seq(Int) /\ Len(v \o header) = Len(v) + Len(header)
  BY <1>1, <1>3, ConcatProperties
<1> DEFINE front == v \o header
<1> HIDE DEF front
<1>5. front \o body \in Seq(Int) /\ Len(front \o body) = Len(front) + Len(body)
  <2>1. front \in Seq(Int)
    BY <1>4 DEF front
  <2> QED
    BY <1>1, <2>1, ConcatProperties
<1>6. Encode(record) \in Seq(Int) /\ Len(Encode(record)) = Len(v) + Len(header) + Len(body)
  BY <1>2, <1>4, <1>5 DEF front
<1> QED
  BY <1>1, <1>3, <1>6 DEF header, body, v

(* A record is read back from its bytes, whatever is behind them.           *)
LEMMA RecordRead ==
  ASSUME NEW record, Storable(record), Unsigned(Len(Encode(record))),
         NEW s, Held(s, 0, Encode(record))
  PROVE  Decode(s) = record
<1> DEFINE types == TypesOf(record)
           header == FlattenSeq(Heads(types))
           body == FlattenSeq(Bodies(record))
           L == Len(header)
           v == EncodeVarint(L + 1)
           n == Len(v)
<1>1. /\ header \in Seq(Int) /\ body \in Seq(Int) /\ v \in Seq(Int) /\ n \in 1..9
      /\ Encode(record) \in Seq(Int) /\ Len(Encode(record)) = n + L + Len(body)
  BY EncodeBytes
<1>2. Encode(record) = (v \o header) \o body
  BY EncodeIs
<1>3. types \in Seq(Nat) /\ \A i \in 1..Len(types) : Unsigned(types[i])
  <2>1. types \in Seq(Nat) /\ Len(types) = Len(record) /\ \A i \in 1..Len(record) : Unsigned(types[i])
    BY FieldsAre
  <2> QED
    BY <2>1
<1>4. ValuesOf(types, s, 0 + (n + L)) = record
       /\ Types(s, 0 + n, 0 + n + L) = types /\ DecodeVarint(s, 0) = [value |-> L + 1, size |-> n]
  <2> HIDE DEF header, body, v, n, L, types
  <2>1. v \o header \in Seq(Int) /\ Len(v \o header) = n + L
    BY <1>1, ConcatProperties DEF n, L
  <2>2. Held(s, 0, v \o header) /\ Held(s, 0 + (n + L), body)
    <3> DEFINE front == v \o header
    <3>1. front \in Seq(Int) /\ body \in Seq(Int) /\ Held(s, 0, front \o body) /\ Len(front) = n + L
      BY <1>1, <1>2, <2>1
    <3> HIDE DEF front
    <3> QED
      BY <3>1, HeldJoined DEF front
  <2>3. Held(s, 0, v) /\ Held(s, 0 + n, header)
    BY <1>1, <2>2, HeldJoined DEF n
  <2>4. ValuesOf(types, s, 0 + (n + L)) = record
    BY <2>2, ValuesRead DEF types, body
  <2>5. Types(s, 0 + n, 0 + n + L) = types
    BY <1>3, <2>3, TypesRead DEF header, L
  <2>6. Unsigned(L + 1)
    <3>1. L + 1 \in Nat /\ L + 1 <= Len(Encode(record))
      <4>1. L \in Nat /\ Len(body) \in Nat
        BY <1>1 DEF L
      <4> QED
        BY <4>1, <1>1
    <3> QED
      BY <3>1, UnsignedBelow
  <2>7. DecodeVarint(s, 0) = [value |-> L + 1, size |-> n]
    BY <2>3, <2>6, VarintHeld DEF v, n
  <2> QED
    BY <2>4, <2>5, <2>7
<1>5. L \in Nat /\ n \in Nat
  BY <1>1
<1> HIDE DEF types, L, n
<1>6. n + (L + 1) - 1 = n + L /\ 0 + (n + L) = n + L /\ 0 + n = n /\ 0 + n + L = n + L
  BY <1>5
<1>7. Decode(s) = ValuesOf(Types(s, n, n + (L + 1) - 1), s, n + (L + 1) - 1)
  BY <1>4 DEF Decode
<1> QED
  BY <1>4, <1>6, <1>7

-----------------------------------------------------------------------------
(* Chains of overflow pages                                                 *)

LEMMA MinOfTwo ==
  ASSUME NEW a \in Int, NEW b \in Int
  PROVE  Min({a, b}) = IF a <= b THEN a ELSE b
<1> DEFINE m == IF a <= b THEN a ELSE b
<1>1. m \in {a, b} /\ m \in Int /\ \A y \in {a, b} : m <= y
  OBVIOUS
<1> HIDE DEF m
<1>2. Min({a, b}) \in {a, b} /\ \A y \in {a, b} : Min({a, b}) <= y
  BY <1>1 DEF Min
<1>3. Min({a, b}) = m
  <2> DEFINE k == Min({a, b})
  <2>1. k \in Int /\ k <= m /\ m <= k
    BY <1>1, <1>2
  <2> HIDE DEF k
  <2> QED
    BY <2>1, <1>1 DEF k
<1> QED
  BY <1>3 DEF m

(* A page has room for data besides the number of the next one.             *)
LEMMA Room ==
  Chunk \in Nat /\ 0 < Chunk /\ PageSize = 4 + Chunk /\ MaxLocal \in Nat
<1> DEFINE a == ((PageSize - 4) * 64) \div 100
           b == ((PageSize - 4) * 32) \div 100
<1>1. PageSize \in Nat /\ PageSize > 16
  BY BaseAssumption
<1>2. a \in Nat /\ 4 <= a /\ b \in Int
  BY <1>1
<1>3. MaxLocal \in Nat
  <2>1. MaxLocal = Max({a - 4, b - 4})
    BY DEF MaxLocal
  <2> HIDE DEF a, b
  <2> DEFINE m == IF a <= b THEN b - 4 ELSE a - 4
  <2>2. m \in {a - 4, b - 4} /\ \A y \in {a - 4, b - 4} : m >= y
    BY <1>2
  <2> HIDE DEF m
  <2>3. MaxLocal \in {a - 4, b - 4} /\ \A y \in {a - 4, b - 4} : MaxLocal >= y
    BY <2>1, <2>2 DEF Max
  <2> QED
    BY <2>3, <1>2
<1> QED
  BY <1>1, <1>3 DEF Chunk

(* How many pages hold n bytes, and how many bytes the first k of them.     *)
ChainLength(n) == (n + Chunk - 1) \div Chunk
Upto(n, k) == IF k * Chunk <= n THEN k * Chunk ELSE n

LEMMA ChainIs ==
  ASSUME NEW n \in Nat, 0 < n
  PROVE  /\ ChainLength(n) \in 1..n /\ Upto(n, ChainLength(n)) = n /\ Upto(n, 0) = 0
         /\ ChainLength(n) - 1 <= n \div Chunk
         /\ \A k \in 1..ChainLength(n) :
              /\ Upto(n, k - 1) = (k - 1) * Chunk /\ Upto(n, k) = Min({k * Chunk, n})
              /\ Upto(n, k - 1) \in 0..n - 1 /\ Upto(n, k) \in 1..n /\ Upto(n, k - 1) < Upto(n, k)
              /\ Upto(n, k) - Upto(n, k - 1) = Min({n - Upto(n, k - 1), Chunk})
<1> DEFINE c == Chunk
           N == ChainLength(n)
           m == n + c - 1
<1>1. c \in Nat \ {0} /\ m \in Nat /\ m = n + (c - 1)
  BY Room
<1>2. N = m \div c
  BY DEF ChainLength
<1> HIDE DEF c, N, m
<1>30. m \in Int /\ c \in Nat \ {0}
  BY <1>1
<1>3. N \in Int /\ m % c \in 0..c - 1 /\ m = N * c + (m % c)
  <2>1. m \div c \in Int /\ m % c \in 0..c - 1 /\ m = (m \div c) * c + (m % c)
    BY <1>30, DivMod
  <2> QED
    BY <2>1, <1>2
<1>4. n <= N * c /\ (N - 1) * c < n
  <2> DEFINE x == N * c
             r == m % c
  <2>1. (N - 1) * c = x - c /\ x \in Int
    BY <1>1, <1>3
  <2>2. m = x + r /\ r \in 0..c - 1
    BY <1>3
  <2> HIDE DEF x, r
  <2>3. n <= x /\ x - c < n
    BY <2>1, <2>2, <1>1
  <2> QED
    BY <2>1, <2>3 DEF x
<1>5. N \in 1..n
  <2>1. ~(N <= 0)
    <3> SUFFICES ASSUME N <= 0 PROVE FALSE
      OBVIOUS
    <3>1. N * c <= 0
      BY <1>1, <1>3
    <3>2. N * c \in Int
      BY <1>1, <1>3
    <3> QED
      BY <3>1, <3>2, <1>4
  <2>2. N - 1 <= (N - 1) * c
    BY <2>1, <1>1, <1>3
  <2>3. (N - 1) * c \in Int
    BY <1>1, <1>3
  <2> QED
    BY <2>1, <2>2, <2>3, <1>3, <1>4
<1>6. N - 1 <= n \div c
  <2>1. N - 1 \in Int /\ ~(n < (N - 1) * c)
    <3>1. (N - 1) * c \in Int
      BY <1>1, <1>3
    <3> QED
      BY <3>1, <1>3, <1>4
  <2>2. ~((n \div c) < N - 1)
    BY <2>1, <1>1, DivBound
  <2>3. n \div c \in Int
    BY <1>1, DivMod
  <2> QED
    BY <2>1, <2>2, <2>3
<1>7. ASSUME NEW k \in 1..N
      PROVE  /\ Upto(n, k - 1) = (k - 1) * c /\ Upto(n, k) = Min({k * c, n})
             /\ Upto(n, k - 1) \in 0..n - 1 /\ Upto(n, k) \in 1..n /\ Upto(n, k - 1) < Upto(n, k)
             /\ Upto(n, k) - Upto(n, k - 1) = Min({n - Upto(n, k - 1), c})
  <2> DEFINE x == (k - 1) * c
             y == k * c
  <2>1. k \in Nat /\ x \in Nat /\ y = x + c
    BY <1>1, <1>5
  <2>2. x <= (N - 1) * c
    <3>1. k - 1 <= N - 1 /\ k - 1 \in Nat /\ N - 1 \in Nat
      BY <1>5
    <3> DEFINE p == k - 1
               q == N - 1
    <3>2. p <= q /\ p \in Nat /\ q \in Nat
      BY <3>1
    <3> HIDE DEF p, q
    <3>3. p * c <= q * c
      BY <3>2, <1>1
    <3> QED
      BY <3>3 DEF p, q
  <2>3. x < n
    <3> DEFINE z == (N - 1) * c
    <3>1. z \in Int
      BY <1>1, <1>3
    <3> HIDE DEF x, z
    <3> QED
      BY <3>1, <2>1, <2>2, <1>4 DEF z
  <2>4. Upto(n, k - 1) = (IF x <= n THEN x ELSE n) /\ Upto(n, k) = (IF y <= n THEN y ELSE n)
    BY DEF Upto, c
  <2> HIDE DEF x, y
  <2>5. Upto(n, k - 1) = x
    BY <2>1, <2>3, <2>4
  <2>6. Min({y, n}) = IF y <= n THEN y ELSE n
    BY <2>1, <1>1, MinOfTwo
  <2>7. Min({n - x, c}) = IF n - x <= c THEN n - x ELSE c
    BY <2>1, <1>1, MinOfTwo
  <2>8. Upto(n, k) \in 1..n /\ x < Upto(n, k) /\ Upto(n, k) - x = Min({n - x, c})
    BY <2>1, <2>3, <2>4, <2>7, <1>1
  <2> QED
    BY <2>1, <2>3, <2>4, <2>5, <2>6, <2>8 DEF x, y
<1>8. Upto(n, N) = n /\ Upto(n, 0) = 0
  <2>1. Upto(n, N) = IF N * c <= n THEN N * c ELSE n
    BY DEF Upto, c
  <2>2. Upto(n, 0) = 0
    <3>1. 0 * c = 0
      BY <1>1
    <3> QED
      BY <3>1 DEF Upto, c
  <2>3. N * c \in Int
    BY <1>1, <1>3
  <2> DEFINE z == N * c
  <2> HIDE DEF z
  <2>4. n <= z /\ z \in Int => (IF z <= n THEN z ELSE n) = n
    OBVIOUS
  <2> QED
    BY <2>1, <2>2, <2>3, <2>4, <1>4 DEF z
<1> QED
  BY <1>5, <1>6, <1>7, <1>8 DEF c, N

(* A page of a chain: the number of the next one, a piece of the data, and  *)
(* zeros up to its end.                                                     *)
LEMMA OnePage ==
  ASSUME NEW q \in Nat, q < Power[4], NEW piece \in Seq(Int), Len(piece) <= Chunk
  PROVE  LET page == Digits(q, 4) \o piece \o [j \in 1..Chunk - Len(piece) |-> 0]
         IN  /\ page \in Seq(Int) /\ Len(page) = PageSize
             /\ Number(Slice(page, 0, 4)) = q /\ Slice(page, 4, Len(piece)) = piece
<1> DEFINE head == Digits(q, 4)
           blank == [j \in 1..Chunk - Len(piece) |-> 0]
           front == head \o piece
           page == front \o blank
<1>1. head \in Seq(Int) /\ Len(head) = 4
  <2>1. q \in Int /\ 4 \in 1..8
    OBVIOUS
  <2> DEFINE B == 0..Base - 1
  <2>2. head \in Seq(B) /\ Len(head) = 4
    BY <2>1, DigitsAre
  <2>3. B \subseteq Int
    BY Bytes
  <2> HIDE DEF head, B
  <2>4. head \in Seq(Int)
    BY <2>2, <2>3, SeqMonotonic
  <2> QED
    BY <2>2, <2>4
<1>2. Len(piece) \in Nat /\ Chunk \in Nat /\ PageSize = 4 + Chunk
  BY Room
<1>3. blank \in Seq(Int) /\ Len(blank) = Chunk - Len(piece)
  <2> DEFINE k == Chunk - Len(piece)
  <2>1. k \in Nat
    BY <1>2
  <2> HIDE DEF k
  <2> DEFINE zeros == [j \in 1..k |-> 0]
  <2>2. zeros \in Seq(Int) /\ Len(zeros) = k
    BY <2>1
  <2> QED
    BY <2>2 DEF k
<1> HIDE DEF head, blank
<1>4. front \in Seq(Int) /\ Len(front) = 4 + Len(piece)
  <2>1. head \in Seq(Int) /\ piece \in Seq(Int)
    BY <1>1
  <2>2. front \in Seq(Int) /\ Len(front) = Len(head) + Len(piece)
    BY <2>1, ConcatProperties
  <2> QED
    BY <1>1, <2>2
<1>5. Held(page, 0, front) /\ page \in Seq(Int) /\ Len(page) = Len(front) + Len(blank)
  <2>1. front \in Seq(Int) /\ blank \in Seq(Int)
    BY <1>3, <1>4
  <2> HIDE DEF front
  <2>2. page \in Seq(Int) /\ Held(page, 0, front)
    BY <2>1, HeldInFront
  <2>3. Len(page) = Len(front) + Len(blank)
    BY <2>1, ConcatProperties
  <2> QED
    BY <2>2, <2>3
<1>6. Held(page, 0, head) /\ Held(page, 0 + 4, piece)
  <2>1. Held(page, 0, head \o piece)
    BY <1>5
  <2> HIDE DEF page
  <2> QED
    BY <1>1, <2>1, HeldJoined
<1> HIDE DEF page
<1>7. Slice(page, 0 + 4, Len(piece)) = piece
  BY <1>6, SliceHeld
<1>8. Number(Slice(page, 0, 4)) = q
  <2>1. q \in Int /\ 4 \in 1..8 /\ Held(page, 0, Digits(q, 4))
    BY <1>6 DEF head
  <2>2. NumberAfter(q \div Power[4], Slice(page, 0, 4)) = q
    BY <2>1, NumberHeld
  <2>3. q \div Power[4] = 0
    <3>1. Power[4] \in Nat \ {0}
      <4>1. 4 \in 0..8
        OBVIOUS
      <4> QED
        BY <4>1, Powers
    <3>2. q \in 0..Power[4] - 1
      BY <3>1
    <3> QED
      BY <3>1, <3>2, Small
  <2> QED
    BY <2>2, <2>3 DEF Number
<1>9. Len(page) = PageSize
  BY <1>2, <1>3, <1>4, <1>5
<1>10. 0 + 4 = 4
  OBVIOUS
<1> QED
  BY <1>5, <1>7, <1>8, <1>9, <1>10 DEF page, front, head, blank

(* The pages of a chain: where each leads to, and what it holds.            *)
LEMMA ChainPages ==
  ASSUME NEW data \in Seq(Int), 0 < Len(data), NEW first \in Nat,
         first + (ChainLength(Len(data)) - 1) < Power[4]
  PROVE  LET D == Len(data)
             N == ChainLength(D)
             w == WriteOverflowChain(data, first)
         IN  /\ DOMAIN w = first..first + (N - 1)
             /\ \A i \in 1..N :
                  /\ Len(w[first + (i - 1)]) = PageSize
                  /\ Number(Slice(w[first + (i - 1)], 0, 4)) = (IF i = N THEN 0 ELSE first + i)
                  /\ Slice(w[first + (i - 1)], 4, Upto(D, i) - Upto(D, i - 1))
                       = SubSeq(data, Upto(D, i - 1) + 1, Upto(D, i))
<1> DEFINE D == Len(data)
           N == ChainLength(D)
           c == Chunk
           piece(i) == SubSeq(data, (i - 1) * c + 1, Min({i * c, D}))
           blank(i) == [j \in 1..c - Len(piece(i)) |-> 0]
           bytes(p, i) == Digits(IF i = N THEN 0 ELSE p + 1, 4) \o piece(i) \o blank(i)
           w == WriteOverflowChain(data, first)
<1>1. D \in Nat /\ 0 < D /\ c \in Nat \ {0} /\ first \in Nat
  BY Room
<1>2. /\ N \in 1..D
      /\ \A k \in 1..N :
           /\ Upto(D, k - 1) = (k - 1) * c /\ Upto(D, k) = Min({k * c, D})
           /\ Upto(D, k - 1) \in 0..D - 1 /\ Upto(D, k) \in 1..D /\ Upto(D, k - 1) < Upto(D, k)
           /\ Upto(D, k) - Upto(D, k - 1) = Min({D - Upto(D, k - 1), c})
  BY <1>1, ChainIs
<1>3. N = (D + c - 1) \div c
  BY DEF ChainLength
<1>4. w = [p \in first..first + N - 1 |-> bytes(p, p - first + 1)]
  BY <1>3 DEF WriteOverflowChain
<1>5. DOMAIN w = first..first + (N - 1)
  <2>1. first + N - 1 = first + (N - 1)
    BY <1>1, <1>2
  <2> HIDE DEF bytes, w
  <2> QED
    BY <1>4, <2>1
<1> SUFFICES ASSUME NEW i \in 1..N
             PROVE  /\ Len(w[first + (i - 1)]) = PageSize
                    /\ Number(Slice(w[first + (i - 1)], 0, 4)) = (IF i = N THEN 0 ELSE first + i)
                    /\ Slice(w[first + (i - 1)], 4, Upto(D, i) - Upto(D, i - 1))
                         = SubSeq(data, Upto(D, i - 1) + 1, Upto(D, i))
  BY <1>5
<1> DEFINE p == first + (i - 1)
           q == IF i = N THEN 0 ELSE first + i
           a == Upto(D, i - 1)
           b == Upto(D, i)
<1>6. p \in first..first + N - 1 /\ p - first + 1 = i /\ p + 1 = first + i
  <2> HIDE DEF N, D
  <2> QED
    BY <1>1, <1>2
<1>7. piece(i) = SubSeq(data, a + 1, b)
  BY <1>2
<1>8. a \in 0..D - 1 /\ b \in 1..D /\ a < b /\ b - a \in Nat /\ b - a <= c
  <2>1. a \in 0..D - 1 /\ b \in 1..D /\ a < b /\ b - a = Min({D - a, c})
    BY <1>2
  <2> HIDE DEF a, b, D
  <2>2. Min({D - a, c}) <= c
    <3>1. D - a \in Int /\ c \in Int
      BY <2>1, <1>1
    <3>2. Min({D - a, c}) = IF D - a <= c THEN D - a ELSE c
      BY <3>1, MinOfTwo
    <3> QED
      BY <3>1, <3>2
  <2> QED
    BY <2>1, <2>2, <1>1
<1>9. piece(i) \in Seq(Int) /\ Len(piece(i)) = b - a
  <2> HIDE DEF a, b, D
  <2>1. a + 1 \in Int /\ b \in Int /\ a + 1 <= b /\ b - (a + 1) + 1 = b - a
    BY <1>1, <1>8
  <2>2. \A j \in a + 1..b : data[j] \in Int
    BY <1>1, <1>8 DEF D
  <2> DEFINE m == a + 1
  <2>3. m \in Int /\ m <= b /\ b - m + 1 = b - a /\ \A j \in m..b : data[j] \in Int
    BY <2>1, <2>2
  <2> HIDE DEF m
  <2>4. SubSeq(data, m, b) \in Seq(Int) /\ Len(SubSeq(data, m, b)) = IF m <= b THEN b - m + 1 ELSE 0
    BY <2>1, <2>3, SubSeqProperties
  <2> QED
    BY <1>7, <2>3, <2>4 DEF m, D
<1>10. w[p] = bytes(p, i)
  <2> HIDE DEF bytes, w, p
  <2> QED
    BY <1>4, <1>6
<1>11. q \in Nat /\ q < Power[4] /\ bytes(p, i) = Digits(q, 4) \o piece(i) \o blank(i)
  <2>1. bytes(p, i) = Digits(q, 4) \o piece(i) \o blank(i)
    BY <1>6
  <2>2. q \in Nat /\ q < Power[4]
    <3>1. 4 \in 0..8
      OBVIOUS
    <3>2. Power[4] \in Nat \ {0}
      BY <3>1, Powers
    <3> DEFINE P == Power[4]
    <3>3. P \in Nat /\ 0 < P /\ first + (N - 1) < P
      BY <3>2
    <3> HIDE DEF P, N, D
    <3> QED
      BY <3>3, <1>1, <1>2 DEF P
  <2> QED
    BY <2>1, <2>2
<1> HIDE DEF piece, p, q, bytes, w
<1>12. Len(piece(i)) <= Chunk
  BY <1>8, <1>9
<1>13. /\ Len(w[p]) = PageSize
       /\ Number(Slice(w[p], 0, 4)) = q /\ Slice(w[p], 4, Len(piece(i))) = piece(i)
  <2> DEFINE e == piece(i)
           page == Digits(q, 4) \o e \o [j \in 1..Chunk - Len(e) |-> 0]
  <2>1. e \in Seq(Int) /\ Len(e) <= Chunk /\ w[p] = page
    BY <1>9, <1>10, <1>11, <1>12
  <2>2. q \in Nat /\ q < Power[4]
    BY <1>11
  <2> HIDE DEF e
  <2>3. Len(page) = PageSize /\ Number(Slice(page, 0, 4)) = q /\ Slice(page, 4, Len(e)) = e
    BY <2>1, <2>2, OnePage
  <2> HIDE DEF page
  <2> QED
    BY <2>1, <2>3 DEF e
<1> QED
  BY <1>7, <1>9, <1>13 DEF p, q

(* The loop over the pages of a chain finds the data, and stops after the   *)
(* last page.                                                               *)
LEMMA ChainRead ==
  ASSUME NEW data \in Seq(Int), 0 < Len(data), NEW first \in Nat \ {0},
         first + (ChainLength(Len(data)) - 1) < Power[4]
  PROVE  ReadOverflowChain(WriteOverflowChain(data, first), first, Len(data)) = data
<1> DEFINE D == Len(data)
           N == ChainLength(D)
           w == WriteOverflowChain(data, first)
           U(k) == Upto(D, k)
<1>1. D \in Nat /\ 0 < D /\ N \in 1..D /\ first \in Nat \ {0}
  BY ChainIs
<1>2. /\ U(N) = D /\ U(0) = 0
      /\ \A k \in 1..N :
           /\ U(k - 1) \in 0..D - 1 /\ U(k) \in 1..D /\ U(k - 1) < U(k)
           /\ U(k) - U(k - 1) = Min({D - U(k - 1), Chunk})
  BY <1>1, ChainIs
<1>3. /\ DOMAIN w = first..first + (N - 1)
      /\ \A i \in 1..N :
           /\ Number(Slice(w[first + (i - 1)], 0, 4)) = (IF i = N THEN 0 ELSE first + i)
           /\ Slice(w[first + (i - 1)], 4, U(i) - U(i - 1)) = SubSeq(data, U(i - 1) + 1, U(i))
  BY ChainPages
<1> HIDE DEF N, w, U
<1> DEFINE Done(m) == [data |-> SubSeq(data, 1, U(m)), page |-> IF m = N THEN 0 ELSE first + m,
                       remaining |-> D - U(m)]
           h == [k \in 0..D |-> IF k <= N THEN Done(k) ELSE Done(N)]
           start == [data |-> << >>, page |-> first, remaining |-> D]
           next(at) == LET n == Min({at.remaining, Chunk})
                       IN  IF at.page = 0 \/ at.remaining = 0 THEN at
                           ELSE IF at.page \notin DOMAIN w
                                THEN [data |-> Append(at.data, -1), page |-> 0, remaining |-> 0]
                           ELSE [data |-> at.data \o Slice(w[at.page], 4, n),
                                 page |-> Number(Slice(w[at.page], 0, 4)),
                                 remaining |-> at.remaining - n]
           step(f) == [k \in 0..D |-> IF k = 0 THEN start ELSE next(f[k - 1])]
           loop == CHOOSE f : f = step(f)
<1>4. ReadOverflowChain(w, first, D) = loop[D].data
  BY DEF ReadOverflowChain
<1>5. \A m \in 1..N : next(Done(m - 1)) = Done(m)
  <2> SUFFICES ASSUME NEW m \in 1..N PROVE next(Done(m - 1)) = Done(m)
    OBVIOUS
  <2> DEFINE a == U(m - 1)
             b == U(m)
             p == first + (m - 1)
             q == IF m = N THEN 0 ELSE first + m
             n == b - a
             x == Done(m - 1)
  <2>1. a \in 0..D - 1 /\ b \in 1..D /\ a < b /\ n = Min({D - a, Chunk})
    BY <1>2
  <2>2. m - 1 # N /\ p \in first..first + (N - 1) /\ p # 0
    <3> HIDE DEF D
    <3> QED
      BY <1>1
  <2>3. x.data = SubSeq(data, 1, a) /\ x.page = p /\ x.remaining = D - a
    BY <2>2
  <2>4. p \in DOMAIN w /\ Number(Slice(w[p], 0, 4)) = q /\ Slice(w[p], 4, n) = SubSeq(data, a + 1, b)
    BY <1>3, <2>2
  <2>5. SubSeq(data, 1, a) \o SubSeq(data, a + 1, b) = SubSeq(data, 1, b)
    <3> HIDE DEF a, b
    <3>1. 1 \in 1..Len(data) + 1 /\ a \in 1 - 1..Len(data) /\ b \in a..Len(data)
      BY <2>1, <1>1
    <3> QED
      BY <3>1, ConcatAdjacentSubSeq
  <2>6. D - a # 0 /\ (D - a) - n = D - b
    <3> HIDE DEF a, b, D
    <3> QED
      BY <2>1, <1>1
  <2>7. Done(m) = [data |-> SubSeq(data, 1, b), page |-> q, remaining |-> D - b]
    OBVIOUS
  <2> HIDE DEF a, b, p, q, n, x, Done, D
  <2>8. next(x) = [data |-> SubSeq(data, 1, a) \o SubSeq(data, a + 1, b), page |-> q, remaining |-> (D - a) - n]
    BY <2>1, <2>2, <2>3, <2>4, <2>6
  <2> HIDE DEF next
  <2>9. next(x) = Done(m)
    BY <2>5, <2>6, <2>7, <2>8
  <2> QED
    BY <2>9 DEF x
<1>6. next(Done(N)) = Done(N)
  <2>1. Done(N).page = 0
    OBVIOUS
  <2> HIDE DEF Done
  <2> QED
    BY <2>1
<1>7. Done(0) = start
  <2>1. SubSeq(data, 1, 0) = << >>
    BY SubSeqEmpty
  <2>2. 0 # N /\ first + 0 = first /\ D - 0 = D
    <3> HIDE DEF D
    <3> QED
      BY <1>1
  <2> QED
    BY <2>1, <2>2, <1>2
<1> HIDE DEF next, Done, start, D
<1>8. \A k \in 0..D : h[k] = IF k = 0 THEN start ELSE next(h[k - 1])
  <2>1. h[0] = start
    BY <1>1, <1>7
  <2> SUFFICES ASSUME NEW k \in 0..D, k # 0 PROVE h[k] = next(h[k - 1])
    BY <2>1
  <2>2. k - 1 \in 0..D
    BY <1>1
  <2>3. CASE k <= N
    <3>1. k \in 1..N /\ k - 1 <= N
      BY <2>3, <1>1
    <3> QED
      BY <2>2, <2>3, <3>1, <1>5
  <2>4. CASE ~(k <= N)
    <3>1. h[k - 1] = Done(N)
      <4>1. k - 1 <= N => k - 1 = N
        BY <2>4, <1>1
      <4> QED
        BY <2>2, <4>1
    <3> QED
      BY <2>4, <3>1, <1>6
  <2> QED
    BY <2>3, <2>4
<1>9. h = step(h)
  <2>1. h = [k \in 0..D |-> h[k]]
    OBVIOUS
  <2> HIDE DEF h
  <2> QED
    BY <2>1, <1>8
<1>10. loop = step(loop)
  <2> HIDE DEF step, h
  <2> QED
    BY <1>9
<1>11. \A k \in 0..D : loop[k] = IF k = 0 THEN start ELSE next(loop[k - 1])
  <2> DEFINE p == loop
  <2>1. p = step(p)
    BY <1>10
  <2> HIDE DEF p
  <2> QED
    BY <2>1 DEF p
<1> HIDE DEF loop, h
<1>12. \A k \in 0..D : loop[k] = h[k]
  <2>1. 0 \in 0..D /\ \A k \in 1..D : k \in 0..D /\ k # 0
    BY <1>1
  <2>2. loop[0] = h[0] /\ \A k \in 1..D : loop[k - 1] = h[k - 1] => loop[k] = h[k]
    BY <2>1, <1>8, <1>11
  <2>3. D \in Nat
    BY <1>1
  <2>4. SameSteps(loop, h, D)
    BY <2>2, <2>3 DEF SameSteps
  <2> QED
    BY <2>4, SameLoop
<1>13. h[D] = Done(N)
  <2>1. D \in 0..D /\ (D <= N => D = N)
    BY <1>1
  <2> QED
    BY <2>1 DEF h
<1>14. D \in 0..D
  BY <1>1
<1>15. loop[D].data = SubSeq(data, 1, D)
  BY <1>2, <1>12, <1>13, <1>14 DEF Done
<1>16. SubSeq(data, 1, D) = data
  BY SubSeqFull DEF D
<1> QED
  BY <1>4, <1>15, <1>16 DEF D, w

-----------------------------------------------------------------------------
(* A stored row, read from its bytes                                        *)

(* What the assumptions say of a row that is stored.                        *)
LEMMA RowIs ==
  ASSUME NEW rowid \in Rowids, NEW record \in Records
  PROVE  /\ Unsigned(rowid) /\ Storable(record) /\ Encode(record) \in Seq(Int)
         /\ Len(Encode(record)) \in Nat /\ Unsigned(Len(Encode(record)))
         /\ FirstFree + (Len(Encode(record)) \div Chunk) < Power[4]
<1>1. /\ Unsigned(rowid) /\ record \in Seq(Values) /\ \A i \in DOMAIN record : InRange(record[i])
      /\ Unsigned(Len(Encode(record)))
      /\ FirstFree + (Len(Encode(record)) \div Chunk) < Power[4]
  BY RecordsAssumption
<1>2. Storable(record)
  <2>1. DOMAIN record = 1..Len(record)
    BY <1>1
  <2> QED
    BY <1>1, <2>1 DEF Storable
<1>3. Encode(record) \in Seq(Int)
  BY <1>2, EncodeBytes
<1>4. Len(Encode(record)) \in Nat
  BY <1>3
<1> QED
  BY <1>1, <1>2, <1>3, <1>4

LEMMA JunkIs ==
  Junk \in Seq(Int)
<1>1. Base - 1 \in Int /\ Base - 2 \in Int
  BY Bytes
<1> QED
  BY <1>1 DEF Junk

(* The two integers of a cell and what follows them.                        *)
LEMMA CellRead ==
  ASSUME NEW a, Unsigned(a), NEW b, Unsigned(b), NEW rest \in Seq(Int), NEW more \in Seq(Int)
  PROVE  LET n == Len(EncodeVarint(a))
             m == Len(EncodeVarint(b))
             s == ((EncodeVarint(a) \o EncodeVarint(b)) \o rest) \o more
         IN  /\ n \in 1..9 /\ m \in 1..9
             /\ DecodeVarint(s, 0) = [value |-> a, size |-> n]
             /\ DecodeVarint(s, n) = [value |-> b, size |-> m]
             /\ Held(s, n + m, rest)
<1> DEFINE u == EncodeVarint(a)
           v == EncodeVarint(b)
           n == Len(u)
           m == Len(v)
           uv == u \o v
           cell == uv \o rest
           s == cell \o more
<1>1. u \in Seq(Int) /\ v \in Seq(Int) /\ n \in 1..9 /\ m \in 1..9
  BY VarintBytes, FitsInto
<1> HIDE DEF n, m
<1>2. uv \in Seq(Int) /\ Len(uv) = n + m
  <2> HIDE DEF u, v
  <2> QED
    BY <1>1, ConcatProperties DEF n, m
<1>3. cell \in Seq(Int) /\ Held(cell \o more, 0, cell)
  <2> HIDE DEF uv
  <2>1. cell \in Seq(Int)
    BY <1>2, ConcatProperties
  <2> HIDE DEF cell
  <2> QED
    BY <2>1, HeldInFront
<1> HIDE DEF s
<1>4. Held(s, 0, uv) /\ Held(s, 0 + Len(uv), rest)
  <2>1. Held(s, 0, uv \o rest)
    BY <1>3 DEF s
  <2> HIDE DEF uv
  <2> QED
    BY <1>2, <2>1, HeldJoined
<1>5. DecodeVarint(s, 0) = [value |-> a, size |-> n] /\ DecodeVarint(s, 0 + n) = [value |-> b, size |-> m]
  <2>1. Held(s, 0, u) /\ Held(s, 0 + n, v)
    <3> HIDE DEF u, v
    <3> QED
      BY <1>1, <1>4, HeldJoined DEF n
  <2>2. DecodeVarint(s, 0) = [value |-> a, size |-> n]
    BY <2>1, VarintHeld DEF n
  <2>3. DecodeVarint(s, 0 + n) = [value |-> b, size |-> m]
    BY <2>1, VarintHeld DEF m
  <2> QED
    BY <2>2, <2>3
<1>6. 0 + n = n /\ 0 + Len(uv) = n + m
  BY <1>1, <1>2
<1> QED
  BY <1>1, <1>4, <1>5, <1>6 DEF n, m, s, cell, uv, u, v

(* A cell of a table: its integers, and what the cell holds of the payload. *)
Local(payload) ==
  IF Len(payload) <= MaxLocal THEN payload
  ELSE Slice(payload, 0, MaxLocal) \o Digits(FirstFree, 4)

LEMMA LocalIs ==
  ASSUME NEW payload \in Seq(Int)
  PROVE  /\ Local(payload) \in Seq(Int)
         /\ ~(Len(payload) <= MaxLocal) =>
              /\ Slice(payload, 0, MaxLocal) \in Seq(Int) /\ Len(Slice(payload, 0, MaxLocal)) = MaxLocal
              /\ Digits(FirstFree, 4) \in Seq(Int) /\ Len(Digits(FirstFree, 4)) = 4
<1> DEFINE front == Slice(payload, 0, MaxLocal)
           next == Digits(FirstFree, 4)
<1>1. next \in Seq(Int) /\ Len(next) = 4
  <2>1. FirstFree \in Int /\ 4 \in 1..8
    BY DEF FirstFree
  <2> DEFINE B == 0..Base - 1
  <2>2. next \in Seq(B) /\ Len(next) = 4
    BY <2>1, DigitsAre
  <2>3. B \subseteq Int
    BY Bytes
  <2> HIDE DEF next, B
  <2>4. next \in Seq(Int)
    BY <2>2, <2>3, SeqMonotonic
  <2> QED
    BY <2>2, <2>4
<1>2. ASSUME ~(Len(payload) <= MaxLocal) PROVE front \in Seq(Int) /\ Len(front) = MaxLocal
  <2> DEFINE L == Len(payload)
             M == MaxLocal
  <2>1. L \in Nat /\ M \in Nat /\ M <= L /\ front = SubSeq(payload, 1, M)
    <3>1. 0 + 1 = 1 /\ 0 + MaxLocal = MaxLocal
      BY Room
    <3> QED
      BY <1>2, <3>1, Room DEF Slice
  <2>2. \A i \in 1..M : payload[i] \in Int
    <3> HIDE DEF M
    <3> QED
      BY <2>1
  <2> HIDE DEF M, L, front
  <2>3. SubSeq(payload, 1, M) \in Seq(Int) /\ Len(SubSeq(payload, 1, M)) = IF 1 <= M THEN M - 1 + 1 ELSE 0
    <3>1. 1 \in Int /\ M \in Int
      BY <2>1
    <3> QED
      BY <2>2, <3>1, SubSeqProperties
  <2>4. (IF 1 <= M THEN M - 1 + 1 ELSE 0) = M
    BY <2>1
  <2> QED
    BY <2>1, <2>3, <2>4 DEF M
<1> HIDE DEF front, next
<1>3. Local(payload) \in Seq(Int)
  <2>1. CASE Len(payload) <= MaxLocal
    BY <2>1 DEF Local
  <2>2. CASE ~(Len(payload) <= MaxLocal)
    <3>1. front \in Seq(Int) /\ next \in Seq(Int)
      BY <1>1, <1>2, <2>2
    <3>2. front \o next \in Seq(Int)
      BY <3>1, ConcatProperties
    <3> QED
      BY <2>2, <3>2 DEF Local, front, next
  <2> QED
    BY <2>1, <2>2
<1> QED
  BY <1>1, <1>2, <1>3 DEF front, next

(* Where the rest of a payload goes, and that it comes back.                *)
LEMMA TailRead ==
  ASSUME NEW record \in Records, ~(Len(Encode(record)) <= MaxLocal)
  PROVE  LET payload == Encode(record)
             written == OverflowOf(payload, FirstFree)
         IN  /\ ReadOverflowChain(written, FirstFree, Len(payload) - MaxLocal)
                  = Slice(payload, MaxLocal, Len(payload) - MaxLocal)
             /\ Slice(payload, 0, MaxLocal) \o Slice(payload, MaxLocal, Len(payload) - MaxLocal) = payload
             /\ \A p \in DOMAIN written : Len(written[p]) = PageSize
<1> DEFINE payload == Encode(record)
           L == Len(payload)
           M == MaxLocal
           data == Slice(payload, M, L - M)
           D == Len(data)
           N == ChainLength(D)
           written == OverflowOf(payload, FirstFree)
<1>1. payload \in Seq(Int) /\ L \in Nat /\ M \in Nat /\ ~(L <= M) /\ FirstFree + (L \div Chunk) < Power[4]
  <2>1. record \in Seq(Values) /\ \A i \in DOMAIN record : InRange(record[i])
    BY RecordsAssumption
  <2>2. DOMAIN record = 1..Len(record)
    BY <2>1
  <2>3. Storable(record)
    BY <2>1, <2>2 DEF Storable
  <2>4. payload \in Seq(Int)
    BY <2>3, EncodeBytes
  <2>5. L \in Nat
    BY <2>4
  <2> QED
    BY <2>4, <2>5, Room, RecordsAssumption
<1>2. written = WriteOverflowChain(data, FirstFree)
  BY <1>1 DEF OverflowOf
<1> HIDE DEF payload, L, written
<1>3. data = SubSeq(payload, M + 1, L) /\ Slice(payload, 0, M) = SubSeq(payload, 1, M)
  <2>1. M + (L - M) = L /\ 0 + 1 = 1 /\ 0 + M = M
    BY <1>1
  <2> QED
    BY <2>1 DEF Slice
<1>4. SubSeq(payload, 1, M) \o SubSeq(payload, M + 1, L) = payload
  <2>1. 1 \in 1..L + 1 /\ M \in 1 - 1..L /\ L \in M..L
    BY <1>1
  <2>2. SubSeq(payload, 1, M) \o SubSeq(payload, M + 1, L) = SubSeq(payload, 1, L)
    BY <1>1, <2>1, ConcatAdjacentSubSeq DEF L
  <2>3. SubSeq(payload, 1, L) = payload
    BY <1>1, SubSeqFull DEF L
  <2> QED
    BY <2>2, <2>3
<1> HIDE DEF M
<1>5. data \in Seq(Int) /\ D = L - M
  <2>1. \A i \in M + 1..L : payload[i] \in Int
    <3>1. \A i \in M + 1..L : i \in 1..Len(payload)
      BY <1>1 DEF L
    <3> QED
      BY <1>1, <3>1
  <2> DEFINE m == M + 1
  <2>2. m \in Int /\ L \in Int /\ m <= L /\ L - m + 1 = L - M /\ \A i \in m..L : payload[i] \in Int
    BY <1>1, <2>1
  <2> HIDE DEF m
  <2>3. SubSeq(payload, m, L) \in Seq(Int) /\ Len(SubSeq(payload, m, L)) = IF m <= L THEN L - m + 1 ELSE 0
    BY <2>2, SubSeqProperties
  <2> QED
    BY <1>3, <2>2, <2>3 DEF m
<1> HIDE DEF data
<1>6. D \in Nat /\ 0 < D /\ D <= L
  BY <1>1, <1>5
<1>7. N \in 1..D /\ N - 1 <= D \div Chunk
  BY <1>6, ChainIs
<1> HIDE DEF D, N
<1>8. FirstFree + (N - 1) < Power[4]
  <2>1. D \div Chunk <= L \div Chunk
    <3> DEFINE c == Chunk
               q == L \div c
               r == L % c
    <3>1. c \in Nat \ {0} /\ L \in Int /\ D \in Int
      BY <1>1, <1>6, Room
    <3> HIDE DEF c
    <3>2. q \in Int /\ r \in 0..c - 1 /\ L = q * c + r
      BY <3>1, DivMod
    <3>3. D \div c \in Int
      BY <3>1, DivMod
    <3> HIDE DEF q, r
    <3>4. D < (q + 1) * c
      <4> DEFINE x == q * c
      <4>1. (q + 1) * c = x + c /\ x \in Int
        BY <3>1, <3>2
      <4>2. L = x + r
        BY <3>2
      <4> HIDE DEF x
      <4> QED
        BY <4>1, <4>2, <3>1, <3>2, <1>6
    <3>5. (D \div c) < q + 1
      <4>1. q + 1 \in Int
        BY <3>2
      <4> QED
        BY <4>1, <3>1, <3>4, DivBound
    <3>6. D \div c <= q
      BY <3>2, <3>3, <3>5
    <3> QED
      BY <3>6 DEF q, c
  <2>2. L \div Chunk \in Int /\ D \div Chunk \in Int
    BY <1>1, <1>6, Room, DivMod
  <2>3. Power[4] \in Nat
    <3>1. 4 \in 0..8
      OBVIOUS
    <3> QED
      BY <3>1, Powers
  <2> DEFINE x == L \div Chunk
             y == D \div Chunk
             P == Power[4]
  <2>4. y <= x /\ x \in Int /\ y \in Int /\ P \in Nat /\ FirstFree + x < P /\ N - 1 <= y
    BY <2>1, <2>2, <2>3, <1>1, <1>7
  <2> HIDE DEF x, y, P
  <2>5. FirstFree + (N - 1) < P
    BY <2>4, <1>6, <1>7 DEF FirstFree
  <2> QED
    BY <2>5 DEF P
<1>9. FirstFree \in Nat \ {0} /\ FirstFree \in Nat
  BY DEF FirstFree
<1>10. ReadOverflowChain(WriteOverflowChain(data, FirstFree), FirstFree, D) = data
  BY <1>5, <1>6, <1>8, <1>9, ChainRead DEF D, N
<1>11. \A p \in DOMAIN written : Len(written[p]) = PageSize
  <2> DEFINE w == WriteOverflowChain(data, FirstFree)
  <2>1. /\ DOMAIN w = FirstFree..FirstFree + (N - 1)
        /\ \A i \in 1..N : Len(w[FirstFree + (i - 1)]) = PageSize
    BY <1>5, <1>6, <1>8, <1>9, ChainPages DEF D, N
  <2> HIDE DEF w
  <2>2. ASSUME NEW p \in DOMAIN w PROVE Len(w[p]) = PageSize
    <3> DEFINE i == p - FirstFree + 1
    <3>1. p - FirstFree + 1 \in 1..N /\ FirstFree + ((p - FirstFree + 1) - 1) = p
      <4>1. p \in FirstFree..FirstFree + (N - 1)
        BY <2>1
      <4> QED
        BY <4>1, <1>6, <1>7, <1>9
    <3> HIDE DEF i
    <3>2. Len(w[FirstFree + (i - 1)]) = PageSize
      BY <2>1, <3>1 DEF i
    <3> QED
      BY <3>1, <3>2 DEF i
  <2> QED
    BY <2>2, <1>2 DEF w
<1> QED
  BY <1>2, <1>3, <1>4, <1>5, <1>10, <1>11 DEF payload, L, M, data, written

(* What is read from the cell of a row: its key and its payload.            *)
LEMMA RowRead ==
  ASSUME NEW rowid \in Rowids, NEW record \in Records
  PROVE  LET payload == Encode(record)
             s == MakeLeafCell(rowid, payload, FirstFree) \o Junk
         IN  CurrentKey(s) = rowid /\ ReadFullPayload(s, TRUE, OverflowOf(payload, FirstFree)) = payload
<1> DEFINE payload == Encode(record)
           L == Len(payload)
           M == MaxLocal
           u == EncodeVarint(L)
           v == EncodeVarint(rowid)
           n == Len(u)
           m == Len(v)
           rest == Local(payload)
           s == ((u \o v) \o rest) \o Junk
           written == OverflowOf(payload, FirstFree)
<1>1. Unsigned(rowid) /\ Unsigned(L) /\ L \in Nat /\ payload \in Seq(Int) /\ M \in Nat
  BY RowIs, Room
<1>2. MakeLeafCell(rowid, payload, FirstFree) \o Junk = s
  BY DEF MakeLeafCell, Local
<1>3. rest \in Seq(Int)
  BY <1>1, LocalIs
<1>4. /\ n \in 1..9 /\ m \in 1..9
      /\ DecodeVarint(s, 0) = [value |-> L, size |-> n]
      /\ DecodeVarint(s, n) = [value |-> rowid, size |-> m]
      /\ Held(s, n + m, rest)
  <2> HIDE DEF payload, rest, L
  <2> QED
    BY <1>1, <1>3, JunkIs, CellRead
<1> HIDE DEF u, v, n, m, s, rest, payload, L, written, M
<1>5. CurrentKey(s) = rowid
  BY <1>4 DEF CurrentKey
<1>6. DecodeVarint(s, 0).value = L /\ DecodeVarint(s, 0).size = n /\ DecodeVarint(s, n).size = m
  BY <1>4
<1>7. ReadFullPayload(s, TRUE, written) =
        IF L <= M THEN Slice(s, n + m, L)
        ELSE Slice(s, n + m, M)
               \o ReadOverflowChain(written, Number(Slice(s, n + m + M, 4)), L - M)
  BY <1>6 DEF ReadFullPayload, M
<1>8. CASE L <= M
  <2>1. rest = payload
    BY <1>8 DEF rest, Local, L, M
  <2>2. Slice(s, n + m, Len(payload)) = payload
    BY <1>4, <2>1, SliceHeld
  <2> QED
    BY <1>2, <1>5, <1>7, <1>8, <2>2 DEF L, payload, written
<1>9. CASE ~(L <= M)
  <2> DEFINE front == Slice(payload, 0, M)
             next == Digits(FirstFree, 4)
             data == Slice(payload, M, L - M)
  <2>1. rest = front \o next
    BY <1>9 DEF rest, Local, L, M
  <2>2. front \in Seq(Int) /\ Len(front) = M /\ next \in Seq(Int) /\ Len(next) = 4
    BY <1>1, <1>9, LocalIs DEF L, M
  <2> HIDE DEF front, next, data
  <2>3. Held(s, n + m, front) /\ Held(s, n + m + M, next)
    <3>1. Held(s, n + m, front \o next)
      BY <1>4, <2>1
    <3> DEFINE o == n + m
    <3>2. Held(s, o, front \o next)
      BY <3>1
    <3> HIDE DEF o
    <3>3. Held(s, o, front) /\ Held(s, o + Len(front), next)
      BY <2>2, <3>2, HeldJoined
    <3> QED
      BY <2>2, <3>3 DEF o
  <2>4. Slice(s, n + m, M) = front
    BY <2>2, <2>3, SliceHeld
  <2>5. Number(Slice(s, n + m + M, 4)) = FirstFree
    <3>1. NumberAfter(FirstFree \div Power[4], Slice(s, n + m + M, 4)) = FirstFree
      <4>1. FirstFree \in Int /\ 4 \in 1..8
        BY DEF FirstFree
      <4> QED
        BY <4>1, <2>3, NumberHeld DEF next
    <3>2. FirstFree \div Power[4] = 0
      <4> DEFINE P == Power[4]
                 x == L \div Chunk
      <4>1. P \in Nat \ {0} /\ x \in Int /\ ~(x < 0) /\ FirstFree + x < P
        <5>1. 4 \in 0..8
          OBVIOUS
        <5>2. P \in Nat \ {0}
          BY <5>1, Powers
        <5>3. x \in Int
          BY <1>1, Room, DivMod
        <5>4. ~(x < 0)
          <6>1. Chunk \in Nat \ {0} /\ L \in Int /\ 0 \in Int
            BY <1>1, Room
          <6>2. ~(L < 0 * Chunk)
            BY <6>1, <1>1
          <6> QED
            BY <6>1, <6>2, DivBound
        <5>5. FirstFree + x < P
          BY RowIs DEF L, payload
        <5> QED
          BY <5>2, <5>3, <5>4, <5>5
      <4> HIDE DEF P, x
      <4>2. FirstFree \in 0..P - 1
        BY <4>1 DEF FirstFree
      <4>3. FirstFree \div P = 0
        BY <4>1, <4>2, Small
      <4> QED
        BY <4>3 DEF P
    <3> QED
      BY <3>1, <3>2 DEF Number
  <2>6. ReadOverflowChain(written, FirstFree, L - M) = data /\ front \o data = payload
    BY <1>9, TailRead DEF L, M, payload, written, front, data
  <2>7. ReadFullPayload(s, TRUE, written) = payload
    BY <1>7, <1>9, <2>4, <2>5, <2>6
  <2> QED
    BY <1>2, <1>5, <2>7 DEF payload, written
<1> QED
  BY <1>8, <1>9

(* The cell of an index and the divider cell made of it.                    *)
LEMMA EntryRead ==
  ASSUME NEW rowid \in Rowids, NEW record \in Records, NEW written
  PROVE  LET payload == Encode(record)
         IN  /\ ParseIndexInterior(IndexInteriorCell(rowid, payload) \o Junk) = [child |-> rowid, payload |-> payload]
             /\ Len(payload) <= MaxLocal => ReadFullPayload(IndexLeafCell(payload) \o Junk, FALSE, written) = payload
<1> DEFINE payload == Encode(record)
           L == Len(payload)
           u == EncodeVarint(rowid)
           v == EncodeVarint(L)
           n == Len(u)
           m == Len(v)
           entry == v \o payload
<1>1. Unsigned(rowid) /\ Unsigned(L) /\ L \in Nat /\ payload \in Seq(Int)
  BY RowIs
<1>2. u \in Seq(Int) /\ v \in Seq(Int) /\ n \in 1..9 /\ m \in 1..9
  <2>1. rowid \in Nat
    BY <1>1, FitsInto
  <2> HIDE DEF L
  <2> QED
    BY <2>1, <1>1, VarintBytes
<1> HIDE DEF payload, L, n, m
<1>3. entry \in Seq(Int)
  <2> HIDE DEF v
  <2> QED
    BY <1>1, <1>2, ConcatProperties
<1>4. ASSUME NEW s, NEW offset \in Nat, Held(s, offset, entry)
      PROVE  /\ DecodeVarint(s, offset) = [value |-> L, size |-> m]
             /\ Slice(s, offset + m, L) = payload
  <2>1. Held(s, offset, v) /\ Held(s, offset + m, payload)
    <3> HIDE DEF v
    <3> QED
      BY <1>1, <1>2, <1>4, HeldJoined DEF m
  <2>2. DecodeVarint(s, offset) = [value |-> L, size |-> m]
    BY <2>1, <1>1, VarintHeld DEF m
  <2>3. Slice(s, offset + m, L) = payload
    BY <2>1, SliceHeld DEF L
  <2> QED
    BY <2>2, <2>3
<1>5. ParseIndexInterior(IndexInteriorCell(rowid, payload) \o Junk) = [child |-> rowid, payload |-> payload]
  <2> DEFINE cell == u \o entry
             s == cell \o Junk
  <2>1. IndexInteriorCell(rowid, payload) = cell
    BY DEF IndexInteriorCell, IndexLeafCell, L
  <2> HIDE DEF entry
  <2>2. Held(s, 0, u) /\ Held(s, 0 + n, entry)
    <3> HIDE DEF u
    <3>1. cell \in Seq(Int)
      BY <1>2, <1>3, ConcatProperties
    <3>2. Held(s, 0, cell)
      <4> HIDE DEF cell
      <4> QED
        BY <3>1, JunkIs, HeldInFront
    <3>3. Held(s, 0, u \o entry)
      BY <3>2
    <3> HIDE DEF s
    <3> QED
      BY <3>3, <1>2, <1>3, HeldJoined DEF n
  <2>3. DecodeVarint(s, 0) = [value |-> rowid, size |-> n]
    BY <2>2, <1>1, VarintHeld DEF n
  <2>4. 0 + n = n /\ n \in Nat
    BY <1>2
  <2> HIDE DEF s, cell
  <2>5. DecodeVarint(s, n) = [value |-> L, size |-> m] /\ Slice(s, n + m, L) = payload
    BY <2>2, <2>4, <1>4
  <2>6. ParseIndexInterior(s) = [child |-> rowid, payload |-> payload]
    BY <2>3, <2>5 DEF ParseIndexInterior
  <2> QED
    BY <2>1, <2>6 DEF s
<1>6. ASSUME L <= MaxLocal PROVE ReadFullPayload(IndexLeafCell(payload) \o Junk, FALSE, written) = payload
  <2> DEFINE s == entry \o Junk
  <2>1. IndexLeafCell(payload) = entry
    BY DEF IndexLeafCell, L
  <2> HIDE DEF entry
  <2>2. Held(s, 0, entry)
    BY <1>3, JunkIs, HeldInFront
  <2> HIDE DEF s
  <2>3. DecodeVarint(s, 0) = [value |-> L, size |-> m] /\ Slice(s, 0 + m, L) = payload
    BY <2>2, <1>4
  <2>4. 0 + m = m /\ m + 0 = m
    BY <1>2
  <2>5. DecodeVarint(s, 0).value = L /\ DecodeVarint(s, 0).size = m
    BY <2>3
  <2>6. ReadFullPayload(s, FALSE, written) = Slice(s, m + 0, L)
    BY <2>5, <1>6 DEF ReadFullPayload
  <2> QED
    BY <2>1, <2>3, <2>4, <2>6 DEF s
<1> QED
  BY <1>5, <1>6 DEF payload, L

(* The two integers of a divider cell.                                      *)
LEMMA DividerRead ==
  ASSUME NEW rowid \in Rowids, NEW record \in Records
  PROVE  ParseTableInterior(TableInteriorCell(rowid, Len(Encode(record))) \o Junk)
           = [child |-> rowid, key |-> Len(Encode(record))]
<1> DEFINE L == Len(Encode(record))
           u == EncodeVarint(rowid)
           v == EncodeVarint(L)
           uv == u \o v
           empty == << >>
           s == (uv \o empty) \o Junk
           n == Len(u)
           m == Len(v)
<1>1. Unsigned(rowid) /\ Unsigned(L)
  BY RowIs
<1>2. uv \o << >> = uv
  <2>1. u \in Seq(Int) /\ v \in Seq(Int)
    BY <1>1, FitsInto, VarintBytes
  <2>2. uv \in Seq(Int)
    <3> HIDE DEF u, v
    <3> QED
      BY <2>1, ConcatProperties
  <2> HIDE DEF uv
  <2> QED
    BY <2>2, ConcatEmptySeq
<1>3. DecodeVarint(s, 0) = [value |-> rowid, size |-> n] /\ DecodeVarint(s, n) = [value |-> L, size |-> m]
  <2>1. empty \in Seq(Int)
    OBVIOUS
  <2> HIDE DEF L, empty
  <2> QED
    BY <1>1, <2>1, JunkIs, CellRead
<1>4. TableInteriorCell(rowid, L) \o Junk = s
  BY <1>2 DEF TableInteriorCell
<1> HIDE DEF s, L, n, m
<1>5. ParseTableInterior(s) = [child |-> rowid, key |-> L]
  BY <1>3 DEF ParseTableInterior
<1> QED
  BY <1>4, <1>5 DEF L

-----------------------------------------------------------------------------
(* What is stored is what was written for one row and one record.           *)
StoredInv ==
  Stored =>
    LET payload == Encode(row.record)
    IN  /\ row.rowid \in Rowids /\ row.record \in Records
        /\ cells = [table |-> MakeLeafCell(row.rowid, payload, FirstFree),
                    index |-> IndexLeafCell(payload),
                    divider |-> TableInteriorCell(row.rowid, Len(payload))]
        /\ pages = OverflowOf(payload, FirstFree)

LEMMA WhatIsStored ==
  Spec => []StoredInv
<1>1. Init => StoredInv
  BY DEF Init, StoredInv, Stored
<1>2. StoredInv /\ [Next]_vars => StoredInv'
  <2> SUFFICES ASSUME StoredInv, [Next]_vars PROVE StoredInv'
    OBVIOUS
  <2>1. CASE Next
    <3>1. PICK rowid \in Rowids, record \in Records : Store(rowid, record)
      BY <2>1 DEF Next
    <3>2. row'.rowid = rowid /\ row'.record = record
      BY <3>1 DEF Store
    <3> QED
      BY <3>1, <3>2 DEF Store, StoredInv
  <2>2. CASE UNCHANGED vars
    BY <2>2 DEF vars, StoredInv, Stored
  <2> QED
    BY <2>1, <2>2
<1> QED
  BY <1>1, <1>2, PTL DEF Spec

(* Every integer is read back from its bytes alone, whatever follows them   *)
(* (decode_varint reads what encode_varint wrote).                          *)
THEOREM IntegersAreReadBack ==
  Spec => []IntegersReadBack
<1>1. StoredInv => IntegersReadBack
  <2> SUFFICES ASSUME StoredInv, Stored PROVE IntegersReadBack
    BY DEF IntegersReadBack
  <2>1. row.rowid \in Rowids /\ row.record \in Records
        /\ cells.table = MakeLeafCell(row.rowid, Encode(row.record), FirstFree)
        /\ cells.divider = TableInteriorCell(row.rowid, Len(Encode(row.record)))
    BY DEF StoredInv
  <2>2. ParseTableInterior(cells.divider \o Junk) = [child |-> row.rowid, key |-> Len(Encode(row.record))]
    BY <2>1, DividerRead
  <2>3. CurrentKey(cells.table \o Junk) = row.rowid
    BY <2>1, RowRead
  <2> QED
    BY <2>2, <2>3 DEF IntegersReadBack
<1> QED
  BY <1>1, WhatIsStored, PTL

(* Every record is read back from its bytes, whatever its values, however   *)
(* many it has and whatever follows (record.py).                            *)
THEOREM RecordsAreReadBack ==
  Spec => []RecordsReadBack
<1>1. ASSUME NEW record \in Records PROVE Decode(Encode(record) \o Junk) = record
  <2>1. Storable(record) /\ Unsigned(Len(Encode(record)))
    <3>1. record \in Seq(Values) /\ (\A i \in DOMAIN record : InRange(record[i])) /\ Unsigned(Len(Encode(record)))
      BY RecordsAssumption
    <3>2. DOMAIN record = 1..Len(record)
      BY <3>1
    <3> QED
      BY <3>1, <3>2 DEF Storable
  <2>2. Encode(record) \in Seq(Int)
    BY <2>1, EncodeBytes
  <2>3. Held(Encode(record) \o Junk, 0, Encode(record))
    BY <2>2, JunkIs, HeldInFront
  <2> QED
    BY <2>1, <2>3, RecordRead
<1>2. StoredInv => RecordsReadBack
  BY <1>1 DEF StoredInv, RecordsReadBack
<1> QED
  BY <1>2, WhatIsStored, PTL

(* Every row is read back from its cell and its overflow pages, which are   *)
(* whole pages (read_full_payload reads what _make_leaf_cell_data wrote).   *)
THEOREM RowsAreReadBack ==
  Spec => []RowsReadBack
<1>1. ASSUME NEW record \in Records
      PROVE  \A p \in DOMAIN OverflowOf(Encode(record), FirstFree) :
                Len(OverflowOf(Encode(record), FirstFree)[p]) = PageSize
  <2>1. CASE Len(Encode(record)) <= MaxLocal
    BY <2>1 DEF OverflowOf
  <2>2. CASE ~(Len(Encode(record)) <= MaxLocal)
    BY <2>2, TailRead
  <2> QED
    BY <2>1, <2>2
<1>2. StoredInv => RowsReadBack
  <2> SUFFICES ASSUME StoredInv, Stored PROVE RowsReadBack
    BY DEF RowsReadBack
  <2>1. row.rowid \in Rowids /\ row.record \in Records
        /\ cells.table = MakeLeafCell(row.rowid, Encode(row.record), FirstFree)
        /\ pages = OverflowOf(Encode(row.record), FirstFree)
    BY DEF StoredInv
  <2>2. ReadFullPayload(cells.table \o Junk, TRUE, pages) = Encode(row.record)
    BY <2>1, RowRead
  <2>3. \A p \in DOMAIN pages : Len(pages[p]) = PageSize
    BY <2>1, <1>1
  <2> QED
    BY <2>2, <2>3 DEF RowsReadBack
<1> QED
  BY <1>2, WhatIsStored, PTL

(* Every entry of an index that is short enough for a page is read back,    *)
(* and a divider made of any entry (cell.py).                               *)
THEOREM EntriesAreReadBack ==
  Spec => []EntriesReadBack
<1>1. StoredInv => EntriesReadBack
  <2> SUFFICES ASSUME StoredInv, Stored PROVE EntriesReadBack
    BY DEF EntriesReadBack
  <2>1. row.rowid \in Rowids /\ row.record \in Records /\ cells.index = IndexLeafCell(Encode(row.record))
    BY DEF StoredInv
  <2> QED
    BY <2>1, EntryRead DEF EntriesReadBack
<1> QED
  BY <1>1, WhatIsStored, PTL
=============================================================================
