------------------------------- MODULE Loops -------------------------------
(* Induction and recursion over numbers, with sets in the place of          *)
(* predicates: what the proofs about recursive functions rest on; and the   *)
(* operators on sequences and sets that the proofs reason about.            *)
EXTENDS Integers, SequencesExt, WellFoundedInduction, SequenceTheorems, FiniteSetTheorems, TLAPS

(* A set of natural numbers that is not empty has a least one.              *)
LEMMA Least ==
  ASSUME NEW T \in SUBSET Nat, T # {}
  PROVE  \E m \in T : \A k \in T : m <= k
<1> DEFINE R == OpToRel(<, Nat)
<1>1. IsWellFoundedOn(R, Nat)
  BY NatLessThanWellFounded
<1>2. \A i, j \in Nat : i < j => <<i, j>> \in R
  BY DEF OpToRel
<1> HIDE DEF R
<1>3. PICK m \in T : \A k \in T : ~(<<k, m>> \in R)
  BY <1>1, WFMin
<1>4. \A k \in T : ~(k < m) /\ k \in Nat /\ m \in Nat
  BY <1>2, <1>3
<1> QED
  BY <1>4

(* What holds for 0, and for n if it holds for n - 1, holds for all up to N. *)
LEMMA Induction ==
  ASSUME NEW N \in Nat, NEW H, 0 \in H,
         \A n \in 1..N : n - 1 \in H => n \in H
  PROVE  0..N \subseteq H
<1> SUFFICES ASSUME (0..N) \ H # {} PROVE FALSE
  OBVIOUS
<1>1. PICK m \in (0..N) \ H : \A k \in (0..N) \ H : m <= k
  <2>1. (0..N) \ H \in SUBSET Nat
    OBVIOUS
  <2> QED
    BY <2>1, Least
<1>2. m \in 1..N /\ m - 1 \in 0..N /\ m - 1 < m
  BY <1>1
<1> QED
  BY <1>1, <1>2

(* Two functions are the same if they are at 0, and at n if they are at n - 1.*)
SameSteps(f, h, N) ==
  N \in Nat /\ f[0] = h[0] /\ \A n \in 1..N : f[n - 1] = h[n - 1] => f[n] = h[n]

LEMMA SameLoop ==
  ASSUME NEW N, NEW f, NEW h, SameSteps(f, h, N)
  PROVE  \A n \in 0..N : f[n] = h[n]
<1>0. N \in Nat /\ f[0] = h[0] /\ \A n \in 1..N : f[n - 1] = h[n - 1] => f[n] = h[n]
  BY DEF SameSteps
<1> DEFINE H == {n \in 0..N : f[n] = h[n]}
<1>1. 0 \in H
  BY <1>0
<1>2. \A n \in 1..N : n - 1 \in H => n \in H
  BY <1>0
<1>3. N \in Nat
  BY <1>0
<1>4. 0..N \subseteq H
  <2> HIDE DEF H
  <2> QED
    BY <1>1, <1>2, <1>3, Induction
<1> QED
  BY <1>4

(* There is a function with a given value at 0 and a given step from each   *)
(* number to the next; S[n] is a set that contains the value at n.          *)
Stepwise(N, S, base, g) ==
  /\ N \in Nat /\ base \in S[0]
  /\ \A n \in 1..N : \A x \in S[n - 1] : g[n][x] \in S[n]

Follows(f, N, S, base, g) ==
  /\ f[0] = base
  /\ \A n \in 1..N : f[n] = g[n][f[n - 1]]
  /\ \A n \in 0..N : f[n] \in S[n]

(* What each step of a recursive function puts into the next set is in the  *)
(* last one.                                                                *)
LEMMA Recursion ==
  ASSUME NEW N, NEW S, NEW base, NEW g, Stepwise(N, S, base, g)
  PROVE  \E f : Follows(f, N, S, base, g)
<1>0. /\ N \in Nat /\ base \in S[0]
      /\ \A n \in 1..N : \A x \in S[n - 1] : g[n][x] \in S[n]
  BY DEF Stepwise
<1> DEFINE Upto(m, f) == /\ f = [n \in 0..m |-> IF n = 0 THEN base ELSE g[n][f[n - 1]]]
                         /\ \A n \in 0..m : f[n] \in S[n]
           H == {m \in 0..N : \E f : Upto(m, f)}
<1> HIDE DEF Upto
<1>1. 0 \in H
  <2> DEFINE f == [n \in 0..0 |-> base]
  <2>1. f = [n \in 0..0 |-> IF n = 0 THEN base ELSE g[n][f[n - 1]]]
    OBVIOUS
  <2>2. \A n \in 0..0 : f[n] \in S[n]
    BY <1>0
  <2> HIDE DEF f
  <2>3. Upto(0, f)
    BY <2>1, <2>2 DEF Upto
  <2> QED
    BY <2>3, <1>0
<1>2. \A m \in 1..N : m - 1 \in H => m \in H
  <2> SUFFICES ASSUME NEW m \in 1..N, m - 1 \in H PROVE \E f : Upto(m, f)
    OBVIOUS
  <2>1. PICK f : Upto(m - 1, f)
    OBVIOUS
  <2> DEFINE h == [n \in 0..m |-> IF n = m THEN g[m][f[m - 1]] ELSE f[n]]
  <2>2. m - 1 \in 0..m - 1 /\ m - 1 \in 0..m /\ f[m - 1] \in S[m - 1]
    BY <2>1 DEF Upto
  <2>3. \A n \in 0..m : h[n] = IF n = 0 THEN base ELSE g[n][h[n - 1]]
    <3> SUFFICES ASSUME NEW n \in 0..m PROVE h[n] = IF n = 0 THEN base ELSE g[n][h[n - 1]]
      OBVIOUS
    <3>1. CASE n = m
      BY <3>1, <2>2, <1>0
    <3>2. CASE n # m
      <4>1. n \in 0..m - 1 /\ (n # 0 => n - 1 \in 0..m /\ n - 1 # m)
        BY <3>2
      <4>2. f[n] = IF n = 0 THEN base ELSE g[n][f[n - 1]]
        BY <2>1, <4>1 DEF Upto
      <4>3. h[n] = f[n] /\ (n # 0 => h[n - 1] = f[n - 1])
        BY <4>1, <3>2
      <4> QED
        BY <4>2, <4>3
    <3> QED
      BY <3>1, <3>2
  <2>4. \A n \in 0..m : h[n] \in S[n]
    <3> SUFFICES ASSUME NEW n \in 0..m PROVE h[n] \in S[n]
      OBVIOUS
    <3>1. CASE n = m
      BY <3>1, <2>2, <1>0
    <3>2. CASE n # m
      BY <3>2, <2>1 DEF Upto
    <3> QED
      BY <3>1, <3>2
  <2>5. h = [n \in 0..m |-> IF n = 0 THEN base ELSE g[n][h[n - 1]]]
    <3> DEFINE same == [n \in 0..m |-> IF n = 0 THEN base ELSE g[n][h[n - 1]]]
    <3>1. \A n \in 0..m : same[n] = h[n]
      BY <2>3
    <3>2. h = [n \in 0..m |-> h[n]]
      OBVIOUS
    <3>3. same = [n \in 0..m |-> same[n]]
      OBVIOUS
    <3> HIDE DEF h, same
    <3>4. [n \in 0..m |-> same[n]] = [n \in 0..m |-> h[n]]
      BY <3>1
    <3>5. same = h
      BY <3>2, <3>3, <3>4
    <3> QED
      BY <3>5 DEF same
  <2> HIDE DEF h
  <2>6. Upto(m, h)
    BY <2>4, <2>5 DEF Upto
  <2> QED
    BY <2>6
<1>3. 0..N \subseteq H
  <2> HIDE DEF H
  <2> QED
    BY <1>0, <1>1, <1>2, Induction
<1>4. PICK f : Upto(N, f)
  BY <1>0, <1>3
<1>5. f = [n \in 0..N |-> IF n = 0 THEN base ELSE g[n][f[n - 1]]] /\ \A n \in 0..N : f[n] \in S[n]
  BY <1>4 DEF Upto
<1>6. \A n \in 0..N : f[n] = IF n = 0 THEN base ELSE g[n][f[n - 1]]
  BY <1>5
<1>7. f[0] = base /\ \A n \in 1..N : f[n] = g[n][f[n - 1]]
  BY <1>0, <1>6
<1> QED
  BY <1>5, <1>7 DEF Follows

-----------------------------------------------------------------------------
(* One element put into a sequence, or taken out                            *)

(* What a concatenation holds.                                              *)
LEMMA Joined ==
  ASSUME NEW S, NEW a \in Seq(S), NEW b \in Seq(S)
  PROVE  /\ a \o b \in Seq(S) /\ Len(a \o b) = Len(a) + Len(b)
         /\ \A k \in 1..Len(a) : (a \o b)[k] = a[k]
         /\ \A k \in 1..Len(b) : (a \o b)[Len(a) + k] = b[k]
<1>1. a \o b \in Seq(S)
  OBVIOUS
<1>2. Len(a \o b) = Len(a) + Len(b)
  OBVIOUS
<1>3. \A k \in 1..Len(a) : (a \o b)[k] = a[k]
  OBVIOUS
<1>4. \A k \in 1..Len(b) : (a \o b)[Len(a) + k] = b[k]
  OBVIOUS
<1> QED
  BY <1>1, <1>2, <1>3, <1>4

(* r is s with x inserted at i; s with its i-th element taken out.          *)
Insertion(r, s, i, x) ==
  /\ Len(r) = Len(s) + 1
  /\ \A k \in 1..Len(s) + 1 : r[k] = IF k < i THEN s[k] ELSE IF k = i THEN x ELSE s[k - 1]

Removal(r, s, i) ==
  /\ Len(r) = Len(s) - 1
  /\ \A k \in 1..Len(s) - 1 : r[k] = IF k < i THEN s[k] ELSE s[k + 1]

(* InsertAt is the insertion of one element, the others keep their order.   *)
LEMMA InsertedAt ==
  ASSUME NEW S, NEW s \in Seq(S), NEW x \in S, NEW i \in 1..Len(s) + 1
  PROVE  InsertAt(s, i, x) \in Seq(S) /\ Insertion(InsertAt(s, i, x), s, i, x)
<1> DEFINE a == SubSeq(s, 1, i - 1)
           b == SubSeq(s, i, Len(s))
           c == a \o <<x>>
           d == c \o b
<1>0. Len(s) \in Nat /\ i \in Nat /\ <<x>> \in Seq(S) /\ Len(<<x>>) = 1 /\ <<x>>[1] = x
  OBVIOUS
<1>1. a \in Seq(S) /\ Len(a) = i - 1 /\ \A k \in 1..i - 1 : a[k] = s[k]
  OBVIOUS
<1>2. b \in Seq(S) /\ Len(b) = Len(s) - i + 1 /\ \A k \in 1..Len(s) - i + 1 : b[k] = s[i + k - 1]
  OBVIOUS
<1>3. InsertAt(s, i, x) = d
  BY DEF InsertAt
<1> HIDE DEF a, b
<1>4. c \in Seq(S) /\ Len(c) = i /\ c[i] = x /\ \A k \in 1..i - 1 : c[k] = s[k]
  <2>1. c \in Seq(S) /\ Len(c) = Len(a) + 1 /\ (\A k \in 1..Len(a) : c[k] = a[k]) /\ c[Len(a) + 1] = x
    BY <1>0, <1>1, Joined
  <2> HIDE DEF c
  <2> QED
    BY <2>1, <1>0, <1>1
<1> HIDE DEF c
<1>5. d \in Seq(S) /\ Len(d) = Len(c) + Len(b)
      /\ (\A k \in 1..Len(c) : d[k] = c[k]) /\ (\A k \in 1..Len(b) : d[Len(c) + k] = b[k])
  BY <1>2, <1>4, Joined
<1> HIDE DEF d
<1>6. \A k \in 1..Len(s) + 1 : d[k] = IF k < i THEN s[k] ELSE IF k = i THEN x ELSE s[k - 1]
  <2> SUFFICES ASSUME NEW k \in 1..Len(s) + 1
               PROVE  d[k] = IF k < i THEN s[k] ELSE IF k = i THEN x ELSE s[k - 1]
    OBVIOUS
  <2>1. CASE k <= i
    BY <2>1, <1>0, <1>4, <1>5
  <2>2. CASE k > i
    <3>1. k - i \in 1..Len(s) - i + 1 /\ i + (k - i) - 1 = k - 1 /\ i + (k - i) = k
      BY <2>2, <1>0
    <3>2. d[i + (k - i)] = b[k - i]
      BY <3>1, <1>5, <1>4, <1>2
    <3>3. b[k - i] = s[i + (k - i) - 1]
      BY <3>1, <1>2
    <3> QED
      BY <3>1, <3>2, <3>3, <2>2, <1>0
  <2> QED
    BY <2>1, <2>2, <1>0
<1>7. Len(d) = Len(s) + 1
  BY <1>0, <1>2, <1>4, <1>5
<1> QED
  BY <1>3, <1>5, <1>6, <1>7 DEF Insertion

(* RemoveAt takes one element out, the others keep their order.             *)
LEMMA RemovedAt ==
  ASSUME NEW S, NEW s \in Seq(S), NEW i \in 1..Len(s)
  PROVE  RemoveAt(s, i) \in Seq(S) /\ Removal(RemoveAt(s, i), s, i)
<1> DEFINE a == SubSeq(s, 1, i - 1)
           b == SubSeq(s, i + 1, Len(s))
           d == a \o b
<1>0. Len(s) \in Nat /\ i \in Nat
  OBVIOUS
<1>1. a \in Seq(S) /\ Len(a) = i - 1 /\ \A k \in 1..i - 1 : a[k] = s[k]
  OBVIOUS
<1>2. b \in Seq(S) /\ Len(b) = Len(s) - i /\ \A k \in 1..Len(s) - i : b[k] = s[i + k]
  OBVIOUS
<1>3. RemoveAt(s, i) = d
  BY DEF RemoveAt
<1> HIDE DEF a, b
<1>5. d \in Seq(S) /\ Len(d) = Len(a) + Len(b)
      /\ (\A k \in 1..Len(a) : d[k] = a[k]) /\ (\A k \in 1..Len(b) : d[Len(a) + k] = b[k])
  <2>1. a \in Seq(S) /\ b \in Seq(S)
    BY <1>1, <1>2
  <2> QED
    BY <2>1, Joined
<1> HIDE DEF d
<1>6. \A k \in 1..Len(s) - 1 : d[k] = IF k < i THEN s[k] ELSE s[k + 1]
  <2> SUFFICES ASSUME NEW k \in 1..Len(s) - 1
               PROVE  d[k] = IF k < i THEN s[k] ELSE s[k + 1]
    OBVIOUS
  <2>1. CASE k < i
    BY <2>1, <1>0, <1>1, <1>5
  <2>2. CASE k >= i
    <3>1. k - i + 1 \in 1..Len(s) - i /\ i + (k - i + 1) = k + 1 /\ i - 1 + (k - i + 1) = k
      BY <2>2, <1>0
    <3>2. d[i - 1 + (k - i + 1)] = b[k - i + 1]
      BY <3>1, <1>5, <1>1, <1>2
    <3>3. b[k - i + 1] = s[i + (k - i + 1)]
      BY <3>1, <1>2
    <3> QED
      BY <3>1, <3>2, <3>3, <2>2, <1>0
  <2> QED
    BY <2>1, <2>2, <1>0
<1>7. Len(d) = Len(s) - 1
  BY <1>0, <1>1, <1>2, <1>5
<1> QED
  BY <1>3, <1>5, <1>6, <1>7 DEF Removal

-----------------------------------------------------------------------------
(* Numbers and short sequences                                              *)

(* The least and the greatest number of a set.                              *)
LEMMA MinIs ==
  ASSUME NEW S \in SUBSET Int, NEW m \in S, \A k \in S : m <= k
  PROVE  Min(S) = m
<1> DEFINE e == CHOOSE x \in S : \A y \in S : x <= y
<1>1. e \in S /\ \A y \in S : e <= y
  OBVIOUS
<1> HIDE DEF e
<1>2. e \in Int /\ m \in Int /\ e <= m /\ m <= e
  BY <1>1
<1>3. e = m
  BY <1>2
<1> QED
  BY <1>3 DEF Min, e

LEMMA MaxIs ==
  ASSUME NEW S \in SUBSET Int, NEW m \in S, \A k \in S : m >= k
  PROVE  Max(S) = m
<1> DEFINE e == CHOOSE x \in S : \A y \in S : x >= y
<1>1. e \in S /\ \A y \in S : e >= y
  OBVIOUS
<1> HIDE DEF e
<1>2. e \in Int /\ m \in Int /\ e >= m /\ m >= e
  BY <1>1
<1>3. e = m
  BY <1>2
<1> QED
  BY <1>3 DEF Max, e

LEMMA MinOf ==
  ASSUME NEW S \in SUBSET Nat, S # {}
  PROVE  Min(S) \in S /\ \A k \in S : Min(S) <= k
<1>1. PICK m \in S : \A k \in S : m <= k
  BY Least
<1>2. Min(S) = m
  BY <1>1, MinIs
<1> QED
  BY <1>1, <1>2

(* A set of the numbers up to n that has, with any, all smaller ones.       *)
LEMMA FirstOnes ==
  ASSUME NEW n \in Nat, NEW T \in SUBSET (1..n), \A i, j \in 1..n : i < j /\ j \in T => i \in T
  PROVE  \E u \in 0..n : T = 1..u /\ Cardinality(T) = u
<1> DEFINE F == (1..n) \ T
<1>1. \E u \in 0..n : T = 1..u
  <2>1. CASE F = {}
    <3>1. \A i : i \in T <=> i \in 1..n
      BY <2>1
    <3>2. T = 1..n
      BY <3>1
    <3>3. n \in 0..n
      OBVIOUS
    <3> QED
      BY <3>2, <3>3
  <2>2. CASE F # {}
    <3>1. PICK m \in F : \A k \in F : m <= k
      <4>1. F \in SUBSET Nat
        OBVIOUS
      <4> QED
        BY <4>1, <2>2, Least
    <3>2. m \in 1..n /\ m - 1 \in 0..n
      BY <3>1
    <3>3. \A i \in 1..n : i \in T <=> i <= m - 1
      BY <3>1, <3>2
    <3>4. \A i \in 1..m - 1 : i \in 1..n
      BY <3>2
    <3>5. T = 1..m - 1
      <4>1. \A i : i \in T => i \in 1..n /\ i <= m - 1
        BY <3>3
      <4>2. \A i : i \in T => i \in 1..m - 1
        BY <4>1, <3>2
      <4>3. \A i : i \in 1..m - 1 => i \in 1..n /\ i <= m - 1
        BY <3>2, <3>4
      <4>4. \A i : i \in 1..m - 1 => i \in T
        BY <4>3, <3>3
      <4> QED
        BY <4>2, <4>4
    <3> QED
      BY <3>2, <3>5
  <2> QED
    BY <2>1, <2>2
<1>2. PICK u \in 0..n : T = 1..u
  BY <1>1
<1>3. Cardinality(1..u) = u
  BY FS_Interval
<1> QED
  BY <1>2, <1>3

(* Sequences of one, two and three elements.                                *)
LEMMA Pair ==
  ASSUME NEW x, NEW y
  PROVE  /\ <<x>> \o <<y>> = <<x, y>>
         /\ Last(<<x, y>>) = y /\ Front(<<x, y>>) = <<x>> /\ Len(<<x, y>>) = 2
         /\ Last(<<x>>) = x /\ Front(<<x>>) = << >> /\ Len(<<x>>) = 1
         /\ Append(<<x>>, y) = <<x, y>> /\ Append(<< >>, y) = <<y>>
         /\ SubSeq(<<x>>, 1, 0) = << >> /\ << >> \o <<x>> = <<x>>
<1>5. Append(<<x>>, y) = <<x, y>> /\ Append(<< >>, y) = <<y>>
  <2> DEFINE S == {x, y}
  <2>1. << >> \in Seq(S) /\ <<x>> \in Seq(S) /\ <<y>> \in Seq(S) /\ <<x, y>> \in Seq(S) /\ y \in S
    OBVIOUS
  <2>2. Len(<< >>) = 0 /\ Len(<<x>>) = 1 /\ Len(<<y>>) = 1 /\ Len(<<x, y>>) = 2
        /\ <<x>>[1] = x /\ <<y>>[1] = y /\ <<x, y>>[1] = x /\ <<x, y>>[2] = y
    OBVIOUS
  <2> DEFINE a == Append(<<x>>, y)
             b == Append(<< >>, y)
  <2>3. a \in Seq(S) /\ Len(a) = 2 /\ a[1] = x /\ a[2] = y
    BY <2>1, <2>2, AppendProperties
  <2>4. b \in Seq(S) /\ Len(b) = 1 /\ b[1] = y
    BY <2>1, <2>2, AppendProperties
  <2> HIDE DEF a, b, S
  <2>5. a = <<x, y>>
    <3>1. \A i \in 1..2 : a[i] = <<x, y>>[i]
      BY <2>2, <2>3
    <3> QED
      BY <3>1, <2>1, <2>2, <2>3, SeqEqual
  <2>6. b = <<y>>
    <3>1. \A i \in 1..1 : b[i] = <<y>>[i]
      BY <2>2, <2>4
    <3> QED
      BY <3>1, <2>1, <2>2, <2>4, SeqEqual
  <2> QED
    BY <2>5, <2>6 DEF a, b
<1>1. <<x>> \o <<y>> = <<x, y>> /\ << >> \o <<x>> = <<x>>
  <2>1. << >> \in Seq({x, y}) /\ <<x>> \in Seq({x, y}) /\ <<y>> \in Seq({x, y}) /\ <<x, y>> \in Seq({x, y})
    OBVIOUS
  <2>2. << >> \o <<x>> = <<x>>
    BY <2>1, ConcatEmptySeq
  <2>3. Append(<<x>>, y) = <<x>> \o <<y>>
    BY <2>1, AppendIsConcat
  <2>4. Append(<<x>>, y) = <<x, y>>
    BY <1>5
  <2> QED
    BY <2>2, <2>3, <2>4
<1>2. Last(<<x, y>>) = y /\ Len(<<x, y>>) = 2 /\ Last(<<x>>) = x /\ Len(<<x>>) = 1
  BY DEF Last
<1>3. Front(<<x, y>>) = <<x>>
  <2>1. Front(<<x, y>>) = SubSeq(<<x, y>>, 1, 1)
    BY DEF Front
  <2> QED
    BY <2>1
<1>4. Front(<<x>>) = << >> /\ SubSeq(<<x>>, 1, 0) = << >>
  <2>1. Front(<<x>>) = SubSeq(<<x>>, 1, 0)
    BY DEF Front
  <2>2. SubSeq(<<x>>, 1, 0) = << >>
    BY SubSeqEmpty
  <2> QED
    BY <2>1, <2>2
<1> QED
  BY <1>1, <1>2, <1>3, <1>4, <1>5

LEMMA Triple ==
  ASSUME NEW x, NEW y, NEW z
  PROVE  /\ <<x>> \o <<y, z>> = <<x, y, z>> /\ <<x, y>> \o <<z>> = <<x, y, z>>
         /\ Last(<<x, y, z>>) = z /\ Front(<<x, y, z>>) = <<x, y>> /\ Len(<<x, y, z>>) = 3
         /\ Append(<<x, y>>, z) = <<x, y, z>>
         /\ SubSeq(<<x, y>>, 1, 0) = << >> /\ SubSeq(<<x, y>>, 1, 1) = <<x>>
<1>1. Last(<<x, y, z>>) = z /\ Len(<<x, y, z>>) = 3
  BY DEF Last
<1>2. SubSeq(<<x, y>>, 1, 0) = << >>
  BY SubSeqEmpty
<1>3. SubSeq(<<x, y>>, 1, 1) = <<x>>
  <2>1. Front(<<x, y>>) = <<x>>
    BY Pair
  <2>2. Front(<<x, y>>) = SubSeq(<<x, y>>, 1, 1)
    BY DEF Front
  <2> QED
    BY <2>1, <2>2
<1>4. Front(<<x, y, z>>) = <<x, y>>
  <2>1. Front(<<x, y, z>>) = SubSeq(<<x, y, z>>, 1, 2)
    BY DEF Front
  <2> QED
    BY <2>1
<1> DEFINE S == {x, y, z}
           w == <<x, y, z>>
           a == Append(<<x, y>>, z)
           b == <<x>> \o <<y, z>>
<1>5. /\ <<x, y>> \in Seq(S) /\ <<x>> \in Seq(S) /\ <<y, z>> \in Seq(S) /\ <<z>> \in Seq(S) /\ z \in S
      /\ w \in Seq(S) /\ Len(w) = 3 /\ w[1] = x /\ w[2] = y /\ w[3] = z
  OBVIOUS
<1>6. a \in Seq(S) /\ Len(a) = 3 /\ a[1] = x /\ a[2] = y /\ a[3] = z
  OBVIOUS
<1>7. b \in Seq(S) /\ Len(b) = 3 /\ b[1] = x /\ b[2] = y /\ b[3] = z
  OBVIOUS
<1>8. <<x, y>> \o <<z>> = a
  BY <1>5, AppendIsConcat
<1> HIDE DEF a, b, w, S
<1>9. \A i \in 1..3 : a[i] = w[i] /\ b[i] = w[i]
  BY <1>5, <1>6, <1>7
<1>10. a = w
  BY <1>5, <1>6, <1>9, SeqEqual
<1>11. b = w
  BY <1>5, <1>7, <1>9, SeqEqual
<1> QED
  BY <1>1, <1>2, <1>3, <1>4, <1>8, <1>10, <1>11 DEF a, b, w
=============================================================================
