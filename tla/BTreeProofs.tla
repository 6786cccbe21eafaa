---------------------------- MODULE BTreeProofs ----------------------------
(* Proofs about module BTree.                                               *)
EXTENDS BTree, Loops, FunctionTheorems, SequenceTheorems, FiniteSetTheorems

-----------------------------------------------------------------------------
(* A sound tree                                                             *)

Increasing(s) == \A i, j \in DOMAIN s : i < j => s[i] < s[j]

(* What is in a sound tree: the keys L[i] of each leaf, from left to right, *)
(* the page K[i] that they are on, and the keys D that divide the leaves.   *)
Listed(K, D, L) ==
  /\ L \in Seq(Seq(Keys)) /\ Len(L) \in Nat \ {0}
  /\ K \in Seq(Nat \ {0}) /\ Len(K) = Len(L)
  /\ D \in Seq(Keys) /\ Len(D) = Len(L) - 1
  /\ \A i, j \in 1..Len(L) : i # j => K[i] # K[j]

(* There is more than one leaf.                                             *)
Many(L) == Len(L) > 1

RootCells(K, D) == [i \in 1..Len(D) |-> [child |-> K[i], key |-> D[i]]]

IsTree(t) ==
  /\ t = [root |-> t.root, pages |-> t.pages] /\ t.root \in Nat \ {0}
  /\ t.pages = [q \in DOMAIN t.pages |-> t.pages[q]]

(* These are a tree's leaves and dividers.  No sound tree has more than one *)
(* level of interior pages: the first split of an interior page damages it. *)
InTree(t, K, D, L) ==
  /\ Listed(K, D, L) /\ IsTree(t)
  /\ DOMAIN t.pages = {t.root} \union {K[i] : i \in 1..Len(L)}
  /\ \A i \in 1..Len(L) : t.pages[K[i]] = Leaf(L[i])
  /\ ~Many(L) => t.root = K[1]
  /\ Many(L) => /\ \A i \in 1..Len(L) : K[i] # t.root
                /\ t.pages[t.root] = Interior(RootCells(K, D), K[Len(L)])

(* The keys are in order, in each leaf and from leaf to leaf, and only the  *)
(* one leaf of a tree without an interior page may be empty.                *)
Ordered(D, L) ==
  /\ \A i \in 1..Len(L) : Increasing(L[i])
  /\ Increasing(D)
  /\ \A i \in 1..Len(L), m \in Nat : m \in 1..Len(L[i]) =>
       /\ i < Len(L) => L[i][m] < D[i]
       /\ i > 1 => D[i - 1] <= L[i][m]
  /\ Many(L) => \A i \in 1..Len(L) : Len(L[i]) > 0

Fits(D, L) ==
  /\ \A i \in 1..Len(L) : Len(L[i]) < LeafCapacity
  /\ Len(D) <= InteriorCapacity

(* The keys in the leaves are those of the set R.                           *)
Holds(L, R) == \A k : k \in R <=> \E i \in 1..Len(L) : \E m \in 1..Len(L[i]) : L[i][m] = k

(* The m-th key of the i-th leaf, as a cursor's stack, and a cursor on a key.*)
Place(t, K, i, m) == IF Many(K) THEN <<At(t.root, i), At(K[i], m)>> ELSE <<At(K[i], m)>>

OnKey(t, K, L, c) == \E i \in 1..Len(L) : \E m \in 1..Len(L[i]) : c = On(Place(t, K, i, m))

-----------------------------------------------------------------------------
(* Numbers and sequences                                                    *)

LEMMA Bounds ==
  /\ LastKey \in Nat
  /\ LeafCapacity \in Nat /\ LeafCapacity > 1
  /\ InteriorCapacity \in Nat /\ InteriorCapacity > 0
  /\ Keys = 1..LastKey /\ Keys \subseteq Nat \ {0}
BY CapacityAssumption DEF Keys

LEMMA CountBelow ==
  ASSUME NEW s \in Seq(Keys), NEW k \in Int, Increasing(s)
  PROVE  /\ \E u \in 0..Len(s) : /\ Cardinality({i \in DOMAIN s : s[i] < k}) = u
                                 /\ \A i \in 1..Len(s) : s[i] < k <=> i <= u
         /\ \E u \in 0..Len(s) : /\ Cardinality({i \in DOMAIN s : s[i] <= k}) = u
                                 /\ \A i \in 1..Len(s) : s[i] <= k <=> i <= u
<1>1. Len(s) \in Nat /\ DOMAIN s = 1..Len(s) /\ \A i \in 1..Len(s) : s[i] \in Int
  <2>1. \A i \in 1..Len(s) : s[i] \in Keys
    OBVIOUS
  <2>3. Keys \subseteq Int
    BY Bounds
  <2>2. Len(s) \in Nat /\ DOMAIN s = 1..Len(s)
    OBVIOUS
  <2> QED
    BY <2>1, <2>2, <2>3
<1>2. \A i, j \in 1..Len(s) : i < j => s[i] < s[j]
  BY <1>1 DEF Increasing
<1> DEFINE A == {i \in DOMAIN s : s[i] < k}
           B == {i \in DOMAIN s : s[i] <= k}
<1>3. A \in SUBSET (1..Len(s)) /\ B \in SUBSET (1..Len(s))
  BY <1>1
<1>4. \A i, j \in 1..Len(s) : i < j /\ j \in A => i \in A
  BY <1>1, <1>2
<1>5. \A i, j \in 1..Len(s) : i < j /\ j \in B => i \in B
  BY <1>1, <1>2
<1>6. \A i \in 1..Len(s) : (i \in A <=> s[i] < k) /\ (i \in B <=> s[i] <= k)
  BY <1>1
<1> HIDE DEF A, B
<1>7. PICK u \in 0..Len(s) : A = 1..u /\ Cardinality(A) = u
  BY <1>1, <1>3, <1>4, FirstOnes
<1>8. PICK v \in 0..Len(s) : B = 1..v /\ Cardinality(B) = v
  BY <1>1, <1>3, <1>5, FirstOnes
<1>9. \A i \in 1..Len(s) : (s[i] < k <=> i <= u) /\ (s[i] <= k <=> i <= v)
  BY <1>6, <1>7, <1>8
<1> QED
  BY <1>7, <1>8, <1>9 DEF A, B

-----------------------------------------------------------------------------
(* Reading a sound tree                                                     *)

(* The page p is a leaf with the keys s.                                    *)
HasKeys(t, p, s) ==
  /\ IsLeaf(t, p) /\ Count(t, p) = Len(s) /\ KeysOf(t, p) = s
  /\ DOMAIN Cells(t, p) = 1..Len(s) /\ Len(Cells(t, p)) = Len(s)
  /\ \A m \in 1..Len(s) : Cells(t, p)[m] = [child |-> 0, key |-> s[m]]
  /\ \A m \in 1..Len(s) : Cells(t, p)[m].key = s[m]

LEMMA LeafReads ==
  ASSUME NEW t, NEW p, NEW s \in Seq(Keys), t.pages[p] = Leaf(s)
  PROVE  HasKeys(t, p, s)
<1> DEFINE c == [i \in 1..Len(s) |-> [child |-> 0, key |-> s[i]]]
<1>1. Len(s) \in Nat /\ DOMAIN s = 1..Len(s)
  OBVIOUS
<1>2. Cells(t, p) = c /\ IsLeaf(t, p)
  BY <1>1 DEF Cells, IsLeaf, Leaf
<1>3. \A m \in 1..Len(s) : c[m] = [child |-> 0, key |-> s[m]] /\ c[m].key = s[m]
  OBVIOUS
<1>4. DOMAIN c = 1..Len(s) /\ Len(c) = Len(s)
  BY <1>1
<1>5. [i \in DOMAIN c |-> c[i].key] = s
  BY <1>1, <1>3, <1>4
<1> HIDE DEF c
<1> QED
  BY <1>2, <1>3, <1>4, <1>5 DEF Count, KeysOf, HasKeys

(* What the lists are made of.                                              *)
LEMMA ListReads ==
  ASSUME NEW K, NEW D, NEW L, Listed(K, D, L)
  PROVE  /\ Len(L) \in Nat /\ Len(L) > 0 /\ Len(K) = Len(L) /\ Len(D) = Len(L) - 1
         /\ DOMAIN D = 1..Len(L) - 1 /\ DOMAIN K = 1..Len(L) /\ DOMAIN L = 1..Len(L)
         /\ \A i \in 1..Len(L) : /\ L[i] \in Seq(Keys) /\ Len(L[i]) \in Nat /\ DOMAIN L[i] = 1..Len(L[i])
                                 /\ K[i] \in Nat \ {0}
         /\ \A i \in 1..Len(L) : \A m \in 1..Len(L[i]) : L[i][m] \in Keys
         /\ \A i \in 1..Len(L) - 1 : D[i] \in Keys
         /\ Many(K) <=> Many(L)
<1>1. L \in Seq(Seq(Keys)) /\ K \in Seq(Nat \ {0}) /\ D \in Seq(Keys)
  BY DEF Listed
<1>2. Len(L) \in Nat /\ Len(L) > 0 /\ Len(K) = Len(L) /\ Len(D) = Len(L) - 1
  BY DEF Listed
<1>3. DOMAIN D = 1..Len(L) - 1 /\ DOMAIN K = 1..Len(L) /\ DOMAIN L = 1..Len(L)
  BY <1>1, <1>2
<1>4. \A i \in 1..Len(L) : L[i] \in Seq(Keys)
  BY <1>1, <1>3
<1>5. \A i \in 1..Len(L) : K[i] \in Nat \ {0}
  BY <1>1, <1>3
<1>6. \A i \in 1..Len(L) - 1 : D[i] \in Keys
  BY <1>1, <1>3
<1>7. \A s \in Seq(Keys) : Len(s) \in Nat /\ DOMAIN s = 1..Len(s) /\ \A m \in 1..Len(s) : s[m] \in Keys
  OBVIOUS
<1>8. \A i \in 1..Len(L) : /\ Len(L[i]) \in Nat /\ DOMAIN L[i] = 1..Len(L[i])
                            /\ \A m \in 1..Len(L[i]) : L[i][m] \in Keys
  BY <1>4, <1>7
<1>9. Many(K) <=> Many(L)
  BY <1>2 DEF Many
<1> QED
  BY <1>2, <1>3, <1>4, <1>5, <1>6, <1>8, <1>9

LEMMA LeafCount ==
  ASSUME NEW t, NEW K, NEW D, NEW L, InTree(t, K, D, L)
  PROVE  Len(L) \in Nat /\ Len(L) > 0 /\ (~Many(L) => Len(L) <= 1) /\ (Many(L) => Len(L) > 1)
<1>1. Len(L) \in Nat /\ Len(L) > 0
  BY ListReads DEF InTree
<1> QED
  BY <1>1 DEF Many

LEMMA Reads ==
  ASSUME NEW t, NEW K, NEW D, NEW L, InTree(t, K, D, L), NEW i \in 1..Len(L)
  PROVE  K[i] \in DOMAIN t.pages /\ K[i] \in Nat \ {0} /\ L[i] \in Seq(Keys) /\ HasKeys(t, K[i], L[i])
<1>1. Listed(K, D, L) /\ K[i] \in DOMAIN t.pages /\ t.pages[K[i]] = Leaf(L[i])
  BY DEF InTree
<1>2. L[i] \in Seq(Keys) /\ K[i] \in Nat \ {0}
  BY <1>1, ListReads
<1> QED
  BY <1>1, <1>2, LeafReads

(* The root is an interior page.                                            *)
HasLeaves(t, K, D, L) ==
  /\ t.root \in DOMAIN t.pages /\ t.root # 0 /\ ~IsLeaf(t, t.root)
  /\ Count(t, t.root) = Len(L) - 1 /\ Cells(t, t.root) = RootCells(K, D)
  /\ t.pages[t.root].right = K[Len(L)]
  /\ DOMAIN Cells(t, t.root) = 1..Len(L) - 1 /\ KeysOf(t, t.root) = D
  /\ \A i \in 1..Len(L) - 1 : Cells(t, t.root)[i] = [child |-> K[i], key |-> D[i]]
  /\ \A i \in 1..Len(L) - 1 : Cells(t, t.root)[i].key = D[i] /\ Cells(t, t.root)[i].child = K[i]
  /\ \A i \in 1..Len(L) : Child(t, t.root, i) = K[i]

LEMMA RootReads ==
  ASSUME NEW t, NEW K, NEW D, NEW L, InTree(t, K, D, L), Many(L)
  PROVE  HasLeaves(t, K, D, L)
<1>0. Listed(K, D, L) /\ t.pages[t.root] = Interior(RootCells(K, D), K[Len(L)])
      /\ t.root \in DOMAIN t.pages /\ t.root # 0
  <2>1. Listed(K, D, L) /\ t.pages[t.root] = Interior(RootCells(K, D), K[Len(L)]) /\ IsTree(t)
    BY DEF InTree
  <2>2. t.root \in DOMAIN t.pages
    BY DEF InTree
  <2>3. t.root # 0
    BY <2>1 DEF IsTree
  <2> QED
    BY <2>1, <2>2, <2>3
<1>1. Len(L) \in Nat /\ Len(D) = Len(L) - 1 /\ DOMAIN D = 1..Len(L) - 1 /\ D \in Seq(Keys)
  BY <1>0 DEF Listed
<1> DEFINE c == RootCells(K, D)
<1>2. c = [i \in 1..Len(L) - 1 |-> [child |-> K[i], key |-> D[i]]]
  BY <1>1 DEF RootCells
<1>3. DOMAIN c = 1..Len(L) - 1 /\ Len(c) = Len(L) - 1
  BY <1>1, <1>2
<1>4. \A i \in 1..Len(L) - 1 : c[i] = [child |-> K[i], key |-> D[i]] /\ c[i].key = D[i] /\ c[i].child = K[i]
  BY <1>2
<1> HIDE DEF c
<1>5. Cells(t, t.root) = c /\ ~IsLeaf(t, t.root) /\ t.pages[t.root].right = K[Len(L)]
  BY <1>0 DEF Cells, IsLeaf, Interior, c
<1>6. [i \in DOMAIN c |-> c[i].key] = D
  BY <1>1, <1>3, <1>4
<1>7. \A i \in 1..Len(L) : Child(t, t.root, i) = K[i]
  <2> SUFFICES ASSUME NEW i \in 1..Len(L) PROVE Child(t, t.root, i) = K[i]
    OBVIOUS
  <2>1. CASE i = Len(L)
    BY <2>1, <1>1, <1>3, <1>5 DEF Child, Count
  <2>2. CASE i # Len(L)
    <3>1. i \in 1..Len(L) - 1
      BY <2>2, <1>1
    <3> QED
      BY <3>1, <1>3, <1>4, <1>5 DEF Child, Count
  <2> QED
    BY <2>1, <2>2
<1> QED
  BY <1>0, <1>3, <1>4, <1>5, <1>6, <1>7 DEF Count, KeysOf, c, HasLeaves

(* The way down a sound tree, if each page is left for one of its children. *)
LEMMA Walked ==
  ASSUME NEW t, NEW K, NEW D, NEW L, InTree(t, K, D, L), NEW turn,
         Many(L) => turn[t.root] \in 1..Len(L)
  PROVE  /\ \A i \in 1..Len(L) : Walk(t, K[i], turn) = <<At(K[i], turn[K[i]])>>
         /\ \A i \in 1..Len(L) : Many(L) /\ turn[t.root] = i =>
              Walk(t, t.root, turn) = <<At(t.root, i), At(K[i], turn[K[i]])>>
         /\ Walk(t, 0, turn) = <<At(0, 0)>>
<1> DEFINE W == DOMAIN t.pages \union {0}
           step(f) == [q \in W |-> IF q = 0 THEN <<At(0, 0)>>
                                   ELSE IF IsLeaf(t, q) THEN <<At(q, turn[q])>>
                                   ELSE <<At(q, turn[q])>> \o f[Child(t, q, turn[q])]]
           path == CHOOSE f : f = step(f)
           one == [q \in W |-> IF q = 0 THEN <<At(0, 0)>> ELSE <<At(q, turn[q])>>]
           all == step(one)
<1>1. \A p : Walk(t, p, turn) = path[p]
  BY DEF Walk
<1>2. DOMAIN t.pages = {t.root} \union {K[i] : i \in 1..Len(L)}
      /\ Len(L) \in Nat /\ Len(L) > 0 /\ (~Many(L) => t.root = K[1])
  BY ListReads DEF InTree
<1>3. \A i \in 1..Len(L) : IsLeaf(t, K[i]) /\ K[i] \in W /\ K[i] # 0
  BY Reads DEF HasKeys
<1>4. \A q \in W : q # 0 /\ ~IsLeaf(t, q) =>
        q = t.root /\ Many(L) /\ Child(t, q, turn[q]) = K[turn[q]] /\ turn[q] \in 1..Len(L)
  <2> SUFFICES ASSUME NEW q \in W, q # 0, ~IsLeaf(t, q)
               PROVE  q = t.root /\ Many(L) /\ Child(t, q, turn[q]) = K[turn[q]] /\ turn[q] \in 1..Len(L)
    OBVIOUS
  <2>1. q = t.root
    BY <1>2, <1>3
  <2>2. Many(L)
    <3>1. 1 \in 1..Len(L)
      BY <1>2
    <3>2. IsLeaf(t, K[1])
      BY <3>1, <1>3
    <3> QED
      BY <3>2, <1>2, <2>1
  <2> QED
    BY <2>1, <2>2, RootReads DEF HasLeaves
<1>5. \A q \in W : all[q] = IF q = 0 THEN <<At(0, 0)>>
                            ELSE IF IsLeaf(t, q) THEN <<At(q, turn[q])>>
                            ELSE <<At(q, turn[q])>> \o one[Child(t, q, turn[q])]
  OBVIOUS
<1>6. \A q \in W : q = 0 \/ IsLeaf(t, q) => all[q] = one[q]
  OBVIOUS
<1>7. step(all) = all
  <2>1. \A q \in W : q # 0 /\ ~IsLeaf(t, q) => all[Child(t, q, turn[q])] = one[Child(t, q, turn[q])]
    <3>1. \A q \in W : q # 0 /\ ~IsLeaf(t, q) =>
            Child(t, q, turn[q]) \in W /\ IsLeaf(t, Child(t, q, turn[q]))
      BY <1>3, <1>4
    <3> HIDE DEF one, all, W
    <3> QED
      BY <3>1, <1>6
  <2> HIDE DEF one
  <2>2. \A q \in W : step(all)[q] = all[q]
    BY <1>5, <2>1
  <2> QED
    BY <2>2
<1>8. path = step(path)
  <2> HIDE DEF step, all
  <2> QED
    BY <1>7
<1> HIDE DEF path
<1>9. path[0] = <<At(0, 0)>> /\ \A i \in 1..Len(L) : path[K[i]] = <<At(K[i], turn[K[i]])>>
  BY <1>3, <1>8
<1>10. ASSUME NEW i \in 1..Len(L), Many(L), turn[t.root] = i
       PROVE  path[t.root] = <<At(t.root, i), At(K[i], turn[K[i]])>>
  <2>1. t.root \in W /\ t.root # 0 /\ ~IsLeaf(t, t.root) /\ Child(t, t.root, i) = K[i]
    BY <1>10, RootReads DEF HasLeaves
  <2>2. path[t.root] = <<At(t.root, turn[t.root])>> \o path[Child(t, t.root, turn[t.root])]
    BY <1>8, <2>1
  <2>3. path[t.root] = <<At(t.root, i)>> \o <<At(K[i], turn[K[i]])>>
    <3>1. path[K[i]] = <<At(K[i], turn[K[i]])>> /\ turn[t.root] = i /\ Child(t, t.root, i) = K[i]
      BY <1>9, <1>10, <2>1
    <3> QED
      BY <2>2, <3>1
  <2> QED
    BY <2>3, Pair
<1> QED
  BY <1>1, <1>9, <1>10

-----------------------------------------------------------------------------
(* The cursor in a sound tree                                               *)

(* What is left of a key is smaller.                                        *)
LEMMA KeyOrder ==
  ASSUME NEW K, NEW D, NEW L, NEW i, NEW j, NEW m, NEW n, Listed(K, D, L), Ordered(D, L),
         i \in 1..Len(L), j \in 1..Len(L), m \in 1..Len(L[i]), n \in 1..Len(L[j])
  PROVE  /\ L[i][m] \in Int /\ L[j][n] \in Int
         /\ i < j => L[i][m] < L[j][n]
         /\ i = j /\ m < n => L[i][m] < L[j][n]
<1> DEFINE N == Len(L)
<1>0. /\ N \in Nat /\ i \in 1..N /\ j \in 1..N /\ DOMAIN D = 1..N - 1
      /\ DOMAIN L[i] = 1..Len(L[i]) /\ m \in Nat /\ n \in Nat
  BY ListReads
<1>1. L[i][m] \in Int /\ L[j][n] \in Int
  <2>1. L[i][m] \in Keys /\ L[j][n] \in Keys
    BY ListReads
  <2> QED
    BY <2>1, Bounds
<1>2. \A x \in 1..N - 1 : D[x] \in Int
  <2>1. \A x \in 1..N - 1 : D[x] \in Keys
    BY ListReads
  <2> QED
    BY <2>1, Bounds
<1> HIDE DEF N
<1>3. ASSUME i < j PROVE L[i][m] < L[j][n]
  <2>1. i \in 1..N - 1 /\ j - 1 \in 1..N - 1 /\ i <= j - 1 /\ j > 1 /\ i < N
    BY <1>0, <1>3
  <2>2. L[i][m] < D[i]
    BY <2>1, <1>0 DEF Ordered, N
  <2>3. D[j - 1] <= L[j][n]
    BY <2>1, <1>0 DEF Ordered, N
  <2>4. D[i] <= D[j - 1]
    <3>1. CASE i = j - 1
      BY <3>1, <1>2, <2>1
    <3>2. CASE i < j - 1
      <4>1. D[i] < D[j - 1]
        BY <3>2, <2>1, <1>0 DEF Ordered, Increasing
      <4> QED
        BY <4>1, <1>2, <2>1
    <3> QED
      BY <3>1, <3>2, <2>1, <1>0
  <2> QED
    BY <1>1, <1>2, <2>1, <2>2, <2>3, <2>4
<1>4. ASSUME i = j, m < n PROVE L[i][m] < L[j][n]
  BY <1>0, <1>4 DEF Ordered, Increasing
<1> QED
  BY <1>1, <1>3, <1>4

(* The stack of a cursor on a key.                                          *)
LEMMA PlaceReads ==
  ASSUME NEW t, NEW K, NEW D, NEW L, NEW i, NEW m, Listed(K, D, L)
  PROVE  /\ Place(t, K, i, m) # << >> /\ Last(Place(t, K, i, m)) = At(K[i], m)
         /\ ~Many(L) => Place(t, K, i, m) = <<At(K[i], m)>> /\ Front(Place(t, K, i, m)) = << >>
         /\ Many(L) => /\ Place(t, K, i, m) = <<At(t.root, i), At(K[i], m)>>
                       /\ Front(Place(t, K, i, m)) = <<At(t.root, i)>>
<1> DEFINE s == Place(t, K, i, m)
           a == At(t.root, i)
           b == At(K[i], m)
<1>1. Many(K) <=> Many(L)
  BY ListReads
<1>2. CASE ~Many(L)
  <2>1. s = <<b>>
    BY <1>1, <1>2 DEF Place
  <2> HIDE DEF s, b
  <2>2. s # << >> /\ Last(s) = b /\ Front(s) = << >>
    BY <2>1, Pair
  <2> QED
    BY <2>1, <2>2, <1>2 DEF s, b
<1>3. CASE Many(L)
  <2>1. s = <<a, b>>
    BY <1>1, <1>3 DEF Place
  <2> HIDE DEF s, a, b
  <2>2. s # << >> /\ Last(s) = b /\ Front(s) = <<a>>
    BY <2>1, Pair
  <2> QED
    BY <2>1, <2>2, <1>3 DEF s, a, b
<1> QED
  BY <1>2, <1>3

(* A cursor on a key reads that key.                                        *)
LEMMA CursorReads ==
  ASSUME NEW t, NEW K, NEW D, NEW L, NEW i, NEW m,
         InTree(t, K, D, L), i \in 1..Len(L), m \in 1..Len(L[i])
  PROVE  LET c == On(Place(t, K, i, m))
         IN  /\ ~c.eof /\ ~Lost(c) /\ c.stack = Place(t, K, i, m) /\ Last(c.stack) = At(K[i], m)
             /\ KeyAt(t, c) = L[i][m]
<1> DEFINE c == On(Place(t, K, i, m))
<1>1. Listed(K, D, L)
  BY DEF InTree
<1>2. c.eof = FALSE /\ c.stack = Place(t, K, i, m)
  BY DEF On
<1>3. c.stack # << >> /\ Last(c.stack) = At(K[i], m)
  <2>1. Place(t, K, i, m) # << >> /\ Last(Place(t, K, i, m)) = At(K[i], m)
    BY <1>1, PlaceReads
  <2> HIDE DEF c
  <2> QED
    BY <1>2, <2>1
<1> HIDE DEF c
<1>4. At(K[i], m).page = K[i] /\ At(K[i], m).index = m
  BY DEF At
<1>5. K[i] # 0 /\ Cells(t, K[i])[m].key = L[i][m]
  BY Reads DEF HasKeys
<1>6. ~Lost(c)
  BY <1>2, <1>3, <1>4, <1>5 DEF Lost
<1>7. KeyAt(t, c) = L[i][m]
  BY <1>3, <1>4, <1>5 DEF KeyAt
<1> QED
  BY <1>2, <1>3, <1>6, <1>7 DEF c

(* The way down by any choice at each page.                                 *)
LEMMA WalkIs ==
  ASSUME NEW t, NEW K, NEW D, NEW L, InTree(t, K, D, L), NEW turn, NEW i \in 1..Len(L),
         Many(L) => turn[t.root] = i
  PROVE  Walk(t, t.root, turn) = Place(t, K, i, turn[K[i]])
<1>1. Listed(K, D, L) /\ (~Many(L) => t.root = K[1])
  BY DEF InTree
<1>2. Many(L) => turn[t.root] \in 1..Len(L)
  OBVIOUS
<1>3. CASE ~Many(L)
  <2>1. i = 1 /\ t.root = K[i]
    BY <1>1, <1>3, LeafCount
  <2>2. Walk(t, K[i], turn) = <<At(K[i], turn[K[i]])>>
    BY <1>2, Walked
  <2> QED
    BY <2>1, <2>2, <1>1, <1>3, PlaceReads
<1>4. CASE Many(L)
  <2>1. Walk(t, t.root, turn) = <<At(t.root, i), At(K[i], turn[K[i]])>>
    BY <1>2, <1>4, Walked
  <2> QED
    BY <2>1, <1>1, <1>4, PlaceReads
<1> QED
  BY <1>3, <1>4

(* first() comes to the first key of the first leaf.                        *)
LEMMA FirstIs ==
  ASSUME NEW t, NEW K, NEW D, NEW L, InTree(t, K, D, L)
  PROVE  First(t) = IF Len(L[1]) > 0 THEN On(Place(t, K, 1, 1)) ELSE AtEnd
<1> DEFINE turn == [q \in DOMAIN t.pages |-> 1]
           path == Leftmost(t, t.root)
<1>1. Listed(K, D, L) /\ 1 \in 1..Len(L) /\ t.root \in DOMAIN t.pages
  BY LeafCount DEF InTree
<1>2. K[1] \in DOMAIN t.pages /\ HasKeys(t, K[1], L[1])
  BY <1>1, Reads
<1>3. turn[t.root] = 1 /\ turn[K[1]] = 1
  BY <1>1, <1>2
<1>4. path = Walk(t, t.root, turn)
  BY DEF Leftmost
<1> HIDE DEF turn, path
<1>5. path = Place(t, K, 1, 1)
  BY <1>1, <1>3, <1>4, WalkIs
<1>6. Last(path).page = K[1]
  BY <1>1, <1>5, PlaceReads DEF At
<1>7. Count(t, Last(path).page) = Len(L[1])
  BY <1>2, <1>6 DEF HasKeys
<1>8. First(t) = IF Count(t, Last(path).page) = 0 THEN AtEnd ELSE On(path)
  BY DEF First, path
<1>9. Count(t, Last(path).page) \in Nat
  BY <1>1, <1>7, ListReads
<1>10. Count(t, Last(path).page) = 0 <=> ~(Len(L[1]) > 0)
  <2> DEFINE n == Count(t, Last(path).page)
  <2>1. n = 0 <=> ~(n > 0)
    <3> HIDE DEF n
    <3> QED
      BY <1>9 DEF n
  <2> QED
    BY <2>1, <1>7
<1> QED
  BY <1>5, <1>8, <1>10

(* last() comes to the last key of the last leaf but one, where there is    *)
(* more than one leaf.                                                      *)
LastLeaf(L) == IF Many(L) THEN Len(L) - 1 ELSE 1

LEMMA LastIs ==
  ASSUME NEW t, NEW K, NEW D, NEW L, InTree(t, K, D, L)
  PROVE  LET e == LastLeaf(L)
         IN  /\ e \in 1..Len(L)
             /\ LastEntry(t) = IF Len(L[e]) > 0 THEN On(Place(t, K, e, Len(L[e]))) ELSE AtEnd
<1> DEFINE turn == [q \in DOMAIN t.pages |-> IF IsLeaf(t, q) THEN Count(t, q) ELSE Max({1, Count(t, q)})]
           path == Rightmost(t)
           e == LastLeaf(L)
<1>1. Listed(K, D, L) /\ e \in 1..Len(L) /\ t.root \in DOMAIN t.pages
  <2>1. Listed(K, D, L) /\ t.root \in DOMAIN t.pages
    BY DEF InTree
  <2> QED
    BY <2>1, LeafCount DEF LastLeaf
<1>2. K[e] \in DOMAIN t.pages /\ HasKeys(t, K[e], L[e]) /\ Len(L[e]) \in Nat
  BY <1>1, Reads, ListReads
<1>3. turn[K[e]] = Len(L[e])
  BY <1>2 DEF HasKeys
<1>4. Many(L) => turn[t.root] = e
  <2> SUFFICES ASSUME Many(L) PROVE turn[t.root] = e
    OBVIOUS
  <2>1. ~IsLeaf(t, t.root) /\ Count(t, t.root) = Len(L) - 1
    BY RootReads DEF HasLeaves
  <2>2. turn[t.root] = Max({1, Len(L) - 1})
    BY <2>1, <1>1
  <2>3. e = Len(L) - 1
    BY DEF LastLeaf
  <2> HIDE DEF e, turn
  <2>4. Max({1, Len(L) - 1}) = Len(L) - 1
    <3>1. {1, Len(L) - 1} \in SUBSET Int /\ \A k \in {1, Len(L) - 1} : Len(L) - 1 >= k
      BY LeafCount
    <3> QED
      BY <3>1, MaxIs
  <2> QED
    BY <2>2, <2>3, <2>4
<1>5. path = Walk(t, t.root, turn)
  BY DEF Rightmost
<1> HIDE DEF turn, path, e
<1>6. path = Place(t, K, e, turn[K[e]])
  BY <1>1, <1>4, <1>5, WalkIs
<1>7. Last(path) = At(K[e], Len(L[e]))
  BY <1>1, <1>3, <1>6, PlaceReads
<1>8. LastEntry(t) = IF Last(path).index = 0 THEN AtEnd ELSE On(path)
  BY DEF LastEntry, path
<1>9. Last(path).index = 0 <=> ~(Len(L[e]) > 0)
  <2> DEFINE n == Len(L[e])
  <2>1. n = 0 <=> ~(n > 0)
    <3>1. n \in Nat
      BY <1>2
    <3> HIDE DEF n
    <3> QED
      BY <3>1
  <2>2. Last(path).index = n
    BY <1>7 DEF At
  <2> QED
    BY <2>1, <2>2
<1> QED
  BY <1>1, <1>3, <1>6, <1>8, <1>9 DEF e

(* next() goes to the next key of the leaf, or to the first one of the next *)
(* leaf.                                                                    *)
LEMMA AdvanceIs ==
  ASSUME NEW t, NEW K, NEW D, NEW L, NEW i, NEW m,
         InTree(t, K, D, L), i \in 1..Len(L), m \in 1..Len(L[i])
  PROVE  Advance(t, On(Place(t, K, i, m))) =
           IF m < Len(L[i]) THEN On(Place(t, K, i, m + 1))
           ELSE IF i < Len(L) THEN On(Place(t, K, i + 1, 1)) ELSE AtEnd
<1> DEFINE c == On(Place(t, K, i, m))
           rest == Front(c.stack)
           open == {j \in DOMAIN rest : rest[j].index <= Count(t, rest[j].page)}
           back(j) == SubSeq(rest, 1, j - 1) \o <<At(rest[j].page, rest[j].index + 1)>>
                        \o Leftmost(t, Child(t, rest[j].page, rest[j].index + 1))
<1>0. Listed(K, D, L) /\ Len(L) \in Nat /\ i \in Nat
  BY ListReads DEF InTree
<1>1. ~c.eof /\ ~Lost(c) /\ c.stack = Place(t, K, i, m) /\ Last(c.stack) = At(K[i], m)
  BY CursorReads
<1>2. Count(t, K[i]) = Len(L[i])
  BY Reads DEF HasKeys
<1>3. At(K[i], m).page = K[i] /\ At(K[i], m).index = m
  BY DEF At
<1>4. Advance(t, c) = IF m < Len(L[i]) THEN On(Append(rest, At(K[i], m + 1)))
                      ELSE IF open = {} THEN AtEnd ELSE On(back(Max(open)))
  <2> HIDE DEF c
  <2> QED
    BY <1>1, <1>2, <1>3 DEF Advance
<1>5. CASE ~Many(L)
  <2>1. rest = << >>
    <3>1. Front(Place(t, K, i, m)) = << >>
      BY <1>0, <1>5, PlaceReads
    <3> HIDE DEF c
    <3> QED
      BY <1>1, <3>1
  <2>2. open = {}
    BY <2>1
  <2>3. Append(rest, At(K[i], m + 1)) = Place(t, K, i, m + 1)
    <3>1. Place(t, K, i, m + 1) = <<At(K[i], m + 1)>>
      BY <1>0, <1>5, PlaceReads
    <3> HIDE DEF rest
    <3> QED
      BY <3>1, <2>1, Pair
  <2>4. ~(i < Len(L))
    BY <1>0, <1>5, LeafCount
  <2> HIDE DEF c, rest, open
  <2> QED
    BY <1>4, <2>2, <2>3, <2>4 DEF c
<1>6. CASE Many(L)
  <2>1. rest = <<At(t.root, i)>>
    <3>1. Front(Place(t, K, i, m)) = <<At(t.root, i)>>
      BY <1>0, <1>6, PlaceReads
    <3> HIDE DEF c
    <3> QED
      BY <1>1, <3>1
  <2>2. rest[1].page = t.root /\ rest[1].index = i /\ DOMAIN rest = {1}
    BY <2>1 DEF At
  <2>3. Count(t, t.root) = Len(L) - 1
    BY <1>6, RootReads DEF HasLeaves
  <2>4. Append(rest, At(K[i], m + 1)) = Place(t, K, i, m + 1)
    <3>1. Place(t, K, i, m + 1) = <<At(t.root, i), At(K[i], m + 1)>>
      BY <1>0, <1>6, PlaceReads
    <3> HIDE DEF rest
    <3> QED
      BY <3>1, <2>1, Pair
  <2>5. CASE i < Len(L)
    <3>1. i <= Len(L) - 1 /\ i + 1 \in 1..Len(L)
      BY <1>0, <2>5
    <3>2. open = {1}
      BY <2>2, <2>3, <3>1
    <3>3. Max(open) = 1
      <4>1. open \in SUBSET Int /\ 1 \in open /\ \A k \in open : 1 >= k
        BY <3>2
      <4> QED
        BY <4>1, MaxIs
    <3>4. Child(t, t.root, i + 1) = K[i + 1]
      BY <1>6, <3>1, RootReads DEF HasLeaves
    <3>5. Leftmost(t, K[i + 1]) = <<At(K[i + 1], 1)>>
      <4> DEFINE turn == [q \in DOMAIN t.pages |-> 1]
                 n == i + 1
      <4>1. n \in 1..Len(L) /\ K[n] \in DOMAIN t.pages /\ t.root \in DOMAIN t.pages
        BY <3>1 DEF InTree
      <4>2. turn[K[n]] = 1 /\ turn[t.root] = 1 /\ 1 \in 1..Len(L)
        BY <4>1, LeafCount
      <4>3. Leftmost(t, K[n]) = Walk(t, K[n], turn)
        BY DEF Leftmost
      <4> HIDE DEF turn, n
      <4>5. Many(L) => turn[t.root] \in 1..Len(L)
        BY <4>2
      <4>4. Walk(t, K[n], turn) = <<At(K[n], turn[K[n]])>>
        <5>1. \A h \in 1..Len(L) : Walk(t, K[h], turn) = <<At(K[h], turn[K[h]])>>
          BY <4>5, Walked
        <5> QED
          BY <4>1, <5>1
      <4> QED
        BY <4>2, <4>3, <4>4 DEF n
    <3>6. SubSeq(rest, 1, 1 - 1) = << >>
      BY <2>1, Pair
    <3>7. back(1) = <<At(t.root, i + 1), At(K[i + 1], 1)>>
      <4>1. back(1) = SubSeq(rest, 1, 1 - 1) \o <<At(t.root, i + 1)>> \o Leftmost(t, Child(t, t.root, i + 1))
        <5> HIDE DEF rest
        <5> QED
          BY <2>2
      <4> HIDE DEF rest
      <4>2. back(1) = <<At(t.root, i + 1)>> \o <<At(K[i + 1], 1)>>
        BY <4>1, <3>4, <3>5, <3>6, Pair
      <4> QED
        BY <4>2, Pair
    <3>8. Place(t, K, i + 1, 1) = <<At(t.root, i + 1), At(K[i + 1], 1)>>
      BY <1>0, <1>6, PlaceReads
    <3>9. open # {}
      BY <3>2
    <3> HIDE DEF c, rest, open, back
    <3> QED
      BY <1>4, <2>4, <2>5, <3>3, <3>7, <3>8, <3>9 DEF c
  <2>6. CASE ~(i < Len(L))
    <3>1. open = {}
      BY <1>0, <2>2, <2>3, <2>6
    <3> HIDE DEF c, rest, open
    <3> QED
      BY <1>4, <2>4, <2>6, <3>1 DEF c
  <2> QED
    BY <2>5, <2>6
<1> QED
  BY <1>5, <1>6

-----------------------------------------------------------------------------
(* The search for a key                                                     *)

(* The index of a key in a leaf: that of the first key that is not smaller. *)
IndexIn(s, m, key) ==
  /\ m \in 1..Len(s) + 1
  /\ \A x \in 1..Len(s) : s[x] < key <=> x < m

LEMMA Counted ==
  ASSUME NEW t, NEW p, NEW s \in Seq(Keys), NEW key \in Int, KeysOf(t, p) = s, Increasing(s)
  PROVE  /\ Smaller(t, p, key) + 1 \in 1..Len(s) + 1
         /\ \A x \in 1..Len(s) : s[x] < key <=> x < Smaller(t, p, key) + 1
         /\ UpTo(t, p, key) + 1 \in 1..Len(s) + 1
         /\ \A x \in 1..Len(s) : s[x] <= key <=> x < UpTo(t, p, key) + 1
<1> DEFINE c == Cells(t, p)
           A == {i \in DOMAIN s : s[i] < key}
           B == {i \in DOMAIN s : s[i] <= key}
<1>1. s = [i \in DOMAIN c |-> c[i].key]
  BY DEF KeysOf
<1> HIDE DEF c
<1>2. DOMAIN s = DOMAIN c /\ \A i \in DOMAIN c : s[i] = c[i].key
  BY <1>1
<1>3. {i \in DOMAIN c : c[i].key < key} = A /\ {i \in DOMAIN c : c[i].key <= key} = B
  BY <1>2
<1>4. Smaller(t, p, key) = Cardinality(A) /\ UpTo(t, p, key) = Cardinality(B)
  BY <1>3 DEF Smaller, UpTo, c
<1>5. /\ \E u \in 0..Len(s) : /\ Cardinality({i \in DOMAIN s : s[i] < key}) = u
                              /\ \A i \in 1..Len(s) : s[i] < key <=> i <= u
      /\ \E u \in 0..Len(s) : /\ Cardinality({i \in DOMAIN s : s[i] <= key}) = u
                              /\ \A i \in 1..Len(s) : s[i] <= key <=> i <= u
  BY CountBelow
<1>7. PICK u \in 0..Len(s) : Cardinality(A) = u /\ \A i \in 1..Len(s) : s[i] < key <=> i <= u
  BY <1>5
<1>8. PICK v \in 0..Len(s) : Cardinality(B) = v /\ \A i \in 1..Len(s) : s[i] <= key <=> i <= v
  BY <1>5
<1>9. Len(s) \in Nat
  OBVIOUS
<1> HIDE DEF A, B
<1>10. Smaller(t, p, key) = u /\ UpTo(t, p, key) = v
  BY <1>4, <1>7, <1>8
<1> QED
  BY <1>7, <1>8, <1>9, <1>10

(* The way to a key, left of an equal divider.                              *)
LEMMA DescendIs ==
  ASSUME NEW t, NEW K, NEW D, NEW L, NEW key \in Int, InTree(t, K, D, L), Ordered(D, L)
  PROVE  \E i \in 1..Len(L) : \E m \in 1..Len(L[i]) + 1 :
           /\ Descend(t, key) = Place(t, K, i, m) /\ IndexIn(L[i], m, key)
           /\ i > 1 => D[i - 1] < key
           /\ i < Len(L) => key <= D[i]
<1> DEFINE turn == [q \in DOMAIN t.pages |-> Smaller(t, q, key) + 1]
           i == IF Many(L) THEN turn[t.root] ELSE 1
           m == turn[K[i]]
<1>0. Listed(K, D, L) /\ t.root \in DOMAIN t.pages /\ Len(L) \in Nat /\ Len(L) > 0
  BY LeafCount DEF InTree
<1>1. i \in 1..Len(L) /\ (i > 1 => D[i - 1] < key) /\ (i < Len(L) => key <= D[i])
  <2>1. CASE Many(L)
    <3>1. KeysOf(t, t.root) = D /\ Increasing(D) /\ D \in Seq(Keys) /\ Len(D) = Len(L) - 1
      BY <1>0, <2>1, RootReads DEF HasLeaves, Ordered, Listed
    <3>2. i = Smaller(t, t.root, key) + 1
      BY <1>0, <2>1
    <3> HIDE DEF i
    <3>3. i \in 1..Len(L) /\ \A x \in 1..Len(L) - 1 : D[x] < key <=> x < i
      <4>1. i \in 1..Len(D) + 1 /\ \A x \in 1..Len(D) : D[x] < key <=> x < i
        BY <3>1, <3>2, Counted
      <4> QED
        BY <4>1, <3>1, <1>0
    <3>4. \A x \in 1..Len(L) - 1 : D[x] \in Int
      <4>1. \A x \in 1..Len(L) - 1 : D[x] \in Keys
        BY <1>0, ListReads
      <4> QED
        BY <4>1, Bounds
    <3>5. i > 1 => D[i - 1] < key
      <4>1. i > 1 => i - 1 \in 1..Len(L) - 1 /\ i - 1 < i
        BY <3>3, <1>0
      <4> QED
        BY <4>1, <3>3
    <3>6. i < Len(L) => key <= D[i]
      <4>1. i < Len(L) => i \in 1..Len(L) - 1 /\ ~(i < i)
        BY <3>3, <1>0
      <4>2. i < Len(L) => ~(D[i] < key) /\ D[i] \in Int
        BY <4>1, <3>3, <3>4
      <4> QED
        BY <4>2
    <3> QED
      BY <3>3, <3>5, <3>6
  <2>2. CASE ~Many(L)
    <3>1. i = 1 /\ ~(i < Len(L))
      BY <2>2, LeafCount
    <3> QED
      BY <3>1, <1>0
  <2> QED
    BY <2>1, <2>2
<1>2. Many(L) => turn[t.root] = i
  OBVIOUS
<1> HIDE DEF i
<1>3. K[i] \in DOMAIN t.pages /\ L[i] \in Seq(Keys) /\ KeysOf(t, K[i]) = L[i] /\ Increasing(L[i])
  BY <1>1, Reads DEF HasKeys, Ordered
<1>4. m = Smaller(t, K[i], key) + 1
  BY <1>3
<1>5. Descend(t, key) = Walk(t, t.root, turn)
  BY DEF Descend
<1> HIDE DEF turn
<1>6. Descend(t, key) = Place(t, K, i, m)
  BY <1>1, <1>2, <1>5, WalkIs
<1> HIDE DEF m
<1>7. m \in 1..Len(L[i]) + 1 /\ IndexIn(L[i], m, key)
  BY <1>3, <1>4, Counted DEF IndexIn
<1> QED
  BY <1>1, <1>6, <1>7

(* The way down for an insertion, right of an equal divider.                *)
LEMMA WayIs ==
  ASSUME NEW t, NEW K, NEW D, NEW L, NEW key \in Int, InTree(t, K, D, L), Ordered(D, L)
  PROVE  \E i \in 1..Len(L) : \E m \in 1..Len(L[i]) + 1 :
           /\ WayDown(t, key) = Place(t, K, i, m) /\ IndexIn(L[i], m, key)
           /\ i > 1 => D[i - 1] <= key
           /\ i < Len(L) => key < D[i]
<1> DEFINE turn == [q \in DOMAIN t.pages |->
                      IF IsLeaf(t, q) THEN Smaller(t, q, key) + 1 ELSE UpTo(t, q, key) + 1]
           i == IF Many(L) THEN turn[t.root] ELSE 1
           m == turn[K[i]]
<1>0. Listed(K, D, L) /\ t.root \in DOMAIN t.pages /\ Len(L) \in Nat /\ Len(L) > 0
  BY LeafCount DEF InTree
<1>1. i \in 1..Len(L) /\ (i > 1 => D[i - 1] <= key) /\ (i < Len(L) => key < D[i])
  <2>1. CASE Many(L)
    <3>1. /\ KeysOf(t, t.root) = D /\ Increasing(D) /\ D \in Seq(Keys) /\ Len(D) = Len(L) - 1
          /\ ~IsLeaf(t, t.root)
      BY <1>0, <2>1, RootReads DEF HasLeaves, Ordered, Listed
    <3>2. i = UpTo(t, t.root, key) + 1
      BY <1>0, <2>1, <3>1
    <3> HIDE DEF i
    <3>3. i \in 1..Len(L) /\ \A x \in 1..Len(L) - 1 : D[x] <= key <=> x < i
      <4>1. i \in 1..Len(D) + 1 /\ \A x \in 1..Len(D) : D[x] <= key <=> x < i
        BY <3>1, <3>2, Counted
      <4> QED
        BY <4>1, <3>1, <1>0
    <3>4. \A x \in 1..Len(L) - 1 : D[x] \in Int
      <4>1. \A x \in 1..Len(L) - 1 : D[x] \in Keys
        BY <1>0, ListReads
      <4> QED
        BY <4>1, Bounds
    <3>5. i > 1 => D[i - 1] <= key
      <4>1. i > 1 => i - 1 \in 1..Len(L) - 1 /\ i - 1 < i
        BY <3>3, <1>0
      <4> QED
        BY <4>1, <3>3
    <3>6. i < Len(L) => key < D[i]
      <4>1. i < Len(L) => i \in 1..Len(L) - 1 /\ ~(i < i)
        BY <3>3, <1>0
      <4>2. i < Len(L) => ~(D[i] <= key) /\ D[i] \in Int
        BY <4>1, <3>3, <3>4
      <4> QED
        BY <4>2
    <3> QED
      BY <3>3, <3>5, <3>6
  <2>2. CASE ~Many(L)
    <3>1. i = 1 /\ ~(i < Len(L))
      BY <2>2, LeafCount
    <3> QED
      BY <3>1, <1>0
  <2> QED
    BY <2>1, <2>2
<1>2. Many(L) => turn[t.root] = i
  OBVIOUS
<1> HIDE DEF i
<1>3. /\ K[i] \in DOMAIN t.pages /\ L[i] \in Seq(Keys) /\ KeysOf(t, K[i]) = L[i] /\ Increasing(L[i])
      /\ IsLeaf(t, K[i])
  BY <1>1, Reads DEF HasKeys, Ordered
<1>4. m = Smaller(t, K[i], key) + 1
  BY <1>3
<1>5. WayDown(t, key) = Walk(t, t.root, turn)
  BY DEF WayDown
<1> HIDE DEF turn
<1>6. WayDown(t, key) = Place(t, K, i, m)
  BY <1>1, <1>2, <1>5, WalkIs
<1> HIDE DEF m
<1>7. m \in 1..Len(L[i]) + 1 /\ IndexIn(L[i], m, key)
  BY <1>3, <1>4, Counted DEF IndexIn
<1> QED
  BY <1>1, <1>6, <1>7

-----------------------------------------------------------------------------
(* Scans                                                                    *)

(* What a scan takes its rows from: the cursor after each step, in a set C  *)
(* of cursors that no step leaves.                                          *)
Course(t, C, c, a) ==
  /\ a[0] = c
  /\ \A n \in 1..2 * LastKey : a[n] = Advance(t, a[n - 1])
  /\ \A n \in 0..2 * LastKey : a[n] \in C
  /\ Scan(t, c) = LET ends == {n \in 0..2 * LastKey : a[n].eof}
                  IN IF ends = {} THEN <<-1>> ELSE [n \in 1..Min(ends) |-> KeyAt(t, a[n - 1])]

LEMMA HasCourse ==
  ASSUME NEW t, NEW C, NEW c, c \in C, \A x \in C : Advance(t, x) \in C
  PROVE  \E a : Course(t, C, c, a)
<1> DEFINE N == 2 * LastKey
           S == [n \in 0..N |-> C]
           g == [n \in 1..N |-> [x \in C |-> Advance(t, x)]]
           step(f) == [n \in 0..N |-> IF n = 0 THEN c ELSE Advance(t, f[n - 1])]
           a == CHOOSE f : f = step(f)
<1>0. N \in Nat
  BY Bounds
<1> HIDE DEF N
<1>1. Stepwise(N, S, c, g)
  <2>1. \A n \in 0..N : S[n] = C
    OBVIOUS
  <2>2. \A n \in 1..N : \A x \in C : g[n][x] = Advance(t, x)
    OBVIOUS
  <2>3. \A n \in 1..N : n \in 0..N /\ n - 1 \in 0..N
    BY <1>0
  <2>4. 0 \in 0..N
    BY <1>0
  <2> HIDE DEF S, g
  <2> QED
    BY <1>0, <2>1, <2>2, <2>3, <2>4 DEF Stepwise
<1>2. PICK f : Follows(f, N, S, c, g)
  BY <1>1, Recursion
<1> DEFINE h == [n \in 0..N |-> f[n]]
<1>3. \A n \in 0..N : step(h)[n] = h[n]
  <2>1. f[0] = c /\ (\A n \in 1..N : f[n] = g[n][f[n - 1]]) /\ \A n \in 0..N : f[n] \in S[n]
    BY <1>2 DEF Follows
  <2>2. \A n \in 1..N : n - 1 \in 0..N /\ n # 0 /\ n \in 0..N
    BY <1>0
  <2>3. \A n \in 1..N : f[n] = Advance(t, f[n - 1])
    BY <2>1, <2>2
  <2>4. \A n \in 1..N : step(h)[n] = h[n]
    BY <2>2, <2>3
  <2>5. 0 \in 0..N /\ step(h)[0] = h[0]
    BY <1>0, <2>1
  <2>6. \A n \in 0..N : n = 0 \/ n \in 1..N
    BY <1>0
  <2> HIDE DEF h, step
  <2> QED
    BY <2>4, <2>5, <2>6
<1>4. step(h) = h
  <2>1. h = [n \in 0..N |-> h[n]] /\ step(h) = [n \in 0..N |-> step(h)[n]]
    OBVIOUS
  <2> HIDE DEF h, step
  <2> QED
    BY <2>1, <1>3
<1>5. a = step(a)
  <2> HIDE DEF step, h
  <2> QED
    BY <1>4
<1> HIDE DEF a, h
<1>6. a[0] = c /\ \A n \in 1..N : a[n] = Advance(t, a[n - 1])
  <2>1. 0 \in 0..N /\ \A n \in 1..N : n \in 0..N /\ n # 0
    BY <1>0
  <2>2. \A n \in 0..N : a[n] = IF n = 0 THEN c ELSE Advance(t, a[n - 1])
    BY <1>5
  <2> QED
    BY <2>1, <2>2
<1>7. \A n \in 0..N : a[n] \in C
  <2> DEFINE H == {n \in 0..N : a[n] \in C}
  <2>1. 0 \in H
    BY <1>0, <1>6
  <2>2. \A n \in 1..N : n - 1 \in H => n \in H
    BY <1>0, <1>6
  <2> HIDE DEF H
  <2>3. 0..N \subseteq H
    BY <1>0, <2>1, <2>2, Induction
  <2> QED
    BY <2>3 DEF H
<1>8. Scan(t, c) = LET ends == {n \in 0..N : a[n].eof}
                   IN IF ends = {} THEN <<-1>> ELSE [n \in 1..Min(ends) |-> KeyAt(t, a[n - 1])]
  BY DEF Scan, a, N
<1>9. Course(t, C, c, a)
  BY <1>6, <1>7, <1>8 DEF Course, N
<1> QED
  BY <1>9

(* A sequence that goes from each key of a set to the next one, and to the  *)
(* greatest, lists the keys from its first on.                              *)
LEMMA ListsFrom ==
  ASSUME NEW M \in Nat \ {0}, NEW s, NEW R \in SUBSET Int, DOMAIN s = 1..M, \A n \in 1..M : s[n] \in R,
         \A n \in 1..M - 1 : s[n] < s[n + 1] /\ \A k \in R : k <= s[n] \/ k >= s[n + 1],
         \A k \in R : k <= s[M]
  PROVE  Lists(s, {k \in R : k >= s[1]})
<1>0. \A n \in 1..M : s[n] \in Int
  OBVIOUS
<1> DEFINE H == {n \in 0..M : \A i \in 1..n - 1 : s[i] < s[n]}
<1>1. 0..M \subseteq H
  <2>1. 0 \in H
    OBVIOUS
  <2>2. ASSUME NEW n \in 1..M, n - 1 \in H PROVE n \in H
    <3>1. ASSUME NEW i \in 1..n - 1 PROVE s[i] < s[n]
      <4>1. n - 1 \in 1..M - 1 /\ n - 1 + 1 = n /\ i \in 1..M /\ n - 1 \in 1..M
        BY <3>1
      <4>2. s[n - 1] < s[n]
        BY <4>1
      <4>3. i = n - 1 \/ i \in 1..(n - 1) - 1
        BY <3>1
      <4>4. i = n - 1 \/ s[i] < s[n - 1]
        BY <4>3, <2>2
      <4> QED
        BY <4>1, <4>2, <4>4, <1>0
    <3> QED
      BY <3>1
  <2> HIDE DEF H
  <2> QED
    BY <2>1, <2>2, Induction
<1>2. \A i, j \in 1..M : i < j => s[i] < s[j]
  <2> SUFFICES ASSUME NEW i \in 1..M, NEW j \in 1..M, i < j PROVE s[i] < s[j]
    OBVIOUS
  <2>1. j \in H /\ i \in 1..j - 1
    BY <1>1
  <2> QED
    BY <2>1
<1>3. ASSUME NEW k \in R, k >= s[1] PROVE \E n \in 1..M : s[n] = k
  <2> DEFINE T == {n \in 1..M : s[n] > k}
  <2>0. k \in Int
    OBVIOUS
  <2>1. CASE T = {}
    <3>1. M \in 1..M /\ ~(s[M] > k) /\ k <= s[M] /\ s[M] \in Int
      BY <2>1, <1>0
    <3> QED
      BY <3>1, <2>0
  <2>2. CASE T # {}
    <3>1. PICK m \in T : \A n \in T : m <= n
      <4>1. T \in SUBSET Nat
        OBVIOUS
      <4> QED
        BY <4>1, <2>2, Least
    <3>2. m \in 1..M /\ s[m] > k /\ s[1] \in Int /\ s[m] \in Int
      BY <3>1, <1>0
    <3>3. m # 1
      BY <3>2, <1>3, <2>0
    <3>4. m - 1 \in 1..M - 1 /\ m - 1 \in 1..M /\ m - 1 + 1 = m /\ ~(m <= m - 1)
      BY <3>2, <3>3
    <3>5. ~(s[m - 1] > k) /\ s[m - 1] \in Int
      <4>1. m - 1 \notin T
        BY <3>1, <3>4
      <4> QED
        BY <4>1, <3>4, <1>0
    <3>6. k <= s[m - 1] \/ k >= s[m]
      BY <3>4
    <3>7. s[m - 1] = k
      BY <3>2, <3>5, <3>6, <2>0
    <3> QED
      BY <3>4, <3>7
  <2> QED
    BY <2>1, <2>2
<1>4. \A n \in 1..M : s[n] >= s[1]
  BY <1>0, <1>2
<1>5. Range(s) = {k \in R : k >= s[1]}
  <2>1. \A k : k \in Range(s) <=> \E n \in 1..M : s[n] = k
    BY DEF Range
  <2>2. \A k : k \in Range(s) <=> k \in {x \in R : x >= s[1]}
    BY <2>1, <1>3, <1>4
  <2> QED
    BY <2>2
<1> QED
  BY <1>2, <1>5 DEF Lists

(* From each key in a table a step goes to the next larger one, and to the  *)
(* end behind the greatest.                                                 *)
MovesOn(t, R, C) ==
  \A x \in C :
    /\ Advance(t, x) \in C
    /\ x.eof => Advance(t, x).eof
    /\ ~x.eof => KeyAt(t, x) \in R
    /\ ~x.eof /\ Advance(t, x).eof => \A k \in R : k <= KeyAt(t, x)
    /\ ~x.eof /\ ~Advance(t, x).eof =>
         /\ KeyAt(t, x) < KeyAt(t, Advance(t, x))
         /\ \A k \in R : k <= KeyAt(t, x) \/ k >= KeyAt(t, Advance(t, x))

LEMMA ScanIs ==
  ASSUME NEW t, NEW R, NEW C, NEW c, R \in SUBSET Keys, c \in C, MovesOn(t, R, C)
  PROVE  Lists(Scan(t, c), IF c.eof THEN {} ELSE {k \in R : k >= KeyAt(t, c)})
<1> DEFINE N == 2 * LastKey
<1>0. N \in Nat /\ LastKey \in Nat /\ LastKey <= N /\ R \subseteq 1..LastKey /\ R \in SUBSET Int
  BY Bounds
<1>1. \A x \in C : Advance(t, x) \in C
  BY DEF MovesOn
<1>2. PICK a : Course(t, C, c, a)
  BY <1>1, HasCourse
<1> DEFINE ends == {n \in 0..N : a[n].eof}
           M == Min(ends)
           s == [n \in 1..M |-> KeyAt(t, a[n - 1])]
<1>3. /\ a[0] = c
      /\ \A n \in 1..N : a[n] = Advance(t, a[n - 1])
      /\ \A n \in 0..N : a[n] \in C
      /\ Scan(t, c) = IF ends = {} THEN <<-1>> ELSE s
  BY <1>2 DEF Course
<1> HIDE DEF N
<1>4. \A n \in 1..N : n - 1 \in 0..N /\ n \in 0..N
  BY <1>0
<1>5. ASSUME NEW n \in 1..N
      PROVE  /\ a[n - 1].eof => a[n].eof
             /\ ~a[n - 1].eof => KeyAt(t, a[n - 1]) \in R
             /\ ~a[n - 1].eof /\ a[n].eof => \A k \in R : k <= KeyAt(t, a[n - 1])
             /\ ~a[n - 1].eof /\ ~a[n].eof =>
                  /\ KeyAt(t, a[n - 1]) < KeyAt(t, a[n])
                  /\ \A k \in R : k <= KeyAt(t, a[n - 1]) \/ k >= KeyAt(t, a[n])
  <2>1. a[n - 1] \in C /\ a[n] = Advance(t, a[n - 1])
    BY <1>3, <1>4
  <2> QED
    BY <2>1 DEF MovesOn
<1>6. \A n \in 0..N : ~a[n].eof => KeyAt(t, a[n]) \in R
  BY <1>3 DEF MovesOn
<1>7. N \in ends
  <2> DEFINE H == {n \in 0..N : a[n].eof \/ KeyAt(t, a[n]) > n}
  <2>1. 0 \in H
    <3>1. 0 \in 0..N
      BY <1>0
    <3>2. ~a[0].eof => KeyAt(t, a[0]) \in 1..LastKey
      BY <3>1, <1>6, <1>0
    <3> QED
      BY <3>1, <3>2
  <2>2. ASSUME NEW n \in 1..N, n - 1 \in H PROVE n \in H
    <3>1. CASE a[n].eof
      BY <3>1, <1>4
    <3>2. CASE ~a[n].eof
      <4>1. ~a[n - 1].eof
        BY <3>2, <1>5
      <4>2. KeyAt(t, a[n - 1]) > n - 1 /\ KeyAt(t, a[n - 1]) < KeyAt(t, a[n])
        BY <4>1, <3>2, <2>2, <1>5
      <4>3. KeyAt(t, a[n - 1]) \in Int /\ KeyAt(t, a[n]) \in Int
        BY <4>1, <3>2, <1>4, <1>6, <1>0
      <4>4. KeyAt(t, a[n]) > n
        BY <4>2, <4>3
      <4> QED
        BY <4>4, <1>4
    <3> QED
      BY <3>1, <3>2
  <2> HIDE DEF H
  <2>3. 0..N \subseteq H
    BY <1>0, <2>1, <2>2, Induction
  <2>4. N \in 0..N
    BY <1>0
  <2>5. a[N].eof \/ KeyAt(t, a[N]) > N
    BY <2>3, <2>4 DEF H
  <2>6. ~a[N].eof => KeyAt(t, a[N]) \in 1..LastKey
    BY <2>4, <1>6, <1>0
  <2> QED
    BY <2>4, <2>5, <2>6, <1>0
<1>8. M \in ends /\ (\A n \in ends : M <= n) /\ ends # {}
  <2>1. ends \in SUBSET Nat
    BY <1>0
  <2> HIDE DEF ends
  <2> QED
    BY <2>1, <1>7, MinOf
<1> HIDE DEF M
<1>9. Scan(t, c) = s
  BY <1>3, <1>8
<1>10. M \in 0..N /\ a[M].eof /\ \A n \in 0..N : n < M => ~a[n].eof
  <2>1. M \in 0..N /\ a[M].eof
    BY <1>8
  <2>2. ASSUME NEW n \in 0..N, n < M PROVE ~a[n].eof
    <3>1. n \notin ends
      BY <2>1, <2>2, <1>8, <1>0
    <3> QED
      BY <3>1
  <2> QED
    BY <2>1, <2>2
<1>11. CASE M = 0
  <2>1. c.eof
    BY <1>3, <1>10, <1>11
  <2>2. DOMAIN s = {}
    BY <1>11
  <2>3. Range(s) = {}
    BY <2>2 DEF Range
  <2>4. Lists(s, {})
    BY <2>2, <2>3 DEF Lists
  <2> QED
    BY <2>1, <2>4, <1>9
<1>12. CASE M # 0
  <2>1. M \in Nat \ {0} /\ M \in 1..N /\ \A n \in 1..M : n \in 1..N /\ n - 1 \in 0..N /\ n - 1 < M
    BY <1>0, <1>10, <1>12
  <2>2. ~c.eof
    <3>1. 0 \in 0..N /\ 0 < M
      BY <2>1
    <3> QED
      BY <3>1, <1>3, <1>10
  <2>3. DOMAIN s = 1..M /\ \A n \in 1..M : s[n] = KeyAt(t, a[n - 1])
    OBVIOUS
  <2> HIDE DEF s
  <2>4. \A n \in 1..M : s[n] \in R
    BY <2>1, <2>3, <1>6, <1>10
  <2>5. ASSUME NEW n \in 1..M - 1
        PROVE  s[n] < s[n + 1] /\ \A k \in R : k <= s[n] \/ k >= s[n + 1]
    <3>1. n \in 1..M /\ n + 1 \in 1..M /\ (n + 1) - 1 = n /\ n \in 1..N /\ n \in 0..N /\ n - 1 \in 0..N
          /\ n < M /\ n - 1 < M
      BY <2>1
    <3>2. s[n] = KeyAt(t, a[n - 1]) /\ s[n + 1] = KeyAt(t, a[n])
      BY <3>1, <2>3
    <3>3. ~a[n - 1].eof /\ ~a[n].eof
      BY <3>1, <1>10
    <3> QED
      BY <3>1, <3>2, <3>3, <1>5
  <2>6. \A k \in R : k <= s[M]
    <3>1. M \in 1..M /\ M - 1 \in 0..N /\ M - 1 < M /\ M \in 1..N
      BY <2>1
    <3>2. s[M] = KeyAt(t, a[M - 1]) /\ ~a[M - 1].eof /\ a[M].eof
      BY <3>1, <2>3, <1>10
    <3> QED
      BY <3>1, <3>2, <1>5
  <2>7. Lists(s, {k \in R : k >= s[1]})
    BY <1>0, <2>1, <2>3, <2>4, <2>5, <2>6, ListsFrom
  <2>8. s[1] = KeyAt(t, c)
    <3>1. 1 \in 1..M /\ 1 - 1 = 0
      BY <2>1
    <3> QED
      BY <3>1, <2>3, <1>3
  <2> QED
    BY <2>2, <2>7, <2>8, <1>9 DEF s
<1> QED
  BY <1>11, <1>12

-----------------------------------------------------------------------------
(* Scans of a sound tree                                                    *)

LEMMA HeldKeys ==
  ASSUME NEW K, NEW D, NEW L, NEW R, Listed(K, D, L), Holds(L, R)
  PROVE  R \in SUBSET Keys /\ R \in SUBSET Int
<1>1. \A k \in R : \E i \in 1..Len(L) : \E m \in 1..Len(L[i]) : L[i][m] = k
  BY DEF Holds
<1>2. \A i \in 1..Len(L) : \A m \in 1..Len(L[i]) : L[i][m] \in Keys
  BY ListReads
<1>3. R \subseteq Keys
  BY <1>1, <1>2
<1> QED
  BY <1>3, Bounds

(* The keys of the leaves, from each to the next.                           *)
LEMMA NextKeys ==
  ASSUME NEW K, NEW D, NEW L, NEW R, NEW i, NEW m,
         Listed(K, D, L), Ordered(D, L), Holds(L, R), i \in 1..Len(L), m \in 1..Len(L[i])
  PROVE  /\ L[i][m] \in R
         /\ m < Len(L[i]) =>
              L[i][m] < L[i][m + 1] /\ \A k \in R : k <= L[i][m] \/ k >= L[i][m + 1]
         /\ ~(m < Len(L[i])) /\ i < Len(L) =>
              /\ i + 1 \in 1..Len(L) /\ 1 \in 1..Len(L[i + 1])
              /\ L[i][m] < L[i + 1][1]
              /\ \A k \in R : k <= L[i][m] \/ k >= L[i + 1][1]
         /\ ~(m < Len(L[i])) /\ ~(i < Len(L)) => \A k \in R : k <= L[i][m]
<1>0. Len(L) \in Nat /\ \A j \in 1..Len(L) : Len(L[j]) \in Nat
  BY ListReads
<1>1. L[i][m] \in R
  BY DEF Holds
<1>2. \A k \in R : \E j \in 1..Len(L) : \E n \in 1..Len(L[j]) : L[j][n] = k
  BY DEF Holds
<1>3. \A j1, j2 \in 1..Len(L) : \A n1 \in 1..Len(L[j1]), n2 \in 1..Len(L[j2]) :
        /\ L[j1][n1] \in Int /\ L[j2][n2] \in Int
        /\ j1 < j2 => L[j1][n1] < L[j2][n2]
        /\ j1 = j2 /\ n1 < n2 => L[j1][n1] < L[j2][n2]
  BY KeyOrder
<1>4. ASSUME NEW x \in 1..Len(L), NEW y \in 1..Len(L[x]),
             \/ x = i /\ y = m + 1
             \/ x = i + 1 /\ y = 1 /\ ~(m < Len(L[i]))
      PROVE  L[i][m] < L[x][y] /\ \A k \in R : k <= L[i][m] \/ k >= L[x][y]
  <2>1. L[i][m] < L[x][y]
    BY <1>0, <1>3, <1>4
  <2>2. ASSUME NEW j \in 1..Len(L), NEW n \in 1..Len(L[j])
        PROVE  L[j][n] <= L[i][m] \/ L[j][n] >= L[x][y]
    <3>1. \/ j < i \/ (j = i /\ n < m)
          \/ j = i /\ n = m
          \/ j = x /\ n = y
          \/ j > x \/ (j = x /\ n > y)
      <4> DEFINE a == Len(L[i])
                 b == Len(L[j])
      <4>1. i \in Nat /\ j \in Nat /\ m \in Nat /\ n \in Nat /\ a \in Nat /\ m <= a /\ n <= b /\ 1 <= n /\ b \in Nat
        BY <1>0
      <4>2. (x = i /\ y = m + 1) \/ (x = i + 1 /\ y = 1 /\ ~(m < a))
        BY <1>4
      <4>3. j = i => b = a
        OBVIOUS
      <4> HIDE DEF a, b
      <4> QED
        BY <4>1, <4>2, <4>3
    <3>2. L[j][n] \in Int /\ L[i][m] \in Int /\ L[x][y] \in Int
      BY <1>3
    <3>3. j < i \/ (j = i /\ n < m) => L[j][n] < L[i][m]
      BY <1>3
    <3>4. j > x \/ (j = x /\ n > y) => L[j][n] > L[x][y]
      <4>1. x < j \/ (x = j /\ y < n) => L[x][y] < L[j][n]
        BY <1>3
      <4>2. (j > x <=> x < j) /\ (n > y <=> y < n)
        BY <1>0
      <4> QED
        BY <4>1, <4>2, <3>2
    <3> DEFINE u == L[j][n]
               v == L[i][m]
               w == L[x][y]
    <3>5. u \in Int /\ v \in Int /\ w \in Int /\ (u < v => u <= v) /\ (u = v => u <= v) /\ (u = w => u >= w) /\ (u > w => u >= w)
      <4> HIDE DEF u, v, w
      <4>1. u \in Int /\ v \in Int /\ w \in Int
        BY <3>2 DEF u, v, w
      <4> QED
        BY <4>1
    <3>6. u < v \/ u = v \/ u = w \/ u > w
      BY <3>1, <3>3, <3>4
    <3> QED
      BY <3>5, <3>6
  <2> QED
    BY <2>1, <2>2, <1>2
<1>5. ASSUME m < Len(L[i])
      PROVE  L[i][m] < L[i][m + 1] /\ \A k \in R : k <= L[i][m] \/ k >= L[i][m + 1]
  <2>1. m + 1 \in 1..Len(L[i])
    BY <1>0, <1>5
  <2> QED
    BY <2>1, <1>4
<1>6. ASSUME ~(m < Len(L[i])), i < Len(L)
      PROVE  /\ i + 1 \in 1..Len(L) /\ 1 \in 1..Len(L[i + 1])
             /\ L[i][m] < L[i + 1][1]
             /\ \A k \in R : k <= L[i][m] \/ k >= L[i + 1][1]
  <2>1. i + 1 \in 1..Len(L) /\ Len(L) > 1
    BY <1>0, <1>6
  <2>2. Len(L[i + 1]) > 0
    BY <2>1 DEF Ordered, Many
  <2>3. 1 \in 1..Len(L[i + 1])
    BY <2>1, <2>2, <1>0
  <2> QED
    BY <2>1, <2>3, <1>4, <1>6
<1>7. ASSUME ~(m < Len(L[i])), ~(i < Len(L)) PROVE \A k \in R : k <= L[i][m]
  <2>1. ASSUME NEW j \in 1..Len(L), NEW n \in 1..Len(L[j]) PROVE L[j][n] <= L[i][m]
    <3>1. j < i \/ (j = i /\ n < m) \/ (j = i /\ n = m)
      <4> DEFINE a == Len(L[i])
                 b == Len(L[j])
                 N == Len(L)
      <4>1. i \in Nat /\ j \in Nat /\ m \in Nat /\ n \in Nat /\ a \in Nat /\ m <= a /\ n <= b /\ b \in Nat
            /\ N \in Nat /\ j <= N /\ i <= N
        BY <1>0
      <4>2. ~(m < a) /\ ~(i < N)
        BY <1>7
      <4>3. j = i => b = a
        OBVIOUS
      <4> HIDE DEF a, b, N
      <4> QED
        BY <4>1, <4>2, <4>3
    <3>2. L[j][n] \in Int /\ L[i][m] \in Int
      BY <1>3
    <3>3. j < i \/ (j = i /\ n < m) => L[j][n] < L[i][m]
      BY <1>3
    <3> QED
      BY <3>1, <3>2, <3>3
  <2> QED
    BY <2>1, <1>2
<1> QED
  BY <1>1, <1>5, <1>6, <1>7

(* The cursors on a key, and the one at the end.                            *)
Cursors(t, K, L) == {AtEnd} \union UNION {{On(Place(t, K, i, m)) : m \in 1..Len(L[i])} : i \in 1..Len(L)}

LEMMA CursorsAre ==
  ASSUME NEW t, NEW K, NEW L, NEW c
  PROVE  c \in Cursors(t, K, L) <=> c = AtEnd \/ OnKey(t, K, L, c)
BY DEF Cursors, OnKey

LEMMA EndIs == AtEnd.eof = TRUE /\ \A t : Advance(t, AtEnd) = AtEnd
BY DEF AtEnd, Advance

LEMMA TreeMoves ==
  ASSUME NEW t, NEW K, NEW D, NEW L, NEW R, InTree(t, K, D, L), Ordered(D, L), Holds(L, R)
  PROVE  MovesOn(t, R, Cursors(t, K, L))
<1> SUFFICES ASSUME NEW x \in Cursors(t, K, L)
             PROVE  /\ Advance(t, x) \in Cursors(t, K, L)
                    /\ x.eof => Advance(t, x).eof
                    /\ ~x.eof => KeyAt(t, x) \in R
                    /\ ~x.eof /\ Advance(t, x).eof => \A k \in R : k <= KeyAt(t, x)
                    /\ ~x.eof /\ ~Advance(t, x).eof =>
                         /\ KeyAt(t, x) < KeyAt(t, Advance(t, x))
                         /\ \A k \in R : k <= KeyAt(t, x) \/ k >= KeyAt(t, Advance(t, x))
  BY DEF MovesOn
<1>0. Listed(K, D, L)
  BY DEF InTree
<1>1. CASE x = AtEnd
  BY <1>1, EndIs
<1>2. CASE OnKey(t, K, L, x)
  <2>1. PICK i \in 1..Len(L) : \E m \in 1..Len(L[i]) : x = On(Place(t, K, i, m))
    BY <1>2 DEF OnKey
  <2>2. PICK m \in 1..Len(L[i]) : x = On(Place(t, K, i, m))
    BY <2>1
  <2> DEFINE y == Advance(t, x)
  <2>3. y = IF m < Len(L[i]) THEN On(Place(t, K, i, m + 1))
            ELSE IF i < Len(L) THEN On(Place(t, K, i + 1, 1)) ELSE AtEnd
    BY <2>2, AdvanceIs
  <2>4. ~x.eof /\ KeyAt(t, x) = L[i][m]
    BY <2>2, CursorReads
  <2> HIDE DEF y
  <2>5. L[i][m] \in R
    BY <1>0, NextKeys
  <2>6. ASSUME NEW i2, NEW m2, i2 \in 1..Len(L), m2 \in 1..Len(L[i2]), y = On(Place(t, K, i2, m2))
        PROVE  y \in Cursors(t, K, L) /\ ~y.eof /\ KeyAt(t, y) = L[i2][m2]
    <3>1. OnKey(t, K, L, y)
      BY <2>6 DEF OnKey
    <3>2. y \in Cursors(t, K, L)
      BY <3>1, CursorsAre
    <3>3. ~y.eof /\ KeyAt(t, y) = L[i2][m2]
      BY <2>6, CursorReads
    <3> QED
      BY <3>2, <3>3
  <2>7. CASE m < Len(L[i])
    <3>1. m + 1 \in 1..Len(L[i])
      BY <2>7, <1>0, ListReads
    <3> DEFINE n == m + 1
    <3>2. y = On(Place(t, K, i, n)) /\ n \in 1..Len(L[i])
      BY <2>3, <2>7, <3>1
    <3>3. L[i][m] < L[i][n] /\ \A k \in R : k <= L[i][m] \/ k >= L[i][n]
      BY <1>0, <2>7, NextKeys
    <3> HIDE DEF n
    <3>4. y \in Cursors(t, K, L) /\ ~y.eof /\ KeyAt(t, y) = L[i][n]
      BY <2>6, <3>2
    <3> QED
      BY <3>3, <3>4, <2>4, <2>5 DEF y
  <2>8. CASE ~(m < Len(L[i])) /\ i < Len(L)
    <3> DEFINE j == i + 1
    <3>1. j \in 1..Len(L) /\ 1 \in 1..Len(L[j]) /\ L[i][m] < L[j][1]
          /\ \A k \in R : k <= L[i][m] \/ k >= L[j][1]
      BY <1>0, <2>8, NextKeys
    <3>2. y = On(Place(t, K, j, 1))
      BY <2>3, <2>8
    <3> HIDE DEF j
    <3>4. y \in Cursors(t, K, L) /\ ~y.eof /\ KeyAt(t, y) = L[j][1]
      BY <2>6, <3>1, <3>2
    <3> QED
      BY <3>1, <3>4, <2>4, <2>5 DEF y
  <2>9. CASE ~(m < Len(L[i])) /\ ~(i < Len(L))
    <3>1. y = AtEnd
      BY <2>3, <2>9
    <3>2. y \in Cursors(t, K, L) /\ y.eof
      BY <3>1, EndIs, CursorsAre
    <3>3. \A k \in R : k <= L[i][m]
      BY <1>0, <2>9, NextKeys
    <3> QED
      BY <3>2, <3>3, <2>4, <2>5 DEF y
  <2> QED
    BY <2>7, <2>8, <2>9
<1> QED
  BY <1>1, <1>2, CursorsAre

(* A scan from a key lists the keys from there on, one from the end nothing.*)
LEMMA ScanFrom ==
  ASSUME NEW t, NEW K, NEW D, NEW L, NEW R, InTree(t, K, D, L), Ordered(D, L), Holds(L, R)
  PROVE  /\ Lists(Scan(t, AtEnd), {})
         /\ \A i \in 1..Len(L) : \A m \in 1..Len(L[i]) :
              Lists(Scan(t, On(Place(t, K, i, m))), {k \in R : k >= L[i][m]})
<1> DEFINE C == Cursors(t, K, L)
<1>1. MovesOn(t, R, C) /\ R \in SUBSET Keys
  <2>1. Listed(K, D, L)
    BY DEF InTree
  <2> QED
    BY <2>1, HeldKeys, TreeMoves
<1>2. AtEnd \in C
  BY CursorsAre
<1> HIDE DEF C
<1>3. Lists(Scan(t, AtEnd), {})
  <2>1. Lists(Scan(t, AtEnd), IF AtEnd.eof THEN {} ELSE {k \in R : k >= KeyAt(t, AtEnd)})
    BY <1>1, <1>2, ScanIs
  <2> QED
    BY <2>1, EndIs
<1>4. ASSUME NEW i \in 1..Len(L), NEW m \in 1..Len(L[i])
      PROVE  Lists(Scan(t, On(Place(t, K, i, m))), {k \in R : k >= L[i][m]})
  <2> DEFINE c == On(Place(t, K, i, m))
  <2>1. OnKey(t, K, L, c)
    BY DEF OnKey
  <2>2. ~c.eof /\ KeyAt(t, c) = L[i][m]
    BY CursorReads
  <2> HIDE DEF c
  <2>3. c \in C
    BY <2>1, CursorsAre DEF C
  <2>4. Lists(Scan(t, c), IF c.eof THEN {} ELSE {k \in R : k >= KeyAt(t, c)})
    BY <1>1, <2>3, ScanIs
  <2>5. Lists(Scan(t, c), {k \in R : k >= L[i][m]})
    BY <2>2, <2>4
  <2> QED
    BY <2>5 DEF c
<1> QED
  BY <1>3, <1>4

LEMMA ScanFirst ==
  ASSUME NEW t, NEW K, NEW D, NEW L, NEW R, InTree(t, K, D, L), Ordered(D, L), Holds(L, R)
  PROVE  Lists(Scan(t, First(t)), R)
<1>0. Listed(K, D, L) /\ Len(L) \in Nat /\ 1 \in 1..Len(L)
  BY LeafCount DEF InTree
<1>1. Len(L[1]) \in Nat /\ \A j \in 1..Len(L) : Len(L[j]) \in Nat
  BY <1>0, ListReads
<1>2. First(t) = IF Len(L[1]) > 0 THEN On(Place(t, K, 1, 1)) ELSE AtEnd
  BY FirstIs
<1>3. CASE Len(L[1]) > 0
  <2>1. 1 \in 1..Len(L[1])
    BY <1>1, <1>3
  <2>2. ASSUME NEW j \in 1..Len(L), NEW n \in 1..Len(L[j]) PROVE L[j][n] >= L[1][1]
    <3>1. 1 < j \/ (1 = j /\ 1 < n) \/ (1 = j /\ 1 = n)
      <4>1. j \in Nat /\ 1 <= j /\ n \in Nat /\ 1 <= n
        BY <1>0, <1>1
      <4> QED
        BY <4>1
    <3>2. L[j][n] \in Int /\ L[1][1] \in Int
          /\ (1 < j => L[1][1] < L[j][n]) /\ (1 = j /\ 1 < n => L[1][1] < L[j][n])
      BY <1>0, <2>1, KeyOrder
    <3> QED
      BY <3>1, <3>2
  <2>3. \A k \in R : k >= L[1][1]
    BY <2>2 DEF Holds
  <2>4. {k \in R : k >= L[1][1]} = R
    BY <2>3
  <2>5. Lists(Scan(t, On(Place(t, K, 1, 1))), {k \in R : k >= L[1][1]})
    BY <1>0, <2>1, ScanFrom
  <2> QED
    BY <1>2, <1>3, <2>4, <2>5
<1>4. CASE ~(Len(L[1]) > 0)
  <2>1. ~Many(L)
    BY <1>0, <1>4 DEF Ordered
  <2>2. \A i \in 1..Len(L) : i = 1
    BY <2>1, LeafCount
  <2>3. \A i \in 1..Len(L) : \A m \in 1..Len(L[i]) : FALSE
    BY <2>2, <1>1, <1>4
  <2>4. R = {}
    BY <2>3 DEF Holds
  <2>5. Lists(Scan(t, AtEnd), {})
    BY ScanFrom
  <2> QED
    BY <1>2, <1>4, <2>4, <2>5
<1> QED
  BY <1>3, <1>4

-----------------------------------------------------------------------------
(* What a search finds                                                      *)

(* The leaf that a search leads to: what is left of it is smaller than the  *)
(* key, and what is right of it is not.                                     *)
LeadsTo(D, L, i, m, key) ==
  /\ i \in 1..Len(L) /\ IndexIn(L[i], m, key)
  /\ i > 1 => D[i - 1] < key
  /\ i < Len(L) => key <= D[i]

LEMMA DividersOrdered ==
  ASSUME NEW K, NEW D, NEW L, Listed(K, D, L), Ordered(D, L)
  PROVE  /\ \A x \in 1..Len(L) - 1 : D[x] \in Int
         /\ \A x, y \in 1..Len(L) - 1 : x < y => D[x] < D[y]
         /\ \A x, y \in 1..Len(L) - 1 : x <= y => D[x] <= D[y]
<1>0. Len(L) \in Nat /\ DOMAIN D = 1..Len(L) - 1
  BY ListReads
<1>1. \A x \in 1..Len(L) - 1 : D[x] \in Int
  <2>1. \A x \in 1..Len(L) - 1 : D[x] \in Keys
    BY ListReads
  <2> QED
    BY <2>1, Bounds
<1>2. \A x, y \in 1..Len(L) - 1 : x < y => D[x] < D[y]
  BY <1>0 DEF Ordered, Increasing
<1>3. ASSUME NEW x \in 1..Len(L) - 1, NEW y \in 1..Len(L) - 1, x <= y PROVE D[x] <= D[y]
  <2>1. CASE x = y
    BY <2>1, <1>1
  <2>2. CASE x # y
    <3>1. x < y
      BY <2>2, <1>3, <1>0
    <3> QED
      BY <3>1, <1>1, <1>2
  <2> QED
    BY <2>1, <2>2
<1> QED
  BY <1>1, <1>2, <1>3

LEMMA KeyBounds ==
  ASSUME NEW K, NEW D, NEW L, NEW i, NEW m,
         Listed(K, D, L), Ordered(D, L), i \in 1..Len(L), m \in 1..Len(L[i])
  PROVE  /\ L[i][m] \in Int
         /\ i < Len(L) => i \in 1..Len(L) - 1 /\ L[i][m] < D[i]
         /\ i > 1 => i - 1 \in 1..Len(L) - 1 /\ D[i - 1] <= L[i][m]
<1>0. Len(L) \in Nat /\ i \in Nat /\ m \in Nat
  BY ListReads
<1>1. L[i][m] \in Int
  <2>1. L[i][m] \in Keys
    BY ListReads
  <2> QED
    BY <2>1, Bounds
<1>2. i < Len(L) => i \in 1..Len(L) - 1 /\ L[i][m] < D[i]
  BY <1>0 DEF Ordered
<1>3. i > 1 => i - 1 \in 1..Len(L) - 1 /\ D[i - 1] <= L[i][m]
  BY <1>0 DEF Ordered
<1> QED
  BY <1>1, <1>2, <1>3

LEMMA Around ==
  ASSUME NEW K, NEW D, NEW L, NEW i, NEW m, NEW j, NEW n, NEW key \in Int,
         Listed(K, D, L), Ordered(D, L), LeadsTo(D, L, i, m, key),
         j \in 1..Len(L), n \in 1..Len(L[j]), j < i
  PROVE  L[j][n] < key
<1>0. Len(L) \in Nat /\ i \in 1..Len(L) /\ L[j][n] \in Int
  BY ListReads, KeyBounds DEF LeadsTo
<1>1. j \in 1..Len(L) - 1 /\ i - 1 \in 1..Len(L) - 1 /\ j <= i - 1 /\ i > 1 /\ j < Len(L)
  BY <1>0
<1>2. L[j][n] < D[j]
  BY <1>1, KeyBounds
<1>3. D[j] <= D[i - 1] /\ D[j] \in Int /\ D[i - 1] \in Int
  BY <1>1, DividersOrdered
<1>4. D[i - 1] < key
  BY <1>1 DEF LeadsTo
<1> QED
  BY <1>0, <1>2, <1>3, <1>4

LEMMA Behind ==
  ASSUME NEW K, NEW D, NEW L, NEW i, NEW m, NEW j, NEW n, NEW key \in Int,
         Listed(K, D, L), Ordered(D, L), LeadsTo(D, L, i, m, key),
         j \in 1..Len(L), n \in 1..Len(L[j]), i < j
  PROVE  key <= L[j][n] /\ (L[j][n] = key => i < Len(L) /\ key = D[i])
<1>0. Len(L) \in Nat /\ i \in 1..Len(L) /\ L[j][n] \in Int
  BY ListReads, KeyBounds DEF LeadsTo
<1>1. i \in 1..Len(L) - 1 /\ j - 1 \in 1..Len(L) - 1 /\ i <= j - 1 /\ j > 1 /\ i < Len(L)
  BY <1>0
<1>2. D[j - 1] <= L[j][n]
  BY <1>1, KeyBounds
<1>3. D[i] <= D[j - 1] /\ D[i] \in Int /\ D[j - 1] \in Int
  BY <1>1, DividersOrdered
<1>4. key <= D[i]
  BY <1>1 DEF LeadsTo
<1> QED
  BY <1>0, <1>1, <1>2, <1>3, <1>4

(* seek() in a sound tree.                                                  *)
SeekReads(t, K, D, L, i, m, key) ==
  LET path == Descend(t, key)
      leaf == Last(path)
  IN /\ LeadsTo(D, L, i, m, key)
     /\ leaf.index > Count(t, leaf.page) <=> m > Len(L[i])
     /\ Seek(t, key).cursor = IF m > Len(L[i]) THEN AtEnd ELSE On(Place(t, K, i, m))
     /\ Seek(t, key).exact <=> (Many(L) /\ key \in Range(D)) \/ key \in Range(L[i])
     /\ (\E j \in 1..Len(path) - 1 : key \in Range(KeysOf(t, path[j].page))) <=> Many(L) /\ key \in Range(D)

LEMMA SeekIs ==
  ASSUME NEW t, NEW K, NEW D, NEW L, NEW key \in Int, InTree(t, K, D, L), Ordered(D, L)
  PROVE  \E i, m : SeekReads(t, K, D, L, i, m, key)
<1>0. Listed(K, D, L)
  BY DEF InTree
<1>1. PICK i \in 1..Len(L) : \E m \in 1..Len(L[i]) + 1 :
           /\ Descend(t, key) = Place(t, K, i, m) /\ IndexIn(L[i], m, key)
           /\ i > 1 => D[i - 1] < key
           /\ i < Len(L) => key <= D[i]
  BY DescendIs
<1>2. PICK m \in 1..Len(L[i]) + 1 :
           /\ Descend(t, key) = Place(t, K, i, m) /\ IndexIn(L[i], m, key)
           /\ i > 1 => D[i - 1] < key
           /\ i < Len(L) => key <= D[i]
  BY <1>1
<1> DEFINE path == Descend(t, key)
           leaf == Last(path)
           in(p) == key \in Range(KeysOf(t, p))
<1>3. LeadsTo(D, L, i, m, key)
  BY <1>2 DEF LeadsTo
<1>4. leaf = At(K[i], m)
  BY <1>0, <1>2, PlaceReads
<1>5. leaf.page = K[i] /\ leaf.index = m /\ Count(t, K[i]) = Len(L[i]) /\ KeysOf(t, K[i]) = L[i]
  <2>1. Count(t, K[i]) = Len(L[i]) /\ KeysOf(t, K[i]) = L[i]
    BY Reads DEF HasKeys
  <2> QED
    BY <2>1, <1>4 DEF At
<1>6. /\ Seek(t, key).cursor = IF leaf.index > Count(t, leaf.page) THEN AtEnd ELSE On(path)
      /\ Seek(t, key).exact = (\E j \in DOMAIN path : in(path[j].page))
  BY DEF Seek
<1> HIDE DEF leaf
<1>7. /\ (\E j \in DOMAIN path : in(path[j].page)) <=> (Many(L) /\ key \in Range(D)) \/ key \in Range(L[i])
      /\ (\E j \in 1..Len(path) - 1 : in(path[j].page)) <=> Many(L) /\ key \in Range(D)
  <2>1. CASE ~Many(L)
    <3>1. path = <<At(K[i], m)>>
      BY <1>0, <1>2, <2>1, PlaceReads
    <3> HIDE DEF path, in
    <3>2. DOMAIN path = {1} /\ (\A j : j \notin 1..Len(path) - 1) /\ path[1].page = K[i]
      BY <3>1 DEF At
    <3>3. in(K[i]) <=> key \in Range(L[i])
      BY <1>5 DEF in
    <3> QED
      BY <3>2, <3>3, <2>1
  <2>2. CASE Many(L)
    <3>1. path = <<At(t.root, i), At(K[i], m)>>
      BY <1>0, <1>2, <2>2, PlaceReads
    <3> HIDE DEF path, in
    <3>2. /\ DOMAIN path = {1, 2} /\ path[1].page = t.root /\ path[2].page = K[i]
          /\ \A j : j \in 1..Len(path) - 1 <=> j = 1
      BY <3>1 DEF At
    <3>3. in(K[i]) <=> key \in Range(L[i])
      BY <1>5 DEF in
    <3>4. in(t.root) <=> key \in Range(D)
      <4>1. KeysOf(t, t.root) = D
        BY <2>2, RootReads DEF HasLeaves
      <4> QED
        BY <4>1 DEF in
    <3> QED
      BY <3>2, <3>3, <3>4, <2>2
  <2> QED
    BY <2>1, <2>2
<1>8. SeekReads(t, K, D, L, i, m, key)
  <2>1. Seek(t, key).cursor = IF m > Len(L[i]) THEN AtEnd ELSE On(Place(t, K, i, m))
    BY <1>2, <1>5, <1>6
  <2>2. Seek(t, key).exact <=> (Many(L) /\ key \in Range(D)) \/ key \in Range(L[i])
    BY <1>6, <1>7
  <2> QED
    BY <1>3, <1>5, <1>7, <2>1, <2>2 DEF SeekReads, leaf
<1> QED
  BY <1>8

(* A tree that holds the rows of a set.                                     *)
TreeOf(t, K, D, L, R) == InTree(t, K, D, L) /\ Ordered(D, L) /\ Fits(D, L) /\ Holds(L, R)

LEMMA SeekFindsKey ==
  ASSUME NEW K, NEW D, NEW L, NEW k \in Int, TreeOf(tree, K, D, L, rows)
  PROVE  ~OddSeek(k) <=>
           /\ (Seek(tree, k).exact <=> k \in rows)
           /\ Lists(Scan(tree, Seek(tree, k).cursor), {j \in rows : j >= k})
<1>0. InTree(tree, K, D, L) /\ Listed(K, D, L) /\ Ordered(D, L) /\ Holds(L, rows)
  BY DEF TreeOf, InTree
<1>1. PICK i, m : SeekReads(tree, K, D, L, i, m, k)
  BY <1>0, SeekIs
<1> DEFINE odd == Many(L) /\ k \in Range(D)
           S == {j \in rows : j >= k}
<1>2. /\ LeadsTo(D, L, i, m, k)
      /\ OddSeek(k) <=> odd \/ (m > Len(L[i]) /\ Greater(k) # {})
      /\ Seek(tree, k).cursor = IF m > Len(L[i]) THEN AtEnd ELSE On(Place(tree, K, i, m))
      /\ Seek(tree, k).exact <=> odd \/ k \in Range(L[i])
      /\ Seek(tree, k).exact \in BOOLEAN
  <2>1. Seek(tree, k).exact \in BOOLEAN
    BY DEF Seek
  <2> QED
    BY <1>1, <2>1 DEF SeekReads, OddSeek
<1>3. /\ i \in 1..Len(L) /\ L[i] \in Seq(Keys) /\ DOMAIN L[i] = 1..Len(L[i]) /\ Len(L) \in Nat
      /\ m \in 1..Len(L[i]) + 1 /\ Len(L[i]) \in Nat /\ DOMAIN D = 1..Len(L) - 1
      /\ \A x \in 1..Len(L[i]) : L[i][x] \in Int /\ (L[i][x] < k <=> x < m)
  <2>1. i \in 1..Len(L) /\ m \in 1..Len(L[i]) + 1
    BY <1>2 DEF LeadsTo, IndexIn
  <2>2. \A x \in 1..Len(L[i]) : L[i][x] \in Int /\ (L[i][x] < k <=> x < m)
    BY <1>0, <2>1, <1>2, KeyBounds DEF LeadsTo, IndexIn
  <2>3. L[i] \in Seq(Keys) /\ DOMAIN L[i] = 1..Len(L[i]) /\ Len(L) \in Nat /\ Len(L[i]) \in Nat
        /\ DOMAIN D = 1..Len(L) - 1
    BY <1>0, <2>1, ListReads
  <2> QED
    BY <2>1, <2>2, <2>3
<1>4. k \in Range(L[i]) <=> \E x \in 1..Len(L[i]) : L[i][x] = k
  BY <1>3 DEF Range
<1>5. \A j \in rows : \E a \in 1..Len(L) : \E b \in 1..Len(L[a]) : L[a][b] = j
  BY <1>0 DEF Holds
<1>6. odd => i \in 1..Len(L) - 1 /\ k = D[i]
  <2> SUFFICES ASSUME odd PROVE i \in 1..Len(L) - 1 /\ k = D[i]
    OBVIOUS
  <2>1. PICK x \in 1..Len(L) - 1 : D[x] = k
    BY <1>3 DEF Range
  <2>2. ~(x < i)
    <3> SUFFICES ASSUME x < i PROVE FALSE
      OBVIOUS
    <3>1. i - 1 \in 1..Len(L) - 1 /\ x <= i - 1 /\ i > 1
      BY <1>3
    <3>2. D[x] <= D[i - 1] /\ D[i - 1] < k /\ D[i - 1] \in Int
      BY <3>1, <1>0, <1>2, DividersOrdered DEF LeadsTo
    <3> QED
      BY <3>2, <2>1
  <2>3. ~(x > i)
    <3> SUFFICES ASSUME x > i PROVE FALSE
      OBVIOUS
    <3>1. i \in 1..Len(L) - 1 /\ i < x /\ i < Len(L)
      BY <1>3
    <3>2. D[i] < D[x] /\ k <= D[i] /\ D[i] \in Int
      BY <3>1, <1>0, <1>2, DividersOrdered DEF LeadsTo
    <3> QED
      BY <3>2, <2>1
  <2>4. x = i
    BY <2>2, <2>3, <1>3
  <2> QED
    BY <2>1, <2>4
<1>7. k \in rows /\ ~odd => k \in Range(L[i])
  <2> SUFFICES ASSUME k \in rows, ~odd PROVE k \in Range(L[i])
    OBVIOUS
  <2>1. PICK a \in 1..Len(L) : \E b \in 1..Len(L[a]) : L[a][b] = k
    BY <1>5
  <2>2. PICK b \in 1..Len(L[a]) : L[a][b] = k
    BY <2>1
  <2>6. a < i => L[a][b] < k
    BY <1>0, <1>2, Around
  <2>7. ASSUME i < a PROVE k <= L[a][b] /\ (L[a][b] = k => i < Len(L) /\ k = D[i])
    BY <2>7, <1>0, <1>2, Behind
  <2>3. ~(a < i)
    BY <2>2, <2>6
  <2>4. ~(i < a)
    <3> SUFFICES ASSUME i < a PROVE FALSE
      OBVIOUS
    <3>1. i \in 1..Len(L) - 1 /\ k = D[i]
      BY <2>2, <2>7, <1>3
    <3>2. Many(L)
      BY <3>1, <1>3 DEF Many
    <3>3. k \in Range(D)
      BY <3>1, <1>3 DEF Range
    <3> QED
      BY <3>2, <3>3
  <2>5. a = i
    BY <2>3, <2>4, <1>3
  <2> QED
    BY <2>2, <2>5, <1>4
<1>8. k \in Range(L[i]) => k \in rows
  BY <1>0, <1>3, <1>4 DEF Holds
<1>9. CASE ~(m > Len(L[i]))
  <2>1. m \in 1..Len(L[i]) /\ L[i][m] \in Int /\ L[i][m] >= k
    <3>1. m \in 1..Len(L[i])
      BY <1>9, <1>3
    <3> QED
      BY <3>1, <1>3
  <2>2. ~odd
    <3> SUFFICES ASSUME odd PROVE FALSE
      OBVIOUS
    <3>1. i \in 1..Len(L) - 1 /\ k = D[i] /\ i < Len(L)
      BY <1>6, <1>3
    <3>2. L[i][m] < D[i]
      BY <3>1, <2>1, <1>0, <1>3, KeyBounds
    <3> QED
      BY <3>1, <3>2, <2>1
  <2>3. ASSUME NEW j \in rows PROVE j >= k <=> j >= L[i][m]
    <3>1. PICK a \in 1..Len(L) : \E b \in 1..Len(L[a]) : L[a][b] = j
      BY <1>5
    <3>2. PICK b \in 1..Len(L[a]) : L[a][b] = j
      BY <3>1
    <3>3. j \in Int
      BY <3>2, <1>0, KeyBounds
    <3>4. a < i => j < k
      BY <3>2, <1>0, <1>2, Around
    <3>5. a > i => j > L[i][m]
      <4>1. i < a => L[i][m] < L[a][b]
        BY <1>0, <1>3, <2>1, KeyOrder
      <4> QED
        BY <4>1, <3>2, <3>3, <2>1, <1>3
    <3>6. a = i => j < k \/ j >= L[i][m]
      <4> SUFFICES ASSUME a = i PROVE j < k \/ j >= L[i][m]
        OBVIOUS
      <4>1. b \in 1..Len(L[i]) /\ L[i][b] = j
        BY <3>2
      <4>2. b < m \/ b = m \/ m < b
        BY <4>1, <2>1
      <4>3. m < b => L[i][m] < L[i][b]
        BY <4>1, <1>0, <1>3, <2>1, KeyOrder
      <4>4. b < m => L[i][b] < k
        BY <4>1, <1>3
      <4> QED
        BY <4>1, <4>2, <4>3, <4>4, <3>3, <2>1
    <3>7. a < i \/ a = i \/ a > i
      BY <1>3
    <3> QED
      BY <3>3, <3>4, <3>5, <3>6, <3>7, <2>1
  <2>4. S = {j \in rows : j >= L[i][m]}
    BY <2>3
  <2>5. Lists(Scan(tree, Seek(tree, k).cursor), S)
    <3>1. Lists(Scan(tree, On(Place(tree, K, i, m))), {j \in rows : j >= L[i][m]})
      BY <1>0, <1>3, <2>1, ScanFrom
    <3> HIDE DEF S
    <3> QED
      BY <3>1, <2>4, <1>2, <1>9
  <2>6. ~OddSeek(k) /\ (Seek(tree, k).exact <=> k \in rows)
    BY <2>2, <1>2, <1>7, <1>8, <1>9
  <2> QED
    BY <2>5, <2>6
<1>10. CASE m > Len(L[i])
  <2>1. k \notin Range(L[i])
    <3>1. \A x \in 1..Len(L[i]) : L[i][x] < k
      BY <1>3, <1>10
    <3> QED
      BY <3>1, <1>3, <1>4
  <2>2. Seek(tree, k).cursor = AtEnd
    BY <1>2, <1>10
  <2>3. Lists(Scan(tree, AtEnd), {})
    BY <1>0, ScanFrom
  <2>4. Lists(Scan(tree, AtEnd), S) <=> S = {}
    <3>1. Range(Scan(tree, AtEnd)) = {}
      BY <2>3 DEF Lists
    <3> HIDE DEF S
    <3> QED
      BY <3>1, <2>3 DEF Lists
  <2>5. CASE odd
    <3>1. i \in 1..Len(L) - 1 /\ k = D[i] /\ Many(L)
      BY <2>5, <1>6
    <3> DEFINE j == i + 1
    <3>2. j \in 1..Len(L) /\ j > i /\ j > 1 /\ j - 1 = i
      BY <3>1, <1>3
    <3> HIDE DEF j
    <3>3. Len(L[j]) > 0 /\ Len(L[j]) \in Nat
      BY <1>0, <3>1, <3>2, ListReads DEF Ordered
    <3>4. 1 \in 1..Len(L[j])
      BY <3>3
    <3>5. L[j][1] \in rows
      BY <3>2, <3>4, <1>0 DEF Holds
    <3>6. L[j][1] >= k
      <4>1. i < j => k <= L[j][1]
        BY <3>2, <3>4, <1>0, <1>2, Behind
      <4>2. L[j][1] \in Int /\ i < j
        BY <3>2, <3>4, <1>0, <1>3, KeyBounds
      <4> QED
        BY <4>1, <4>2
    <3>7. S # {}
      BY <3>5, <3>6
    <3> HIDE DEF S
    <3> QED
      BY <3>7, <2>2, <2>4, <2>5, <1>2 DEF S
  <2>6. CASE ~odd
    <3>1. k \notin rows /\ Seek(tree, k).exact = FALSE
      BY <2>1, <2>6, <1>2, <1>7
    <3>2. rows \in SUBSET Int
      BY <1>0, HeldKeys
    <3>3. S = Greater(k)
      <4>1. \A j \in rows : j >= k <=> j > k
        <5>1. \A j \in rows : j \in Int /\ j # k
          BY <3>1, <3>2
        <5> QED
          BY <5>1
      <4> QED
        BY <4>1 DEF Greater
    <3>4. OddSeek(k) <=> Greater(k) # {}
      BY <2>6, <1>2, <1>10
    <3>5. Lists(Scan(tree, Seek(tree, k).cursor), S) <=> Greater(k) = {}
      BY <3>3, <2>2, <2>4
    <3>6. Seek(tree, k).exact <=> k \in rows
      BY <3>1
    <3> HIDE DEF S
    <3> QED
      BY <3>4, <3>5, <3>6 DEF S
  <2> QED
    BY <2>5, <2>6
<1> QED
  BY <1>9, <1>10

-----------------------------------------------------------------------------
(* A sound tree is a search tree, and what its last entry is                *)

LEMMA RootIs ==
  ASSUME NEW t, NEW K, NEW D, NEW L, InTree(t, K, D, L)
  PROVE  IsLeaf(t, t.root) <=> ~Many(L)
<1>1. CASE Many(L)
  BY <1>1, RootReads DEF HasLeaves
<1>2. CASE ~Many(L)
  <2>1. 1 \in 1..Len(L) /\ t.root = K[1]
    BY <1>2, LeafCount DEF InTree
  <2>2. IsLeaf(t, K[1])
    BY <2>1, Reads DEF HasKeys
  <2> QED
    BY <1>2, <2>1, <2>2
<1> QED
  BY <1>1, <1>2

(* A leaf has only itself below it, the root has every page.                *)
LEMMA BelowIs ==
  ASSUME NEW K, NEW D, NEW L, InTree(tree, K, D, L)
  PROVE  /\ Below(tree.root) = Pages
         /\ \A i \in 1..Len(L) : Below(K[i]) = {K[i]}
<1> DEFINE step(f) == [q \in Pages |-> IF IsLeaf(tree, q) THEN {q}
                                       ELSE {q} \union UNION {f[c] : c \in Children(q)}]
           below == CHOOSE f : f = step(f)
           one == [q \in Pages |-> {q}]
           all == step(one)
<1>0. /\ Listed(K, D, L) /\ Pages = {tree.root} \union {K[i] : i \in 1..Len(L)}
      /\ Len(L) \in Nat /\ 1 \in 1..Len(L) /\ (~Many(L) => tree.root = K[1])
  BY LeafCount DEF InTree, Pages
<1>1. \A p : Below(p) = below[p]
  BY DEF Below
<1>2. \A i \in 1..Len(L) : IsLeaf(tree, K[i]) /\ K[i] \in Pages
  BY <1>0, Reads DEF HasKeys
<1>3. \A q \in Pages : ~IsLeaf(tree, q) => q = tree.root /\ Many(L)
  BY <1>0, <1>2, RootIs
<1>4. ~IsLeaf(tree, tree.root) => Children(tree.root) = {K[i] : i \in 1..Len(L)}
  <2> SUFFICES ASSUME ~IsLeaf(tree, tree.root) PROVE Children(tree.root) = {K[i] : i \in 1..Len(L)}
    OBVIOUS
  <2>1. Many(L)
    BY RootIs
  <2>2. Count(tree, tree.root) = Len(L) - 1 /\ \A i \in 1..Len(L) : Child(tree, tree.root, i) = K[i]
    BY <2>1, RootReads DEF HasLeaves
  <2>3. Count(tree, tree.root) + 1 = Len(L)
    BY <2>2, <1>0
  <2>4. Children(tree.root) = {Child(tree, tree.root, i) : i \in 1..Len(L)}
    BY <2>3 DEF Children
  <2>5. \A c : c \in {Child(tree, tree.root, i) : i \in 1..Len(L)} <=> c \in {K[i] : i \in 1..Len(L)}
    BY <2>2
  <2> QED
    BY <2>4, <2>5
<1>5. \A q \in Pages : IsLeaf(tree, q) => all[q] = {q}
  OBVIOUS
<1>6. \A q \in Pages : ~IsLeaf(tree, q) => \A c \in Children(q) : c \in Pages /\ IsLeaf(tree, c)
  BY <1>2, <1>3, <1>4
<1>7. step(all) = all
  <2>1. \A q \in Pages : step(all)[q] = all[q]
    <3> SUFFICES ASSUME NEW q \in Pages PROVE step(all)[q] = all[q]
      OBVIOUS
    <3>1. CASE IsLeaf(tree, q)
      BY <3>1
    <3>2. CASE ~IsLeaf(tree, q)
      <4>1. step(all)[q] = {q} \union UNION {all[c] : c \in Children(q)}
        <5> HIDE DEF all
        <5> QED
          BY <3>2
      <4>2. all[q] = {q} \union UNION {one[c] : c \in Children(q)}
        BY <3>2
      <4>3. \A c \in Children(q) : all[c] = {c} /\ one[c] = {c}
        <5>1. \A c \in Children(q) : c \in Pages /\ IsLeaf(tree, c)
          BY <1>6, <3>2
        <5>2. \A c \in Children(q) : one[c] = {c}
          BY <5>1
        <5>3. \A c \in Children(q) : all[c] = {c}
          <6> HIDE DEF all
          <6> QED
            BY <5>1, <1>5
        <5> QED
          BY <5>2, <5>3
      <4> HIDE DEF all, one
      <4>4. \A x : x \in UNION {all[c] : c \in Children(q)} <=> x \in UNION {one[c] : c \in Children(q)}
        BY <4>3
      <4>5. UNION {all[c] : c \in Children(q)} = UNION {one[c] : c \in Children(q)}
        BY <4>4
      <4> QED
        BY <4>1, <4>2, <4>5
    <3> QED
      BY <3>1, <3>2
  <2>2. step(all) = [q \in Pages |-> step(all)[q]] /\ all = [q \in Pages |-> all[q]]
    OBVIOUS
  <2> HIDE DEF step
  <2> QED
    BY <2>1, <2>2
<1>8. below = step(below)
  <2> HIDE DEF step
  <2> QED
    BY <1>7
<1> HIDE DEF below
<1>9. \A q \in Pages : IsLeaf(tree, q) => below[q] = {q}
  BY <1>8
<1>10. \A i \in 1..Len(L) : below[K[i]] = {K[i]}
  BY <1>2, <1>9
<1>11. below[tree.root] = Pages
  <2>1. CASE IsLeaf(tree, tree.root)
    <3>1. ~Many(L) /\ tree.root = K[1]
      BY <2>1, <1>0, RootIs
    <3>2. \A i \in 1..Len(L) : i = 1
      BY <3>1, LeafCount
    <3>3. Pages = {tree.root}
      <4>1. \A x : x \in Pages <=> x = tree.root
        BY <3>1, <3>2, <1>0
      <4> QED
        BY <4>1
    <3> QED
      BY <3>1, <3>3, <1>0, <1>10
  <2>2. CASE ~IsLeaf(tree, tree.root)
    <3>1. tree.root \in Pages
      BY <1>0
    <3>2. below[tree.root] = {tree.root} \union UNION {below[c] : c \in Children(tree.root)}
      BY <3>1, <2>2, <1>8
    <3>3. \A x : x \in UNION {below[c] : c \in Children(tree.root)} <=> \E i \in 1..Len(L) : x = K[i]
      <4>1. \A c \in Children(tree.root) : \E i \in 1..Len(L) : c = K[i]
        BY <2>2, <1>4
      <4>2. \A i \in 1..Len(L) : K[i] \in Children(tree.root)
        BY <2>2, <1>4
      <4>3. \A x : x \in UNION {below[c] : c \in Children(tree.root)}
                     <=> \E c \in Children(tree.root) : x \in below[c]
        OBVIOUS
      <4>4. ASSUME NEW x, NEW c \in Children(tree.root), x \in below[c] PROVE \E i \in 1..Len(L) : x = K[i]
        <5>1. PICK i \in 1..Len(L) : c = K[i]
          BY <4>1
        <5>2. below[c] = {K[i]}
          BY <5>1, <1>10
        <5> QED
          BY <5>2, <4>4
      <4>5. \A i \in 1..Len(L) : K[i] \in below[K[i]]
        BY <1>10
      <4> QED
        BY <4>2, <4>3, <4>4, <4>5
    <3>4. \A x : x \in below[tree.root] <=> x \in Pages
      BY <3>2, <3>3, <1>0
    <3> QED
      BY <3>4
  <2> QED
    BY <2>1, <2>2
<1> QED
  BY <1>1, <1>10, <1>11

LEMMA IsSearchTree ==
  ASSUME NEW K, NEW D, NEW L, TreeOf(tree, K, D, L, rows)
  PROVE  /\ Below(tree.root) = Pages
         /\ \A p \in Pages : ~IsLeaf(tree, p) =>
              /\ \A i, j \in 1..Count(tree, p) + 1 : i # j => Child(tree, p, i) # Child(tree, p, j)
              /\ \A i \in DOMAIN Cells(tree, p) : \A q \in Pages :
                   /\ q \in Below(Child(tree, p, i)) =>
                        \A k \in Range(KeysOf(tree, q)) : k < Cells(tree, p)[i].key
                   /\ q \in Below(Child(tree, p, i + 1)) =>
                        \A k \in Range(KeysOf(tree, q)) : k >= Cells(tree, p)[i].key
<1>0. /\ InTree(tree, K, D, L) /\ Listed(K, D, L) /\ Ordered(D, L)
      /\ Pages = {tree.root} \union {K[i] : i \in 1..Len(L)} /\ Len(L) \in Nat
  BY ListReads DEF TreeOf, InTree, Pages
<1> SUFFICES ASSUME NEW p \in Pages, ~IsLeaf(tree, p)
    PROVE  /\ \A i, j \in 1..Count(tree, p) + 1 : i # j => Child(tree, p, i) # Child(tree, p, j)
           /\ \A i \in DOMAIN Cells(tree, p) : \A q \in Pages :
                /\ q \in Below(Child(tree, p, i)) =>
                     \A k \in Range(KeysOf(tree, q)) : k < Cells(tree, p)[i].key
                /\ q \in Below(Child(tree, p, i + 1)) =>
                     \A k \in Range(KeysOf(tree, q)) : k >= Cells(tree, p)[i].key
  BY <1>0, BelowIs
<1>1. \A i \in 1..Len(L) : IsLeaf(tree, K[i]) /\ KeysOf(tree, K[i]) = L[i]
  BY <1>0, Reads DEF HasKeys
<1>2. p = tree.root /\ Many(L)
  BY <1>0, <1>1, RootIs
<1>3. /\ Count(tree, p) = Len(L) - 1 /\ DOMAIN Cells(tree, p) = 1..Len(L) - 1
      /\ \A i \in 1..Len(L) - 1 : Cells(tree, p)[i].key = D[i]
      /\ \A i \in 1..Len(L) : Child(tree, p, i) = K[i]
  BY <1>0, <1>2, RootReads DEF HasLeaves
<1>4. \A i, j \in 1..Count(tree, p) + 1 : i # j => Child(tree, p, i) # Child(tree, p, j)
  <2>1. Count(tree, p) + 1 = Len(L)
    BY <1>0, <1>3
  <2>2. \A i, j \in 1..Len(L) : i # j => K[i] # K[j]
    BY <1>0 DEF Listed
  <2> QED
    BY <2>1, <2>2, <1>3
<1>5. ASSUME NEW i \in 1..Len(L) - 1
      PROVE  /\ Below(Child(tree, p, i)) = {K[i]} /\ \A k \in Range(L[i]) : k < D[i]
             /\ Below(Child(tree, p, i + 1)) = {K[i + 1]} /\ \A k \in Range(L[i + 1]) : k >= D[i]
  <2> DEFINE j == i + 1
  <2>1. i \in 1..Len(L) /\ j \in 1..Len(L) /\ i < Len(L) /\ j > 1 /\ j - 1 = i
    BY <1>0
  <2> HIDE DEF j
  <2>2. Below(Child(tree, p, i)) = {K[i]} /\ Below(Child(tree, p, j)) = {K[j]}
    BY <2>1, <1>0, <1>3, BelowIs
  <2>3. DOMAIN L[i] = 1..Len(L[i]) /\ DOMAIN L[j] = 1..Len(L[j])
    BY <2>1, <1>0, ListReads
  <2>4. \A m \in 1..Len(L[i]) : L[i][m] < D[i]
    BY <2>1, <1>0, KeyBounds
  <2>5. \A m \in 1..Len(L[j]) : D[j - 1] <= L[j][m] /\ L[j][m] \in Int
    BY <2>1, <1>0, KeyBounds
  <2>6. D[i] \in Int
    BY <1>0, DividersOrdered
  <2>7. \A m \in 1..Len(L[j]) : L[j][m] >= D[i]
    BY <2>1, <2>5, <2>6
  <2>8. (\A k \in Range(L[i]) : k < D[i]) /\ \A k \in Range(L[j]) : k >= D[i]
    BY <2>3, <2>4, <2>7 DEF Range
  <2> QED
    BY <2>2, <2>8 DEF j
<1>6. ASSUME NEW i \in DOMAIN Cells(tree, p), NEW q \in Pages
      PROVE  /\ q \in Below(Child(tree, p, i)) =>
                  \A k \in Range(KeysOf(tree, q)) : k < Cells(tree, p)[i].key
             /\ q \in Below(Child(tree, p, i + 1)) =>
                  \A k \in Range(KeysOf(tree, q)) : k >= Cells(tree, p)[i].key
  <2>1. i \in 1..Len(L) - 1 /\ i \in 1..Len(L) /\ i + 1 \in 1..Len(L) /\ Cells(tree, p)[i].key = D[i]
    BY <1>0, <1>3
  <2>2. KeysOf(tree, K[i]) = L[i] /\ KeysOf(tree, K[i + 1]) = L[i + 1]
    BY <2>1, <1>1
  <2> QED
    BY <2>1, <2>2, <1>5
<1> QED
  BY <1>4, <1>6

LEMMA IsLast ==
  ASSUME NEW K, NEW D, NEW L, TreeOf(tree, K, D, L, rows), rows # {}
  PROVE  IsLeaf(tree, tree.root) <=> KeyAt(tree, LastEntry(tree)) = Max(rows)
<1> DEFINE e == LastLeaf(L)
           N == Len(L)
           m == Len(L[e])
           n == Len(L[N])
<1>0. /\ InTree(tree, K, D, L) /\ Listed(K, D, L) /\ Ordered(D, L) /\ Holds(L, rows)
      /\ N \in Nat /\ N > 0 /\ N \in 1..N
  <2>1. InTree(tree, K, D, L) /\ Listed(K, D, L) /\ Ordered(D, L) /\ Holds(L, rows)
    BY DEF TreeOf, InTree
  <2> QED
    BY <2>1, ListReads
<1>1. e \in 1..N /\ LastEntry(tree) = IF m > 0 THEN On(Place(tree, K, e, m)) ELSE AtEnd
  BY <1>0, LastIs
<1>2. m \in Nat /\ n \in Nat
  BY <1>0, <1>1, ListReads
<1>3. (Many(L) => e = N - 1 /\ N > 1) /\ (~Many(L) => e = 1 /\ N <= 1)
  BY <1>0, LeafCount DEF LastLeaf
<1> HIDE DEF e, N
<1>4. m > 0 /\ n > 0
  <2>1. CASE Many(L)
    <3>1. \A i \in 1..N : Len(L[i]) > 0
      BY <2>1, <1>0 DEF Ordered, N
    <3> QED
      BY <3>1, <1>0, <1>1
  <2>2. CASE ~Many(L)
    <3>1. PICK i \in 1..N : \E x \in 1..Len(L[i]) : TRUE
      BY <1>0 DEF Holds, N
    <3>2. i = e /\ i = N
      BY <2>2, <1>0, <1>3
    <3>3. PICK x \in 1..m : TRUE
      BY <3>1, <3>2
    <3>4. PICK y \in 1..n : TRUE
      BY <3>1, <3>2
    <3> QED
      BY <3>3, <3>4, <1>2
  <2> QED
    BY <2>1, <2>2
<1>5. m \in 1..m /\ n \in 1..n
  BY <1>2, <1>4
<1>6. KeyAt(tree, LastEntry(tree)) = L[e][m]
  <2>1. LastEntry(tree) = On(Place(tree, K, e, m))
    BY <1>1, <1>4
  <2> HIDE DEF m
  <2>2. KeyAt(tree, On(Place(tree, K, e, m))) = L[e][m]
    BY <1>0, <1>1, <1>5, CursorReads DEF m, N
  <2> QED
    BY <2>1, <2>2
<1>7. Max(rows) = L[N][n]
  <2>1. L[N][n] \in rows /\ \A k \in rows : k <= L[N][n]
    <3>1. ~(n < Len(L[N])) /\ ~(N < Len(L))
      BY <1>0, <1>2 DEF N
    <3> HIDE DEF n
    <3> QED
      BY <3>1, <1>0, <1>5, NextKeys DEF n, N
  <2>2. rows \in SUBSET Int
    BY <1>0, HeldKeys
  <2>3. \A k \in rows : L[N][n] >= k
    BY <2>1, <2>2
  <2> HIDE DEF n
  <2> QED
    BY <2>1, <2>2, <2>3, MaxIs
<1>8. IsLeaf(tree, tree.root) <=> ~Many(L)
  BY <1>0, RootIs
<1>9. CASE Many(L)
  <2>1. e < N
    BY <1>9, <1>3, <1>0
  <2> HIDE DEF m, n
  <2>2. L[e][m] < L[N][n] /\ L[e][m] \in Int
    BY <2>1, <1>0, <1>1, <1>5, KeyOrder DEF m, n, N
  <2> QED
    BY <2>2, <1>6, <1>7, <1>8, <1>9
<1>10. CASE ~Many(L)
  <2>1. e = N
    BY <1>10, <1>3, <1>0
  <2> QED
    BY <2>1, <1>6, <1>7, <1>8, <1>10
<1> QED
  BY <1>9, <1>10

-----------------------------------------------------------------------------
(* A key put into a leaf, or taken out of one                               *)

(* The i-th leaf's keys become s.                                           *)
Replaced(L1, L, i, s) == L1 = [L EXCEPT ![i] = s]

LEMMA LeafReplaced ==
  ASSUME NEW K, NEW D, NEW L, NEW L1, NEW i, NEW s \in Seq(Keys), Listed(K, D, L), i \in 1..Len(L),
         Replaced(L1, L, i, s)
  PROVE  /\ Listed(K, D, L1) /\ Len(L1) = Len(L) /\ (Many(L1) <=> Many(L))
         /\ L1[i] = s /\ \A j \in 1..Len(L) : j # i => L1[j] = L[j]
<1>1. L \in Seq(Seq(Keys)) /\ DOMAIN L = 1..Len(L) /\ Len(L) \in Nat
  BY DEF Listed
<1>2. L1 \in Seq(Seq(Keys)) /\ Len(L1) = Len(L)
  BY <1>1 DEF Replaced
<1>3. L1[i] = s /\ \A j \in 1..Len(L) : j # i => L1[j] = L[j]
  BY <1>1 DEF Replaced
<1>4. Listed(K, D, L1)
  BY <1>2 DEF Listed
<1>5. Many(L1) <=> Many(L)
  BY <1>2 DEF Many
<1> QED
  BY <1>2, <1>3, <1>4, <1>5

(* A key that the table does not have keeps the order where a search for it *)
(* leads to.                                                                *)
LEMMA OrderedPut ==
  ASSUME NEW K, NEW D, NEW L, NEW L1, NEW R, NEW i, NEW m, NEW key \in Keys,
         Listed(K, D, L), Ordered(D, L), Holds(L, R), key \notin R,
         i \in 1..Len(L), IndexIn(L[i], m, key),
         i > 1 => D[i - 1] <= key, i < Len(L) => key < D[i],
         Listed(K, D, L1), Len(L1) = Len(L), Many(L1) <=> Many(L),
         Insertion(L1[i], L[i], m, key), \A j \in 1..Len(L) : j # i => L1[j] = L[j]
  PROVE  Ordered(D, L1) /\ Holds(L1, R \union {key})
<1> DEFINE n == Len(L[i])
           s == L[i]
           r == L1[i]
<1>0. /\ Len(L) \in Nat /\ n \in Nat /\ m \in 1..n + 1 /\ DOMAIN s = 1..n /\ key \in Int
      /\ \A x \in 1..n : s[x] \in Int
  <2>1. Len(L) \in Nat /\ n \in Nat /\ DOMAIN s = 1..n
    BY ListReads
  <2>2. m \in 1..n + 1
    BY DEF IndexIn
  <2>3. \A x \in 1..n : s[x] \in Int
    BY KeyBounds
  <2> QED
    BY <2>1, <2>2, <2>3, Bounds
<1>1. Len(r) = n + 1 /\ \A x \in 1..n + 1 : r[x] = IF x < m THEN s[x] ELSE IF x = m THEN key ELSE s[x - 1]
  BY DEF Insertion
<1>2. \A x \in 1..n : s[x] # key /\ (s[x] < key <=> x < m)
  BY DEF Holds, IndexIn
<1>3. \A x, y \in 1..n : x < y => s[x] < s[y]
  BY <1>0 DEF Ordered, Increasing
<1>4. DOMAIN r = 1..n + 1
  <2>1. DOMAIN r = 1..Len(r)
    BY ListReads
  <2> QED
    BY <2>1, <1>1
<1>5. \A x \in 1..n + 1 : x = m \/ (x < m /\ x \in 1..n) \/ (x > m /\ x - 1 \in 1..n)
  BY <1>0
<1> HIDE DEF n, s, r
<1>6. Increasing(r)
  <2> SUFFICES ASSUME NEW x \in 1..n + 1, NEW y \in 1..n + 1, x < y PROVE r[x] < r[y]
    BY <1>4 DEF Increasing
  <2>1. CASE y < m
    BY <2>1, <1>0, <1>1, <1>3
  <2>2. CASE y = m
    BY <2>2, <1>0, <1>1, <1>2
  <2>3. CASE y > m
    <3>1. y - 1 \in 1..n /\ r[y] = s[y - 1] /\ ~(y - 1 < m)
      BY <2>3, <1>0, <1>1
    <3>2. s[y - 1] > key
      BY <3>1, <1>0, <1>2
    <3>3. CASE x < m
      <4>1. x \in 1..n /\ r[x] = s[x] /\ s[x] < key
        BY <3>3, <1>0, <1>1, <1>2
      <4> QED
        BY <4>1, <3>1, <3>2, <1>0
    <3>4. CASE x = m
      BY <3>1, <3>2, <3>4, <1>0, <1>1
    <3>5. CASE x > m
      <4>1. x - 1 \in 1..n /\ r[x] = s[x - 1] /\ x - 1 < y - 1
        BY <3>5, <1>0, <1>1
      <4> QED
        BY <4>1, <3>1, <1>3
    <3> QED
      BY <3>3, <3>4, <3>5, <1>0
  <2> QED
    BY <2>1, <2>2, <2>3, <1>0
<1>7. ASSUME NEW x \in 1..n + 1 PROVE r[x] = key \/ \E y \in 1..n : r[x] = s[y]
  <2>1. CASE x = m
    BY <2>1, <1>0, <1>1
  <2>2. CASE x < m
    BY <2>2, <1>0, <1>1
  <2>3. CASE x > m
    <3>1. x - 1 \in 1..n /\ r[x] = s[x - 1]
      BY <2>3, <1>0, <1>1
    <3> QED
      BY <3>1
  <2> QED
    BY <2>1, <2>2, <2>3, <1>5
<1>8. (\E x \in 1..n + 1 : r[x] = key) /\ \A y \in 1..n : \E x \in 1..n + 1 : r[x] = s[y]
  <2>1. m \in 1..n + 1 /\ r[m] = key
    BY <1>0, <1>1
  <2>2. ASSUME NEW y \in 1..n PROVE \E x \in 1..n + 1 : r[x] = s[y]
    <3>1. CASE y < m
      <4>1. y \in 1..n + 1 /\ r[y] = s[y]
        BY <3>1, <1>0, <1>1
      <4> QED
        BY <4>1
    <3>2. CASE ~(y < m)
      <4>1. y + 1 \in 1..n + 1 /\ y + 1 > m /\ (y + 1) - 1 = y
        BY <3>2, <1>0
      <4>2. r[y + 1] = s[y]
        BY <4>1, <1>0, <1>1
      <4> QED
        BY <4>1, <4>2
    <3> QED
      BY <3>1, <3>2
  <2> QED
    BY <2>1, <2>2
<1>9. ASSUME NEW j \in 1..Len(L1), NEW x \in 1..Len(L1[j])
      PROVE  (j < Len(L1) => L1[j][x] < D[j]) /\ (j > 1 => D[j - 1] <= L1[j][x])
  <2>1. j \in 1..Len(L)
    OBVIOUS
  <2>2. CASE j # i
    <3>1. L1[j] = L[j]
      BY <2>1, <2>2
    <3> QED
      BY <2>1, <3>1, KeyBounds
  <2>3. CASE j = i
    <3>1. x \in 1..n + 1 /\ L1[j][x] = r[x]
      BY <2>3, <1>1 DEF r
    <3>2. CASE r[x] = key
      BY <2>3, <3>1, <3>2
    <3>3. CASE \E y \in 1..n : r[x] = s[y]
      <4>1. PICK y \in 1..Len(L[i]) : r[x] = L[i][y]
        BY <3>3 DEF n, s
      <4>2. (i < Len(L) => L[i][y] < D[i]) /\ (i > 1 => D[i - 1] <= L[i][y])
        BY KeyBounds
      <4> QED
        BY <2>3, <3>1, <4>1, <4>2
    <3> QED
      BY <3>1, <3>2, <3>3, <1>7
  <2> QED
    BY <2>2, <2>3
<1>10. Ordered(D, L1)
  <2>1. \A j \in 1..Len(L1) : Increasing(L1[j])
    <3> SUFFICES ASSUME NEW j \in 1..Len(L1) PROVE Increasing(L1[j])
      OBVIOUS
    <3>1. CASE j = i
      BY <3>1, <1>6 DEF r
    <3>2. CASE j # i
      BY <3>2 DEF Ordered
    <3> QED
      BY <3>1, <3>2
  <2>2. Many(L1) => \A j \in 1..Len(L1) : Len(L1[j]) > 0
    <3> SUFFICES ASSUME Many(L1), NEW j \in 1..Len(L1) PROVE Len(L1[j]) > 0
      OBVIOUS
    <3>1. CASE j = i
      BY <3>1, <1>0, <1>1 DEF r
    <3>2. CASE j # i
      BY <3>2 DEF Ordered
    <3> QED
      BY <3>1, <3>2
  <2>3. Increasing(D)
    BY DEF Ordered
  <2> QED
    BY <2>1, <2>2, <2>3, <1>9 DEF Ordered
<1>11. ASSUME NEW k
       PROVE  k \in R \union {key} <=> \E j \in 1..Len(L1) : \E x \in 1..Len(L1[j]) : L1[j][x] = k
  <2>1. ASSUME NEW j \in 1..Len(L1), NEW x \in 1..Len(L1[j]), L1[j][x] = k PROVE k \in R \union {key}
    <3>1. CASE j = i
      <4>1. x \in 1..n + 1 /\ r[x] = k
        BY <2>1, <3>1, <1>1 DEF r
      <4>2. k = key \/ \E y \in 1..Len(L[i]) : k = L[i][y]
        BY <4>1, <1>7 DEF n, s
      <4> QED
        BY <4>2 DEF Holds
    <3>2. CASE j # i
      <4>1. j \in 1..Len(L) /\ x \in 1..Len(L[j]) /\ L[j][x] = k
        BY <2>1, <3>2
      <4> QED
        BY <4>1 DEF Holds
    <3> QED
      BY <3>1, <3>2
  <2>2. ASSUME k = key PROVE \E j \in 1..Len(L1) : \E x \in 1..Len(L1[j]) : L1[j][x] = k
    <3>1. PICK x \in 1..n + 1 : r[x] = key
      BY <1>8
    <3>2. i \in 1..Len(L1) /\ x \in 1..Len(L1[i]) /\ L1[i][x] = k
      BY <3>1, <2>2, <1>1 DEF r
    <3> QED
      BY <3>2
  <2>3. ASSUME k \in R PROVE \E j \in 1..Len(L1) : \E x \in 1..Len(L1[j]) : L1[j][x] = k
    <3>1. PICK j \in 1..Len(L) : \E y \in 1..Len(L[j]) : L[j][y] = k
      BY <2>3 DEF Holds
    <3>2. PICK y \in 1..Len(L[j]) : L[j][y] = k
      BY <3>1
    <3>3. CASE j = i
      <4>1. PICK x \in 1..n + 1 : r[x] = s[y]
        BY <3>2, <3>3, <1>8 DEF n, s
      <4>2. i \in 1..Len(L1) /\ x \in 1..Len(L1[i]) /\ L1[i][x] = k
        BY <4>1, <3>2, <3>3, <1>1 DEF r, s
      <4> QED
        BY <4>2
    <3>4. CASE j # i
      <4>1. j \in 1..Len(L1) /\ L1[j] = L[j]
        BY <3>4
      <4> QED
        BY <4>1, <3>2
    <3> QED
      BY <3>3, <3>4
  <2> QED
    BY <2>1, <2>2, <2>3
<1>12. Holds(L1, R \union {key})
  BY <1>11 DEF Holds
<1> QED
  BY <1>10, <1>12

(* Every key is in one place.                                               *)
LEMMA OnePlace ==
  ASSUME NEW K, NEW D, NEW L, NEW i, NEW m, NEW j, NEW x, Listed(K, D, L), Ordered(D, L),
         i \in 1..Len(L), m \in 1..Len(L[i]), j \in 1..Len(L), x \in 1..Len(L[j]), L[j][x] = L[i][m]
  PROVE  j = i /\ x = m
<1>0. Len(L) \in Nat /\ i \in Nat /\ j \in Nat /\ m \in Nat /\ x \in Nat
  BY ListReads
<1>1. L[i][m] \in Int
  BY KeyBounds
<1>2. ~(i < j) /\ ~(i = j /\ m < x)
  <2>1. (i < j => L[i][m] < L[j][x]) /\ (i = j /\ m < x => L[i][m] < L[j][x])
    BY KeyOrder
  <2> QED
    BY <2>1, <1>1
<1>3. ~(j < i) /\ ~(j = i /\ x < m)
  <2>1. (j < i => L[j][x] < L[i][m]) /\ (j = i /\ x < m => L[j][x] < L[i][m])
    BY KeyOrder
  <2> QED
    BY <2>1, <1>1
<1> QED
  BY <1>0, <1>2, <1>3

LEMMA OrderedCut ==
  ASSUME NEW K, NEW D, NEW L, NEW L1, NEW R, NEW i, NEW m,
         Listed(K, D, L), Ordered(D, L), Holds(L, R), i \in 1..Len(L), m \in 1..Len(L[i]),
         Listed(K, D, L1), Len(L1) = Len(L), Many(L1) <=> Many(L),
         Removal(L1[i], L[i], m), \A j \in 1..Len(L) : j # i => L1[j] = L[j]
  PROVE  /\ Len(L[i]) > 1 \/ ~Many(L) => Ordered(D, L1)
         /\ Holds(L1, R \ {L[i][m]})
<1> DEFINE n == Len(L[i])
           s == L[i]
           r == L1[i]
           key == L[i][m]
<1>0. /\ Len(L) \in Nat /\ n \in Nat /\ m \in 1..n /\ DOMAIN s = 1..n /\ key \in Int
      /\ \A x \in 1..n : s[x] \in Int
  <2>1. Len(L) \in Nat /\ n \in Nat /\ DOMAIN s = 1..n
    BY ListReads
  <2>3. \A x \in 1..n : s[x] \in Int
    BY KeyBounds
  <2> QED
    BY <2>1, <2>3
<1>1. Len(r) = n - 1 /\ \A x \in 1..n - 1 : r[x] = IF x < m THEN s[x] ELSE s[x + 1]
  BY DEF Removal
<1>3. \A x, y \in 1..n : x < y => s[x] < s[y]
  BY <1>0 DEF Ordered, Increasing
<1>4. DOMAIN r = 1..n - 1
  <2>1. DOMAIN r = 1..Len(r)
    BY ListReads
  <2> QED
    BY <2>1, <1>1
<1>2. s[m] = key
  OBVIOUS
<1> HIDE DEF n, s, r, key
<1>6. Increasing(r)
  <2> SUFFICES ASSUME NEW x \in 1..n - 1, NEW y \in 1..n - 1, x < y PROVE r[x] < r[y]
    BY <1>4 DEF Increasing
  <2>1. CASE y < m
    BY <2>1, <1>0, <1>1, <1>3
  <2>2. CASE ~(y < m)
    <3>1. y + 1 \in 1..n /\ r[y] = s[y + 1]
      BY <2>2, <1>0, <1>1
    <3>2. CASE x < m
      BY <3>1, <3>2, <1>0, <1>1, <1>3
    <3>3. CASE ~(x < m)
      <4>1. x + 1 \in 1..n /\ r[x] = s[x + 1] /\ x + 1 < y + 1
        BY <3>3, <1>0, <1>1
      <4> QED
        BY <4>1, <3>1, <1>3
    <3> QED
      BY <3>2, <3>3
  <2> QED
    BY <2>1, <2>2
<1>7. ASSUME NEW x \in 1..n - 1 PROVE \E y \in 1..n : y # m /\ r[x] = s[y]
  <2>1. CASE x < m
    <3>1. x \in 1..n /\ x # m /\ r[x] = s[x]
      BY <2>1, <1>0, <1>1
    <3> QED
      BY <3>1
  <2>2. CASE ~(x < m)
    <3>1. x + 1 \in 1..n /\ x + 1 # m /\ r[x] = s[x + 1]
      BY <2>2, <1>0, <1>1
    <3> QED
      BY <3>1
  <2> QED
    BY <2>1, <2>2
<1>8. ASSUME NEW y \in 1..n, y # m PROVE \E x \in 1..n - 1 : r[x] = s[y]
  <2>1. CASE y < m
    <3>1. y \in 1..n - 1 /\ r[y] = s[y]
      BY <2>1, <1>0, <1>1
    <3> QED
      BY <3>1
  <2>2. CASE ~(y < m)
    <3>1. y - 1 \in 1..n - 1 /\ ~(y - 1 < m) /\ (y - 1) + 1 = y
      BY <2>2, <1>0, <1>8
    <3>2. r[y - 1] = s[y]
      BY <3>1, <1>1
    <3> QED
      BY <3>1, <3>2
  <2> QED
    BY <2>1, <2>2
<1>9. ASSUME NEW j \in 1..Len(L1), NEW x \in 1..Len(L1[j])
      PROVE  (j < Len(L1) => L1[j][x] < D[j]) /\ (j > 1 => D[j - 1] <= L1[j][x])
  <2>1. j \in 1..Len(L)
    OBVIOUS
  <2>2. CASE j # i
    <3>1. L1[j] = L[j]
      BY <2>1, <2>2
    <3> QED
      BY <2>1, <3>1, KeyBounds
  <2>3. CASE j = i
    <3>1. x \in 1..n - 1 /\ L1[j][x] = r[x]
      BY <2>3, <1>1 DEF r
    <3>2. PICK y \in 1..Len(L[i]) : r[x] = L[i][y]
      BY <3>1, <1>7 DEF n, s
    <3>3. (i < Len(L) => L[i][y] < D[i]) /\ (i > 1 => D[i - 1] <= L[i][y])
      BY KeyBounds
    <3> QED
      BY <2>3, <3>1, <3>2, <3>3
  <2> QED
    BY <2>2, <2>3
<1>10. ASSUME n > 1 \/ ~Many(L) PROVE Ordered(D, L1)
  <2>1. \A j \in 1..Len(L1) : Increasing(L1[j])
    <3> SUFFICES ASSUME NEW j \in 1..Len(L1) PROVE Increasing(L1[j])
      OBVIOUS
    <3>1. CASE j = i
      BY <3>1, <1>6 DEF r
    <3>2. CASE j # i
      BY <3>2 DEF Ordered
    <3> QED
      BY <3>1, <3>2
  <2>2. Many(L1) => \A j \in 1..Len(L1) : Len(L1[j]) > 0
    <3> SUFFICES ASSUME Many(L1), NEW j \in 1..Len(L1) PROVE Len(L1[j]) > 0
      OBVIOUS
    <3>1. CASE j = i
      <4>1. Len(L1[j]) = n - 1 /\ n > 1
        BY <3>1, <1>1, <1>10 DEF r
      <4> QED
        BY <4>1, <1>0
    <3>2. CASE j # i
      BY <3>2 DEF Ordered
    <3> QED
      BY <3>1, <3>2
  <2>3. Increasing(D)
    BY DEF Ordered
  <2> QED
    BY <2>1, <2>2, <2>3, <1>9 DEF Ordered
<1>11. ASSUME NEW k
       PROVE  k \in R \ {key} <=> \E j \in 1..Len(L1) : \E x \in 1..Len(L1[j]) : L1[j][x] = k
  <2>1. ASSUME NEW j \in 1..Len(L1), NEW x \in 1..Len(L1[j]), L1[j][x] = k PROVE k \in R \ {key}
    <3>1. CASE j = i
      <4>1. x \in 1..n - 1 /\ r[x] = k
        BY <2>1, <3>1, <1>1 DEF r
      <4>2. PICK y \in 1..Len(L[i]) : y # m /\ k = L[i][y]
        BY <4>1, <1>7 DEF n, s
      <4>3. k # key
        BY <4>2, OnePlace DEF key
      <4> QED
        BY <4>2, <4>3 DEF Holds
    <3>2. CASE j # i
      <4>1. j \in 1..Len(L) /\ x \in 1..Len(L[j]) /\ L[j][x] = k
        BY <2>1, <3>2
      <4>2. k # key
        BY <4>1, <3>2, OnePlace DEF key
      <4> QED
        BY <4>1, <4>2 DEF Holds
    <3> QED
      BY <3>1, <3>2
  <2>3. ASSUME k \in R, k # key PROVE \E j \in 1..Len(L1) : \E x \in 1..Len(L1[j]) : L1[j][x] = k
    <3>1. PICK j \in 1..Len(L) : \E y \in 1..Len(L[j]) : L[j][y] = k
      BY <2>3 DEF Holds
    <3>2. PICK y \in 1..Len(L[j]) : L[j][y] = k
      BY <3>1
    <3>3. CASE j = i
      <4>0. y \in 1..n /\ y # m
        BY <3>2, <3>3, <2>3, <1>2 DEF n, s
      <4>1. PICK x \in 1..n - 1 : r[x] = s[y]
        BY <4>0, <1>8
      <4>2. i \in 1..Len(L1) /\ x \in 1..Len(L1[i]) /\ L1[i][x] = k
        BY <4>1, <3>2, <3>3, <1>1 DEF r, s
      <4> QED
        BY <4>2
    <3>4. CASE j # i
      <4>1. j \in 1..Len(L1) /\ L1[j] = L[j]
        BY <3>4
      <4> QED
        BY <4>1, <3>2
    <3> QED
      BY <3>3, <3>4
  <2> QED
    BY <2>1, <2>3
<1>12. Holds(L1, R \ {key})
  BY <1>11 DEF Holds
<1> QED
  BY <1>10, <1>12 DEF n, key

-----------------------------------------------------------------------------
(* A leaf split in two, or taken out                                        *)

(* The i-th leaf becomes the two leaves lo and up, the second one on page p.*)
Split(K, D, L, K2, D2, L2, i, p, lo, up) ==
  /\ lo \in Seq(Keys) /\ up \in Seq(Keys) /\ Len(lo) > 0 /\ Len(up) > 0
  /\ Len(L[i]) = Len(lo) + Len(up)
  /\ \A x \in 1..Len(lo) : lo[x] = L[i][x]
  /\ \A x \in 1..Len(up) : up[x] = L[i][Len(lo) + x]
  /\ K2 = InsertAt(K, i + 1, p)
  /\ D2 = InsertAt(D, i, up[1])
  /\ L2 = InsertAt([L EXCEPT ![i] = lo], i + 1, up)

(* The place that the j-th of the new leaves has in the old ones.           *)
SplitReads(K, D, L, K2, D2, L2, i, p, lo, up) ==
  /\ Len(L2) = Len(L) + 1 /\ Len(K2) = Len(L) + 1 /\ Len(D2) = Len(L)
  /\ \A j \in 1..Len(L) + 1 :
       /\ j < i => K2[j] = K[j] /\ L2[j] = L[j]
       /\ j = i => K2[j] = K[i] /\ L2[j] = lo
       /\ j = i + 1 => K2[j] = p /\ L2[j] = up
       /\ j > i + 1 => K2[j] = K[j - 1] /\ L2[j] = L[j - 1]
  /\ \A j \in 1..Len(L) :
       /\ j < i => D2[j] = D[j]
       /\ j = i => D2[j] = up[1]
       /\ j > i => D2[j] = D[j - 1]

LEMMA SplitLists ==
  ASSUME NEW K, NEW D, NEW L, NEW K2, NEW D2, NEW L2, NEW i, NEW p, NEW lo, NEW up,
         Listed(K, D, L), i \in 1..Len(L), p \in Nat \ {0}, \A j \in 1..Len(L) : K[j] # p,
         Split(K, D, L, K2, D2, L2, i, p, lo, up)
  PROVE  Listed(K2, D2, L2) /\ Many(L2) /\ SplitReads(K, D, L, K2, D2, L2, i, p, lo, up)
<1> DEFINE L1 == [L EXCEPT ![i] = lo]
           N == Len(L)
           PN == Nat \ {0}
           SK == Seq(Keys)
<1>0. /\ N \in Nat /\ i \in 1..N /\ L \in Seq(SK) /\ K \in Seq(PN) /\ Len(K) = N
      /\ D \in Seq(Keys) /\ Len(D) = N - 1 /\ lo \in SK /\ up \in SK /\ up[1] \in Keys /\ p \in PN
      /\ DOMAIN L = 1..N
  <2>1. lo \in SK /\ up \in SK /\ Len(up) > 0
    BY DEF Split
  <2>2. up[1] \in Keys
    BY <2>1
  <2> QED
    BY <2>1, <2>2 DEF Listed
<1>1. L1 \in Seq(SK) /\ Len(L1) = N /\ L1[i] = lo /\ \A j \in 1..N : j # i => L1[j] = L[j]
  BY <1>0
<1> HIDE DEF L1, N, PN, SK
<1>2. L2 \in Seq(SK) /\ Insertion(L2, L1, i + 1, up)
  <2>1. i + 1 \in 1..Len(L1) + 1
    BY <1>0, <1>1
  <2>2. L2 = InsertAt(L1, i + 1, up)
    BY DEF Split, L1
  <2> QED
    BY <2>1, <2>2, <1>0, <1>1, InsertedAt
<1>3. K2 \in Seq(PN) /\ Insertion(K2, K, i + 1, p)
  <2>1. i + 1 \in 1..Len(K) + 1
    BY <1>0
  <2>2. K2 = InsertAt(K, i + 1, p)
    BY DEF Split
  <2> QED
    BY <2>1, <2>2, <1>0, InsertedAt
<1>4. D2 \in Seq(Keys) /\ Insertion(D2, D, i, up[1])
  <2>1. i \in 1..Len(D) + 1
    BY <1>0
  <2>2. D2 = InsertAt(D, i, up[1])
    BY DEF Split
  <2> QED
    BY <2>1, <2>2, <1>0, InsertedAt
<1>5. Len(L2) = N + 1 /\ \A j \in 1..N + 1 :
        L2[j] = IF j < i + 1 THEN L1[j] ELSE IF j = i + 1 THEN up ELSE L1[j - 1]
  BY <1>1, <1>2 DEF Insertion
<1>6. Len(K2) = N + 1 /\ \A j \in 1..N + 1 :
        K2[j] = IF j < i + 1 THEN K[j] ELSE IF j = i + 1 THEN p ELSE K[j - 1]
  BY <1>0, <1>3 DEF Insertion
<1>7. Len(D2) = N /\ \A j \in 1..N :
        D2[j] = IF j < i THEN D[j] ELSE IF j = i THEN up[1] ELSE D[j - 1]
  <2>1. Len(D2) = Len(D) + 1 /\ \A j \in 1..Len(D) + 1 :
          D2[j] = IF j < i THEN D[j] ELSE IF j = i THEN up[1] ELSE D[j - 1]
    BY <1>4 DEF Insertion
  <2>2. Len(D) + 1 = N
    BY <1>0
  <2> QED
    BY <2>1, <2>2
<1>8. \A j, x \in 1..N + 1 : j # x => K2[j] # K2[x]
  <2>1. \A j, x \in 1..N : j # x => K[j] # K[x]
    BY DEF Listed, N
  <2>2. \A j \in 1..N : K[j] # p
    BY DEF N
  <2>3. \A j \in 1..N + 1 : (j < i + 1 /\ j \in 1..N) \/ j = i + 1 \/ (j > i + 1 /\ j - 1 \in 1..N)
    BY <1>0
  <2> SUFFICES ASSUME NEW j \in 1..N + 1, NEW x \in 1..N + 1, j # x PROVE K2[j] # K2[x]
    OBVIOUS
  <2>4. CASE j < i + 1
    <3>1. j \in 1..N /\ K2[j] = K[j]
      BY <2>3, <2>4, <1>0, <1>6
    <3>2. CASE x > i + 1
      <4>1. x - 1 \in 1..N /\ K2[x] = K[x - 1] /\ j # x - 1
        BY <2>3, <2>4, <3>2, <1>0, <1>6
      <4> QED
        BY <3>1, <4>1, <2>1
    <3>3. CASE x = i + 1
      BY <3>1, <3>3, <2>2, <1>6
    <3>4. CASE x < i + 1
      BY <3>1, <3>4, <2>1, <2>3, <1>0, <1>6
    <3> QED
      BY <3>2, <3>3, <3>4, <1>0
  <2>5. CASE j = i + 1
    <3>1. K2[j] = p
      BY <2>5, <1>6
    <3>2. CASE x > i + 1
      <4>1. x - 1 \in 1..N /\ K2[x] = K[x - 1]
        BY <2>3, <3>2, <1>0, <1>6
      <4> QED
        BY <3>1, <4>1, <2>2
    <3>3. CASE x < i + 1
      <4>1. x \in 1..N /\ K2[x] = K[x]
        BY <2>3, <3>3, <1>0, <1>6
      <4> QED
        BY <3>1, <4>1, <2>2
    <3> QED
      BY <3>2, <3>3, <2>5, <1>0
  <2>6. CASE j > i + 1
    <3>1. j - 1 \in 1..N /\ K2[j] = K[j - 1]
      BY <2>3, <2>6, <1>0, <1>6
    <3>2. CASE x > i + 1
      <4>1. x - 1 \in 1..N /\ K2[x] = K[x - 1] /\ j - 1 # x - 1
        BY <2>3, <3>2, <1>0, <1>6
      <4> QED
        BY <3>1, <4>1, <2>1
    <3>3. CASE x = i + 1
      BY <3>1, <3>3, <2>2, <1>6
    <3>4. CASE x < i + 1
      <4>1. x \in 1..N /\ K2[x] = K[x] /\ j - 1 # x
        BY <2>3, <2>6, <3>4, <1>0, <1>6
      <4> QED
        BY <3>1, <4>1, <2>1
    <3> QED
      BY <3>2, <3>3, <3>4, <1>0
  <2> QED
    BY <2>4, <2>5, <2>6, <1>0
<1>9. Listed(K2, D2, L2)
  <2>1. Len(L2) \in Nat \ {0} /\ Len(D2) = Len(L2) - 1 /\ Len(K2) = Len(L2)
    BY <1>0, <1>5, <1>6, <1>7
  <2>2. \A j, x \in 1..Len(L2) : j # x => K2[j] # K2[x]
    BY <1>5, <1>8
  <2> QED
    BY <2>1, <2>2, <1>2, <1>3, <1>4 DEF Listed, PN, SK
<1>10. Many(L2)
  BY <1>0, <1>5 DEF Many
<1>11. \A j \in 1..N + 1 :
       /\ j < i => K2[j] = K[j] /\ L2[j] = L[j]
       /\ j = i => K2[j] = K[i] /\ L2[j] = lo
       /\ j = i + 1 => K2[j] = p /\ L2[j] = up
       /\ j > i + 1 => K2[j] = K[j - 1] /\ L2[j] = L[j - 1]
  <2> SUFFICES ASSUME NEW j \in 1..N + 1
               PROVE  /\ j < i => K2[j] = K[j] /\ L2[j] = L[j]
                      /\ j = i => K2[j] = K[i] /\ L2[j] = lo
                      /\ j = i + 1 => K2[j] = p /\ L2[j] = up
                      /\ j > i + 1 => K2[j] = K[j - 1] /\ L2[j] = L[j - 1]
    OBVIOUS
  <2>1. j < i => j \in 1..N /\ j # i /\ j < i + 1
    BY <1>0
  <2>2. j > i + 1 => j - 1 \in 1..N /\ j - 1 # i /\ ~(j < i + 1) /\ j # i + 1
    BY <1>0
  <2>3. j = i => j < i + 1
    BY <1>0
  <2>4. j = i + 1 => ~(j < i + 1)
    BY <1>0
  <2> QED
    BY <2>1, <2>2, <2>3, <2>4, <1>1, <1>5, <1>6
<1>12. \A j \in 1..N :
       /\ j < i => D2[j] = D[j]
       /\ j = i => D2[j] = up[1]
       /\ j > i => D2[j] = D[j - 1]
  BY <1>0, <1>7
<1> QED
  BY <1>5, <1>6, <1>7, <1>9, <1>10, <1>11, <1>12 DEF SplitReads, N

LEMMA SplitOrdered ==
  ASSUME NEW K, NEW D, NEW L, NEW K2, NEW D2, NEW L2, NEW i, NEW p, NEW lo, NEW up,
         Listed(K, D, L), Ordered(D, L), Listed(K2, D2, L2), i \in 1..Len(L),
         Split(K, D, L, K2, D2, L2, i, p, lo, up), SplitReads(K, D, L, K2, D2, L2, i, p, lo, up)
  PROVE  Ordered(D2, L2)
<1> DEFINE N == Len(L)
           a == Len(lo)
           b == Len(up)
           s == L[i]
<1>0. /\ N \in Nat /\ i \in 1..N /\ a \in Nat /\ b \in Nat /\ a > 0 /\ b > 0 /\ Len(s) = a + b
      /\ lo \in Seq(Keys) /\ up \in Seq(Keys) /\ DOMAIN lo = 1..a /\ DOMAIN up = 1..b
  <2>1. lo \in Seq(Keys) /\ up \in Seq(Keys) /\ a > 0 /\ b > 0 /\ Len(s) = a + b
    BY DEF Split
  <2>2. N \in Nat
    BY ListReads
  <2> QED
    BY <2>1, <2>2
<1>1. /\ \A x \in 1..a : x \in 1..Len(s) /\ lo[x] = s[x]
      /\ \A x \in 1..b : a + x \in 1..Len(s) /\ up[x] = s[a + x]
  <2>1. (\A x \in 1..a : lo[x] = s[x]) /\ \A x \in 1..b : up[x] = s[a + x]
    BY DEF Split
  <2> HIDE DEF a, b, s
  <2> QED
    BY <2>1, <1>0
<1>2. /\ Len(L2) = N + 1 /\ Len(D2) = N
      /\ \A j \in 1..N + 1 : /\ j < i => L2[j] = L[j]
                             /\ j = i => L2[j] = lo
                             /\ j = i + 1 => L2[j] = up
                             /\ j > i + 1 => L2[j] = L[j - 1]
      /\ \A j \in 1..N : /\ j < i => D2[j] = D[j]
                         /\ j = i => D2[j] = up[1]
                         /\ j > i => D2[j] = D[j - 1]
  BY DEF SplitReads
<1>3. /\ \A x, y \in 1..Len(s) : x < y => s[x] < s[y]
      /\ \A x \in 1..Len(s) : /\ s[x] \in Int
                              /\ i < N => s[x] < D[i]
                              /\ i > 1 => D[i - 1] <= s[x]
  <2>1. \A x, y \in 1..Len(s) : x < y => s[x] < s[y]
    BY KeyOrder
  <2> QED
    BY <2>1, KeyBounds
<1>4. /\ \A x \in 1..N - 1 : D[x] \in Int
      /\ \A x, y \in 1..N - 1 : x < y => D[x] < D[y]
      /\ \A x, y \in 1..N - 1 : x <= y => D[x] <= D[y]
  BY DividersOrdered
<1>5. 1 \in 1..b /\ a + 1 \in 1..Len(s) /\ 1 \in 1..Len(s) /\ 1 < a + 1 /\ up[1] = s[a + 1] /\ up[1] \in Int
  <2>1. 1 \in 1..b /\ 1 \in 1..a /\ 1 < a + 1
    BY <1>0
  <2>2. up[1] = s[a + 1] /\ a + 1 \in 1..Len(s) /\ 1 \in 1..Len(s)
    BY <2>1, <1>1
  <2> QED
    BY <2>1, <2>2, <1>3
<1>6. DOMAIN D2 = 1..N
  <2>1. DOMAIN D2 = 1..Len(L2) - 1
    BY ListReads
  <2> QED
    BY <2>1, <1>0, <1>2
<1>7. Increasing(lo) /\ Increasing(up)
  <2>1. ASSUME NEW x \in 1..a, NEW y \in 1..a, x < y PROVE lo[x] < lo[y]
    BY <2>1, <1>1, <1>3
  <2>2. ASSUME NEW x \in 1..b, NEW y \in 1..b, x < y PROVE up[x] < up[y]
    <3>1. a + x \in 1..Len(s) /\ a + y \in 1..Len(s) /\ up[x] = s[a + x] /\ up[y] = s[a + y]
      BY <1>1
    <3>2. a + x < a + y
      BY <2>2, <1>0
    <3> QED
      BY <3>1, <3>2, <1>3
  <2> QED
    BY <2>1, <2>2, <1>0 DEF Increasing
<1>8. Increasing(D2)
  <2> SUFFICES ASSUME NEW x \in 1..N, NEW y \in 1..N, x < y PROVE D2[x] < D2[y]
    BY <1>6 DEF Increasing
  <2> HIDE DEF N, a, b, s
  <2>0. /\ \A z \in 1..N : z < i => D2[z] = D[z] /\ z \in 1..N - 1
        /\ \A z \in 1..N : z > i => D2[z] = D[z - 1] /\ z - 1 \in 1..N - 1
    BY <1>0, <1>2
  <2>1. CASE y < i
    <3>1. D2[x] = D[x] /\ D2[y] = D[y] /\ x \in 1..N - 1 /\ y \in 1..N - 1
      BY <2>0, <2>1, <1>0
    <3> QED
      BY <3>1, <1>4
  <2>2. CASE y = i
    <3>1. D2[x] = D[x] /\ D2[y] = s[a + 1] /\ x \in 1..N - 1
      BY <2>0, <2>2, <1>2, <1>5
    <3>2. i > 1 /\ i - 1 \in 1..N - 1 /\ x <= i - 1
      BY <2>2, <1>0
    <3>3. D[x] <= D[i - 1] /\ D[i - 1] <= s[1] /\ s[1] < s[a + 1]
      BY <3>1, <3>2, <1>3, <1>4, <1>5
    <3> QED
      BY <3>1, <3>2, <3>3, <1>3, <1>4, <1>5
  <2>3. CASE y > i
    <3>1. D2[y] = D[y - 1] /\ y - 1 \in 1..N - 1
      BY <2>0, <2>3
    <3>2. CASE x < i
      <4>1. D2[x] = D[x] /\ x \in 1..N - 1 /\ x < y - 1
        BY <2>0, <2>3, <3>2, <1>0
      <4> QED
        BY <3>1, <4>1, <1>4
    <3>3. CASE x = i
      <4>1. D2[x] = s[a + 1] /\ i \in 1..N - 1 /\ i < N /\ i <= y - 1
        BY <3>3, <2>3, <1>0, <1>2, <1>5
      <4>2. s[a + 1] < D[i] /\ D[i] <= D[y - 1]
        BY <3>1, <4>1, <1>3, <1>4, <1>5
      <4> QED
        BY <3>1, <4>1, <4>2, <1>3, <1>4, <1>5
    <3>4. CASE x > i
      <4>1. D2[x] = D[x - 1] /\ x - 1 \in 1..N - 1 /\ x - 1 < y - 1
        BY <2>0, <3>4, <1>0
      <4> QED
        BY <3>1, <4>1, <1>4
    <3> QED
      BY <3>2, <3>3, <3>4, <1>0
  <2> QED
    BY <2>1, <2>2, <2>3, <1>0
<1>9. ASSUME NEW j \in 1..N + 1, NEW m \in 1..Len(L2[j])
      PROVE  (j < N + 1 => L2[j][m] < D2[j]) /\ (j > 1 => D2[j - 1] <= L2[j][m])
  <2>1. CASE j < i
    <3>1. L2[j] = L[j] /\ j \in 1..N /\ j < N /\ D2[j] = D[j] /\ m \in 1..Len(L[j])
      BY <2>1, <1>0, <1>2
    <3>2. j > 1 => D2[j - 1] = D[j - 1]
      <4>1. j > 1 => j - 1 \in 1..N /\ j - 1 < i
        BY <2>1, <1>0
      <4> QED
        BY <4>1, <1>2
    <3>3. L[j][m] < D[j] /\ (j > 1 => D[j - 1] <= L[j][m])
      BY <3>1, KeyBounds
    <3> QED
      BY <3>1, <3>2, <3>3
  <2>2. CASE j = i
    <3>1. L2[j] = lo /\ m \in 1..a /\ D2[j] = s[a + 1]
      BY <2>2, <1>0, <1>2, <1>5
    <3>2. m \in 1..Len(s) /\ lo[m] = s[m]
      BY <3>1, <1>1
    <3>3. s[m] < s[a + 1]
      <4>1. m < a + 1
        BY <3>1, <1>0
      <4> QED
        BY <3>2, <4>1, <1>3, <1>5
    <3>4. j > 1 => D2[j - 1] = D[j - 1] /\ D[j - 1] <= s[m]
      <4>1. j > 1 => j - 1 \in 1..N /\ j - 1 < i
        BY <2>2, <1>0
      <4> QED
        BY <2>2, <3>2, <4>1, <1>2, <1>3
    <3> QED
      BY <3>1, <3>2, <3>3, <3>4
  <2>3. CASE j = i + 1
    <3>1. L2[j] = up /\ m \in 1..b /\ j - 1 = i /\ D2[j - 1] = s[a + 1]
      BY <2>3, <1>0, <1>2, <1>5
    <3>2. a + m \in 1..Len(s) /\ up[m] = s[a + m]
      BY <3>1, <1>1
    <3>3. s[a + 1] <= s[a + m]
      <4>1. CASE m = 1
        BY <4>1, <1>3, <1>5
      <4>2. CASE m # 1
        <5>1. a + 1 < a + m
          BY <3>1, <4>2, <1>0
        <5> QED
          BY <3>2, <5>1, <1>3, <1>5
      <4> QED
        BY <4>1, <4>2
    <3>4. j < N + 1 => D2[j] = D[i] /\ s[a + m] < D[i]
      <4>1. j < N + 1 => j \in 1..N /\ j > i /\ i < N
        BY <2>3, <1>0
      <4> QED
        BY <3>1, <3>2, <4>1, <1>2, <1>3
    <3> QED
      BY <3>1, <3>2, <3>3, <3>4
  <2>4. CASE j > i + 1
    <3> DEFINE x == j - 1
    <3>1. L2[j] = L[x] /\ x \in 1..N /\ x > 1 /\ x > i /\ D2[x] = D[x - 1] /\ m \in 1..Len(L[x])
      BY <2>4, <1>0, <1>2
    <3>2. j < N + 1 => D2[j] = D[x] /\ x < N
      <4>1. j < N + 1 => j \in 1..N /\ j > i
        BY <2>4, <1>0
      <4> QED
        BY <4>1, <1>2
    <3> HIDE DEF x
    <3>3. (x < N => L[x][m] < D[x]) /\ D[x - 1] <= L[x][m]
      BY <3>1, KeyBounds
    <3> QED
      BY <3>1, <3>2, <3>3 DEF x
  <2> QED
    BY <2>1, <2>2, <2>3, <2>4, <1>0
<1>10. ASSUME NEW j \in 1..N + 1 PROVE Increasing(L2[j]) /\ Len(L2[j]) > 0
  <2>1. CASE j = i \/ j = i + 1
    BY <2>1, <1>0, <1>2, <1>7
  <2>2. CASE j < i
    <3>1. L2[j] = L[j] /\ j \in 1..N /\ N > 1
      BY <2>2, <1>0, <1>2
    <3> QED
      BY <3>1 DEF Ordered, Many
  <2>3. CASE j > i + 1
    <3>1. L2[j] = L[j - 1] /\ j - 1 \in 1..N /\ N > 1
      BY <2>3, <1>0, <1>2
    <3> QED
      BY <3>1 DEF Ordered, Many
  <2> QED
    BY <2>1, <2>2, <2>3, <1>0
<1> QED
  <2>1. \A j \in 1..Len(L2), m \in Nat : m \in 1..Len(L2[j]) =>
          /\ j < Len(L2) => L2[j][m] < D2[j]
          /\ j > 1 => D2[j - 1] <= L2[j][m]
    BY <1>2, <1>9
  <2>2. \A j \in 1..Len(L2) : Increasing(L2[j]) /\ Len(L2[j]) > 0
    BY <1>2, <1>10
  <2> QED
    BY <2>1, <2>2, <1>8 DEF Ordered

LEMMA SplitHolds ==
  ASSUME NEW K, NEW D, NEW L, NEW K2, NEW D2, NEW L2, NEW i, NEW p, NEW lo, NEW up, NEW R,
         Listed(K, D, L), Holds(L, R), i \in 1..Len(L),
         Split(K, D, L, K2, D2, L2, i, p, lo, up), SplitReads(K, D, L, K2, D2, L2, i, p, lo, up)
  PROVE  Holds(L2, R)
<1> DEFINE N == Len(L)
           a == Len(lo)
           b == Len(up)
           s == L[i]
<1>0. N \in Nat /\ i \in 1..N /\ a \in Nat /\ b \in Nat /\ Len(s) = a + b
  <2>1. lo \in Seq(Keys) /\ up \in Seq(Keys) /\ Len(s) = a + b
    BY DEF Split
  <2>2. N \in Nat
    BY ListReads
  <2> QED
    BY <2>1, <2>2
<1>1. (\A x \in 1..a : lo[x] = s[x]) /\ \A x \in 1..b : up[x] = s[a + x]
  BY DEF Split
<1>2. /\ Len(L2) = N + 1
      /\ \A j \in 1..N + 1 : /\ j < i => L2[j] = L[j]
                             /\ j = i => L2[j] = lo
                             /\ j = i + 1 => L2[j] = up
                             /\ j > i + 1 => L2[j] = L[j - 1]
  BY DEF SplitReads
<1>3. ASSUME NEW j \in 1..N + 1, NEW m \in 1..Len(L2[j])
      PROVE  \E x \in 1..N : \E y \in 1..Len(L[x]) : L[x][y] = L2[j][m]
  <2>1. CASE j < i
    <3>1. j \in 1..N /\ L2[j] = L[j]
      BY <2>1, <1>0, <1>2
    <3> QED
      BY <3>1
  <2>2. CASE j = i
    <3>1. L2[j] = lo /\ m \in 1..a
      BY <2>2, <1>2
    <3>2. m \in 1..Len(L[i]) /\ L[i][m] = lo[m]
      BY <3>1, <1>0, <1>1
    <3> QED
      BY <3>1, <3>2, <1>0
  <2>3. CASE j = i + 1
    <3>1. L2[j] = up /\ m \in 1..b
      BY <2>3, <1>2
    <3>2. a + m \in 1..Len(L[i]) /\ L[i][a + m] = up[m]
      BY <3>1, <1>0, <1>1
    <3> QED
      BY <3>1, <3>2, <1>0
  <2>4. CASE j > i + 1
    <3>1. j - 1 \in 1..N /\ L2[j] = L[j - 1]
      BY <2>4, <1>0, <1>2
    <3> QED
      BY <3>1
  <2>5. j < i \/ j = i \/ j = i + 1 \/ j > i + 1
    BY <1>0
  <2> QED
    BY <2>1, <2>2, <2>3, <2>4, <2>5
<1>4. ASSUME NEW x \in 1..N, NEW y \in 1..Len(L[x])
      PROVE  \E j \in 1..N + 1 : \E m \in 1..Len(L2[j]) : L2[j][m] = L[x][y]
  <2>1. CASE x < i
    <3>1. x \in 1..N + 1 /\ L2[x] = L[x]
      BY <2>1, <1>0, <1>2
    <3> QED
      BY <3>1
  <2>2. CASE x = i /\ y <= a
    <3>1. i \in 1..N + 1 /\ L2[i] = lo /\ y \in 1..a
      BY <2>2, <1>0, <1>2
    <3>2. lo[y] = L[x][y]
      BY <3>1, <2>2, <1>1
    <3> QED
      BY <3>1, <3>2
  <2>3. CASE x = i /\ y > a
    <3>1. i + 1 \in 1..N + 1 /\ L2[i + 1] = up /\ y - a \in 1..b /\ a + (y - a) = y
      <4>1. y \in 1..a + b
        BY <2>3, <1>0
      <4> HIDE DEF a, b, N
      <4> QED
        BY <4>1, <2>3, <1>0, <1>2
    <3>2. up[y - a] = L[x][y]
      BY <3>1, <2>3, <1>1
    <3> QED
      BY <3>1, <3>2
  <2>4. CASE x > i
    <3>1. x + 1 \in 1..N + 1 /\ x + 1 > i + 1 /\ (x + 1) - 1 = x
      BY <2>4, <1>0
    <3>2. L2[x + 1] = L[x]
      BY <3>1, <1>2
    <3> QED
      BY <3>1, <3>2
  <2>5. x < i \/ (x = i /\ y <= a) \/ (x = i /\ y > a) \/ x > i
    BY <1>0
  <2> QED
    BY <2>1, <2>2, <2>3, <2>4, <2>5
<1> QED
  <2> SUFFICES ASSUME NEW k
               PROVE  k \in R <=> \E j \in 1..N + 1 : \E m \in 1..Len(L2[j]) : L2[j][m] = k
    BY <1>2 DEF Holds
  <2>1. k \in R <=> \E x \in 1..N : \E y \in 1..Len(L[x]) : L[x][y] = k
    BY DEF Holds
  <2> HIDE DEF N
  <2>2. ASSUME NEW j \in 1..N + 1, NEW m \in 1..Len(L2[j]), L2[j][m] = k PROVE k \in R
    BY <2>1, <2>2, <1>3
  <2>3. ASSUME NEW x \in 1..N, NEW y \in 1..Len(L[x]), L[x][y] = k
        PROVE  \E j \in 1..N + 1 : \E m \in 1..Len(L2[j]) : L2[j][m] = k
    BY <2>3, <1>4
  <2> QED
    BY <2>1, <2>2, <2>3

(* The i-th leaf, which is not the last one, is taken out, and the divider  *)
(* behind it.                                                               *)
Drop(K, D, L, K2, D2, L2, i) ==
  /\ K2 = RemoveAt(K, i) /\ D2 = RemoveAt(D, i) /\ L2 = RemoveAt(L, i)

DropReads(K, D, L, K2, D2, L2, i) ==
  /\ Len(L2) = Len(L) - 1 /\ Len(K2) = Len(L) - 1 /\ Len(D2) = Len(L) - 2
  /\ \A j \in 1..Len(L) - 1 : /\ j < i => K2[j] = K[j] /\ L2[j] = L[j]
                              /\ ~(j < i) => K2[j] = K[j + 1] /\ L2[j] = L[j + 1]
  /\ \A j \in 1..Len(L) - 2 : /\ j < i => D2[j] = D[j]
                              /\ ~(j < i) => D2[j] = D[j + 1]

LEMMA DropLists ==
  ASSUME NEW K, NEW D, NEW L, NEW K2, NEW D2, NEW L2, NEW i,
         Listed(K, D, L), i \in 1..Len(L), i < Len(L), Len(L) > 2, Drop(K, D, L, K2, D2, L2, i)
  PROVE  Listed(K2, D2, L2) /\ Many(L2) /\ DropReads(K, D, L, K2, D2, L2, i)
<1> DEFINE N == Len(L)
           PN == Nat \ {0}
           SK == Seq(Keys)
<1>0. /\ N \in Nat /\ i \in 1..N /\ i < N /\ N > 2 /\ L \in Seq(SK) /\ K \in Seq(PN) /\ Len(K) = N
      /\ D \in Seq(Keys) /\ Len(D) = N - 1
  BY DEF Listed
<1> HIDE DEF N, PN, SK
<1>1. L2 \in Seq(SK) /\ Removal(L2, L, i)
  <2>1. i \in 1..Len(L) /\ L2 = RemoveAt(L, i)
    BY DEF Drop
  <2> QED
    BY <2>1, <1>0, RemovedAt
<1>2. K2 \in Seq(PN) /\ Removal(K2, K, i)
  <2>1. i \in 1..Len(K) /\ K2 = RemoveAt(K, i)
    BY <1>0 DEF Drop
  <2> QED
    BY <2>1, <1>0, RemovedAt
<1>3. D2 \in Seq(Keys) /\ Removal(D2, D, i)
  <2>1. i \in 1..Len(D) /\ D2 = RemoveAt(D, i)
    BY <1>0 DEF Drop
  <2> QED
    BY <2>1, <1>0, RemovedAt
<1>4. Len(L2) = N - 1 /\ \A j \in 1..N - 1 : L2[j] = IF j < i THEN L[j] ELSE L[j + 1]
  BY <1>1 DEF Removal, N
<1>5. Len(K2) = N - 1 /\ \A j \in 1..N - 1 : K2[j] = IF j < i THEN K[j] ELSE K[j + 1]
  BY <1>0, <1>2 DEF Removal
<1>6. Len(D2) = N - 2 /\ \A j \in 1..N - 2 : D2[j] = IF j < i THEN D[j] ELSE D[j + 1]
  <2>1. Len(D2) = Len(D) - 1 /\ \A j \in 1..Len(D) - 1 : D2[j] = IF j < i THEN D[j] ELSE D[j + 1]
    BY <1>3 DEF Removal
  <2>2. Len(D) - 1 = N - 2
    BY <1>0
  <2> QED
    BY <2>1, <2>2
<1>7. \A j, x \in 1..N - 1 : j # x => K2[j] # K2[x]
  <2>1. \A j, x \in 1..N : j # x => K[j] # K[x]
    BY DEF Listed, N
  <2> SUFFICES ASSUME NEW j \in 1..N - 1, NEW x \in 1..N - 1, j # x PROVE K2[j] # K2[x]
    OBVIOUS
  <2>2. j \in 1..N /\ x \in 1..N /\ j + 1 \in 1..N /\ x + 1 \in 1..N /\ j + 1 # x + 1
    BY <1>0
  <2>3. CASE j < i /\ x < i
    BY <2>1, <2>2, <2>3, <1>5
  <2>4. CASE j < i /\ ~(x < i)
    <3>1. K2[j] = K[j] /\ K2[x] = K[x + 1] /\ j # x + 1
      BY <2>4, <1>0, <1>5
    <3> QED
      BY <3>1, <2>1, <2>2
  <2>5. CASE ~(j < i) /\ x < i
    <3>1. K2[j] = K[j + 1] /\ K2[x] = K[x] /\ j + 1 # x
      BY <2>5, <1>0, <1>5
    <3> QED
      BY <3>1, <2>1, <2>2
  <2>6. CASE ~(j < i) /\ ~(x < i)
    <3>1. K2[j] = K[j + 1] /\ K2[x] = K[x + 1]
      BY <2>6, <1>5
    <3> QED
      BY <3>1, <2>1, <2>2
  <2> QED
    BY <2>3, <2>4, <2>5, <2>6
<1>8. Listed(K2, D2, L2)
  <2>1. Len(L2) \in Nat \ {0} /\ Len(D2) = Len(L2) - 1 /\ Len(K2) = Len(L2)
    BY <1>0, <1>4, <1>5, <1>6
  <2>2. \A j, x \in 1..Len(L2) : j # x => K2[j] # K2[x]
    BY <1>4, <1>7
  <2> QED
    BY <2>1, <2>2, <1>1, <1>2, <1>3 DEF Listed, PN, SK
<1>9. Many(L2)
  BY <1>0, <1>4 DEF Many
<1> QED
  BY <1>4, <1>5, <1>6, <1>8, <1>9 DEF DropReads, N

LEMMA DropOrdered ==
  ASSUME NEW K, NEW D, NEW L, NEW K2, NEW D2, NEW L2, NEW R, NEW i,
         Listed(K, D, L), Ordered(D, L), Holds(L, R), Listed(K2, D2, L2), i \in 1..Len(L), i < Len(L),
         Len(L) > 2, ~(Len(L[i]) > 1), DropReads(K, D, L, K2, D2, L2, i)
  PROVE  Ordered(D2, L2) /\ Holds(L2, R \ {L[i][1]})
<1> DEFINE N == Len(L)
           key == L[i][1]
<1>0. N \in Nat /\ i \in 1..N /\ i < N /\ N > 2 /\ DOMAIN D = 1..N - 1
  BY ListReads
<1>1. /\ Len(L2) = N - 1 /\ Len(D2) = N - 2
      /\ \A j \in 1..N - 1 : /\ j < i => L2[j] = L[j]
                             /\ ~(j < i) => L2[j] = L[j + 1]
      /\ \A j \in 1..N - 2 : /\ j < i => D2[j] = D[j]
                             /\ ~(j < i) => D2[j] = D[j + 1]
  BY DEF DropReads
<1>2. \A j \in 1..N : Increasing(L[j]) /\ Len(L[j]) > 0 /\ Len(L[j]) \in Nat
  BY <1>0, ListReads DEF Ordered, Many
<1>3. 1 \in 1..Len(L[i]) /\ \A x \in 1..Len(L[i]) : x = 1
  <2>1. Len(L[i]) \in Nat /\ Len(L[i]) > 0 /\ ~(Len(L[i]) > 1)
    BY <1>2
  <2> DEFINE n == Len(L[i])
  <2> HIDE DEF n
  <2>2. 1 \in 1..n /\ \A x \in 1..n : x = 1
    BY <2>1 DEF n
  <2> QED
    BY <2>2 DEF n
<1>4. /\ \A x \in 1..N - 1 : D[x] \in Int
      /\ \A x, y \in 1..N - 1 : x < y => D[x] < D[y]
      /\ \A x, y \in 1..N - 1 : x <= y => D[x] <= D[y]
  BY DividersOrdered
<1>5. Increasing(D2)
  <2>1. DOMAIN D2 = 1..N - 2
    <3>1. DOMAIN D2 = 1..Len(L2) - 1
      BY ListReads
    <3> QED
      BY <3>1, <1>0, <1>1
  <2> SUFFICES ASSUME NEW x \in 1..N - 2, NEW y \in 1..N - 2, x < y PROVE D2[x] < D2[y]
    BY <2>1 DEF Increasing
  <2> HIDE DEF N
  <2>2. x \in 1..N - 1 /\ y \in 1..N - 1 /\ x + 1 \in 1..N - 1 /\ y + 1 \in 1..N - 1
        /\ x < y + 1 /\ x + 1 < y + 1
    BY <1>0
  <2>3. D2[x] = D[x] \/ (~(x < i) /\ D2[x] = D[x + 1])
    BY <1>1
  <2>4. (y < i /\ x < i /\ D2[y] = D[y] /\ D2[x] = D[x]) \/ D2[y] = D[y + 1]
    BY <1>0, <1>1
  <2> QED
    BY <2>2, <2>3, <2>4, <1>4
<1>6. ASSUME NEW j \in 1..N - 1, NEW m \in 1..Len(L2[j])
      PROVE  (j < N - 1 => L2[j][m] < D2[j]) /\ (j > 1 => D2[j - 1] <= L2[j][m])
  <2>1. CASE j < i
    <3>1. L2[j] = L[j] /\ j \in 1..N /\ j < N /\ m \in 1..Len(L[j])
      BY <2>1, <1>0, <1>1
    <3>2. j \in 1..N - 2 /\ D2[j] = D[j]
      BY <2>1, <1>0, <1>1
    <3>3. j > 1 => D2[j - 1] = D[j - 1]
      <4>1. j > 1 => j - 1 \in 1..N - 2 /\ j - 1 < i
        BY <2>1, <1>0
      <4> QED
        BY <4>1, <1>1
    <3>4. L[j][m] < D[j] /\ (j > 1 => D[j - 1] <= L[j][m])
      BY <3>1, KeyBounds
    <3> QED
      BY <3>1, <3>2, <3>3, <3>4
  <2>2. CASE ~(j < i)
    <3> DEFINE x == j + 1
    <3>1. L2[j] = L[x] /\ x \in 1..N /\ x > 1 /\ m \in 1..Len(L[x]) /\ x - 1 = j /\ j \in 1..N - 1
      BY <2>2, <1>0, <1>1
    <3>2. j < N - 1 => x < N /\ D2[j] = D[x]
      <4>1. j < N - 1 => j \in 1..N - 2
        BY <1>0
      <4> QED
        BY <4>1, <2>2, <1>0, <1>1
    <3> HIDE DEF x
    <3>3. (x < N => L[x][m] < D[x]) /\ D[j] <= L[x][m] /\ L[x][m] \in Int
      <4>1. (x < N => L[x][m] < D[x]) /\ D[x - 1] <= L[x][m] /\ L[x][m] \in Int
        BY <3>1, KeyBounds
      <4> QED
        BY <3>1, <4>1
    <3>4. j > 1 => D2[j - 1] <= D[j] /\ D2[j - 1] \in Int /\ D[j] \in Int
      <4> SUFFICES ASSUME j > 1 PROVE D2[j - 1] <= D[j] /\ D2[j - 1] \in Int /\ D[j] \in Int
        OBVIOUS
      <4>1. j - 1 \in 1..N - 2 /\ j - 1 \in 1..N - 1 /\ j - 1 <= j /\ (j - 1) + 1 = j
        BY <1>0
      <4>2. D2[j - 1] = D[j - 1] \/ D2[j - 1] = D[j]
        BY <4>1, <1>1
      <4>3. D[j - 1] <= D[j] /\ D[j] <= D[j] /\ D[j - 1] \in Int /\ D[j] \in Int
        BY <4>1, <1>4
      <4> QED
        BY <4>2, <4>3
    <3> QED
      BY <3>1, <3>2, <3>3, <3>4
  <2> QED
    BY <2>1, <2>2
<1>7. ASSUME NEW j \in 1..N - 1 PROVE Increasing(L2[j]) /\ Len(L2[j]) > 0
  <2>1. j \in 1..N /\ j + 1 \in 1..N
    BY <1>0
  <2>2. L2[j] = L[j] \/ L2[j] = L[j + 1]
    BY <1>1
  <2> QED
    BY <2>1, <2>2, <1>2
<1>8. Ordered(D2, L2)
  <2>1. \A j \in 1..Len(L2), m \in Nat : m \in 1..Len(L2[j]) =>
          /\ j < Len(L2) => L2[j][m] < D2[j]
          /\ j > 1 => D2[j - 1] <= L2[j][m]
    BY <1>1, <1>6
  <2>2. \A j \in 1..Len(L2) : Increasing(L2[j]) /\ Len(L2[j]) > 0
    BY <1>1, <1>7
  <2> QED
    BY <2>1, <2>2, <1>5 DEF Ordered
<1>9. ASSUME NEW j \in 1..N - 1, NEW m \in 1..Len(L2[j])
      PROVE  \E x \in 1..N : x # i /\ \E y \in 1..Len(L[x]) : L[x][y] = L2[j][m]
  <2>1. CASE j < i
    <3>1. j \in 1..N /\ j # i /\ L2[j] = L[j]
      BY <2>1, <1>0, <1>1
    <3> QED
      BY <3>1
  <2>2. CASE ~(j < i)
    <3>1. j + 1 \in 1..N /\ j + 1 # i /\ L2[j] = L[j + 1]
      BY <2>2, <1>0, <1>1
    <3> QED
      BY <3>1
  <2> QED
    BY <2>1, <2>2
<1>10. ASSUME NEW x \in 1..N, x # i, NEW y \in 1..Len(L[x])
       PROVE  \E j \in 1..N - 1 : \E m \in 1..Len(L2[j]) : L2[j][m] = L[x][y]
  <2>1. CASE x < i
    <3>1. x \in 1..N - 1 /\ L2[x] = L[x]
      BY <2>1, <1>0, <1>1
    <3> QED
      BY <3>1
  <2>2. CASE ~(x < i)
    <3>1. x - 1 \in 1..N - 1 /\ ~(x - 1 < i) /\ (x - 1) + 1 = x
      BY <2>2, <1>0, <1>10
    <3>2. L2[x - 1] = L[x]
      BY <3>1, <1>1
    <3> QED
      BY <3>1, <3>2
  <2> QED
    BY <2>1, <2>2
<1>11. Holds(L2, R \ {key})
  <2> SUFFICES ASSUME NEW k
               PROVE  k \in R \ {key} <=> \E j \in 1..N - 1 : \E m \in 1..Len(L2[j]) : L2[j][m] = k
    BY <1>1 DEF Holds
  <2>1. k \in R <=> \E x \in 1..N : \E y \in 1..Len(L[x]) : L[x][y] = k
    BY DEF Holds
  <2>2. ASSUME NEW j \in 1..N - 1, NEW m \in 1..Len(L2[j]), L2[j][m] = k PROVE k \in R \ {key}
    <3>1. PICK x \in 1..N : x # i /\ \E y \in 1..Len(L[x]) : L[x][y] = k
      BY <2>2, <1>9
    <3>2. PICK y \in 1..Len(L[x]) : L[x][y] = k
      BY <3>1
    <3>3. k # key
      BY <3>1, <3>2, <1>3, OnePlace
    <3> QED
      BY <3>2, <3>3, <2>1
  <2>3. ASSUME k \in R, k # key PROVE \E j \in 1..N - 1 : \E m \in 1..Len(L2[j]) : L2[j][m] = k
    <3>1. PICK x \in 1..N : \E y \in 1..Len(L[x]) : L[x][y] = k
      BY <2>1, <2>3
    <3>2. PICK y \in 1..Len(L[x]) : L[x][y] = k
      BY <3>1
    <3>3. x # i
      <4> SUFFICES ASSUME x = i PROVE FALSE
        OBVIOUS
      <4>1. y = 1
        BY <3>2, <1>3
      <4> QED
        BY <4>1, <3>2, <2>3
    <3> QED
      BY <3>2, <3>3, <1>10
  <2> QED
    BY <2>2, <2>3
<1> QED
  BY <1>8, <1>11

-----------------------------------------------------------------------------
(* Changes of a page                                                        *)

(* In s the page p is this one, all other pages are those of t.             *)
Changed(s, t, p, page) ==
  /\ IsTree(s) /\ s.root = t.root
  /\ DOMAIN s.pages = DOMAIN t.pages \union {p} /\ s.pages[p] = page
  /\ \A q \in DOMAIN t.pages : q # p => s.pages[q] = t.pages[q]

(* Trees with finitely many pages: a further one can be allocated.          *)
Paged(t) == IsTree(t) /\ IsFiniteSet(DOMAIN t.pages) /\ DOMAIN t.pages \in SUBSET (Nat \ {0})

PageFits(page) == Len(page.cells) <= IF page.leaf THEN LeafCapacity - 1 ELSE InteriorCapacity
FitsBut(t, p) == t.root \in DOMAIN t.pages /\ \A q \in DOMAIN t.pages : q # p => PageFits(t.pages[q])
PagesFit(t) == t.root \in DOMAIN t.pages /\ \A q \in DOMAIN t.pages : PageFits(t.pages[q])

LEMMA SetReads ==
  ASSUME NEW t, NEW p, NEW page, IsTree(t)
  PROVE  Changed(SetPage(t, p, page), t, p, page)
<1> DEFINE f == [q \in DOMAIN t.pages \union {p} |-> IF q = p THEN page ELSE t.pages[q]]
           s == [root |-> t.root, pages |-> f]
<1>1. t = [root |-> t.root, pages |-> t.pages] /\ t.root \in Nat \ {0}
  BY DEF IsTree
<1>2. SetPage(t, p, page) = [t EXCEPT !.pages = f]
  BY DEF SetPage
<1>3. [t EXCEPT !.pages = f] = s
  <2> DEFINE r == t.root
             g == t.pages
  <2>1. t = [root |-> r, pages |-> g]
    BY <1>1
  <2> HIDE DEF r, g, f
  <2>2. [[root |-> r, pages |-> g] EXCEPT !.pages = f] = [root |-> r, pages |-> f]
    OBVIOUS
  <2> QED
    BY <2>1, <2>2 DEF r
<1>4. f[p] = page /\ \A q \in DOMAIN t.pages : q # p => f[q] = t.pages[q]
  OBVIOUS
<1>5. DOMAIN f = DOMAIN t.pages \union {p} /\ f = [q \in DOMAIN f |-> f[q]]
  OBVIOUS
<1> HIDE DEF f
<1>6. s.root = t.root /\ s.pages = f
  OBVIOUS
<1>7. IsTree(s)
  BY <1>1, <1>5, <1>6 DEF IsTree
<1> HIDE DEF s
<1>8. Changed(s, t, p, page)
  BY <1>4, <1>5, <1>6, <1>7 DEF Changed
<1> QED
  BY <1>2, <1>3, <1>8

LEMMA CellsSet ==
  ASSUME NEW t, NEW p, NEW leaf, NEW cells, NEW right, NEW new, IsTree(t), p \in DOMAIN t.pages,
         t.pages[p] = [leaf |-> leaf, cells |-> cells, right |-> right]
  PROVE  Changed(SetCells(t, p, new), t, p, [leaf |-> leaf, cells |-> new, right |-> right])
<1> DEFINE page == [leaf |-> leaf, cells |-> new, right |-> right]
           f == [t.pages EXCEPT ![p] = page]
           s == [root |-> t.root, pages |-> f]
<1>1. t = [root |-> t.root, pages |-> t.pages] /\ t.root \in Nat \ {0}
      /\ t.pages = [q \in DOMAIN t.pages |-> t.pages[q]]
  BY DEF IsTree
<1>2. SetCells(t, p, new) = [t EXCEPT !.pages = [t.pages EXCEPT ![p] = [t.pages[p] EXCEPT !.cells = new]]]
  BY DEF SetCells
<1>3. [t.pages[p] EXCEPT !.cells = new] = page
  OBVIOUS
<1>4. SetCells(t, p, new) = s
  <2> DEFINE r == t.root
             g == t.pages
  <2>1. t = [root |-> r, pages |-> g] /\ SetCells(t, p, new) = [t EXCEPT !.pages = f]
    BY <1>1, <1>2, <1>3
  <2> HIDE DEF r, g, f
  <2>2. [[root |-> r, pages |-> g] EXCEPT !.pages = f] = [root |-> r, pages |-> f]
    OBVIOUS
  <2> QED
    BY <2>1, <2>2 DEF r
<1>5. f[p] = page /\ \A q \in DOMAIN t.pages : q # p => f[q] = t.pages[q]
  BY <1>1
<1>6. DOMAIN f = DOMAIN t.pages /\ f = [q \in DOMAIN f |-> f[q]]
  BY <1>1
<1> HIDE DEF f, page
<1>7. s.root = t.root /\ s.pages = f
  OBVIOUS
<1>8. IsTree(s)
  BY <1>1, <1>6, <1>7 DEF IsTree
<1> HIDE DEF s
<1>9. Changed(s, t, p, page)
  BY <1>5, <1>6, <1>7, <1>8 DEF Changed
<1> QED
  BY <1>4, <1>9 DEF page

(* A page that is allocated was not there.                                  *)
LEMMA Fresh ==
  ASSUME NEW t, Paged(t)
  PROVE  NewPage(t) \in Nat \ {0} /\ NewPage(t) \notin DOMAIN t.pages
<1> DEFINE d == DOMAIN t.pages
           c == Cardinality(d)
           S == (1..c + 1) \ d
<1>1. IsFiniteSet(d) /\ c \in Nat
  BY FS_CardinalityType DEF Paged
<1>2. S # {}
  <2> HIDE DEF d
  <2> SUFFICES ASSUME S = {} PROVE FALSE
    OBVIOUS
  <2> DEFINE I == 1..c + 1
  <2>1. I \in SUBSET d
    OBVIOUS
  <2>2. c + 1 \in Int /\ 1 \in Int /\ ~(1 > c + 1)
    BY <1>1
  <2>3. Cardinality(I) = c + 1
    <3>1. Cardinality(I) = IF 1 > c + 1 THEN 0 ELSE (c + 1) - 1 + 1
      BY <2>2, FS_Interval
    <3> HIDE DEF c, I
    <3> QED
      BY <3>1, <1>1
  <2> HIDE DEF I
  <2>4. Cardinality(I) <= c
    BY <1>1, <2>1, FS_Subset
  <2> HIDE DEF c
  <2> QED
    BY <1>1, <2>3, <2>4
<1>3. S \in SUBSET Nat
  BY <1>1
<1>4. NewPage(t) = Min(S)
  BY DEF NewPage
<1> HIDE DEF c, d
<1>5. Min(S) \in S
  <2> HIDE DEF S
  <2> QED
    BY <1>2, <1>3, MinOf
<1>6. \A x \in S : x \in Nat \ {0} /\ x \notin d
  BY <1>1
<1> QED
  BY <1>4, <1>5, <1>6 DEF d

LEMMA ChangedPaged ==
  ASSUME NEW s, NEW t, NEW p, NEW page, Paged(t), Changed(s, t, p, page), p \in Nat \ {0}
  PROVE  Paged(s)
<1>1. IsFiniteSet(DOMAIN t.pages \union {p})
  BY FS_AddElement DEF Paged
<1> QED
  BY <1>1 DEF Paged, Changed

LEMMA ChangedFits ==
  ASSUME NEW s, NEW t, NEW p, NEW page, FitsBut(t, p), Changed(s, t, p, page), PageFits(page)
  PROVE  PagesFit(s)
BY DEF PagesFit, FitsBut, Changed

LEMMA FiniteRange ==
  ASSUME NEW n \in Nat, NEW f, DOMAIN f = 1..n
  PROVE  IsFiniteSet({f[i] : i \in 1..n})
<1> DEFINE R == {f[i] : i \in 1..n}
           g == [i \in 1..n |-> f[i]]
<1>1. g \in Surjection(1..n, R)
  BY DEF Surjection
<1>2. IsFiniteSet(1..n)
  BY FS_Interval
<1> HIDE DEF g, R
<1>3. IsFiniteSet(R)
  BY <1>1, <1>2, FS_Surjection
<1> QED
  BY <1>3 DEF R

LEMMA TreePaged ==
  ASSUME NEW t, NEW K, NEW D, NEW L, InTree(t, K, D, L)
  PROVE  Paged(t)
<1>1. Listed(K, D, L) /\ IsTree(t) /\ DOMAIN t.pages = {t.root} \union {K[i] : i \in 1..Len(L)}
  BY DEF InTree
<1>2. Len(L) \in Nat /\ DOMAIN K = 1..Len(L) /\ \A i \in 1..Len(L) : K[i] \in Nat \ {0}
  BY <1>1, ListReads
<1>3. IsFiniteSet({K[i] : i \in 1..Len(L)})
  BY <1>2, FiniteRange
<1>4. IsFiniteSet({K[i] : i \in 1..Len(L)} \union {t.root})
  BY <1>3, FS_AddElement
<1>5. t.root \in Nat \ {0}
  BY <1>1 DEF IsTree
<1>6. DOMAIN t.pages \in SUBSET (Nat \ {0})
  BY <1>1, <1>2, <1>5
<1>7. DOMAIN t.pages = {K[i] : i \in 1..Len(L)} \union {t.root}
  BY <1>1
<1> QED
  BY <1>1, <1>4, <1>6, <1>7 DEF Paged

-----------------------------------------------------------------------------
(* A key put into its leaf                                                  *)

LEMMA LeafFits ==
  ASSUME NEW s \in Seq(Keys)
  PROVE  PageFits(Leaf(s)) <=> Len(s) < LeafCapacity
<1> DEFINE c == [i \in DOMAIN s |-> [child |-> 0, key |-> s[i]]]
<1>1. Len(s) \in Nat /\ DOMAIN s = 1..Len(s)
  OBVIOUS
<1>2. Len(c) = Len(s)
  BY <1>1
<1> HIDE DEF c
<1>3. Leaf(s) = [leaf |-> TRUE, cells |-> c, right |-> 0]
  BY DEF Leaf, c
<1>4. Leaf(s).leaf = TRUE /\ Leaf(s).cells = c
  BY <1>3
<1>5. PageFits(Leaf(s)) <=> Len(s) <= LeafCapacity - 1
  BY <1>2, <1>4 DEF PageFits
<1> QED
  BY <1>1, <1>5, Bounds

LEMMA TreeFits ==
  ASSUME NEW t, NEW K, NEW D, NEW L, InTree(t, K, D, L)
  PROVE  /\ t.root \in DOMAIN t.pages
         /\ Fits(D, L) => PagesFit(t)
         /\ \A i \in 1..Len(L) : (\A j \in 1..Len(L) : j # i => Len(L[j]) < LeafCapacity)
              /\ Len(D) <= InteriorCapacity => FitsBut(t, K[i])
<1>1. /\ t.root \in DOMAIN t.pages /\ Listed(K, D, L)
      /\ DOMAIN t.pages = {t.root} \union {K[i] : i \in 1..Len(L)}
      /\ \A i \in 1..Len(L) : t.pages[K[i]] = Leaf(L[i])
      /\ ~Many(L) => t.root = K[1]
  BY DEF InTree
<1>2. Len(L) \in Nat /\ Len(L) > 0 /\ Len(D) = Len(L) - 1 /\ \A i \in 1..Len(L) : L[i] \in Seq(Keys)
  BY <1>1, ListReads
<1>3. \A i \in 1..Len(L) : Len(L[i]) < LeafCapacity => PageFits(t.pages[K[i]])
  BY <1>1, <1>2, LeafFits
<1>4. Many(L) /\ Len(D) <= InteriorCapacity => PageFits(t.pages[t.root])
  <2> SUFFICES ASSUME Many(L), Len(D) <= InteriorCapacity PROVE PageFits(t.pages[t.root])
    OBVIOUS
  <2>1. ~IsLeaf(t, t.root) /\ Count(t, t.root) = Len(D)
    BY <1>2, RootReads DEF HasLeaves
  <2> QED
    BY <2>1 DEF IsLeaf, Count, Cells, PageFits
<1>5. \A q \in DOMAIN t.pages : (\E i \in 1..Len(L) : q = K[i]) \/ (Many(L) /\ q = t.root)
  <2>1. 1 \in 1..Len(L)
    BY <1>2
  <2> QED
    BY <1>1, <2>1
<1>6. Fits(D, L) => PagesFit(t)
  BY <1>1, <1>3, <1>4, <1>5 DEF Fits, PagesFit
<1>7. ASSUME NEW i \in 1..Len(L), \A j \in 1..Len(L) : j # i => Len(L[j]) < LeafCapacity,
             Len(D) <= InteriorCapacity
      PROVE  FitsBut(t, K[i])
  BY <1>1, <1>3, <1>4, <1>5, <1>7 DEF FitsBut
<1> QED
  BY <1>1, <1>6, <1>7

LEMMA PutIs ==
  ASSUME NEW t, NEW K, NEW D, NEW L, NEW t2, NEW i, NEW s \in Seq(Keys),
         InTree(t, K, D, L), i \in 1..Len(L), Changed(t2, t, K[i], Leaf(s))
  PROVE  InTree(t2, K, D, [L EXCEPT ![i] = s])
<1> DEFINE L1 == [L EXCEPT ![i] = s]
<1>1. /\ Listed(K, D, L) /\ IsTree(t)
      /\ DOMAIN t.pages = {t.root} \union {K[j] : j \in 1..Len(L)}
      /\ \A j \in 1..Len(L) : t.pages[K[j]] = Leaf(L[j])
      /\ ~Many(L) => t.root = K[1]
      /\ Many(L) => /\ \A j \in 1..Len(L) : K[j] # t.root
                    /\ t.pages[t.root] = Interior(RootCells(K, D), K[Len(L)])
  BY DEF InTree
<1>2. /\ Listed(K, D, L1) /\ Len(L1) = Len(L) /\ (Many(L1) <=> Many(L))
      /\ L1[i] = s /\ \A j \in 1..Len(L) : j # i => L1[j] = L[j]
  <2>1. Listed(K, D, L) /\ i \in 1..Len(L) /\ Replaced(L1, L, i, s)
    BY <1>1 DEF Replaced
  <2> HIDE DEF L1
  <2> QED
    BY <2>1, LeafReplaced
<1> HIDE DEF L1
<1>3. /\ IsTree(t2) /\ t2.root = t.root /\ DOMAIN t2.pages = DOMAIN t.pages \union {K[i]}
      /\ t2.pages[K[i]] = Leaf(s)
      /\ \A q \in DOMAIN t.pages : q # K[i] => t2.pages[q] = t.pages[q]
  BY DEF Changed
<1>4. \A j \in 1..Len(L) : j # i => K[j] # K[i]
  BY <1>1 DEF Listed
<1>5. \A j \in 1..Len(L) : t2.pages[K[j]] = Leaf(L1[j])
  <2>1. \A j \in 1..Len(L) : K[j] \in DOMAIN t.pages
    BY <1>1
  <2> QED
    BY <1>1, <1>2, <1>3, <1>4, <2>1
<1>6. DOMAIN t2.pages = {t2.root} \union {K[j] : j \in 1..Len(L1)}
  BY <1>1, <1>2, <1>3
<1>7. Many(L1) => /\ \A j \in 1..Len(L1) : K[j] # t2.root
                  /\ t2.pages[t2.root] = Interior(RootCells(K, D), K[Len(L1)])
  BY <1>1, <1>2, <1>3
<1>8. ~Many(L1) => t2.root = K[1]
  BY <1>1, <1>2, <1>3
<1> QED
  BY <1>2, <1>3, <1>5, <1>6, <1>7, <1>8 DEF InTree, L1

(* How an insertion goes on from the leaf that it comes to.                 *)
PutInto(t, K, L, i, m, key) == SetPage(t, K[i], Leaf(InsertAt(L[i], m, key)))
PathTo(t, L, i) == IF Many(L) THEN <<At(t.root, i)>> ELSE << >>

LEMMA InsertedIs ==
  ASSUME NEW t, NEW K, NEW D, NEW L, NEW i, NEW m, NEW key, NEW large,
         InTree(t, K, D, L), i \in 1..Len(L), WayDown(t, key) = Place(t, K, i, m)
  PROVE  /\ Overfull(t, key, large) <=>
              (Len(L[i]) + 1 >= LeafCapacity \/ (large /\ Len(L[i]) + 1 > 1))
         /\ Inserted(t, key, large) =
              IF Overfull(t, key, large) THEN Balance(PutInto(t, K, L, i, m, key), PathTo(t, L, i), K[i])
              ELSE PutInto(t, K, L, i, m, key)
         /\ SplitsInterior(t, key, large) <=>
              Overfull(t, key, large) /\ Many(L) /\ Len(D) = InteriorCapacity
<1> DEFINE path == Place(t, K, i, m)
<1>1. Listed(K, D, L)
  BY DEF InTree
<1>2. /\ Last(path) = At(K[i], m)
      /\ ~Many(L) => path = <<At(K[i], m)>> /\ Front(path) = << >>
      /\ Many(L) => path = <<At(t.root, i), At(K[i], m)>> /\ Front(path) = <<At(t.root, i)>>
  BY <1>1, PlaceReads
<1>3. HasKeys(t, K[i], L[i])
  BY Reads
<1>4. Last(path).page = K[i] /\ Last(path).index = m /\ At(t.root, i).page = t.root
  BY <1>2 DEF At
<1>5. Overfull(t, key, large) <=> (Len(L[i]) + 1 >= LeafCapacity \/ (large /\ Len(L[i]) + 1 > 1))
  BY <1>3, <1>4 DEF Overfull, HasKeys
<1>6. Front(path) = PathTo(t, L, i)
  BY <1>2 DEF PathTo
<1>7. SetPage(t, Last(path).page, Leaf(InsertAt(KeysOf(t, Last(path).page), Last(path).index, key)))
        = PutInto(t, K, L, i, m, key)
  BY <1>3, <1>4 DEF PutInto, HasKeys
<1>8. Inserted(t, key, large) =
        IF Overfull(t, key, large) THEN Balance(PutInto(t, K, L, i, m, key), PathTo(t, L, i), K[i])
        ELSE PutInto(t, K, L, i, m, key)
  <2> HIDE DEF path
  <2> QED
    BY <1>4, <1>6, <1>7 DEF Inserted, path
<1>9. Many(L) => Len(path) = 2 /\ path[1] = At(t.root, i) /\ Count(t, t.root) = Len(D)
  <2> SUFFICES ASSUME Many(L) PROVE Len(path) = 2 /\ path[1] = At(t.root, i) /\ Count(t, t.root) = Len(D)
    OBVIOUS
  <2>1. path = <<At(t.root, i), At(K[i], m)>>
    BY <1>2
  <2>2. Len(path) = 2 /\ path[1] = At(t.root, i)
    BY <2>1
  <2>3. Count(t, t.root) = Len(D)
    BY <1>1, RootReads, ListReads DEF HasLeaves
  <2> QED
    BY <2>2, <2>3
<1>10. ~Many(L) => Len(path) = 1
  <2> SUFFICES ASSUME ~Many(L) PROVE Len(path) = 1
    OBVIOUS
  <2>1. path = <<At(K[i], m)>>
    BY <1>2
  <2> QED
    BY <2>1
<1>11. SplitsInterior(t, key, large) <=>
         Overfull(t, key, large) /\ Many(L) /\ Len(D) = InteriorCapacity
  <2>1. SplitsInterior(t, key, large) <=>
          /\ Overfull(t, key, large)
          /\ Len(path) > 1 /\ Count(t, path[Len(path) - 1].page) = InteriorCapacity
    BY DEF SplitsInterior
  <2> HIDE DEF path
  <2>2. Many(L) => Len(path) > 1 /\ path[Len(path) - 1] = At(t.root, i)
    <3> DEFINE n == Len(path)
    <3>1. Many(L) => n = 2 /\ path[1] = At(t.root, i)
      BY <1>9
    <3> HIDE DEF n
    <3>2. Many(L) => n > 1 /\ path[n - 1] = At(t.root, i)
      BY <3>1
    <3> QED
      BY <3>2 DEF n
  <2>3. ~Many(L) => ~(Len(path) > 1)
    <3> DEFINE n == Len(path)
    <3>1. ~Many(L) => n = 1
      BY <1>10
    <3> HIDE DEF n
    <3>2. ~Many(L) => ~(n > 1)
      BY <3>1
    <3> QED
      BY <3>2 DEF n
  <2> QED
    BY <1>4, <1>9, <2>1, <2>2, <2>3
<1> QED
  BY <1>5, <1>8, <1>11

(* The three ways a split goes on: to a first root, to a root that has room *)
(* for one more key, and to one that has not.                               *)
Promoted(t, r, i, cell, new) ==
  /\ Promote(t, << >>, cell, new) = NewRoot(t, cell, new)
  /\ Count(t, r) < InteriorCapacity =>
       Promote(t, <<At(r, i)>>, cell, new) = Linked(t, r, i, cell, new)
  /\ ~(Count(t, r) < InteriorCapacity) =>
       LET u == Raised([tree |-> t, cell |-> cell, new |-> new], r)
       IN Promote(t, <<At(r, i)>>, cell, new) = NewRoot(u.tree, u.cell, u.new)

LEMMA PromoteIs ==
  ASSUME NEW t, NEW r, NEW i, NEW cell, NEW new, Count(t, r) \in Nat
  PROVE  Promoted(t, r, i, cell, new)
<1> DEFINE base == [tree |-> t, cell |-> cell, new |-> new]
<1>1. Promote(t, << >>, cell, new) = NewRoot(t, cell, new)
  <2> DEFINE path == << >>
             step(f) == [n \in 0..Len(path) |->
                           IF n = 0 THEN base ELSE Raised(f[n - 1], path[Len(path) - n + 1].page)]
             up == CHOOSE f : f = step(f)
             one == [n \in 0..Len(path) |-> base]
             full == {n \in 1..Len(path) : Count(t, path[Len(path) - n + 1].page) >= InteriorCapacity}
             S == {m \in 0..Len(path) : m + 1 \notin full}
             n == Min(S)
  <2>0. Len(path) = 0
    OBVIOUS
  <2>1. Promote(t, path, cell, new) =
          IF n = Len(path) THEN NewRoot(up[n].tree, up[n].cell, up[n].new)
          ELSE Linked(up[n].tree, path[Len(path) - n].page, path[Len(path) - n].index, up[n].cell, up[n].new)
    BY DEF Promote
  <2>2. up = step(up)
    <3>1. one = step(one)
      OBVIOUS
    <3> HIDE DEF step, one
    <3> QED
      BY <3>1
  <2>3. up[0] = base
    <3> HIDE DEF up
    <3> QED
      BY <2>2
  <2>4. n = 0
    <3>1. S = {0}
      BY <2>0
    <3>2. {0} \in SUBSET Int /\ 0 \in {0} /\ \A k \in {0} : 0 <= k
      OBVIOUS
    <3> HIDE DEF S
    <3> QED
      BY <3>1, <3>2, MinIs
  <2> HIDE DEF up, n
  <2>5. Promote(t, path, cell, new) = NewRoot(up[0].tree, up[0].cell, up[0].new)
    BY <2>0, <2>1, <2>4
  <2> QED
    BY <2>3, <2>5
<1>2. /\ Count(t, r) < InteriorCapacity =>
           Promote(t, <<At(r, i)>>, cell, new) = Linked(t, r, i, cell, new)
      /\ ~(Count(t, r) < InteriorCapacity) =>
           LET u == Raised(base, r)
           IN Promote(t, <<At(r, i)>>, cell, new) = NewRoot(u.tree, u.cell, u.new)
  <2> DEFINE path == <<At(r, i)>>
             h == Len(path)
             step(f) == [n \in 0..h |->
                           IF n = 0 THEN base ELSE Raised(f[n - 1], path[h - n + 1].page)]
             up == CHOOSE f : f = step(f)
             one == [n \in 0..h |-> IF n = 0 THEN base ELSE Raised(base, path[h - n + 1].page)]
             full == {n \in 1..h : Count(t, path[h - n + 1].page) >= InteriorCapacity}
             S == {m \in 0..h : m + 1 \notin full}
             n == Min(S)
             u == Raised(base, r)
  <2>0. h = 1 /\ path[1] = At(r, i) /\ path[1].page = r /\ path[1].index = i
    BY DEF At
  <2>1. Promote(t, path, cell, new) =
          IF n = h THEN NewRoot(up[n].tree, up[n].cell, up[n].new)
          ELSE Linked(up[n].tree, path[h - n].page, path[h - n].index, up[n].cell, up[n].new)
    BY DEF Promote
  <2> HIDE DEF h, path, base
  <2>2. up = step(up)
    <3>1. one = step(one)
      <4>1. one[0] = base
        BY <2>0
      <4>2. \A x \in 0..h : one[x] = IF x = 0 THEN base ELSE Raised(one[x - 1], path[h - x + 1].page)
        <5> HIDE DEF one
        <5>1. \A x \in 0..h : one[x] = IF x = 0 THEN base ELSE Raised(base, path[h - x + 1].page)
          BY DEF one
        <5>2. \A x \in 0..h : x = 0 \/ x - 1 = 0
          BY <2>0
        <5> QED
          BY <4>1, <5>1, <5>2
      <4> DEFINE two == [x \in 0..h |-> IF x = 0 THEN base ELSE Raised(one[x - 1], path[h - x + 1].page)]
      <4>3. one = two
        <5>1. DOMAIN one = 0..h /\ DOMAIN two = 0..h
          OBVIOUS
        <5>2. \A x \in 0..h : one[x] = two[x]
          BY <4>2
        <5> QED
          BY <5>1, <5>2
      <4> QED
        BY <4>3
    <3> HIDE DEF step, one
    <3> QED
      BY <3>1
  <2> HIDE DEF up
  <2>3. up[0] = base
    BY <2>0, <2>2
  <2>4. up[1] = u
    <3>1. 1 \in 0..h /\ 1 # 0 /\ h - 1 + 1 = 1
      BY <2>0
    <3>2. up[1] = Raised(up[1 - 1], path[h - 1 + 1].page)
      BY <2>2, <3>1
    <3> QED
      BY <3>1, <3>2, <2>0, <2>3
  <2>5. 1 \in full <=> ~(Count(t, r) < InteriorCapacity)
    BY <2>0, Bounds
  <2>6. 2 \notin full
    BY <2>0
  <2> HIDE DEF full
  <2>7. ASSUME Count(t, r) < InteriorCapacity
        PROVE  Promote(t, path, cell, new) = Linked(t, r, i, cell, new)
    <3>1. n = 0
      <4>1. S \in SUBSET Int /\ 0 \in S /\ \A k \in S : 0 <= k
        BY <2>0, <2>5, <2>7
      <4> HIDE DEF S
      <4> QED
        BY <4>1, MinIs
    <3>2. h - 0 = 1 /\ 0 # h
      BY <2>0
    <3> HIDE DEF n
    <3>3. Promote(t, path, cell, new) = Linked(up[0].tree, path[1].page, path[1].index, up[0].cell, up[0].new)
      BY <2>1, <3>1, <3>2
    <3> QED
      BY <2>0, <2>3, <3>3 DEF base
  <2>8. ASSUME ~(Count(t, r) < InteriorCapacity)
        PROVE  Promote(t, path, cell, new) = NewRoot(u.tree, u.cell, u.new)
    <3>1. n = 1
      <4>1. 1 \in S
        BY <2>0, <2>6
      <4>2. S \in SUBSET Int /\ \A k \in S : 1 <= k
        BY <2>0, <2>5, <2>8
      <4> HIDE DEF S
      <4> QED
        BY <4>1, <4>2, MinIs
    <3> HIDE DEF n
    <3> QED
      BY <2>0, <2>1, <2>4, <3>1
  <2> QED
    BY <2>7, <2>8 DEF path, base
<1> QED
  BY <1>1, <1>2 DEF Promoted

-----------------------------------------------------------------------------
(* A leaf split                                                             *)

LEMMA RightSet ==
  ASSUME NEW t, NEW p, NEW leaf, NEW cells, NEW right, NEW new, IsTree(t), p \in DOMAIN t.pages,
         t.pages[p] = [leaf |-> leaf, cells |-> cells, right |-> right]
  PROVE  Changed([t EXCEPT !.pages[p].right = new], t, p, [leaf |-> leaf, cells |-> cells, right |-> new])
<1> DEFINE page == [leaf |-> leaf, cells |-> cells, right |-> new]
           f == [t.pages EXCEPT ![p] = page]
           s == [root |-> t.root, pages |-> f]
           u == [t EXCEPT !.pages[p].right = new]
<1>1. t = [root |-> t.root, pages |-> t.pages] /\ t.root \in Nat \ {0}
      /\ t.pages = [q \in DOMAIN t.pages |-> t.pages[q]]
  BY DEF IsTree
<1>2. u = [t EXCEPT !.pages = [t.pages EXCEPT ![p] = [t.pages[p] EXCEPT !.right = new]]]
  OBVIOUS
<1>3. [t.pages[p] EXCEPT !.right = new] = page
  OBVIOUS
<1>4. u = s
  <2> DEFINE r == t.root
             g == t.pages
  <2>1. t = [root |-> r, pages |-> g] /\ u = [t EXCEPT !.pages = f]
    BY <1>1, <1>2, <1>3
  <2> HIDE DEF r, g, f, u
  <2>2. [[root |-> r, pages |-> g] EXCEPT !.pages = f] = [root |-> r, pages |-> f]
    OBVIOUS
  <2> QED
    BY <2>1, <2>2 DEF r
<1>5. f[p] = page /\ \A q \in DOMAIN t.pages : q # p => f[q] = t.pages[q]
  BY <1>1
<1>6. DOMAIN f = DOMAIN t.pages /\ f = [q \in DOMAIN f |-> f[q]]
  BY <1>1
<1> HIDE DEF f, page
<1>7. s.root = t.root /\ s.pages = f
  OBVIOUS
<1>8. IsTree(s)
  BY <1>1, <1>6, <1>7 DEF IsTree
<1> HIDE DEF s, u
<1>9. Changed(s, t, p, page)
  BY <1>5, <1>6, <1>7, <1>8 DEF Changed
<1> QED
  BY <1>4, <1>9 DEF page, u

(* The two halves that entries are split into.                              *)
LEMMA Halves ==
  ASSUME NEW S, NEW s \in Seq(S), Len(s) > 1
  PROVE  /\ Lower(s) \in Seq(S) /\ Upper(s) \in Seq(S)
         /\ Len(Lower(s)) > 0 /\ Len(Upper(s)) > 0
         /\ Len(Lower(s)) < Len(s) /\ Len(Upper(s)) < Len(s)
         /\ Len(s) = Len(Lower(s)) + Len(Upper(s))
         /\ Len(Lower(s)) = Mid(s)
         /\ \A x \in 1..Len(Lower(s)) : Lower(s)[x] = s[x]
         /\ \A x \in 1..Len(Upper(s)) : Upper(s)[x] = s[Len(Lower(s)) + x]
<1> DEFINE n == Len(s)
           h == n \div 2
<1>0. n \in Nat /\ n > 1
  OBVIOUS
<1>1. h \in 1..n - 1
  <2> HIDE DEF n
  <2> QED
    BY <1>0
<1> HIDE DEF h
<1> DEFINE lo == SubSeq(s, 1, h)
           up == SubSeq(s, h + 1, n)
<1>2. Mid(s) = h /\ Lower(s) = lo /\ Upper(s) = up
  BY DEF Mid, Lower, Upper, h
<1>3. lo \in Seq(S) /\ Len(lo) = h /\ \A x \in 1..h : lo[x] = s[x]
  BY <1>1
<1>4. up \in Seq(S) /\ Len(up) = n - h /\ \A x \in 1..n - h : up[x] = s[h + x]
  BY <1>0, <1>1
<1> HIDE DEF lo, up, n
<1>5. n = h + (n - h) /\ h > 0 /\ n - h > 0 /\ h < n /\ n - h < n
  BY <1>0, <1>1
<1>6. Lower(s) \in Seq(S) /\ Upper(s) \in Seq(S) /\ Len(Lower(s)) = h /\ Len(Upper(s)) = n - h
  BY <1>2, <1>3, <1>4
<1>7. \A x \in 1..Len(Lower(s)) : Lower(s)[x] = s[x]
  BY <1>2, <1>3
<1>8. \A x \in 1..Len(Upper(s)) : Upper(s)[x] = s[Len(Lower(s)) + x]
  BY <1>2, <1>3, <1>4
<1> QED
  BY <1>2, <1>5, <1>6, <1>7, <1>8 DEF n

(* The tree with the upper half of a leaf on a page of its own.             *)
Apart(s, t, K, i, new, lo, up) ==
  /\ Paged(s) /\ s.root = t.root /\ new \in Nat \ {0} /\ new \notin DOMAIN t.pages
  /\ DOMAIN s.pages = DOMAIN t.pages \union {new}
  /\ s.pages[new] = Leaf(up) /\ s.pages[K[i]] = Leaf(lo)
  /\ \A q \in DOMAIN t.pages : q # K[i] => s.pages[q] = t.pages[q]

Balanced(u, t, K, i, path, new, lo, up) ==
  \E s : /\ Apart(s, t, K, i, new, lo, up)
         /\ u = Promote(s, path, [child |-> K[i], key |-> up[1]], new)

LEMMA BalanceIs ==
  ASSUME NEW t, NEW K, NEW D, NEW L, NEW i, NEW path, InTree(t, K, D, L), i \in 1..Len(L)
  PROVE  Balanced(Balance(t, path, K[i]), t, K, i, path, NewPage(t), Lower(L[i]), Upper(L[i]))
<1> DEFINE new == NewPage(t)
           lo == Lower(L[i])
           up == Upper(L[i])
           a == SetPage(t, new, Leaf(up))
           s == SetPage(a, K[i], Leaf(lo))
<1>1. Paged(t) /\ new \in Nat \ {0} /\ new \notin DOMAIN t.pages
  BY TreePaged, Fresh
<1>2. K[i] \in DOMAIN t.pages /\ K[i] \in Nat \ {0} /\ KeysOf(t, K[i]) = L[i]
  BY Reads DEF HasKeys
<1>3. Balance(t, path, K[i]) = Promote(s, path, [child |-> K[i], key |-> up[1]], new)
  BY <1>2 DEF Balance
<1> HIDE DEF new, lo, up
<1>4. Changed(a, t, new, Leaf(up))
  BY <1>1, SetReads DEF Paged
<1> HIDE DEF a
<1>5. Paged(a)
  BY <1>1, <1>4, ChangedPaged
<1>6. Changed(s, a, K[i], Leaf(lo))
  BY <1>5, SetReads DEF Paged
<1> HIDE DEF s
<1>7. Paged(s)
  BY <1>2, <1>5, <1>6, ChangedPaged
<1>8. Apart(s, t, K, i, new, lo, up)
  BY <1>1, <1>2, <1>4, <1>6, <1>7 DEF Apart, Changed
<1> QED
  BY <1>3, <1>8 DEF Balanced, new, lo, up

LEMMA NewRootIs ==
  ASSUME NEW t, NEW cell, NEW right, Paged(t)
  PROVE  LET p == NewPage(t)
             s == NewRoot(t, cell, right)
         IN  /\ IsTree(s) /\ s.root = p /\ p \in Nat \ {0} /\ p \notin DOMAIN t.pages
             /\ DOMAIN s.pages = DOMAIN t.pages \union {p}
             /\ s.pages[p] = Interior(<<cell>>, right)
             /\ \A q \in DOMAIN t.pages : s.pages[q] = t.pages[q]
<1> DEFINE p == NewPage(t)
           a == SetPage(t, p, Interior(<<cell>>, right))
           s == [a EXCEPT !.root = p]
<1>1. p \in Nat \ {0} /\ p \notin DOMAIN t.pages
  BY Fresh
<1>2. s = NewRoot(t, cell, right)
  BY DEF NewRoot
<1>3. Changed(a, t, p, Interior(<<cell>>, right))
  BY SetReads DEF Paged
<1> HIDE DEF a, p
<1>4. a = [root |-> a.root, pages |-> a.pages] /\ a.pages = [q \in DOMAIN a.pages |-> a.pages[q]]
  BY <1>3 DEF Changed, IsTree
<1>5. s.root = p /\ s.pages = a.pages /\ s = [root |-> p, pages |-> a.pages]
  BY <1>4
<1> HIDE DEF s
<1>6. IsTree(s)
  BY <1>1, <1>4, <1>5 DEF IsTree
<1>7. /\ DOMAIN s.pages = DOMAIN t.pages \union {p} /\ s.pages[p] = Interior(<<cell>>, right)
      /\ \A q \in DOMAIN t.pages : s.pages[q] = t.pages[q]
  BY <1>1, <1>3, <1>5 DEF Changed
<1> QED
  BY <1>1, <1>2, <1>5, <1>6, <1>7 DEF p

(* The cells of a root with one more key.                                   *)
LEMMA CellsLinked ==
  ASSUME NEW K, NEW D, NEW L, NEW K2, NEW D2, NEW L2, NEW i, NEW p, NEW lo, NEW up,
         Listed(K, D, L), i \in 1..Len(L), p \in Nat \ {0}, up \in Seq(Keys), Len(up) > 0,
         SplitReads(K, D, L, K2, D2, L2, i, p, lo, up)
  PROVE  LET cells == InsertAt(RootCells(K, D), i, [child |-> K[i], key |-> up[1]])
         IN  /\ Len(cells) = Len(L)
             /\ i < Len(L) => [cells EXCEPT ![i + 1].child = p] = RootCells(K2, D2)
             /\ ~(i < Len(L)) => cells = RootCells(K2, D2)
<1> DEFINE N == Len(L)
           S == [child : Nat, key : Keys]
           old == RootCells(K, D)
           cell == [child |-> K[i], key |-> up[1]]
           cells == InsertAt(old, i, cell)
           both == RootCells(K2, D2)
<1>1. /\ N \in Nat /\ N > 0 /\ Len(D) = N - 1 /\ i \in 1..N
      /\ \A j \in 1..N : K[j] \in Nat \ {0}
      /\ \A j \in 1..N - 1 : D[j] \in Keys
  BY ListReads
<1>2. up[1] \in Keys
  OBVIOUS
<1>3. old \in Seq(S) /\ Len(old) = N - 1 /\ \A j \in 1..N - 1 : old[j] = [child |-> K[j], key |-> D[j]]
  <2> HIDE DEF N
  <2> QED
    BY <1>1 DEF RootCells
<1>4. cell \in S
  BY <1>1, <1>2
<1> HIDE DEF S, old, cell
<1>5. cells \in Seq(S) /\ Insertion(cells, old, i, cell)
  <2>1. i \in 1..Len(old) + 1
    BY <1>1, <1>3
  <2> QED
    BY <1>3, <1>4, <2>1, InsertedAt
<1> HIDE DEF cells
<1>6. Len(cells) = N /\ DOMAIN cells = 1..N /\ cells = [j \in 1..N |-> cells[j]]
      /\ \A j \in 1..N : cells[j] = IF j < i THEN old[j] ELSE IF j = i THEN cell ELSE old[j - 1]
  <2>1. Len(cells) = N
    BY <1>1, <1>3, <1>5 DEF Insertion
  <2>2. DOMAIN cells = 1..N /\ cells = [j \in 1..N |-> cells[j]]
    BY <1>5, <2>1
  <2>3. \A j \in 1..N : cells[j] = IF j < i THEN old[j] ELSE IF j = i THEN cell ELSE old[j - 1]
    <3>1. Len(old) + 1 = N
      BY <1>1, <1>3
    <3> QED
      BY <1>5, <3>1 DEF Insertion
  <2> QED
    BY <2>1, <2>2, <2>3
<1>7. /\ Len(D2) = N
      /\ \A j \in 1..N + 1 : /\ j < i => K2[j] = K[j]
                             /\ j = i => K2[j] = K[i]
                             /\ j = i + 1 => K2[j] = p
                             /\ j > i + 1 => K2[j] = K[j - 1]
      /\ \A j \in 1..N : /\ j < i => D2[j] = D[j]
                         /\ j = i => D2[j] = up[1]
                         /\ j > i => D2[j] = D[j - 1]
  BY DEF SplitReads
<1> HIDE DEF N
<1>8. both = [j \in 1..N |-> [child |-> K2[j], key |-> D2[j]]]
  BY <1>7 DEF RootCells
<1> HIDE DEF both
<1>9. \A j \in 1..N : j # i + 1 => both[j] = cells[j]
  <2> SUFFICES ASSUME NEW j \in 1..N, j # i + 1 PROVE both[j] = cells[j]
    OBVIOUS
  <2>1. both[j] = [child |-> K2[j], key |-> D2[j]]
    BY <1>8
  <2>2. CASE j < i
    <3>1. cells[j] = [child |-> K[j], key |-> D[j]]
      BY <1>1, <1>3, <1>6, <2>2
    <3>2. K2[j] = K[j] /\ D2[j] = D[j]
      BY <1>1, <1>7, <2>2
    <3> QED
      BY <2>1, <3>1, <3>2
  <2>3. CASE j = i
    <3>1. cells[j] = cell
      BY <1>1, <1>6, <2>3
    <3>2. K2[j] = K[i] /\ D2[j] = up[1]
      BY <1>1, <1>7, <2>3
    <3> QED
      BY <2>1, <3>1, <3>2 DEF cell
  <2>4. CASE j > i + 1
    <3>1. j - 1 \in 1..N - 1 /\ ~(j < i) /\ j # i /\ j > i /\ j \in 1..N + 1
      BY <1>1, <2>4
    <3>2. cells[j] = [child |-> K[j - 1], key |-> D[j - 1]]
      BY <1>3, <1>6, <3>1
    <3>3. K2[j] = K[j - 1] /\ D2[j] = D[j - 1]
      BY <1>7, <3>1, <2>4
    <3> QED
      BY <2>1, <3>2, <3>3
  <2>5. j < i \/ j = i \/ j > i + 1
    BY <1>1
  <2> QED
    BY <2>2, <2>3, <2>4, <2>5
<1>10. ASSUME i < N
       PROVE  [cells EXCEPT ![i + 1].child = p] = both
  <2> DEFINE e == i + 1
             c == [cells EXCEPT ![e].child = p]
  <2>1. e \in 1..N /\ ~(e < i) /\ e # i /\ e > i /\ e - 1 = i /\ i \in 1..N - 1 /\ e \in 1..N + 1
    BY <1>1, <1>10
  <2>2. cells[e] = [child |-> K[i], key |-> D[i]]
    BY <1>3, <1>6, <2>1
  <2>3. K2[e] = p /\ D2[e] = D[i]
    BY <1>7, <2>1
  <2>4. both[e] = [child |-> p, key |-> D[i]]
    BY <1>8, <2>1, <2>3
  <2>5. \A j \in 1..N : j # e => both[j] = cells[j]
    BY <1>9
  <2> HIDE DEF e
  <2>6. c = [cells EXCEPT ![e] = [cells[e] EXCEPT !.child = p]]
    OBVIOUS
  <2>7. [cells[e] EXCEPT !.child = p] = [child |-> p, key |-> D[i]]
    BY <2>2
  <2>8. c[e] = both[e]
    BY <1>6, <2>1, <2>4, <2>6, <2>7
  <2>9. \A j \in 1..N : j # e => c[j] = cells[j]
    BY <1>6, <2>6
  <2>10. DOMAIN c = 1..N /\ c = [j \in 1..N |-> c[j]]
    BY <1>6
  <2> HIDE DEF c
  <2>11. \A j \in 1..N : c[j] = both[j]
    BY <2>5, <2>8, <2>9
  <2>12. c = both
    BY <1>8, <2>10, <2>11
  <2> QED
    BY <2>12 DEF c, e
<1>11. ASSUME ~(i < N)
       PROVE  cells = both
  <2>1. \A j \in 1..N : j # i + 1
    BY <1>1, <1>11
  <2>2. \A j \in 1..N : cells[j] = both[j]
    BY <1>9, <2>1
  <2> QED
    BY <1>6, <1>8, <2>2
<1> QED
  BY <1>6, <1>10, <1>11 DEF N, cells, both, old, cell

LeavesOf(s, K, L, K2, L2, p) ==
  /\ Len(L2) = Len(L) + 1
  /\ \A j \in 1..Len(L2) : K2[j] \in DOMAIN s.pages /\ s.pages[K2[j]] = Leaf(L2[j])
  /\ {K2[j] : j \in 1..Len(L2)} = {K[j] : j \in 1..Len(L)} \union {p}

LEMMA LeavesSplit ==
  ASSUME NEW t, NEW s, NEW K, NEW D, NEW L, NEW K2, NEW D2, NEW L2, NEW i, NEW p, NEW lo, NEW up,
         InTree(t, K, D, L), i \in 1..Len(L), Apart(s, t, K, i, p, lo, up),
         SplitReads(K, D, L, K2, D2, L2, i, p, lo, up)
  PROVE  LeavesOf(s, K, L, K2, L2, p)
<1> DEFINE N == Len(L)
<1>1. /\ N \in Nat /\ i \in 1..N
      /\ \A j \in 1..N : K[j] \in DOMAIN t.pages /\ t.pages[K[j]] = Leaf(L[j])
      /\ \A j, x \in 1..N : j # x => K[j] # K[x]
  BY ListReads DEF InTree, Listed
<1>2. /\ Len(L2) = N + 1
      /\ \A j \in 1..N + 1 :
           /\ j < i => K2[j] = K[j] /\ L2[j] = L[j]
           /\ j = i => K2[j] = K[i] /\ L2[j] = lo
           /\ j = i + 1 => K2[j] = p /\ L2[j] = up
           /\ j > i + 1 => K2[j] = K[j - 1] /\ L2[j] = L[j - 1]
  BY DEF SplitReads
<1>3. /\ p \notin DOMAIN t.pages /\ DOMAIN s.pages = DOMAIN t.pages \union {p}
      /\ s.pages[p] = Leaf(up) /\ s.pages[K[i]] = Leaf(lo)
      /\ \A q \in DOMAIN t.pages : q # K[i] => s.pages[q] = t.pages[q]
  BY DEF Apart
<1> HIDE DEF N
<1>4. \A j \in 1..N : j # i => s.pages[K[j]] = Leaf(L[j])
  BY <1>1, <1>3
<1>5. ASSUME NEW j \in 1..N + 1
      PROVE  K2[j] \in DOMAIN s.pages /\ s.pages[K2[j]] = Leaf(L2[j]) /\ K2[j] \in {K[x] : x \in 1..N} \union {p}
  <2>1. j < i \/ j = i \/ j = i + 1 \/ j > i + 1
    BY <1>1
  <2>2. CASE j < i
    <3>1. j \in 1..N /\ j # i /\ K2[j] = K[j] /\ L2[j] = L[j]
      BY <1>1, <1>2, <2>2
    <3> QED
      BY <1>1, <1>3, <1>4, <3>1
  <2>3. CASE j = i
    BY <1>1, <1>2, <1>3, <2>3
  <2>4. CASE j = i + 1
    BY <1>2, <1>3, <2>4
  <2>5. CASE j > i + 1
    <3> DEFINE x == j - 1
    <3>1. x \in 1..N /\ x # i /\ K2[j] = K[x] /\ L2[j] = L[x]
      BY <1>1, <1>2, <2>5
    <3> HIDE DEF x
    <3> QED
      BY <1>1, <1>3, <1>4, <3>1
  <2> QED
    BY <2>1, <2>2, <2>3, <2>4, <2>5
<1>6. \A x \in 1..N : \E j \in 1..N + 1 : K2[j] = K[x]
  <2> SUFFICES ASSUME NEW x \in 1..N PROVE \E j \in 1..N + 1 : K2[j] = K[x]
    OBVIOUS
  <2>1. CASE x <= i
    <3>1. x \in 1..N + 1 /\ K2[x] = K[x]
      BY <1>1, <1>2, <2>1
    <3> QED
      BY <3>1
  <2>2. CASE x > i
    <3> DEFINE j == x + 1
    <3>1. j \in 1..N + 1 /\ j > i + 1 /\ j - 1 = x
      BY <1>1, <2>2
    <3> HIDE DEF j
    <3>2. K2[j] = K[x]
      BY <1>2, <3>1
    <3> QED
      BY <3>1, <3>2
  <2> QED
    BY <1>1, <2>1, <2>2
<1>7. \E j \in 1..N + 1 : K2[j] = p
  <2> DEFINE j == i + 1
  <2>1. j \in 1..N + 1 /\ j = i + 1
    BY <1>1
  <2> HIDE DEF j
  <2>2. K2[j] = p
    BY <1>2, <2>1
  <2> QED
    BY <2>1, <2>2
<1>8. {K2[j] : j \in 1..N + 1} = {K[j] : j \in 1..N} \union {p}
  BY <1>5, <1>6, <1>7
<1> DEFINE M == Len(L2)
<1>9. M = N + 1
  BY <1>2
<1> HIDE DEF M
<1>10. /\ \A j \in 1..M : K2[j] \in DOMAIN s.pages /\ s.pages[K2[j]] = Leaf(L2[j])
       /\ {K2[j] : j \in 1..M} = {K[j] : j \in 1..N} \union {p}
  BY <1>5, <1>8, <1>9
<1> QED
  BY <1>9, <1>10 DEF N, M, LeavesOf

(* With the new leaf linked, the tree is sound again.                       *)
LEMMA LinkedIs ==
  ASSUME NEW t, NEW s, NEW K, NEW D, NEW L, NEW K2, NEW D2, NEW L2, NEW i, NEW p, NEW lo, NEW up,
         InTree(t, K, D, L), Many(L), i \in 1..Len(L), Apart(s, t, K, i, p, lo, up),
         up \in Seq(Keys), Len(up) > 0,
         Listed(K2, D2, L2), Many(L2), SplitReads(K, D, L, K2, D2, L2, i, p, lo, up)
  PROVE  /\ InTree(Linked(s, t.root, i, [child |-> K[i], key |-> up[1]], p), K2, D2, L2)
         /\ Linked(s, t.root, i, [child |-> K[i], key |-> up[1]], p).root = t.root
<1> DEFINE N == Len(L)
           r == t.root
           cell == [child |-> K[i], key |-> up[1]]
           u == Linked(s, r, i, cell, p)
           cells == InsertAt(RootCells(K, D), i, cell)
           both == RootCells(K2, D2)
           old == RootCells(K, D)
           M == Len(L2)
<1>1. /\ Listed(K, D, L) /\ N \in Nat /\ i \in 1..N
      /\ DOMAIN t.pages = {r} \union {K[j] : j \in 1..N}
      /\ \A j \in 1..N : K[j] # r
      /\ t.pages[r] = Interior(old, K[N])
  BY ListReads DEF InTree
<1>2. /\ Paged(s) /\ IsTree(s) /\ s.root = r /\ p \in Nat \ {0} /\ p \notin DOMAIN t.pages
      /\ DOMAIN s.pages = DOMAIN t.pages \union {p}
      /\ \A q \in DOMAIN t.pages : q # K[i] => s.pages[q] = t.pages[q]
  BY DEF Apart, Paged
<1>3. s.pages[r] = [leaf |-> FALSE, cells |-> old, right |-> K[N]] /\ r \in DOMAIN s.pages
  BY <1>1, <1>2 DEF Interior
<1>4. Cells(s, r) = old
  BY <1>3 DEF Cells
<1>5. /\ Len(cells) = N
      /\ i < N => [cells EXCEPT ![i + 1].child = p] = both
      /\ ~(i < N) => cells = both
  BY <1>1, <1>2, CellsLinked
<1>6. u = IF i < Len(cells) THEN SetCells(s, r, [cells EXCEPT ![i + 1].child = p])
          ELSE [SetCells(s, r, cells) EXCEPT !.pages[r].right = p]
  BY <1>4 DEF Linked
<1>7. M = N + 1 /\ (i < N => K2[M] = K[N]) /\ (~(i < N) => K2[M] = p)
  <2>1. /\ M = N + 1
        /\ \A j \in 1..N + 1 : /\ j = i + 1 => K2[j] = p
                               /\ j > i + 1 => K2[j] = K[j - 1]
    BY DEF SplitReads
  <2> HIDE DEF N, M
  <2>2. M \in 1..N + 1 /\ M - 1 = N
    BY <1>1, <2>1
  <2> QED
    BY <1>1, <2>1, <2>2
<1> HIDE DEF u, cells, both, old, M, N, r
<1>8. ASSUME i < N
      PROVE  Changed(u, s, r, Interior(both, K2[M]))
  <2>1. u = SetCells(s, r, both)
    BY <1>5, <1>6, <1>8
  <2> QED
    BY <1>2, <1>3, <1>7, <1>8, <2>1, CellsSet DEF Interior
<1>9. ASSUME ~(i < N)
      PROVE  Changed(u, s, r, Interior(both, K2[M]))
  <2> DEFINE v == SetCells(s, r, both)
  <2>1. u = [v EXCEPT !.pages[r].right = p]
    BY <1>5, <1>6, <1>9
  <2>2. Changed(v, s, r, [leaf |-> FALSE, cells |-> both, right |-> K[N]])
    BY <1>2, <1>3, CellsSet
  <2> HIDE DEF v
  <2>3. IsTree(v) /\ r \in DOMAIN v.pages /\ v.pages[r] = [leaf |-> FALSE, cells |-> both, right |-> K[N]]
    BY <2>2 DEF Changed
  <2>4. Changed(u, v, r, [leaf |-> FALSE, cells |-> both, right |-> p])
    BY <2>1, <2>3, RightSet
  <2>5. Changed(u, s, r, [leaf |-> FALSE, cells |-> both, right |-> p])
    BY <2>2, <2>4 DEF Changed
  <2> QED
    BY <1>7, <1>9, <2>5 DEF Interior
<1>10. Changed(u, s, r, Interior(both, K2[M]))
  BY <1>8, <1>9
<1>11. /\ IsTree(u) /\ u.root = r /\ u.pages[r] = Interior(both, K2[M])
       /\ DOMAIN u.pages = DOMAIN s.pages \union {r}
       /\ \A q \in DOMAIN s.pages : q # r => u.pages[q] = s.pages[q]
  BY <1>2, <1>10 DEF Changed
<1>12. /\ \A j \in 1..M : K2[j] \in DOMAIN s.pages /\ s.pages[K2[j]] = Leaf(L2[j])
       /\ {K2[j] : j \in 1..M} = {K[j] : j \in 1..N} \union {p}
  <2>1. LeavesOf(s, K, L, K2, L2, p)
    BY LeavesSplit
  <2> QED
    BY <2>1 DEF LeavesOf, M, N
<1>13. \A j \in 1..M : K2[j] # r
  <2>1. r \notin {K[j] : j \in 1..N} \union {p}
    BY <1>1, <1>2
  <2> QED
    BY <1>12, <2>1
<1>14. DOMAIN u.pages = {u.root} \union {K2[j] : j \in 1..M}
  BY <1>1, <1>2, <1>11, <1>12
<1>15. \A j \in 1..M : u.pages[K2[j]] = Leaf(L2[j]) /\ K2[j] # u.root
  BY <1>11, <1>12, <1>13
<1>16. u.pages[u.root] = Interior(both, K2[M])
  BY <1>11
<1>17. InTree(u, K2, D2, L2)
  BY <1>11, <1>14, <1>15, <1>16 DEF InTree, M, both
<1> QED
  BY <1>11, <1>17 DEF u, r

(* The first split puts a root above the two leaves.                        *)
LEMMA RootedIs ==
  ASSUME NEW t, NEW s, NEW K, NEW D, NEW L, NEW K2, NEW D2, NEW L2, NEW i, NEW p, NEW lo, NEW up,
         InTree(t, K, D, L), ~Many(L), i \in 1..Len(L), Apart(s, t, K, i, p, lo, up),
         Listed(K2, D2, L2), Many(L2), SplitReads(K, D, L, K2, D2, L2, i, p, lo, up)
  PROVE  InTree(NewRoot(s, [child |-> K[i], key |-> up[1]], p), K2, D2, L2)
<1> DEFINE cell == [child |-> K[i], key |-> up[1]]
           u == NewRoot(s, cell, p)
           both == RootCells(K2, D2)
           M == Len(L2)
           N == Len(L)
           n == NewPage(s)
<1>1. N = 1 /\ i = 1 /\ DOMAIN t.pages = {K[1]} /\ t.root = K[1]
  <2>1. N \in Nat /\ N > 0 /\ N <= 1
    BY LeafCount
  <2>2. N = 1
    <3> HIDE DEF N
    <3> QED
      BY <2>1
  <2>3. DOMAIN t.pages = {t.root} \union {K[j] : j \in 1..N} /\ t.root = K[1]
    BY DEF InTree
  <2> QED
    BY <2>2, <2>3
<1>2. Paged(s) /\ DOMAIN s.pages = DOMAIN t.pages \union {p}
  BY DEF Apart
<1>3. /\ IsTree(u) /\ u.root = n /\ n \notin DOMAIN s.pages
      /\ DOMAIN u.pages = DOMAIN s.pages \union {n}
      /\ u.pages[n] = Interior(<<cell>>, p)
      /\ \A q \in DOMAIN s.pages : u.pages[q] = s.pages[q]
  BY <1>2, NewRootIs
<1>4. /\ \A j \in 1..M : K2[j] \in DOMAIN s.pages /\ s.pages[K2[j]] = Leaf(L2[j])
      /\ {K2[j] : j \in 1..M} = {K[j] : j \in 1..N} \union {p}
  <2>1. LeavesOf(s, K, L, K2, L2, p)
    BY LeavesSplit
  <2> QED
    BY <2>1 DEF LeavesOf
<1>5. M = 2 /\ Len(D2) = 1 /\ K2[1] = K[i] /\ D2[1] = up[1] /\ K2[2] = p
  <2>1. /\ M = N + 1 /\ Len(D2) = N
        /\ \A j \in 1..N + 1 : /\ j = i => K2[j] = K[i]
                               /\ j = i + 1 => K2[j] = p
        /\ \A j \in 1..N : j = i => D2[j] = up[1]
    BY DEF SplitReads
  <2> HIDE DEF M, N
  <2>2. 1 \in 1..N /\ 1 \in 1..N + 1 /\ 2 \in 1..N + 1 /\ 2 = i + 1
    BY <1>1
  <2>3. K2[1] = K[i] /\ D2[1] = up[1] /\ K2[2] = p
    BY <1>1, <2>1, <2>2
  <2>4. M = 2
    BY <1>1, <2>1
  <2> QED
    BY <1>1, <2>1, <2>3, <2>4
<1>6. both = <<cell>>
  <2> DEFINE d == Len(D2)
  <2>1. d = 1
    BY <1>5
  <2>2. both = [j \in 1..d |-> [child |-> K2[j], key |-> D2[j]]]
    BY DEF RootCells
  <2> HIDE DEF d
  <2>3. both = [j \in 1..1 |-> [child |-> K2[j], key |-> D2[j]]]
    BY <2>1, <2>2
  <2>4. \A j \in 1..1 : [child |-> K2[j], key |-> D2[j]] = cell
    BY <1>5
  <2> HIDE DEF cell
  <2>5. both = [j \in 1..1 |-> cell]
    BY <2>3, <2>4
  <2> QED
    BY <2>5
<1> HIDE DEF M, N, u, n, cell, both
<1>7. \A j \in 1..M : u.pages[K2[j]] = Leaf(L2[j]) /\ K2[j] # u.root
  BY <1>3, <1>4
<1>8. u.pages[u.root] = Interior(both, K2[M])
  BY <1>3, <1>5, <1>6
<1>9. DOMAIN u.pages = {u.root} \union {K2[j] : j \in 1..M}
  <2>1. DOMAIN u.pages = {K[1]} \union {p} \union {u.root}
    BY <1>1, <1>2, <1>3
  <2>2. {K[j] : j \in 1..N} = {K[1]}
    BY <1>1
  <2> QED
    BY <1>4, <2>1, <2>2
<1>10. InTree(u, K2, D2, L2)
  BY <1>3, <1>7, <1>8, <1>9 DEF InTree, M, both
<1> QED
  BY <1>10 DEF u, cell

-----------------------------------------------------------------------------
(* Inserting                                                                *)

Divided(u, K, D, L, K2, D2, L2, i) ==
  \E p, lo, up : /\ Listed(K2, D2, L2) /\ Many(L2) /\ InTree(u, K2, D2, L2) /\ Len(lo) = Mid(L[i])
                 /\ Split(K, D, L, K2, D2, L2, i, p, lo, up)
                 /\ SplitReads(K, D, L, K2, D2, L2, i, p, lo, up)

LEMMA SplitTree ==
  ASSUME NEW t, NEW K, NEW D, NEW L, NEW i, InTree(t, K, D, L), i \in 1..Len(L), Len(L[i]) > 1,
         Many(L) => Len(D) < InteriorCapacity
  PROVE  LET u == Balance(t, PathTo(t, L, i), K[i])
         IN  (\E K2, D2, L2 : Divided(u, K, D, L, K2, D2, L2, i)) /\ (Many(L) => u.root = t.root)
<1> DEFINE p == NewPage(t)
           lo == Lower(L[i])
           up == Upper(L[i])
           K2 == InsertAt(K, i + 1, p)
           D2 == InsertAt(D, i, up[1])
           L2 == InsertAt([L EXCEPT ![i] = lo], i + 1, up)
           cell == [child |-> K[i], key |-> up[1]]
           u == Balance(t, PathTo(t, L, i), K[i])
<1>1. Listed(K, D, L) /\ L[i] \in Seq(Keys) /\ Len(D) = Len(L) - 1 /\ Len(L) \in Nat
  BY ListReads DEF InTree
<1>2. /\ lo \in Seq(Keys) /\ up \in Seq(Keys) /\ Len(lo) > 0 /\ Len(up) > 0
      /\ Len(L[i]) = Len(lo) + Len(up) /\ Len(lo) = Mid(L[i])
      /\ \A x \in 1..Len(lo) : lo[x] = L[i][x]
      /\ \A x \in 1..Len(up) : up[x] = L[i][Len(lo) + x]
  BY <1>1, Halves
<1>3. PICK s : Apart(s, t, K, i, p, lo, up) /\ u = Promote(s, PathTo(t, L, i), cell, p)
  <2>1. Balanced(u, t, K, i, PathTo(t, L, i), p, lo, up)
    BY BalanceIs
  <2> QED
    BY <2>1 DEF Balanced
<1> HIDE DEF p, lo, up, u
<1>4. Split(K, D, L, K2, D2, L2, i, p, lo, up)
  BY <1>2 DEF Split
<1>5. p \in Nat \ {0} /\ \A j \in 1..Len(L) : K[j] # p
  <2>1. \A j \in 1..Len(L) : K[j] \in DOMAIN t.pages
    BY DEF InTree
  <2> QED
    BY <1>3, <2>1 DEF Apart
<1> HIDE DEF K2, D2, L2
<1>6. Listed(K2, D2, L2) /\ Many(L2) /\ SplitReads(K, D, L, K2, D2, L2, i, p, lo, up)
  BY <1>1, <1>4, <1>5, SplitLists
<1>7. InTree(u, K2, D2, L2) /\ (Many(L) => u.root = t.root)
  <2>1. CASE ~Many(L)
    <3>1. Count(t, t.root) \in Nat /\ Count(s, s.root) \in Nat
      <4>1. s.root = K[i] /\ s.pages[K[i]] = Leaf(lo)
        <5>1. Len(L) \in Nat /\ Len(L) <= 1 /\ t.root = K[1] /\ s.root = t.root /\ s.pages[K[i]] = Leaf(lo)
          BY <1>3, <2>1, LeafCount DEF InTree, Apart
        <5>2. i = 1
          BY <5>1
        <5> QED
          BY <5>1, <5>2
      <4>2. HasKeys(s, K[i], lo)
        BY <1>2, <4>1, LeafReads
      <4>3. t.root = K[i] /\ HasKeys(t, K[i], L[i])
        BY <1>3, <4>1, Reads DEF Apart
      <4> QED
        BY <1>1, <1>2, <4>1, <4>2, <4>3 DEF HasKeys
    <3>2. u = NewRoot(s, cell, p)
      <4>1. u = Promote(s, << >>, cell, p)
        BY <1>3, <2>1 DEF PathTo
      <4>2. Promoted(s, s.root, i, cell, p)
        BY <3>1, PromoteIs
      <4> HIDE DEF cell
      <4> QED
        BY <4>1, <4>2 DEF Promoted
    <3> QED
      BY <1>3, <1>6, <2>1, <3>2, RootedIs
  <2>2. CASE Many(L)
    <3> DEFINE r == t.root
    <3>1. r # K[i] /\ r \in DOMAIN t.pages /\ Count(t, r) = Len(L) - 1
      BY <2>2, RootReads DEF InTree, HasLeaves
    <3>2. s.pages[r] = t.pages[r]
      BY <1>3, <3>1 DEF Apart
    <3>3. Count(s, r) = Len(D)
      BY <1>1, <3>1, <3>2 DEF Count, Cells
    <3>4. u = Promote(s, <<At(r, i)>>, cell, p)
      BY <1>3, <2>2 DEF PathTo
    <3>5. Count(s, r) < InteriorCapacity /\ Count(s, r) \in Nat
      <4>1. Len(D) \in Nat
        BY <1>1 DEF Listed
      <4> QED
        BY <2>2, <3>3, <4>1
    <3>6. u = Linked(s, r, i, cell, p)
      <4>1. Promoted(s, r, i, cell, p)
        BY <3>5, PromoteIs
      <4> HIDE DEF cell, r
      <4> QED
        BY <3>4, <3>5, <4>1 DEF Promoted
    <3> QED
      BY <1>2, <1>3, <1>6, <2>2, <3>6, LinkedIs
  <2> QED
    BY <2>1, <2>2
<1>8. Divided(u, K, D, L, K2, D2, L2, i)
  BY <1>2, <1>4, <1>6, <1>7 DEF Divided
<1> QED
  BY <1>7, <1>8 DEF u

LEMMA InteriorFits ==
  ASSUME NEW cells, NEW right
  PROVE  PageFits(Interior(cells, right)) <=> Len(cells) <= InteriorCapacity
BY DEF PageFits, Interior

LEMMA RootedFits ==
  ASSUME NEW t, NEW cell, NEW right, Paged(t), PagesFit(t)
  PROVE  PagesFit(NewRoot(t, cell, right))
<1> DEFINE p == NewPage(t)
           s == NewRoot(t, cell, right)
<1>1. /\ s.root = p /\ DOMAIN s.pages = DOMAIN t.pages \union {p}
      /\ s.pages[p] = Interior(<<cell>>, right)
      /\ \A q \in DOMAIN t.pages : s.pages[q] = t.pages[q]
  BY NewRootIs
<1>2. PageFits(s.pages[p])
  <2>1. Len(<<cell>>) <= InteriorCapacity
    BY Bounds
  <2> HIDE DEF s, p
  <2> QED
    BY <1>1, <2>1, InteriorFits
<1> HIDE DEF s, p
<1>3. PagesFit(s)
  BY <1>1, <1>2 DEF PagesFit
<1> QED
  BY <1>3 DEF s

LEMMA UpToBound ==
  ASSUME NEW t, NEW p, NEW key, NEW S, Cells(t, p) \in Seq(S)
  PROVE  UpTo(t, p, key) \in 0..Count(t, p)
<1> DEFINE c == Cells(t, p)
           T == {i \in DOMAIN c : c[i].key <= key}
           n == Len(c)
<1>1. DOMAIN c = 1..n /\ n \in Nat /\ T \in SUBSET (1..n)
  OBVIOUS
<1>2. IsFiniteSet(1..n) /\ Cardinality(1..n) = n
  <2> HIDE DEF n
  <2>1. 1 \in Int /\ n \in Int /\ (1 > n => n = 0)
    BY <1>1
  <2>2. IsFiniteSet(1..n) /\ Cardinality(1..n) = IF 1 > n THEN 0 ELSE n - 1 + 1
    BY <2>1, FS_Interval
  <2> QED
    BY <1>1, <2>1, <2>2
<1> HIDE DEF T
<1>3. IsFiniteSet(T) /\ Cardinality(T) <= n
  <2> HIDE DEF n
  <2> DEFINE I == 1..n
  <2>1. T \in SUBSET I /\ IsFiniteSet(I) /\ Cardinality(I) = n
    BY <1>1, <1>2
  <2> HIDE DEF I
  <2>2. IsFiniteSet(T) /\ Cardinality(T) <= Cardinality(I)
    BY <2>1, FS_Subset
  <2> QED
    BY <2>1, <2>2
<1>4. Cardinality(T) \in Nat
  BY <1>3, FS_CardinalityType
<1>5. UpTo(t, p, key) = Cardinality(T) /\ Count(t, p) = n
  BY DEF UpTo, T, Count
<1> HIDE DEF n
<1> QED
  BY <1>1, <1>3, <1>4, <1>5

(* A parent that is split fits into its pages, although the new one is lost.*)
LEMMA RaisedFits ==
  ASSUME NEW s, NEW r, NEW cell, NEW new, NEW S, Paged(s), PagesFit(s), r \in DOMAIN s.pages,
         Cells(s, r) \in Seq(S), cell \in S, Count(s, r) = InteriorCapacity
  PROVE  LET u == Raised([tree |-> s, cell |-> cell, new |-> new], r)
         IN  Paged(u.tree) /\ PagesFit(u.tree)
<1> DEFINE at == UpTo(s, r, cell.key) + 1
           c == Cells(s, r)
           entries == InsertAt(c, at, cell)
           lo == Lower(entries)
           up == Upper(entries)
           tail == Tail(up)
           p == NewPage(s)
           upper == Interior(tail, s.pages[r].right)
           lower == Interior(lo, up[1].child)
           a == SetPage(s, p, upper)
           b == SetPage(a, r, lower)
<1>1. Raised([tree |-> s, cell |-> cell, new |-> new], r).tree = b
  BY DEF Raised
<1>2. at \in 1..Len(c) + 1 /\ Len(c) = InteriorCapacity /\ c \in Seq(S)
  <2>1. UpTo(s, r, cell.key) \in 0..Count(s, r)
    BY UpToBound
  <2>2. Len(c) = InteriorCapacity
    BY DEF Count
  <2>3. InteriorCapacity \in Nat
    BY Bounds
  <2> HIDE DEF c
  <2> QED
    BY <2>1, <2>2, <2>3 DEF Count, c
<1> HIDE DEF at, c
<1>3. entries \in Seq(S) /\ Len(entries) = InteriorCapacity + 1
  BY <1>2, InsertedAt DEF Insertion
<1> HIDE DEF entries
<1>4. /\ lo \in Seq(S) /\ up \in Seq(S) /\ Len(up) > 0
      /\ Len(lo) < Len(entries) /\ Len(up) < Len(entries)
  <2>1. Len(entries) > 1
    BY <1>3, Bounds
  <2> QED
    BY <1>3, <2>1, Halves
<1> HIDE DEF lo, up
<1>5. Len(lo) <= InteriorCapacity /\ Len(tail) <= InteriorCapacity
  <2>1. Len(tail) = Len(up) - 1 /\ Len(up) \in Nat /\ Len(lo) \in Nat
    BY <1>4
  <2> DEFINE x == Len(up)
             y == Len(lo)
             z == Len(tail)
  <2> HIDE DEF x, y, z
  <2>2. z = x - 1 /\ x \in Nat /\ y \in Nat /\ x < InteriorCapacity + 1 /\ y < InteriorCapacity + 1
    BY <1>3, <1>4, <2>1 DEF x, y, z
  <2>3. z <= InteriorCapacity /\ y <= InteriorCapacity
    BY <2>2, Bounds
  <2> QED
    BY <2>3 DEF y, z
<1> HIDE DEF tail
<1>6. PageFits(upper) /\ PageFits(lower)
  BY <1>5, InteriorFits
<1> HIDE DEF upper, lower
<1>7. p \in Nat \ {0} /\ p \notin DOMAIN s.pages
  BY Fresh
<1> HIDE DEF p
<1>8. Changed(a, s, p, upper)
  BY SetReads DEF Paged
<1> HIDE DEF a
<1>9. Paged(a) /\ PagesFit(a)
  <2>1. FitsBut(s, p)
    BY DEF FitsBut, PagesFit
  <2> QED
    BY <1>6, <1>7, <1>8, <2>1, ChangedPaged, ChangedFits
<1>10. Changed(b, a, r, lower)
  BY <1>9, SetReads DEF Paged
<1> HIDE DEF b
<1>11. Paged(b) /\ PagesFit(b)
  <2>1. FitsBut(a, r) /\ r \in Nat \ {0}
    BY <1>9 DEF FitsBut, PagesFit, Paged
  <2> QED
    BY <1>6, <1>9, <1>10, <2>1, ChangedPaged, ChangedFits
<1> QED
  BY <1>1, <1>11

LEMMA BalanceFits ==
  ASSUME NEW t, NEW K, NEW D, NEW L, NEW i, InTree(t, K, D, L), i \in 1..Len(L), Many(L),
         Len(D) = InteriorCapacity, FitsBut(t, K[i]),
         Len(L[i]) > 1, Len(L[i]) <= LeafCapacity
  PROVE  PagesFit(Balance(t, PathTo(t, L, i), K[i]))
<1> DEFINE p == NewPage(t)
           lo == Lower(L[i])
           up == Upper(L[i])
           cell == [child |-> K[i], key |-> up[1]]
           u == Balance(t, PathTo(t, L, i), K[i])
           r == t.root
           S == [child : Nat, key : Keys]
<1>1. /\ Listed(K, D, L) /\ L[i] \in Seq(Keys) /\ Len(D) = Len(L) - 1 /\ Len(L) \in Nat
      /\ K[i] \in Nat \ {0}
  BY ListReads DEF InTree
<1>2. /\ lo \in Seq(Keys) /\ up \in Seq(Keys) /\ Len(lo) > 0 /\ Len(up) > 0
      /\ Len(lo) < Len(L[i]) /\ Len(up) < Len(L[i])
  BY <1>1, Halves
<1>3. PICK s : Apart(s, t, K, i, p, lo, up) /\ u = Promote(s, PathTo(t, L, i), cell, p)
  <2>1. Balanced(u, t, K, i, PathTo(t, L, i), p, lo, up)
    BY BalanceIs
  <2> QED
    BY <2>1 DEF Balanced
<1> HIDE DEF p, u
<1>4. PageFits(Leaf(lo)) /\ PageFits(Leaf(up))
  <2>1. Len(lo) \in Nat /\ Len(up) \in Nat /\ Len(L[i]) \in Nat
    BY <1>1, <1>2
  <2>2. Len(lo) < LeafCapacity /\ Len(up) < LeafCapacity
    <3> DEFINE x == Len(lo)
               y == Len(up)
               z == Len(L[i])
    <3>1. x \in Nat /\ y \in Nat /\ z \in Nat /\ x < z /\ y < z /\ z <= LeafCapacity
      BY <1>2, <2>1
    <3> HIDE DEF x, y, z
    <3>2. x < LeafCapacity /\ y < LeafCapacity
      BY <3>1, Bounds
    <3> QED
      BY <3>2 DEF x, y
  <2> QED
    BY <1>2, <2>2, LeafFits
<1>5. up[1] \in Keys
  BY <1>2
<1> HIDE DEF lo, up
<1>6. Paged(s) /\ PagesFit(s)
  BY <1>3, <1>4 DEF Apart, FitsBut, PagesFit
<1>7. r # K[i] /\ r \in DOMAIN t.pages /\ Count(t, r) = Len(L) - 1 /\ Cells(t, r) = RootCells(K, D)
  BY RootReads DEF InTree, HasLeaves
<1>8. r \in DOMAIN s.pages /\ s.pages[r] = t.pages[r]
  BY <1>3, <1>7 DEF Apart
<1>9. Count(s, r) = InteriorCapacity /\ Cells(s, r) = RootCells(K, D)
  BY <1>1, <1>7, <1>8 DEF Count, Cells
<1>10. Cells(s, r) \in Seq(S)
  <2>1. \A j \in 1..Len(D) : [child |-> K[j], key |-> D[j]] \in S
    BY <1>1, ListReads
  <2>2. Len(D) \in Nat
    BY <1>1 DEF Listed
  <2> HIDE DEF S
  <2>3. RootCells(K, D) \in Seq(S)
    BY <2>1, <2>2 DEF RootCells
  <2> QED
    BY <1>9, <2>3
<1>11. cell \in S
  BY <1>1, <1>5
<1>12. u = Promote(s, <<At(r, i)>>, cell, p)
  BY <1>3 DEF PathTo
<1>13. Promoted(s, r, i, cell, p)
  BY <1>9, Bounds, PromoteIs
<1> HIDE DEF cell, r, S
<1> DEFINE w == Raised([tree |-> s, cell |-> cell, new |-> p], r)
<1>14. u = NewRoot(w.tree, w.cell, w.new)
  <2>1. ~(Count(s, r) < InteriorCapacity)
    BY <1>9, Bounds
  <2> QED
    BY <1>12, <1>13, <2>1 DEF Promoted
<1>15. Paged(w.tree) /\ PagesFit(w.tree)
  BY <1>6, <1>8, <1>9, <1>10, <1>11, RaisedFits
<1> HIDE DEF w
<1>16. PagesFit(u)
  BY <1>14, <1>15, RootedFits
<1> QED
  BY <1>16 DEF u, r

(* The leaves with a key put into the i-th at m.                            *)
PutTree(K, D, L, L1, i, m, key) ==
  /\ Listed(K, D, L1) /\ Len(L1) = Len(L) /\ (Many(L1) <=> Many(L))
  /\ Insertion(L1[i], L[i], m, key) /\ \A j \in 1..Len(L) : j # i => L1[j] = L[j]
  /\ Len(L1[i]) = Len(L[i]) + 1

LEMMA PutTreeIs ==
  ASSUME NEW t, NEW K, NEW D, NEW L, NEW i, NEW m, NEW key \in Keys, InTree(t, K, D, L),
         i \in 1..Len(L), m \in 1..Len(L[i]) + 1
  PROVE  \E L1 : InTree(PutInto(t, K, L, i, m, key), K, D, L1) /\ PutTree(K, D, L, L1, i, m, key)
<1> DEFINE s == InsertAt(L[i], m, key)
           L1 == [L EXCEPT ![i] = s]
           u == SetPage(t, K[i], Leaf(s))
<1>1. Listed(K, D, L) /\ L[i] \in Seq(Keys) /\ IsTree(t)
  BY ListReads DEF InTree
<1>2. s \in Seq(Keys) /\ Insertion(s, L[i], m, key)
  BY <1>1, InsertedAt
<1> HIDE DEF s
<1>3. Changed(u, t, K[i], Leaf(s))
  BY <1>1, SetReads
<1>4. u = PutInto(t, K, L, i, m, key)
  BY DEF PutInto, s
<1> HIDE DEF u
<1>5. InTree(u, K, D, L1)
  BY <1>2, <1>3, PutIs
<1>6. Replaced(L1, L, i, s)
  BY DEF Replaced
<1> HIDE DEF L1
<1>7. /\ Listed(K, D, L1) /\ Len(L1) = Len(L) /\ (Many(L1) <=> Many(L))
      /\ L1[i] = s /\ \A j \in 1..Len(L) : j # i => L1[j] = L[j]
  BY <1>1, <1>2, <1>6, LeafReplaced
<1>8. Len(L1[i]) = Len(L[i]) + 1
  BY <1>2, <1>7 DEF Insertion
<1>9. PutTree(K, D, L, L1, i, m, key)
  BY <1>2, <1>7, <1>8 DEF PutTree
<1> QED
  BY <1>4, <1>5, <1>9

(* The pages fit after every insertion, one that splits an interior page    *)
(* included.                                                                *)
LEMMA PutFits ==
  ASSUME NEW K, NEW D, NEW L, NEW L1, NEW i, NEW m, NEW key,
         Listed(K, D, L), Fits(D, L), i \in 1..Len(L), PutTree(K, D, L, L1, i, m, key)
  PROVE  /\ Len(L[i]) \in Nat /\ Len(L1[i]) = Len(L[i]) + 1 /\ Len(L1[i]) <= LeafCapacity
         /\ Len(D) \in Nat /\ Len(D) <= InteriorCapacity
         /\ \A j \in 1..Len(L1) : j # i => Len(L1[j]) < LeafCapacity
         /\ Len(L[i]) + 1 < LeafCapacity => Fits(D, L1)
<1>1. /\ Len(L1[i]) = Len(L[i]) + 1 /\ Len(L1) = Len(L)
      /\ \A j \in 1..Len(L) : j # i => L1[j] = L[j]
  BY DEF PutTree
<1>2. Len(L[i]) \in Nat /\ Len(L[i]) < LeafCapacity /\ Len(D) \in Nat /\ Len(D) <= InteriorCapacity
  BY ListReads DEF Fits, Listed
<1>3. Len(L[i]) + 1 <= LeafCapacity
  <2> DEFINE n == Len(L[i])
  <2>1. n \in Nat /\ n < LeafCapacity
    BY <1>2
  <2> HIDE DEF n
  <2>2. n + 1 <= LeafCapacity
    BY <2>1, Bounds
  <2> QED
    BY <2>2 DEF n
<1>4. \A j \in 1..Len(L1) : j # i => Len(L1[j]) < LeafCapacity
  BY <1>1 DEF Fits
<1>5. ASSUME Len(L[i]) + 1 < LeafCapacity PROVE Fits(D, L1)
  <2>1. Len(L1[i]) < LeafCapacity
    BY <1>1, <1>5
  <2>2. \A j \in 1..Len(L1) : Len(L1[j]) < LeafCapacity
    BY <1>4, <2>1
  <2> QED
    BY <1>2, <2>2 DEF Fits
<1> QED
  BY <1>1, <1>2, <1>3, <1>4, <1>5

LEMMA DividedFits ==
  ASSUME NEW u, NEW K, NEW D, NEW L, NEW K2, NEW D2, NEW L2, NEW i,
         Listed(K, D, L), i \in 1..Len(L), Divided(u, K, D, L, K2, D2, L2, i),
         Len(L[i]) <= LeafCapacity, \A j \in 1..Len(L) : j # i => Len(L[j]) < LeafCapacity,
         Many(L) => Len(D) < InteriorCapacity
  PROVE  Fits(D2, L2)
<1>1. PICK p, lo, up : /\ Split(K, D, L, K2, D2, L2, i, p, lo, up)
                       /\ SplitReads(K, D, L, K2, D2, L2, i, p, lo, up)
  BY DEF Divided
<1> DEFINE N == Len(L)
<1>2. N \in Nat /\ N > 0 /\ Len(D) = N - 1 /\ Len(L[i]) \in Nat /\ i \in 1..N
  BY ListReads
<1>3. Len(lo) < LeafCapacity /\ Len(up) < LeafCapacity
  <2> DEFINE x == Len(lo)
             y == Len(up)
             z == Len(L[i])
  <2>1. x \in Nat /\ y \in Nat /\ z \in Nat /\ x > 0 /\ y > 0 /\ z = x + y /\ z <= LeafCapacity
    BY <1>1, <1>2 DEF Split
  <2> HIDE DEF x, y, z
  <2>2. x < LeafCapacity /\ y < LeafCapacity
    BY <2>1, Bounds
  <2> QED
    BY <2>2 DEF x, y
<1>4. /\ Len(L2) = N + 1 /\ Len(D2) = N
      /\ \A j \in 1..N + 1 :
           /\ j < i => L2[j] = L[j]
           /\ j = i => L2[j] = lo
           /\ j = i + 1 => L2[j] = up
           /\ j > i + 1 => L2[j] = L[j - 1]
  BY <1>1 DEF SplitReads
<1>5. N <= InteriorCapacity
  <2>1. CASE Many(L)
    <3>1. N - 1 < InteriorCapacity
      BY <1>2, <2>1
    <3> HIDE DEF N
    <3> QED
      BY <1>2, <3>1, Bounds
  <2>2. CASE ~Many(L)
    <3>1. ~(N > 1)
      BY <2>2 DEF Many
    <3> HIDE DEF N
    <3> QED
      BY <1>2, <3>1, Bounds
  <2> QED
    BY <2>1, <2>2
<1>6. \A j \in 1..N + 1 : Len(L2[j]) < LeafCapacity
  <2> SUFFICES ASSUME NEW j \in 1..N + 1 PROVE Len(L2[j]) < LeafCapacity
    OBVIOUS
  <2> HIDE DEF N
  <2>0. \A x \in 1..N : x # i => Len(L[x]) < LeafCapacity
    BY DEF N
  <2>1. CASE j < i
    <3>1. j \in 1..N /\ j # i
      BY <1>2, <2>1
    <3> QED
      BY <1>4, <2>0, <2>1, <3>1
  <2>2. CASE j = i
    BY <1>3, <1>4, <2>2
  <2>3. CASE j = i + 1
    BY <1>3, <1>4, <2>3
  <2>4. CASE j > i + 1
    <3> DEFINE x == j - 1
    <3>1. x \in 1..N /\ x # i /\ L2[j] = L[x]
      BY <1>2, <1>4, <2>4
    <3> HIDE DEF x
    <3> QED
      BY <2>0, <3>1
  <2>5. j < i \/ j = i \/ j = i + 1 \/ j > i + 1
    BY <1>2
  <2> QED
    BY <2>1, <2>2, <2>3, <2>4, <2>5
<1> HIDE DEF N
<1> QED
  BY <1>4, <1>5, <1>6 DEF Fits

(* The tree after a split of the root, an interior page, that the split of  *)
(* the i-th leaf brought about.                                             *)
RootSplit(u, K, D, L, i) ==
  /\ Many(L) /\ Len(D) = InteriorCapacity /\ Len(L[i]) > 1
  /\ \E t : InTree(t, K, D, L) /\ u = Balance(t, PathTo(t, L, i), K[i])

(* What becomes of a tree with an insertion that goes to the m-th place of  *)
(* the i-th leaf.                                                           *)
Grown(u, t, K, D, L, i, m, key, large) ==
  \E L1 :
    /\ PutTree(K, D, L, L1, i, m, key)
    /\ ~Overfull(t, key, large) => InTree(u, K, D, L1) /\ Fits(D, L1)
    /\ Overfull(t, key, large) /\ ~SplitsInterior(t, key, large) =>
         /\ \E K2, D2, L2 : Divided(u, K, D, L1, K2, D2, L2, i) /\ Fits(D2, L2)
         /\ Many(L) => u.root = t.root
    /\ SplitsInterior(t, key, large) => RootSplit(u, K, D, L1, i)

LEMMA InsertTree ==
  ASSUME NEW t, NEW K, NEW D, NEW L, NEW i, NEW m, NEW key \in Keys, NEW large,
         InTree(t, K, D, L), Fits(D, L), i \in 1..Len(L), m \in 1..Len(L[i]) + 1,
         WayDown(t, key) = Place(t, K, i, m)
  PROVE  Grown(Inserted(t, key, large), t, K, D, L, i, m, key, large) /\ PagesFit(Inserted(t, key, large))
<1> DEFINE u == Inserted(t, key, large)
           t1 == PutInto(t, K, L, i, m, key)
           over == Overfull(t, key, large)
           interior == SplitsInterior(t, key, large)
<1>1. PICK L1 : InTree(t1, K, D, L1) /\ PutTree(K, D, L, L1, i, m, key)
  BY PutTreeIs
<1>2. /\ over <=> (Len(L[i]) + 1 >= LeafCapacity \/ (large /\ Len(L[i]) + 1 > 1))
      /\ u = IF over THEN Balance(t1, PathTo(t, L, i), K[i]) ELSE t1
      /\ interior <=> over /\ Many(L) /\ Len(D) = InteriorCapacity
  BY InsertedIs
<1>3. PathTo(t, L, i) = PathTo(t1, L1, i) /\ t1.root = t.root
  <2>1. t1.root = t.root
    <3>1. Changed(t1, t, K[i], Leaf(InsertAt(L[i], m, key)))
      BY SetReads DEF PutInto, InTree
    <3> QED
      BY <3>1 DEF Changed
  <2>2. Many(L1) <=> Many(L)
    BY <1>1 DEF PutTree
  <2> HIDE DEF t1
  <2> QED
    BY <2>1, <2>2 DEF PathTo
<1> HIDE DEF u, t1, over, interior
<1>4. Listed(K, D, L) /\ Listed(K, D, L1) /\ Len(L1) = Len(L) /\ (Many(L1) <=> Many(L))
  BY <1>1 DEF InTree, PutTree
<1>5. /\ Len(L[i]) \in Nat /\ Len(L1[i]) = Len(L[i]) + 1 /\ Len(L1[i]) <= LeafCapacity
      /\ Len(D) \in Nat /\ Len(D) <= InteriorCapacity
      /\ \A j \in 1..Len(L1) : j # i => Len(L1[j]) < LeafCapacity
      /\ Len(L[i]) + 1 < LeafCapacity => Fits(D, L1)
  BY <1>1, <1>4, PutFits
<1>6. ~over => InTree(u, K, D, L1) /\ Fits(D, L1)
  <2> SUFFICES ASSUME ~over PROVE InTree(u, K, D, L1) /\ Fits(D, L1)
    OBVIOUS
  <2>1. u = t1 /\ ~(Len(L[i]) + 1 >= LeafCapacity)
    BY <1>2
  <2>2. Len(L[i]) + 1 < LeafCapacity
    <3> DEFINE n == Len(L[i])
    <3> HIDE DEF n
    <3>1. n \in Nat /\ ~(n + 1 >= LeafCapacity)
      BY <1>5, <2>1 DEF n
    <3>2. n + 1 < LeafCapacity
      BY <3>1, Bounds
    <3> QED
      BY <3>2 DEF n
  <2> QED
    BY <1>1, <1>5, <2>1, <2>2
<1>7. over => Len(L1[i]) > 1 /\ u = Balance(t1, PathTo(t1, L1, i), K[i])
  <2> SUFFICES ASSUME over PROVE Len(L1[i]) > 1 /\ u = Balance(t1, PathTo(t1, L1, i), K[i])
    OBVIOUS
  <2>1. Len(L[i]) + 1 > 1
    <3> DEFINE n == Len(L[i])
    <3>1. n \in Nat /\ (n + 1 >= LeafCapacity \/ n + 1 > 1)
      BY <1>2, <1>5
    <3> HIDE DEF n
    <3>2. n + 1 > 1
      BY <3>1, Bounds
    <3> QED
      BY <3>2 DEF n
  <2>2. Len(L1[i]) > 1
    BY <1>5, <2>1
  <2> QED
    BY <1>2, <1>3, <2>2
<1>8. over /\ ~interior => /\ \E K2, D2, L2 : Divided(u, K, D, L1, K2, D2, L2, i) /\ Fits(D2, L2)
                           /\ Many(L) => u.root = t.root
  <2> SUFFICES ASSUME over, ~interior
               PROVE  /\ \E K2, D2, L2 : Divided(u, K, D, L1, K2, D2, L2, i) /\ Fits(D2, L2)
                      /\ Many(L) => u.root = t.root
    OBVIOUS
  <2>1. Many(L1) => Len(D) < InteriorCapacity
    <3> DEFINE n == Len(D)
    <3>1. Many(L1) => n \in Nat /\ n <= InteriorCapacity /\ n # InteriorCapacity
      BY <1>2, <1>4, <1>5
    <3> HIDE DEF n
    <3>2. Many(L1) => n < InteriorCapacity
      BY <3>1, Bounds
    <3> QED
      BY <3>2 DEF n
  <2>2. i \in 1..Len(L1)
    BY <1>4
  <2>5. (\E K2, D2, L2 : Divided(u, K, D, L1, K2, D2, L2, i)) /\ (Many(L1) => u.root = t1.root)
    BY <1>1, <1>7, <2>1, <2>2, SplitTree
  <2>3. PICK K2, D2, L2 : Divided(u, K, D, L1, K2, D2, L2, i)
    BY <2>5
  <2>4. Fits(D2, L2)
    BY <1>4, <1>5, <2>1, <2>2, <2>3, DividedFits
  <2> QED
    BY <1>3, <1>4, <2>3, <2>4, <2>5
<1>9. PagesFit(u)
  <2>1. CASE ~over
    BY <1>6, <2>1, TreeFits
  <2>2. CASE over /\ ~interior
    <3>1. PICK K2, D2, L2 : Divided(u, K, D, L1, K2, D2, L2, i) /\ Fits(D2, L2)
      BY <1>8, <2>2
    <3>2. InTree(u, K2, D2, L2)
      BY <3>1 DEF Divided
    <3> QED
      BY <3>1, <3>2, TreeFits
  <2>3. CASE over /\ interior
    <3>1. i \in 1..Len(L1) /\ Many(L1) /\ Len(D) = InteriorCapacity
      BY <1>2, <1>4, <2>3
    <3>2. FitsBut(t1, K[i])
      BY <1>1, <1>5, <3>1, TreeFits
    <3> QED
      BY <1>1, <1>5, <1>7, <2>3, <3>1, <3>2, BalanceFits
  <2> QED
    BY <2>1, <2>2, <2>3
<1>10. interior => RootSplit(u, K, D, L1, i)
  BY <1>1, <1>2, <1>4, <1>7 DEF RootSplit
<1>11. Grown(u, t, K, D, L, i, m, key, large)
  BY <1>1, <1>6, <1>8, <1>10 DEF Grown, over, interior
<1> QED
  BY <1>9, <1>11 DEF u

LEMMA InsertFits ==
  ASSUME NEW t, NEW K, NEW D, NEW L, NEW R, NEW key \in Keys, NEW large, TreeOf(t, K, D, L, R)
  PROVE  PagesFit(Inserted(t, key, large))
<1>1. InTree(t, K, D, L) /\ Ordered(D, L) /\ Fits(D, L) /\ key \in Int
  BY Bounds DEF TreeOf
<1>2. PICK i \in 1..Len(L) : \E m \in 1..Len(L[i]) + 1 :
        /\ WayDown(t, key) = Place(t, K, i, m) /\ IndexIn(L[i], m, key)
        /\ i > 1 => D[i - 1] <= key
        /\ i < Len(L) => key < D[i]
  BY <1>1, WayIs
<1>3. PICK m \in 1..Len(L[i]) + 1 : WayDown(t, key) = Place(t, K, i, m)
  BY <1>2
<1> QED
  BY <1>1, <1>3, InsertTree

(* The tree of the keys R becomes the tree of R and one more.               *)
GrownTo(u, t, K, D, L, R, key, large) ==
  \E i, m, L1 :
    /\ i \in 1..Len(L) /\ IndexIn(L[i], m, key)
    /\ i > 1 => D[i - 1] <= key
    /\ i < Len(L) => key < D[i]
    /\ PutTree(K, D, L, L1, i, m, key)
    /\ ~Overfull(t, key, large) => TreeOf(u, K, D, L1, R \union {key})
    /\ Overfull(t, key, large) /\ ~SplitsInterior(t, key, large) =>
         /\ \E K2, D2, L2 : Divided(u, K, D, L1, K2, D2, L2, i) /\ TreeOf(u, K2, D2, L2, R \union {key})
         /\ Many(L) => u.root = t.root
    /\ SplitsInterior(t, key, large) =>
         RootSplit(u, K, D, L1, i) /\ Ordered(D, L1) /\ Holds(L1, R \union {key})

LEMMA InsertKeeps ==
  ASSUME NEW t, NEW K, NEW D, NEW L, NEW R, NEW key \in Keys, NEW large, TreeOf(t, K, D, L, R),
         key \notin R
  PROVE  GrownTo(Inserted(t, key, large), t, K, D, L, R, key, large)
<1> DEFINE u == Inserted(t, key, large)
           R2 == R \union {key}
<1>1. InTree(t, K, D, L) /\ Ordered(D, L) /\ Fits(D, L) /\ Holds(L, R) /\ key \in Int /\ Listed(K, D, L)
  BY Bounds DEF TreeOf, InTree
<1>2. PICK i \in 1..Len(L) : \E m \in 1..Len(L[i]) + 1 :
        /\ WayDown(t, key) = Place(t, K, i, m) /\ IndexIn(L[i], m, key)
        /\ i > 1 => D[i - 1] <= key
        /\ i < Len(L) => key < D[i]
  BY <1>1, WayIs
<1>3. PICK m \in 1..Len(L[i]) + 1 :
        /\ WayDown(t, key) = Place(t, K, i, m) /\ IndexIn(L[i], m, key)
        /\ i > 1 => D[i - 1] <= key
        /\ i < Len(L) => key < D[i]
  BY <1>2
<1>4. Grown(u, t, K, D, L, i, m, key, large)
  BY <1>1, <1>3, InsertTree
<1> HIDE DEF u
<1>5. PICK L1 :
        /\ PutTree(K, D, L, L1, i, m, key)
        /\ ~Overfull(t, key, large) => InTree(u, K, D, L1) /\ Fits(D, L1)
        /\ Overfull(t, key, large) /\ ~SplitsInterior(t, key, large) =>
             /\ \E K2, D2, L2 : Divided(u, K, D, L1, K2, D2, L2, i) /\ Fits(D2, L2)
             /\ Many(L) => u.root = t.root
        /\ SplitsInterior(t, key, large) => RootSplit(u, K, D, L1, i)
  BY <1>4 DEF Grown
<1>6. /\ Listed(K, D, L1) /\ Len(L1) = Len(L) /\ (Many(L1) <=> Many(L))
      /\ Insertion(L1[i], L[i], m, key) /\ \A j \in 1..Len(L) : j # i => L1[j] = L[j]
  BY <1>5 DEF PutTree
<1>7. Ordered(D, L1) /\ Holds(L1, R2)
  BY <1>1, <1>3, <1>6, OrderedPut
<1> HIDE DEF R2
<1>8. ~Overfull(t, key, large) => TreeOf(u, K, D, L1, R2)
  BY <1>5, <1>7 DEF TreeOf
<1>9. ASSUME Overfull(t, key, large), ~SplitsInterior(t, key, large)
      PROVE  /\ \E K2, D2, L2 : Divided(u, K, D, L1, K2, D2, L2, i) /\ TreeOf(u, K2, D2, L2, R2)
             /\ Many(L) => u.root = t.root
  <2>1. PICK K2, D2, L2 : Divided(u, K, D, L1, K2, D2, L2, i) /\ Fits(D2, L2)
    BY <1>5, <1>9
  <2>2. PICK p, lo, up : /\ Listed(K2, D2, L2) /\ InTree(u, K2, D2, L2)
                         /\ Split(K, D, L1, K2, D2, L2, i, p, lo, up)
                         /\ SplitReads(K, D, L1, K2, D2, L2, i, p, lo, up)
    BY <2>1 DEF Divided
  <2>3. i \in 1..Len(L1)
    BY <1>6
  <2>4. Ordered(D2, L2)
    BY <1>6, <1>7, <2>2, <2>3, SplitOrdered
  <2>5. Holds(L2, R2)
    BY <1>6, <1>7, <2>2, <2>3, SplitHolds
  <2>6. TreeOf(u, K2, D2, L2, R2)
    BY <2>1, <2>2, <2>4, <2>5 DEF TreeOf
  <2> QED
    BY <1>5, <1>9, <2>1, <2>6
<1>10. GrownTo(u, t, K, D, L, R, key, large)
  BY <1>3, <1>5, <1>7, <1>8, <1>9 DEF GrownTo, R2
<1> QED
  BY <1>10 DEF u

-----------------------------------------------------------------------------
(* Deleting                                                                 *)

(* The leaves with the m-th key of the i-th one taken out.                  *)
CutTree(K, D, L, L1, i, m) ==
  /\ Listed(K, D, L1) /\ Len(L1) = Len(L) /\ (Many(L1) <=> Many(L))
  /\ Removal(L1[i], L[i], m) /\ \A j \in 1..Len(L) : j # i => L1[j] = L[j]
  /\ Len(L1[i]) = Len(L[i]) - 1

CutFrom(t, K, i, m) == SetCells(t, K[i], RemoveAt(Cells(t, K[i]), m))

LEMMA CutIs ==
  ASSUME NEW t, NEW K, NEW D, NEW L, NEW i, NEW m, InTree(t, K, D, L), i \in 1..Len(L), m \in 1..Len(L[i])
  PROVE  \E L1 : /\ InTree(CutFrom(t, K, i, m), K, D, L1) /\ CutTree(K, D, L, L1, i, m)
                 /\ CutFrom(t, K, i, m).root = t.root
                 /\ Count(CutFrom(t, K, i, m), K[i]) = Len(L1[i])
<1> DEFINE s == RemoveAt(L[i], m)
           L1 == [L EXCEPT ![i] = s]
           S == [child : {0}, key : Keys]
           c == Cells(t, K[i])
           e == RemoveAt(c, m)
           u == SetCells(t, K[i], e)
           page == [x \in DOMAIN s |-> [child |-> 0, key |-> s[x]]]
<1>1. Listed(K, D, L) /\ L[i] \in Seq(Keys) /\ IsTree(t) /\ K[i] \in DOMAIN t.pages
      /\ t.pages[K[i]] = Leaf(L[i])
  BY ListReads DEF InTree
<1>2. s \in Seq(Keys) /\ Removal(s, L[i], m)
  BY <1>1, RemovedAt
<1>3. /\ Len(c) = Len(L[i]) /\ DOMAIN c = 1..Len(L[i]) /\ Len(L[i]) \in Nat
      /\ \A x \in 1..Len(L[i]) : c[x] = [child |-> 0, key |-> L[i][x]]
  BY <1>1, Reads DEF HasKeys
<1>4. c \in Seq(S) /\ t.pages[K[i]] = [leaf |-> TRUE, cells |-> c, right |-> 0]
  <2>1. c = [x \in 1..Len(L[i]) |-> [child |-> 0, key |-> L[i][x]]] /\ DOMAIN L[i] = 1..Len(L[i])
    BY <1>1 DEF Cells, Leaf
  <2>2. \A x \in 1..Len(L[i]) : [child |-> 0, key |-> L[i][x]] \in S
    BY <1>1
  <2>3. t.pages[K[i]] = [leaf |-> TRUE, cells |-> c, right |-> 0]
    BY <1>1, <2>1 DEF Leaf
  <2> HIDE DEF S
  <2>4. c \in Seq(S)
    BY <2>1, <2>2, <1>3
  <2> QED
    BY <2>3, <2>4
<1> HIDE DEF s, c, S
<1>5. e \in Seq(S) /\ Removal(e, c, m)
  <2>1. m \in 1..Len(c)
    BY <1>3
  <2> QED
    BY <1>4, <2>1, RemovedAt
<1> HIDE DEF e
<1>6. e = page
  <2> DEFINE n == Len(L[i])
  <2>1. Len(e) = n - 1 /\ \A k \in 1..n - 1 : e[k] = IF k < m THEN c[k] ELSE c[k + 1]
    BY <1>3, <1>5 DEF Removal
  <2>2. Len(s) = n - 1 /\ \A k \in 1..n - 1 : s[k] = IF k < m THEN L[i][k] ELSE L[i][k + 1]
    BY <1>2 DEF Removal
  <2>3. DOMAIN e = 1..n - 1 /\ DOMAIN s = 1..n - 1 /\ e = [k \in 1..n - 1 |-> e[k]]
    BY <1>2, <1>5, <2>1, <2>2
  <2>4. n \in Nat /\ m \in 1..n /\ \A x \in 1..n : c[x] = [child |-> 0, key |-> L[i][x]]
    BY <1>3
  <2> HIDE DEF n
  <2>5. \A k \in 1..n - 1 : k \in 1..n /\ k + 1 \in 1..n
    BY <2>4
  <2>6. \A k \in 1..n - 1 : e[k] = [child |-> 0, key |-> s[k]]
    <3> TAKE k \in 1..n - 1
    <3> DEFINE k1 == k + 1
    <3>1. k1 \in 1..n /\ e[k] = IF k < m THEN c[k] ELSE c[k1]
      BY <2>1, <2>5
    <3>2. s[k] = IF k < m THEN L[i][k] ELSE L[i][k1]
      BY <2>2
    <3> HIDE DEF k1
    <3> QED
      BY <2>4, <2>5, <3>1, <3>2
  <2>7. page = [k \in 1..n - 1 |-> [child |-> 0, key |-> s[k]]]
    BY <2>3
  <2> QED
    BY <2>3, <2>6, <2>7
<1>7. Changed(u, t, K[i], Leaf(s))
  <2>1. Changed(u, t, K[i], [leaf |-> TRUE, cells |-> e, right |-> 0])
    BY <1>1, <1>4, CellsSet
  <2> QED
    BY <1>6, <2>1 DEF Leaf
<1>8. u = CutFrom(t, K, i, m)
  BY DEF CutFrom, e, c
<1> HIDE DEF u
<1>9. InTree(u, K, D, L1)
  BY <1>2, <1>7, PutIs
<1>10. Replaced(L1, L, i, s)
  BY DEF Replaced
<1> HIDE DEF L1
<1>11. /\ Listed(K, D, L1) /\ Len(L1) = Len(L) /\ (Many(L1) <=> Many(L))
       /\ L1[i] = s /\ \A j \in 1..Len(L) : j # i => L1[j] = L[j]
  BY <1>1, <1>2, <1>10, LeafReplaced
<1>12. Len(L1[i]) = Len(L[i]) - 1
  BY <1>2, <1>11 DEF Removal
<1>13. CutTree(K, D, L, L1, i, m)
  BY <1>2, <1>11, <1>12 DEF CutTree
<1>14. u.root = t.root
  BY <1>7 DEF Changed
<1>15. Count(u, K[i]) = Len(L1[i])
  <2>1. i \in 1..Len(L1)
    BY <1>11
  <2> QED
    BY <1>9, <2>1, Reads DEF HasKeys
<1> QED
  BY <1>8, <1>9, <1>13, <1>14, <1>15

LEMMA FreeIs ==
  ASSUME NEW t, NEW p, IsTree(t)
  PROVE  /\ IsTree(Free(t, p)) /\ Free(t, p).root = t.root
         /\ DOMAIN Free(t, p).pages = DOMAIN t.pages \ {p}
         /\ \A q \in DOMAIN t.pages : q # p => Free(t, p).pages[q] = t.pages[q]
<1> DEFINE S == DOMAIN t.pages \ {p}
           f == [q \in S |-> t.pages[q]]
           r == t.root
           g == t.pages
           s == [root |-> r, pages |-> f]
<1>1. t = [root |-> r, pages |-> g] /\ r \in Nat \ {0}
  BY DEF IsTree
<1>2. Free(t, p) = [t EXCEPT !.pages = f]
  BY DEF Free, Restrict
<1>3. DOMAIN f = S /\ f = [q \in DOMAIN f |-> f[q]]
      /\ \A q \in DOMAIN t.pages : q # p => f[q] = t.pages[q]
  OBVIOUS
<1> HIDE DEF f, r, g
<1>4. [[root |-> r, pages |-> g] EXCEPT !.pages = f] = s
  OBVIOUS
<1>5. Free(t, p) = s
  BY <1>1, <1>2, <1>4
<1>6. s.root = r /\ s.pages = f
  OBVIOUS
<1>7. IsTree(s)
  BY <1>1, <1>3, <1>6 DEF IsTree
<1> HIDE DEF s
<1> QED
  BY <1>3, <1>5, <1>6, <1>7 DEF r

(* An emptied leaf below the root: the root is not left, it has no parent.  *)
LEMMA CascadeIs ==
  ASSUME NEW t, NEW i, NEW p, NEW m
  PROVE  Cascade(t, <<At(t.root, i), At(p, m)>>) = Free(Unlinked(t, t.root, p), p)
<1> DEFINE stack == <<At(t.root, i), At(p, m)>>
           h == Len(stack)
           step(f) == [n \in 0..h - 1 |->
                         IF n = 0 THEN t
                         ELSE Free(Unlinked(f[n - 1], stack[h - n].page, stack[h - n + 1].page),
                                   stack[h - n + 1].page)]
           cut == CHOOSE f : f = step(f)
           one == Free(Unlinked(t, t.root, p), p)
           both == [n \in 0..h - 1 |-> IF n = 0 THEN t ELSE one]
           last == {n \in 1..h - 1 : Count(cut[n], stack[h - n].page) > 0 \/ stack[h - n].page = t.root}
<1>1. h = 2 /\ stack[1].page = t.root /\ stack[2].page = p
  BY DEF At
<1>2. Cascade(t, stack) = IF last = {} THEN cut[h - 1] ELSE cut[Min(last)]
  BY DEF Cascade
<1> HIDE DEF stack, h
<1>3. \A n \in 0..h - 1 : n # 0 => n = 1 /\ h - n = 1 /\ h - n + 1 = 2
  BY <1>1
<1>4. both = step(both)
  <2> DEFINE two == [n \in 0..h - 1 |->
                       IF n = 0 THEN t
                       ELSE Free(Unlinked(both[n - 1], stack[h - n].page, stack[h - n + 1].page),
                                 stack[h - n + 1].page)]
  <2>1. both[0] = t
    BY <1>1
  <2>2. \A n \in 0..h - 1 : n # 0 => n - 1 = 0 /\ stack[h - n].page = t.root /\ stack[h - n + 1].page = p
    BY <1>1, <1>3
  <2>3. \A n \in 0..h - 1 : n # 0 =>
          Free(Unlinked(both[n - 1], stack[h - n].page, stack[h - n + 1].page), stack[h - n + 1].page) = one
    <3> HIDE DEF both
    <3> QED
      BY <2>1, <2>2
  <2>4. DOMAIN both = 0..h - 1 /\ DOMAIN two = 0..h - 1
    OBVIOUS
  <2>5. \A n \in 0..h - 1 : both[n] = two[n]
    BY <2>3
  <2>6. both = two
    <3> HIDE DEF one
    <3> QED
      BY <2>4, <2>5
  <2> QED
    BY <2>6
<1>5. cut = step(cut)
  <2> HIDE DEF step, both
  <2> QED
    BY <1>4
<1> HIDE DEF cut
<1>6. cut[0] = t
  BY <1>1, <1>5
<1>7. cut[1] = one
  <2>1. 1 \in 0..h - 1 /\ 1 # 0 /\ h - 1 = 1 /\ h - 1 + 1 = 2
    BY <1>1
  <2>2. cut[1] = Free(Unlinked(cut[1 - 1], stack[h - 1].page, stack[h - 1 + 1].page), stack[h - 1 + 1].page)
    BY <1>5, <2>1
  <2> QED
    BY <1>1, <1>6, <2>1, <2>2
<1>8. last = {1}
  <2>1. 1 \in last
    BY <1>1
  <2>2. \A n \in last : n = 1
    BY <1>1
  <2> HIDE DEF last
  <2> QED
    BY <2>1, <2>2
<1>9. Min({1}) = 1
  <2>1. {1} \in SUBSET Int /\ 1 \in {1} /\ \A k \in {1} : 1 <= k
    OBVIOUS
  <2> QED
    BY <2>1, MinIs
<1> HIDE DEF last, one
<1>10. Cascade(t, stack) = one
  BY <1>2, <1>7, <1>8, <1>9
<1> QED
  BY <1>10 DEF stack, one

LEMMA UnlinkedIs ==
  ASSUME NEW t, NEW K, NEW D, NEW L, InTree(t, K, D, L), NEW i \in 1..Len(L), Many(L)
  PROVE  /\ i < Len(L) => Changed(Unlinked(t, t.root, K[i]), t, t.root,
                                  Interior(RemoveAt(RootCells(K, D), i), K[Len(L)]))
         /\ ~(i < Len(L)) => Changed(Unlinked(t, t.root, K[i]), t, t.root, Interior(RootCells(K, D), 0))
<1> DEFINE N == Len(L)
           r == t.root
           c == RootCells(K, D)
           refs == {x \in DOMAIN Cells(t, r) : Cells(t, r)[x].child = K[i]}
           u == Unlinked(t, r, K[i])
<1>1. N \in Nat /\ IsTree(t) /\ r \in DOMAIN t.pages /\ t.pages[r] = Interior(c, K[N])
      /\ \A x, y \in 1..N : x # y => K[x] # K[y]
  BY ListReads DEF InTree, Listed
<1>2. /\ Cells(t, r) = c /\ DOMAIN Cells(t, r) = 1..N - 1
      /\ \A x \in 1..N - 1 : Cells(t, r)[x].child = K[x]
  BY RootReads DEF HasLeaves
<1>3. u = IF refs # {} THEN SetCells(t, r, RemoveAt(c, Min(refs))) ELSE [t EXCEPT !.pages[r].right = 0]
  BY <1>2 DEF Unlinked
<1>4. t.pages[r] = [leaf |-> FALSE, cells |-> c, right |-> K[N]]
  BY <1>1 DEF Interior
<1>5. ASSUME i < N
      PROVE  refs = {i}
  <2>1. i \in 1..N - 1 /\ \A x \in 1..N - 1 : x \in 1..N
    BY <1>1, <1>5
  <2>2. i \in refs
    BY <1>2, <2>1
  <2>3. \A x \in refs : x = i
    BY <1>1, <1>2, <2>1
  <2> HIDE DEF refs
  <2> QED
    BY <2>2, <2>3
<1>6. ASSUME ~(i < N)
      PROVE  refs = {}
  <2>1. i = N /\ \A x \in 1..N - 1 : x \in 1..N /\ x # i
    <3> HIDE DEF N
    <3>1. i \in 1..N
      BY DEF N
    <3> QED
      BY <1>1, <1>6, <3>1
  <2> QED
    BY <1>1, <1>2, <2>1
<1> HIDE DEF refs, u, N, r, c
<1>7. ASSUME i < N
      PROVE  Changed(u, t, r, Interior(RemoveAt(c, i), K[N]))
  <2>1. Min({i}) = i
    <3>1. {i} \in SUBSET Int /\ i \in {i} /\ \A k \in {i} : i <= k
      BY <1>1
    <3> QED
      BY <3>1, MinIs
  <2>2. u = SetCells(t, r, RemoveAt(c, i))
    BY <1>3, <1>5, <1>7, <2>1
  <2>3. Changed(u, t, r, [leaf |-> FALSE, cells |-> RemoveAt(c, i), right |-> K[N]])
    BY <1>1, <1>4, <2>2, CellsSet
  <2> QED
    BY <2>3 DEF Interior
<1>8. ASSUME ~(i < N)
      PROVE  Changed(u, t, r, Interior(c, 0))
  <2>1. u = [t EXCEPT !.pages[r].right = 0]
    BY <1>3, <1>6, <1>8
  <2>2. Changed(u, t, r, [leaf |-> FALSE, cells |-> c, right |-> 0])
    BY <1>1, <1>4, <2>1, RightSet
  <2> QED
    BY <2>2 DEF Interior
<1> QED
  BY <1>7, <1>8 DEF u, r, N, c

(* The root's cells without the one of the leaf that is taken out.          *)
LEMMA CellsDropped ==
  ASSUME NEW K, NEW D, NEW L, NEW i, Listed(K, D, L), i \in 1..Len(L), i < Len(L)
  PROVE  Len(RemoveAt(RootCells(K, D), i)) = Len(L) - 2
<1> DEFINE N == Len(L)
           S == [child : Nat \ {0}, key : Keys]
           c == RootCells(K, D)
<1>1. /\ N \in Nat /\ Len(D) = N - 1 /\ i \in 1..N - 1
      /\ \A j \in 1..N - 1 : K[j] \in Nat \ {0} /\ D[j] \in Keys
  BY ListReads
<1>2. c \in Seq(S) /\ Len(c) = N - 1
  <2>1. \A j \in 1..N - 1 : [child |-> K[j], key |-> D[j]] \in S
    BY <1>1
  <2>2. c = [j \in 1..N - 1 |-> [child |-> K[j], key |-> D[j]]]
    BY <1>1 DEF RootCells
  <2> HIDE DEF N, S
  <2> QED
    BY <1>1, <2>1, <2>2
<1> HIDE DEF c, S
<1>3. Removal(RemoveAt(c, i), c, i)
  <2>1. i \in 1..Len(c)
    BY <1>1, <1>2
  <2> QED
    BY <1>2, <2>1, RemovedAt
<1> HIDE DEF N
<1>4. Len(RemoveAt(c, i)) = N - 1 - 1 /\ N - 1 - 1 = N - 2
  BY <1>1, <1>2, <1>3 DEF Removal
<1> QED
  BY <1>4 DEF N, c

LEMMA RootDropped ==
  ASSUME NEW K, NEW D, NEW L, NEW K2, NEW D2, NEW L2, NEW i, Listed(K, D, L), i \in 1..Len(L),
         i < Len(L), DropReads(K, D, L, K2, D2, L2, i)
  PROVE  RemoveAt(RootCells(K, D), i) = RootCells(K2, D2)
<1> DEFINE N == Len(L)
           S == [child : Nat \ {0}, key : Keys]
           c == RootCells(K, D)
           e == RemoveAt(c, i)
           both == RootCells(K2, D2)
<1>1. /\ N \in Nat /\ Len(D) = N - 1 /\ i \in 1..N - 1
      /\ \A j \in 1..N - 1 : K[j] \in Nat \ {0} /\ D[j] \in Keys
  BY ListReads
<1>2. c \in Seq(S) /\ Len(c) = N - 1 /\ \A j \in 1..N - 1 : c[j] = [child |-> K[j], key |-> D[j]]
  <2>1. \A j \in 1..N - 1 : [child |-> K[j], key |-> D[j]] \in S
    BY <1>1
  <2>2. c = [j \in 1..N - 1 |-> [child |-> K[j], key |-> D[j]]]
    BY <1>1 DEF RootCells
  <2> HIDE DEF N, S
  <2> QED
    BY <1>1, <2>1, <2>2
<1> HIDE DEF c, S
<1>3. e \in Seq(S) /\ Removal(e, c, i)
  <2>1. i \in 1..Len(c)
    BY <1>1, <1>2
  <2> QED
    BY <1>2, <2>1, RemovedAt
<1> HIDE DEF e
<1>4. /\ Len(D2) = N - 2
      /\ \A j \in 1..N - 1 : /\ j < i => K2[j] = K[j]
                             /\ ~(j < i) => K2[j] = K[j + 1]
      /\ \A j \in 1..N - 2 : /\ j < i => D2[j] = D[j]
                             /\ ~(j < i) => D2[j] = D[j + 1]
  BY DEF DropReads
<1> HIDE DEF N
<1>5. Len(e) = N - 2 /\ \A j \in 1..N - 2 : e[j] = IF j < i THEN c[j] ELSE c[j + 1]
  <2>1. Len(c) - 1 = N - 2
    BY <1>1, <1>2
  <2> QED
    BY <1>3, <2>1 DEF Removal
<1>6. e = [j \in 1..N - 2 |-> e[j]]
  BY <1>3, <1>5
<1>7. both = [j \in 1..N - 2 |-> [child |-> K2[j], key |-> D2[j]]]
  BY <1>4 DEF RootCells
<1>8. \A j \in 1..N - 2 : e[j] = [child |-> K2[j], key |-> D2[j]]
  <2> TAKE j \in 1..N - 2
  <2> DEFINE x == j + 1
  <2>1. j \in 1..N - 1 /\ x \in 1..N - 1 /\ e[j] = IF j < i THEN c[j] ELSE c[x]
    BY <1>1, <1>5
  <2>2. K2[j] = (IF j < i THEN K[j] ELSE K[x]) /\ D2[j] = (IF j < i THEN D[j] ELSE D[x])
    BY <1>4, <2>1
  <2> HIDE DEF x
  <2> QED
    BY <1>2, <2>1, <2>2
<1> HIDE DEF both
<1>9. e = both
  BY <1>6, <1>7, <1>8
<1> QED
  BY <1>9 DEF e, both, c

(* A leaf that is empty is taken out of the tree.                           *)
Emptying(t, p) == Collapsed(Free(Unlinked(t, t.root, p), p))

LEMMA DropTree ==
  ASSUME NEW t, NEW K, NEW D, NEW L, NEW K2, NEW D2, NEW L2, NEW L0, NEW i,
         InTree(t, K, D, L), i \in 1..Len(L), i < Len(L), Len(L) > 2,
         Listed(K2, D2, L2), Many(L2), DropReads(K, D, L0, K2, D2, L2, i),
         Len(L0) = Len(L), \A j \in 1..Len(L) : j # i => L[j] = L0[j]
  PROVE  InTree(Emptying(t, K[i]), K2, D2, L2)
<1> DEFINE N == Len(L)
           r == t.root
           u == Unlinked(t, r, K[i])
           v == Free(u, K[i])
           both == RootCells(K2, D2)
           M == Len(L2)
<1>1. /\ Listed(K, D, L) /\ N \in Nat /\ i \in 1..N /\ i < N /\ N > 2 /\ IsTree(t) /\ Many(L)
      /\ DOMAIN t.pages = {r} \union {K[j] : j \in 1..N}
      /\ \A j \in 1..N : t.pages[K[j]] = Leaf(L[j]) /\ K[j] # r /\ K[j] \in DOMAIN t.pages
      /\ \A j, x \in 1..N : j # x => K[j] # K[x]
  <2>1. N \in Nat /\ Listed(K, D, L)
    BY ListReads DEF InTree
  <2>2. Many(L)
    <3>1. N > 2
      OBVIOUS
    <3> HIDE DEF N
    <3>2. N > 1
      BY <2>1, <3>1
    <3> QED
      BY <3>2 DEF Many, N
  <2> QED
    BY <2>1, <2>2 DEF InTree, Listed
<1>2. /\ M = N - 1 /\ Len(D2) = N - 2
      /\ \A j \in 1..N - 1 : /\ j < i => K2[j] = K[j] /\ L2[j] = L0[j]
                             /\ ~(j < i) => K2[j] = K[j + 1] /\ L2[j] = L0[j + 1]
  BY DEF DropReads
<1>3. \A j \in 1..N : j # i => L[j] = L0[j]
  OBVIOUS
<1>4. DropReads(K, D, L, K2, D2, L2, i)
  <2>1. /\ Len(K2) = Len(L0) - 1
        /\ \A j \in 1..N - 2 : /\ j < i => D2[j] = D[j]
                               /\ ~(j < i) => D2[j] = D[j + 1]
    BY DEF DropReads
  <2>2. Len(K2) = N - 1
    BY <2>1
  <2>3. ASSUME NEW j \in 1..N - 1
        PROVE  /\ j < i => L2[j] = L[j]
               /\ ~(j < i) => L2[j] = L[j + 1]
    <3> DEFINE x == j + 1
    <3> HIDE DEF N
    <3>1. j \in 1..N /\ x \in 1..N /\ (j < i => j # i) /\ (~(j < i) => x # i)
      BY <1>1
    <3>2. /\ j < i => L2[j] = L0[j]
          /\ ~(j < i) => L2[j] = L0[x]
      BY <1>2
    <3> HIDE DEF x
    <3>3. /\ j < i => L2[j] = L[j]
          /\ ~(j < i) => L2[j] = L[x]
      BY <1>3, <3>1, <3>2
    <3> QED
      BY <3>3 DEF x
  <2> QED
    BY <1>2, <2>1, <2>2, <2>3 DEF DropReads
<1>5. RemoveAt(RootCells(K, D), i) = both
  BY <1>1, <1>4, RootDropped
<1> HIDE DEF both
<1>6. Changed(u, t, r, Interior(both, K[N]))
  <2>1. Changed(u, t, r, Interior(RemoveAt(RootCells(K, D), i), K[N]))
    BY <1>1, UnlinkedIs
  <2> QED
    BY <1>5, <2>1
<1> HIDE DEF u
<1>7. IsTree(u) /\ u.root = r /\ DOMAIN u.pages = DOMAIN t.pages /\ u.pages[r] = Interior(both, K[N])
      /\ \A q \in DOMAIN t.pages : q # r => u.pages[q] = t.pages[q]
  BY <1>1, <1>6 DEF Changed
<1>8. IsTree(v) /\ v.root = r /\ DOMAIN v.pages = DOMAIN t.pages \ {K[i]}
      /\ \A q \in DOMAIN t.pages : q # K[i] => v.pages[q] = u.pages[q]
  BY <1>7, FreeIs
<1> HIDE DEF v
<1>9. v.pages[r] = Interior(both, K[N]) /\ r \in DOMAIN v.pages
  BY <1>1, <1>7, <1>8
<1>10. Collapsed(v) = v
  <2>1. Cells(v, r) = both
    BY <1>9 DEF Cells, Interior
  <2>2. Len(both) = N - 2
    <3> DEFINE d == Len(D2)
    <3>1. d = N - 2 /\ d \in Nat
      BY <1>2 DEF Listed
    <3> HIDE DEF d
    <3>2. Len([j \in 1..d |-> [child |-> K2[j], key |-> D2[j]]]) = d
      BY <3>1
    <3> QED
      BY <3>1, <3>2 DEF both, RootCells, d
  <2>3. Count(v, v.root) = N - 2
    BY <1>8, <2>1, <2>2 DEF Count
  <2>4. N - 2 # 0
    <3> HIDE DEF N
    <3> QED
      BY <1>1
  <2> HIDE DEF N
  <2> QED
    BY <2>3, <2>4 DEF Collapsed
<1>11. ASSUME NEW j \in 1..N, j # i
       PROVE  K[j] \in DOMAIN v.pages /\ v.pages[K[j]] = Leaf(L[j]) /\ K[j] # r
  <2>1. K[j] \in DOMAIN t.pages /\ K[j] # K[i] /\ K[j] # r
    BY <1>1, <1>11
  <2> QED
    BY <1>1, <1>7, <1>8, <2>1
<1>12. ASSUME NEW j \in 1..N - 1
       PROVE  \E x \in 1..N : x # i /\ K2[j] = K[x] /\ L2[j] = L[x]
  <2>0. /\ j < i => K2[j] = K[j] /\ L2[j] = L[j]
        /\ ~(j < i) => K2[j] = K[j + 1] /\ L2[j] = L[j + 1]
    BY <1>4 DEF DropReads
  <2> HIDE DEF N
  <2>1. CASE j < i
    <3>1. j \in 1..N /\ j # i
      BY <1>1, <2>1
    <3> QED
      BY <2>0, <2>1, <3>1
  <2>2. CASE ~(j < i)
    <3> DEFINE x == j + 1
    <3>1. x \in 1..N /\ x # i /\ K2[j] = K[x] /\ L2[j] = L[x]
      BY <1>1, <2>0, <2>2
    <3> HIDE DEF x
    <3> QED
      BY <3>1
  <2> QED
    BY <2>1, <2>2
<1>13. ASSUME NEW x \in 1..N, x # i
       PROVE  \E j \in 1..N - 1 : K2[j] = K[x]
  <2> HIDE DEF N
  <2>1. CASE x < i
    <3>1. x \in 1..N - 1
      BY <1>1, <2>1
    <3> QED
      BY <1>2, <2>1, <3>1
  <2>2. CASE x > i
    <3> DEFINE j == x - 1
    <3>1. j \in 1..N - 1 /\ ~(j < i) /\ j + 1 = x
      BY <1>1, <2>2
    <3> HIDE DEF j
    <3>2. K2[j] = K[x]
      BY <1>2, <3>1
    <3> QED
      BY <3>1, <3>2
  <2> QED
    BY <1>1, <1>13, <2>1, <2>2
<1>14. \A j \in 1..M : v.pages[K2[j]] = Leaf(L2[j]) /\ K2[j] # v.root /\ K2[j] \in DOMAIN v.pages
  <2> SUFFICES ASSUME NEW j \in 1..N - 1
               PROVE  v.pages[K2[j]] = Leaf(L2[j]) /\ K2[j] # v.root /\ K2[j] \in DOMAIN v.pages
    <3> HIDE DEF M, N
    <3> QED
      BY <1>2
  <2>1. PICK x \in 1..N : x # i /\ K2[j] = K[x] /\ L2[j] = L[x]
    BY <1>12
  <2> QED
    BY <1>8, <1>11, <2>1
<1>15. DOMAIN v.pages = {v.root} \union {K2[j] : j \in 1..M}
  <2>1. ASSUME NEW q \in DOMAIN v.pages, q # r
        PROVE  \E j \in 1..M : q = K2[j]
    <3>1. PICK x \in 1..N : q = K[x]
      BY <1>1, <1>8, <2>1
    <3>2. x # i
      BY <1>8, <3>1
    <3>3. PICK j \in 1..N - 1 : K2[j] = K[x]
      BY <1>13, <3>2
    <3>4. j \in 1..M
      <4> HIDE DEF M, N
      <4> QED
        BY <1>2, <3>3
    <3> QED
      BY <3>1, <3>3, <3>4
  <2> HIDE DEF M
  <2> QED
    BY <1>8, <1>9, <1>14, <2>1
<1>16. v.pages[v.root] = Interior(both, K2[M])
  <2>1. K2[M] = K[N]
    <3> HIDE DEF M, N
    <3>1. M \in 1..N - 1 /\ ~(M < i) /\ M + 1 = N
      BY <1>1, <1>2
    <3> QED
      BY <1>2, <3>1
  <2> QED
    BY <1>8, <1>9, <2>1
<1> HIDE DEF N
<1>17. InTree(v, K2, D2, L2)
  BY <1>8, <1>14, <1>15, <1>16 DEF InTree, M, both
<1> QED
  BY <1>10, <1>17 DEF Emptying, v, u, r

LEMMA EmptyingFits ==
  ASSUME NEW t, NEW K, NEW D, NEW L, InTree(t, K, D, L), NEW i \in 1..Len(L), Many(L), Fits(D, L)
  PROVE  PagesFit(Emptying(t, K[i]))
<1> DEFINE N == Len(L)
           r == t.root
           u == Unlinked(t, r, K[i])
           v == Free(u, K[i])
           w == SetPage(v, r, Leaf(<< >>))
<1>1. /\ Listed(K, D, L) /\ N \in Nat /\ Len(D) = N - 1 /\ IsTree(t)
      /\ K[i] # r /\ r \in DOMAIN t.pages
  BY ListReads DEF InTree
<1>2. PagesFit(t) /\ Len(D) <= InteriorCapacity
  BY TreeFits DEF Fits
<1>3. PagesFit(u) /\ IsTree(u) /\ u.root = r
  <2>1. FitsBut(t, r)
    BY <1>2 DEF PagesFit, FitsBut
  <2>2. CASE i < N
    <3> DEFINE c == RemoveAt(RootCells(K, D), i)
    <3>1. Len(c) = N - 2
      BY <1>1, <2>2, CellsDropped
    <3>2. Changed(u, t, r, Interior(c, K[N]))
      BY <2>2, UnlinkedIs
    <3> HIDE DEF c, u, N
    <3>3. Len(c) <= InteriorCapacity
      BY <1>1, <1>2, <3>1, Bounds
    <3>4. PageFits(Interior(c, K[N]))
      BY <3>3, InteriorFits
    <3> QED
      BY <2>1, <3>2, <3>4, ChangedFits DEF Changed
  <2>3. CASE ~(i < N)
    <3> DEFINE c == RootCells(K, D)
    <3>1. Len(c) <= InteriorCapacity
      <4>1. Cells(t, r) = c /\ Count(t, r) = N - 1
        BY RootReads DEF HasLeaves
      <4>2. Len(c) = N - 1
        BY <4>1 DEF Count
      <4> HIDE DEF c
      <4> QED
        BY <1>1, <1>2, <4>2
    <3>2. Changed(u, t, r, Interior(c, 0))
      BY <2>3, UnlinkedIs
    <3> HIDE DEF c, u, N
    <3>3. PageFits(Interior(c, 0))
      BY <3>1, InteriorFits
    <3> QED
      BY <2>1, <3>2, <3>3, ChangedFits DEF Changed
  <2> QED
    BY <2>2, <2>3
<1> HIDE DEF u
<1>4. IsTree(v) /\ v.root = r /\ PagesFit(v)
  <2>1. /\ IsTree(v) /\ v.root = u.root /\ DOMAIN v.pages = DOMAIN u.pages \ {K[i]}
        /\ \A q \in DOMAIN u.pages : q # K[i] => v.pages[q] = u.pages[q]
    BY <1>3, FreeIs
  <2> HIDE DEF v
  <2> QED
    BY <1>1, <1>3, <2>1 DEF PagesFit
<1> HIDE DEF v
<1>5. PagesFit(w)
  <2>1. Changed(w, v, r, Leaf(<< >>))
    BY <1>4, SetReads
  <2>2. PageFits(Leaf(<< >>))
    <3>1. << >> \in Seq(Keys) /\ Len(<< >>) < LeafCapacity
      BY Bounds
    <3> QED
      BY <3>1, LeafFits
  <2>3. FitsBut(v, r)
    BY <1>4 DEF PagesFit, FitsBut
  <2> HIDE DEF w
  <2> QED
    BY <2>1, <2>2, <2>3, ChangedFits
<1>6. Collapsed(v) = IF Count(v, r) = 0 THEN w ELSE v
  BY <1>4 DEF Collapsed
<1>7. PagesFit(Collapsed(v))
  BY <1>4, <1>5, <1>6
<1> QED
  BY <1>7 DEF Emptying, v, u, r

(* What Delete does under the m-th key of the i-th leaf.                    *)
Cut(t, K, D, L, i, m, c, d, e) ==
  /\ Len(L[i]) > 1 => d = [tree |-> CutFrom(t, K, i, m), cursor |-> c] /\ e = "none"
  /\ ~(Len(L[i]) > 1) /\ ~Many(L) => d = [tree |-> CutFrom(t, K, i, m), cursor |-> AtEnd] /\ e = "none"
  /\ ~(Len(L[i]) > 1) /\ Many(L) =>
       /\ d = [tree |-> Emptying(CutFrom(t, K, i, m), K[i]), cursor |-> AtEnd]
       /\ e = "none" <=> i < Len(L) /\ Len(L) > 2

LEMMA DeletedIs ==
  ASSUME NEW t, NEW K, NEW D, NEW L, NEW i, NEW m,
         InTree(t, K, D, L), i \in 1..Len(L), m \in 1..Len(L[i])
  PROVE  LET c == On(Place(t, K, i, m))
         IN  Cut(t, K, D, L, i, m, c, Deleted(t, c), Emptied(t, c))
<1> DEFINE c == On(Place(t, K, i, m))
           N == Len(L)
           n == Len(L[i])
           r == t.root
           cut == CutFrom(t, K, i, m)
           d == Deleted(t, c)
           e == Emptied(t, c)
<1>1. /\ Listed(K, D, L) /\ N \in Nat /\ n \in Nat /\ n > 0 /\ i \in 1..N
      /\ ~Many(L) => r = K[1]
      /\ Many(L) => K[i] # r
  <2>1. Listed(K, D, L) /\ n \in Nat /\ m \in 1..n
    BY ListReads DEF InTree
  <2>2. n > 0
    BY <2>1
  <2> QED
    BY <2>1, <2>2, ListReads DEF InTree
<1>2. /\ Last(c.stack) = At(K[i], m)
      /\ Many(L) => c.stack = <<At(r, i), At(K[i], m)>> /\ Front(c.stack) = <<At(r, i)>>
  BY <1>1, PlaceReads DEF On
<1>3. Last(c.stack).page = K[i] /\ Last(c.stack).index = m
  BY <1>2 DEF At
<1>4. Count(t, K[i]) = n
  BY Reads DEF HasKeys
<1>5. Count(cut, K[i]) = n - 1 /\ cut.root = r
  <2>1. PICK L1 : /\ CutTree(K, D, L, L1, i, m)
                  /\ cut.root = r /\ Count(cut, K[i]) = Len(L1[i])
    BY CutIs
  <2> QED
    BY <2>1 DEF CutTree
<1>6. d = IF Count(cut, K[i]) > 0 THEN [tree |-> cut, cursor |-> c]
          ELSE IF K[i] = r THEN [tree |-> cut, cursor |-> AtEnd]
          ELSE [tree |-> Collapsed(Cascade(cut, c.stack)), cursor |-> AtEnd]
  <2> HIDE DEF c
  <2> QED
    BY <1>3 DEF Deleted, CutFrom
<1>7. e = IF Count(t, K[i]) > 1 \/ K[i] = r THEN "none"
          ELSE IF t.pages[Last(Front(c.stack)).page].right = K[i] THEN "no right child"
          ELSE IF Count(t, Last(Front(c.stack)).page) = 1 THEN "leaf discarded"
          ELSE "none"
  <2> HIDE DEF c
  <2> QED
    BY <1>3 DEF Emptied
<1> HIDE DEF d, e, c, cut
<1>8. ASSUME n > 1
      PROVE  d = [tree |-> cut, cursor |-> c] /\ e = "none"
  <2>1. n - 1 > 0
    <3> HIDE DEF n
    <3> QED
      BY <1>1, <1>8
  <2> HIDE DEF n
  <2> QED
    BY <1>4, <1>5, <1>6, <1>7, <1>8, <2>1
<1>9. ASSUME ~(n > 1)
      PROVE  ~(n - 1 > 0)
  <2> HIDE DEF n
  <2> QED
    BY <1>1, <1>9
<1>10. ASSUME ~(n > 1), ~Many(L)
       PROVE  d = [tree |-> cut, cursor |-> AtEnd] /\ e = "none"
  <2>1. K[i] = r
    <3>1. N <= 1 /\ r = K[1]
      BY <1>1, <1>10, LeafCount
    <3> HIDE DEF N
    <3>2. i = 1
      BY <1>1, <3>1
    <3> QED
      BY <3>1, <3>2
  <2> HIDE DEF n
  <2> QED
    BY <1>5, <1>6, <1>7, <1>9, <1>10, <2>1
<1>11. ASSUME ~(n > 1), Many(L)
       PROVE  /\ d = [tree |-> Emptying(cut, K[i]), cursor |-> AtEnd]
              /\ e = "none" <=> i < N /\ N > 2
  <2>1. K[i] # r /\ c.stack = <<At(cut.root, i), At(K[i], m)>>
    BY <1>1, <1>2, <1>5, <1>11
  <2>2. Cascade(cut, c.stack) = Free(Unlinked(cut, cut.root, K[i]), K[i])
    BY <2>1, CascadeIs
  <2>3. d = [tree |-> Emptying(cut, K[i]), cursor |-> AtEnd]
    <3> HIDE DEF n
    <3> QED
      BY <1>5, <1>6, <1>9, <1>11, <2>1, <2>2 DEF Emptying
  <2>4. Last(Front(c.stack)).page = r
    <3>1. Last(<<At(r, i)>>) = At(r, i)
      BY Pair
    <3>2. Last(Front(c.stack)) = At(r, i)
      BY <1>2, <1>11, <3>1
    <3> QED
      BY <3>2 DEF At
  <2>5. t.pages[r].right = K[N] /\ Count(t, r) = N - 1
    BY <1>11, RootReads DEF HasLeaves
  <2>6. ASSUME e = "none"
        PROVE  K[N] # K[i] /\ N - 1 # 1
    <3> HIDE DEF n, N
    <3> QED
      BY <1>4, <1>7, <1>11, <2>1, <2>4, <2>5, <2>6
  <2>7. ASSUME e = "none"
        PROVE  i < N /\ N > 2
    <3>1. i # N /\ N - 1 # 1 /\ N > 1
      BY <2>6, <2>7, <1>11, LeafCount
    <3> HIDE DEF N
    <3> QED
      BY <1>1, <3>1
  <2>8. ASSUME i < N, N > 2
        PROVE  e = "none"
    <3>1. K[N] # K[i]
      <4>1. N \in 1..N /\ i \in 1..N /\ N # i
        <5> HIDE DEF N
        <5> QED
          BY <1>1, <2>8
      <4>2. \A x, y \in 1..N : x # y => K[x] # K[y]
        BY <1>1 DEF Listed
      <4> HIDE DEF N
      <4> QED
        BY <4>1, <4>2
    <3>2. N - 1 # 1
      <4> HIDE DEF N
      <4> QED
        BY <1>1, <2>8
    <3> HIDE DEF n, N
    <3> QED
      BY <1>7, <2>4, <2>5, <3>1, <3>2
  <2> QED
    BY <2>3, <2>7, <2>8
<1>12. Cut(t, K, D, L, i, m, c, d, e)
  BY <1>8, <1>10, <1>11 DEF Cut, cut
<1> QED
  BY <1>12 DEF d, e, c

(* The tree after a deletion.                                               *)
Cutting(t, K, D, L, R, i, m, c, d, e) ==
  /\ PagesFit(d.tree)
  /\ e = "none" => \E K2, D2, L2 : TreeOf(d.tree, K2, D2, L2, R \ {L[i][m]})
  /\ ~d.cursor.eof =>
       /\ d.cursor = c /\ e = "none" /\ d.tree.root = t.root
       /\ \E L1 : CutTree(K, D, L, L1, i, m) /\ TreeOf(d.tree, K, D, L1, R \ {L[i][m]})

LEMMA DeleteKeeps ==
  ASSUME NEW t, NEW K, NEW D, NEW L, NEW R, NEW i, NEW m,
         TreeOf(t, K, D, L, R), i \in 1..Len(L), m \in 1..Len(L[i])
  PROVE  LET c == On(Place(t, K, i, m))
         IN  Cutting(t, K, D, L, R, i, m, c, Deleted(t, c), Emptied(t, c))
<1> DEFINE c == On(Place(t, K, i, m))
           d == Deleted(t, c)
           e == Emptied(t, c)
           cut == CutFrom(t, K, i, m)
           n == Len(L[i])
           k == L[i][m]
           R2 == R \ {k}
<1>1. InTree(t, K, D, L) /\ Ordered(D, L) /\ Fits(D, L) /\ Holds(L, R) /\ Listed(K, D, L)
  BY DEF TreeOf, InTree
<1>2. Cut(t, K, D, L, i, m, c, d, e)
  BY <1>1, DeletedIs
<1> HIDE DEF c, d, e
<1>3. PICK L1 : InTree(cut, K, D, L1) /\ CutTree(K, D, L, L1, i, m) /\ cut.root = t.root
  BY <1>1, CutIs
<1>4. /\ Listed(K, D, L1) /\ Len(L1) = Len(L) /\ (Many(L1) <=> Many(L))
      /\ Removal(L1[i], L[i], m) /\ \A j \in 1..Len(L) : j # i => L1[j] = L[j]
      /\ Len(L1[i]) = n - 1 /\ n \in Nat
  <2>1. n \in Nat
    BY <1>1, ListReads
  <2> QED
    BY <1>3, <2>1 DEF CutTree
<1>5. (n > 1 \/ ~Many(L) => Ordered(D, L1)) /\ Holds(L1, R2)
  BY <1>1, <1>4, OrderedCut
<1>6. Fits(D, L1)
  <2>1. Len(L1[i]) < LeafCapacity
    <3>1. n < LeafCapacity
      BY <1>1 DEF Fits
    <3> HIDE DEF n
    <3>2. n - 1 < LeafCapacity
      BY <1>4, <3>1, Bounds
    <3> QED
      BY <1>4, <3>2
  <2>2. \A j \in 1..Len(L1) : Len(L1[j]) < LeafCapacity
    BY <1>1, <1>4, <2>1 DEF Fits
  <2> QED
    BY <1>1, <2>2 DEF Fits
<1> HIDE DEF cut, R2
<1>7. n > 1 \/ ~Many(L) => TreeOf(cut, K, D, L1, R2)
  BY <1>3, <1>5, <1>6 DEF TreeOf
<1>8. PagesFit(cut)
  BY <1>3, <1>6, TreeFits
<1>9. CASE n > 1
  <2>1. d.tree = cut /\ d.cursor = c /\ e = "none"
    BY <1>2, <1>9 DEF Cut, cut
  <2>2. Cutting(t, K, D, L, R, i, m, c, d, e)
    BY <1>3, <1>7, <1>8, <1>9, <2>1 DEF Cutting, R2
  <2> QED
    BY <2>2 DEF c, d, e
<1>10. CASE ~(n > 1) /\ ~Many(L)
  <2>1. d.tree = cut /\ d.cursor.eof /\ e = "none"
    BY <1>2, <1>10, EndIs DEF Cut, cut
  <2>2. Cutting(t, K, D, L, R, i, m, c, d, e)
    BY <1>7, <1>8, <1>10, <2>1 DEF Cutting, R2
  <2> QED
    BY <2>2 DEF c, d, e
<1>11. CASE ~(n > 1) /\ Many(L)
  <2>1. d.tree = Emptying(cut, K[i]) /\ d.cursor.eof /\ (e = "none" => i < Len(L) /\ Len(L) > 2)
    BY <1>2, <1>11, EndIs DEF Cut, cut
  <2>2. PagesFit(d.tree)
    <3>1. i \in 1..Len(L1) /\ Many(L1)
      BY <1>4, <1>11
    <3>2. PagesFit(Emptying(cut, K[i]))
      BY <1>3, <1>6, <3>1, EmptyingFits
    <3> QED
      BY <2>1, <3>2
  <2>3. ASSUME e = "none"
        PROVE  \E K2, D2, L2 : TreeOf(d.tree, K2, D2, L2, R2)
    <3> DEFINE K2 == RemoveAt(K, i)
               D2 == RemoveAt(D, i)
               L2 == RemoveAt(L, i)
    <3>1. i < Len(L) /\ Len(L) > 2
      BY <2>1, <2>3
    <3>2. Drop(K, D, L, K2, D2, L2, i)
      BY DEF Drop
    <3> HIDE DEF K2, D2, L2
    <3>3. Listed(K2, D2, L2) /\ Many(L2) /\ DropReads(K, D, L, K2, D2, L2, i)
      BY <1>1, <3>1, <3>2, DropLists
    <3>4. Ordered(D2, L2) /\ Holds(L2, R \ {L[i][1]})
      BY <1>1, <1>11, <3>1, <3>3, DropOrdered
    <3>5. k = L[i][1]
      <4>1. m = 1
        <5>1. m \in 1..n
          OBVIOUS
        <5> HIDE DEF n
        <5> QED
          BY <1>4, <1>11, <5>1
      <4> QED
        BY <4>1
    <3>6. InTree(Emptying(cut, K[i]), K2, D2, L2)
      <4>1. i \in 1..Len(L1) /\ i < Len(L1) /\ Len(L1) > 2
        BY <1>4, <3>1
      <4>2. Len(L) = Len(L1) /\ \A j \in 1..Len(L1) : j # i => L1[j] = L[j]
        BY <1>4
      <4> QED
        BY <1>3, <3>3, <4>1, <4>2, DropTree
    <3>7. Fits(D2, L2)
      <4> DEFINE N == Len(L)
      <4>1. /\ N \in Nat /\ i \in 1..N /\ i < N
            /\ \A j \in 1..N : Len(L[j]) < LeafCapacity
            /\ Len(D) <= InteriorCapacity /\ Len(D) = N - 1
        BY <1>1, <3>1, ListReads DEF Fits
      <4>2. /\ Len(L2) = N - 1 /\ Len(D2) = N - 2
            /\ \A j \in 1..N - 1 : /\ j < i => L2[j] = L[j]
                                   /\ ~(j < i) => L2[j] = L[j + 1]
        BY <3>3 DEF DropReads
      <4> HIDE DEF N
      <4>3. Len(D2) <= InteriorCapacity
        BY <4>1, <4>2, Bounds
      <4>4. \A j \in 1..N - 1 : Len(L2[j]) < LeafCapacity
        <5> TAKE j \in 1..N - 1
        <5> DEFINE x == j + 1
        <5>1. j \in 1..N /\ x \in 1..N /\ (j < i => L2[j] = L[j]) /\ (~(j < i) => L2[j] = L[x])
          BY <4>1, <4>2
        <5> HIDE DEF x
        <5> QED
          BY <4>1, <5>1
      <4> QED
        BY <4>2, <4>3, <4>4 DEF Fits
    <3>8. TreeOf(d.tree, K2, D2, L2, R2)
      BY <2>1, <3>4, <3>5, <3>6, <3>7 DEF TreeOf, R2
    <3> QED
      BY <3>8
  <2>4. Cutting(t, K, D, L, R, i, m, c, d, e)
    BY <2>1, <2>2, <2>3 DEF Cutting, R2
  <2> QED
    BY <2>4 DEF c, d, e
<1> QED
  BY <1>9, <1>10, <1>11

-----------------------------------------------------------------------------
(* The inductive invariant                                                  *)

(* An undamaged tree is the tree of the table's keys, and a cursor that was *)
(* positioned since the tree changed is on one of them or at the end; and   *)
(* no page of any tree has more cells than it holds.                        *)
InPlace(c, t, K, L) == c = AtEnd \/ OnKey(t, K, L, c)

TreeInv ==
  /\ PagesFit(tree) /\ rows \in SUBSET Keys /\ steady \in BOOLEAN
  /\ Sound => \E K, D, L : TreeOf(tree, K, D, L, rows) /\ (steady => InPlace(cursor, tree, K, L))
  /\ ~Sound => ~steady

LEMMA TreeRows ==
  ASSUME NEW t, NEW K, NEW D, NEW L, NEW R, TreeOf(t, K, D, L, R)
  PROVE  R \in SUBSET Keys /\ PagesFit(t) /\ Listed(K, D, L)
<1>1. Listed(K, D, L) /\ Holds(L, R)
  BY DEF TreeOf, InTree
<1>2. R \in SUBSET Keys
  BY <1>1, HeldKeys
<1>3. PagesFit(t)
  BY TreeFits DEF TreeOf
<1> QED
  BY <1>1, <1>2, <1>3

LEMMA InitInv == Init => TreeInv
<1> SUFFICES ASSUME Init PROVE TreeInv
  OBVIOUS
<1> DEFINE K == <<1>>
           D == << >>
           L == << << >> >>
           pages == [p \in {1} |-> Leaf(<< >>)]
<1>1. /\ tree = [root |-> 1, pages |-> pages] /\ cursor = AtEnd
      /\ rows = {} /\ steady = TRUE /\ damage = "none"
  BY DEF Init
<1>2. Listed(K, D, L)
  <2>1. << >> \in Seq(Keys) /\ D \in Seq(Keys) /\ Len(D) = 0 /\ K \in Seq(Nat \ {0}) /\ Len(K) = 1
    OBVIOUS
  <2> DEFINE S == Seq(Keys)
             x == << >>
  <2>2. x \in S /\ L = <<x>>
    BY <2>1
  <2> HIDE DEF S, x
  <2>3. <<x>> \in Seq(S) /\ Len(<<x>>) = 1
    BY <2>2
  <2>4. L \in Seq(S) /\ Len(L) = 1
    BY <2>2, <2>3
  <2> HIDE DEF L
  <2>5. \A i, j \in 1..Len(L) : i # j => K[i] # K[j]
    BY <2>4
  <2> HIDE DEF K, D
  <2> QED
    BY <2>1, <2>4, <2>5 DEF Listed, S
<1>3. Len(L) = 1 /\ ~Many(L) /\ K[1] = 1 /\ L[1] = << >> /\ Len(D) = 0
  BY DEF Many
<1>4. InTree(tree, K, D, L)
  <2>1. tree.root = 1 /\ tree.pages = pages /\ DOMAIN pages = {1} /\ pages[1] = Leaf(<< >>)
    BY <1>1
  <2>2. IsTree(tree)
    BY <1>1, <2>1 DEF IsTree
  <2> HIDE DEF L, K, D
  <2>3. \A i \in 1..Len(L) : i = 1
    BY <1>3
  <2>4. 1 \in 1..Len(L)
    BY <1>3
  <2>5. {K[i] : i \in 1..Len(L)} = {1}
    BY <1>3, <2>3, <2>4
  <2> HIDE DEF pages
  <2> QED
    BY <1>2, <1>3, <2>1, <2>2, <2>3, <2>5 DEF InTree
<1> HIDE DEF K, D, L
<1>5. Ordered(D, L)
  <2>1. \A i \in 1..Len(L) : L[i] = << >>
    BY <1>3
  <2>2. Increasing(<< >>)
    BY DEF Increasing
  <2>3. D = << >>
    BY DEF D
  <2>4. \A i \in 1..Len(L) : \A m \in Nat : ~(m \in 1..Len(L[i]))
    <3>1. Len(<< >>) = 0
      OBVIOUS
    <3> QED
      BY <2>1, <3>1
  <2> QED
    BY <1>3, <2>1, <2>2, <2>3, <2>4 DEF Ordered
<1>6. Fits(D, L)
  <2>1. Len(<< >>) < LeafCapacity /\ 0 <= InteriorCapacity
    BY Bounds
  <2> QED
    BY <1>3, <2>1 DEF Fits
<1>7. Holds(L, rows)
  <2>1. \A i \in 1..Len(L) : Len(L[i]) = 0
    <3>1. Len(<< >>) = 0
      OBVIOUS
    <3> QED
      BY <1>3, <3>1
  <2>2. \A i \in 1..Len(L) : \A m \in 1..Len(L[i]) : FALSE
    BY <2>1
  <2> QED
    BY <1>1, <2>2 DEF Holds
<1>8. TreeOf(tree, K, D, L, rows)
  BY <1>4, <1>5, <1>6, <1>7 DEF TreeOf
<1> QED
  BY <1>1, <1>8, TreeRows DEF TreeInv, InPlace, Sound

LEMMA OnRow ==
  ASSUME TreeInv, Sound, Positioned, steady
  PROVE  \E K, D, L, i, m :
           /\ TreeOf(tree, K, D, L, rows) /\ i \in 1..Len(L) /\ m \in 1..Len(L[i])
           /\ cursor = On(Place(tree, K, i, m)) /\ KeyAt(tree, cursor) = L[i][m]
<1>1. PICK K, D, L : TreeOf(tree, K, D, L, rows) /\ InPlace(cursor, tree, K, L)
  BY DEF TreeInv
<1>2. ~(cursor = AtEnd)
  BY EndIs DEF Positioned
<1>3. PICK i \in 1..Len(L) : \E m \in 1..Len(L[i]) : cursor = On(Place(tree, K, i, m))
  BY <1>1, <1>2 DEF InPlace, OnKey
<1>4. PICK m \in 1..Len(L[i]) : cursor = On(Place(tree, K, i, m))
  BY <1>3
<1>5. KeyAt(tree, cursor) = L[i][m]
  BY <1>1, <1>4, CursorReads DEF TreeOf
<1> QED
  BY <1>1, <1>4, <1>5

(* A step that moves the cursor only.                                       *)
LEMMA MoveInv ==
  ASSUME NEW c, NEW K, NEW D, NEW L, TreeInv, Sound, Move(c), steady' \in BOOLEAN,
         TreeOf(tree, K, D, L, rows), InPlace(c, tree, K, L)
  PROVE  TreeInv'
<1>1. cursor' = c /\ tree' = tree /\ rows' = rows /\ damage' = damage
  BY DEF Move
<1>2. Sound'
  BY <1>1 DEF Sound
<1>3. PagesFit(tree') /\ rows' \in SUBSET Keys
  BY <1>1 DEF TreeInv
<1>4. TreeOf(tree', K, D, L, rows') /\ InPlace(cursor', tree', K, L)
  BY <1>1
<1> QED
  BY <1>2, <1>3, <1>4 DEF TreeInv

LEMMA PlaceFollows ==
  ASSUME NEW t, NEW K, NEW L, NEW i, NEW m, i \in 1..Len(L), m \in 1..Len(L[i])
  PROVE  InPlace(On(Place(t, K, i, m)), t, K, L)
BY DEF InPlace, OnKey

LEMMA RewindInv ==
  ASSUME TreeInv, Rewind
  PROVE  TreeInv'
<1>1. PICK K, D, L : TreeOf(tree, K, D, L, rows)
  BY DEF TreeInv, Rewind
<1>2. InTree(tree, K, D, L) /\ Len(L) \in Nat /\ Len(L) > 0 /\ Len(L[1]) \in Nat
  <2>1. InTree(tree, K, D, L) /\ Len(L) \in Nat /\ Len(L) > 0
    BY <1>1, LeafCount DEF TreeOf
  <2>2. 1 \in 1..Len(L)
    BY <2>1
  <2>3. Len(L[1]) \in Nat
    BY <2>1, <2>2, ListReads DEF InTree
  <2> QED
    BY <2>1, <2>3
<1>3. First(tree) = IF Len(L[1]) > 0 THEN On(Place(tree, K, 1, 1)) ELSE AtEnd
  BY <1>2, FirstIs
<1>4. InPlace(First(tree), tree, K, L)
  <2>1. CASE Len(L[1]) > 0
    <3>1. 1 \in 1..Len(L) /\ 1 \in 1..Len(L[1])
      BY <1>2, <2>1
    <3> QED
      BY <1>3, <2>1, <3>1, PlaceFollows
  <2>2. CASE ~(Len(L[1]) > 0)
    BY <1>3, <2>2 DEF InPlace
  <2> QED
    BY <2>1, <2>2
<1>5. Sound /\ Move(First(tree)) /\ steady' \in BOOLEAN
  BY DEF Rewind
<1> QED
  BY <1>1, <1>4, <1>5, MoveInv

LEMMA LastFollows ==
  ASSUME NEW t, NEW K, NEW D, NEW L, InTree(t, K, D, L)
  PROVE  InPlace(LastEntry(t), t, K, L)
<1> DEFINE e == LastLeaf(L)
<1>1. e \in 1..Len(L) /\ LastEntry(t) = IF Len(L[e]) > 0 THEN On(Place(t, K, e, Len(L[e]))) ELSE AtEnd
  BY LastIs
<1>2. Len(L[e]) \in Nat
  BY <1>1, ListReads DEF InTree
<1> HIDE DEF e
<1>3. CASE Len(L[e]) > 0
  <2> DEFINE n == Len(L[e])
  <2>1. n \in 1..Len(L[e])
    BY <1>2, <1>3
  <2>2. LastEntry(t) = On(Place(t, K, e, n))
    BY <1>1, <1>3
  <2> HIDE DEF n
  <2> QED
    BY <1>1, <2>1, <2>2, PlaceFollows
<1>4. CASE ~(Len(L[e]) > 0)
  BY <1>1, <1>4 DEF InPlace
<1> QED
  BY <1>3, <1>4

LEMMA GoLastInv ==
  ASSUME TreeInv, GoLast
  PROVE  TreeInv'
<1>1. PICK K, D, L : TreeOf(tree, K, D, L, rows)
  BY DEF TreeInv, GoLast
<1>2. InPlace(LastEntry(tree), tree, K, L)
  BY <1>1, LastFollows DEF TreeOf
<1>3. Sound /\ Move(LastEntry(tree)) /\ steady' \in BOOLEAN
  BY DEF GoLast
<1> QED
  BY <1>1, <1>2, <1>3, MoveInv

LEMMA SeekInv ==
  ASSUME NEW k \in Keys, TreeInv, SeekKey(k)
  PROVE  TreeInv'
<1> DEFINE c == Seek(tree, k).cursor
<1>1. PICK K, D, L : TreeOf(tree, K, D, L, rows)
  BY DEF TreeInv, SeekKey
<1>2. InTree(tree, K, D, L) /\ Ordered(D, L) /\ k \in Int
  BY <1>1, Bounds DEF TreeOf
<1>3. PICK i, m : SeekReads(tree, K, D, L, i, m, k)
  BY <1>2, SeekIs
<1>4. /\ i \in 1..Len(L) /\ m \in 1..Len(L[i]) + 1
      /\ c = IF m > Len(L[i]) THEN AtEnd ELSE On(Place(tree, K, i, m))
  BY <1>3 DEF SeekReads, LeadsTo, IndexIn
<1> HIDE DEF c
<1>5. InPlace(c, tree, K, L)
  <2>0. Len(L[i]) \in Nat
    BY <1>2, <1>4, ListReads DEF InTree
  <2>1. CASE m > Len(L[i])
    BY <1>4, <2>1 DEF InPlace
  <2>2. CASE ~(m > Len(L[i]))
    <3>1. m \in 1..Len(L[i])
      <4> DEFINE n == Len(L[i])
      <4> HIDE DEF n
      <4>1. m \in 1..n + 1 /\ n \in Nat /\ ~(m > n)
        BY <1>4, <2>0, <2>2 DEF n
      <4>2. m \in 1..n
        BY <4>1
      <4> QED
        BY <4>2 DEF n
    <3> QED
      BY <1>4, <2>2, <3>1, PlaceFollows
  <2> QED
    BY <2>1, <2>2
<1>6. Sound /\ Move(c) /\ steady' \in BOOLEAN
  BY DEF SeekKey, c
<1> QED
  BY <1>1, <1>5, <1>6, MoveInv

LEMMA StepInv ==
  ASSUME TreeInv, Step
  PROVE  TreeInv'
<1>1. Sound /\ Positioned /\ steady /\ Move(Advance(tree, cursor)) /\ steady' = steady
  BY DEF Step
<1>2. PICK K, D, L, i, m :
        /\ TreeOf(tree, K, D, L, rows) /\ i \in 1..Len(L) /\ m \in 1..Len(L[i])
        /\ cursor = On(Place(tree, K, i, m))
  BY <1>1, OnRow
<1> DEFINE c == Advance(tree, cursor)
<1>3. c = IF m < Len(L[i]) THEN On(Place(tree, K, i, m + 1))
          ELSE IF i < Len(L) THEN On(Place(tree, K, i + 1, 1)) ELSE AtEnd
  BY <1>2, AdvanceIs DEF TreeOf
<1> HIDE DEF c
<1>4. /\ Listed(K, D, L) /\ Len(L) \in Nat /\ Len(L[i]) \in Nat
      /\ \A j \in 1..Len(L) : Len(L[j]) \in Nat
      /\ Many(L) => \A j \in 1..Len(L) : Len(L[j]) > 0
  BY <1>2, ListReads DEF TreeOf, InTree, Ordered
<1>5. InPlace(c, tree, K, L)
  <2>1. CASE m < Len(L[i])
    <3> DEFINE m1 == m + 1
    <3>1. m1 \in 1..Len(L[i]) /\ c = On(Place(tree, K, i, m1))
      BY <1>2, <1>3, <1>4, <2>1
    <3> HIDE DEF m1
    <3> QED
      BY <1>2, <3>1, PlaceFollows
  <2>2. CASE ~(m < Len(L[i])) /\ i < Len(L)
    <3> DEFINE j == i + 1
    <3>1. j \in 1..Len(L) /\ c = On(Place(tree, K, j, 1)) /\ Many(L)
      <4>1. Len(L) > 1
        <5> DEFINE N == Len(L)
        <5>1. N \in Nat /\ i \in 1..N /\ i < N
          BY <1>2, <1>4, <2>2
        <5> HIDE DEF N
        <5>2. N > 1
          BY <5>1
        <5> QED
          BY <5>2 DEF N
      <4> QED
        BY <1>2, <1>3, <1>4, <2>2, <4>1 DEF Many
    <3> HIDE DEF j
    <3>2. 1 \in 1..Len(L[j])
      BY <1>4, <3>1
    <3> QED
      BY <3>1, <3>2, PlaceFollows
  <2>3. CASE ~(m < Len(L[i])) /\ ~(i < Len(L))
    BY <1>3, <2>3 DEF InPlace
  <2> QED
    BY <2>1, <2>2, <2>3
<1>6. Move(c) /\ steady' \in BOOLEAN
  BY <1>1 DEF c, TreeInv
<1> QED
  BY <1>1, <1>2, <1>5, <1>6, MoveInv

LEMMA GrownTree ==
  ASSUME NEW u, NEW t, NEW K, NEW D, NEW L, NEW R, NEW key, NEW large,
         GrownTo(u, t, K, D, L, R, key, large), ~SplitsInterior(t, key, large)
  PROVE  \E K2, D2, L2 : TreeOf(u, K2, D2, L2, R \union {key})
BY DEF GrownTo

LEMMA InsertInv ==
  ASSUME NEW k \in Keys, TreeInv, Insert(k)
  PROVE  TreeInv'
<1>1. /\ Sound /\ k \notin rows /\ tree' = Inserted(tree, k, FALSE) /\ rows' = rows \union {k}
      /\ damage' = IF SplitsInterior(tree, k, FALSE) THEN "leaf not linked" ELSE "none"
      /\ steady' = FALSE
  BY DEF Insert
<1>2. PICK K, D, L : TreeOf(tree, K, D, L, rows)
  BY <1>1 DEF TreeInv
<1>3. PagesFit(tree') /\ rows' \in SUBSET Keys
  BY <1>1, <1>2, InsertFits DEF TreeInv
<1>4. ASSUME Sound'
      PROVE  \E K2, D2, L2 : TreeOf(tree', K2, D2, L2, rows')
  <2>1. ~SplitsInterior(tree, k, FALSE)
    BY <1>1, <1>4 DEF Sound
  <2>2. GrownTo(tree', tree, K, D, L, rows, k, FALSE)
    BY <1>1, <1>2, InsertKeeps
  <2> QED
    BY <1>1, <2>1, <2>2, GrownTree
<1> QED
  BY <1>1, <1>3, <1>4 DEF TreeInv

LEMMA AppendInv ==
  ASSUME TreeInv, AppendRow
  PROVE  TreeInv'
<1> DEFINE k == NewRowid(tree)
<1>1. /\ Sound /\ k \in Keys /\ tree' = Inserted(tree, k, FALSE) /\ rows' = rows \union {k}
      /\ damage' = IF k \in rows THEN "rowid taken"
                   ELSE IF SplitsInterior(tree, k, FALSE) THEN "leaf not linked" ELSE "none"
      /\ steady' = FALSE
  BY DEF AppendRow
<1> HIDE DEF k
<1>2. PICK K, D, L : TreeOf(tree, K, D, L, rows)
  BY <1>1 DEF TreeInv
<1>3. PagesFit(tree') /\ rows' \in SUBSET Keys
  BY <1>1, <1>2, InsertFits DEF TreeInv
<1>4. ASSUME Sound'
      PROVE  \E K2, D2, L2 : TreeOf(tree', K2, D2, L2, rows')
  <2>1. k \notin rows /\ ~SplitsInterior(tree, k, FALSE)
    BY <1>1, <1>4 DEF Sound
  <2>2. GrownTo(tree', tree, K, D, L, rows, k, FALSE)
    BY <1>1, <1>2, <2>1, InsertKeeps
  <2> QED
    BY <1>1, <2>1, <2>2, GrownTree
<1> QED
  BY <1>1, <1>3, <1>4 DEF TreeInv

(* A cursor is on the m-th key of the i-th leaf.                            *)
OnEntry(c, t, K, L, i, m) == m \in 1..Len(L[i]) /\ c = On(Place(t, K, i, m))

(* The cursor stays in place where the leaf under it keeps a key there.     *)
LEMMA CutFollows ==
  ASSUME NEW t, NEW u, NEW K, NEW D, NEW L1, NEW R, NEW i, NEW m,
         TreeOf(u, K, D, L1, R), i \in 1..Len(L1), m \in Nat \ {0}, u.root = t.root,
         Last(On(Place(t, K, i, m)).stack).index <= Count(u, Last(On(Place(t, K, i, m)).stack).page)
  PROVE  /\ OnEntry(On(Place(t, K, i, m)), u, K, L1, i, m)
         /\ InPlace(On(Place(t, K, i, m)), u, K, L1)
<1>1. InTree(u, K, D, L1) /\ Listed(K, D, L1)
  BY DEF TreeOf, InTree
<1>2. Last(On(Place(t, K, i, m)).stack) = At(K[i], m)
  BY <1>1, PlaceReads DEF On
<1>3. Count(u, K[i]) = Len(L1[i]) /\ Len(L1[i]) \in Nat
  BY <1>1, Reads, ListReads DEF HasKeys
<1>4. m <= Len(L1[i])
  BY <1>2, <1>3 DEF At
<1>5. m \in 1..Len(L1[i])
  <2> DEFINE n == Len(L1[i])
  <2>1. n \in Nat /\ m <= n
    BY <1>3, <1>4
  <2> HIDE DEF n
  <2>2. m \in 1..n
    BY <2>1
  <2> QED
    BY <2>2 DEF n
<1>6. Place(t, K, i, m) = Place(u, K, i, m)
  BY DEF Place
<1>7. OnEntry(On(Place(t, K, i, m)), u, K, L1, i, m)
  BY <1>5, <1>6 DEF OnEntry
<1>8. InPlace(On(Place(u, K, i, m)), u, K, L1)
  BY <1>5, PlaceFollows
<1> QED
  BY <1>6, <1>7, <1>8

LEMMA DeleteInv ==
  ASSUME TreeInv, Delete
  PROVE  TreeInv'
<1> DEFINE d == Deleted(tree, cursor)
<1>1. /\ Sound /\ Positioned /\ steady
      /\ tree' = d.tree /\ cursor' = d.cursor /\ rows' = rows \ {KeyAt(tree, cursor)}
      /\ damage' = Emptied(tree, cursor)
      /\ steady' = (~d.cursor.eof /\ Last(d.cursor.stack).index <= Count(d.tree, Last(d.cursor.stack).page))
  BY DEF Delete
<1>2. PICK K, D, L, i, m :
        /\ TreeOf(tree, K, D, L, rows) /\ i \in 1..Len(L) /\ m \in 1..Len(L[i])
        /\ cursor = On(Place(tree, K, i, m)) /\ KeyAt(tree, cursor) = L[i][m]
  BY <1>1, OnRow
<1>3. Cutting(tree, K, D, L, rows, i, m, cursor, d, Emptied(tree, cursor))
  BY <1>2, DeleteKeeps
<1> HIDE DEF d
<1>4. PagesFit(tree') /\ rows' \in SUBSET Keys
  BY <1>1, <1>3 DEF Cutting, TreeInv
<1>5. Sound' => \E K2, D2, L2 : TreeOf(tree', K2, D2, L2, rows')
  BY <1>1, <1>2, <1>3 DEF Cutting, Sound
<1>6. ASSUME steady'
      PROVE  Sound' /\ \E L1 : TreeOf(tree', K, D, L1, rows') /\ InPlace(cursor', tree', K, L1)
  <2>1. PICK L1 : /\ CutTree(K, D, L, L1, i, m) /\ TreeOf(tree', K, D, L1, rows')
                  /\ cursor' = cursor /\ Emptied(tree, cursor) = "none" /\ tree'.root = tree.root
    BY <1>1, <1>2, <1>3, <1>6 DEF Cutting
  <2>2. i \in 1..Len(L1) /\ m \in Nat \ {0}
    BY <1>2, <2>1 DEF CutTree
  <2>3. Last(On(Place(tree, K, i, m)).stack).index <= Count(tree', Last(On(Place(tree, K, i, m)).stack).page)
    BY <1>1, <1>2, <1>6, <2>1
  <2>4. InPlace(On(Place(tree, K, i, m)), tree', K, L1)
    BY <2>1, <2>2, <2>3, CutFollows
  <2>5. InPlace(cursor', tree', K, L1)
    BY <1>2, <2>1, <2>4
  <2> QED
    BY <1>1, <2>1, <2>5 DEF Sound
<1>7. steady' \in BOOLEAN
  BY <1>1
<1> QED
  BY <1>4, <1>5, <1>6, <1>7 DEF TreeInv

LEMMA InsertedRoot ==
  ASSUME NEW t, NEW key, NEW large, IsTree(t), ~Overfull(t, key, large)
  PROVE  Inserted(t, key, large).root = t.root
<1> DEFINE leaf == Last(WayDown(t, key))
           page == Leaf(InsertAt(KeysOf(t, leaf.page), leaf.index, key))
<1>1. Inserted(t, key, large) = SetPage(t, leaf.page, page)
  BY DEF Inserted
<1>2. Changed(SetPage(t, leaf.page, page), t, leaf.page, page)
  BY SetReads
<1> QED
  BY <1>1, <1>2 DEF Changed

(* A key that is put back goes to the leaf that it came from.               *)
LEMMA SameLeaf ==
  ASSUME NEW K, NEW D, NEW L, NEW i, NEW m, NEW j, NEW key,
         Listed(K, D, L), Ordered(D, L), i \in 1..Len(L), m \in 1..Len(L[i]), key = L[i][m], j \in 1..Len(L),
         j > 1 => D[j - 1] <= key, j < Len(L) => key < D[j]
  PROVE  j = i
<1> DEFINE N == Len(L)
<1>1. /\ N \in Nat /\ i \in 1..N /\ j \in 1..N /\ key \in Int
      /\ i < N => key < D[i]
      /\ i > 1 => D[i - 1] <= key
  <2>1. m \in Nat /\ N \in Nat /\ L[i][m] \in Keys
    BY ListReads
  <2> QED
    BY <2>1, Bounds DEF Ordered
<1>2. /\ \A x \in 1..N - 1 : D[x] \in Int
      /\ \A x, y \in 1..N - 1 : x <= y => D[x] <= D[y]
  BY DividersOrdered
<1>3. /\ j > 1 => D[j - 1] <= key
      /\ j < N => key < D[j]
  OBVIOUS
<1> HIDE DEF N
<1>4. ASSUME j < i PROVE FALSE
  <2> DEFINE x == i - 1
  <2>1. x \in 1..N - 1 /\ j \in 1..N - 1 /\ j <= x /\ i > 1 /\ j < N
    BY <1>1, <1>4
  <2>2. D[x] <= key
    BY <1>1, <2>1
  <2> HIDE DEF x
  <2>3. key < D[j] /\ D[j] <= D[x] /\ D[j] \in Int /\ D[x] \in Int
    BY <1>2, <1>3, <2>1
  <2> QED
    BY <1>1, <2>2, <2>3
<1>5. ASSUME i < j PROVE FALSE
  <2> DEFINE x == j - 1
  <2>1. x \in 1..N - 1 /\ i \in 1..N - 1 /\ i <= x /\ j > 1 /\ i < N
    BY <1>1, <1>5
  <2>2. D[x] <= key
    BY <1>3, <2>1
  <2> HIDE DEF x
  <2>3. key < D[i] /\ D[i] <= D[x] /\ D[i] \in Int /\ D[x] \in Int
    BY <1>1, <1>2, <2>1
  <2> QED
    BY <1>1, <2>2, <2>3
<1> QED
  BY <1>1, <1>4, <1>5

LEMMA RewriteInv ==
  ASSUME NEW grown \in BOOLEAN, TreeInv, Rewrite(grown)
  PROVE  TreeInv'
<1> DEFINE d == Deleted(tree, cursor)
           e == Emptied(tree, cursor)
           k == KeyAt(tree, cursor)
           R == rows \ {k}
           u == Inserted(d.tree, k, grown)
<1>1. /\ Sound /\ Positioned /\ steady
      /\ cursor' = d.cursor
      /\ damage' = IF e # "none" THEN e
                   ELSE IF SplitsInterior(d.tree, k, grown) THEN "leaf not linked" ELSE "none"
      /\ tree' = IF e # "none" THEN d.tree ELSE u
      /\ rows' = rows
      /\ steady' = (~d.cursor.eof /\ ~Overfull(d.tree, k, grown))
  BY DEF Rewrite
<1>2. PICK K, D, L, i, m :
        /\ TreeOf(tree, K, D, L, rows) /\ i \in 1..Len(L) /\ m \in 1..Len(L[i])
        /\ cursor = On(Place(tree, K, i, m)) /\ k = L[i][m]
  BY <1>1, OnRow
<1>3. Cutting(tree, K, D, L, rows, i, m, cursor, d, e)
  BY <1>2, DeleteKeeps
<1> HIDE DEF d, e, k
<1>4. /\ PagesFit(d.tree)
      /\ e = "none" => \E K2, D2, L2 : TreeOf(d.tree, K2, D2, L2, R)
      /\ ~d.cursor.eof =>
           /\ d.cursor = cursor /\ e = "none" /\ d.tree.root = tree.root
           /\ \E L1 : CutTree(K, D, L, L1, i, m) /\ TreeOf(d.tree, K, D, L1, R)
  BY <1>2, <1>3 DEF Cutting
<1>5. k \in Keys /\ k \in rows /\ k \notin R /\ R \union {k} = rows
  <2>1. InTree(tree, K, D, L) /\ Listed(K, D, L) /\ Holds(L, rows)
    BY <1>2 DEF TreeOf, InTree
  <2>2. k \in Keys /\ k \in rows
    BY <1>2, <2>1, ListReads DEF Holds
  <2> QED
    BY <2>2
<1> HIDE DEF R, u
<1>6. PagesFit(tree')
  <2>1. CASE e # "none"
    BY <1>1, <1>4, <2>1
  <2>2. CASE e = "none"
    <3>1. PICK K2, D2, L2 : TreeOf(d.tree, K2, D2, L2, R)
      BY <1>4, <2>2
    <3>2. PagesFit(u)
      BY <1>5, <3>1, InsertFits DEF u
    <3> QED
      BY <1>1, <2>2, <3>2
  <2> QED
    BY <2>1, <2>2
<1>7. Sound' => \E K2, D2, L2 : TreeOf(tree', K2, D2, L2, rows')
  <2> SUFFICES ASSUME Sound' PROVE \E K2, D2, L2 : TreeOf(tree', K2, D2, L2, rows')
    OBVIOUS
  <2>1. e = "none" /\ ~SplitsInterior(d.tree, k, grown) /\ tree' = u
    BY <1>1 DEF Sound
  <2>2. PICK K2, D2, L2 : TreeOf(d.tree, K2, D2, L2, R)
    BY <1>4, <2>1
  <2>3. GrownTo(u, d.tree, K2, D2, L2, R, k, grown)
    BY <1>5, <2>2, InsertKeeps DEF u
  <2>4. \E K3, D3, L3 : TreeOf(u, K3, D3, L3, R \union {k})
    BY <2>1, <2>3, GrownTree
  <2> QED
    BY <1>1, <1>5, <2>1, <2>4
<1>8. ASSUME steady'
      PROVE  Sound' /\ \E L3 : TreeOf(tree', K, D, L3, rows') /\ InPlace(cursor', tree', K, L3)
  <2>1. ~d.cursor.eof /\ ~Overfull(d.tree, k, grown)
    BY <1>1, <1>8
  <2>2. PICK L1 : CutTree(K, D, L, L1, i, m) /\ TreeOf(d.tree, K, D, L1, R)
    BY <1>4, <2>1
  <2>3. e = "none" /\ tree' = u /\ cursor' = cursor /\ ~SplitsInterior(d.tree, k, grown) /\ d.tree.root = tree.root
    BY <1>1, <1>4, <2>1 DEF SplitsInterior
  <2>4. GrownTo(u, d.tree, K, D, L1, R, k, grown)
    BY <1>5, <2>2, InsertKeeps DEF u
  <2>5. PICK j, n, L3 :
          /\ j \in 1..Len(L1)
          /\ j > 1 => D[j - 1] <= k
          /\ j < Len(L1) => k < D[j]
          /\ PutTree(K, D, L1, L3, j, n, k)
          /\ TreeOf(u, K, D, L3, R \union {k})
    BY <2>1, <2>4 DEF GrownTo
  <2>6. Len(L1) = Len(L) /\ Len(L1[i]) = Len(L[i]) - 1 /\ Len(L3) = Len(L1) /\ Len(L3[j]) = Len(L1[j]) + 1
    BY <2>2, <2>5 DEF CutTree, PutTree
  <2>7. j = i
    <3>1. Listed(K, D, L) /\ Ordered(D, L)
      BY <1>2 DEF TreeOf, InTree
    <3>2. /\ j \in 1..Len(L)
          /\ j > 1 => D[j - 1] <= k
          /\ j < Len(L) => k < D[j]
      BY <2>5, <2>6
    <3> QED
      BY <1>2, <3>1, <3>2, SameLeaf
  <2>8. m \in 1..Len(L3[i]) /\ i \in 1..Len(L3)
    <3> DEFINE n0 == Len(L[i])
               n1 == Len(L1[i])
               n3 == Len(L3[i])
    <3>1. n1 = n0 - 1 /\ n3 = n1 + 1 /\ m \in 1..n0 /\ n0 \in Nat
      <4>1. n0 \in Nat
        BY <1>2, ListReads DEF TreeOf, InTree
      <4> QED
        BY <1>2, <2>6, <2>7, <4>1
    <3> HIDE DEF n0, n1, n3
    <3>2. m \in 1..n3
      BY <3>1
    <3> QED
      BY <1>2, <2>6, <3>2 DEF n3
  <2>9. u.root = tree.root
    <3>1. IsTree(d.tree)
      BY <2>2 DEF TreeOf, InTree
    <3> QED
      BY <2>1, <2>3, <3>1, InsertedRoot DEF u
  <2>10. cursor' = On(Place(u, K, i, m))
    BY <1>2, <2>3, <2>9 DEF Place
  <2>11. InPlace(cursor', tree', K, L3)
    BY <2>3, <2>8, <2>10, PlaceFollows
  <2>12. TreeOf(tree', K, D, L3, rows')
    BY <1>1, <1>5, <2>3, <2>5
  <2>13. Sound'
    BY <1>1, <2>3 DEF Sound
  <2> QED
    BY <2>11, <2>12, <2>13
<1>9. steady' \in BOOLEAN /\ rows' \in SUBSET Keys
  BY <1>1 DEF TreeInv
<1> QED
  BY <1>6, <1>7, <1>8, <1>9 DEF TreeInv

LEMMA NextInv ==
  ASSUME TreeInv, [Next]_vars
  PROVE  TreeInv'
<1>1. CASE UNCHANGED vars
  BY <1>1 DEF vars, TreeInv, Sound
<1>2. CASE Next
  BY <1>2, RewindInv, GoLastInv, SeekInv, StepInv, InsertInv, AppendInv, DeleteInv, RewriteInv DEF Next
<1> QED
  BY <1>1, <1>2

-----------------------------------------------------------------------------
(* The properties                                                           *)

LEMMA TypeOf == TreeInv => TypeOK
<1> SUFFICES ASSUME TreeInv PROVE TypeOK
  OBVIOUS
<1>1. /\ tree.root \in Pages
      /\ \A p \in Pages : Count(tree, p) <= IF IsLeaf(tree, p) THEN LeafCapacity - 1 ELSE InteriorCapacity
      /\ rows \subseteq Keys /\ steady \in BOOLEAN
  BY DEF TreeInv, PagesFit, PageFits, Pages, Count, Cells, IsLeaf
<1>2. ASSUME steady, ~cursor.eof, NEW j \in DOMAIN cursor.stack
      PROVE  cursor.stack[j].page \in Pages
  <2>1. PICK K, D, L : TreeOf(tree, K, D, L, rows) /\ InPlace(cursor, tree, K, L)
    BY <1>2 DEF TreeInv
  <2>2. PICK i \in 1..Len(L) : \E m \in 1..Len(L[i]) : cursor = On(Place(tree, K, i, m))
    BY <1>2, <2>1, EndIs DEF InPlace, OnKey
  <2>3. PICK m \in 1..Len(L[i]) : cursor = On(Place(tree, K, i, m))
    BY <2>2
  <2>4. cursor.stack = Place(tree, K, i, m)
    BY <2>3 DEF On
  <2>5. K[i] \in Pages
    BY <2>1, Reads DEF TreeOf, Pages
  <2>6. CASE Many(K)
    <3>1. cursor.stack = <<At(tree.root, i), At(K[i], m)>>
      BY <2>4, <2>6 DEF Place
    <3>2. DOMAIN <<At(tree.root, i), At(K[i], m)>> = 1..2
      OBVIOUS
    <3>3. j = 1 \/ j = 2
      BY <1>2, <3>1, <3>2
    <3>4. cursor.stack[j] = At(tree.root, i) \/ cursor.stack[j] = At(K[i], m)
      BY <3>1, <3>3
    <3> QED
      BY <1>1, <2>5, <3>4 DEF At
  <2>7. CASE ~Many(K)
    <3>1. cursor.stack = <<At(K[i], m)>>
      BY <2>4, <2>7 DEF Place
    <3>2. DOMAIN <<At(K[i], m)>> = 1..1
      OBVIOUS
    <3>3. j = 1
      BY <1>2, <3>1, <3>2
    <3>4. cursor.stack[j] = At(K[i], m)
      BY <3>1, <3>3
    <3> QED
      BY <2>5, <3>4 DEF At
  <2> QED
    BY <2>6, <2>7
<1> QED
  BY <1>1, <1>2 DEF TypeOK

LEMMA SearchOf == TreeInv => SearchTree
<1> SUFFICES ASSUME TreeInv, Sound
             PROVE  /\ Below(tree.root) = Pages
                    /\ \A p \in Pages : ~IsLeaf(tree, p) =>
                         /\ \A i, j \in 1..Count(tree, p) + 1 : i # j => Child(tree, p, i) # Child(tree, p, j)
                         /\ \A i \in DOMAIN Cells(tree, p) : \A q \in Pages :
                              /\ q \in Below(Child(tree, p, i)) =>
                                   \A k \in Range(KeysOf(tree, q)) : k < Cells(tree, p)[i].key
                              /\ q \in Below(Child(tree, p, i + 1)) =>
                                   \A k \in Range(KeysOf(tree, q)) : k >= Cells(tree, p)[i].key
  BY DEF SearchTree
<1>1. PICK K, D, L : TreeOf(tree, K, D, L, rows)
  BY DEF TreeInv
<1> QED
  BY <1>1, IsSearchTree

LEMMA SeekOf == TreeInv => SeekFinds
<1> SUFFICES ASSUME TreeInv, Sound, NEW k \in Keys
             PROVE  ~OddSeek(k) <=>
                      /\ Seek(tree, k).exact = (k \in rows)
                      /\ Lists(Scan(tree, Seek(tree, k).cursor), {j \in rows : j >= k})
  BY DEF SeekFinds
<1>1. PICK K, D, L : TreeOf(tree, K, D, L, rows)
  BY DEF TreeInv
<1>2. ~OddSeek(k) <=>
        /\ (Seek(tree, k).exact <=> k \in rows)
        /\ Lists(Scan(tree, Seek(tree, k).cursor), {j \in rows : j >= k})
  <2>1. k \in Int
    BY Bounds
  <2> QED
    BY <1>1, <2>1, SeekFindsKey
<1>3. Seek(tree, k).exact \in BOOLEAN
  BY DEF Seek
<1>4. (k \in rows) \in BOOLEAN
  OBVIOUS
<1>5. Seek(tree, k).exact = (k \in rows) <=> (Seek(tree, k).exact <=> k \in rows)
  BY <1>3, <1>4
<1> QED
  BY <1>2, <1>5

LEMMA LastOf == TreeInv => LastIsLast
<1> SUFFICES ASSUME TreeInv, Sound, rows # {}
             PROVE  IsLeaf(tree, tree.root) <=> KeyAt(tree, LastEntry(tree)) = Max(rows)
  BY DEF LastIsLast
<1>1. PICK K, D, L : TreeOf(tree, K, D, L, rows)
  BY DEF TreeInv
<1> QED
  BY <1>1, IsLast

(* What a scan of an undamaged tree reads.                                  *)
ScanOfSound == Sound => Lists(Scan(tree, First(tree)), rows)

LEMMA ScanOf == TreeInv => ScanOfSound
<1> SUFFICES ASSUME TreeInv, Sound PROVE Lists(Scan(tree, First(tree)), rows)
  BY DEF ScanOfSound
<1>1. PICK K, D, L : TreeOf(tree, K, D, L, rows)
  BY DEF TreeInv
<1> QED
  BY <1>1, ScanFirst DEF TreeOf

LEMMA MinGreater ==
  ASSUME NEW R \in SUBSET Int, NEW k \in Int, NEW j \in R, k < j, \A x \in R : x <= k \/ x >= j
  PROVE  {x \in R : x > k} # {} /\ Min({x \in R : x > k}) = j
<1> DEFINE S == {x \in R : x > k}
<1>1. S \in SUBSET Int /\ j \in S /\ \A x \in S : j <= x
  <2>1. j \in Int /\ S \in SUBSET Int
    OBVIOUS
  <2>2. j > k
    BY <2>1
  <2>3. j \in S
    BY <2>2
  <2>4. ASSUME NEW x \in S PROVE j <= x
    <3>1. x \in R /\ x \in Int /\ x > k
      BY <2>1
    <3>2. x <= k \/ x >= j
      BY <3>1
    <3> QED
      BY <2>1, <3>1, <3>2
  <2> QED
    BY <2>1, <2>3, <2>4
<1> HIDE DEF S
<1>2. Min(S) = j
  BY <1>1, MinIs
<1> QED
  BY <1>1, <1>2 DEF S

-----------------------------------------------------------------------------
(* Scans of a damaged tree                                                  *)

(* The steps of a scan that lists a set of keys.                            *)
Listing(t, C, c, R, a, M) ==
  /\ M \in 0..2 * LastKey /\ a[0] = c /\ a[M].eof
  /\ \A n \in 1..M : a[n] = Advance(t, a[n - 1])
  /\ \A n \in 0..M : a[n] \in C /\ (n < M => ~a[n].eof)
  /\ \A k \in R : \E n \in 1..M : KeyAt(t, a[n - 1]) = k
  /\ \A i, j \in 1..M : i < j => KeyAt(t, a[i - 1]) < KeyAt(t, a[j - 1])

LEMMA HasListing ==
  ASSUME NEW t, NEW C, NEW c, NEW R, R \in SUBSET Keys, c \in C, \A x \in C : Advance(t, x) \in C,
         Lists(Scan(t, c), R)
  PROVE  \E a, M : Listing(t, C, c, R, a, M)
<1> DEFINE N == 2 * LastKey
<1>0. N \in Nat /\ R \subseteq 1..LastKey /\ -1 \notin R
  BY Bounds
<1>1. PICK a : Course(t, C, c, a)
  BY HasCourse
<1> DEFINE ends == {n \in 0..N : a[n].eof}
           M == Min(ends)
           s == [n \in 1..M |-> KeyAt(t, a[n - 1])]
<1>2. /\ a[0] = c
      /\ \A n \in 1..N : a[n] = Advance(t, a[n - 1])
      /\ \A n \in 0..N : a[n] \in C
      /\ Scan(t, c) = IF ends = {} THEN <<-1>> ELSE s
  BY <1>1 DEF Course
<1> HIDE DEF N
<1>3. Range(Scan(t, c)) = R /\ \A i, j \in DOMAIN Scan(t, c) : i < j => Scan(t, c)[i] < Scan(t, c)[j]
  BY DEF Lists
<1>4. ends # {}
  <2> SUFFICES ASSUME ends = {} PROVE FALSE
    OBVIOUS
  <2> DEFINE e == <<-1>>
  <2>1. Scan(t, c) = e
    BY <1>2
  <2>2. 1 \in DOMAIN e /\ e[1] = -1
    OBVIOUS
  <2> HIDE DEF e
  <2>3. -1 \in Range(e)
    BY <2>2 DEF Range
  <2> QED
    BY <1>0, <1>3, <2>1, <2>3
<1>5. M \in ends /\ \A n \in ends : M <= n
  <2>1. ends \in SUBSET Nat
    BY <1>0
  <2> HIDE DEF ends
  <2> QED
    BY <2>1, <1>4, MinOf
<1> HIDE DEF M
<1>6. Scan(t, c) = s
  BY <1>2, <1>4
<1>7. M \in 0..N /\ a[M].eof /\ M \in Nat
  BY <1>5
<1>8. \A n \in 0..M : n \in 0..N /\ (n < M => ~a[n].eof)
  <2> SUFFICES ASSUME NEW n \in 0..M PROVE n \in 0..N /\ (n < M => ~a[n].eof)
    OBVIOUS
  <2>1. n \in 0..N
    BY <1>0, <1>7
  <2>2. ASSUME n < M PROVE n \notin ends
    <3> HIDE DEF ends
    <3> QED
      BY <1>5, <1>7, <2>1, <2>2
  <2> QED
    BY <2>1, <2>2
<1>9. DOMAIN s = 1..M /\ \A n \in 1..M : s[n] = KeyAt(t, a[n - 1])
  OBVIOUS
<1> HIDE DEF s, ends
<1>10. \A k \in R : \E n \in 1..M : KeyAt(t, a[n - 1]) = k
  <2>1. \A k : k \in Range(s) <=> \E n \in 1..M : s[n] = k
    BY <1>9 DEF Range
  <2> QED
    BY <1>3, <1>6, <1>9, <2>1
<1>11. \A i, j \in 1..M : i < j => KeyAt(t, a[i - 1]) < KeyAt(t, a[j - 1])
  BY <1>3, <1>6, <1>9
<1>12. \A n \in 1..M : n \in 1..N
  BY <1>0, <1>7
<1>13. Listing(t, C, c, R, a, M)
  BY <1>2, <1>7, <1>8, <1>10, <1>11, <1>12 DEF Listing, N
<1> QED
  BY <1>13

(* A scan that never comes to the end lists nothing.                        *)
LEMMA Endless ==
  ASSUME NEW t, NEW C, NEW c, NEW R, R \in SUBSET Keys, c \in C, \A x \in C : Advance(t, x) \in C /\ ~x.eof
  PROVE  ~Lists(Scan(t, c), R)
<1> SUFFICES ASSUME Lists(Scan(t, c), R) PROVE FALSE
  OBVIOUS
<1>1. PICK a, M : Listing(t, C, c, R, a, M)
  BY HasListing
<1>2. a[M].eof /\ a[M] \in C
  <2>1. M \in 0..M
    BY <1>1, Bounds DEF Listing
  <2> QED
    BY <1>1, <2>1 DEF Listing
<1> QED
  BY <1>2

(* Nor does one that comes to a key only to come to it again, or not at all.*)
IsAt(t, c, k) == ~c.eof /\ KeyAt(t, c) = k

Comes(t, C, c, k) ==
  /\ \A x \in C : Advance(t, x) \in C
  /\ IsAt(t, c, k) => IsAt(t, Advance(t, c), k)
  /\ \A x \in C : ~x.eof /\ ~IsAt(t, x, k) /\ IsAt(t, Advance(t, x), k) =>
       IsAt(t, Advance(t, Advance(t, x)), k)

LEMMA Unlisted ==
  ASSUME NEW t, NEW C, NEW c, NEW R, NEW k, R \in SUBSET Keys, c \in C, k \in R, Comes(t, C, c, k)
  PROVE  ~Lists(Scan(t, c), R)
<1> SUFFICES ASSUME Lists(Scan(t, c), R) PROVE FALSE
  OBVIOUS
<1>0. k \in Int
  BY Bounds
<1>1. PICK a, M : Listing(t, C, c, R, a, M)
  BY HasListing DEF Comes
<1>2. /\ M \in Nat /\ a[0] = c /\ a[M].eof
      /\ \A n \in 1..M : a[n] = Advance(t, a[n - 1])
      /\ \A n \in 0..M : a[n] \in C /\ (n < M => ~a[n].eof)
      /\ \A i, j \in 1..M : i < j => KeyAt(t, a[i - 1]) < KeyAt(t, a[j - 1])
  BY <1>1, Bounds DEF Listing
<1>3. PICK n \in 1..M : KeyAt(t, a[n - 1]) = k
  BY <1>1 DEF Listing
<1>4. n \in Nat /\ n - 1 \in 0..M /\ n - 1 < M /\ n \in 0..M
  BY <1>2
<1>5. a[n] = Advance(t, a[n - 1]) /\ IsAt(t, a[n - 1], k)
  BY <1>2, <1>3, <1>4 DEF IsAt
<1>6. IsAt(t, a[n], k)
  <2>1. CASE n = 1
    BY <1>2, <1>5, <2>1 DEF Comes
  <2>2. CASE n # 1
    <3> DEFINE h == n - 1
    <3>1. h \in 1..M /\ h - 1 \in 0..M /\ h < n /\ h - 1 < M
      BY <1>2, <1>4, <2>2
    <3>2. IsAt(t, a[h], k) /\ a[n] = Advance(t, a[h])
      BY <1>5
    <3>3. KeyAt(t, a[h - 1]) < KeyAt(t, a[n - 1])
      BY <1>2, <3>1
    <3> HIDE DEF h
    <3>4. KeyAt(t, a[h - 1]) # k
      BY <1>0, <1>3, <3>3
    <3>5. ~IsAt(t, a[h - 1], k) /\ ~a[h - 1].eof /\ a[h - 1] \in C /\ a[h] = Advance(t, a[h - 1])
      BY <1>2, <3>1, <3>4 DEF IsAt
    <3> QED
      BY <3>2, <3>5 DEF Comes
  <2> QED
    BY <2>1, <2>2
<1>7. n + 1 \in 1..M /\ n < n + 1 /\ (n + 1) - 1 = n
  <2>1. n # M
    BY <1>2, <1>6 DEF IsAt
  <2> QED
    BY <1>2, <1>4, <2>1
<1>8. KeyAt(t, a[n - 1]) < KeyAt(t, a[(n + 1) - 1])
  BY <1>2, <1>7
<1>9. KeyAt(t, a[(n + 1) - 1]) = k
  BY <1>6, <1>7 DEF IsAt
<1> QED
  BY <1>0, <1>3, <1>8, <1>9

-----------------------------------------------------------------------------
(* The way down and the next step in any tree of up to three levels         *)

(* Each leftmost child is a leaf, or missing, or one of the pages B, whose  *)
(* leftmost children are.                                                   *)
Layered(t, B) ==
  /\ 0 \notin DOMAIN t.pages
  /\ \A q \in DOMAIN t.pages : ~IsLeaf(t, q) =>
       \/ Child(t, q, 1) = 0
       \/ Child(t, q, 1) \in DOMAIN t.pages /\ IsLeaf(t, Child(t, q, 1))
       \/ Child(t, q, 1) \in DOMAIN t.pages /\ q \notin B /\ Child(t, q, 1) \in B

LEMMA LeftmostIs ==
  ASSUME NEW t, NEW B, Layered(t, B)
  PROVE  /\ Leftmost(t, 0) = <<At(0, 0)>>
         /\ \A q \in DOMAIN t.pages : IsLeaf(t, q) => Leftmost(t, q) = <<At(q, 1)>>
         /\ \A q \in DOMAIN t.pages : ~IsLeaf(t, q) =>
              Leftmost(t, q) = <<At(q, 1)>> \o Leftmost(t, Child(t, q, 1))
<1> DEFINE P == DOMAIN t.pages
           W == P \union {0}
           turn == [q \in P |-> 1]
           low(q) == q = 0 \/ (q \in P /\ IsLeaf(t, q))
           step(f) == [q \in W |-> IF q = 0 THEN <<At(0, 0)>>
                                   ELSE IF IsLeaf(t, q) THEN <<At(q, turn[q])>>
                                   ELSE <<At(q, turn[q])>> \o f[Child(t, q, turn[q])]]
           path == CHOOSE f : f = step(f)
           one == [q \in W |-> IF q = 0 THEN <<At(0, 0)>> ELSE <<At(q, turn[q])>>]
           two == step(one)
           all == step(two)
<1>1. \A q : Leftmost(t, q) = path[q]
  BY DEF Leftmost, Walk
<1>2. 0 \notin P /\ \A q \in P : turn[q] = 1
  BY DEF Layered
<1>3. \A q \in P : ~IsLeaf(t, q) =>
        \/ low(Child(t, q, 1))
        \/ Child(t, q, 1) \in P /\ q \notin B /\ Child(t, q, 1) \in B
  BY DEF Layered
<1> HIDE DEF turn
<1>4. ASSUME NEW f
      PROVE  /\ \A q \in W : low(q) => step(f)[q] = one[q]
             /\ \A q \in P : ~IsLeaf(t, q) => step(f)[q] = <<At(q, 1)>> \o f[Child(t, q, 1)]
  BY <1>2
<1>5. \A q \in W : low(q) => two[q] = one[q] /\ all[q] = one[q]
  <2> HIDE DEF step, one
  <2> QED
    BY <1>4
<1>6. \A q \in P : ~IsLeaf(t, q) => /\ two[q] = <<At(q, 1)>> \o one[Child(t, q, 1)]
                                     /\ all[q] = <<At(q, 1)>> \o two[Child(t, q, 1)]
  <2> HIDE DEF step, one
  <2> QED
    BY <1>4
<1> HIDE DEF one, two, all, low
<1>7. \A q \in P : ~IsLeaf(t, q) => all[Child(t, q, 1)] = two[Child(t, q, 1)]
  <2> SUFFICES ASSUME NEW q \in P, ~IsLeaf(t, q) PROVE all[Child(t, q, 1)] = two[Child(t, q, 1)]
    OBVIOUS
  <2> DEFINE c == Child(t, q, 1)
             d == Child(t, c, 1)
  <2>1. CASE low(c)
    <3>1. c \in W
      BY <2>1 DEF low
    <3> QED
      BY <2>1, <3>1, <1>5
  <2>2. CASE ~low(c)
    <3>1. c \in P /\ c \in B /\ ~IsLeaf(t, c)
      BY <1>3, <2>2 DEF low
    <3>2. low(d) /\ d \in W
      BY <1>3, <3>1 DEF low
    <3>3. two[d] = one[d]
      BY <1>5, <3>2
    <3>4. all[c] = <<At(c, 1)>> \o two[d] /\ two[c] = <<At(c, 1)>> \o one[d]
      BY <1>6, <3>1
    <3> HIDE DEF d
    <3>5. all[c] = two[c]
      BY <3>3, <3>4
    <3> QED
      BY <3>5
  <2> QED
    BY <2>1, <2>2
<1>8. step(all) = all
  <2>1. \A q \in W : step(all)[q] = all[q]
    <3> SUFFICES ASSUME NEW q \in W PROVE step(all)[q] = all[q]
      OBVIOUS
    <3>1. CASE low(q)
      <4> HIDE DEF step
      <4> QED
        BY <3>1, <1>4, <1>5 DEF low
    <3>2. CASE ~low(q)
      <4>1. q \in P /\ ~IsLeaf(t, q)
        BY <3>2 DEF low
      <4>2. step(all)[q] = <<At(q, 1)>> \o all[Child(t, q, 1)]
        BY <1>4, <4>1
      <4> HIDE DEF step
      <4> QED
        BY <1>6, <1>7, <4>1, <4>2
    <3> QED
      BY <3>1, <3>2
  <2>2. step(all) = [q \in W |-> step(all)[q]]
    OBVIOUS
  <2>3. all = [q \in W |-> all[q]]
    BY DEF all
  <2> HIDE DEF step, W
  <2> QED
    BY <2>1, <2>2, <2>3
<1>9. path = step(path)
  <2> HIDE DEF step
  <2> QED
    BY <1>8
<1> HIDE DEF path
<1>10. /\ \A q \in W : low(q) => path[q] = one[q]
       /\ \A q \in P : ~IsLeaf(t, q) => path[q] = <<At(q, 1)>> \o path[Child(t, q, 1)]
  <2>1. /\ \A q \in W : low(q) => step(path)[q] = one[q]
        /\ \A q \in P : ~IsLeaf(t, q) => step(path)[q] = <<At(q, 1)>> \o path[Child(t, q, 1)]
    BY <1>4 DEF low, one
  <2> HIDE DEF step, one, low
  <2> QED
    BY <1>9, <2>1
<1>11. one[0] = <<At(0, 0)>> /\ \A q \in P : one[q] = <<At(q, 1)>>
  BY <1>2 DEF one
<1> QED
  BY <1>1, <1>10, <1>11 DEF low

(* next() on any stack with a cell of a leaf at its top.                    *)
Opened(t, rest) == {j \in DOMAIN rest : rest[j].index <= Count(t, rest[j].page)}
Back(t, rest, j) ==
  SubSeq(rest, 1, j - 1) \o <<At(rest[j].page, rest[j].index + 1)>>
    \o Leftmost(t, Child(t, rest[j].page, rest[j].index + 1))

LEMMA StepUp ==
  ASSUME NEW t, NEW s, NEW p, NEW m, s # << >>, Last(s) = At(p, m), p # 0
  PROVE  /\ ~On(s).eof /\ ~Lost(On(s)) /\ KeyAt(t, On(s)) = Cells(t, p)[m].key
         /\ Advance(t, On(s)) =
              IF m < Count(t, p) THEN On(Append(Front(s), At(p, m + 1)))
              ELSE IF Opened(t, Front(s)) = {} THEN AtEnd
              ELSE On(Back(t, Front(s), Max(Opened(t, Front(s)))))
<1> DEFINE c == On(s)
<1>1. c.eof = FALSE /\ c.stack = s
  BY DEF On
<1> HIDE DEF c
<1>2. At(p, m).page = p /\ At(p, m).index = m
  BY DEF At
<1>3. ~Lost(c) /\ KeyAt(t, c) = Cells(t, p)[m].key
  BY <1>1, <1>2 DEF Lost, KeyAt
<1>4. Advance(t, c) =
        IF m < Count(t, p) THEN On(Append(Front(s), At(p, m + 1)))
        ELSE IF Opened(t, Front(s)) = {} THEN AtEnd
        ELSE On(Back(t, Front(s), Max(Opened(t, Front(s)))))
  BY <1>1, <1>2, <1>3 DEF Advance, Opened, Back
<1> QED
  BY <1>1, <1>3, <1>4 DEF c

(* A root and a leaf.                                                       *)
LEMMA AdvancePair ==
  ASSUME NEW t, NEW r, NEW j, NEW p, NEW m, p # 0, j \in Nat \ {0}, Count(t, r) \in Nat
  PROVE  LET s == <<At(r, j), At(p, m)>>
         IN  /\ ~On(s).eof /\ ~Lost(On(s)) /\ KeyAt(t, On(s)) = Cells(t, p)[m].key
             /\ Advance(t, On(s)) =
                  IF m < Count(t, p) THEN On(<<At(r, j), At(p, m + 1)>>)
                  ELSE IF j <= Count(t, r) THEN On(<<At(r, j + 1)>> \o Leftmost(t, Child(t, r, j + 1)))
                  ELSE AtEnd
<1> DEFINE s == <<At(r, j), At(p, m)>>
           rest == <<At(r, j)>>
           open == Opened(t, rest)
<1>1. s # << >> /\ Last(s) = At(p, m) /\ Front(s) = rest /\ Append(rest, At(p, m + 1)) = <<At(r, j), At(p, m + 1)>>
  <2> DEFINE a == At(r, j)
             b == At(p, m)
             d == At(p, m + 1)
  <2> HIDE DEF a, b, d
  <2>1. <<a, b>> # << >> /\ Last(<<a, b>>) = b /\ Front(<<a, b>>) = <<a>> /\ Append(<<a>>, d) = <<a, d>>
    BY Pair
  <2> QED
    BY <2>1 DEF a, b, d
<1>2. rest[1].page = r /\ rest[1].index = j /\ DOMAIN rest = {1}
  BY DEF At
<1>3. SubSeq(rest, 1, 1 - 1) = << >>
  BY Pair
<1> HIDE DEF s
<1>4. /\ ~On(s).eof /\ ~Lost(On(s)) /\ KeyAt(t, On(s)) = Cells(t, p)[m].key
      /\ Advance(t, On(s)) =
           IF m < Count(t, p) THEN On(Append(rest, At(p, m + 1)))
           ELSE IF open = {} THEN AtEnd ELSE On(Back(t, rest, Max(open)))
  BY <1>1, StepUp
<1> HIDE DEF rest
<1>5. CASE j <= Count(t, r)
  <2>1. open = {1}
    BY <1>2, <1>5 DEF Opened
  <2>2. Max(open) = 1
    <3>1. open \in SUBSET Int /\ 1 \in open /\ \A k \in open : 1 >= k
      BY <2>1
    <3> QED
      BY <3>1, MaxIs
  <2>3. Back(t, rest, 1) = SubSeq(rest, 1, 1 - 1) \o <<At(r, j + 1)>> \o Leftmost(t, Child(t, r, j + 1))
    BY <1>2 DEF Back
  <2>4. << >> \o <<At(r, j + 1)>> = <<At(r, j + 1)>>
    BY Pair
  <2>5. Back(t, rest, 1) = <<At(r, j + 1)>> \o Leftmost(t, Child(t, r, j + 1))
    BY <1>3, <2>3, <2>4
  <2>6. open # {}
    BY <2>1
  <2> HIDE DEF open
  <2> QED
    BY <1>1, <1>4, <1>5, <2>2, <2>5, <2>6 DEF s
<1>6. CASE ~(j <= Count(t, r))
  <2>1. open = {}
    BY <1>2, <1>6 DEF Opened
  <2> HIDE DEF open
  <2> QED
    BY <1>1, <1>4, <1>6, <2>1 DEF s
<1> QED
  BY <1>5, <1>6

(* A root, an interior page and a leaf.                                     *)
LEMMA AdvanceTriple ==
  ASSUME NEW t, NEW r, NEW h, NEW x, NEW j, NEW p, NEW m,
         p # 0, h \in Nat \ {0}, j \in Nat \ {0}, Count(t, r) \in Nat, Count(t, x) \in Nat
  PROVE  LET s == <<At(r, h), At(x, j), At(p, m)>>
         IN  /\ ~On(s).eof /\ ~Lost(On(s)) /\ KeyAt(t, On(s)) = Cells(t, p)[m].key
             /\ Advance(t, On(s)) =
                  IF m < Count(t, p) THEN On(<<At(r, h), At(x, j), At(p, m + 1)>>)
                  ELSE IF j <= Count(t, x)
                  THEN On(<<At(r, h)>> \o <<At(x, j + 1)>> \o Leftmost(t, Child(t, x, j + 1)))
                  ELSE IF h <= Count(t, r) THEN On(<<At(r, h + 1)>> \o Leftmost(t, Child(t, r, h + 1)))
                  ELSE AtEnd
<1> DEFINE s == <<At(r, h), At(x, j), At(p, m)>>
           rest == <<At(r, h), At(x, j)>>
           open == Opened(t, rest)
<1>1. /\ s # << >> /\ Last(s) = At(p, m) /\ Front(s) = rest
      /\ Append(rest, At(p, m + 1)) = <<At(r, h), At(x, j), At(p, m + 1)>>
  <2> DEFINE a == At(r, h)
             b == At(x, j)
             d == At(p, m)
             e == At(p, m + 1)
  <2> HIDE DEF a, b, d, e
  <2>1. /\ <<a, b, d>> # << >> /\ Last(<<a, b, d>>) = d /\ Front(<<a, b, d>>) = <<a, b>>
        /\ Append(<<a, b>>, e) = <<a, b, e>>
    BY Triple
  <2> QED
    BY <2>1 DEF a, b, d, e
<1>2. /\ rest[1].page = r /\ rest[1].index = h /\ DOMAIN rest = {1, 2}
      /\ rest[2].page = x /\ rest[2].index = j
  BY DEF At
<1>3. SubSeq(rest, 1, 1 - 1) = << >> /\ SubSeq(rest, 1, 2 - 1) = <<At(r, h)>>
  <2> DEFINE a == At(r, h)
             b == At(x, j)
  <2> HIDE DEF a, b
  <2>1. SubSeq(<<a, b>>, 1, 0) = << >> /\ SubSeq(<<a, b>>, 1, 1) = <<a>>
    BY Triple
  <2>2. 1 - 1 = 0 /\ 2 - 1 = 1
    OBVIOUS
  <2> QED
    BY <2>1, <2>2 DEF a, b
<1> HIDE DEF s
<1>4. /\ ~On(s).eof /\ ~Lost(On(s)) /\ KeyAt(t, On(s)) = Cells(t, p)[m].key
      /\ Advance(t, On(s)) =
           IF m < Count(t, p) THEN On(Append(rest, At(p, m + 1)))
           ELSE IF open = {} THEN AtEnd ELSE On(Back(t, rest, Max(open)))
  BY <1>1, StepUp
<1> HIDE DEF rest
<1>5. /\ 1 \in open <=> h <= Count(t, r)
      /\ 2 \in open <=> j <= Count(t, x)
      /\ open \in SUBSET {1, 2}
  BY <1>2 DEF Opened
<1>6. CASE j <= Count(t, x)
  <2>1. Max(open) = 2
    <3>1. open \in SUBSET Int /\ 2 \in open /\ \A k \in open : 2 >= k
      BY <1>5, <1>6
    <3> QED
      BY <3>1, MaxIs
  <2>2. Back(t, rest, 2) = SubSeq(rest, 1, 2 - 1) \o <<At(x, j + 1)>> \o Leftmost(t, Child(t, x, j + 1))
    BY <1>2 DEF Back
  <2>3. open # {}
    BY <1>5, <1>6
  <2> HIDE DEF open
  <2>4. Back(t, rest, 2) = <<At(r, h)>> \o <<At(x, j + 1)>> \o Leftmost(t, Child(t, x, j + 1))
    BY <1>3, <2>2
  <2> QED
    BY <1>1, <1>4, <1>6, <2>1, <2>3, <2>4 DEF s
<1>7. CASE ~(j <= Count(t, x)) /\ h <= Count(t, r)
  <2>0. open = {1}
    BY <1>5, <1>7
  <2>1. Max(open) = 1
    <3>1. open \in SUBSET Int /\ 1 \in open /\ \A k \in open : 1 >= k
      BY <2>0
    <3> QED
      BY <3>1, MaxIs
  <2>2. Back(t, rest, 1) = SubSeq(rest, 1, 1 - 1) \o <<At(r, h + 1)>> \o Leftmost(t, Child(t, r, h + 1))
    BY <1>2 DEF Back
  <2>3. << >> \o <<At(r, h + 1)>> = <<At(r, h + 1)>>
    BY Pair
  <2>4. Back(t, rest, 1) = <<At(r, h + 1)>> \o Leftmost(t, Child(t, r, h + 1))
    BY <1>3, <2>2, <2>3
  <2>5. open # {}
    BY <2>0
  <2> HIDE DEF open
  <2> QED
    BY <1>1, <1>4, <1>7, <2>1, <2>4, <2>5 DEF s
<1>8. CASE ~(j <= Count(t, x)) /\ ~(h <= Count(t, r))
  <2>1. open = {}
    BY <1>5, <1>8
  <2> HIDE DEF open
  <2> QED
    BY <1>1, <1>4, <1>8, <2>1 DEF s
<1> QED
  BY <1>6, <1>7, <1>8

(* A root whose right child is missing, over n leaves.                      *)
HasHole(t, K, n) ==
  /\ n \in Nat \ {0} /\ 0 \notin DOMAIN t.pages
  /\ DOMAIN t.pages = {t.root} \union {K[j] : j \in 1..n}
  /\ ~IsLeaf(t, t.root) /\ Count(t, t.root) = n /\ Child(t, t.root, n + 1) = 0
  /\ \A j \in 1..n : /\ Child(t, t.root, j) = K[j] /\ IsLeaf(t, K[j])
                     /\ Count(t, K[j]) \in Nat \ {0}

(* The cursors of a scan over it, the last of which stays where it is.      *)
UpToHole(t, K, n) ==
  {On(<<At(t.root, n + 1), At(0, 0)>>)}
    \union UNION {{On(<<At(t.root, j), At(K[j], m)>>) : m \in 1..Count(t, K[j])} : j \in 1..n}

LEMMA HoleEndless ==
  ASSUME NEW t, NEW K, NEW n, NEW R, R \in SUBSET Keys, HasHole(t, K, n)
  PROVE  ~Lists(Scan(t, First(t)), R)
<1> DEFINE r == t.root
           lost == On(<<At(r, n + 1), At(0, 0)>>)
           C == UpToHole(t, K, n)
           at(j, m) == On(<<At(r, j), At(K[j], m)>>)
<1>1. /\ n \in Nat /\ n > 0 /\ n + 1 \in Nat \ {0} /\ 1 \in 1..n
      /\ r \in DOMAIN t.pages /\ ~IsLeaf(t, r) /\ Count(t, r) = n /\ Child(t, r, n + 1) = 0
      /\ \A j \in 1..n : /\ Child(t, r, j) = K[j] /\ IsLeaf(t, K[j]) /\ K[j] \in DOMAIN t.pages /\ K[j] # 0
                         /\ Count(t, K[j]) \in Nat /\ Count(t, K[j]) > 0 /\ 1 \in 1..Count(t, K[j])
  BY DEF HasHole
<1>2. /\ Leftmost(t, 0) = <<At(0, 0)>>
      /\ \A j \in 1..n : Leftmost(t, K[j]) = <<At(K[j], 1)>>
      /\ Leftmost(t, r) = <<At(r, 1)>> \o Leftmost(t, K[1])
  <2>1. Layered(t, {})
    <3>1. \A q \in DOMAIN t.pages : ~IsLeaf(t, q) => q = r
      BY DEF HasHole
    <3>2. 0 \notin DOMAIN t.pages
      BY DEF HasHole
    <3> QED
      BY <1>1, <3>1, <3>2 DEF Layered
  <2> QED
    BY <1>1, <2>1, LeftmostIs
<1>3. \A x, y, z : <<At(x, y)>> \o <<At(z, 1)>> = <<At(x, y), At(z, 1)>>
  BY Pair
<1>4. C = {lost} \union UNION {{at(j, m) : m \in 1..Count(t, K[j])} : j \in 1..n}
  BY DEF UpToHole
<1>5. \A j \in 1..n : \A m \in 1..Count(t, K[j]) : at(j, m) \in C
  BY <1>4
<1>6. lost \in C
  BY <1>4
<1>7. \A c \in C : c = lost \/ \E j \in 1..n : \E m \in 1..Count(t, K[j]) : c = at(j, m)
  <2> SUFFICES ASSUME NEW c \in C, c # lost PROVE \E j \in 1..n : \E m \in 1..Count(t, K[j]) : c = at(j, m)
    OBVIOUS
  <2>1. c \in UNION {{at(j, m) : m \in 1..Count(t, K[j])} : j \in 1..n}
    BY <1>4
  <2> HIDE DEF at, C, lost
  <2> QED
    BY <2>1
<1>8. ~lost.eof /\ Advance(t, lost) = lost
  <2>1. lost.stack = <<At(r, n + 1), At(0, 0)>> /\ lost.eof = FALSE
    BY DEF On
  <2> HIDE DEF lost
  <2>2. Last(lost.stack) = At(0, 0)
    <3> DEFINE a == At(r, n + 1)
               b == At(0, 0)
    <3>1. lost.stack = <<a, b>>
      BY <2>1
    <3> HIDE DEF a, b
    <3>2. Last(<<a, b>>) = b
      BY Pair
    <3> QED
      BY <3>1, <3>2 DEF b
  <2>3. Last(lost.stack).page = 0
    BY <2>2 DEF At
  <2>4. Lost(lost)
    BY <2>1, <2>3 DEF Lost
  <2> QED
    BY <2>1, <2>4 DEF Advance
<1>9. First(t) = at(1, 1)
  <2>1. Leftmost(t, r) = <<At(r, 1), At(K[1], 1)>>
    <3>1. Leftmost(t, K[1]) = <<At(K[1], 1)>>
      BY <1>1, <1>2
    <3>2. <<At(r, 1)>> \o <<At(K[1], 1)>> = <<At(r, 1), At(K[1], 1)>>
      BY Pair
    <3> QED
      BY <1>2, <3>1, <3>2
  <2>2. Last(<<At(r, 1), At(K[1], 1)>>).page = K[1]
    <3>1. Last(<<At(r, 1), At(K[1], 1)>>) = At(K[1], 1)
      BY Pair
    <3> QED
      BY <3>1 DEF At
  <2>3. Count(t, K[1]) # 0
    BY <1>1
  <2> QED
    BY <2>1, <2>2, <2>3 DEF First
<1> HIDE DEF C, lost
<1>10. ASSUME NEW j \in 1..n, NEW m \in 1..Count(t, K[j])
       PROVE  Advance(t, at(j, m)) \in C /\ ~at(j, m).eof
  <2>1. /\ ~at(j, m).eof
        /\ Advance(t, at(j, m)) =
             IF m < Count(t, K[j]) THEN at(j, m + 1)
             ELSE IF j <= n THEN On(<<At(r, j + 1)>> \o Leftmost(t, Child(t, r, j + 1)))
             ELSE AtEnd
    <3> DEFINE p == K[j]
               s == <<At(r, j), At(p, m)>>
    <3>1. p # 0 /\ j \in Nat \ {0} /\ Count(t, r) \in Nat
      BY <1>1
    <3> HIDE DEF p, r
    <3>2. /\ ~On(s).eof
          /\ Advance(t, On(s)) =
               IF m < Count(t, p) THEN On(<<At(r, j), At(p, m + 1)>>)
               ELSE IF j <= Count(t, r) THEN On(<<At(r, j + 1)>> \o Leftmost(t, Child(t, r, j + 1)))
               ELSE AtEnd
      BY <3>1, AdvancePair
    <3> HIDE DEF s
    <3> QED
      BY <1>1, <3>2 DEF s, p
  <2> HIDE DEF at
  <2>2. CASE m < Count(t, K[j])
    <3>1. m + 1 \in 1..Count(t, K[j])
      BY <1>1, <2>2
    <3> QED
      BY <1>5, <2>1, <2>2, <3>1
  <2>3. CASE ~(m < Count(t, K[j])) /\ j < n
    <3> DEFINE x == j + 1
    <3>1. x \in 1..n
      BY <1>1, <2>3
    <3> HIDE DEF x
    <3>2. Leftmost(t, Child(t, r, x)) = <<At(K[x], 1)>>
      BY <1>1, <1>2, <3>1
    <3>4. <<At(r, x)>> \o <<At(K[x], 1)>> = <<At(r, x), At(K[x], 1)>>
      BY Pair
    <3>5. j <= n /\ j + 1 = x
      BY <1>1, <2>3 DEF x
    <3>3. Advance(t, at(j, m)) = at(x, 1)
      BY <2>1, <2>3, <3>2, <3>4, <3>5 DEF at
    <3> QED
      BY <1>1, <1>5, <2>1, <3>1, <3>3
  <2>4. CASE ~(m < Count(t, K[j])) /\ ~(j < n)
    <3>1. j = n
      BY <1>1, <2>4
    <3>2. Leftmost(t, Child(t, r, n + 1)) = <<At(0, 0)>>
      BY <1>1, <1>2
    <3>3. <<At(r, n + 1)>> \o <<At(0, 0)>> = <<At(r, n + 1), At(0, 0)>>
      BY Pair
    <3>5. j <= n
      BY <1>1, <3>1
    <3>4. Advance(t, at(j, m)) = lost
      BY <2>1, <2>4, <3>1, <3>2, <3>3, <3>5 DEF lost
    <3> QED
      BY <1>6, <2>1, <3>4
  <2> QED
    BY <2>2, <2>3, <2>4
<1>11. First(t) \in C
  BY <1>1, <1>5, <1>9
<1> HIDE DEF at
<1>12. \A c \in C : Advance(t, c) \in C /\ ~c.eof
  BY <1>6, <1>7, <1>8, <1>10
<1> QED
  BY <1>11, <1>12, Endless

LEMMA LastEmptied ==
  ASSUME NEW t, NEW K, NEW D, NEW L, NEW i, NEW R, R \in SUBSET Keys, InTree(t, K, D, L), Many(L),
         i \in 1..Len(L), ~(i < Len(L)), \A j \in 1..Len(L) : j # i => Len(L[j]) > 0
  PROVE  ~Lists(Scan(Emptying(t, K[i]), First(Emptying(t, K[i]))), R)
<1> DEFINE N == Len(L)
           n == N - 1
           r == t.root
           p == K[i]
           v == Unlinked(t, r, p)
           w == Free(v, p)
           u == Emptying(t, p)
<1>1. Listed(K, D, L) /\ N \in Nat /\ N > 1 /\ i = N /\ n \in Nat \ {0}
  <2>1. Listed(K, D, L) /\ N \in Nat /\ N > 1 /\ i \in 1..N /\ ~(i < N)
    BY LeafCount DEF InTree
  <2> HIDE DEF N
  <2> QED
    BY <2>1
<1>2. /\ IsTree(t) /\ DOMAIN t.pages = {r} \union {K[j] : j \in 1..N} /\ r # 0
      /\ \A j \in 1..N : K[j] # r /\ K[j] # 0 /\ IsLeaf(t, K[j]) /\ Count(t, K[j]) = Len(L[j])
  <2>1. \A j \in 1..N : K[j] # 0 /\ HasKeys(t, K[j], L[j])
    BY Reads
  <2> QED
    BY <2>1 DEF InTree, HasKeys, IsTree
<1>3. \A j \in 1..n : j \in 1..N /\ j # i /\ Len(L[j]) \in Nat /\ Len(L[j]) > 0
  <2>1. \A j \in 1..n : j \in 1..N /\ j # i
    <3> HIDE DEF N
    <3> QED
      BY <1>1
  <2> QED
    BY <1>1, <2>1, ListReads
<1>4. /\ Count(t, r) = n
      /\ \A j \in 1..n : Cells(t, r)[j].child = K[j]
      /\ Cells(t, r) = RootCells(K, D)
  BY RootReads DEF HasLeaves
<1>5. \A j \in 1..N : j # i => K[j] # p
  BY <1>1 DEF Listed
<1>6. Changed(v, t, r, Interior(RootCells(K, D), 0))
  BY UnlinkedIs
<1>7. /\ IsTree(w) /\ w.root = v.root /\ DOMAIN w.pages = DOMAIN v.pages \ {p}
      /\ \A q \in DOMAIN v.pages : q # p => w.pages[q] = v.pages[q]
  <2>1. IsTree(v)
    BY <1>6 DEF Changed
  <2> HIDE DEF v
  <2> QED
    BY <2>1, FreeIs
<1>8. u = Collapsed(w)
  BY DEF Emptying
<1> HIDE DEF u, w, v, r, p
<1>9. /\ w.root = r /\ DOMAIN w.pages = {r} \union {K[j] : j \in 1..n} /\ r # p
      /\ w.pages[r] = Interior(RootCells(K, D), 0)
      /\ \A j \in 1..n : w.pages[K[j]] = t.pages[K[j]]
  <2>1. r # p
    BY <1>1, <1>2 DEF p
  <2>2. \A q : q \in DOMAIN t.pages <=> q = r \/ \E j \in 1..N : q = K[j]
    BY <1>2
  <2>3. \A j \in 1..N : j = i \/ j \in 1..n
    <3> HIDE DEF N
    <3> QED
      BY <1>1
  <2>4. \A q : q \in DOMAIN w.pages <=> q = r \/ \E j \in 1..n : q = K[j]
    <3>1. \A q : q \in DOMAIN w.pages <=> q \in DOMAIN t.pages /\ q # p
      BY <1>2, <1>6, <1>7 DEF Changed, r
    <3> QED
      BY <1>3, <1>5, <2>1, <2>2, <2>3, <3>1 DEF p
  <2>5. DOMAIN w.pages = {r} \union {K[j] : j \in 1..n}
    BY <2>4
  <2>6. w.root = r /\ w.pages[r] = Interior(RootCells(K, D), 0)
    BY <1>6, <1>7, <2>1 DEF Changed, r
  <2>7. \A j \in 1..n : w.pages[K[j]] = t.pages[K[j]]
    <3> TAKE j \in 1..n
    <3>1. K[j] \in DOMAIN t.pages /\ K[j] # p /\ K[j] # r
      BY <1>2, <1>3, <1>5
    <3> QED
      BY <3>1, <1>6, <1>7 DEF Changed
  <2> QED
    BY <2>1, <2>5, <2>6, <2>7
<1>10. /\ ~IsLeaf(w, r) /\ Cells(w, r) = Cells(t, r) /\ w.pages[r].right = 0
       /\ \A j \in 1..n : IsLeaf(w, K[j]) /\ Count(w, K[j]) = Len(L[j])
  <2>1. ~IsLeaf(w, r) /\ Cells(w, r) = Cells(t, r) /\ w.pages[r].right = 0
    BY <1>4, <1>9 DEF Interior, IsLeaf, Cells
  <2>2. \A j \in 1..n : IsLeaf(w, K[j]) /\ Count(w, K[j]) = Len(L[j])
    <3> TAKE j \in 1..n
    <3>1. IsLeaf(t, K[j]) /\ Count(t, K[j]) = Len(L[j]) /\ w.pages[K[j]] = t.pages[K[j]]
      BY <1>2, <1>3, <1>9
    <3> HIDE DEF n
    <3> QED
      BY <3>1 DEF IsLeaf, Cells, Count
  <2> QED
    BY <2>1, <2>2
<1>11. Count(w, r) = n
  BY <1>4, <1>10 DEF Count
<1>12. HasHole(w, K, n)
  <2>1. 0 \notin DOMAIN w.pages
    BY <1>2, <1>3, <1>9 DEF r
  <2>2. Child(w, r, n + 1) = 0 /\ \A j \in 1..n : Child(w, r, j) = K[j]
    <3>1. ~(n + 1 <= n) /\ \A j \in 1..n : j <= n
      <4> HIDE DEF n
      <4> QED
        BY <1>1
    <3> HIDE DEF n
    <3> QED
      BY <3>1, <1>4, <1>10, <1>11 DEF Child
  <2>3. \A j \in 1..n : Count(w, K[j]) \in Nat \ {0}
    <3> TAKE j \in 1..n
    <3> DEFINE x == Len(L[j])
    <3>1. Count(w, K[j]) = x /\ x \in Nat /\ x > 0
      BY <1>3, <1>10
    <3> HIDE DEF x
    <3> QED
      BY <3>1
  <2> HIDE DEF n
  <2> QED
    BY <1>1, <1>9, <1>10, <1>11, <2>1, <2>2, <2>3 DEF HasHole
<1>13. u = w
  <2>1. Count(w, w.root) # 0
    BY <1>1, <1>9, <1>11
  <2> QED
    BY <1>8, <2>1 DEF Collapsed
<1> QED
  BY <1>12, <1>13, HoleEndless DEF u, p

(* A root that has become an empty leaf.                                    *)
LEMMA NothingRead ==
  ASSUME NEW t, NEW k, NEW R, R \in SUBSET Keys, k \in R, First(t) = AtEnd
  PROVE  ~Lists(Scan(t, First(t)), R)
<1> DEFINE C == {AtEnd}
<1>1. AtEnd.eof = TRUE /\ Advance(t, AtEnd) = AtEnd
  BY EndIs
<1>2. Comes(t, C, AtEnd, k)
  BY <1>1 DEF Comes, IsAt
<1>3. AtEnd \in C
  OBVIOUS
<1> HIDE DEF C
<1> QED
  BY <1>2, <1>3, Unlisted

LEMMA OneDiscarded ==
  ASSUME NEW t, NEW K, NEW D, NEW L, NEW i, NEW k, NEW R, R \in SUBSET Keys, k \in R, InTree(t, K, D, L),
         Many(L), i \in 1..Len(L), i < Len(L), ~(Len(L) > 2)
  PROVE  ~Lists(Scan(Emptying(t, K[i]), First(Emptying(t, K[i]))), R)
<1> DEFINE N == Len(L)
           r == t.root
           p == K[i]
           c == RemoveAt(RootCells(K, D), i)
           v == Unlinked(t, r, p)
           w == Free(v, p)
           u == Emptying(t, p)
<1>1. Listed(K, D, L) /\ N - 2 = 0
  <2>1. Listed(K, D, L) /\ N \in Nat /\ N > 1 /\ ~(N > 2)
    BY LeafCount DEF InTree
  <2> HIDE DEF N
  <2>2. N - 2 = 0
    BY <2>1
  <2> QED
    BY <2>1, <2>2
<1>2. /\ IsTree(t) /\ DOMAIN t.pages = {r} \union {K[j] : j \in 1..N} /\ r # 0
      /\ \A j \in 1..N : K[j] # r /\ K[j] # 0 /\ IsLeaf(t, K[j])
  <2>1. \A j \in 1..N : K[j] # 0 /\ HasKeys(t, K[j], L[j])
    BY Reads
  <2> QED
    BY <2>1 DEF InTree, HasKeys, IsTree
<1>3. Len(c) = 0
  BY <1>1, CellsDropped
<1>4. Changed(v, t, r, Interior(c, K[N]))
  BY UnlinkedIs
<1>5. /\ IsTree(w) /\ w.root = v.root /\ DOMAIN w.pages = DOMAIN v.pages \ {p}
      /\ \A q \in DOMAIN v.pages : q # p => w.pages[q] = v.pages[q]
  <2>1. IsTree(v)
    BY <1>4 DEF Changed
  <2> HIDE DEF v
  <2> QED
    BY <2>1, FreeIs
<1>6. u = Collapsed(w)
  BY DEF Emptying
<1>7. r # p
  BY <1>2
<1> HIDE DEF u, w, v, c
<1>8. w.root = r /\ Count(w, r) = 0
  <2>1. w.root = r /\ w.pages[r] = Interior(c, K[N])
    BY <1>4, <1>5, <1>7 DEF Changed
  <2> QED
    BY <1>3, <2>1 DEF Interior, Count, Cells
<1>9. Changed(u, w, r, Leaf(<< >>))
  <2>1. u = SetPage(w, r, Leaf(<< >>))
    BY <1>6, <1>8 DEF Collapsed
  <2> QED
    BY <1>5, <2>1, SetReads
<1>10. /\ 0 \notin DOMAIN u.pages /\ u.root = r /\ r \in DOMAIN u.pages
       /\ \A q \in DOMAIN u.pages : IsLeaf(u, q)
  <2>1. \A q \in DOMAIN w.pages : q # r => q \in DOMAIN t.pages /\ w.pages[q] = t.pages[q]
    BY <1>2, <1>4, <1>5 DEF Changed
  <2>2. \A q \in DOMAIN t.pages : q # 0 /\ (q # r => IsLeaf(t, q))
    BY <1>2
  <2>3. \A q \in DOMAIN u.pages : q # r => q \in DOMAIN t.pages /\ u.pages[q] = t.pages[q]
    BY <1>9, <2>1 DEF Changed
  <2>4. u.pages[r] = Leaf(<< >>) /\ u.root = r /\ r \in DOMAIN u.pages
    BY <1>8, <1>9 DEF Changed
  <2>5. IsLeaf(u, r)
    BY <2>4 DEF IsLeaf, Leaf
  <2>6. \A q \in DOMAIN u.pages : q # r => IsLeaf(u, q) /\ q # 0
    BY <2>2, <2>3 DEF IsLeaf
  <2> QED
    BY <1>2, <2>4, <2>5, <2>6
<1>11. Leftmost(u, r) = <<At(r, 1)>>
  <2>1. Layered(u, {})
    BY <1>10 DEF Layered
  <2> QED
    BY <1>10, <2>1, LeftmostIs
<1>12. Count(u, r) = 0
  <2>1. u.pages[r] = Leaf(<< >>)
    BY <1>9 DEF Changed
  <2>2. Len(Leaf(<< >>).cells) = 0
    BY DEF Leaf
  <2> QED
    BY <2>1, <2>2 DEF Count, Cells
<1>13. First(u) = AtEnd
  <2>1. Last(<<At(r, 1)>>) = At(r, 1)
    BY Pair
  <2>2. Last(Leftmost(u, u.root)).page = r
    BY <1>10, <1>11, <2>1 DEF At
  <2> QED
    BY <1>12, <2>2 DEF First
<1> QED
  BY <1>13, NothingRead DEF u, p

(* A root over two interior pages over leaves: what a split of the root     *)
(* makes of a tree.  The j-th leaf below its h-th child, and its m-th key.  *)
LeafOf(t, h, j) == Child(t, Child(t, t.root, h), j)
Spot(t, h, j, m) == On(<<At(t.root, h), At(Child(t, t.root, h), j), At(LeafOf(t, h, j), m)>>)

IsSpot(t, h, j, m) ==
  /\ h \in {1, 2} /\ j \in 1..Count(t, Child(t, t.root, h)) + 1
  /\ m \in 1..Count(t, LeafOf(t, h, j))

ThreeLevels(t) ==
  /\ 0 \notin DOMAIN t.pages /\ t.root \in DOMAIN t.pages
  /\ ~IsLeaf(t, t.root) /\ Count(t, t.root) = 1
  /\ \A h \in {1, 2} :
       LET x == Child(t, t.root, h)
       IN  /\ x \in DOMAIN t.pages /\ x # t.root /\ ~IsLeaf(t, x) /\ Count(t, x) \in Nat
           /\ \A j \in 1..Count(t, x) + 1 :
                /\ LeafOf(t, h, j) \in DOMAIN t.pages /\ IsLeaf(t, LeafOf(t, h, j))
                /\ Count(t, LeafOf(t, h, j)) \in Nat \ {0}
  /\ \A q \in DOMAIN t.pages : ~IsLeaf(t, q) => q \in {t.root, Child(t, t.root, 1), Child(t, t.root, 2)}

LEMMA ThreeReads ==
  ASSUME NEW t, NEW h, ThreeLevels(t), h \in {1, 2}
  PROVE  /\ Count(t, Child(t, t.root, h)) \in Nat
         /\ \A j \in 1..Count(t, Child(t, t.root, h)) + 1 :
              /\ LeafOf(t, h, j) # 0
              /\ Count(t, LeafOf(t, h, j)) \in Nat /\ Count(t, LeafOf(t, h, j)) > 0
              /\ Leftmost(t, LeafOf(t, h, j)) = <<At(LeafOf(t, h, j), 1)>>
         /\ Leftmost(t, Child(t, t.root, h)) = <<At(Child(t, t.root, h), 1)>> \o <<At(LeafOf(t, h, 1), 1)>>
         /\ Leftmost(t, t.root) = <<At(t.root, 1)>> \o Leftmost(t, Child(t, t.root, 1))
<1> DEFINE r == t.root
           x == Child(t, r, h)
           B == {Child(t, r, 1), Child(t, r, 2)}
<1>1. /\ 0 \notin DOMAIN t.pages /\ r \in DOMAIN t.pages /\ ~IsLeaf(t, r)
      /\ \A g \in {1, 2} : /\ Child(t, r, g) \in DOMAIN t.pages /\ Child(t, r, g) # r
                           /\ ~IsLeaf(t, Child(t, r, g)) /\ Count(t, Child(t, r, g)) \in Nat
                           /\ \A j \in 1..Count(t, Child(t, r, g)) + 1 :
                                /\ LeafOf(t, g, j) \in DOMAIN t.pages /\ IsLeaf(t, LeafOf(t, g, j))
                                /\ Count(t, LeafOf(t, g, j)) \in Nat \ {0}
      /\ \A q \in DOMAIN t.pages : ~IsLeaf(t, q) => q = r \/ q = Child(t, r, 1) \/ q = Child(t, r, 2)
  BY DEF ThreeLevels
<1>2. \A g \in {1, 2} : 1 \in 1..Count(t, Child(t, r, g)) + 1
  <2> TAKE g \in {1, 2}
  <2> DEFINE n == Count(t, Child(t, r, g))
  <2>1. n \in Nat
    BY <1>1
  <2> HIDE DEF n
  <2>2. 1 \in 1..n + 1
    BY <2>1
  <2> QED
    BY <2>2 DEF n
<1>3. \A g \in {1, 2} : LeafOf(t, g, 1) = Child(t, Child(t, r, g), 1)
  BY DEF LeafOf
<1>4. Layered(t, B)
  <2>1. \A g \in {1, 2} : Child(t, Child(t, r, g), 1) \in DOMAIN t.pages /\ IsLeaf(t, Child(t, Child(t, r, g), 1))
    BY <1>1, <1>2, <1>3
  <2>2. r \notin B /\ Child(t, r, 1) \in B /\ Child(t, r, 1) \in DOMAIN t.pages
    BY <1>1
  <2> QED
    BY <1>1, <2>1, <2>2 DEF Layered
<1> HIDE DEF B
<1>5. /\ \A q \in DOMAIN t.pages : IsLeaf(t, q) => Leftmost(t, q) = <<At(q, 1)>>
      /\ \A q \in DOMAIN t.pages : ~IsLeaf(t, q) =>
           Leftmost(t, q) = <<At(q, 1)>> \o Leftmost(t, Child(t, q, 1))
  BY <1>4, LeftmostIs
<1>6. x \in DOMAIN t.pages /\ ~IsLeaf(t, x) /\ Count(t, x) \in Nat
  BY <1>1
<1>7. ASSUME NEW j \in 1..Count(t, x) + 1
      PROVE  /\ LeafOf(t, h, j) # 0
             /\ Count(t, LeafOf(t, h, j)) \in Nat /\ Count(t, LeafOf(t, h, j)) > 0
             /\ Leftmost(t, LeafOf(t, h, j)) = <<At(LeafOf(t, h, j), 1)>>
  <2> DEFINE n == Count(t, LeafOf(t, h, j))
  <2>1. LeafOf(t, h, j) \in DOMAIN t.pages /\ IsLeaf(t, LeafOf(t, h, j)) /\ n \in Nat \ {0}
    BY <1>1
  <2> HIDE DEF n
  <2>2. n \in Nat /\ n > 0
    BY <2>1
  <2> QED
    BY <1>1, <1>5, <2>1, <2>2 DEF n
<1>8. Leftmost(t, x) = <<At(x, 1)>> \o <<At(LeafOf(t, h, 1), 1)>>
  <2>1. 1 \in 1..Count(t, x) + 1 /\ LeafOf(t, h, 1) = Child(t, x, 1)
    BY <1>2, <1>3
  <2> QED
    BY <1>5, <1>6, <1>7, <2>1
<1>9. Leftmost(t, r) = <<At(r, 1)>> \o Leftmost(t, Child(t, r, 1))
  BY <1>1, <1>5
<1> QED
  BY <1>6, <1>7, <1>8, <1>9

(* next() there.                                                            *)
LEMMA SpotMoves ==
  ASSUME NEW t, NEW h, NEW j, NEW m, ThreeLevels(t), IsSpot(t, h, j, m)
  PROVE  /\ ~Spot(t, h, j, m).eof
         /\ KeyAt(t, Spot(t, h, j, m)) = Cells(t, LeafOf(t, h, j))[m].key
         /\ Advance(t, Spot(t, h, j, m)) =
              IF m < Count(t, LeafOf(t, h, j)) THEN Spot(t, h, j, m + 1)
              ELSE IF j <= Count(t, Child(t, t.root, h)) THEN Spot(t, h, j + 1, 1)
              ELSE IF h = 1 THEN Spot(t, 2, 1, 1) ELSE AtEnd
<1> DEFINE r == t.root
           x == Child(t, r, h)
           p == LeafOf(t, h, j)
           s == <<At(r, h), At(x, j), At(p, m)>>
<1>1. h \in {1, 2} /\ j \in 1..Count(t, x) + 1 /\ m \in 1..Count(t, p)
  BY DEF IsSpot
<1>2. Count(t, x) \in Nat /\ p # 0
  BY <1>1, ThreeReads
<1>3. Count(t, r) = 1
  BY DEF ThreeLevels
<1>4. Spot(t, h, j, m) = On(s)
  BY DEF Spot
<1>5. h \in Nat \ {0} /\ j \in Nat \ {0} /\ Count(t, r) \in Nat
  BY <1>1, <1>2, <1>3
<1> HIDE DEF x, p
<1>6. /\ ~On(s).eof /\ KeyAt(t, On(s)) = Cells(t, p)[m].key
      /\ Advance(t, On(s)) =
           IF m < Count(t, p) THEN On(<<At(r, h), At(x, j), At(p, m + 1)>>)
           ELSE IF j <= Count(t, x)
           THEN On(<<At(r, h)>> \o <<At(x, j + 1)>> \o Leftmost(t, Child(t, x, j + 1)))
           ELSE IF h <= Count(t, r) THEN On(<<At(r, h + 1)>> \o Leftmost(t, Child(t, r, h + 1)))
           ELSE AtEnd
  <2> HIDE DEF r
  <2>1. /\ ~On(s).eof /\ ~Lost(On(s)) /\ KeyAt(t, On(s)) = Cells(t, p)[m].key
        /\ Advance(t, On(s)) =
             IF m < Count(t, p) THEN On(<<At(r, h), At(x, j), At(p, m + 1)>>)
             ELSE IF j <= Count(t, x)
             THEN On(<<At(r, h)>> \o <<At(x, j + 1)>> \o Leftmost(t, Child(t, x, j + 1)))
             ELSE IF h <= Count(t, r) THEN On(<<At(r, h + 1)>> \o Leftmost(t, Child(t, r, h + 1)))
             ELSE AtEnd
    BY <1>2, <1>5, AdvanceTriple
  <2> HIDE DEF s
  <2> QED
    BY <2>1
<1> HIDE DEF s
<1>7. On(<<At(r, h), At(x, j), At(p, m + 1)>>) = Spot(t, h, j, m + 1)
  BY DEF Spot, x, p
<1>8. ASSUME j <= Count(t, x)
      PROVE  On(<<At(r, h)>> \o <<At(x, j + 1)>> \o Leftmost(t, Child(t, x, j + 1))) = Spot(t, h, j + 1, 1)
  <2> DEFINE i == j + 1
             a == At(r, h)
             b == At(x, i)
             d == At(LeafOf(t, h, i), 1)
  <2>1. i \in 1..Count(t, x) + 1
    BY <1>1, <1>2, <1>8
  <2> HIDE DEF i
  <2>2. Leftmost(t, LeafOf(t, h, i)) = <<d>>
    BY <1>1, <2>1, ThreeReads DEF x
  <2>3. LeafOf(t, h, i) = Child(t, x, i)
    BY DEF LeafOf, x
  <2>4. Spot(t, h, i, 1) = On(<<a, b, d>>)
    BY DEF Spot, x
  <2> HIDE DEF a, b, d
  <2>5. <<a>> \o <<b>> = <<a, b>>
    BY Pair
  <2>7. <<a, b>> \o <<d>> = <<a, b, d>>
    BY Triple
  <2>6. <<a>> \o <<b>> \o <<d>> = <<a, b, d>>
    BY <2>5, <2>7
  <2> QED
    BY <2>2, <2>3, <2>4, <2>6 DEF a, b, i
<1>9. ASSUME h = 1
      PROVE  On(<<At(r, h + 1)>> \o Leftmost(t, Child(t, r, h + 1))) = Spot(t, 2, 1, 1)
  <2> DEFINE y == Child(t, r, 2)
             a == At(r, 2)
             b == At(y, 1)
             d == At(LeafOf(t, 2, 1), 1)
  <2>1. h + 1 = 2
    BY <1>9
  <2>2. Leftmost(t, y) = <<b>> \o <<d>>
    BY ThreeReads
  <2>3. Spot(t, 2, 1, 1) = On(<<a, b, d>>)
    BY DEF Spot
  <2> HIDE DEF a, b, d
  <2>4. <<b>> \o <<d>> = <<b, d>>
    BY Pair
  <2>5. <<a>> \o <<b, d>> = <<a, b, d>>
    BY Triple
  <2> QED
    BY <2>1, <2>2, <2>3, <2>4, <2>5 DEF a
<1>10. h <= Count(t, r) <=> h = 1
  BY <1>1, <1>3
<1>11. Advance(t, On(s)) =
         IF m < Count(t, p) THEN Spot(t, h, j, m + 1)
         ELSE IF j <= Count(t, x) THEN Spot(t, h, j + 1, 1)
         ELSE IF h = 1 THEN Spot(t, 2, 1, 1) ELSE AtEnd
  BY <1>6, <1>7, <1>8, <1>9, <1>10
<1> QED
  BY <1>4, <1>6, <1>11 DEF p, x

LEMMA FirstSpot ==
  ASSUME NEW t, ThreeLevels(t)
  PROVE  First(t) = Spot(t, 1, 1, 1) /\ IsSpot(t, 1, 1, 1)
<1> DEFINE r == t.root
           y == Child(t, r, 1)
           p == LeafOf(t, 1, 1)
           a == At(r, 1)
           b == At(y, 1)
           d == At(p, 1)
<1>1. /\ Leftmost(t, y) = <<b>> \o <<d>> /\ Leftmost(t, r) = <<a>> \o Leftmost(t, y)
      /\ Count(t, y) \in Nat
      /\ \A j \in 1..Count(t, y) + 1 : Count(t, LeafOf(t, 1, j)) \in Nat /\ Count(t, LeafOf(t, 1, j)) > 0
  BY ThreeReads
<1>2. 1 \in 1..Count(t, y) + 1
  BY <1>1
<1>3. Count(t, p) \in Nat /\ Count(t, p) > 0
  BY <1>1, <1>2
<1>4. Count(t, p) # 0 /\ 1 \in 1..Count(t, p)
  BY <1>3
<1>5. d.page = p
  BY DEF At
<1>6. Spot(t, 1, 1, 1) = On(<<a, b, d>>)
  BY DEF Spot
<1> HIDE DEF a, b, d
<1>7. Leftmost(t, r) = <<a, b, d>> /\ Last(<<a, b, d>>) = d
  <2>1. <<b>> \o <<d>> = <<b, d>>
    BY Pair
  <2>2. <<a>> \o <<b, d>> = <<a, b, d>> /\ Last(<<a, b, d>>) = d
    BY Triple
  <2> QED
    BY <1>1, <2>1, <2>2
<1>8. First(t) = On(<<a, b, d>>)
  BY <1>4, <1>5, <1>7 DEF First
<1>9. IsSpot(t, 1, 1, 1)
  BY <1>2, <1>4 DEF IsSpot
<1> QED
  BY <1>6, <1>8, <1>9

Spots(t) ==
  {AtEnd} \union
    UNION {UNION {{Spot(t, h, j, m) : m \in 1..Count(t, LeafOf(t, h, j))}
                    : j \in 1..Count(t, Child(t, t.root, h)) + 1} : h \in {1, 2}}

LEMMA SpotsAre ==
  ASSUME NEW t, NEW c
  PROVE  c \in Spots(t) <=> c = AtEnd \/ \E h, j, m : IsSpot(t, h, j, m) /\ c = Spot(t, h, j, m)
BY DEF Spots, IsSpot

LEMMA SpotsClosed ==
  ASSUME NEW t, NEW h, NEW j, NEW m, ThreeLevels(t), IsSpot(t, h, j, m)
  PROVE  /\ Count(t, Child(t, t.root, h)) \in Nat /\ Count(t, LeafOf(t, h, j)) \in Nat
         /\ m < Count(t, LeafOf(t, h, j)) => IsSpot(t, h, j, m + 1)
         /\ j <= Count(t, Child(t, t.root, h)) => IsSpot(t, h, j + 1, 1)
         /\ IsSpot(t, 2, 1, 1)
<1>1. ASSUME NEW g, g \in {1, 2}
      PROVE  /\ Count(t, Child(t, t.root, g)) \in Nat
             /\ \A i \in 1..Count(t, Child(t, t.root, g)) + 1 :
                  Count(t, LeafOf(t, g, i)) \in Nat /\ 1 \in 1..Count(t, LeafOf(t, g, i))
  <2>1. /\ Count(t, Child(t, t.root, g)) \in Nat
        /\ \A i \in 1..Count(t, Child(t, t.root, g)) + 1 :
             Count(t, LeafOf(t, g, i)) \in Nat /\ Count(t, LeafOf(t, g, i)) > 0
    BY <1>1, ThreeReads
  <2>2. \A i \in 1..Count(t, Child(t, t.root, g)) + 1 : 1 \in 1..Count(t, LeafOf(t, g, i))
    BY <2>1
  <2> QED
    BY <2>1, <2>2
<1>2. h \in {1, 2} /\ j \in 1..Count(t, Child(t, t.root, h)) + 1 /\ m \in 1..Count(t, LeafOf(t, h, j))
  BY DEF IsSpot
<1>3. Count(t, Child(t, t.root, h)) \in Nat /\ Count(t, LeafOf(t, h, j)) \in Nat
  BY <1>1, <1>2
<1>4. ASSUME m < Count(t, LeafOf(t, h, j))
      PROVE  IsSpot(t, h, j, m + 1)
  <2>1. m + 1 \in 1..Count(t, LeafOf(t, h, j))
    BY <1>2, <1>3, <1>4
  <2> QED
    BY <1>2, <2>1 DEF IsSpot
<1>5. ASSUME j <= Count(t, Child(t, t.root, h))
      PROVE  IsSpot(t, h, j + 1, 1)
  <2> DEFINE i == j + 1
  <2>1. i \in 1..Count(t, Child(t, t.root, h)) + 1
    BY <1>2, <1>3, <1>5
  <2> HIDE DEF i
  <2>2. IsSpot(t, h, i, 1)
    BY <1>1, <1>2, <2>1 DEF IsSpot
  <2> QED
    BY <2>2 DEF i
<1>6. IsSpot(t, 2, 1, 1)
  <2>1. Count(t, Child(t, t.root, 2)) \in Nat
    BY <1>1
  <2>2. 1 \in 1..Count(t, Child(t, t.root, 2)) + 1 /\ 2 \in {1, 2}
    BY <2>1
  <2> QED
    BY <1>1, <2>2 DEF IsSpot
<1> QED
  BY <1>3, <1>4, <1>5, <1>6

LEMMA SpotGoes ==
  ASSUME NEW t, NEW x, ThreeLevels(t), x \in Spots(t)
  PROVE  Advance(t, x) \in Spots(t)
<1>1. CASE x = AtEnd
  BY <1>1, EndIs
<1>2. CASE \E h, j, m : IsSpot(t, h, j, m) /\ x = Spot(t, h, j, m)
  <2>1. PICK h, j, m : IsSpot(t, h, j, m) /\ x = Spot(t, h, j, m)
    BY <1>2
  <2>2. Advance(t, Spot(t, h, j, m)) =
          IF m < Count(t, LeafOf(t, h, j)) THEN Spot(t, h, j, m + 1)
          ELSE IF j <= Count(t, Child(t, t.root, h)) THEN Spot(t, h, j + 1, 1)
          ELSE IF h = 1 THEN Spot(t, 2, 1, 1) ELSE AtEnd
    BY <2>1, SpotMoves
  <2>3. /\ m < Count(t, LeafOf(t, h, j)) => IsSpot(t, h, j, m + 1)
        /\ j <= Count(t, Child(t, t.root, h)) => IsSpot(t, h, j + 1, 1)
        /\ IsSpot(t, 2, 1, 1)
    BY <2>1, SpotsClosed
  <2> QED
    BY <2>1, <2>2, <2>3, SpotsAre
<1> QED
  BY <1>1, <1>2, SpotsAre

(* A key on none of the leaves.                                             *)
SpotKey(t, h, j, m) == Cells(t, LeafOf(t, h, j))[m].key

LEMMA MissingKey ==
  ASSUME NEW t, NEW k, NEW R, R \in SUBSET Keys, k \in R, ThreeLevels(t),
         \A h, j, m : IsSpot(t, h, j, m) => SpotKey(t, h, j, m) # k
  PROVE  ~Lists(Scan(t, First(t)), R)
<1>1. \A x \in Spots(t) : Advance(t, x) \in Spots(t)
  BY SpotGoes
<1>2. \A x \in Spots(t) : ~IsAt(t, x, k)
  <2> SUFFICES ASSUME NEW x \in Spots(t) PROVE ~IsAt(t, x, k)
    OBVIOUS
  <2>1. CASE x = AtEnd
    BY <2>1, EndIs DEF IsAt
  <2>2. CASE \E h, j, m : IsSpot(t, h, j, m) /\ x = Spot(t, h, j, m)
    <3>1. PICK h, j, m : IsSpot(t, h, j, m) /\ x = Spot(t, h, j, m)
      BY <2>2
    <3>2. KeyAt(t, Spot(t, h, j, m)) = SpotKey(t, h, j, m)
      BY <3>1, SpotMoves DEF SpotKey
    <3> QED
      BY <3>1, <3>2 DEF IsAt
  <2> QED
    BY <2>1, <2>2, SpotsAre
<1>3. First(t) \in Spots(t)
  BY FirstSpot, SpotsAre
<1>4. Comes(t, Spots(t), First(t), k)
  BY <1>1, <1>2, <1>3 DEF Comes
<1> QED
  BY <1>3, <1>4, Unlisted

(* A leaf with one key on the last two ways down.                           *)
FinalSpot(t, h, j) == h = 2 /\ j = Count(t, Child(t, t.root, 2)) + 1
LateSpot(t, h, j) ==
  \/ h = 2 /\ j = Count(t, Child(t, t.root, 2))
  \/ Count(t, Child(t, t.root, 2)) = 0 /\ h = 1 /\ j = Count(t, Child(t, t.root, 1)) + 1

LeafTwice(t, p, k) ==
  /\ Count(t, p) = 1 /\ LeafOf(t, 1, 1) # p
  /\ \A h, j, m : IsSpot(t, h, j, m) =>
       /\ SpotKey(t, h, j, m) = k <=> LeafOf(t, h, j) = p
       /\ LeafOf(t, h, j) = p <=> FinalSpot(t, h, j) \/ LateSpot(t, h, j)

LEMMA DoubledSpot ==
  ASSUME NEW t, NEW h, NEW j, NEW m, NEW p, NEW k, ThreeLevels(t), LeafTwice(t, p, k),
         IsSpot(t, h, j, m), ~IsAt(t, Spot(t, h, j, m), k), IsAt(t, Advance(t, Spot(t, h, j, m)), k)
  PROVE  IsAt(t, Advance(t, Advance(t, Spot(t, h, j, m))), k)
<1> DEFINE a == Count(t, Child(t, t.root, 1))
           b == Count(t, Child(t, t.root, 2))
<1>1. ASSUME NEW g, NEW i, NEW n, IsSpot(t, g, i, n)
      PROVE  /\ IsAt(t, Spot(t, g, i, n), k) <=> LeafOf(t, g, i) = p
             /\ LeafOf(t, g, i) = p <=> FinalSpot(t, g, i) \/ LateSpot(t, g, i)
  <2>1. ~Spot(t, g, i, n).eof /\ KeyAt(t, Spot(t, g, i, n)) = SpotKey(t, g, i, n)
    BY <1>1, SpotMoves DEF SpotKey
  <2> QED
    BY <1>1, <2>1 DEF LeafTwice, IsAt
<1>2. Count(t, p) = 1
  BY DEF LeafTwice
<1>3. LeafOf(t, h, j) # p
  BY <1>1
<1>4. /\ Advance(t, Spot(t, h, j, m)) =
           IF m < Count(t, LeafOf(t, h, j)) THEN Spot(t, h, j, m + 1)
           ELSE IF j <= Count(t, Child(t, t.root, h)) THEN Spot(t, h, j + 1, 1)
           ELSE IF h = 1 THEN Spot(t, 2, 1, 1) ELSE AtEnd
      /\ Count(t, Child(t, t.root, h)) \in Nat
      /\ m < Count(t, LeafOf(t, h, j)) => IsSpot(t, h, j, m + 1)
      /\ j <= Count(t, Child(t, t.root, h)) => IsSpot(t, h, j + 1, 1)
      /\ IsSpot(t, 2, 1, 1)
  BY SpotMoves, SpotsClosed
<1>5. a \in Nat /\ b \in Nat
  BY ThreeReads
<1>6. h \in {1, 2} /\ j \in 1..Count(t, Child(t, t.root, h)) + 1
  BY DEF IsSpot
<1>7. ASSUME NEW g, NEW i, IsSpot(t, g, i, 1), LeafOf(t, g, i) = p, LateSpot(t, g, i)
      PROVE  IsAt(t, Advance(t, Spot(t, g, i, 1)), k)
  <2>1. /\ Advance(t, Spot(t, g, i, 1)) =
             IF 1 < Count(t, LeafOf(t, g, i)) THEN Spot(t, g, i, 1 + 1)
             ELSE IF i <= Count(t, Child(t, t.root, g)) THEN Spot(t, g, i + 1, 1)
             ELSE IF g = 1 THEN Spot(t, 2, 1, 1) ELSE AtEnd
        /\ i <= Count(t, Child(t, t.root, g)) => IsSpot(t, g, i + 1, 1)
        /\ IsSpot(t, 2, 1, 1)
    BY <1>7, SpotMoves, SpotsClosed
  <2>2. ~(1 < Count(t, LeafOf(t, g, i)))
    BY <1>2, <1>7
  <2>3. CASE g = 2 /\ i = b
    <3>1. Advance(t, Spot(t, g, i, 1)) = Spot(t, 2, b + 1, 1) /\ IsSpot(t, 2, b + 1, 1)
      BY <2>1, <2>2, <2>3, <1>5
    <3>2. FinalSpot(t, 2, b + 1)
      BY DEF FinalSpot
    <3> HIDE DEF b
    <3> QED
      BY <1>1, <3>1, <3>2
  <2>4. CASE b = 0 /\ g = 1 /\ i = a + 1
    <3>1. ~(i <= Count(t, Child(t, t.root, g)))
      BY <1>5, <2>4
    <3>2. Advance(t, Spot(t, g, i, 1)) = Spot(t, 2, 1, 1)
      BY <2>1, <2>2, <2>4, <3>1
    <3>3. FinalSpot(t, 2, 1)
      BY <2>4 DEF FinalSpot
    <3> QED
      BY <1>1, <2>1, <3>2, <3>3
  <2> QED
    BY <1>7, <2>3, <2>4 DEF LateSpot
<1>8. CASE m < Count(t, LeafOf(t, h, j))
  <2>1. IsSpot(t, h, j, m + 1) /\ IsAt(t, Spot(t, h, j, m + 1), k)
    BY <1>4, <1>8
  <2> QED
    BY <1>1, <1>3, <2>1
<1>9. CASE ~(m < Count(t, LeafOf(t, h, j))) /\ j <= Count(t, Child(t, t.root, h))
  <2> DEFINE i == j + 1
  <2>1. Advance(t, Spot(t, h, j, m)) = Spot(t, h, i, 1) /\ IsSpot(t, h, i, 1)
    BY <1>4, <1>9
  <2>2. LeafOf(t, h, i) = p /\ (FinalSpot(t, h, i) \/ LateSpot(t, h, i))
    BY <1>1, <2>1
  <2>3. ~FinalSpot(t, h, i)
    <3> SUFFICES ASSUME FinalSpot(t, h, i) PROVE FALSE
      OBVIOUS
    <3>1. h = 2 /\ j = b
      BY <1>5, <1>6 DEF FinalSpot
    <3>2. LateSpot(t, h, j)
      BY <3>1 DEF LateSpot
    <3> QED
      BY <1>1, <1>3, <3>2
  <2> HIDE DEF i
  <2> QED
    BY <1>7, <2>1, <2>2, <2>3
<1>10. CASE ~(m < Count(t, LeafOf(t, h, j))) /\ ~(j <= Count(t, Child(t, t.root, h))) /\ h = 1
  <2>1. Advance(t, Spot(t, h, j, m)) = Spot(t, 2, 1, 1) /\ IsSpot(t, 2, 1, 1)
    BY <1>4, <1>10
  <2>2. LeafOf(t, 2, 1) = p /\ (FinalSpot(t, 2, 1) \/ LateSpot(t, 2, 1))
    BY <1>1, <2>1
  <2>3. j = a + 1
    BY <1>5, <1>6, <1>10
  <2>4. ~FinalSpot(t, 2, 1)
    <3> SUFFICES ASSUME FinalSpot(t, 2, 1) PROVE FALSE
      OBVIOUS
    <3>1. b = 0
      BY <1>5 DEF FinalSpot
    <3>2. LateSpot(t, h, j)
      BY <1>10, <2>3, <3>1 DEF LateSpot
    <3> QED
      BY <1>1, <1>3, <3>2
  <2> QED
    BY <1>7, <2>1, <2>2, <2>4
<1>11. CASE ~(m < Count(t, LeafOf(t, h, j))) /\ ~(j <= Count(t, Child(t, t.root, h))) /\ h # 1
  <2>1. Advance(t, Spot(t, h, j, m)) = AtEnd
    BY <1>4, <1>11
  <2> QED
    BY <2>1, EndIs DEF IsAt
<1> QED
  BY <1>8, <1>9, <1>10, <1>11

LEMMA DoubledLeaf ==
  ASSUME NEW t, NEW p, NEW k, NEW R, R \in SUBSET Keys, k \in R, ThreeLevels(t), LeafTwice(t, p, k)
  PROVE  ~Lists(Scan(t, First(t)), R)
<1>1. \A x \in Spots(t) : Advance(t, x) \in Spots(t)
  BY SpotGoes
<1>2. First(t) \in Spots(t) /\ ~IsAt(t, First(t), k)
  <2>1. First(t) = Spot(t, 1, 1, 1) /\ IsSpot(t, 1, 1, 1)
    BY FirstSpot
  <2>2. First(t) \in Spots(t)
    BY <2>1, SpotsAre
  <2>3. KeyAt(t, Spot(t, 1, 1, 1)) = SpotKey(t, 1, 1, 1)
    BY <2>1, SpotMoves DEF SpotKey
  <2>4. SpotKey(t, 1, 1, 1) # k
    BY <2>1 DEF LeafTwice
  <2> QED
    BY <2>1, <2>2, <2>3, <2>4 DEF IsAt
<1>3. \A x \in Spots(t) : ~x.eof /\ ~IsAt(t, x, k) /\ IsAt(t, Advance(t, x), k) =>
        IsAt(t, Advance(t, Advance(t, x)), k)
  <2> SUFFICES ASSUME NEW x \in Spots(t), ~x.eof, ~IsAt(t, x, k), IsAt(t, Advance(t, x), k)
               PROVE  IsAt(t, Advance(t, Advance(t, x)), k)
    OBVIOUS
  <2>1. x # AtEnd
    BY EndIs
  <2>2. PICK h, j, m : IsSpot(t, h, j, m) /\ x = Spot(t, h, j, m)
    BY <2>1, SpotsAre
  <2> QED
    BY <2>2, DoubledSpot
<1>4. Comes(t, Spots(t), First(t), k)
  BY <1>1, <1>2, <1>3 DEF Comes
<1> QED
  BY <1>2, <1>4, Unlisted

(* A root that is split, under a new root.                                  *)
Grafted(u, s, r, E, b) ==
  /\ 0 \notin DOMAIN u.pages /\ u.root \notin DOMAIN s.pages /\ b \notin DOMAIN s.pages /\ b # u.root
  /\ DOMAIN u.pages = DOMAIN s.pages \union {b, u.root}
  /\ \E key : u.pages[u.root] = Interior(<<[child |-> r, key |-> key]>>, b)
  /\ u.pages[r] = Interior(Lower(E), Upper(E)[1].child)
  /\ u.pages[b] = Interior(Tail(Upper(E)), s.pages[r].right)
  /\ \A q \in DOMAIN s.pages : q # r => u.pages[q] = s.pages[q]

Grafts(u, s, r, cell) ==
  \E E, b : /\ Grafted(u, s, r, E, b) /\ E \in Seq([child : Nat, key : Keys])
            /\ UpTo(s, r, cell.key) + 1 \in 1..Count(s, r) + 1
            /\ Insertion(E, Cells(s, r), UpTo(s, r, cell.key) + 1, cell)

LEMMA RaisedIs ==
  ASSUME NEW s, NEW r, NEW cell, NEW new, Paged(s), r \in DOMAIN s.pages,
         Cells(s, r) \in Seq([child : Nat, key : Keys]), cell \in [child : Nat, key : Keys]
  PROVE  LET w == Raised([tree |-> s, cell |-> cell, new |-> new], r)
         IN  Grafts(NewRoot(w.tree, w.cell, w.new), s, r, cell)
<1> DEFINE S == [child : Nat, key : Keys]
           at == UpTo(s, r, cell.key) + 1
           c == Cells(s, r)
           E == InsertAt(c, at, cell)
           b == NewPage(s)
           upper == Interior(Tail(Upper(E)), s.pages[r].right)
           lower == Interior(Lower(E), Upper(E)[1].child)
           v == SetPage(s, b, upper)
           x == SetPage(v, r, lower)
           w == Raised([tree |-> s, cell |-> cell, new |-> new], r)
           middle == [child |-> r, key |-> Upper(E)[1].key]
           u == NewRoot(w.tree, w.cell, w.new)
<1>1. w.tree = x /\ w.cell = middle /\ w.new = b
  BY DEF Raised
<1>2. at \in 1..Len(c) + 1 /\ c \in Seq(S) /\ cell \in S
  <2>1. UpTo(s, r, cell.key) \in 0..Count(s, r)
    BY UpToBound
  <2>2. Len(c) \in Nat /\ c \in Seq(S)
    OBVIOUS
  <2> HIDE DEF c, S
  <2> QED
    BY <2>1, <2>2 DEF Count, c, S
<1> HIDE DEF at, c, S
<1>3. E \in Seq(S) /\ Insertion(E, c, at, cell)
  BY <1>2, InsertedAt
<1> HIDE DEF E, upper, lower, middle
<1>4. b \in Nat \ {0} /\ b \notin DOMAIN s.pages
  BY Fresh
<1> HIDE DEF b
<1>5. Changed(v, s, b, upper)
  BY SetReads DEF Paged
<1> HIDE DEF v
<1>6. Paged(v)
  BY <1>4, <1>5, ChangedPaged
<1>7. Changed(x, v, r, lower) /\ r \in Nat \ {0}
  BY <1>6, SetReads DEF Paged
<1> HIDE DEF x, w
<1>8. Paged(x)
  BY <1>6, <1>7, ChangedPaged
<1>9. /\ IsTree(u) /\ u.root \in Nat \ {0} /\ u.root \notin DOMAIN x.pages
      /\ DOMAIN u.pages = DOMAIN x.pages \union {u.root}
      /\ u.pages[u.root] = Interior(<<middle>>, b)
      /\ \A q \in DOMAIN x.pages : u.pages[q] = x.pages[q]
  BY <1>1, <1>8, NewRootIs
<1> HIDE DEF u
<1>10. /\ DOMAIN x.pages = DOMAIN s.pages \union {b} /\ r # b
       /\ x.pages[b] = upper /\ x.pages[r] = lower
       /\ \A q \in DOMAIN s.pages : q # r => x.pages[q] = s.pages[q]
  <2>1. DOMAIN x.pages = DOMAIN s.pages \union {b} /\ r # b
    BY <1>4, <1>5, <1>7 DEF Changed
  <2>2. x.pages[b] = upper /\ x.pages[r] = lower
    BY <2>1, <1>5, <1>7 DEF Changed
  <2>3. \A q \in DOMAIN s.pages : q # r => x.pages[q] = s.pages[q]
    BY <1>4, <1>5, <1>7 DEF Changed
  <2> QED
    BY <2>1, <2>2, <2>3
<1>11. 0 \notin DOMAIN u.pages
  BY <1>8, <1>9 DEF Paged
<1>12. Grafted(u, s, r, E, b)
  <2>1. u.root \notin DOMAIN s.pages /\ b # u.root
    BY <1>9, <1>10
  <2>2. DOMAIN u.pages = DOMAIN s.pages \union {b, u.root}
    BY <1>9, <1>10
  <2>3. u.pages[r] = lower /\ u.pages[b] = upper /\ \A q \in DOMAIN s.pages : q # r => u.pages[q] = s.pages[q]
    BY <1>9, <1>10
  <2>4. \E key : u.pages[u.root] = Interior(<<[child |-> r, key |-> key]>>, b)
    BY <1>9 DEF middle
  <2> QED
    BY <1>4, <1>11, <2>1, <2>2, <2>3, <2>4 DEF Grafted, upper, lower
<1>13. Grafts(u, s, r, cell)
  BY <1>2, <1>3, <1>12 DEF Grafts, at, c, S, Count
<1> QED
  BY <1>13 DEF u, w

GraftOf(u, t, K, i, p, lo, up) ==
  \E s : Apart(s, t, K, i, p, lo, up) /\ Grafts(u, s, t.root, [child |-> K[i], key |-> up[1]])

LEMMA BalanceGrafts ==
  ASSUME NEW t, NEW K, NEW D, NEW L, NEW i, InTree(t, K, D, L), i \in 1..Len(L), Many(L),
         Len(D) = InteriorCapacity, Len(L[i]) > 1
  PROVE  GraftOf(Balance(t, PathTo(t, L, i), K[i]), t, K, i, NewPage(t), Lower(L[i]), Upper(L[i]))
<1> DEFINE p == NewPage(t)
           lo == Lower(L[i])
           up == Upper(L[i])
           cell == [child |-> K[i], key |-> up[1]]
           u == Balance(t, PathTo(t, L, i), K[i])
           r == t.root
           S == [child : Nat, key : Keys]
<1>1. /\ Listed(K, D, L) /\ L[i] \in Seq(Keys) /\ Len(D) = Len(L) - 1 /\ Len(L) \in Nat
      /\ K[i] \in Nat \ {0}
  BY ListReads DEF InTree
<1>2. up \in Seq(Keys) /\ Len(up) > 0
  BY <1>1, Halves
<1>3. PICK s : Apart(s, t, K, i, p, lo, up) /\ u = Promote(s, PathTo(t, L, i), cell, p)
  <2>1. Balanced(u, t, K, i, PathTo(t, L, i), p, lo, up)
    BY BalanceIs
  <2> QED
    BY <2>1 DEF Balanced
<1> HIDE DEF p, u
<1>4. up[1] \in Keys
  BY <1>2
<1> HIDE DEF lo, up
<1>5. Paged(s)
  BY <1>3 DEF Apart
<1>6. r # K[i] /\ r \in DOMAIN t.pages /\ Count(t, r) = Len(L) - 1 /\ Cells(t, r) = RootCells(K, D)
  BY RootReads DEF InTree, HasLeaves
<1>7. r \in DOMAIN s.pages /\ s.pages[r] = t.pages[r]
  BY <1>3, <1>6 DEF Apart
<1>8. Count(s, r) = InteriorCapacity /\ Cells(s, r) = RootCells(K, D)
  BY <1>1, <1>6, <1>7 DEF Count, Cells
<1>9. Cells(s, r) \in Seq(S)
  <2>1. \A j \in 1..Len(D) : [child |-> K[j], key |-> D[j]] \in S
    BY <1>1, ListReads
  <2>2. Len(D) \in Nat
    BY <1>1 DEF Listed
  <2> HIDE DEF S
  <2>3. RootCells(K, D) \in Seq(S)
    BY <2>1, <2>2 DEF RootCells
  <2> QED
    BY <1>8, <2>3
<1>10. cell \in S
  BY <1>1, <1>4
<1>11. u = Promote(s, <<At(r, i)>>, cell, p)
  BY <1>3 DEF PathTo
<1>12. Promoted(s, r, i, cell, p)
  BY <1>8, Bounds, PromoteIs
<1> HIDE DEF cell, r
<1> DEFINE w == Raised([tree |-> s, cell |-> cell, new |-> p], r)
<1>13. u = NewRoot(w.tree, w.cell, w.new)
  <2>1. ~(Count(s, r) < InteriorCapacity)
    BY <1>8, Bounds
  <2> QED
    BY <1>11, <1>12, <2>1 DEF Promoted
<1>14. Grafts(NewRoot(w.tree, w.cell, w.new), s, r, cell)
  BY <1>5, <1>7, <1>9, <1>10, RaisedIs
<1> HIDE DEF w
<1>15. GraftOf(u, t, K, i, p, lo, up)
  BY <1>3, <1>13, <1>14 DEF GraftOf, cell, r
<1> QED
  BY <1>15 DEF u, p, lo, up

(* The leaves below the two halves of the old root, and what they hold.     *)
HalfWays(u, K, L, E) ==
  /\ Mid(E) \in Nat /\ Mid(E) > 0 /\ Mid(E) < Len(L)
  /\ Count(u, Child(u, u.root, 1)) = Mid(E)
  /\ Count(u, Child(u, u.root, 2)) = Len(L) - 1 - Mid(E)
  /\ \A j \in 1..Mid(E) + 1 : LeafOf(u, 1, j) = E[j].child
  /\ \A j \in 1..Len(L) - 1 - Mid(E) : LeafOf(u, 2, j) = E[Mid(E) + 1 + j].child
  /\ LeafOf(u, 2, Len(L) - Mid(E)) = K[Len(L)]

LEMMA GraftWays ==
  ASSUME NEW u, NEW s, NEW r, NEW K, NEW L, NEW E, NEW b, Len(L) \in Nat, Len(L) > 1,
         r \in DOMAIN s.pages, s.pages[r].right = K[Len(L)], Grafted(u, s, r, E, b),
         E \in Seq([child : Nat, key : Keys]), Len(E) = Len(L)
  PROVE  /\ HalfWays(u, K, L, E)
         /\ ~IsLeaf(u, u.root) /\ Count(u, u.root) = 1 /\ Child(u, u.root, 1) = r /\ Child(u, u.root, 2) = b
         /\ ~IsLeaf(u, r) /\ ~IsLeaf(u, b)
<1> DEFINE N == Len(L)
           M == Mid(E)
           S == [child : Nat, key : Keys]
           lo == Lower(E)
           up == Upper(E)
           tail == Tail(up)
<1>1. N \in Nat /\ N > 1 /\ Len(E) = N /\ E \in Seq(S)
  OBVIOUS
<1> HIDE DEF N, S
<1>2. /\ lo \in Seq(S) /\ up \in Seq(S) /\ Len(lo) = M /\ M \in Nat /\ M > 0 /\ M < N
      /\ Len(up) \in Nat /\ N = M + Len(up) /\ Len(up) > 0
      /\ \A x \in 1..M : lo[x] = E[x]
      /\ \A x \in 1..Len(up) : up[x] = E[M + x]
  <2>1. Len(E) > 1
    BY <1>1
  <2>2. /\ lo \in Seq(S) /\ up \in Seq(S) /\ Len(lo) > 0 /\ Len(up) > 0 /\ Len(lo) < Len(E)
        /\ Len(E) = Len(lo) + Len(up) /\ Len(lo) = M
        /\ \A x \in 1..Len(lo) : lo[x] = E[x]
        /\ \A x \in 1..Len(up) : up[x] = E[Len(lo) + x]
    BY <1>1, <2>1, Halves
  <2>3. Len(lo) \in Nat /\ Len(up) \in Nat
    BY <2>2
  <2> HIDE DEF lo, up, M
  <2> QED
    BY <1>1, <2>2, <2>3
<1> HIDE DEF lo, up, M
<1>3. Len(up) = N - M
  <2> DEFINE n == Len(up)
  <2> HIDE DEF n
  <2>1. n = N - M
    BY <1>1, <1>2 DEF n
  <2> QED
    BY <2>1 DEF n
<1>4. Len(tail) = N - 1 - M /\ \A x \in 1..N - 1 - M : tail[x] = E[M + 1 + x]
  <2>1. tail \in Seq(S) /\ Len(tail) = Len(up) - 1 /\ \A x \in 1..Len(tail) : tail[x] = up[x + 1]
    BY <1>2
  <2> HIDE DEF tail
  <2>2. Len(tail) = N - 1 - M
    <3>1. Len(tail) = N - M - 1
      BY <1>3, <2>1
    <3>2. N - M - 1 = N - 1 - M
      BY <1>1, <1>2
    <3> QED
      BY <3>1, <3>2
  <2>3. ASSUME NEW x \in 1..N - 1 - M
        PROVE  tail[x] = E[M + 1 + x]
    <3>1. x + 1 \in 1..N - M /\ M + (x + 1) = M + 1 + x
      BY <1>1, <1>2
    <3>2. tail[x] = up[x + 1]
      BY <2>1, <2>2
    <3>3. up[x + 1] = E[M + (x + 1)]
      BY <1>2, <1>3, <3>1
    <3> QED
      BY <3>1, <3>2, <3>3
  <2> QED
    BY <2>2, <2>3
<1> HIDE DEF tail
<1>5. PICK key : u.pages[u.root] = Interior(<<[child |-> r, key |-> key]>>, b)
  BY DEF Grafted
<1>6. /\ u.pages[r] = Interior(lo, up[1].child) /\ u.pages[b] = Interior(tail, K[N])
  BY DEF Grafted, lo, up, tail, N
<1>7. ~IsLeaf(u, u.root) /\ ~IsLeaf(u, r) /\ ~IsLeaf(u, b)
  BY <1>5, <1>6 DEF IsLeaf, Interior
<1>8. Count(u, u.root) = 1 /\ Child(u, u.root, 1) = r /\ Child(u, u.root, 2) = b
  <2> DEFINE c == <<[child |-> r, key |-> key]>>
  <2>1. Cells(u, u.root) = c /\ u.pages[u.root].right = b
    BY <1>5 DEF Cells, Interior
  <2>2. Len(c) = 1 /\ c[1].child = r
    OBVIOUS
  <2> HIDE DEF c
  <2>3. Count(u, u.root) = 1
    BY <2>1, <2>2 DEF Count
  <2> QED
    BY <2>1, <2>2, <2>3 DEF Child
<1>9. /\ Count(u, r) = M /\ \A j : Child(u, r, j) = IF j <= M THEN lo[j].child ELSE up[1].child
  <2>1. Cells(u, r) = lo /\ u.pages[r].right = up[1].child
    BY <1>6 DEF Cells, Interior
  <2>2. Count(u, r) = M
    BY <1>2, <2>1 DEF Count
  <2> QED
    BY <2>1, <2>2 DEF Child
<1>10. /\ Count(u, b) = N - 1 - M
       /\ \A j : Child(u, b, j) = IF j <= N - 1 - M THEN tail[j].child ELSE K[N]
  <2>1. Cells(u, b) = tail /\ u.pages[b].right = K[N]
    BY <1>6 DEF Cells, Interior
  <2>2. Count(u, b) = N - 1 - M
    BY <1>4, <2>1 DEF Count
  <2> QED
    BY <2>1, <2>2 DEF Child
<1>11. \A j \in 1..M + 1 : LeafOf(u, 1, j) = E[j].child
  <2> TAKE j \in 1..M + 1
  <2>1. LeafOf(u, 1, j) = Child(u, r, j)
    BY <1>8 DEF LeafOf
  <2>2. CASE j <= M
    <3>1. j \in 1..M
      BY <1>2, <2>2
    <3> QED
      BY <1>2, <1>9, <2>1, <2>2, <3>1
  <2>3. CASE ~(j <= M)
    <3>1. j = M + 1 /\ 1 \in 1..Len(up)
      BY <1>2, <2>3
    <3>2. up[1] = E[M + 1]
      BY <1>2, <3>1
    <3> QED
      BY <1>9, <2>1, <2>3, <3>1, <3>2
  <2> QED
    BY <2>2, <2>3
<1>12. \A j \in 1..N - 1 - M : LeafOf(u, 2, j) = E[M + 1 + j].child
  <2> TAKE j \in 1..N - 1 - M
  <2>1. LeafOf(u, 2, j) = Child(u, b, j)
    BY <1>8 DEF LeafOf
  <2>2. j <= N - 1 - M
    BY <1>1, <1>2
  <2> QED
    BY <1>4, <1>10, <2>1, <2>2
<1>13. LeafOf(u, 2, N - M) = K[N]
  <2>1. LeafOf(u, 2, N - M) = Child(u, b, N - M)
    BY <1>8 DEF LeafOf
  <2>2. ~(N - M <= N - 1 - M)
    BY <1>1, <1>2
  <2> QED
    BY <1>10, <2>1, <2>2
<1>14. HalfWays(u, K, L, E)
  BY <1>2, <1>8, <1>9, <1>10, <1>11, <1>12, <1>13 DEF HalfWays, M, N
<1> QED
  BY <1>7, <1>8, <1>14

KeptBy(L, i, lo, j) == IF j = i THEN lo ELSE L[j]

Raising(u, t, K, D, L, i, lo, up, E) ==
  /\ ThreeLevels(u) /\ HalfWays(u, K, L, E) /\ Len(E) = Len(L)
  /\ UpTo(t, t.root, up[1]) + 1 \in 1..Len(L)
  /\ Insertion(E, RootCells(K, D), UpTo(t, t.root, up[1]) + 1, [child |-> K[i], key |-> up[1]])
  /\ \A j \in 1..Len(L) : HasKeys(u, K[j], KeptBy(L, i, lo, j))
  /\ \A h, j : h \in {1, 2} /\ j \in 1..Count(u, Child(u, u.root, h)) + 1 =>
       \E x \in 1..Len(L) : LeafOf(u, h, j) = K[x]

Leads(K, L, E) == \A x \in 1..Len(L) : \E y \in 1..Len(L) : E[x].child = K[y]

LEMMA WaysLead ==
  ASSUME NEW u, NEW K, NEW L, NEW E, Len(L) \in Nat, HalfWays(u, K, L, E), Leads(K, L, E)
  PROVE  \A h, j : h \in {1, 2} /\ j \in 1..Count(u, Child(u, u.root, h)) + 1 =>
           \E x \in 1..Len(L) : LeafOf(u, h, j) = K[x]
<1> SUFFICES ASSUME NEW h \in {1, 2}, NEW j \in 1..Count(u, Child(u, u.root, h)) + 1
             PROVE  \E x \in 1..Len(L) : LeafOf(u, h, j) = K[x]
  OBVIOUS
<1> DEFINE N == Len(L)
           M == Mid(E)
<1>1. /\ N \in Nat /\ M \in Nat /\ M > 0 /\ M < N
      /\ Count(u, Child(u, u.root, 1)) = M /\ Count(u, Child(u, u.root, 2)) = N - 1 - M
      /\ \A x \in 1..M + 1 : LeafOf(u, 1, x) = E[x].child
      /\ \A x \in 1..N - 1 - M : LeafOf(u, 2, x) = E[M + 1 + x].child
      /\ LeafOf(u, 2, N - M) = K[N]
      /\ \A x \in 1..N : \E y \in 1..N : E[x].child = K[y]
  BY DEF HalfWays, Leads
<1> HIDE DEF N, M
<1>2. CASE h = 1
  <2>1. j \in 1..M + 1 /\ j \in 1..N
    BY <1>1, <1>2
  <2> QED
    BY <1>1, <1>2, <2>1 DEF N
<1>3. CASE h = 2 /\ j <= N - 1 - M
  <2>1. j \in 1..N - 1 - M /\ M + 1 + j \in 1..N
    BY <1>1, <1>3
  <2> QED
    BY <1>1, <1>3, <2>1 DEF N
<1>4. CASE h = 2 /\ ~(j <= N - 1 - M)
  <2>1. j = N - M /\ N \in 1..N
    BY <1>1, <1>4
  <2> QED
    BY <1>1, <1>4, <2>1 DEF N
<1> QED
  BY <1>2, <1>3, <1>4

LEMMA RaisingIs ==
  ASSUME NEW t, NEW K, NEW D, NEW L, NEW i, InTree(t, K, D, L), i \in 1..Len(L), Many(L),
         Len(D) = InteriorCapacity, Len(L[i]) > 1, \A j \in 1..Len(L) : Len(L[j]) > 0
  PROVE  \E E : Raising(Balance(t, PathTo(t, L, i), K[i]), t, K, D, L, i, Lower(L[i]), Upper(L[i]), E)
<1> DEFINE N == Len(L)
           p == NewPage(t)
           lo == Lower(L[i])
           up == Upper(L[i])
           r == t.root
           u == Balance(t, PathTo(t, L, i), K[i])
           cell == [child |-> K[i], key |-> up[1]]
           at == UpTo(t, r, up[1]) + 1
<1>1. /\ Listed(K, D, L) /\ N \in Nat /\ N > 1 /\ Len(D) = N - 1 /\ i \in 1..N
      /\ \A j \in 1..N : L[j] \in Seq(Keys) /\ K[j] \in Nat \ {0}
  BY ListReads, LeafCount DEF InTree
<1>2. lo \in Seq(Keys) /\ Len(lo) > 0
  BY <1>1, Halves
<1>3. PICK s : Apart(s, t, K, i, p, lo, up) /\ Grafts(u, s, r, cell)
  <2>1. GraftOf(u, t, K, i, p, lo, up)
    BY BalanceGrafts
  <2> QED
    BY <2>1 DEF GraftOf
<1> HIDE DEF u, p
<1>4. PICK E, b : /\ Grafted(u, s, r, E, b) /\ E \in Seq([child : Nat, key : Keys])
                  /\ UpTo(s, r, cell.key) + 1 \in 1..Count(s, r) + 1
                  /\ Insertion(E, Cells(s, r), UpTo(s, r, cell.key) + 1, cell)
  BY <1>3 DEF Grafts
<1>5. /\ r \in DOMAIN t.pages /\ Count(t, r) = N - 1 /\ Cells(t, r) = RootCells(K, D)
      /\ t.pages[r].right = K[N]
      /\ DOMAIN t.pages = {r} \union {K[j] : j \in 1..N}
      /\ \A j \in 1..N : t.pages[K[j]] = Leaf(L[j]) /\ K[j] # r
      /\ \A j \in 1..N : j # i => K[j] # K[i]
      /\ \A j \in 1..N - 1 : Cells(t, r)[j].child = K[j]
  <2>1. HasLeaves(t, K, D, L)
    BY RootReads
  <2>2. /\ r \in DOMAIN t.pages /\ t.pages[r].right = K[N]
        /\ DOMAIN t.pages = {r} \union {K[j] : j \in 1..N}
        /\ \A j \in 1..N : t.pages[K[j]] = Leaf(L[j]) /\ K[j] # r
        /\ Cells(t, r) = RootCells(K, D)
    BY <2>1, <1>1 DEF InTree, HasLeaves, Cells, Interior
  <2>3. \A j \in 1..N : j # i => K[j] # K[i]
    BY <1>1 DEF Listed
  <2>4. Count(t, r) = N - 1
    BY <2>2, <1>1 DEF Count, RootCells
  <2>5. \A j \in 1..N - 1 : Cells(t, r)[j].child = K[j]
    BY <2>2, <1>1 DEF RootCells
  <2> QED
    BY <2>2, <2>3, <2>4, <2>5
<1>6. /\ DOMAIN s.pages = DOMAIN t.pages \union {p} /\ p \notin DOMAIN t.pages
      /\ s.pages[p] = Leaf(up) /\ s.pages[r] = t.pages[r]
      /\ \A j \in 1..N : s.pages[K[j]] = Leaf(KeptBy(L, i, lo, j))
  <2>1. /\ DOMAIN s.pages = DOMAIN t.pages \union {p} /\ p \notin DOMAIN t.pages
        /\ s.pages[p] = Leaf(up) /\ s.pages[r] = t.pages[r]
    BY <1>1, <1>3, <1>5 DEF Apart
  <2>2. \A j \in 1..N : s.pages[K[j]] = Leaf(KeptBy(L, i, lo, j))
    <3> SUFFICES ASSUME NEW j \in 1..N PROVE s.pages[K[j]] = Leaf(KeptBy(L, i, lo, j))
      OBVIOUS
    <3>1. CASE j = i
      BY <1>3, <3>1 DEF Apart, KeptBy
    <3>2. CASE j # i
      <4>1. s.pages[K[j]] = t.pages[K[j]]
        BY <1>3, <1>5, <3>2 DEF Apart
      <4> QED
        BY <1>5, <3>2, <4>1 DEF KeptBy
    <3> QED
      BY <3>1, <3>2
  <2> QED
    BY <2>1, <2>2
<1>7. \A j \in 1..N : KeptBy(L, i, lo, j) \in Seq(Keys) /\ Len(KeptBy(L, i, lo, j)) > 0
  BY <1>1, <1>2 DEF KeptBy
<1> HIDE DEF lo, N
<1>8. Cells(s, r) = RootCells(K, D) /\ Count(s, r) = N - 1 /\ UpTo(s, r, up[1]) = UpTo(t, r, up[1])
  BY <1>5, <1>6 DEF Cells, Count, UpTo
<1> HIDE DEF up
<1>9. at \in 1..N /\ Insertion(E, RootCells(K, D), at, cell) /\ Len(E) = N
  <2>1. cell.key = up[1]
    OBVIOUS
  <2>2. Insertion(E, RootCells(K, D), at, cell) /\ at \in 1..N - 1 + 1
    BY <1>4, <1>8, <2>1
  <2>3. Len(RootCells(K, D)) = N - 1
    BY <1>5 DEF Count
  <2>4. Len(E) = N - 1 + 1
    BY <2>2, <2>3 DEF Insertion
  <2>5. N - 1 + 1 = N
    BY <1>1
  <2> HIDE DEF at, cell
  <2> QED
    BY <2>2, <2>4, <2>5
<1>10. \A x \in 1..N : \E y \in 1..N : E[x].child = K[y]
  <2> SUFFICES ASSUME NEW x \in 1..N PROVE \E y \in 1..N : E[x].child = K[y]
    OBVIOUS
  <2> DEFINE c == RootCells(K, D)
  <2>1. Len(c) = N - 1 /\ \A j \in 1..N - 1 : c[j].child = K[j]
    BY <1>5 DEF Count
  <2>2. x \in 1..Len(c) + 1
    BY <1>1, <2>1
  <2>3. E[x] = IF x < at THEN c[x] ELSE IF x = at THEN cell ELSE c[x - 1]
    BY <1>9, <2>2 DEF Insertion
  <2>4. cell.child = K[i]
    OBVIOUS
  <2> HIDE DEF c, at, cell
  <2>5. CASE x < at
    <3>1. x \in 1..N - 1
      BY <1>1, <1>9, <2>5
    <3> QED
      BY <2>1, <2>3, <2>5, <3>1
  <2>6. CASE x = at
    <3>1. E[x].child = K[i]
      BY <1>9, <2>3, <2>4, <2>6
    <3> QED
      BY <1>1, <3>1
  <2>7. CASE ~(x < at) /\ x # at
    <3> DEFINE y == x - 1
    <3>1. y \in 1..N - 1 /\ y \in 1..N
      BY <1>1, <1>9, <2>7
    <3>2. E[x] = c[y]
      BY <2>3, <2>7
    <3> HIDE DEF y
    <3> QED
      BY <2>1, <3>1, <3>2
  <2> QED
    BY <2>5, <2>6, <2>7
<1>11. /\ HalfWays(u, K, L, E)
       /\ ~IsLeaf(u, u.root) /\ Count(u, u.root) = 1 /\ Child(u, u.root, 1) = r /\ Child(u, u.root, 2) = b
       /\ ~IsLeaf(u, r) /\ ~IsLeaf(u, b)
  <2>1. r \in DOMAIN s.pages /\ s.pages[r].right = K[Len(L)] /\ Len(L) \in Nat /\ Len(L) > 1 /\ Len(E) = Len(L)
    BY <1>1, <1>5, <1>6, <1>9 DEF N
  <2> QED
    BY <1>4, <2>1, GraftWays
<1> HIDE DEF at, cell, r
<1>12. \A j \in 1..N : HasKeys(u, K[j], KeptBy(L, i, lo, j)) /\ K[j] \in DOMAIN u.pages
  <2> SUFFICES ASSUME NEW j \in 1..N PROVE HasKeys(u, K[j], KeptBy(L, i, lo, j)) /\ K[j] \in DOMAIN u.pages
    OBVIOUS
  <2>1. K[j] \in DOMAIN s.pages /\ K[j] # r
    BY <1>5, <1>6
  <2>2. u.pages[K[j]] = Leaf(KeptBy(L, i, lo, j)) /\ K[j] \in DOMAIN u.pages
    BY <1>4, <1>6, <2>1 DEF Grafted
  <2> QED
    BY <1>7, <2>2, LeafReads
<1>13. \A h, j : h \in {1, 2} /\ j \in 1..Count(u, Child(u, u.root, h)) + 1 =>
         \E x \in 1..N : LeafOf(u, h, j) = K[x]
  <2>1. Len(L) \in Nat /\ Leads(K, L, E)
    BY <1>1, <1>10 DEF N, Leads
  <2>2. HalfWays(u, K, L, E)
    BY <1>11
  <2> HIDE DEF u
  <2>3. \A h, j : h \in {1, 2} /\ j \in 1..Count(u, Child(u, u.root, h)) + 1 =>
                 \E x \in 1..Len(L) : LeafOf(u, h, j) = K[x]
    BY <2>1, <2>2, WaysLead
  <2> QED
    BY <2>3 DEF N
<1>14. \A q \in DOMAIN u.pages : ~IsLeaf(u, q) => q \in {u.root, r, b}
  <2> SUFFICES ASSUME NEW q \in DOMAIN u.pages, q # u.root, q # r, q # b PROVE IsLeaf(u, q)
    OBVIOUS
  <2>1. q \in DOMAIN s.pages /\ u.pages[q] = s.pages[q]
    BY <1>4 DEF Grafted
  <2>2. CASE q = p
    BY <1>6, <2>1, <2>2 DEF IsLeaf, Leaf
  <2>3. CASE q # p
    <3>1. PICK j \in 1..N : q = K[j]
      BY <1>5, <1>6, <2>1, <2>3
    <3> QED
      BY <1>12, <3>1 DEF HasKeys
  <2> QED
    BY <2>2, <2>3
<1>15. ThreeLevels(u)
  <2>1. 0 \notin DOMAIN u.pages /\ u.root \in DOMAIN u.pages /\ r \in DOMAIN u.pages /\ b \in DOMAIN u.pages
        /\ r # u.root /\ b # u.root
    BY <1>4, <1>5, <1>6 DEF Grafted
  <2>2. \A h \in {1, 2} :
          /\ Child(u, u.root, h) \in DOMAIN u.pages /\ Child(u, u.root, h) # u.root
          /\ ~IsLeaf(u, Child(u, u.root, h))
    BY <1>11, <2>1
  <2>3. \A h \in {1, 2} : Count(u, Child(u, u.root, h)) \in Nat
    <3> DEFINE M == Mid(E)
    <3>1. /\ M \in Nat /\ M > 0 /\ M < N
          /\ Count(u, Child(u, u.root, 1)) = M /\ Count(u, Child(u, u.root, 2)) = N - 1 - M
      BY <1>11 DEF HalfWays, N
    <3> HIDE DEF M
    <3>2. N - 1 - M \in Nat
      BY <1>1, <3>1
    <3> QED
      BY <3>1, <3>2
  <2>4. \A h \in {1, 2} : \A j \in 1..Count(u, Child(u, u.root, h)) + 1 :
          /\ LeafOf(u, h, j) \in DOMAIN u.pages /\ IsLeaf(u, LeafOf(u, h, j))
          /\ Count(u, LeafOf(u, h, j)) \in Nat \ {0}
    <3> SUFFICES ASSUME NEW h \in {1, 2}, NEW j \in 1..Count(u, Child(u, u.root, h)) + 1
                 PROVE  /\ LeafOf(u, h, j) \in DOMAIN u.pages /\ IsLeaf(u, LeafOf(u, h, j))
                        /\ Count(u, LeafOf(u, h, j)) \in Nat \ {0}
      OBVIOUS
    <3>1. PICK x \in 1..N : LeafOf(u, h, j) = K[x]
      BY <1>13
    <3> DEFINE n == Len(KeptBy(L, i, lo, x))
    <3>2. IsLeaf(u, K[x]) /\ Count(u, K[x]) = n /\ K[x] \in DOMAIN u.pages
      BY <1>12 DEF HasKeys
    <3>3. n \in Nat /\ n > 0
      BY <1>7
    <3> HIDE DEF n
    <3>4. n \in Nat \ {0}
      BY <3>3
    <3> QED
      BY <3>1, <3>2, <3>4
  <2>5. \A q \in DOMAIN u.pages : ~IsLeaf(u, q) => q \in {u.root, Child(u, u.root, 1), Child(u, u.root, 2)}
    BY <1>11, <1>14
  <2> QED
    BY <1>11, <2>1, <2>2, <2>3, <2>4, <2>5 DEF ThreeLevels
<1>16. Raising(u, t, K, D, L, i, lo, up, E)
  BY <1>9, <1>11, <1>12, <1>13, <1>15 DEF Raising, N, at, cell, r
<1> QED
  BY <1>16 DEF u, lo, up

(* A key in the upper half of a leaf that is split, and nowhere else.       *)
InUpper(L, i, k) ==
  /\ \E x \in 1..Len(L[i]) : L[i][x] = k
  /\ \A j \in 1..Len(L) : \A x \in 1..Len(L[j]) : L[j][x] = k => j = i /\ x > Mid(L[i])

LEMMA UnlinkedKey ==
  ASSUME NEW t, NEW K, NEW D, NEW L, NEW i, NEW k, NEW R, InTree(t, K, D, L), i \in 1..Len(L), Many(L),
         Len(D) = InteriorCapacity, Len(L[i]) > 1, \A j \in 1..Len(L) : Len(L[j]) > 0,
         R \in SUBSET Keys, k \in R, InUpper(L, i, k)
  PROVE  LET u == Balance(t, PathTo(t, L, i), K[i]) IN ~Lists(Scan(u, First(u)), R)
<1> DEFINE u == Balance(t, PathTo(t, L, i), K[i])
           lo == Lower(L[i])
<1>1. PICK E : Raising(u, t, K, D, L, i, lo, Upper(L[i]), E)
  BY RaisingIs
<1> HIDE DEF u
<1>2. /\ ThreeLevels(u)
      /\ \A j \in 1..Len(L) : HasKeys(u, K[j], KeptBy(L, i, lo, j))
      /\ \A h, j : h \in {1, 2} /\ j \in 1..Count(u, Child(u, u.root, h)) + 1 =>
           \E x \in 1..Len(L) : LeafOf(u, h, j) = K[x]
  BY <1>1 DEF Raising
<1>3. \A j \in 1..Len(L) : L[j] \in Seq(Keys) /\ DOMAIN L[j] = 1..Len(L[j])
  BY ListReads DEF InTree
<1>4. Len(lo) = Mid(L[i]) /\ Len(lo) < Len(L[i]) /\ Len(lo) \in Nat /\ \A x \in 1..Len(lo) : lo[x] = L[i][x]
  BY <1>3, Halves
<1> HIDE DEF lo
<1>5. ASSUME NEW h, NEW j, NEW m, IsSpot(u, h, j, m), SpotKey(u, h, j, m) = k PROVE FALSE
  <2>1. h \in {1, 2} /\ j \in 1..Count(u, Child(u, u.root, h)) + 1 /\ m \in 1..Count(u, LeafOf(u, h, j))
    BY <1>5 DEF IsSpot
  <2>2. PICK y \in 1..Len(L) : LeafOf(u, h, j) = K[y]
    BY <1>2, <2>1
  <2> DEFINE s == KeptBy(L, i, lo, y)
  <2>0. HasKeys(u, K[y], s)
    BY <1>2
  <2> HIDE DEF s
  <2>3. m \in 1..Len(s) /\ s[m] = k
    BY <1>5, <2>0, <2>1, <2>2 DEF HasKeys, SpotKey
  <2>4. CASE y = i
    <3>1. s = lo
      BY <2>4 DEF KeptBy, s
    <3>2. m \in 1..Len(lo) /\ m \in 1..Len(L[i])
      BY <1>3, <1>4, <2>3, <3>1
    <3>3. L[i][m] = k /\ ~(m > Mid(L[i]))
      BY <1>4, <2>3, <3>1, <3>2
    <3> QED
      BY <3>2, <3>3 DEF InUpper
  <2>5. CASE y # i
    <3>1. s = L[y]
      BY <2>5 DEF KeptBy, s
    <3> QED
      BY <2>3, <2>5, <3>1 DEF InUpper
  <2> QED
    BY <2>4, <2>5
<1>6. ~Lists(Scan(u, First(u)), R)
  BY <1>2, <1>5, MissingKey
<1> QED
  BY <1>6 DEF u

(* In leaves whose keys are in order, the last key of the one that is split. *)
LEMMA LastInUpper ==
  ASSUME NEW K, NEW D, NEW L, NEW i, Listed(K, D, L), Ordered(D, L), i \in 1..Len(L), Len(L[i]) > 1
  PROVE  InUpper(L, i, L[i][Len(L[i])]) /\ Len(L[i]) \in 1..Len(L[i])
<1> DEFINE n == Len(L[i])
           k == L[i][n]
<1>1. /\ L[i] \in Seq(Keys) /\ n \in Nat /\ \A j \in 1..Len(L) : DOMAIN L[j] = 1..Len(L[j])
      /\ \A j \in 1..Len(L) : Len(L[j]) \in Nat
  BY ListReads
<1>2. Mid(L[i]) \in Nat /\ Mid(L[i]) < n
  <2>1. Len(Lower(L[i])) = Mid(L[i]) /\ Len(Lower(L[i])) < Len(L[i]) /\ Lower(L[i]) \in Seq(Keys)
    BY <1>1, Halves
  <2> QED
    BY <2>1
<1>3. n \in 1..n /\ n > Mid(L[i])
  <2> HIDE DEF n
  <2>1. n > 1
    BY DEF n
  <2> QED
    BY <1>1, <1>2, <2>1
<1>4. ASSUME NEW j \in 1..Len(L), NEW x \in 1..Len(L[j]), L[j][x] = k PROVE j = i /\ x > Mid(L[i])
  <2> HIDE DEF n
  <2>1. n \in 1..Len(L[i])
    BY <1>3 DEF n
  <2>2. i = j /\ n = x
    BY <1>4, <2>1, OnePlace
  <2> QED
    BY <1>3, <2>2
<1>5. InUpper(L, i, k)
  BY <1>3, <1>4 DEF InUpper
<1> QED
  BY <1>3, <1>5

-----------------------------------------------------------------------------
(* A rowid given twice                                                      *)

(* last() is one leaf short: the number it gives is taken exactly if it is  *)
(* the first key of the last leaf.                                          *)
Taken(D, L, k) ==
  /\ Many(L) /\ k = D[Len(L) - 1] /\ 1 \in 1..Len(L[Len(L)])
  /\ \A j \in 1..Len(L) : \A x \in 1..Len(L[j]) : L[j][x] = k <=> j = Len(L) /\ x = 1

LEMMA TakenIs ==
  ASSUME NEW t, NEW K, NEW D, NEW L, NEW R, TreeOf(t, K, D, L, R), NewRowid(t) \in R
  PROVE  Taken(D, L, NewRowid(t))
<1> DEFINE k == NewRowid(t)
           N == Len(L)
           e == LastLeaf(L)
           n == Len(L[e])
<1>1. InTree(t, K, D, L) /\ Ordered(D, L) /\ Holds(L, R) /\ Listed(K, D, L)
  BY DEF TreeOf, InTree
<1>2. N \in Nat /\ e \in 1..N /\ n \in Nat
  <2>1. e \in 1..N
    BY <1>1, LastIs
  <2> QED
    BY <1>1, <2>1, ListReads
<1>3. PICK j \in 1..N : \E x \in 1..Len(L[j]) : L[j][x] = k
  BY <1>1 DEF Holds
<1>4. PICK x \in 1..Len(L[j]) : L[j][x] = k
  BY <1>3
<1>5. LastEntry(t) = IF n > 0 THEN On(Place(t, K, e, n)) ELSE AtEnd
  BY <1>1, LastIs
<1>6. k = LET c == LastEntry(t) IN IF c.eof THEN 1 ELSE KeyAt(t, c) + 1
  BY DEF NewRowid
<1> HIDE DEF k
<1>7. n > 0
  <2> SUFFICES ASSUME ~(n > 0) PROVE FALSE
    OBVIOUS
  <2>1. ~Many(L)
    BY <1>1, <1>2 DEF Ordered
  <2>2. j = 1 /\ e = 1
    <3>1. N <= 1
      BY <1>1, <2>1, LeafCount
    <3> QED
      BY <1>2, <1>3, <2>1, <3>1
  <2> HIDE DEF e
  <2> QED
    BY <1>2, <1>4, <2>2
<1>8. n \in 1..n
  <2> HIDE DEF n
  <2> QED
    BY <1>2, <1>7
<1> DEFINE g == L[e][n]
<1>9. k = g + 1 /\ g \in Int /\ k \in Int
  <2> DEFINE c == On(Place(t, K, e, n))
  <2>1. ~c.eof /\ KeyAt(t, c) = g
    BY <1>1, <1>2, <1>8, CursorReads
  <2>2. LastEntry(t) = c
    BY <1>5, <1>7
  <2> HIDE DEF c
  <2>3. k = KeyAt(t, c) + 1
    BY <1>6, <2>1, <2>2
  <2>4. g \in Int
    BY <1>1, <1>2, <1>8, KeyBounds
  <2> HIDE DEF g
  <2> QED
    BY <2>1, <2>3, <2>4
<1>10. j > e
  <2> SUFFICES ASSUME ~(j > e) PROVE FALSE
    OBVIOUS
  <2>1. /\ j < e => L[j][x] < L[e][n]
        /\ j = e /\ x < n => L[j][x] < L[e][n]
    BY <1>1, <1>2, <1>3, <1>4, <1>8, KeyOrder
  <2>2. j = e /\ ~(x < n) => L[j][x] = L[e][n]
    <3> SUFFICES ASSUME j = e, ~(x < n) PROVE x = n
      OBVIOUS
    <3>1. x \in 1..n
      BY <1>4
    <3> HIDE DEF n
    <3> QED
      BY <1>2, <3>1
  <2>3. L[j][x] = g + 1 /\ g = L[e][n]
    BY <1>4, <1>9
  <2> HIDE DEF g, e, n
  <2>4. j < e \/ j = e
    BY <1>2, <1>3
  <2> QED
    BY <1>9, <2>1, <2>2, <2>3, <2>4
<1>11. Many(L) /\ N > 1 /\ j = N /\ e = N - 1
  <2>1. Many(L)
    <3> SUFFICES ASSUME ~Many(L) PROVE FALSE
      OBVIOUS
    <3>1. N <= 1
      BY <1>1, LeafCount
    <3> HIDE DEF e
    <3> QED
      BY <1>2, <1>3, <1>10, <3>1
  <2>2. e = N - 1 /\ N > 1
    BY <1>1, <2>1, LeafCount DEF LastLeaf
  <2> HIDE DEF e
  <2> QED
    BY <1>2, <1>3, <1>10, <2>1, <2>2
<1>12. x \in Nat /\ 1 \in 1..Len(L[N]) /\ L[N][1] \in Int /\ D[N - 1] \in Int
  <2>1. x \in Nat /\ 1 \in 1..Len(L[N])
    BY <1>4, <1>11
  <2>2. L[N][1] \in Int
    BY <1>1, <1>2, <1>11, <2>1, KeyBounds
  <2>3. N - 1 \in 1..N - 1
    BY <1>2, <1>11
  <2>4. D[N - 1] \in Int
    BY <1>1, <2>3, DividersOrdered
  <2> QED
    BY <2>1, <2>2, <2>4
<1>13. g < D[N - 1]
  <2>1. /\ e \in 1..Len(L) /\ n \in Nat /\ n \in 1..Len(L[e]) /\ e < Len(L)
    BY <1>2, <1>8, <1>11
  <2>2. L[e][n] < D[e]
    BY <1>1, <2>1 DEF Ordered
  <2> QED
    BY <1>11, <2>2
<1>14. D[N - 1] <= L[N][1]
  BY <1>1, <1>2, <1>11, <1>12 DEF Ordered
<1>15. L[N][1] <= k
  <2>1. CASE x = 1
    BY <1>4, <1>11, <1>12, <2>1
  <2>2. CASE x # 1
    <3>1. 1 < x
      BY <1>4, <2>2
    <3>2. L[N][1] < L[N][x]
      BY <1>1, <1>2, <1>4, <1>11, <1>12, <3>1, KeyOrder
    <3> QED
      BY <1>4, <1>9, <1>11, <1>12, <3>2
  <2> QED
    BY <2>1, <2>2
<1>16. k = D[N - 1] /\ L[N][1] = k
  <2> HIDE DEF g
  <2> QED
    BY <1>9, <1>12, <1>13, <1>14, <1>15
<1>17. ASSUME NEW i \in 1..N, NEW y \in 1..Len(L[i]), L[i][y] = k PROVE i = N /\ y = 1
  <2>1. N \in 1..N /\ L[i][y] = L[N][1]
    BY <1>2, <1>11, <1>16, <1>17
  <2> QED
    BY <1>1, <1>12, <1>17, <2>1, OnePlace
<1>18. \A i \in 1..N : \A y \in 1..Len(L[i]) : L[i][y] = k <=> i = N /\ y = 1
  BY <1>16, <1>17
<1>19. Taken(D, L, k)
  BY <1>11, <1>12, <1>16, <1>18 DEF Taken
<1> QED
  BY <1>19 DEF k

(* The way down for it leads to its place, and puts it there once more.     *)
LEMMA TakenWay ==
  ASSUME NEW K, NEW D, NEW L, NEW i, NEW m, NEW k \in Int, Listed(K, D, L), Ordered(D, L), Taken(D, L, k),
         i \in 1..Len(L), IndexIn(L[i], m, k), i > 1 => D[i - 1] <= k, i < Len(L) => k < D[i]
  PROVE  i = Len(L) /\ m = 1
<1> DEFINE N == Len(L)
<1>1. N \in 1..N /\ 1 \in 1..Len(L[N]) /\ L[N][1] = k
  <2>1. N \in Nat /\ N > 1
    BY ListReads DEF Taken, Many
  <2>2. N \in 1..N
    BY <2>1
  <2> QED
    BY <2>2 DEF Taken
<1>2. i = N
  <2> HIDE DEF N
  <2>1. /\ N \in 1..Len(L) /\ i \in 1..Len(L) /\ k = L[N][1]
        /\ i > 1 => D[i - 1] <= k
        /\ i < Len(L) => k < D[i]
    BY <1>1 DEF N
  <2> QED
    BY <1>1, <2>1, SameLeaf
<1>3. m \in 1..Len(L[N]) + 1 /\ (L[N][1] < k <=> 1 < m)
  BY <1>1, <1>2 DEF IndexIn
<1>4. Len(L[N]) \in Nat
  BY <1>1, ListReads
<1> HIDE DEF N
<1>5. m = 1
  BY <1>1, <1>3, <1>4
<1> QED
  BY <1>2, <1>5 DEF N

(* The first two keys of the last leaf are the same.                        *)
Doubled(L, k) ==
  /\ Many(L) /\ Len(L[Len(L)]) > 1 /\ \A j \in 1..Len(L) : Len(L[j]) > 0
  /\ \A j \in 1..Len(L) : \A x \in 1..Len(L[j]) : L[j][x] = k <=> j = Len(L) /\ x \in {1, 2}

LEMMA TakenPut ==
  ASSUME NEW K, NEW D, NEW L, NEW L1, NEW k \in Int, Listed(K, D, L), Ordered(D, L), Taken(D, L, k),
         PutTree(K, D, L, L1, Len(L), 1, k)
  PROVE  Doubled(L1, k)
<1> DEFINE N == Len(L)
           n == Len(L[N])
<1>1. /\ N \in Nat /\ N > 1 /\ N \in 1..N /\ 1 \in 1..n /\ n \in Nat
  <2>1. N \in Nat /\ N > 1 /\ 1 \in 1..n
    BY ListReads DEF Taken, Many
  <2>2. N \in 1..N
    BY <2>1
  <2>3. n \in Nat
    BY <2>2, ListReads
  <2> QED
    BY <2>1, <2>2, <2>3
<1>2. /\ Len(L1) = N /\ Many(L1) /\ Len(L1[N]) = n + 1 /\ Listed(K, D, L1)
      /\ \A j \in 1..N : j # N => L1[j] = L[j]
      /\ \A x \in 1..n + 1 : L1[N][x] = IF x < 1 THEN L[N][x] ELSE IF x = 1 THEN k ELSE L[N][x - 1]
  BY <1>1 DEF PutTree, Insertion, Taken
<1>3. \A j \in 1..N : \A x \in 1..Len(L[j]) : L[j][x] = k <=> j = N /\ x = 1
  BY DEF Taken
<1>4. Many(L) /\ \A j \in 1..N : Len(L[j]) > 0
  BY DEF Ordered, Taken
<1>5. \A j \in 1..N : j # N => Len(L1[j]) > 0
  BY <1>2, <1>4
<1> HIDE DEF N
<1>6. n + 1 > 1 /\ n + 1 > 0
  <2> HIDE DEF n
  <2> QED
    BY <1>1
<1>7. \A j \in 1..N : Len(L1[j]) > 0
  <2> SUFFICES ASSUME NEW j \in 1..N PROVE Len(L1[j]) > 0
    OBVIOUS
  <2>1. CASE j = N
    <3>1. Len(L1[j]) = n + 1
      BY <1>2, <2>1
    <3> HIDE DEF n
    <3> QED
      BY <1>6, <3>1
  <2> QED
    BY <1>5, <2>1
<1>8. \A j \in 1..N : \A x \in 1..Len(L1[j]) : L1[j][x] = k <=> j = N /\ x \in {1, 2}
  <2> SUFFICES ASSUME NEW j \in 1..N, NEW x \in 1..Len(L1[j]) PROVE L1[j][x] = k <=> j = N /\ x \in {1, 2}
    OBVIOUS
  <2>1. CASE j # N
    BY <1>2, <1>3, <2>1
  <2>2. CASE j = N
    <3>1. x \in 1..n + 1
      BY <1>2, <2>2
    <3>2. CASE x = 1
      <4>1. L1[N][x] = k
        BY <1>2, <3>1, <3>2
      <4> QED
        BY <2>2, <3>2, <4>1
    <3>3. CASE x # 1
      <4> DEFINE y == x - 1
      <4>1. y \in 1..n /\ ~(x < 1) /\ (y = 1 <=> x = 2)
        BY <1>1, <3>1, <3>3
      <4>2. L1[N][x] = L[N][y]
        BY <1>2, <3>1, <3>3, <4>1
      <4> HIDE DEF y, n
      <4>3. y \in 1..Len(L[N])
        BY <4>1 DEF n
      <4>4. L[N][y] = k <=> y = 1
        BY <1>1, <1>3, <4>3
      <4> QED
        BY <2>2, <3>3, <4>1, <4>2, <4>4
    <3> QED
      BY <3>2, <3>3
  <2> QED
    BY <2>1, <2>2
<1>9. Len(L1[N]) > 1
  <2> HIDE DEF n
  <2> QED
    BY <1>2, <1>6
<1>10. Doubled(L1, k)
  BY <1>2, <1>7, <1>8, <1>9 DEF Doubled
<1> QED
  BY <1>10

(* A key that is in two places that a scan comes to one after the other, the*)
(* first of them not its first row.                                         *)
Twin(L, k, a, x) ==
  /\ a \in 1..Len(L) /\ x \in 1..Len(L[a]) /\ ~(a = 1 /\ x = 1)
  /\ x < Len(L[a]) \/ a < Len(L)
  /\ \A j \in 1..Len(L) : \A y \in 1..Len(L[j]) :
       L[j][y] = k <=> \/ j = a /\ y = x
                       \/ x < Len(L[a]) /\ j = a /\ y = x + 1
                       \/ ~(x < Len(L[a])) /\ j = a + 1 /\ y = 1

LEMMA PlaceIsAt ==
  ASSUME NEW t, NEW K, NEW D, NEW L, NEW i, NEW m, NEW k,
         InTree(t, K, D, L), i \in 1..Len(L), m \in 1..Len(L[i])
  PROVE  IsAt(t, On(Place(t, K, i, m)), k) <=> L[i][m] = k
<1> DEFINE c == On(Place(t, K, i, m))
<1>1. ~c.eof /\ KeyAt(t, c) = L[i][m]
  BY CursorReads
<1> HIDE DEF c
<1>2. IsAt(t, c, k) <=> L[i][m] = k
  BY <1>1 DEF IsAt
<1> QED
  BY <1>2 DEF c

LEMMA TwinMoves ==
  ASSUME NEW t, NEW K, NEW D, NEW L, NEW k, NEW a, NEW x, NEW i, NEW m, InTree(t, K, D, L),
         \A j \in 1..Len(L) : Len(L[j]) > 0, Twin(L, k, a, x), i \in 1..Len(L), m \in 1..Len(L[i]),
         ~IsAt(t, On(Place(t, K, i, m)), k), IsAt(t, Advance(t, On(Place(t, K, i, m))), k)
  PROVE  IsAt(t, Advance(t, Advance(t, On(Place(t, K, i, m)))), k)
<1> DEFINE c(j, y) == On(Place(t, K, j, y))
           N == Len(L)
           n == Len(L[a])
<1>1. /\ N \in Nat /\ a \in 1..N /\ x \in 1..n /\ n \in Nat /\ (x < n \/ a < N)
      /\ \A j \in 1..N : Len(L[j]) \in Nat /\ Len(L[j]) > 0
  <2>1. N \in Nat /\ \A j \in 1..N : Len(L[j]) \in Nat
    BY ListReads DEF InTree
  <2> QED
    BY <2>1 DEF Twin
<1>2. \A j \in 1..N : \A y \in 1..Len(L[j]) :
        L[j][y] = k <=> \/ j = a /\ y = x
                        \/ x < n /\ j = a /\ y = x + 1
                        \/ ~(x < n) /\ j = a + 1 /\ y = 1
  BY DEF Twin
<1>3. \A j \in 1..N : \A y \in 1..Len(L[j]) : IsAt(t, c(j, y), k) <=> L[j][y] = k
  BY PlaceIsAt
<1>4. \A j \in 1..N : \A y \in 1..Len(L[j]) :
        Advance(t, c(j, y)) = IF y < Len(L[j]) THEN c(j, y + 1)
                              ELSE IF j < N THEN c(j + 1, 1) ELSE AtEnd
  BY AdvanceIs
<1>5. /\ ~IsAt(t, c(i, m), k)
      /\ IsAt(t, Advance(t, c(i, m)), k)
      /\ i \in 1..N /\ m \in 1..Len(L[i])
  OBVIOUS
<1>6. ~IsAt(t, AtEnd, k)
  BY EndIs DEF IsAt
<1> SUFFICES IsAt(t, Advance(t, Advance(t, c(i, m))), k)
  OBVIOUS
<1> HIDE DEF c, N, n
<1>7. L[i][m] # k
  BY <1>3, <1>5
<1>8. IsAt(t, Advance(t, c(a, x)), k)
  <2>1. CASE x < n
    <3> DEFINE y == x + 1
    <3>1. y \in 1..n
      BY <1>1, <2>1
    <3>2. Advance(t, c(a, x)) = c(a, y) /\ L[a][y] = k
      BY <1>1, <1>2, <1>4, <2>1, <3>1 DEF n
    <3> HIDE DEF y
    <3> QED
      BY <1>1, <1>3, <3>1, <3>2 DEF n
  <2>2. CASE ~(x < n)
    <3> DEFINE j == a + 1
    <3>1. j \in 1..N /\ a < N
      BY <1>1, <2>2
    <3>2. Advance(t, c(a, x)) = c(j, 1)
      BY <1>1, <1>4, <2>2, <3>1 DEF n
    <3>3. 1 \in 1..Len(L[j])
      <4> HIDE DEF j
      <4> QED
        BY <1>1, <3>1
    <3>4. L[j][1] = k
      BY <1>2, <2>2, <3>1, <3>3
    <3> HIDE DEF j
    <3> QED
      BY <1>3, <3>1, <3>2, <3>3, <3>4
  <2> QED
    BY <2>1, <2>2
<1>9. L[a][x] = k
  BY <1>1, <1>2 DEF n
<1>10. CASE m < Len(L[i])
  <2> DEFINE y == m + 1
  <2>1. y \in 1..Len(L[i]) /\ y > 1
    BY <1>1, <1>5, <1>10
  <2>2. Advance(t, c(i, m)) = c(i, y)
    BY <1>4, <1>5, <1>10
  <2>3. L[i][y] = k
    <3> HIDE DEF y
    <3> QED
      BY <1>3, <1>5, <2>1, <2>2
  <2>4. ~(x < n /\ i = a /\ y = x + 1)
    <3> SUFFICES ASSUME i = a, y = x + 1 PROVE FALSE
      OBVIOUS
    <3>1. m = x
      BY <1>1, <1>5
    <3> HIDE DEF y
    <3> QED
      BY <1>7, <1>9, <3>1
  <2> HIDE DEF y
  <2>5. y # 1
    BY <2>1
  <2>6. i = a /\ y = x
    BY <1>2, <1>5, <2>1, <2>3, <2>4, <2>5
  <2> QED
    BY <1>8, <2>2, <2>6
<1>11. CASE ~(m < Len(L[i])) /\ i < N
  <2> DEFINE j == i + 1
  <2>1. j \in 1..N /\ j > 1
    BY <1>1, <1>5, <1>11
  <2>2. Advance(t, c(i, m)) = c(j, 1)
    BY <1>4, <1>5, <1>11
  <2>3. 1 \in 1..Len(L[j])
    <3> HIDE DEF j
    <3> QED
      BY <1>1, <2>1
  <2>4. L[j][1] = k
    <3> HIDE DEF j
    <3> QED
      BY <1>3, <1>5, <2>1, <2>2, <2>3
  <2>5. ~(~(x < n) /\ j = a + 1)
    <3> SUFFICES ASSUME ~(x < n), j = a + 1 PROVE FALSE
      OBVIOUS
    <3>1. i = a
      BY <1>1, <1>5
    <3>2. m \in 1..n /\ ~(m < n)
      BY <1>5, <1>11, <3>1 DEF n
    <3>3. m = x
      BY <1>1, <3>2
    <3> QED
      BY <1>7, <1>9, <3>1, <3>3
  <2> HIDE DEF j
  <2>6. 1 # x + 1
    BY <1>1
  <2>7. j = a /\ 1 = x
    BY <1>2, <2>1, <2>3, <2>4, <2>5, <2>6
  <2> QED
    BY <1>8, <2>2, <2>7
<1>12. CASE ~(m < Len(L[i])) /\ ~(i < N)
  <2>1. Advance(t, c(i, m)) = AtEnd
    BY <1>4, <1>5, <1>12
  <2> QED
    BY <1>5, <1>6, <2>1
<1> QED
  BY <1>10, <1>11, <1>12

LEMMA TwinListed ==
  ASSUME NEW t, NEW K, NEW D, NEW L, NEW k, NEW a, NEW x, NEW R, InTree(t, K, D, L),
         \A j \in 1..Len(L) : Len(L[j]) > 0, Twin(L, k, a, x), R \in SUBSET Keys, k \in R
  PROVE  ~Lists(Scan(t, First(t)), R)
<1> DEFINE C == Cursors(t, K, L)
<1>1. \A c \in C : Advance(t, c) \in C
  <2> SUFFICES ASSUME NEW c \in C PROVE Advance(t, c) \in C
    OBVIOUS
  <2>1. CASE c = AtEnd
    BY <2>1, EndIs, CursorsAre
  <2>2. CASE OnKey(t, K, L, c)
    <3>1. PICK i \in 1..Len(L) : \E m \in 1..Len(L[i]) : c = On(Place(t, K, i, m))
      BY <2>2 DEF OnKey
    <3>2. PICK m \in 1..Len(L[i]) : c = On(Place(t, K, i, m))
      BY <3>1
    <3>3. Advance(t, c) = IF m < Len(L[i]) THEN On(Place(t, K, i, m + 1))
                          ELSE IF i < Len(L) THEN On(Place(t, K, i + 1, 1)) ELSE AtEnd
      <4>1. Advance(t, On(Place(t, K, i, m))) =
              IF m < Len(L[i]) THEN On(Place(t, K, i, m + 1))
              ELSE IF i < Len(L) THEN On(Place(t, K, i + 1, 1)) ELSE AtEnd
        BY AdvanceIs
      <4> QED
        BY <3>2, <4>1
    <3>4. Len(L) \in Nat /\ \A j \in 1..Len(L) : Len(L[j]) \in Nat
      BY ListReads DEF InTree
    <3>5. CASE m < Len(L[i])
      <4> DEFINE y == m + 1
      <4>1. y \in 1..Len(L[i]) /\ Advance(t, c) = On(Place(t, K, i, y))
        BY <3>3, <3>4, <3>5
      <4> HIDE DEF y
      <4>2. OnKey(t, K, L, Advance(t, c))
        BY <4>1 DEF OnKey
      <4> QED
        BY <4>2, CursorsAre
    <3>6. CASE ~(m < Len(L[i])) /\ i < Len(L)
      <4> DEFINE j == i + 1
      <4>1. j \in 1..Len(L) /\ Advance(t, c) = On(Place(t, K, j, 1))
        BY <3>3, <3>4, <3>6
      <4> HIDE DEF j
      <4>2. 1 \in 1..Len(L[j])
        BY <3>4, <4>1
      <4>3. OnKey(t, K, L, Advance(t, c))
        BY <4>1, <4>2 DEF OnKey
      <4> QED
        BY <4>3, CursorsAre
    <3>7. CASE ~(m < Len(L[i])) /\ ~(i < Len(L))
      BY <3>3, <3>7, CursorsAre
    <3> QED
      BY <3>5, <3>6, <3>7
  <2> QED
    BY <2>1, <2>2, CursorsAre
<1>2. 1 \in 1..Len(L) /\ 1 \in 1..Len(L[1])
  <2>1. Len(L) \in Nat /\ Len(L) > 0 /\ \A j \in 1..Len(L) : Len(L[j]) \in Nat
    BY ListReads DEF InTree
  <2>2. 1 \in 1..Len(L)
    BY <2>1
  <2> QED
    BY <2>1, <2>2
<1>3. First(t) = On(Place(t, K, 1, 1)) /\ First(t) \in C
  <2>1. First(t) = On(Place(t, K, 1, 1))
    BY <1>2, FirstIs
  <2>2. OnKey(t, K, L, First(t))
    BY <1>2, <2>1 DEF OnKey
  <2> QED
    BY <2>1, <2>2, CursorsAre
<1>4. IsAt(t, First(t), k) => IsAt(t, Advance(t, First(t)), k)
  <2> SUFFICES ASSUME IsAt(t, First(t), k) PROVE IsAt(t, Advance(t, First(t)), k)
    OBVIOUS
  <2> DEFINE c == On(Place(t, K, 1, 1))
             n == Len(L[a])
  <2>1. KeyAt(t, c) = L[1][1]
    BY <1>2, CursorReads
  <2>2. L[1][1] = k
    <3> HIDE DEF c
    <3> QED
      BY <1>3, <2>1 DEF IsAt, c
  <2>3. a \in 1..Len(L) /\ x \in 1..n /\ ~(a = 1 /\ x = 1)
        /\ (\/ 1 = a /\ 1 = x
            \/ x < n /\ 1 = a /\ 1 = x + 1
            \/ ~(x < n) /\ 1 = a + 1 /\ 1 = 1)
    BY <1>2, <2>2 DEF Twin
  <2> HIDE DEF n
  <2> QED
    BY <2>3
<1>5. \A c \in C : ~c.eof /\ ~IsAt(t, c, k) /\ IsAt(t, Advance(t, c), k) =>
        IsAt(t, Advance(t, Advance(t, c)), k)
  <2> SUFFICES ASSUME NEW c \in C, ~c.eof, ~IsAt(t, c, k), IsAt(t, Advance(t, c), k)
               PROVE  IsAt(t, Advance(t, Advance(t, c)), k)
    OBVIOUS
  <2>1. OnKey(t, K, L, c)
    BY EndIs, CursorsAre
  <2>2. PICK i \in 1..Len(L) : \E m \in 1..Len(L[i]) : c = On(Place(t, K, i, m))
    BY <2>1 DEF OnKey
  <2>3. PICK m \in 1..Len(L[i]) : c = On(Place(t, K, i, m))
    BY <2>2
  <2> QED
    BY <2>2, <2>3, TwinMoves
<1>6. Comes(t, C, First(t), k)
  BY <1>1, <1>4, <1>5 DEF Comes
<1> HIDE DEF C
<1> QED
  BY <1>3, <1>6, Unlisted

LEMMA DoubledReads ==
  ASSUME NEW K, NEW D, NEW L, NEW k, Listed(K, D, L), Doubled(L, k)
  PROVE  LET N == Len(L)
         IN  /\ N \in Nat /\ N > 1 /\ N \in 1..N /\ Len(L[N]) \in Nat /\ Len(L[N]) > 1
             /\ \A j \in 1..N : L[j] \in Seq(Keys) /\ Len(L[j]) \in Nat /\ Len(L[j]) > 0
             /\ \A j \in 1..N : \A x \in 1..Len(L[j]) : L[j][x] = k <=> j = N /\ x \in {1, 2}
             /\ L[N][1] = k /\ L[N][2] = k
<1> DEFINE N == Len(L)
<1>1. N \in Nat /\ \A j \in 1..N : L[j] \in Seq(Keys) /\ Len(L[j]) \in Nat
  BY ListReads
<1>2. /\ N > 1 /\ Len(L[N]) > 1 /\ \A j \in 1..N : Len(L[j]) > 0
      /\ \A j \in 1..N : \A x \in 1..Len(L[j]) : L[j][x] = k <=> j = N /\ x \in {1, 2}
  BY DEF Doubled, Many
<1> HIDE DEF N
<1>3. N \in 1..N
  BY <1>1, <1>2
<1>4. 1 \in 1..Len(L[N]) /\ 2 \in 1..Len(L[N])
  BY <1>1, <1>2, <1>3
<1>5. L[N][1] = k /\ L[N][2] = k
  BY <1>2, <1>3, <1>4
<1> QED
  BY <1>1, <1>2, <1>3, <1>5 DEF N

(* The leaf has room for it.                                                *)
LEMMA DoubledKept ==
  ASSUME NEW t, NEW K, NEW D, NEW L, NEW k, NEW R, InTree(t, K, D, L), Doubled(L, k),
         R \in SUBSET Keys, k \in R
  PROVE  ~Lists(Scan(t, First(t)), R)
<1> DEFINE N == Len(L)
<1>1. /\ N \in Nat /\ N > 1 /\ N \in 1..N /\ Len(L[N]) \in Nat /\ Len(L[N]) > 1
      /\ \A j \in 1..N : Len(L[j]) > 0
      /\ \A j \in 1..N : \A x \in 1..Len(L[j]) : L[j][x] = k <=> j = N /\ x \in {1, 2}
  BY DoubledReads DEF InTree
<1>2. Twin(L, k, N, 1)
  <2>1. 1 \in 1..Len(L[N]) /\ 1 < Len(L[N])
    <3> HIDE DEF N
    <3> QED
      BY <1>1
  <2>2. \A j \in 1..N : \A y \in 1..Len(L[j]) :
          L[j][y] = k <=> \/ j = N /\ y = 1
                          \/ 1 < Len(L[N]) /\ j = N /\ y = 1 + 1
                          \/ ~(1 < Len(L[N])) /\ j = N + 1 /\ y = 1
    <3> SUFFICES ASSUME NEW j \in 1..N, NEW y \in 1..Len(L[j])
                 PROVE L[j][y] = k <=> \/ j = N /\ y = 1
                                       \/ 1 < Len(L[N]) /\ j = N /\ y = 1 + 1
                                       \/ ~(1 < Len(L[N])) /\ j = N + 1 /\ y = 1
      OBVIOUS
    <3>1. L[j][y] = k <=> j = N /\ y \in {1, 2}
      BY <1>1
    <3> HIDE DEF N
    <3> QED
      BY <2>1, <3>1
  <2>3. ~(N = 1)
    BY <1>1
  <2> QED
    BY <1>1, <2>1, <2>2, <2>3 DEF Twin
<1> QED
  BY <1>1, <1>2, TwinListed

(* The leaf is split.                                                       *)
LEMMA DoubledDivided ==
  ASSUME NEW u, NEW K, NEW D, NEW L, NEW K2, NEW D2, NEW L2, NEW k, NEW R, Listed(K, D, L), Doubled(L, k),
         Divided(u, K, D, L, K2, D2, L2, Len(L)), R \in SUBSET Keys, k \in R
  PROVE  ~Lists(Scan(u, First(u)), R)
<1> DEFINE N == Len(L)
<1>1. /\ N \in Nat /\ N > 1 /\ N \in 1..N /\ Len(L[N]) \in Nat /\ Len(L[N]) > 1
      /\ \A j \in 1..N : Len(L[j]) > 0
      /\ \A j \in 1..N : \A x \in 1..Len(L[j]) : L[j][x] = k <=> j = N /\ x \in {1, 2}
  BY DoubledReads
<1>2. PICK p, lo, up : /\ InTree(u, K2, D2, L2)
                       /\ Split(K, D, L, K2, D2, L2, N, p, lo, up)
                       /\ SplitReads(K, D, L, K2, D2, L2, N, p, lo, up)
  BY DEF Divided
<1> DEFINE a == Len(lo)
           b == Len(up)
<1>3. /\ a \in Nat /\ b \in Nat /\ a > 0 /\ b > 0 /\ Len(L[N]) = a + b
      /\ \A x \in 1..a : lo[x] = L[N][x]
      /\ \A x \in 1..b : up[x] = L[N][a + x]
  BY <1>2 DEF Split
<1>4. /\ Len(L2) = N + 1
      /\ \A j \in 1..N + 1 : /\ j < N => L2[j] = L[j]
                             /\ j = N => L2[j] = lo
                             /\ j = N + 1 => L2[j] = up
  BY <1>2 DEF SplitReads
<1>5. N \in 1..N + 1 /\ N + 1 \in 1..N + 1 /\ ~(N + 1 < N) /\ N + 1 # N /\ N < N + 1 /\ ~(N = 1)
      /\ \A j \in 1..N + 1 : (j \in 1..N /\ j < N) \/ j = N \/ j = N + 1
  <2> HIDE DEF N
  <2> QED
    BY <1>1
<1>6. L2[N] = lo /\ L2[N + 1] = up /\ \A j \in 1..N : j < N => L2[j] = L[j]
  <2>1. \A j \in 1..N : j \in 1..N + 1
    <3> HIDE DEF N
    <3> QED
      BY <1>1
  <2> HIDE DEF N
  <2> QED
    BY <1>4, <1>5, <2>1
<1>7. \A j \in 1..N + 1 : Len(L2[j]) > 0
  <2> SUFFICES ASSUME NEW j \in 1..N + 1 PROVE Len(L2[j]) > 0
    OBVIOUS
  <2> HIDE DEF N
  <2> QED
    BY <1>1, <1>3, <1>5, <1>6
<1>8. \A x \in 1..a : lo[x] = k <=> x \in {1, 2}
  <2> SUFFICES ASSUME NEW x \in 1..a PROVE lo[x] = k <=> x \in {1, 2}
    OBVIOUS
  <2> HIDE DEF a, b, N
  <2>1. x \in 1..Len(L[N])
    BY <1>1, <1>3
  <2> QED
    BY <1>1, <1>3, <2>1
<1>9. \A x \in 1..b : up[x] = k <=> a + x \in {1, 2}
  <2> SUFFICES ASSUME NEW x \in 1..b PROVE up[x] = k <=> a + x \in {1, 2}
    OBVIOUS
  <2> DEFINE y == a + x
  <2> HIDE DEF a, b, N
  <2>1. y \in 1..Len(L[N])
    BY <1>1, <1>3
  <2>2. up[x] = L[N][y]
    BY <1>3
  <2> HIDE DEF y
  <2>3. L[N][y] = k <=> y \in {1, 2}
    BY <1>1, <2>1
  <2> QED
    BY <2>2, <2>3 DEF y
<1>10. \A j \in 1..N : j < N => \A y \in 1..Len(L2[j]) : L2[j][y] # k
  <2> SUFFICES ASSUME NEW j \in 1..N, j < N, NEW y \in 1..Len(L2[j]) PROVE L2[j][y] # k
    OBVIOUS
  <2>1. L2[j] = L[j] /\ j # N
    BY <1>1, <1>6
  <2> HIDE DEF N
  <2> QED
    BY <1>1, <2>1
<1>11. \A j \in 1..N + 1 : \A y \in 1..Len(L2[j]) :
         L2[j][y] = k <=> \/ j = N /\ y = 1
                          \/ 1 < a /\ j = N /\ y = 1 + 1
                          \/ ~(1 < a) /\ j = N + 1 /\ y = 1
  <2> SUFFICES ASSUME NEW j \in 1..N + 1, NEW y \in 1..Len(L2[j])
               PROVE  L2[j][y] = k <=> \/ j = N /\ y = 1
                                       \/ 1 < a /\ j = N /\ y = 1 + 1
                                       \/ ~(1 < a) /\ j = N + 1 /\ y = 1
    OBVIOUS
  <2>1. CASE j \in 1..N /\ j < N
    <3>1. j # N /\ j # N + 1
      <4> HIDE DEF N
      <4> QED
        BY <1>1, <2>1
    <3> HIDE DEF N
    <3> QED
      BY <1>10, <2>1, <3>1
  <2>2. CASE j = N
    <3>1. y \in 1..a /\ (L2[j][y] = k <=> y \in {1, 2})
      <4> HIDE DEF N
      <4> QED
        BY <1>6, <1>8, <2>2
    <3> HIDE DEF N, a
    <3> QED
      BY <1>3, <1>5, <2>2, <3>1
  <2>3. CASE j = N + 1
    <3>1. y \in 1..b /\ (L2[j][y] = k <=> a + y \in {1, 2})
      <4> HIDE DEF N
      <4> QED
        BY <1>6, <1>9, <2>3
    <3>2. (a + y \in {1, 2}) <=> ~(1 < a) /\ y = 1
      <4> HIDE DEF a, b
      <4> QED
        BY <1>3, <3>1
    <3> HIDE DEF N, a
    <3> QED
      BY <1>5, <2>3, <3>1, <3>2
  <2> QED
    BY <1>5, <2>1, <2>2, <2>3
<1>12. Twin(L2, k, N, 1)
  <2>1. 1 \in 1..a
    <3> HIDE DEF a
    <3> QED
      BY <1>3
  <2>2. Len(L2[N]) = a
    BY <1>6
  <2> HIDE DEF N, a
  <2> QED
    BY <1>4, <1>5, <1>11, <2>1, <2>2 DEF Twin
<1>13. \A j \in 1..Len(L2) : Len(L2[j]) > 0
  BY <1>4, <1>7
<1> QED
  BY <1>2, <1>12, <1>13, TwinListed

(* The leaf is split, and so is the page above it.  Unless the leaf has only*)
(* the two, its last key goes to a page that is linked nowhere.             *)
LEMMA DoubledUnlinked ==
  ASSUME NEW K, NEW D, NEW L, NEW L1, NEW k \in Int, Listed(K, D, L), Ordered(D, L), Taken(D, L, k),
         PutTree(K, D, L, L1, Len(L), 1, k), Len(L1[Len(L)]) > 2
  PROVE  \E z : /\ InUpper(L1, Len(L), z)
                /\ \E x \in 1..Len(L[Len(L)]) : L[Len(L)][x] = z
<1> DEFINE N == Len(L)
           n == Len(L[N])
           z == L[N][n]
<1>1. /\ N \in Nat /\ N > 1 /\ N \in 1..N /\ 1 \in 1..n /\ n \in Nat /\ L[N][1] = k
  <2>1. N \in Nat /\ N > 1 /\ 1 \in 1..n
    BY ListReads DEF Taken, Many
  <2>2. N \in 1..N
    BY <2>1
  <2>3. n \in Nat /\ L[N][1] = k
    BY <2>1, <2>2, ListReads DEF Taken
  <2> QED
    BY <2>1, <2>2, <2>3
<1>2. /\ Len(L1) = N /\ Len(L1[N]) = n + 1 /\ Listed(K, D, L1)
      /\ \A j \in 1..N : j # N => L1[j] = L[j]
      /\ \A x \in 1..n + 1 : L1[N][x] = IF x < 1 THEN L[N][x] ELSE IF x = 1 THEN k ELSE L[N][x - 1]
  BY <1>1 DEF PutTree, Insertion
<1>3. L1[N] \in Seq(Keys)
  BY <1>1, <1>2, ListReads
<1>4. Len(L1[N]) > 2
  OBVIOUS
<1> HIDE DEF N
<1>5. n + 1 > 2 /\ n \in 1..n /\ n # 1
  <2>1. n + 1 > 2
    BY <1>2, <1>4
  <2> HIDE DEF n
  <2> QED
    BY <1>1, <2>1
<1>6. Mid(L1[N]) \in Nat /\ Mid(L1[N]) < n + 1
  <2>1. Len(L1[N]) > 1
    BY <1>2, <1>4, <1>5
  <2>2. Len(Lower(L1[N])) = Mid(L1[N]) /\ Len(Lower(L1[N])) < Len(L1[N]) /\ Lower(L1[N]) \in Seq(Keys)
    BY <1>3, <2>1, Halves
  <2> QED
    BY <1>2, <2>2
<1>7. ASSUME NEW j \in 1..N, NEW x \in 1..Len(L[j]), L[j][x] = z PROVE j = N /\ x = n
  <2>1. N \in 1..Len(L) /\ n \in 1..Len(L[N]) /\ j \in 1..Len(L)
    BY <1>1, <1>5 DEF N
  <2> HIDE DEF n
  <2> QED
    BY <1>7, <2>1, OnePlace
<1>8. z # k
  <2>1. 1 \in 1..Len(L[N])
    BY <1>1
  <2> HIDE DEF z
  <2> QED
    BY <1>1, <1>5, <1>7, <2>1
<1>9. ASSUME NEW j \in 1..N, NEW x \in 1..Len(L1[j]), L1[j][x] = z PROVE j = N /\ x = n + 1
  <2>1. j = N
    <3> SUFFICES ASSUME j # N PROVE FALSE
      OBVIOUS
    <3>1. L1[j] = L[j]
      BY <1>2
    <3> HIDE DEF z
    <3> QED
      BY <1>7, <1>9, <3>1
  <2>2. x \in 1..n + 1
    BY <1>2, <2>1
  <2>3. x # 1
    <3> SUFFICES ASSUME x = 1 PROVE FALSE
      OBVIOUS
    <3>1. L1[N][x] = k
      BY <1>2, <2>2
    <3> HIDE DEF z
    <3> QED
      BY <1>8, <1>9, <2>1, <3>1
  <2> DEFINE y == x - 1
  <2>4. y \in 1..n /\ ~(x < 1)
    BY <1>1, <2>2, <2>3
  <2>5. L1[N][x] = L[N][y]
    BY <1>2, <2>2, <2>3, <2>4
  <2>6. y = n
    <3>1. y \in 1..Len(L[N])
      BY <2>4
    <3> HIDE DEF y, z
    <3> QED
      BY <1>1, <1>7, <1>9, <2>1, <2>5, <3>1
  <2> HIDE DEF n
  <2> QED
    BY <1>1, <2>1, <2>2, <2>6
<1>10. n + 1 \in 1..Len(L1[N]) /\ L1[N][n + 1] = z
  <2> DEFINE x == n + 1
  <2>1. x \in 1..n + 1 /\ ~(x < 1) /\ x # 1 /\ x - 1 = n
    <3> HIDE DEF n
    <3> QED
      BY <1>1, <1>5
  <2>2. Len(L1[N]) = x
    BY <1>2
  <2>3. L1[N][x] = L[N][x - 1]
    <3> HIDE DEF x, z
    <3> QED
      BY <1>2, <2>1
  <2>4. x \in 1..Len(L1[N])
    BY <2>1, <2>2
  <2> QED
    BY <2>1, <2>3, <2>4
<1> HIDE DEF n
<1>11. InUpper(L1, N, z)
  <2> HIDE DEF z
  <2>1. \E x \in 1..Len(L1[N]) : L1[N][x] = z
    BY <1>10
  <2>2. \A j \in 1..Len(L1) : \A x \in 1..Len(L1[j]) : L1[j][x] = z => j = N /\ x > Mid(L1[N])
    BY <1>2, <1>6, <1>9
  <2> QED
    BY <2>1, <2>2 DEF InUpper
<1>12. n \in 1..Len(L[N]) /\ L[N][n] = z
  BY <1>5 DEF n
<1> QED
  BY <1>11, <1>12 DEF N

(* If it has only the two, what is left of it is read twice.                *)
LEMMA DoubledRaised ==
  ASSUME NEW t, NEW K, NEW D, NEW L, NEW k \in Int, NEW R, InTree(t, K, D, L), Increasing(D),
         Doubled(L, k), ~(Len(L[Len(L)]) > 2), k = D[Len(L) - 1], Len(D) = InteriorCapacity,
         R \in SUBSET Keys, k \in R
  PROVE  LET u == Balance(t, PathTo(t, L, Len(L)), K[Len(L)]) IN ~Lists(Scan(u, First(u)), R)
<1> DEFINE N == Len(L)
           u == Balance(t, PathTo(t, L, N), K[N])
           lo == Lower(L[N])
           up == Upper(L[N])
           a == Len(lo)
           b == Len(up)
<1>1. /\ N \in Nat /\ N > 1 /\ N \in 1..N /\ Len(L[N]) \in Nat /\ Len(L[N]) > 1 /\ L[N] \in Seq(Keys)
      /\ \A j \in 1..N : Len(L[j]) > 0
      /\ \A j \in 1..N : \A x \in 1..Len(L[j]) : L[j][x] = k <=> j = N /\ x \in {1, 2}
      /\ L[N][1] = k /\ L[N][2] = k /\ Many(L) /\ Listed(K, D, L)
  <2>1. Listed(K, D, L) /\ Many(L)
    BY DEF InTree, Doubled
  <2>2. /\ N \in Nat /\ N > 1 /\ N \in 1..N /\ Len(L[N]) \in Nat /\ Len(L[N]) > 1
        /\ \A j \in 1..N : L[j] \in Seq(Keys) /\ Len(L[j]) \in Nat /\ Len(L[j]) > 0
        /\ \A j \in 1..N : \A x \in 1..Len(L[j]) : L[j][x] = k <=> j = N /\ x \in {1, 2}
        /\ L[N][1] = k /\ L[N][2] = k
    BY <2>1, DoubledReads
  <2> HIDE DEF N
  <2> QED
    BY <2>1, <2>2
<1>2. PICK E : Raising(u, t, K, D, L, N, lo, up, E)
  BY <1>1, RaisingIs
<1> HIDE DEF u
<1>3. /\ a \in Nat /\ b \in Nat /\ a > 0 /\ b > 0 /\ Len(L[N]) = a + b
      /\ \A x \in 1..a : lo[x] = L[N][x]
      /\ \A x \in 1..b : up[x] = L[N][a + x]
  BY <1>1, Halves
<1>4. a = 1 /\ lo[1] = k /\ up[1] = k
  <2>1. ~(Len(L[N]) > 2)
    OBVIOUS
  <2>2. a = 1 /\ 1 \in 1..b
    <3> DEFINE n == Len(L[N])
    <3>1. n = a + b /\ ~(n > 2) /\ n > 1 /\ a \in Nat /\ b \in Nat /\ a > 0 /\ b > 0
      BY <1>1, <1>3, <2>1
    <3> HIDE DEF n, a, b
    <3>2. a = 1 /\ 1 \in 1..b
      BY <3>1
    <3> QED
      BY <3>2
  <2> HIDE DEF a, b
  <2>3. up[1] = L[N][a + 1] /\ 1 \in 1..a /\ a + 1 = 2
    BY <1>3, <2>2
  <2>4. lo[1] = L[N][1]
    BY <1>3, <2>3
  <2> HIDE DEF lo, up
  <2>5. up[1] = L[N][2]
    BY <2>3
  <2> QED
    BY <1>1, <2>2, <2>4, <2>5
<1> HIDE DEF a, b, lo, up
<1> DEFINE at == UpTo(t, t.root, up[1]) + 1
           cell == [child |-> K[N], key |-> up[1]]
           M == Mid(E)
           B == N - 1 - M
<1>5. /\ ThreeLevels(u) /\ HalfWays(u, K, L, E) /\ Len(E) = N
      /\ at \in 1..N /\ Insertion(E, RootCells(K, D), at, cell)
      /\ \A j \in 1..N : HasKeys(u, K[j], KeptBy(L, N, lo, j))
      /\ \A h, j : h \in {1, 2} /\ j \in 1..Count(u, Child(u, u.root, h)) + 1 =>
           \E x \in 1..N : LeafOf(u, h, j) = K[x]
  BY <1>2 DEF Raising
<1>6. at = N
  <2>1. KeysOf(t, t.root) = D /\ D \in Seq(Keys) /\ Len(D) = N - 1
    BY <1>1, RootReads DEF HasLeaves, Listed
  <2>2. at \in 1..Len(D) + 1 /\ \A x \in 1..Len(D) : D[x] <= k <=> x < at
    BY <1>4, <2>1, Counted
  <2>3. N - 1 \in 1..Len(D)
    <3> HIDE DEF N
    <3> QED
      BY <1>1, <2>1
  <2>4. D[N - 1] <= k
    <3>1. D[N - 1] = k
      OBVIOUS
    <3> QED
      BY <3>1
  <2> HIDE DEF at, N
  <2>5. N - 1 < at
    BY <2>2, <2>3, <2>4
  <2> QED
    BY <1>1, <2>1, <2>2, <2>5
<1>7. \A j \in 1..N : E[j].child = K[j]
  <2> SUFFICES ASSUME NEW j \in 1..N PROVE E[j].child = K[j]
    OBVIOUS
  <2> DEFINE c == RootCells(K, D)
  <2>1. Len(D) = N - 1
    BY <1>1 DEF Listed
  <2>2. Len(c) = N - 1 /\ \A x \in 1..N - 1 : c[x].child = K[x]
    <3>1. c = [x \in 1..N - 1 |-> [child |-> K[x], key |-> D[x]]]
      BY <2>1 DEF RootCells
    <3> HIDE DEF N, c
    <3> QED
      BY <1>1, <3>1
  <2>3. cell.child = K[N]
    OBVIOUS
  <2> HIDE DEF c, cell, at
  <2>4. j \in 1..Len(c) + 1
    <3> HIDE DEF N
    <3> QED
      BY <1>1, <2>2
  <2>5. E[j] = IF j < N THEN c[j] ELSE IF j = N THEN cell ELSE c[j - 1]
    BY <1>5, <1>6, <2>4 DEF Insertion, c
  <2> HIDE DEF N
  <2>6. CASE j < N
    <3>1. j \in 1..N - 1
      BY <1>1, <2>6
    <3> QED
      BY <2>2, <2>5, <2>6, <3>1
  <2>7. CASE ~(j < N)
    <3>1. j = N
      BY <1>1, <2>7
    <3> QED
      BY <2>3, <2>5, <3>1
  <2> QED
    BY <2>6, <2>7
<1> HIDE DEF at, cell
<1>8. /\ M \in Nat /\ M > 0 /\ M < N
      /\ Count(u, Child(u, u.root, 1)) = M /\ Count(u, Child(u, u.root, 2)) = B
      /\ \A j \in 1..M + 1 : LeafOf(u, 1, j) = K[j]
      /\ \A j \in 1..B : LeafOf(u, 2, j) = K[M + 1 + j]
      /\ LeafOf(u, 2, B + 1) = K[N]
  <2>1. /\ M \in Nat /\ M > 0 /\ M < N
        /\ Count(u, Child(u, u.root, 1)) = M /\ Count(u, Child(u, u.root, 2)) = B
        /\ \A j \in 1..M + 1 : LeafOf(u, 1, j) = E[j].child
        /\ \A j \in 1..B : LeafOf(u, 2, j) = E[M + 1 + j].child
        /\ LeafOf(u, 2, N - M) = K[N]
    BY <1>5 DEF HalfWays
  <2> HIDE DEF M, N
  <2>2. B + 1 = N - M
    BY <1>1, <2>1
  <2>3. \A j \in 1..M + 1 : j \in 1..N
    BY <1>1, <2>1
  <2>4. \A j \in 1..B : M + 1 + j \in 1..N
    BY <1>1, <2>1
  <2>5. \A j \in 1..B : LeafOf(u, 2, j) = K[M + 1 + j]
    <3> SUFFICES ASSUME NEW j \in 1..B PROVE LeafOf(u, 2, j) = K[M + 1 + j]
      OBVIOUS
    <3> DEFINE x == M + 1 + j
    <3>1. x \in 1..N /\ LeafOf(u, 2, j) = E[x].child
      BY <2>1, <2>4
    <3> HIDE DEF x
    <3>2. LeafOf(u, 2, j) = K[x]
      BY <1>7, <3>1
    <3> QED
      BY <3>2 DEF x
  <2>6. \A j \in 1..M + 1 : LeafOf(u, 1, j) = K[j]
    BY <1>7, <2>1, <2>3
  <2> HIDE DEF B
  <2>7. LeafOf(u, 2, B + 1) = K[N]
    BY <2>1, <2>2
  <2> QED
    BY <2>1, <2>5, <2>6, <2>7
<1> HIDE DEF M
<1>9. B \in Nat /\ (B = 0 <=> N = M + 1)
  <2> HIDE DEF N
  <2> QED
    BY <1>1, <1>8
<1>10. \A j \in 1..N : K[j] = K[N] <=> j = N
  BY <1>1 DEF Listed
<1>11. ASSUME NEW h, NEW j, h \in {1, 2}, j \in 1..Count(u, Child(u, u.root, h)) + 1
       PROVE  LeafOf(u, h, j) = K[N] <=> FinalSpot(u, h, j) \/ LateSpot(u, h, j)
  <2>1. /\ FinalSpot(u, h, j) <=> h = 2 /\ j = B + 1
        /\ LateSpot(u, h, j) <=> (h = 2 /\ j = B) \/ (B = 0 /\ h = 1 /\ j = M + 1)
    <3> HIDE DEF B
    <3> QED
      BY <1>8 DEF FinalSpot, LateSpot
  <2>2. CASE h = 1
    <3>1. j \in 1..M + 1
      BY <1>8, <1>11, <2>2
    <3>2. LeafOf(u, 1, j) = K[j]
      BY <1>8, <3>1
    <3> HIDE DEF N
    <3>3. j \in 1..N
      BY <1>1, <1>8, <3>1
    <3>4. LeafOf(u, 1, j) = K[N] <=> j = N
      BY <1>10, <3>2, <3>3
    <3>5. j = N <=> B = 0 /\ j = M + 1
      BY <1>1, <1>8, <1>9, <3>1
    <3> HIDE DEF B
    <3> QED
      BY <2>1, <2>2, <3>4, <3>5
  <2>3. CASE h = 2
    <3>1. j \in 1..B + 1
      BY <1>8, <1>11, <2>3
    <3>2. CASE j = B + 1
      <4> HIDE DEF B, N
      <4> QED
        BY <1>8, <2>1, <2>3, <3>2
    <3>3. CASE j # B + 1
      <4> DEFINE x == M + 1 + j
      <4>1. j \in 1..B
        <5> HIDE DEF B
        <5> QED
          BY <1>9, <3>1, <3>3
      <4>2. LeafOf(u, 2, j) = K[x]
        BY <1>8, <4>1
      <4>3. x \in 1..N /\ (x = N <=> j = B)
        <5> HIDE DEF N
        <5>1. N \in Nat /\ M \in Nat /\ M < N /\ B \in Int /\ B = N - 1 - M /\ j \in 1..B
          BY <1>1, <1>8, <4>1
        <5>2. x = M + 1 + j
          OBVIOUS
        <5> HIDE DEF B, x
        <5> QED
          BY <5>1, <5>2
      <4> HIDE DEF x, B, N
      <4>4. LeafOf(u, 2, j) = K[N] <=> j = B
        BY <1>10, <4>2, <4>3
      <4> QED
        BY <2>1, <2>3, <3>3, <4>4
    <3> QED
      BY <3>2, <3>3
  <2> QED
    BY <1>11, <2>2, <2>3
<1>12. Count(u, K[N]) = 1
  <2>1. HasKeys(u, K[N], KeptBy(L, N, lo, N)) /\ KeptBy(L, N, lo, N) = lo
    BY <1>1, <1>5 DEF KeptBy
  <2>2. Count(u, K[N]) = a
    BY <2>1 DEF HasKeys, a
  <2> QED
    BY <1>4, <2>2
<1>13. ASSUME NEW h, NEW j, NEW m, IsSpot(u, h, j, m)
       PROVE  SpotKey(u, h, j, m) = k <=> LeafOf(u, h, j) = K[N]
  <2>1. h \in {1, 2} /\ j \in 1..Count(u, Child(u, u.root, h)) + 1 /\ m \in 1..Count(u, LeafOf(u, h, j))
    BY <1>13 DEF IsSpot
  <2>2. PICK y \in 1..N : LeafOf(u, h, j) = K[y]
    BY <1>5, <2>1
  <2> DEFINE s == KeptBy(L, N, lo, y)
  <2>0. HasKeys(u, K[y], s)
    BY <1>5
  <2> HIDE DEF s
  <2>3. m \in 1..Len(s) /\ SpotKey(u, h, j, m) = s[m]
    BY <2>0, <2>1, <2>2 DEF HasKeys, SpotKey
  <2>4. LeafOf(u, h, j) = K[N] <=> y = N
    <3> HIDE DEF N
    <3> QED
      BY <1>10, <2>2
  <2>5. CASE y = N
    <3>1. m = 1 /\ s[m] = k
      <4>1. s = lo
        BY <2>5 DEF KeptBy, s
      <4>2. m \in 1..a
        BY <2>3, <4>1 DEF a
      <4>3. m = 1
        BY <1>4, <4>2
      <4> QED
        BY <1>4, <4>1, <4>3
    <3> HIDE DEF N
    <3> QED
      BY <2>3, <2>4, <2>5, <3>1
  <2>6. CASE y # N
    <3>1. s = L[y]
      BY <2>6 DEF KeptBy, s
    <3> HIDE DEF N
    <3>2. L[y][m] # k
      BY <1>1, <2>3, <2>6, <3>1
    <3> QED
      BY <2>3, <2>4, <2>6, <3>1, <3>2
  <2> QED
    BY <2>5, <2>6
<1>14. LeafOf(u, 1, 1) # K[N]
  <2>1. 1 \in 1..M + 1
    BY <1>8
  <2>2. LeafOf(u, 1, 1) = K[1]
    BY <1>8, <2>1
  <2> HIDE DEF N
  <2>3. 1 \in 1..N /\ 1 # N
    BY <1>1
  <2> QED
    BY <1>10, <2>2, <2>3
<1>15. LeafTwice(u, K[N], k)
  <2> HIDE DEF N
  <2>1. \A h, j, m : IsSpot(u, h, j, m) =>
          /\ SpotKey(u, h, j, m) = k <=> LeafOf(u, h, j) = K[N]
          /\ LeafOf(u, h, j) = K[N] <=> FinalSpot(u, h, j) \/ LateSpot(u, h, j)
    BY <1>11, <1>13 DEF IsSpot
  <2> QED
    BY <1>12, <1>14, <2>1 DEF LeafTwice
<1>16. ~Lists(Scan(u, First(u)), R)
  BY <1>5, <1>15, DoubledLeaf
<1> QED
  BY <1>16 DEF u

-----------------------------------------------------------------------------
(* What each kind of damage does to a scan                                  *)

(* A leaf that is not linked: its last key is not read.                     *)
LEMMA NotLinked ==
  ASSUME NEW u, NEW t, NEW K, NEW D, NEW L, NEW R, NEW key, NEW large,
         GrownTo(u, t, K, D, L, R, key, large), SplitsInterior(t, key, large),
         Len(L) \in Nat, R \union {key} \in SUBSET Keys
  PROVE  ~Lists(Scan(u, First(u)), R \union {key})
<1> DEFINE R2 == R \union {key}
<1>1. PICK i, m, L1 :
        /\ i \in 1..Len(L) /\ PutTree(K, D, L, L1, i, m, key)
        /\ RootSplit(u, K, D, L1, i) /\ Ordered(D, L1) /\ Holds(L1, R2)
  BY DEF GrownTo
<1>2. PICK t1 : InTree(t1, K, D, L1) /\ u = Balance(t1, PathTo(t1, L1, i), K[i])
  BY <1>1 DEF RootSplit
<1>3. Many(L1) /\ Len(D) = InteriorCapacity /\ Len(L1[i]) > 1 /\ i \in 1..Len(L1) /\ Listed(K, D, L1)
  BY <1>1 DEF RootSplit, PutTree
<1>4. \A j \in 1..Len(L1) : Len(L1[j]) > 0
  BY <1>1, <1>3 DEF Ordered
<1> DEFINE n == Len(L1[i])
           z == L1[i][n]
<1>5. InUpper(L1, i, z) /\ n \in 1..Len(L1[i])
  BY <1>1, <1>3, LastInUpper
<1>6. z \in R2
  <2> HIDE DEF n, R2
  <2>1. \E x \in 1..Len(L1[i]) : L1[i][x] = z
    BY <1>5
  <2> HIDE DEF z
  <2> QED
    BY <1>1, <1>3, <2>1 DEF Holds
<1> HIDE DEF z, n
<1>7. R2 \in SUBSET Keys
  OBVIOUS
<1> HIDE DEF R2
<1>8. LET v == Balance(t1, PathTo(t1, L1, i), K[i]) IN ~Lists(Scan(v, First(v)), R2)
  BY <1>2, <1>3, <1>4, <1>5, <1>6, <1>7, UnlinkedKey
<1>9. ~Lists(Scan(u, First(u)), R2)
  BY <1>2, <1>8
<1> QED
  BY <1>9 DEF R2

(* A rowid that is taken: a scan comes to it twice, or a key is not linked. *)
LEMMA RowidTaken ==
  ASSUME NEW t, NEW K, NEW D, NEW L, NEW R, TreeOf(t, K, D, L, R), R \in SUBSET Keys, NewRowid(t) \in R
  PROVE  LET u == Inserted(t, NewRowid(t), FALSE) IN ~Lists(Scan(u, First(u)), R)
<1> DEFINE k == NewRowid(t)
           u == Inserted(t, k, FALSE)
           N == Len(L)
<1>1. InTree(t, K, D, L) /\ Ordered(D, L) /\ Fits(D, L) /\ Holds(L, R) /\ Listed(K, D, L)
  BY DEF TreeOf, InTree
<1>2. k \in Keys /\ k \in Int /\ Taken(D, L, k) /\ k \in R
  <2>1. Taken(D, L, k)
    BY TakenIs
  <2> HIDE DEF k
  <2>2. k \in R
    BY DEF k
  <2>3. k \in Keys
    BY <2>2
  <2>4. k \in Int
    BY <2>3, Bounds
  <2> QED
    BY <2>1, <2>2, <2>3, <2>4
<1> SUFFICES ~Lists(Scan(u, First(u)), R)
  OBVIOUS
<1> HIDE DEF k
<1>3. PICK i \in 1..Len(L) : \E m \in 1..Len(L[i]) + 1 :
        /\ WayDown(t, k) = Place(t, K, i, m) /\ IndexIn(L[i], m, k)
        /\ i > 1 => D[i - 1] <= k
        /\ i < Len(L) => k < D[i]
  BY <1>1, <1>2, WayIs
<1>4. PICK m \in 1..Len(L[i]) + 1 :
        /\ WayDown(t, k) = Place(t, K, i, m) /\ IndexIn(L[i], m, k)
        /\ i > 1 => D[i - 1] <= k
        /\ i < Len(L) => k < D[i]
  BY <1>3
<1>5. i = N /\ m = 1
  BY <1>1, <1>2, <1>4, TakenWay
<1>6. Grown(u, t, K, D, L, N, 1, k, FALSE)
  <2>1. Grown(u, t, K, D, L, i, m, k, FALSE)
    BY <1>1, <1>2, <1>4, InsertTree
  <2> HIDE DEF u, N
  <2> QED
    BY <1>5, <2>1
<1> HIDE DEF u
<1>7. PICK L1 :
        /\ PutTree(K, D, L, L1, N, 1, k)
        /\ ~Overfull(t, k, FALSE) => InTree(u, K, D, L1) /\ Fits(D, L1)
        /\ Overfull(t, k, FALSE) /\ ~SplitsInterior(t, k, FALSE) =>
             \E K2, D2, L2 : Divided(u, K, D, L1, K2, D2, L2, N) /\ Fits(D2, L2)
        /\ SplitsInterior(t, k, FALSE) => RootSplit(u, K, D, L1, N)
  BY <1>6 DEF Grown
<1>8. Doubled(L1, k) /\ Listed(K, D, L1) /\ Len(L1) = N
  BY <1>1, <1>2, <1>7, TakenPut DEF PutTree
<1>9. CASE ~Overfull(t, k, FALSE)
  BY <1>2, <1>7, <1>8, <1>9, DoubledKept
<1>10. CASE Overfull(t, k, FALSE) /\ ~SplitsInterior(t, k, FALSE)
  <2>1. PICK K2, D2, L2 : Divided(u, K, D, L1, K2, D2, L2, N)
    BY <1>7, <1>10
  <2>2. Divided(u, K, D, L1, K2, D2, L2, Len(L1))
    BY <1>8, <2>1
  <2> QED
    BY <1>2, <1>8, <2>2, DoubledDivided
<1>11. CASE SplitsInterior(t, k, FALSE)
  <2>1. /\ Many(L1) /\ Len(D) = InteriorCapacity /\ Len(L1[N]) > 1
        /\ \E t1 : InTree(t1, K, D, L1) /\ u = Balance(t1, PathTo(t1, L1, N), K[N])
    BY <1>7, <1>11 DEF RootSplit
  <2>2. PICK t1 : InTree(t1, K, D, L1) /\ u = Balance(t1, PathTo(t1, L1, N), K[N])
    BY <2>1
  <2> DEFINE v == Balance(t1, PathTo(t1, L1, N), K[N])
  <2>3. \A j \in 1..Len(L1) : Len(L1[j]) > 0
    BY <1>8 DEF Doubled
  <2>4. N \in 1..Len(L1) /\ N \in 1..Len(L)
    <3>1. N \in Nat /\ N > 1
      BY <1>8, DoubledReads
    <3> HIDE DEF N
    <3>2. N \in 1..N
      BY <3>1
    <3> QED
      BY <1>8, <3>2 DEF N
  <2>5. CASE Len(L1[N]) > 2
    <3>1. PICK z : InUpper(L1, N, z) /\ \E x \in 1..Len(L[N]) : L[N][x] = z
      BY <1>1, <1>2, <1>7, <2>5, DoubledUnlinked
    <3>2. z \in R
      <4> HIDE DEF N
      <4> QED
        BY <1>1, <2>4, <3>1 DEF Holds
    <3> HIDE DEF N
    <3>3. ~Lists(Scan(v, First(v)), R)
      BY <2>1, <2>2, <2>3, <2>4, <3>1, <3>2, UnlinkedKey
    <3> QED
      BY <2>2, <3>3
  <2>6. CASE ~(Len(L1[N]) > 2)
    <3> DEFINE w == Balance(t1, PathTo(t1, L1, Len(L1)), K[Len(L1)])
    <3>1. Increasing(D) /\ k = D[Len(L1) - 1] /\ ~(Len(L1[Len(L1)]) > 2)
      BY <1>1, <1>2, <1>8, <2>6 DEF Ordered, Taken
    <3>2. ~Lists(Scan(w, First(w)), R)
      BY <1>2, <1>8, <2>1, <2>2, <3>1, DoubledRaised
    <3> HIDE DEF N
    <3>3. w = u
      BY <1>8, <2>2
    <3> HIDE DEF w
    <3> QED
      BY <3>2, <3>3
  <2> QED
    BY <2>5, <2>6
<1> QED
  BY <1>9, <1>10, <1>11

(* A leaf that is emptied and is the last one, or the last but one of two:  *)
(* a scan that does not come to an end, or reads nothing.                   *)
LEMMA BadlyEmptied ==
  ASSUME NEW t, NEW K, NEW D, NEW L, NEW R, NEW i, NEW m, NEW S,
         TreeOf(t, K, D, L, R), i \in 1..Len(L), m \in 1..Len(L[i]),
         Emptied(t, On(Place(t, K, i, m))) # "none", S \in SUBSET Keys
  PROVE  /\ Many(L)
         /\ S # {} => LET u == Deleted(t, On(Place(t, K, i, m))).tree IN ~Lists(Scan(u, First(u)), S)
<1> DEFINE c == On(Place(t, K, i, m))
           d == Deleted(t, c)
           e == Emptied(t, c)
           cut == CutFrom(t, K, i, m)
           u == Emptying(cut, K[i])
<1>1. InTree(t, K, D, L) /\ Ordered(D, L)
  BY DEF TreeOf
<1>2. Cut(t, K, D, L, i, m, c, d, e) /\ e # "none"
  BY <1>1, DeletedIs
<1>3. PICK L1 : InTree(cut, K, D, L1) /\ CutTree(K, D, L, L1, i, m)
  BY <1>1, CutIs
<1> HIDE DEF c, d, e, cut
<1>4. Many(L) /\ d = [tree |-> u, cursor |-> AtEnd] /\ ~(i < Len(L) /\ Len(L) > 2)
  BY <1>2 DEF Cut, cut
<1>5. /\ Len(L1) = Len(L) /\ Many(L1)
      /\ \A j \in 1..Len(L) : j # i => L1[j] = L[j]
  BY <1>3, <1>4 DEF CutTree
<1>6. \A j \in 1..Len(L1) : j # i => Len(L1[j]) > 0
  BY <1>1, <1>4, <1>5 DEF Ordered
<1>7. d.tree = u
  BY <1>4
<1>8. ASSUME S # {}
      PROVE  ~Lists(Scan(u, First(u)), S)
  <2>1. CASE ~(i < Len(L1))
    <3>1. i \in 1..Len(L1)
      BY <1>5
    <3> QED
      BY <1>3, <1>5, <1>6, <2>1, <3>1, LastEmptied
  <2>2. CASE i < Len(L1)
    <3>1. i \in 1..Len(L1) /\ ~(Len(L1) > 2)
      BY <1>4, <1>5, <2>2
    <3>2. PICK k : k \in S
      BY <1>8
    <3> QED
      BY <1>3, <1>5, <2>2, <3>1, <3>2, OneDiscarded
  <2> QED
    BY <2>1, <2>2
<1>9. S # {} => ~Lists(Scan(d.tree, First(d.tree)), S)
  BY <1>7, <1>8
<1> QED
  BY <1>4, <1>9 DEF d, c

-----------------------------------------------------------------------------
(* The other half of ScanIsTable: a scan of a damaged tree does not read    *)
(* the table.  No operation goes on with a damaged tree, so that it holds   *)
(* if each step that damages the tree makes it so.                          *)
DamageShows == ~Sound => ~Lists(Scan(tree, First(tree)), rows)

LEMMA InsertShows ==
  ASSUME NEW k \in Keys, TreeInv, Insert(k), ~Sound'
  PROVE  ~Lists(Scan(tree', First(tree')), rows')
<1>1. /\ Sound /\ k \notin rows /\ tree' = Inserted(tree, k, FALSE) /\ rows' = rows \union {k}
      /\ SplitsInterior(tree, k, FALSE)
  BY DEF Insert, Sound
<1>2. PICK K, D, L : TreeOf(tree, K, D, L, rows)
  BY <1>1 DEF TreeInv
<1>3. GrownTo(tree', tree, K, D, L, rows, k, FALSE)
  BY <1>1, <1>2, InsertKeeps
<1>4. Len(L) \in Nat /\ rows \union {k} \in SUBSET Keys
  BY <1>2, LeafCount DEF TreeOf, TreeInv
<1>5. ~Lists(Scan(tree', First(tree')), rows \union {k})
  BY <1>1, <1>3, <1>4, NotLinked
<1> QED
  BY <1>1, <1>5

LEMMA AppendShows ==
  ASSUME TreeInv, AppendRow, ~Sound'
  PROVE  ~Lists(Scan(tree', First(tree')), rows')
<1> DEFINE k == NewRowid(tree)
<1>1. /\ Sound /\ k \in Keys /\ tree' = Inserted(tree, k, FALSE) /\ rows' = rows \union {k}
      /\ k \in rows \/ SplitsInterior(tree, k, FALSE)
  BY DEF AppendRow, Sound
<1>2. PICK K, D, L : TreeOf(tree, K, D, L, rows)
  BY <1>1 DEF TreeInv
<1>3. Len(L) \in Nat /\ rows \in SUBSET Keys
  BY <1>2, LeafCount DEF TreeOf, TreeInv
<1>4. CASE k \in rows
  <2>1. rows' = rows
    BY <1>1, <1>4
  <2>2. ~Lists(Scan(Inserted(tree, k, FALSE), First(Inserted(tree, k, FALSE))), rows)
    BY <1>2, <1>3, <1>4, RowidTaken
  <2> HIDE DEF k
  <2> QED
    BY <1>1, <2>1, <2>2
<1> HIDE DEF k
<1>5. CASE k \notin rows
  <2>1. SplitsInterior(tree, k, FALSE)
    BY <1>1, <1>5
  <2>2. GrownTo(tree', tree, K, D, L, rows, k, FALSE)
    BY <1>1, <1>2, <1>5, InsertKeeps
  <2>3. rows \union {k} \in SUBSET Keys
    BY <1>1, <1>3
  <2>4. ~Lists(Scan(tree', First(tree')), rows \union {k})
    BY <1>3, <2>1, <2>2, <2>3, NotLinked
  <2> QED
    BY <1>1, <2>4
<1> QED
  BY <1>4, <1>5

(* There is another leaf, and it has a key.                                 *)
LEMMA RowsLeft ==
  ASSUME NEW t, NEW K, NEW D, NEW L, NEW R, NEW i, NEW m,
         TreeOf(t, K, D, L, R), i \in 1..Len(L), m \in 1..Len(L[i]), Many(L)
  PROVE  R \ {L[i][m]} # {}
<1>1. InTree(t, K, D, L) /\ Ordered(D, L) /\ Holds(L, R) /\ Listed(K, D, L)
  BY DEF TreeOf, InTree
<1>2. Len(L) \in Nat /\ Len(L) > 1
  BY <1>1, LeafCount
<1> DEFINE j == IF i = 1 THEN 2 ELSE 1
<1>3. j \in 1..Len(L) /\ j # i
  BY <1>2
<1> HIDE DEF j
<1>4. 1 \in 1..Len(L[j])
  <2>1. Len(L[j]) > 0 /\ Len(L[j]) \in Nat
    BY <1>1, <1>3, ListReads DEF Ordered
  <2> QED
    BY <2>1
<1>5. L[j][1] # L[i][m]
  BY <1>1, <1>3, <1>4, OnePlace
<1>6. L[j][1] \in R
  BY <1>1, <1>3, <1>4 DEF Holds
<1> QED
  BY <1>5, <1>6

LEMMA DeleteShows ==
  ASSUME TreeInv, Delete, ~Sound'
  PROVE  ~Lists(Scan(tree', First(tree')), rows')
<1>1. /\ Sound /\ Positioned /\ steady
      /\ tree' = Deleted(tree, cursor).tree /\ rows' = rows \ {KeyAt(tree, cursor)}
      /\ Emptied(tree, cursor) # "none"
  BY DEF Delete, Sound
<1>2. PICK K, D, L, i, m :
        /\ TreeOf(tree, K, D, L, rows) /\ i \in 1..Len(L) /\ m \in 1..Len(L[i])
        /\ cursor = On(Place(tree, K, i, m)) /\ KeyAt(tree, cursor) = L[i][m]
  BY <1>1, OnRow
<1>3. rows' \in SUBSET Keys
  BY <1>1 DEF TreeInv
<1> DEFINE S == rows \ {L[i][m]}
           c == On(Place(tree, K, i, m))
           u == Deleted(tree, c).tree
<1>4. S = rows' /\ S \in SUBSET Keys
  BY <1>1, <1>2, <1>3
<1>5. Emptied(tree, c) # "none" /\ tree' = u
  BY <1>1, <1>2
<1>6. Many(L) /\ (S # {} => ~Lists(Scan(u, First(u)), S))
  <2> HIDE DEF S
  <2> QED
    BY <1>2, <1>4, <1>5, BadlyEmptied
<1>7. S # {}
  BY <1>2, <1>6, RowsLeft
<1> HIDE DEF S, u, c
<1> QED
  BY <1>4, <1>5, <1>6, <1>7

LEMMA RewriteShows ==
  ASSUME NEW grown \in BOOLEAN, TreeInv, Rewrite(grown), ~Sound'
  PROVE  ~Lists(Scan(tree', First(tree')), rows')
<1> DEFINE d == Deleted(tree, cursor)
           e == Emptied(tree, cursor)
           k == KeyAt(tree, cursor)
           R == rows \ {k}
<1>1. /\ Sound /\ Positioned /\ steady /\ rows' = rows
      /\ e = "none" => SplitsInterior(d.tree, k, grown)
      /\ tree' = IF e # "none" THEN d.tree ELSE Inserted(d.tree, k, grown)
  BY DEF Rewrite, Sound
<1>2. PICK K, D, L, i, m :
        /\ TreeOf(tree, K, D, L, rows) /\ i \in 1..Len(L) /\ m \in 1..Len(L[i])
        /\ cursor = On(Place(tree, K, i, m)) /\ k = L[i][m]
  BY <1>1, OnRow
<1>3. rows \in SUBSET Keys
  BY DEF TreeInv
<1>4. k \in Keys /\ k \in rows /\ k \notin R /\ R \union {k} = rows
  <2>1. InTree(tree, K, D, L) /\ Listed(K, D, L) /\ Holds(L, rows)
    BY <1>2 DEF TreeOf, InTree
  <2>2. k \in Keys /\ k \in rows
    <3> HIDE DEF k
    <3> QED
      BY <1>2, <2>1, ListReads DEF Holds
  <2> QED
    BY <2>2
<1>5. CASE e # "none"
  <2> DEFINE c == On(Place(tree, K, i, m))
             u == Deleted(tree, c).tree
  <2>1. Emptied(tree, c) # "none" /\ tree' = u
    BY <1>1, <1>2, <1>5
  <2>2. rows # {} => ~Lists(Scan(u, First(u)), rows)
    BY <1>2, <1>3, <2>1, BadlyEmptied
  <2> HIDE DEF u, c, k
  <2> QED
    BY <1>1, <1>4, <2>1, <2>2
<1>6. CASE e = "none"
  <2>1. Cutting(tree, K, D, L, rows, i, m, cursor, d, e)
    BY <1>2, DeleteKeeps
  <2> HIDE DEF d, e, k
  <2>2. PICK K2, D2, L2 : TreeOf(d.tree, K2, D2, L2, R)
    BY <1>2, <1>6, <2>1 DEF Cutting
  <2> HIDE DEF R
  <2>3. tree' = Inserted(d.tree, k, grown) /\ SplitsInterior(d.tree, k, grown)
    BY <1>1, <1>6
  <2>4. GrownTo(tree', d.tree, K2, D2, L2, R, k, grown)
    BY <1>4, <2>2, <2>3, InsertKeeps
  <2>5. Len(L2) \in Nat /\ R \union {k} \in SUBSET Keys
    BY <1>3, <1>4, <2>2, LeafCount DEF TreeOf
  <2>6. ~Lists(Scan(tree', First(tree')), R \union {k})
    BY <2>3, <2>4, <2>5, NotLinked
  <2> QED
    BY <1>1, <1>4, <2>6
<1> QED
  BY <1>5, <1>6

LEMMA NextShows ==
  ASSUME TreeInv, DamageShows, [Next]_vars
  PROVE  DamageShows'
<1>1. CASE UNCHANGED vars
  BY <1>1 DEF vars, DamageShows, Sound
<1>2. ASSUME Next, ~Sound'
      PROVE  ~Lists(Scan(tree', First(tree')), rows')
  <2>1. CASE Rewind \/ GoLast \/ Step \/ \E k \in Keys : SeekKey(k)
    BY <1>2, <2>1 DEF Rewind, GoLast, Step, SeekKey, Move, Sound
  <2>2. CASE AppendRow
    BY <1>2, <2>2, AppendShows
  <2>3. CASE Delete
    BY <1>2, <2>3, DeleteShows
  <2>4. CASE \E k \in Keys : Insert(k)
    BY <1>2, <2>4, InsertShows
  <2>5. CASE \E grown \in BOOLEAN : Rewrite(grown)
    BY <1>2, <2>5, RewriteShows
  <2> QED
    BY <1>2, <2>1, <2>2, <2>3, <2>4, <2>5 DEF Next
<1>3. CASE Next
  BY <1>2, <1>3 DEF DamageShows
<1> QED
  BY <1>1, <1>3

-----------------------------------------------------------------------------
(* Where a scan goes on                                                     *)

(* A cursor on a key is on a row.                                           *)
LEMMA RowIs ==
  ASSUME NEW t, NEW K, NEW D, NEW L, NEW i, NEW m,
         InTree(t, K, D, L), i \in 1..Len(L), m \in 1..Len(L[i])
  PROVE  AtRow(t, On(Place(t, K, i, m))) /\ KeyAt(t, On(Place(t, K, i, m))) = L[i][m]
<1> DEFINE c == On(Place(t, K, i, m))
<1>1. ~c.eof /\ ~Lost(c) /\ Last(c.stack) = At(K[i], m) /\ KeyAt(t, c) = L[i][m]
  BY CursorReads
<1>2. DOMAIN Cells(t, K[i]) = 1..Len(L[i])
  BY Reads DEF HasKeys
<1> HIDE DEF c
<1>3. Last(c.stack).page = K[i] /\ Last(c.stack).index = m
  BY <1>1 DEF At
<1>4. AtRow(t, c)
  BY <1>1, <1>2, <1>3 DEF AtRow
<1> QED
  BY <1>1, <1>4 DEF c

LEMMA NoRow == \A t : ~AtRow(t, AtEnd)
BY EndIs DEF AtRow

(* What it is to have moved on, by where the cursor is.                     *)
LEMMA MovedIs ==
  ASSUME NEW t, NEW c, NEW k \in Int, rows \in SUBSET Keys
  PROVE  /\ ~AtRow(t, c) => (MovedOn(t, c, k) <=> Greater(k) = {})
         /\ AtRow(t, c) /\ KeyAt(t, c) \in Int /\ KeyAt(t, c) <= k => ~MovedOn(t, c, k)
         /\ AtRow(t, c) /\ KeyAt(t, c) \in rows /\ k < KeyAt(t, c)
              /\ (\A x \in rows : x <= k \/ x >= KeyAt(t, c)) => MovedOn(t, c, k) /\ Greater(k) # {}
<1> DEFINE j == KeyAt(t, c)
           G == Greater(k)
<1>1. G \in SUBSET Nat /\ rows \in SUBSET Int /\ \A x \in G : x > k
  <2>1. \A x \in G : x \in rows /\ x > k
    BY DEF Greater
  <2>2. Keys \in SUBSET Nat
    BY Bounds
  <2> HIDE DEF G
  <2>3. \A x \in rows : x \in Nat /\ x \in Int
    BY <2>2
  <2>4. \A x \in G : x \in Nat /\ x > k
    BY <2>1, <2>3
  <2> QED
    BY <2>3, <2>4
<1>2. ~AtRow(t, c) => (MovedOn(t, c, k) <=> G = {})
  BY DEF MovedOn
<1>3. ASSUME AtRow(t, c), j \in Int, j <= k
      PROVE  ~MovedOn(t, c, k)
  <2>1. CASE G = {}
    BY <1>3, <2>1 DEF MovedOn
  <2>2. CASE G # {}
    <3> HIDE DEF G, j
    <3>1. Min(G) \in G
      BY <1>1, <2>2, MinOf
    <3> DEFINE g == Min(G)
    <3> HIDE DEF g
    <3>2. g \in G
      BY <3>1 DEF g
    <3>4. g > k /\ g \in Int
      BY <1>1, <3>2
    <3>5. j # g
      BY <1>3, <3>4
    <3>3. j # Min(G)
      BY <3>5 DEF g
    <3> QED
      BY <2>2, <3>3 DEF MovedOn, G, j
  <2> QED
    BY <2>1, <2>2
<1>4. ASSUME AtRow(t, c), j \in rows, k < j, \A x \in rows : x <= k \/ x >= j
      PROVE  MovedOn(t, c, k) /\ G # {}
  <2> HIDE DEF j
  <2>1. {x \in rows : x > k} # {} /\ Min({x \in rows : x > k}) = j
    BY <1>1, <1>4, MinGreater
  <2>2. G # {} /\ Min(G) = j
    BY <2>1 DEF Greater
  <2> QED
    BY <1>4, <2>2 DEF MovedOn, j
<1> QED
  BY <1>2, <1>3, <1>4

(* The rows behind the m-th key of the i-th leaf: the next one is in that   *)
(* leaf, or in the next, or there is none.                                  *)
LEMMA RowsBehind ==
  ASSUME NEW t, NEW K, NEW D, NEW L, NEW i, NEW m,
         TreeOf(t, K, D, L, rows), i \in 1..Len(L), m \in 1..Len(L[i])
  PROVE  /\ rows \in SUBSET Keys /\ Listed(K, D, L) /\ InTree(t, K, D, L) /\ Ordered(D, L) /\ Holds(L, rows)
         /\ Len(L) \in Nat /\ Len(L[i]) \in Nat /\ L[i] \in Seq(Keys)
         /\ L[i][m] \in rows /\ L[i][m] \in Keys /\ L[i][m] \in Int
         /\ m < Len(L[i]) => /\ m + 1 \in 1..Len(L[i]) /\ L[i][m + 1] \in rows /\ L[i][m] < L[i][m + 1]
                             /\ \A x \in rows : x <= L[i][m] \/ x >= L[i][m + 1]
         /\ m = Len(L[i]) /\ i = Len(L) => Greater(L[i][m]) = {}
<1>1. /\ Listed(K, D, L) /\ InTree(t, K, D, L) /\ Ordered(D, L) /\ Holds(L, rows)
      /\ rows \in SUBSET Keys /\ rows \in SUBSET Int
  BY HeldKeys DEF TreeOf, InTree
<1>2. Len(L) \in Nat /\ Len(L[i]) \in Nat /\ L[i] \in Seq(Keys)
  BY <1>1, ListReads
<1>3. L[i][m] \in rows
  BY <1>1, NextKeys
<1>4. L[i][m] \in Keys /\ L[i][m] \in Int
  BY <1>1, <1>3
<1>5. ASSUME m < Len(L[i])
      PROVE  /\ m + 1 \in 1..Len(L[i]) /\ L[i][m + 1] \in rows /\ L[i][m] < L[i][m + 1]
             /\ \A x \in rows : x <= L[i][m] \/ x >= L[i][m + 1]
  <2> DEFINE n == m + 1
  <2>1. n \in 1..Len(L[i])
    BY <1>2, <1>5
  <2>2. L[i][m] < L[i][n] /\ \A x \in rows : x <= L[i][m] \/ x >= L[i][n]
    BY <1>1, <1>5, NextKeys
  <2> HIDE DEF n
  <2>3. L[i][n] \in rows
    BY <1>1, <2>1 DEF Holds
  <2> QED
    BY <2>1, <2>2, <2>3 DEF n
<1>6. ASSUME m = Len(L[i]), i = Len(L)
      PROVE  Greater(L[i][m]) = {}
  <2>1. ~(m < Len(L[i])) /\ ~(i < Len(L))
    BY <1>2, <1>6
  <2>2. \A x \in rows : x <= L[i][m]
    BY <1>1, <2>1, NextKeys
  <2> DEFINE k == L[i][m]
  <2>3. \A x \in rows : x <= k /\ x \in Int /\ k \in Int
    BY <1>1, <1>4, <2>2
  <2> HIDE DEF k
  <2>4. Greater(k) = {}
    BY <2>3 DEF Greater
  <2> QED
    BY <2>4 DEF k
<1> QED
  BY <1>1, <1>2, <1>3, <1>4, <1>5, <1>6

(* From each row of the table Next comes to the next one.                   *)
LEMMA NextMoves ==
  ASSUME NEW t, NEW K, NEW D, NEW L, NEW i, NEW m,
         TreeOf(t, K, D, L, rows), i \in 1..Len(L), m \in 1..Len(L[i])
  PROVE  MovedOn(t, Advance(t, On(Place(t, K, i, m))), L[i][m])
<1> DEFINE C == Cursors(t, K, L)
           x == On(Place(t, K, i, m))
           c == Advance(t, x)
           k == L[i][m]
<1>1. InTree(t, K, D, L) /\ rows \in SUBSET Keys /\ k \in Int
  BY RowsBehind
<1>2. x \in C /\ ~x.eof /\ KeyAt(t, x) = k
  BY <1>1, CursorsAre, CursorReads DEF OnKey
<1>3. MovesOn(t, rows, C)
  BY TreeMoves DEF TreeOf
<1> HIDE DEF C, x, k
<1>4. /\ c \in C
      /\ c.eof => \A y \in rows : y <= k
      /\ ~c.eof => k < KeyAt(t, c) /\ \A y \in rows : y <= k \/ y >= KeyAt(t, c)
  BY <1>2, <1>3 DEF MovesOn
<1>5. ~c.eof => KeyAt(t, c) \in rows
  BY <1>3, <1>4 DEF MovesOn
<1> HIDE DEF c
<1>6. CASE c = AtEnd
  <2>1. \A y \in rows : ~(y > k)
    BY <1>1, <1>4, <1>6, EndIs, Bounds
  <2>2. Greater(k) = {}
    BY <2>1 DEF Greater
  <2>3. ~AtRow(t, c)
    BY <1>6, NoRow
  <2> QED
    BY <1>1, <2>2, <2>3, MovedIs DEF c, x, k
<1>7. CASE c # AtEnd
  <2>1. OnKey(t, K, L, c)
    BY <1>4, <1>7, CursorsAre DEF C
  <2>2. PICK j \in 1..Len(L) : \E n \in 1..Len(L[j]) : c = On(Place(t, K, j, n))
    BY <2>1 DEF OnKey
  <2>3. PICK n \in 1..Len(L[j]) : c = On(Place(t, K, j, n))
    BY <2>2
  <2>4. AtRow(t, c) /\ ~c.eof
    BY <1>1, <2>3, RowIs, CursorReads
  <2>5. MovedOn(t, c, k)
    BY <1>1, <1>4, <1>5, <2>4, MovedIs
  <2> QED
    BY <2>5 DEF c, x, k
<1> QED
  BY <1>6, <1>7

(* The place of the cursor in its leaf.                                     *)
LEMMA HereIs ==
  ASSUME NEW K, NEW D, NEW L, NEW i, NEW m,
         InTree(tree, K, D, L), i \in 1..Len(L), m \in 1..Len(L[i]), cursor = On(Place(tree, K, i, m))
  PROVE  /\ Last(cursor.stack) = At(K[i], m) /\ Index = m /\ InLeaf = Len(L[i])
         /\ Len(cursor.stack) = IF Many(L) THEN 2 ELSE 1
<1>1. Listed(K, D, L) /\ Count(tree, K[i]) = Len(L[i])
  BY Reads DEF InTree, HasKeys
<1> DEFINE s == Place(tree, K, i, m)
<1>2. cursor.stack = s /\ Last(cursor.stack) = At(K[i], m)
  <2>1. Last(On(s).stack) = At(K[i], m) /\ On(s).stack = s
    BY CursorReads
  <2> QED
    BY <2>1
<1>3. Index = m /\ InLeaf = Len(L[i])
  BY <1>1, <1>2 DEF Index, InLeaf, At
<1>4. Len(s) = IF Many(L) THEN 2 ELSE 1
  <2>1. CASE Many(L)
    <3>1. s = <<At(tree.root, i), At(K[i], m)>>
      BY <1>1, <2>1, PlaceReads
    <3> QED
      BY <2>1, <3>1
  <2>2. CASE ~Many(L)
    <3>1. s = <<At(K[i], m)>>
      BY <1>1, <2>2, PlaceReads
    <3> QED
      BY <2>2, <3>1
  <2> QED
    BY <2>1, <2>2
<1> HIDE DEF s
<1> QED
  BY <1>2, <1>3, <1>4

LEMMA StepMoves ==
  ASSUME TreeInv, Step
  PROVE  MovedOn(tree', cursor', KeyAt(tree, cursor))
<1>1. Sound /\ Positioned /\ steady /\ cursor' = Advance(tree, cursor) /\ tree' = tree
  BY DEF Step, Move
<1>2. PICK K, D, L, i, m :
        /\ TreeOf(tree, K, D, L, rows) /\ i \in 1..Len(L) /\ m \in 1..Len(L[i])
        /\ cursor = On(Place(tree, K, i, m)) /\ KeyAt(tree, cursor) = L[i][m]
  BY <1>1, OnRow
<1> QED
  BY <1>1, <1>2, NextMoves

LEMMA DeleteMoves ==
  ASSUME TreeInv, Delete
  PROVE  MovedOn(tree', cursor', KeyAt(tree, cursor)) <=> ~OddDelete
<1> DEFINE d == Deleted(tree, cursor)
           k == KeyAt(tree, cursor)
<1>1. Sound /\ Positioned /\ steady /\ tree' = d.tree /\ cursor' = d.cursor
  BY DEF Delete
<1>2. PICK K, D, L, i, m :
        /\ TreeOf(tree, K, D, L, rows) /\ i \in 1..Len(L) /\ m \in 1..Len(L[i])
        /\ cursor = On(Place(tree, K, i, m)) /\ k = L[i][m]
  BY <1>1, OnRow
<1> DEFINE n == Len(L[i])
           cut == CutFrom(tree, K, i, m)
<1>3. /\ rows \in SUBSET Keys /\ Listed(K, D, L) /\ InTree(tree, K, D, L) /\ n \in Nat
      /\ k \in Int /\ m \in 1..n
  <2> HIDE DEF k
  <2>1. /\ rows \in SUBSET Keys /\ Listed(K, D, L) /\ InTree(tree, K, D, L) /\ Len(L[i]) \in Nat
        /\ L[i][m] \in Int
    BY <1>2, RowsBehind
  <2> QED
    BY <1>2, <2>1
<1>4. Last(cursor.stack) = At(K[i], m) /\ Index = m /\ InLeaf = n
  BY <1>2, <1>3, HereIs
<1>5. Cut(tree, K, D, L, i, m, cursor, d, Emptied(tree, cursor))
  BY <1>2, <1>3, DeletedIs
<1>6. PICK L1 : InTree(cut, K, D, L1) /\ CutTree(K, D, L, L1, i, m) /\ cut.root = tree.root
  <2> HIDE DEF d, k
  <2>1. \E L1 : /\ InTree(CutFrom(tree, K, i, m), K, D, L1) /\ CutTree(K, D, L, L1, i, m)
                /\ CutFrom(tree, K, i, m).root = tree.root
    <3>1. i \in 1..Len(L) /\ m \in 1..Len(L[i])
      BY <1>2
    <3> HIDE DEF n, cut
    <3> QED
      BY <1>3, <3>1, CutIs
  <2> QED
    BY <2>1
<1>7. OddDelete <=> m = n /\ Greater(k) # {}
  BY <1>4 DEF OddDelete
<1> HIDE DEF d, k, cut
<1>8. CASE ~(n > 1)
  <2>1. m = n
    <3> HIDE DEF n
    <3> QED
      BY <1>3, <1>8
  <2>2. cursor' = AtEnd
    BY <1>1, <1>5, <1>8 DEF Cut
  <2>3. ~AtRow(tree', cursor')
    BY <2>2, NoRow
  <2> QED
    BY <1>3, <1>7, <2>1, <2>3, MovedIs DEF k
<1>9. CASE n > 1
  <2>1. tree' = cut /\ cursor' = cursor
    BY <1>1, <1>5, <1>9 DEF Cut, cut
  <2>2. i \in 1..Len(L1) /\ Len(L1[i]) = n - 1
    BY <1>2, <1>6 DEF CutTree
  <2>3. CASE m = n
    <3>1. DOMAIN Cells(cut, K[i]) = 1..n - 1
      BY <1>6, <2>2, Reads DEF HasKeys
    <3>2. m \notin 1..n - 1
      <4> HIDE DEF n
      <4> QED
        BY <1>3, <2>3
    <3>3. Last(cursor.stack).page = K[i] /\ Last(cursor.stack).index = m
      BY <1>4 DEF At
    <3>4. ~AtRow(tree', cursor')
      BY <2>1, <3>1, <3>2, <3>3 DEF AtRow
    <3> QED
      BY <1>3, <1>7, <2>3, <3>4, MovedIs DEF k
  <2>4. CASE m # n
    <3>1. m < n /\ m \in 1..n - 1 /\ ~(m < m)
      <4> HIDE DEF n
      <4> QED
        BY <1>3, <2>4
    <3> DEFINE j == L[i][m + 1]
    <3>2. L1[i][m] = j
      <4>1. \A x \in 1..n - 1 : L1[i][x] = IF x < m THEN L[i][x] ELSE L[i][x + 1]
        BY <1>6 DEF CutTree, Removal
      <4> HIDE DEF n
      <4> QED
        BY <3>1, <4>1
    <3>3. j \in rows /\ k < j /\ \A x \in rows : x <= k \/ x >= j
      BY <1>2, <3>1, RowsBehind
    <3>4. cursor' = On(Place(cut, K, i, m))
      BY <1>2, <1>6, <2>1 DEF Place
    <3>5. m \in 1..Len(L1[i])
      BY <2>2, <3>1
    <3>6. AtRow(tree', cursor') /\ KeyAt(tree', cursor') = j
      BY <1>6, <2>1, <2>2, <3>2, <3>4, <3>5, RowIs
    <3> HIDE DEF j
    <3>7. MovedOn(tree', cursor', k)
      BY <1>3, <3>3, <3>6, MovedIs
    <3> QED
      BY <1>7, <2>4, <3>7 DEF k
  <2> QED
    BY <2>3, <2>4
<1> QED
  BY <1>8, <1>9

(* A key taken out of its leaf and put in again has its old place.          *)
LEMMA PutBack ==
  ASSUME NEW K, NEW D, NEW L, NEW L1, NEW L3, NEW i, NEW m, NEW j,
         Listed(K, D, L), Ordered(D, L), i \in 1..Len(L), m \in 1..Len(L[i]),
         CutTree(K, D, L, L1, i, m), PutTree(K, D, L1, L3, i, j, L[i][m]), IndexIn(L1[i], j, L[i][m])
  PROVE  L3 = L
<1> DEFINE n == Len(L[i])
           s == L[i]
           s1 == L1[i]
           s3 == L3[i]
           k == s[m]
<1>1. /\ s \in Seq(Keys) /\ n \in Nat /\ m \in 1..n /\ DOMAIN s = 1..n
      /\ Len(L) \in Nat /\ DOMAIN L = 1..Len(L) /\ L \in Seq(Seq(Keys))
  BY ListReads DEF Listed
<1>2. /\ Len(s1) = n - 1 /\ Len(L1) = Len(L) /\ \A x \in 1..Len(L) : x # i => L1[x] = L[x]
      /\ \A x \in 1..n - 1 : s1[x] = IF x < m THEN s[x] ELSE s[x + 1]
  BY DEF CutTree, Removal
<1>3. /\ Listed(K, D, L3) /\ Len(L3) = Len(L) /\ \A x \in 1..Len(L) : x # i => L3[x] = L[x]
      /\ Len(s3) = Len(s1) + 1
      /\ \A x \in 1..Len(s1) + 1 : s3[x] = IF x < j THEN s1[x] ELSE IF x = j THEN k ELSE s1[x - 1]
  BY <1>2 DEF PutTree, Insertion
<1>4. /\ s3 \in Seq(Keys) /\ DOMAIN s3 = 1..Len(s3) /\ L3 \in Seq(Seq(Keys)) /\ DOMAIN L3 = 1..Len(L3)
  <2>1. i \in 1..Len(L3)
    BY <1>3
  <2>2. L3[i] \in Seq(Keys) /\ DOMAIN L3[i] = 1..Len(L3[i]) /\ DOMAIN L3 = 1..Len(L3)
    BY <1>3, <2>1, ListReads
  <2>3. L3 \in Seq(Seq(Keys))
    BY <1>3 DEF Listed
  <2> QED
    BY <2>2, <2>3
<1>5. j \in 1..Len(s1) + 1 /\ \A x \in 1..Len(s1) : s1[x] < k <=> x < j
  BY DEF IndexIn
<1>6. /\ \A x, y \in 1..n : x < y => s[x] < s[y]
      /\ \A x \in 1..n : s[x] \in Int
  <2>1. Increasing(s)
    BY DEF Ordered
  <2>2. Keys \in SUBSET Int
    BY Bounds
  <2>5. \A x \in 1..n : s[x] \in Keys
    BY ListReads
  <2> HIDE DEF s, n
  <2>3. \A x, y \in 1..n : x < y => s[x] < s[y]
    BY <1>1, <2>1 DEF Increasing
  <2>4. \A x \in 1..n : s[x] \in Int
    BY <2>2, <2>5
  <2> QED
    BY <2>3, <2>4
<1> HIDE DEF n, s, s1, s3
<1>7. j \in 1..n /\ n - 1 + 1 = n
  BY <1>1, <1>2, <1>5
<1>8. ~(j < m)
  <2> SUFFICES ASSUME j < m PROVE FALSE
    OBVIOUS
  <2>1. j \in 1..n - 1 /\ s1[j] = s[j] /\ s[j] < k
    BY <1>1, <1>2, <1>6, <1>7
  <2> QED
    BY <1>2, <1>5, <1>7, <2>1
<1>9. ~(m < j)
  <2> SUFFICES ASSUME m < j PROVE FALSE
    OBVIOUS
  <2> DEFINE y == m + 1
  <2>1. m \in 1..n - 1 /\ ~(m < m) /\ y \in 1..n /\ m < y
    BY <1>1, <1>7
  <2>2. s1[m] = s[y]
    BY <1>2, <2>1
  <2> HIDE DEF y
  <2>3. k < s1[m] /\ k \in Int /\ s1[m] \in Int
    BY <1>1, <1>6, <2>1, <2>2
  <2>4. s1[m] < k
    BY <1>2, <1>5, <2>1
  <2> QED
    BY <2>3, <2>4
<1>10. j = m
  BY <1>1, <1>7, <1>8, <1>9
<1>11. \A x \in 1..n : s3[x] = s[x]
  <2> TAKE x \in 1..n
  <2>1. s3[x] = IF x < m THEN s1[x] ELSE IF x = m THEN k ELSE s1[x - 1]
    BY <1>2, <1>3, <1>7, <1>10
  <2>2. CASE x < m
    <3>1. x \in 1..n - 1
      BY <1>1, <2>2
    <3> QED
      BY <1>2, <2>1, <2>2, <3>1
  <2>3. CASE x = m
    <3>1. ~(x < m)
      BY <1>1, <2>3
    <3> QED
      BY <2>1, <2>3, <3>1
  <2>4. CASE m < x
    <3> DEFINE y == x - 1
    <3>1. y \in 1..n - 1 /\ ~(y < m) /\ y + 1 = x /\ ~(x < m) /\ x # m
      BY <1>1, <2>4
    <3>2. s3[x] = s1[y]
      BY <2>1, <3>1
    <3> HIDE DEF y
    <3> QED
      BY <1>2, <3>1, <3>2
  <2> QED
    BY <1>1, <2>2, <2>3, <2>4
<1>12. s3 = s
  <2>1. Len(s3) = n
    BY <1>2, <1>3, <1>7
  <2>2. s = [x \in 1..n |-> s[x]] /\ s3 = [x \in 1..n |-> s3[x]]
    BY <1>1, <1>4, <2>1
  <2> QED
    BY <1>11, <2>2
<1>13. \A x \in 1..Len(L) : L3[x] = L[x]
  BY <1>3, <1>12 DEF s, s3
<1>14. L = [x \in 1..Len(L) |-> L[x]] /\ L3 = [x \in 1..Len(L) |-> L3[x]]
  BY <1>1, <1>3, <1>4
<1> QED
  BY <1>13, <1>14

(* The leaf that a key leads to has too many with it, or large ones.        *)
LEMMA OverfullIs ==
  ASSUME NEW t, NEW K, NEW D, NEW L, NEW L1, NEW i, NEW m, NEW large \in BOOLEAN,
         Listed(K, D, L), Ordered(D, L), Fits(D, L), i \in 1..Len(L), m \in 1..Len(L[i]), Len(L[i]) > 1,
         CutTree(K, D, L, L1, i, m), InTree(t, K, D, L1), Ordered(D, L1)
  PROVE  Overfull(t, L[i][m], large) <=> large
<1> DEFINE k == L[i][m]
           n == Len(L[i])
<1>1. k \in Int /\ n \in Nat /\ n > 1 /\ n < LeafCapacity /\ LeafCapacity \in Int
  BY ListReads, Bounds DEF Fits
<1>2. Len(L1) = Len(L) /\ Len(L1[i]) = n - 1
  BY DEF CutTree
<1> HIDE DEF k
<1>3. PICK j \in 1..Len(L1) : \E x \in 1..Len(L1[j]) + 1 :
        /\ WayDown(t, k) = Place(t, K, j, x) /\ IndexIn(L1[j], x, k)
        /\ j > 1 => D[j - 1] <= k
        /\ j < Len(L1) => k < D[j]
  BY <1>1, WayIs
<1>4. PICK x \in 1..Len(L1[j]) + 1 : WayDown(t, k) = Place(t, K, j, x)
  BY <1>3
<1>5. j = i
  BY <1>2, <1>3, SameLeaf DEF k
<1>6. Overfull(t, k, large) <=> (Len(L1[i]) + 1 >= LeafCapacity \/ (large /\ Len(L1[i]) + 1 > 1))
  BY <1>4, <1>5, InsertedIs
<1> HIDE DEF n
<1>7. Overfull(t, k, large) <=> (n - 1 + 1 >= LeafCapacity \/ (large /\ n - 1 + 1 > 1))
  BY <1>2, <1>6
<1>8. n - 1 + 1 > 1 /\ ~(n - 1 + 1 >= LeafCapacity)
  BY <1>1
<1> QED
  BY <1>7, <1>8 DEF k

(* Next on a leaf that is the whole way down, and behind the last key of a  *)
(* leaf below the root.                                                     *)
LEMMA AloneMoves ==
  ASSUME NEW t, NEW p, NEW m, p # 0
  PROVE  Advance(t, On(<<At(p, m)>>)) = IF m < Count(t, p) THEN On(<<At(p, m + 1)>>) ELSE AtEnd
<1> DEFINE s == <<At(p, m)>>
           b == At(p, m)
           d == At(p, m + 1)
<1>1. s # << >> /\ Last(s) = b /\ Front(s) = << >> /\ Append(<< >>, d) = <<d>>
  <2> HIDE DEF b, d
  <2>1. Last(<<b>>) = b /\ Front(<<b>>) = << >> /\ Append(<< >>, d) = <<d>> /\ <<b>> # << >>
    BY Pair
  <2> QED
    BY <2>1 DEF b
<1> HIDE DEF s
<1>2. Opened(t, << >>) = {}
  BY DEF Opened
<1> QED
  BY <1>1, <1>2, StepUp DEF s

LEMMA BehindMoves ==
  ASSUME NEW t, NEW K, NEW D, NEW L, NEW i, NEW m \in Nat,
         InTree(t, K, D, L), Many(L), i \in 1..Len(L) - 1, ~(m < Len(L[i]))
  PROVE  Advance(t, On(<<At(t.root, i), At(K[i], m)>>)) = On(Place(t, K, i + 1, 1))
<1> DEFINE j == i + 1
           N == Len(L)
<1>1. Listed(K, D, L) /\ N \in Nat
  BY ListReads DEF InTree
<1>2. i \in 1..N /\ j \in 1..N /\ i \in Nat \ {0} /\ i <= N - 1 /\ N - 1 \in Nat
  <2> HIDE DEF N
  <2> QED
    BY <1>1 DEF N
<1>3. K[i] # 0 /\ Count(t, K[i]) = Len(L[i])
  BY <1>2, Reads DEF HasKeys
<1>4. Count(t, t.root) = N - 1 /\ Child(t, t.root, j) = K[j]
  BY <1>2, RootReads DEF HasLeaves
<1> HIDE DEF j, N
<1>5. Leftmost(t, K[j]) = <<At(K[j], 1)>>
  <2> DEFINE turn == [q \in DOMAIN t.pages |-> 1]
  <2>1. K[j] \in DOMAIN t.pages /\ t.root \in DOMAIN t.pages
    BY <1>2 DEF InTree, N
  <2>2. turn[K[j]] = 1 /\ turn[t.root] = 1 /\ 1 \in 1..N
    BY <1>1, <1>2, <2>1
  <2>3. Leftmost(t, K[j]) = Walk(t, K[j], turn)
    BY DEF Leftmost
  <2> HIDE DEF turn
  <2>5. j \in 1..Len(L) /\ (Many(L) => turn[t.root] \in 1..Len(L))
    BY <1>2, <2>2 DEF N
  <2>4. Walk(t, K[j], turn) = <<At(K[j], turn[K[j]])>>
    BY <2>5, Walked
  <2> QED
    BY <2>2, <2>3, <2>4
<1>6. Advance(t, On(<<At(t.root, i), At(K[i], m)>>)) = On(<<At(t.root, j)>> \o <<At(K[j], 1)>>)
  <2>1. Count(t, t.root) \in Nat /\ i <= Count(t, t.root) /\ ~(m < Count(t, K[i]))
    BY <1>2, <1>3, <1>4
  <2>2. K[i] # 0 /\ i \in Nat \ {0}
    BY <1>2, <1>3
  <2>3. Advance(t, On(<<At(t.root, i), At(K[i], m)>>)) =
          IF m < Count(t, K[i]) THEN On(<<At(t.root, i), At(K[i], m + 1)>>)
          ELSE IF i <= Count(t, t.root) THEN On(<<At(t.root, i + 1)>> \o Leftmost(t, Child(t, t.root, i + 1)))
          ELSE AtEnd
    BY <2>1, <2>2, AdvancePair
  <2>4. Child(t, t.root, i + 1) = K[j] /\ i + 1 = j
    BY <1>4 DEF j
  <2> QED
    BY <1>5, <2>1, <2>3, <2>4
<1>7. Place(t, K, j, 1) = <<At(t.root, j), At(K[j], 1)>>
  BY <1>1, PlaceReads
<1>8. <<At(t.root, j)>> \o <<At(K[j], 1)>> = <<At(t.root, j), At(K[j], 1)>>
  BY Pair
<1> QED
  BY <1>6, <1>7, <1>8 DEF j

(* UPDATE of a row that has grown: its leaf is split, in the middle.        *)
LEMMA SplitMoves ==
  ASSUME NEW K, NEW D, NEW L, NEW i, NEW m, NEW u, NEW K2, NEW D2, NEW L2,
         TreeOf(tree, K, D, L, rows), i \in 1..Len(L), m \in 1..Len(L[i]), Len(L[i]) > 1,
         cursor = On(Place(tree, K, i, m)), KeyAt(tree, cursor) = L[i][m],
         Divided(u, K, D, L, K2, D2, L2, i), TreeOf(u, K2, D2, L2, rows),
         Many(L) => u.root = tree.root
  PROVE  MovedOn(u, Advance(u, cursor), KeyAt(tree, cursor)) <=> ~OddRewrite(TRUE)
<1> DEFINE n == Len(L[i])
           k == L[i][m]
           h == n \div 2
           c == Advance(u, cursor)
<1>1. /\ rows \in SUBSET Keys /\ Listed(K, D, L) /\ InTree(tree, K, D, L) /\ Len(L) \in Nat
      /\ n \in Nat /\ n > 1 /\ k \in Int /\ m \in 1..n /\ L[i] \in Seq(Keys) /\ Ordered(D, L)
  BY RowsBehind
<1>2. Index = m /\ InLeaf = n /\ Len(cursor.stack) = IF Many(L) THEN 2 ELSE 1
  BY <1>1, HereIs
<1>3. PICK p, lo, up : /\ Listed(K2, D2, L2) /\ Many(L2) /\ InTree(u, K2, D2, L2) /\ Len(lo) = Mid(L[i])
                       /\ Split(K, D, L, K2, D2, L2, i, p, lo, up)
                       /\ SplitReads(K, D, L, K2, D2, L2, i, p, lo, up)
  BY DEF Divided
<1>4. Len(lo) = h /\ h \in Nat /\ 0 < h /\ h < n /\ h + 1 \in 1..n
  <2>1. Len(lo) = h
    BY <1>3 DEF Mid
  <2> HIDE DEF n
  <2> QED
    BY <1>1, <2>1
<1>5. /\ lo \in Seq(Keys) /\ up \in Seq(Keys) /\ Len(up) > 0
      /\ \A x \in 1..h : lo[x] = L[i][x]
      /\ up[1] = L[i][h + 1]
  <2>1. /\ lo \in Seq(Keys) /\ up \in Seq(Keys) /\ Len(up) > 0
        /\ \A x \in 1..Len(lo) : lo[x] = L[i][x]
        /\ \A x \in 1..Len(up) : up[x] = L[i][Len(lo) + x]
    BY <1>3 DEF Split
  <2>2. 1 \in 1..Len(up)
    BY <2>1
  <2> HIDE DEF h
  <2> QED
    BY <1>4, <2>1, <2>2
<1>6. /\ Len(L2) = Len(L) + 1 /\ i \in 1..Len(L2) /\ i \in 1..Len(L2) - 1
      /\ i + 1 \in 1..Len(L2) /\ K2[i] = K[i] /\ L2[i] = lo /\ L2[i + 1] = up
  <2> DEFINE N == Len(L)
             M == Len(L2)
             i1 == i + 1
  <2>1. /\ M = N + 1
        /\ \A x \in 1..N + 1 : /\ x = i => K2[x] = K[i] /\ L2[x] = lo
                               /\ x = i + 1 => L2[x] = up
    BY <1>3 DEF SplitReads
  <2>2. N \in Nat /\ i \in 1..N
    BY <1>1
  <2> HIDE DEF N, M
  <2>3. i \in 1..N + 1 /\ i1 \in 1..N + 1 /\ i \in 1..M - 1 /\ i \in 1..M /\ i1 \in 1..M
    BY <2>1, <2>2
  <2> QED
    BY <2>1, <2>3 DEF N, M
<1>7. /\ ~(n = 1) /\ Many(K2)
      /\ ~Many(L) => (OddRewrite(TRUE) <=> m \in h..n - 1)
      /\ Many(L) => (OddRewrite(TRUE) <=> m > h)
  <2>2. Many(K2)
    BY <1>3, ListReads
  <2> HIDE DEF n
  <2>1. ~(n = 1) /\ n > 1
    BY <1>1
  <2> QED
    BY <1>1, <1>2, <2>1, <2>2 DEF OddRewrite
<1> HIDE DEF n, k, h, c
<1>8. CASE Many(L)
  <2>1. cursor = On(<<At(u.root, i), At(K[i], m)>>) /\ cursor = On(Place(u, K2, i, m))
    <3>1. Place(tree, K, i, m) = <<At(tree.root, i), At(K[i], m)>>
      BY <1>1, <1>8, PlaceReads
    <3>2. Place(u, K2, i, m) = <<At(u.root, i), At(K[i], m)>>
      BY <1>6, <1>7 DEF Place
    <3> QED
      BY <1>8, <3>1, <3>2
  <2>2. CASE m <= h
    <3>1. m \in 1..h /\ ~(m > h)
      BY <1>1, <1>4, <2>2
    <3>2. m \in 1..Len(L2[i]) /\ L2[i][m] = k
      BY <1>4, <1>5, <1>6, <3>1 DEF k
    <3>3. MovedOn(u, Advance(u, On(Place(u, K2, i, m))), L2[i][m])
      BY <1>6, <3>2, NextMoves
    <3> QED
      BY <1>7, <1>8, <2>1, <3>1, <3>2, <3>3 DEF k
  <2>3. CASE m > h
    <3> DEFINE i1 == i + 1
    <3>1. m \in Nat /\ ~(m < Len(L2[i]))
      BY <1>1, <1>4, <1>6, <2>3
    <3>2. c = On(Place(u, K2, i1, 1))
      <4>1. Advance(u, On(<<At(u.root, i), At(K2[i], m)>>)) = On(Place(u, K2, i1, 1))
        BY <1>3, <1>6, <3>1, BehindMoves
      <4> QED
        BY <1>6, <2>1, <4>1 DEF c
    <3>3. 1 \in 1..Len(L2[i1]) /\ L2[i1][1] = L[i][h + 1] /\ i1 \in 1..Len(L2)
      <4>1. 1 \in 1..Len(up)
        BY <1>5
      <4> QED
        BY <1>5, <1>6, <4>1
    <3> HIDE DEF i1
    <3>4. AtRow(u, c) /\ KeyAt(u, c) = L[i][h + 1]
      BY <1>3, <3>2, <3>3, RowIs
    <3>5. L[i][h + 1] <= k /\ L[i][h + 1] \in Int
      <4> DEFINE y == h + 1
      <4>1. y \in 1..n /\ (y = m \/ y < m)
        BY <1>1, <1>4, <2>3
      <4>2. \A x, z \in 1..n : x < z => L[i][x] < L[i][z]
        <5>1. Increasing(L[i]) /\ DOMAIN L[i] = 1..n
          BY <1>1 DEF Ordered, n
        <5> QED
          BY <5>1 DEF Increasing
      <4>3. L[i][y] \in Int
        BY <1>1, <4>1, Bounds DEF n
      <4> HIDE DEF y
      <4>4. L[i][y] <= k
        BY <1>1, <4>1, <4>2, <4>3 DEF k
      <4> QED
        BY <4>3, <4>4 DEF y
    <3>6. ~MovedOn(u, c, k)
      BY <1>1, <3>4, <3>5, MovedIs
    <3> QED
      BY <1>7, <1>8, <2>3, <3>6 DEF c, k
  <2>4. m <= h \/ m > h
    BY <1>1, <1>4
  <2> QED
    BY <2>2, <2>3, <2>4 DEF c, k
<1>9. CASE ~Many(L)
  <2>1. cursor = On(<<At(K[i], m)>>)
    BY <1>1, <1>9, PlaceReads
  <2>2. i = Len(L)
    <3> DEFINE N == Len(L)
    <3>1. N \in Nat /\ N > 0 /\ N <= 1 /\ i \in 1..N
      BY <1>1, <1>9, LeafCount
    <3> HIDE DEF N
    <3>2. i = N
      BY <3>1
    <3> QED
      BY <3>2 DEF N
  <2>3. /\ K[i] # 0 /\ Count(u, K[i]) = h /\ DOMAIN Cells(u, K[i]) = 1..h
        /\ \A x \in 1..h : Cells(u, K[i])[x].key = lo[x]
    <3>1. K2[i] \in Nat \ {0} /\ HasKeys(u, K2[i], L2[i])
      BY <1>3, <1>6, Reads
    <3>2. K[i] # 0 /\ HasKeys(u, K[i], lo)
      BY <1>6, <3>1
    <3> QED
      BY <1>4, <3>2 DEF HasKeys
  <2>4. c = IF m < h THEN On(<<At(K[i], m + 1)>>) ELSE AtEnd
    BY <2>1, <2>3, AloneMoves DEF c
  <2>5. CASE m < h
    <3> DEFINE y == m + 1
               b == At(K[i], y)
    <3>1. y \in 1..h /\ m < n /\ ~(m \in h..n - 1)
      BY <1>1, <1>4, <2>5
    <3>2. y \in 1..n /\ L[i][y] \in rows /\ k < L[i][y] /\ \A x \in rows : x <= k \/ x >= L[i][y]
      BY <3>1, RowsBehind DEF k, n
    <3> HIDE DEF y
    <3>3. b.page = K[i] /\ b.index = y
      BY DEF At
    <3>4. c = On(<<b>>)
      BY <2>4, <2>5 DEF y
    <3> HIDE DEF b
    <3>5. ~c.eof /\ c.stack = <<b>> /\ c.stack # << >> /\ Last(c.stack) = b
      <4>1. Last(<<b>>) = b /\ <<b>> # << >>
        BY Pair
      <4> QED
        BY <3>4, <4>1 DEF On
    <3>6. AtRow(u, c)
      BY <2>3, <3>1, <3>3, <3>5 DEF AtRow, Lost
    <3>7. KeyAt(u, c) = L[i][y]
      BY <1>5, <2>3, <3>1, <3>3, <3>5 DEF KeyAt
    <3>8. MovedOn(u, c, k)
      BY <1>1, <3>2, <3>6, <3>7, MovedIs
    <3> QED
      BY <1>7, <1>9, <3>1, <3>8 DEF c, k
  <2>6. CASE ~(m < h)
    <3>1. ~AtRow(u, c)
      BY <2>4, <2>6, NoRow
    <3>2. MovedOn(u, c, k) <=> Greater(k) = {}
      BY <1>1, <3>1, MovedIs
    <3>3. Greater(k) = {} <=> m = n
      <4>1. m = n => Greater(k) = {}
        BY <2>2, RowsBehind DEF k, n
      <4>2. m < n => Greater(k) # {}
        <5> DEFINE y == m + 1
        <5>1. m < n => L[i][y] \in rows /\ k < L[i][y]
          BY RowsBehind DEF k, n
        <5> HIDE DEF y
        <5> DEFINE x == L[i][y]
        <5> HIDE DEF x
        <5>2. m < n => x \in rows /\ k < x
          BY <5>1 DEF x
        <5>3. rows \in SUBSET Int
          BY <1>1, Bounds
        <5>4. m < n => x > k
          BY <1>1, <5>2, <5>3
        <5> QED
          BY <5>2, <5>4 DEF Greater
      <4> QED
        BY <1>1, <4>1, <4>2
    <3>4. m \in h..n - 1 <=> m # n
      BY <1>1, <1>4, <2>6
    <3> QED
      BY <1>7, <1>9, <3>2, <3>3, <3>4 DEF c, k
  <2> QED
    BY <2>5, <2>6
<1> QED
  BY <1>8, <1>9

LEMMA RewriteMoves ==
  ASSUME NEW grown \in BOOLEAN, TreeInv, Rewrite(grown), Sound'
  PROVE  MovedOn(tree', Advance(tree', cursor'), KeyAt(tree, cursor)) <=> ~OddRewrite(grown)
<1> DEFINE d == Deleted(tree, cursor)
           e == Emptied(tree, cursor)
           k == KeyAt(tree, cursor)
           R == rows \ {k}
           u == Inserted(d.tree, k, grown)
<1>1. /\ Sound /\ Positioned /\ steady /\ cursor' = d.cursor
      /\ e = "none" /\ ~SplitsInterior(d.tree, k, grown) /\ tree' = u
  BY DEF Rewrite, Sound
<1>2. PICK K, D, L, i, m :
        /\ TreeOf(tree, K, D, L, rows) /\ i \in 1..Len(L) /\ m \in 1..Len(L[i])
        /\ cursor = On(Place(tree, K, i, m)) /\ k = L[i][m]
  BY <1>1, OnRow
<1> DEFINE n == Len(L[i])
<1>3. /\ rows \in SUBSET Keys /\ Listed(K, D, L) /\ InTree(tree, K, D, L) /\ Ordered(D, L)
      /\ n \in Nat /\ k \in Int /\ k \in Keys /\ k \in rows /\ m \in 1..n
  <2> HIDE DEF k
  <2>1. /\ rows \in SUBSET Keys /\ Listed(K, D, L) /\ InTree(tree, K, D, L) /\ Ordered(D, L)
        /\ Len(L[i]) \in Nat /\ L[i][m] \in Int /\ L[i][m] \in Keys /\ L[i][m] \in rows
    BY <1>2, RowsBehind
  <2> QED
    BY <1>2, <2>1
<1>4. Index = m /\ InLeaf = n /\ ~cursor.eof
  BY <1>1, <1>2, <1>3, HereIs DEF Positioned
<1>5. Cut(tree, K, D, L, i, m, cursor, d, e) /\ Cutting(tree, K, D, L, rows, i, m, cursor, d, e)
  BY <1>2, <1>3, DeletedIs, DeleteKeeps
<1>6. R \union {k} = rows /\ k \notin R
  BY <1>3
<1> HIDE DEF d, e, k, R, u
<1>7. CASE ~(n > 1)
  <2>1. n = 1
    <3> HIDE DEF n
    <3> QED
      BY <1>3, <1>7
  <2>2. cursor' = AtEnd
    BY <1>1, <1>5, <1>7 DEF Cut
  <2>3. ~AtRow(tree', Advance(tree', cursor'))
    BY <2>2, EndIs, NoRow
  <2>4. OddRewrite(grown) <=> Greater(k) # {}
    BY <1>4, <2>1 DEF OddRewrite, k
  <2> QED
    BY <1>3, <2>3, <2>4, MovedIs DEF k
<1>8. CASE n > 1
  <2>1. cursor' = cursor /\ ~d.cursor.eof
    BY <1>1, <1>4, <1>5, <1>8 DEF Cut
  <2>2. PICK L1 : /\ CutTree(K, D, L, L1, i, m) /\ TreeOf(d.tree, K, D, L1, R)
                  /\ d.tree.root = tree.root
    BY <1>2, <1>5, <2>1 DEF Cutting, R
  <2>3. GrownTo(u, d.tree, K, D, L1, R, k, grown)
    BY <1>3, <1>6, <2>2, InsertKeeps DEF u
  <2>4. Overfull(d.tree, k, grown) <=> grown
    BY <1>2, <1>3, <1>8, <2>2, OverfullIs DEF TreeOf
  <2>5. PICK j, x, L3 :
          /\ j \in 1..Len(L1) /\ IndexIn(L1[j], x, k)
          /\ j > 1 => D[j - 1] <= k
          /\ j < Len(L1) => k < D[j]
          /\ PutTree(K, D, L1, L3, j, x, k)
          /\ ~grown => TreeOf(u, K, D, L3, rows)
          /\ grown => /\ \E K2, D2, L2 : Divided(u, K, D, L3, K2, D2, L2, j) /\ TreeOf(u, K2, D2, L2, rows)
                      /\ Many(L1) => u.root = d.tree.root
    BY <1>1, <1>6, <2>3, <2>4 DEF GrownTo
  <2>6. Len(L1) = Len(L) /\ (Many(L1) <=> Many(L))
    BY <2>2 DEF CutTree
  <2>7. j = i
    BY <1>2, <1>3, <2>5, <2>6, SameLeaf
  <2>8. L3 = L
    BY <1>2, <1>3, <2>2, <2>5, <2>7, PutBack
  <2>9. CASE ~grown
    <3>1. TreeOf(u, K, D, L, rows)
      BY <2>5, <2>8, <2>9
    <3>2. u.root = tree.root
      <4>1. IsTree(d.tree)
        BY <2>2 DEF TreeOf, InTree
      <4> QED
        BY <2>2, <2>4, <2>9, <4>1, InsertedRoot DEF u
    <3>3. cursor' = On(Place(u, K, i, m))
      BY <1>2, <2>1, <3>2 DEF Place
    <3>4. MovedOn(u, Advance(u, On(Place(u, K, i, m))), k)
      BY <1>2, <3>1, NextMoves
    <3>5. ~OddRewrite(grown)
      <4>1. ~(n = 1)
        <5> HIDE DEF n
        <5> QED
          BY <1>3, <1>8
      <4> QED
        BY <1>4, <2>9, <4>1 DEF OddRewrite
    <3> QED
      BY <1>1, <3>3, <3>4, <3>5 DEF k
  <2>10. CASE grown
    <3>1. PICK K2, D2, L2 : Divided(u, K, D, L, K2, D2, L2, i) /\ TreeOf(u, K2, D2, L2, rows)
      BY <2>5, <2>7, <2>8, <2>10
    <3>2. Many(L) => u.root = tree.root
      BY <2>2, <2>5, <2>6, <2>10
    <3>3. MovedOn(u, Advance(u, cursor), KeyAt(tree, cursor)) <=> ~OddRewrite(TRUE)
      BY <1>2, <1>8, <3>1, <3>2, SplitMoves DEF k
    <3>4. grown = TRUE
      BY <2>10
    <3> QED
      BY <1>1, <2>1, <3>3, <3>4 DEF k
  <2> QED
    BY <2>9, <2>10
<1> QED
  BY <1>7, <1>8

-----------------------------------------------------------------------------
(* The theorems                                                             *)

(* The invariant holds in every state, for any number of keys and any       *)
(* capacities of a leaf and of an interior page.                            *)
THEOREM TreeInvariant == Spec => []TreeInv
<1>1. Init => TreeInv
  BY InitInv
<1>2. TreeInv /\ [Next]_vars => TreeInv'
  BY NextInv
<1> QED
  BY <1>1, <1>2, PTL DEF Spec

(* The root is a page of the tree, no page has more cells than it holds,    *)
(* and a cursor in use is on pages of the tree.                             *)
THEOREM TreeTypeCorrect == Spec => []TypeOK
BY TreeInvariant, TypeOf, PTL

(* insert, _balance, _split_interior_page, delete and _rebalance keep every *)
(* page linked once and the keys on their sides of the dividers, as long as *)
(* none of the known kinds of damage has happened.                          *)
THEOREM TreeStaysSearchTree == Spec => []SearchTree
BY TreeInvariant, SearchOf, PTL

(* seek finds a key and what follows it, in exactly the trees and for       *)
(* exactly the keys where it is not odd.                                    *)
THEOREM SeekIsRight == Spec => []SeekFinds
BY TreeInvariant, SeekOf, PTL

(* last finds the greatest key exactly if the root is a leaf.               *)
THEOREM LastNeedsLeaf == Spec => []LastIsLast
BY TreeInvariant, LastOf, PTL

(* A scan of an undamaged tree reads the rows of the table, each once and   *)
(* in order.                                                                *)
THEOREM ScanReadsTable == Spec => []ScanOfSound
BY TreeInvariant, ScanOf, PTL

(* A scan from the first row reads the rows of the table, each once and in  *)
(* order, exactly if the tree is not damaged.                               *)
THEOREM ScanTellsDamage == Spec => []ScanIsTable
<1>1. Init => DamageShows
  BY DEF Init, DamageShows, Sound
<1>2. TreeInv /\ DamageShows /\ [Next]_vars => DamageShows'
  BY NextShows
<1>3. Spec => []DamageShows
  BY <1>1, <1>2, TreeInvariant, PTL DEF Spec
<1>4. ScanOfSound /\ DamageShows => ScanIsTable
  BY DEF ScanOfSound, DamageShows, ScanIsTable
<1> QED
  BY <1>3, <1>4, ScanReadsTable, PTL

(* A scan comes from each row to the next larger one: by its Next always,   *)
(* by a Delete exactly if the row was not the last of a leaf with more to   *)
(* come, and by an UPDATE's Delete, Insert and Next exactly if the leaf was *)
(* neither emptied nor split so that the cursor lost its place.             *)
THEOREM ScanMovesOnRows == Spec => ScanMovesOn
<1> DEFINE A == Sound /\ Sound' /\ Positioned /\ steady =>
                  LET k == KeyAt(tree, cursor)
                  IN /\ Step => MovedOn(tree', cursor', k)
                     /\ Delete => (MovedOn(tree', cursor', k) <=> ~OddDelete)
                     /\ \A grown \in BOOLEAN :
                          Rewrite(grown) => (MovedOn(tree', Advance(tree', cursor'), k) <=> ~OddRewrite(grown))
<1>1. TreeInv => A
  BY StepMoves, DeleteMoves, RewriteMoves
<1>2. TreeInv => [A]_vars
  BY <1>1
<1> HIDE DEF A
<1>3. [](TreeInv) => [][A]_vars
  BY <1>2, PTL
<1>4. Spec => [][A]_vars
  BY <1>3, TreeInvariant, PTL
<1> QED
  BY <1>4 DEF ScanMovesOn, A
=============================================================================
