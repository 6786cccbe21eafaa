----------------------------- MODULE PageProofs -----------------------------
(* Proofs about module Page, for pages of any size and any set of cells.    *)
(*                                                                          *)
(* The inductive invariant LayoutInv says of an intact page that it is laid *)
(* out: there is a sequence bl, the list of free blocks in its order, such  *)
(* that the pointers lie before the content area and the cells and the      *)
(* blocks within it, none over another. That nothing overlaps is not        *)
(* inductive by itself: a step needs to know as well that each cell is      *)
(* whole, that the pointers on the page are those in memory, and that the   *)
(* walk along the list visits the blocks of bl and ends.                    *)
(*                                                                          *)
(* An insert that finds room for its cell (Spaced) takes the first free     *)
(* block that fits, whole (TakeBlock) or its front (CutBlock), or lets the  *)
(* content area grow (Grown); PutLayout puts the cell there. If the page was*)
(* moved together before, its cells are stacked one under the other         *)
(* (DefragmentLayout), or the pointers reach into them and the page reports *)
(* damage. A split fills the page with the lower half of its cells: without *)
(* free blocks they are packed (FilledPacked); with a kept list the page is *)
(* damaged for good, and the proof owes only that it stays a page           *)
(* (RefilledPage). A delete turns the span of a cell, whose end is where the*)
(* next cell begins, into a block (CellDeleted), or reports damage.         *)
(*                                                                          *)
(* That reported damage is damage needs one fact more (EdgeInv): something  *)
(* in use begins where the content area of an intact page begins, so that   *)
(* pointers that have grown over that place destroy it.                     *)
EXTENDS Page, Loops, FunctionTheorems, SequenceTheorems, FiniteSetTheorems

(* What the units of a page hold, and the type of a page.  There are never  *)
(* any fragments, as a cell is never shorter than a free block's header.    *)
UnitValue == [kind : {"word"}, value : Nat] \union [kind : {"cell"}, cell : Cells, piece : Nat]

PageType ==
  [raw : [Units -> UnitValue], pointers : Seq(Units), content : 0..PageSize, first : Nat,
   fragments : {0}]

(* The cell that begins where the i-th pointer points.                      *)
At(p, i) == p.raw[p.pointers[i]].cell
Cellsat(p) == [i \in 1..Count(p) |-> At(p, i)]

(* A span of m units at a ends before one of n units at b, or begins behind *)
(* it.                                                                      *)
Apart(a, m, b, n) == a + m <= b \/ b + n <= a

(* The pointers are written before the content area, the cells, each whole, *)
(* within it.                                                               *)
PointersHeld(p) ==
  /\ HeaderSize + Count(p) <= p.content
  /\ \A i \in 1..Count(p) : p.raw[HeaderSize + i - 1] = Word(p.pointers[i])

CellAt(p, a, c) ==
  /\ p.content <= a /\ a + c.size <= PageSize
  /\ \A k \in 1..c.size : p.raw[a + k - 1] = Piece(c, k)

CellsHeld(p) ==
  /\ \A i \in 1..Count(p) : At(p, i) \in Cells /\ CellAt(p, p.pointers[i], At(p, i))
  /\ \A i, j \in 1..Count(p) :
       i # j => Apart(p.pointers[i], At(p, i).size, p.pointers[j], At(p, j).size)

(* bl are the free blocks, in the order of their list.                      *)
Linked(p, bl) ==
  /\ bl \in Seq(Units \ {0})
  /\ p.first = IF Len(bl) = 0 THEN 0 ELSE bl[1]
  /\ \A m \in 1..Len(bl) : p.raw[bl[m]] = Word(IF m = Len(bl) THEN 0 ELSE bl[m + 1])

BlocksHeld(p, bl) ==
  /\ Linked(p, bl)
  /\ \A m \in 1..Len(bl) :
       /\ p.content <= bl[m] /\ bl[m] + BlockSize(p, bl[m]) <= PageSize
       /\ BlockSize(p, bl[m]) >= 2
  /\ \A m, n \in 1..Len(bl) :
       m # n => Apart(bl[m], BlockSize(p, bl[m]), bl[n], BlockSize(p, bl[n]))
  /\ \A m \in 1..Len(bl), i \in 1..Count(p) :
       Apart(bl[m], BlockSize(p, bl[m]), p.pointers[i], At(p, i).size)

Layout(p, bl) == p \in PageType /\ PointersHeld(p) /\ CellsHeld(p) /\ BlocksHeld(p, bl)

-----------------------------------------------------------------------------
(* Sequences                                                                *)

(* r is s with x in front.                                                  *)
Prefixed(r, s, x) == Len(r) = Len(s) + 1 /\ r[1] = x /\ \A m \in 1..Len(s) : r[m + 1] = s[m]

(* A sequence with one more element in front.                               *)
LEMMA Prepended ==
  ASSUME NEW S, NEW s \in Seq(S), NEW x \in S
  PROVE  <<x>> \o s \in Seq(S) /\ Prefixed(<<x>> \o s, s, x)
<1> DEFINE o == <<x>>
<1>1. o \in Seq(S) /\ Len(o) = 1 /\ o[1] = x /\ Len(s) \in Nat
  OBVIOUS
<1>0. o \in Seq(S) /\ s \in Seq(S)
  BY <1>1
<1> HIDE DEF o
<1> DEFINE d == o \o s
<1>2. d \in Seq(S) /\ Len(d) = Len(o) + Len(s)
      /\ (\A k \in 1..Len(o) : d[k] = o[k]) /\ \A k \in 1..Len(s) : d[Len(o) + k] = s[k]
  BY <1>0, Joined
<1> HIDE DEF d
<1>3. d[1] = x
  BY <1>1, <1>2
<1>4. \A m \in 1..Len(s) : d[m + 1] = s[m]
  <2>1. \A m \in 1..Len(s) : 1 + m = m + 1
    BY <1>1
  <2> QED
    BY <1>1, <1>2, <2>1
<1> QED
  BY <1>1, <1>2, <1>3, <1>4 DEF Prefixed, o, d

-----------------------------------------------------------------------------
(* Units of a page                                                          *)

(* What the assumption on the sizes says, as the proofs use it.             *)
LEMMA Sizes ==
  /\ PageSize \in Nat /\ HeaderSize \in Nat /\ 1 <= HeaderSize /\ HeaderSize <= PageSize
  /\ MinBlock = 2 /\ Units = 0..PageSize - 1
  /\ \A c \in Cells : c.size \in Nat /\ 2 <= c.size /\ c.size <= PageSize
BY SizesAssumption DEF Units

(* A unit holds a number or a piece of a cell, and tells which.             *)
LEMMA UnitValues ==
  /\ \A n \in Nat : Word(n) \in UnitValue /\ Number(Word(n)) = n
  /\ \A c \in Cells, k \in Nat : Piece(c, k) \in UnitValue /\ Number(Piece(c, k)) = 0
  /\ \A u \in UnitValue : Number(u) \in Nat
  /\ \A n, c, k : Word(n) # Piece(c, k)
  /\ \A m, n : Word(m) = Word(n) => m = n
  /\ \A c, k : Piece(c, k).cell = c
<1>1. \A n \in Nat : Word(n) \in UnitValue /\ Number(Word(n)) = n
  BY DEF Word, Number, UnitValue
<1>2. \A c \in Cells, k \in Nat : Piece(c, k) \in UnitValue /\ Number(Piece(c, k)) = 0
  BY DEF Piece, Number, UnitValue
<1>3. \A u \in UnitValue : Number(u) \in Nat
  BY DEF Number, UnitValue
<1>4. \A n, c, k : Word(n) # Piece(c, k)
  <2> SUFFICES ASSUME NEW n, NEW c, NEW k, Word(n) = Piece(c, k) PROVE FALSE
    OBVIOUS
  <2>1. Word(n).kind = "word" /\ Piece(c, k).kind = "cell"
    BY DEF Word, Piece
  <2> QED
    BY <2>1
<1>5. \A m, n : Word(m) = Word(n) => m = n
  <2> SUFFICES ASSUME NEW m, NEW n, Word(m) = Word(n) PROVE m = n
    OBVIOUS
  <2>1. Word(m).value = m /\ Word(n).value = n
    BY DEF Word
  <2> QED
    BY <2>1
<1>6. \A c, k : Piece(c, k).cell = c
  BY DEF Piece
<1> QED
  BY <1>1, <1>2, <1>3, <1>4, <1>5, <1>6

(* What lies in a page over which s was written.                            *)
LEMMA Overwritten ==
  ASSUME NEW p \in PageType, NEW a \in Int, NEW s \in Seq(UnitValue)
  PROVE  LET q == Overwrite(p, a, s)
         IN  /\ q \in PageType
             /\ q.pointers = p.pointers /\ q.content = p.content /\ q.first = p.first
             /\ q.fragments = p.fragments
             /\ \A u \in Units :
                  q.raw[u] = IF a <= u /\ u < a + Len(s) THEN s[u - a + 1] ELSE p.raw[u]
<1> DEFINE r == [u \in Units |-> IF u \in Span(a, Len(s)) THEN s[u - a + 1] ELSE p.raw[u]]
           q == Overwrite(p, a, s)
<1>1. Len(s) \in Nat /\ \A u \in Units : u \in Span(a, Len(s)) <=> a <= u /\ u < a + Len(s)
  BY Sizes DEF Span
<1>2. \A u \in Units : a <= u /\ u < a + Len(s) => s[u - a + 1] \in UnitValue
  <2> SUFFICES ASSUME NEW u \in Units, a <= u, u < a + Len(s) PROVE s[u - a + 1] \in UnitValue
    OBVIOUS
  <2>1. u - a + 1 \in 1..Len(s)
    BY <1>1, Sizes
  <2> QED
    BY <2>1
<1>3. p.raw \in [Units -> UnitValue]
  BY DEF PageType
<1>4. r \in [Units -> UnitValue]
  BY <1>1, <1>2, <1>3
<1>5. \A u \in Units : r[u] = IF a <= u /\ u < a + Len(s) THEN s[u - a + 1] ELSE p.raw[u]
  BY <1>1
<1>6. q = [p EXCEPT !.raw = r]
  BY DEF Overwrite
<1> HIDE DEF r, q
<1>7. q \in PageType /\ q.raw = r
  BY <1>4, <1>6 DEF PageType
<1>8. q.pointers = p.pointers /\ q.content = p.content /\ q.first = p.first /\ q.fragments = p.fragments
  BY <1>6 DEF PageType
<1> QED
  BY <1>5, <1>7, <1>8 DEF q

(* What lies in a page whose pointer array was written.                     *)
LEMMA PointersWritten ==
  ASSUME NEW p \in PageType
  PROVE  LET q == WritePointers(p)
         IN  /\ q \in PageType
             /\ q.pointers = p.pointers /\ q.content = p.content /\ q.first = p.first
             /\ q.fragments = p.fragments
             /\ \A u \in Units :
                  q.raw[u] = IF HeaderSize <= u /\ u < HeaderSize + Count(p)
                             THEN Word(p.pointers[u - HeaderSize + 1]) ELSE p.raw[u]
<1> DEFINE s == [i \in DOMAIN p.pointers |-> Word(p.pointers[i])]
<1>1. p.pointers \in Seq(Units) /\ DOMAIN p.pointers = 1..Count(p) /\ Count(p) \in Nat
  BY DEF PageType, Count
<1>2. \A i \in 1..Count(p) : s[i] = Word(p.pointers[i]) /\ s[i] \in UnitValue
  <2>1. \A i \in 1..Count(p) : p.pointers[i] \in Nat
    BY <1>1, Sizes
  <2> QED
    BY <1>1, <2>1, UnitValues
<1>3. s \in Seq(UnitValue) /\ Len(s) = Count(p)
  BY <1>1, <1>2
<1>4. WritePointers(p) = Overwrite(p, HeaderSize, s)
  BY Sizes DEF WritePointers, PointerOffset
<1> DEFINE q == Overwrite(p, HeaderSize, s)
<1> HIDE DEF s
<1>5. /\ q \in PageType
      /\ q.pointers = p.pointers /\ q.content = p.content /\ q.first = p.first
      /\ q.fragments = p.fragments
      /\ \A u \in Units :
           q.raw[u] = IF HeaderSize <= u /\ u < HeaderSize + Len(s) THEN s[u - HeaderSize + 1] ELSE p.raw[u]
  BY <1>3, Overwritten, Sizes
<1> HIDE DEF q
<1>6. \A u \in Units : HeaderSize <= u /\ u < HeaderSize + Count(p) => u - HeaderSize + 1 \in 1..Count(p)
  BY <1>1, Sizes
<1>7. \A u \in Units :
        q.raw[u] = IF HeaderSize <= u /\ u < HeaderSize + Count(p)
                   THEN Word(p.pointers[u - HeaderSize + 1]) ELSE p.raw[u]
  BY <1>2, <1>3, <1>5, <1>6
<1> QED
  BY <1>4, <1>5, <1>7 DEF q

(* The fields of a page that an operation leaves as they are or sets.       *)
LEMMA Fields ==
  ASSUME NEW p \in PageType
  PROVE  /\ p.raw \in [Units -> UnitValue] /\ p.pointers \in Seq(Units)
         /\ p.content \in 0..PageSize /\ p.first \in Nat /\ p.fragments = 0
         /\ Count(p) \in Nat /\ Count(p) = Len(p.pointers) /\ DOMAIN p.pointers = 1..Count(p)
         /\ \A i \in 1..Count(p) : p.pointers[i] \in Units
BY DEF PageType, Count

-----------------------------------------------------------------------------
(* Reading                                                                  *)

(* A cell is read up to the next pointer or the end of the page.            *)
LEMMA CellEnd ==
  ASSUME NEW p \in PageType, NEW i \in 1..Count(p)
  PROVE  LET e == FindCellEnd(p, i)
         IN  /\ e \in Nat /\ p.pointers[i] < e /\ e <= PageSize
             /\ e = PageSize \/ \E j \in 1..Count(p) : p.pointers[j] = e
             /\ \A j \in 1..Count(p) : p.pointers[i] < p.pointers[j] => e <= p.pointers[j]
<1> DEFINE T == {PageSize} \union {q \in Range(p.pointers) : q > p.pointers[i]}
           e == FindCellEnd(p, i)
<1>1. Range(p.pointers) = {p.pointers[j] : j \in 1..Count(p)}
  BY Fields DEF Range
<1>2. \A j \in 1..Count(p) : p.pointers[j] \in Nat /\ p.pointers[j] < PageSize
  BY Fields, Sizes
<1>3. T \in SUBSET Nat /\ T # {} /\ PageSize \in T
  BY <1>1, <1>2, Sizes
<1>4. \E m \in T : \A k \in T : m <= k
  <2> HIDE DEF T
  <2> QED
    BY <1>3, Least
<1>5. e = CHOOSE m \in T : \A k \in T : m <= k
  BY DEF FindCellEnd, Min
<1>6. e \in T /\ \A k \in T : e <= k
  <2> HIDE DEF T, e
  <2> QED
    BY <1>4, <1>5
<1>7. \A j \in 1..Count(p) : p.pointers[i] < p.pointers[j] => p.pointers[j] \in T
  BY <1>1, <1>2
<1>8. e = PageSize \/ \E j \in 1..Count(p) : p.pointers[j] = e /\ e > p.pointers[i]
  BY <1>1, <1>6
<1> HIDE DEF T, e
<1> QED
  BY <1>2, <1>3, <1>6, <1>7, <1>8, Sizes DEF e

(* What is read of a cell are the units up to its end.                      *)
LEMMA CellReadRaw ==
  ASSUME NEW p \in PageType, NEW i \in 1..Count(p)
  PROVE  LET s == ReadCell(p, i)
         IN  /\ s \in Seq(UnitValue) /\ Len(s) = FindCellEnd(p, i) - p.pointers[i]
             /\ \A k \in 1..Len(s) : s[k] = p.raw[p.pointers[i] + k - 1]
             /\ Entries(p)[i] = s
<1> DEFINE e == FindCellEnd(p, i)
           s == ReadCell(p, i)
<1>1. e \in Nat /\ p.pointers[i] \in Nat /\ p.pointers[i] < e /\ e <= PageSize
  <2>1. p.pointers[i] \in Nat
    BY Fields, Sizes
  <2> QED
    BY <2>1, CellEnd
<1>2. s = [k \in 1..e - p.pointers[i] |-> p.raw[p.pointers[i] + k - 1]]
  BY DEF ReadCell
<1> HIDE DEF e
<1>3. \A k \in 1..e - p.pointers[i] : p.raw[p.pointers[i] + k - 1] \in UnitValue
  <2> SUFFICES ASSUME NEW k \in 1..e - p.pointers[i] PROVE p.raw[p.pointers[i] + k - 1] \in UnitValue
    OBVIOUS
  <2>1. p.pointers[i] + k - 1 \in Units
    BY <1>1, Sizes, SMTT(20)
  <2> QED
    BY <2>1, Fields
<1>4. e - p.pointers[i] \in Nat
  BY <1>1
<1>5. s \in Seq(UnitValue) /\ Len(s) = e - p.pointers[i]
  BY <1>2, <1>3, <1>4
<1>6. Entries(p)[i] = s
  BY Fields DEF Entries
<1> QED
  BY <1>2, <1>5, <1>6 DEF e

(* s begins with the cell c.                                                *)
Begins(s, c) ==
  /\ s \in Seq(UnitValue) /\ c \in Cells /\ c.size <= Len(s)
  /\ \A k \in 1..c.size : s[k] = Piece(c, k)

(* Units that begin with all the pieces of a cell are read as that cell.    *)
LEMMA CellRead ==
  ASSUME NEW s, NEW c, Begins(s, c)
  PROVE  CellOf(s) = c /\ s # << >> /\ Len(s) \in Nat /\ 2 <= Len(s)
<1>1. s \in Seq(UnitValue) /\ Len(s) \in Nat /\ c.size \in Nat /\ 2 <= c.size /\ c.size <= Len(s)
  BY Sizes DEF Begins
<1>2. s[1] = Piece(c, 1)
  BY <1>1 DEF Begins
<1>3. s[1].kind = "cell" /\ s[1].cell = c
  BY <1>2 DEF Piece
<1>4. s # << >>
  BY <1>1
<1>5. \A k \in 1..c.size : s[k] = Piece(c, k)
  BY DEF Begins
<1> QED
  BY <1>1, <1>3, <1>4, <1>5 DEF CellOf

(* Two cells that are apart begin at different places.                      *)
LEMMA CellsApart ==
  ASSUME NEW p \in PageType, CellsHeld(p), NEW i \in 1..Count(p), NEW j \in 1..Count(p), i # j
  PROVE  \/ p.pointers[i] + At(p, i).size <= p.pointers[j] /\ p.pointers[i] < p.pointers[j]
         \/ p.pointers[j] + At(p, j).size <= p.pointers[i] /\ p.pointers[j] < p.pointers[i]
<1>1. Apart(p.pointers[i], At(p, i).size, p.pointers[j], At(p, j).size)
  BY DEF CellsHeld
<1>2. At(p, i) \in Cells /\ At(p, j) \in Cells
  BY DEF CellsHeld
<1>3. p.pointers[i] \in Nat /\ p.pointers[j] \in Nat
  BY Fields, Sizes
<1>4. At(p, i).size \in Nat /\ 2 <= At(p, i).size /\ At(p, j).size \in Nat /\ 2 <= At(p, j).size
  BY <1>2, Sizes
<1> QED
  BY <1>1, <1>3, <1>4 DEF Apart

(* A cell that is held lies whole in the content area and before the cell   *)
(* above it.                                                                *)
LEMMA CellHeld ==
  ASSUME NEW p \in PageType, CellsHeld(p), NEW i \in 1..Count(p)
  PROVE  /\ At(p, i) \in Cells /\ At(p, i).size \in Nat /\ 2 <= At(p, i).size
         /\ p.pointers[i] \in Nat /\ p.pointers[i] \in Units
         /\ p.content <= p.pointers[i] /\ p.pointers[i] + At(p, i).size <= PageSize
         /\ p.pointers[i] + At(p, i).size <= FindCellEnd(p, i)
         /\ FindCellEnd(p, i) \in Nat /\ FindCellEnd(p, i) <= PageSize
         /\ \A k \in 1..At(p, i).size : p.raw[p.pointers[i] + k - 1] = Piece(At(p, i), k)
<1> DEFINE e == FindCellEnd(p, i)
           z == At(p, i).size
<1>1. At(p, i) \in Cells /\ CellAt(p, p.pointers[i], At(p, i))
  BY DEF CellsHeld
<1>2. p.pointers[i] \in Nat /\ p.pointers[i] \in Units
  BY Fields, Sizes
<1>3. z \in Nat /\ 2 <= z
  BY <1>1, Sizes
<1>4. e \in Nat /\ p.pointers[i] < e /\ e <= PageSize
      /\ (e = PageSize \/ \E j \in 1..Count(p) : p.pointers[j] = e)
  BY CellEnd
<1>5. p.content <= p.pointers[i] /\ p.pointers[i] + z <= PageSize
      /\ \A k \in 1..z : p.raw[p.pointers[i] + k - 1] = Piece(At(p, i), k)
  BY <1>1 DEF CellAt
<1>6. p.pointers[i] + z <= e
  <2>1. CASE e = PageSize
    BY <2>1, <1>5
  <2>2. CASE \E j \in 1..Count(p) : p.pointers[j] = e
    <3>1. PICK j \in 1..Count(p) : p.pointers[j] = e
      BY <2>2
    <3>2. i # j
      BY <3>1, <1>4, <1>2
    <3>3. \/ p.pointers[i] + z <= p.pointers[j]
          \/ p.pointers[j] < p.pointers[i]
      BY <3>2, CellsApart
    <3> QED
      BY <3>1, <3>3, <1>2, <1>4
  <2> QED
    BY <2>1, <2>2, <1>4
<1> QED
  BY <1>1, <1>2, <1>3, <1>4, <1>5, <1>6

(* Reading the cells that are held gives these cells, in the order of the   *)
(* pointers.                                                                *)
LEMMA CellsRead ==
  ASSUME NEW p \in PageType, CellsHeld(p)
  PROVE  /\ \A i \in 1..Count(p) : Begins(ReadCell(p, i), At(p, i)) /\ CellOf(ReadCell(p, i)) = At(p, i)
         /\ CellsOf(p) = Cellsat(p)
<1>1. ASSUME NEW i \in 1..Count(p)
      PROVE  Begins(ReadCell(p, i), At(p, i)) /\ CellOf(Entries(p)[i]) = At(p, i)
             /\ CellOf(ReadCell(p, i)) = At(p, i)
  <2> DEFINE s == ReadCell(p, i)
  <2>1. s \in Seq(UnitValue) /\ Len(s) = FindCellEnd(p, i) - p.pointers[i]
        /\ (\A k \in 1..Len(s) : s[k] = p.raw[p.pointers[i] + k - 1]) /\ Entries(p)[i] = s
    BY CellReadRaw
  <2> HIDE DEF s
  <2>2. At(p, i).size <= Len(s)
    BY <2>1, CellHeld, SMTT(20)
  <2>3. \A k \in 1..At(p, i).size : s[k] = Piece(At(p, i), k)
    <3>1. \A k \in 1..At(p, i).size : k \in 1..Len(s)
      BY <2>1, <2>2, CellHeld
    <3> QED
      BY <3>1, <2>1, CellHeld
  <2>4. Begins(s, At(p, i))
    BY <2>1, <2>2, <2>3, CellHeld DEF Begins
  <2>5. CellOf(s) = At(p, i)
    BY <2>4, CellRead
  <2> QED
    BY <2>1, <2>4, <2>5 DEF s
<1>2. CellsOf(p) = [i \in 1..Count(p) |-> CellOf(Entries(p)[i])]
  BY Fields DEF CellsOf
<1> QED
  BY <1>1, <1>2 DEF Cellsat

-----------------------------------------------------------------------------
(* Cells stacked downwards from the end of the page                         *)

(* Where the cell above the i-th one begins, and the i-th one ends.         *)
Above(p, i) == IF i = 1 THEN PageSize ELSE p.pointers[i - 1]

(* The cells lie one under the other, down to the begin of the content      *)
(* area.                                                                    *)
Descends(p) ==
  /\ \A i \in 1..Count(p) : p.pointers[i] < Above(p, i)
  /\ p.content = Above(p, Count(p) + 1)

(* The i-th cell has the units of es[i].                                    *)
Carries(p, es) ==
  \A i \in 1..Count(p) :
    /\ es[i] \in Seq(UnitValue) /\ Len(es[i]) = Above(p, i) - p.pointers[i]
    /\ \A k \in 1..Len(es[i]) : p.raw[p.pointers[i] + k - 1] = es[i][k]

(* Stacked cells end where the cell above them begins.                      *)
LEMMA Descending ==
  ASSUME NEW p \in PageType, Descends(p)
  PROVE  /\ \A i \in 1..Count(p) + 1 : Above(p, i) \in Nat /\ Above(p, i) <= PageSize
         /\ \A i \in 1..Count(p) + 1, j \in 1..Count(p) : j < i => Above(p, i) <= p.pointers[j]
         /\ \A i, j \in 1..Count(p) : i # j => p.pointers[i] # p.pointers[j]
         /\ \A i \in 1..Count(p) : p.content <= p.pointers[i] /\ FindCellEnd(p, i) = Above(p, i)
<1> DEFINE N == Count(p)
           H == {n \in 0..N : \A j \in 1..n : p.pointers[n] <= p.pointers[j]}
<1>1. N \in Nat /\ \A i \in 1..N : p.pointers[i] \in Nat /\ p.pointers[i] < PageSize
  BY Fields, Sizes
<1>2. \A i \in 2..N + 1 : i - 1 \in 1..N /\ Above(p, i) = p.pointers[i - 1]
  BY <1>1 DEF Above
<1>3. \A i \in 1..N + 1 : Above(p, i) \in Nat /\ Above(p, i) <= PageSize
  BY <1>1, <1>2, Sizes DEF Above
<1>4. \A n \in 1..N : n - 1 \in H => n \in H
  <2> SUFFICES ASSUME NEW n \in 1..N, n - 1 \in H PROVE n \in H
    OBVIOUS
  <2>1. ASSUME NEW j \in 1..n PROVE p.pointers[n] <= p.pointers[j]
    <3>1. CASE j = n
      BY <3>1, <1>1
    <3>2. CASE j # n
      <4>1. j \in 1..n - 1 /\ n \in 2..N /\ n - 1 \in 1..N /\ j \in 1..N
        BY <3>2, <1>1
      <4>2. p.pointers[n - 1] <= p.pointers[j]
        BY <4>1
      <4>3. p.pointers[n] < p.pointers[n - 1]
        BY <4>1, <1>1, <1>2 DEF Descends
      <4> QED
        BY <4>1, <4>2, <4>3, <1>1
    <3> QED
      BY <3>1, <3>2
  <2> QED
    BY <2>1
<1>5. 0 \in H
  BY <1>1
<1>6. 0..N \subseteq H
  <2> HIDE DEF H
  <2> QED
    BY <1>1, <1>4, <1>5, Induction
<1>7. \A n, j \in 1..N : j <= n => p.pointers[n] <= p.pointers[j]
  <2> SUFFICES ASSUME NEW n \in 1..N, NEW j \in 1..N, j <= n PROVE p.pointers[n] <= p.pointers[j]
    OBVIOUS
  <2>1. n \in 0..N /\ j \in 1..n
    BY <1>1
  <2> QED
    BY <2>1, <1>6
<1> HIDE DEF H
<1>8. ASSUME NEW i \in 1..N + 1, NEW j \in 1..N, j < i PROVE Above(p, i) <= p.pointers[j]
  <2>1. i \in 2..N + 1 /\ i - 1 \in 1..N /\ j <= i - 1
    BY <1>1, <1>8
  <2> QED
    BY <2>1, <1>2, <1>7
<1>9. ASSUME NEW i \in 1..N, NEW j \in 1..N, j < i PROVE p.pointers[i] < p.pointers[j]
  <2>1. i \in 1..N + 1 /\ Above(p, i) <= p.pointers[j] /\ p.pointers[i] < Above(p, i)
    BY <1>1, <1>8, <1>9 DEF Descends
  <2> QED
    BY <2>1, <1>1, <1>3
<1>10. ASSUME NEW i \in 1..N PROVE p.content <= p.pointers[i]
  <2>1. N + 1 \in 1..N + 1 /\ i < N + 1
    BY <1>1
  <2> QED
    BY <2>1, <1>8 DEF Descends
<1>11. ASSUME NEW i \in 1..N PROVE FindCellEnd(p, i) = Above(p, i)
  <2> DEFINE e == FindCellEnd(p, i)
  <2>0. i \in Nat /\ i \in 1..N + 1
    BY <1>1
  <2>1. e \in Nat /\ p.pointers[i] < e /\ e <= PageSize
        /\ (e = PageSize \/ \E j \in 1..N : p.pointers[j] = e)
        /\ \A j \in 1..N : p.pointers[i] < p.pointers[j] => e <= p.pointers[j]
    BY CellEnd
  <2> HIDE DEF e
  <2>2. e <= Above(p, i)
    <3>1. CASE i = 1
      BY <3>1, <2>1 DEF Above
    <3>2. CASE i # 1
      <4>1. i - 1 \in 1..N /\ i - 1 < i /\ Above(p, i) = p.pointers[i - 1]
        BY <3>2, <1>1, <1>2
      <4>2. p.pointers[i] < p.pointers[i - 1]
        BY <4>1, <1>9
      <4> QED
        BY <4>1, <4>2, <2>1
    <3> QED
      BY <3>1, <3>2
  <2>3. Above(p, i) <= e
    <3>1. CASE e = PageSize
      BY <3>1, <1>3, <2>0
    <3>2. CASE \E j \in 1..N : p.pointers[j] = e
      <4>1. PICK j \in 1..N : p.pointers[j] = e
        BY <3>2
      <4>2. ~(i <= j)
        BY <4>1, <2>1, <1>7, <1>1
      <4>3. j < i
        BY <4>2, <1>1
      <4> QED
        BY <4>1, <4>3, <1>8, <2>0
    <3> QED
      BY <3>1, <3>2, <2>1
  <2>4. Above(p, i) \in Nat
    BY <1>3, <2>0
  <2> QED
    BY <2>1, <2>2, <2>3, <2>4 DEF e
<1>12. ASSUME NEW i \in 1..N, NEW j \in 1..N, i # j PROVE p.pointers[i] # p.pointers[j]
  <2>1. CASE j < i
    BY <2>1, <1>9, <1>1
  <2>2. CASE i < j
    BY <2>2, <1>9, <1>1
  <2> QED
    BY <2>1, <2>2, <1>12, <1>1
<1> QED
  BY <1>3, <1>8, <1>10, <1>11, <1>12

(* A page whose cells are stacked, and that has no free blocks, is laid out. *)
LEMMA StackedRead ==
  ASSUME NEW p \in PageType, Descends(p), NEW es, Carries(p, es), NEW i \in 1..Count(p)
  PROVE  ReadCell(p, i) = es[i]
<1> DEFINE s == ReadCell(p, i)
           t == es[i]
<1>1. s \in Seq(UnitValue) /\ Len(s) = FindCellEnd(p, i) - p.pointers[i]
      /\ \A k \in 1..Len(s) : s[k] = p.raw[p.pointers[i] + k - 1]
  BY CellReadRaw
<1>2. t \in Seq(UnitValue) /\ Len(t) = Above(p, i) - p.pointers[i]
      /\ \A k \in 1..Len(t) : p.raw[p.pointers[i] + k - 1] = t[k]
  BY DEF Carries
<1>3. FindCellEnd(p, i) = Above(p, i)
  BY Descending
<1> HIDE DEF s, t
<1>4. Len(s) = Len(t) /\ \A k \in 1..Len(s) : s[k] = t[k]
  BY <1>1, <1>2, <1>3
<1>5. s = t
  BY <1>1, <1>2, <1>4, SeqEqual
<1> QED
  BY <1>5 DEF s, t

(* Stacked cells under the pointers of a page without free blocks are a     *)
(* sound page.                                                              *)
LEMMA StackedLayout ==
  ASSUME NEW p \in PageType, Descends(p), PointersHeld(p), p.first = 0,
         NEW es, Carries(p, es), NEW cs, \A i \in 1..Count(p) : Begins(es[i], cs[i])
  PROVE  Layout(p, << >>) /\ \A i \in 1..Count(p) : At(p, i) = cs[i]
<1> DEFINE N == Count(p)
<1>1. N \in Nat /\ \A i \in 1..N : p.pointers[i] \in Nat /\ p.pointers[i] \in Units
  BY Fields, Sizes
<1>2. ASSUME NEW i \in 1..N
      PROVE  /\ cs[i] \in Cells /\ cs[i].size \in Nat /\ 2 <= cs[i].size
             /\ p.pointers[i] + cs[i].size <= Above(p, i)
             /\ \A k \in 1..cs[i].size : p.raw[p.pointers[i] + k - 1] = Piece(cs[i], k)
  <2>1. cs[i] \in Cells /\ cs[i].size <= Len(es[i]) /\ \A k \in 1..cs[i].size : es[i][k] = Piece(cs[i], k)
    BY <1>2 DEF Begins
  <2>2. cs[i].size \in Nat /\ 2 <= cs[i].size
    BY <2>1, Sizes
  <2>3. Len(es[i]) \in Nat /\ Len(es[i]) = Above(p, i) - p.pointers[i]
        /\ \A k \in 1..Len(es[i]) : p.raw[p.pointers[i] + k - 1] = es[i][k]
    BY <1>2 DEF Carries
  <2>4. i \in 1..N + 1
    BY <1>1
  <2>5. Above(p, i) \in Nat
    BY <2>4, Descending
  <2>6. p.pointers[i] \in Nat
    BY <1>1
  <2>7. p.pointers[i] + cs[i].size <= Above(p, i)
    BY <2>1, <2>2, <2>3, <2>5, <2>6
  <2>8. \A k \in 1..cs[i].size : k \in 1..Len(es[i])
    BY <2>1, <2>2, <2>3
  <2> QED
    BY <2>1, <2>2, <2>3, <2>7, <2>8
<1>3. \A i \in 1..N : At(p, i) = cs[i]
  <2> SUFFICES ASSUME NEW i \in 1..N PROVE At(p, i) = cs[i]
    OBVIOUS
  <2>1. p.pointers[i] + 1 - 1 = p.pointers[i] /\ 1 \in 1..cs[i].size
    BY <1>1, <1>2
  <2>2. p.raw[p.pointers[i]] = Piece(cs[i], 1)
    BY <2>1, <1>2
  <2> QED
    BY <2>2, UnitValues DEF At
<1>4. \A i \in 1..N : Above(p, i) \in Nat /\ Above(p, i) <= PageSize
  BY <1>1, Descending
<1>5. \A i \in 1..N : At(p, i) \in Cells /\ CellAt(p, p.pointers[i], At(p, i))
  <2> SUFFICES ASSUME NEW i \in 1..N PROVE cs[i] \in Cells /\ CellAt(p, p.pointers[i], cs[i])
    BY <1>3
  <2>1. p.content <= p.pointers[i]
    BY Descending
  <2>2. p.pointers[i] + cs[i].size <= PageSize
    BY <1>1, <1>2, <1>4, Sizes
  <2> QED
    BY <2>1, <2>2, <1>2 DEF CellAt
<1>6. ASSUME NEW i \in 1..N, NEW j \in 1..N, j < i PROVE p.pointers[i] + cs[i].size <= p.pointers[j]
  <2>1. i \in 1..N + 1
    BY <1>1
  <2>2. Above(p, i) <= p.pointers[j]
    BY <2>1, <1>6, Descending
  <2> QED
    BY <2>2, <1>1, <1>2, <1>4
<1>7. \A i, j \in 1..N : i # j => Apart(p.pointers[i], At(p, i).size, p.pointers[j], At(p, j).size)
  <2> SUFFICES ASSUME NEW i \in 1..N, NEW j \in 1..N, i # j
               PROVE  Apart(p.pointers[i], cs[i].size, p.pointers[j], cs[j].size)
    BY <1>3
  <2>1. i < j \/ j < i
    BY <1>1
  <2> QED
    BY <2>1, <1>6 DEF Apart
<1>8. CellsHeld(p)
  BY <1>5, <1>7 DEF CellsHeld
<1>9. BlocksHeld(p, << >>)
  BY DEF BlocksHeld, Linked
<1> QED
  BY <1>3, <1>8, <1>9 DEF Layout

-----------------------------------------------------------------------------
(* Moving the cells to the end of the page                                  *)

(* What one more entry put under the others changes.                        *)
LEMMA Placed ==
  ASSUME NEW x \in PageType, NEW s \in Seq(UnitValue), 1 <= Len(s), Len(s) < x.content
  PROVE  LET q == Place(x, s)
             a == x.content - Len(s)
         IN  /\ q \in PageType /\ a \in Units /\ a \in Nat
             /\ q.content = a /\ q.first = x.first /\ Count(q) = Count(x) + 1
             /\ q.pointers[Count(q)] = a
             /\ \A i \in 1..Count(x) : q.pointers[i] = x.pointers[i]
             /\ \A u \in Units : q.raw[u] = IF a <= u /\ u < x.content THEN s[u - a + 1] ELSE x.raw[u]
<1> DEFINE a == x.content - Len(s)
           o == Overwrite(x, a, s)
           q == Place(x, s)
<1>1. x.content \in Nat /\ x.content <= PageSize /\ Len(s) \in Nat /\ x.pointers \in Seq(Units) /\ Count(x) = Len(x.pointers)
  BY Fields, Sizes
<1>2. a \in Nat /\ a \in Units /\ a \in Int /\ a \in 0..PageSize /\ a + Len(s) = x.content
  BY <1>1, Sizes
<1>3. /\ o \in PageType /\ o.pointers = x.pointers /\ o.content = x.content /\ o.first = x.first
      /\ \A u \in Units : o.raw[u] = IF a <= u /\ u < a + Len(s) THEN s[u - a + 1] ELSE x.raw[u]
  <2> HIDE DEF a
  <2> QED
    BY <1>2, Overwritten
<1>4. q = [o EXCEPT !.content = o.content - Len(s), !.pointers = Append(o.pointers, a)]
  BY DEF Place
<1> DEFINE ptrs == Append(x.pointers, a)
<1>5. ptrs \in Seq(Units) /\ Len(ptrs) = Count(x) + 1 /\ ptrs[Count(x) + 1] = a
      /\ \A i \in 1..Count(x) : ptrs[i] = x.pointers[i]
  BY <1>1, <1>2
<1>6. q = [o EXCEPT !.content = a, !.pointers = ptrs]
  BY <1>3, <1>4
<1> HIDE DEF ptrs, o, q
<1>7. q \in PageType /\ q.content = a /\ q.first = x.first /\ q.pointers = ptrs /\ q.raw = o.raw
  <2> HIDE DEF a
  <2> QED
    BY <1>2, <1>3, <1>5, <1>6 DEF PageType
<1>8. Count(q) = Count(x) + 1
  BY <1>5, <1>7 DEF Count
<1>9. \A u \in Units : q.raw[u] = IF a <= u /\ u < x.content THEN s[u - a + 1] ELSE x.raw[u]
  BY <1>2, <1>3, <1>7
<1> QED
  BY <1>2, <1>5, <1>7, <1>8, <1>9 DEF q

(* One more entry leaves the cells stacked.                                 *)
LEMMA StackOn ==
  ASSUME NEW x \in PageType, Descends(x), NEW es, Carries(x, es), NEW s, s = es[Count(x) + 1],
         s \in Seq(UnitValue), 1 <= Len(s), Len(s) < x.content
  PROVE  Descends(Place(x, s)) /\ Carries(Place(x, s), es)
<1> DEFINE q == Place(x, s)
           a == x.content - Len(s)
           N == Count(x)
<1>1. /\ q \in PageType /\ a \in Units /\ a \in Nat
      /\ q.content = a /\ Count(q) = N + 1 /\ q.pointers[Count(q)] = a
      /\ \A i \in 1..N : q.pointers[i] = x.pointers[i]
      /\ \A u \in Units : q.raw[u] = IF a <= u /\ u < x.content THEN s[u - a + 1] ELSE x.raw[u]
  BY Placed
<1>0. a \in Nat
  BY <1>1
<1>2. N \in Nat /\ Len(s) \in Nat /\ x.content \in Nat /\ x.content <= PageSize /\ a + Len(s) = x.content /\ a < x.content
  BY Fields, Sizes
<1> HIDE DEF q, a
<1>3. \A i \in 1..N + 1 : Above(q, i) = Above(x, i)
  <2> SUFFICES ASSUME NEW i \in 1..N + 1 PROVE Above(q, i) = Above(x, i)
    OBVIOUS
  <2>1. CASE i = 1
    BY <2>1 DEF Above
  <2>2. CASE i # 1
    <3>1. i - 1 \in 1..N
      BY <2>2, <1>2
    <3> QED
      BY <3>1, <2>2, <1>1 DEF Above
  <2> QED
    BY <2>1, <2>2
<1>4. Above(x, N + 1) = x.content
  BY DEF Descends
<1>5. Descends(q)
  <2>1. ASSUME NEW i \in 1..N + 1 PROVE q.pointers[i] < Above(q, i)
    <3>1. CASE i = N + 1
      BY <3>1, <1>1, <1>2, <1>3, <1>4
    <3>2. CASE i # N + 1
      <4>1. i \in 1..N
        BY <3>2, <1>2
      <4> QED
        BY <4>1, <1>1, <1>3 DEF Descends
    <3> QED
      BY <3>1, <3>2
  <2>2. q.content = Above(q, N + 1 + 1)
    <3>1. N + 1 + 1 # 1 /\ (N + 1 + 1) - 1 = N + 1
      BY <1>2
    <3>2. q.pointers[N + 1] = a
      BY <1>1
    <3>3. q.pointers[(N + 1 + 1) - 1] = a
      BY <3>1, <3>2
    <3>4. q.content = a
      BY <1>1
    <3>5. Above(q, N + 1 + 1) = q.pointers[(N + 1 + 1) - 1]
      BY <3>1, Zenon DEF Above
    <3> QED
      BY <3>3, <3>4, <3>5, Zenon
  <2> QED
    BY <2>1, <2>2, <1>1 DEF Descends
<1>6. ASSUME NEW i \in 1..N + 1
      PROVE  /\ es[i] \in Seq(UnitValue) /\ Len(es[i]) = Above(q, i) - q.pointers[i]
             /\ \A k \in 1..Len(es[i]) : q.raw[q.pointers[i] + k - 1] = es[i][k]
  <2>1. CASE i = N + 1
    <3>1. Len(s) = Above(q, i) - a
      BY <2>1, <1>0, <1>2, <1>3, <1>4
    <3>2. ASSUME NEW k \in 1..Len(s) PROVE q.raw[a + k - 1] = s[k]
      <4>1. a + k - 1 \in Units /\ a <= a + k - 1 /\ a + k - 1 < x.content /\ a + k - 1 - a + 1 = k
        BY <1>2, <1>0, Sizes
      <4> QED
        BY <4>1, <1>1
    <3> QED
      BY <2>1, <3>1, <3>2, <1>1
  <2>2. CASE i # N + 1
    <3>1. i \in 1..N
      BY <2>2, <1>2
    <3>2. /\ es[i] \in Seq(UnitValue) /\ Len(es[i]) = Above(x, i) - x.pointers[i]
          /\ \A k \in 1..Len(es[i]) : x.raw[x.pointers[i] + k - 1] = es[i][k]
      BY <3>1 DEF Carries
    <3>3. x.content <= x.pointers[i] /\ Above(x, i) \in Nat /\ Above(x, i) <= PageSize /\ x.pointers[i] \in Nat
      BY <3>1, <1>2, Descending, Fields, Sizes
    <3>0. Len(es[i]) \in Nat /\ Len(es[i]) = Above(x, i) - x.pointers[i]
      BY <3>2
    <3>4. ASSUME NEW k \in 1..Len(es[i]) PROVE q.raw[x.pointers[i] + k - 1] = x.raw[x.pointers[i] + k - 1]
      <4>1. x.pointers[i] + k - 1 \in Units /\ x.content <= x.pointers[i] + k - 1
        <5> DEFINE from == x.pointers[i]
                   m == Len(es[i])
                   top == Above(x, i)
        <5>1. from \in Nat /\ m \in Nat /\ top \in Nat /\ m = top - from /\ top <= PageSize /\ x.content <= from
          BY <3>3, <3>0
        <5>2. x.content \in Nat
          BY <1>2
        <5>3. k \in Nat /\ 1 <= k /\ k <= m
          BY <3>0
        <5> HIDE DEF from, m, top
        <5>4. from + k - 1 \in Nat /\ from <= from + k - 1 /\ from + k - 1 < PageSize
          BY <5>1, <5>3, Sizes
        <5>5. from + k - 1 \in Units /\ x.content <= from + k - 1
          BY <5>1, <5>2, <5>4, Sizes DEF Units
        <5> QED
          BY <5>5 DEF from
      <4> QED
        BY <4>1, <1>1, <1>2, Sizes, SMTT(20)
    <3> QED
      BY <3>1, <3>2, <3>4, <1>1, <1>3
  <2> QED
    BY <2>1, <2>2
<1>7. Carries(q, es)
  BY <1>1, <1>6 DEF Carries
<1> QED
  BY <1>5, <1>7 DEF q

(* The units that belong to the spans of the first n cells.                 *)
Covered(p, n) ==
  {u \in Units : \E i \in 1..n : p.pointers[i] <= u /\ u < FindCellEnd(p, i)}

Distinct(p) == \A i, j \in 1..Count(p) : i # j => p.pointers[i] # p.pointers[j]

(* As the spans of the cells do not overlap, they take as many units as     *)
(* they are long.                                                           *)
LEMMA CoveredCount ==
  ASSUME NEW p \in PageType, Distinct(p), NEW lo \in Nat, lo <= PageSize,
         \A i \in 1..Count(p) : lo <= p.pointers[i]
  PROVE  /\ Cardinality(Covered(p, 0)) = 0
         /\ \A n \in 0..Count(p) : Cardinality(Covered(p, n)) \in Nat
                                   /\ Cardinality(Covered(p, n)) <= PageSize - lo
         /\ \A n \in 1..Count(p) :
              Cardinality(Covered(p, n)) =
              Cardinality(Covered(p, n - 1)) + (FindCellEnd(p, n) - p.pointers[n])
<1> DEFINE N == Count(p)
           e(i) == FindCellEnd(p, i)
<1>1. N \in Nat /\ \A i \in 1..N : p.pointers[i] \in Nat /\ p.pointers[i] < PageSize
  BY Fields, Sizes
<1>2. \A i \in 1..N : e(i) \in Nat /\ p.pointers[i] < e(i) /\ e(i) <= PageSize
                      /\ \A j \in 1..N : p.pointers[i] < p.pointers[j] => e(i) <= p.pointers[j]
  BY CellEnd
<1> HIDE DEF e
<1>3. ASSUME NEW n \in 0..N
      PROVE  /\ IsFiniteSet(Covered(p, n)) /\ Cardinality(Covered(p, n)) \in Nat
             /\ Cardinality(Covered(p, n)) <= PageSize - lo
  <2>1. Covered(p, n) \subseteq lo..PageSize - 1
    <3> SUFFICES ASSUME NEW u \in Covered(p, n) PROVE u \in lo..PageSize - 1
      OBVIOUS
    <3>1. u \in Units
      BY DEF Covered
    <3>2. PICK i \in 1..n : p.pointers[i] <= u
      BY DEF Covered
    <3>3. i \in 1..N
      BY <1>1
    <3> QED
      BY <3>1, <3>2, <3>3, <1>1, Sizes
  <2>2. IsFiniteSet(lo..PageSize - 1) /\ Cardinality(lo..PageSize - 1) = PageSize - lo
    <3>1. lo \in Int /\ PageSize - 1 \in Int
      BY Sizes
    <3>2. IsFiniteSet(lo..PageSize - 1)
          /\ Cardinality(lo..PageSize - 1) = IF lo > PageSize - 1 THEN 0 ELSE PageSize - 1 - lo + 1
      BY <3>1, FS_Interval
    <3> QED
      BY <3>2, Sizes
  <2>3. IsFiniteSet(Covered(p, n)) /\ Cardinality(Covered(p, n)) <= Cardinality(lo..PageSize - 1)
    BY <2>1, <2>2, FS_Subset
  <2> QED
    BY <2>2, <2>3, FS_CardinalityType
<1>4. Covered(p, 0) = {}
  BY DEF Covered
<1>5. ASSUME NEW n \in 1..N
      PROVE  Cardinality(Covered(p, n)) = Cardinality(Covered(p, n - 1)) + (e(n) - p.pointers[n])
  <2> DEFINE s == p.pointers[n]..e(n) - 1
  <2>0. n - 1 \in 0..N /\ n \in 1..n /\ \A i \in 1..n : i \in 1..N /\ (i # n => i \in 1..n - 1)
    BY <1>1
  <2>1. Covered(p, n) = Covered(p, n - 1) \union s
    <3>1. ASSUME NEW u \in Covered(p, n) PROVE u \in Covered(p, n - 1) \union s
      <4>1. u \in Units
        BY DEF Covered
      <4>2. PICK i \in 1..n : p.pointers[i] <= u /\ u < e(i)
        BY DEF Covered, e
      <4>3. CASE i = n
        BY <4>1, <4>2, <4>3, <1>1, <1>2, Sizes
      <4>4. CASE i # n
        BY <4>1, <4>2, <4>4, <2>0 DEF Covered, e
      <4> QED
        BY <4>3, <4>4
    <3>2. ASSUME NEW u \in Covered(p, n - 1) PROVE u \in Covered(p, n)
      <4>1. u \in Units
        BY DEF Covered
      <4>2. PICK i \in 1..n - 1 : p.pointers[i] <= u /\ u < FindCellEnd(p, i)
        BY DEF Covered
      <4>3. i \in 1..n
        BY <1>1
      <4> QED
        BY <4>1, <4>2, <4>3 DEF Covered
    <3>3. ASSUME NEW u \in s PROVE u \in Covered(p, n)
      <4>1. u \in Units /\ p.pointers[n] <= u /\ u < e(n)
        BY <1>1, <1>2, Sizes
      <4> QED
        BY <4>1, <2>0 DEF Covered, e
    <3> QED
      BY <3>1, <3>2, <3>3
  <2>2. Covered(p, n - 1) \cap s = {}
    <3> SUFFICES ASSUME NEW u \in Covered(p, n - 1), u \in s PROVE FALSE
      OBVIOUS
    <3>1. PICK i \in 1..n - 1 : p.pointers[i] <= u /\ u < e(i)
      BY DEF Covered, e
    <3>2. u \in Int /\ p.pointers[n] <= u /\ u < e(n)
      BY <1>1, <1>2
    <3>3. i \in 1..N /\ i # n
      BY <1>1
    <3>4. p.pointers[i] # p.pointers[n]
      BY <3>3 DEF Distinct
    <3>5. p.pointers[i] < p.pointers[n] \/ p.pointers[n] < p.pointers[i]
      BY <3>3, <3>4, <1>1
    <3>6. CASE p.pointers[i] < p.pointers[n]
      <4>1. e(i) <= p.pointers[n]
        BY <3>3, <3>6, <1>2
      <4> QED
        BY <4>1, <3>1, <3>2, <3>3, <1>1, <1>2
    <3>7. CASE p.pointers[n] < p.pointers[i]
      <4>1. e(n) <= p.pointers[i]
        BY <3>3, <3>7, <1>2
      <4> QED
        BY <4>1, <3>1, <3>2, <3>3, <1>1, <1>2
    <3> QED
      BY <3>5, <3>6, <3>7
  <2>3. IsFiniteSet(s) /\ Cardinality(s) = e(n) - p.pointers[n]
    <3>1. p.pointers[n] \in Int /\ e(n) \in Int /\ e(n) - 1 \in Int /\ p.pointers[n] < e(n)
      BY <1>1, <1>2
    <3>2. IsFiniteSet(s) /\ Cardinality(s) = IF p.pointers[n] > e(n) - 1 THEN 0 ELSE e(n) - 1 - p.pointers[n] + 1
      BY <3>1, FS_Interval
    <3> QED
      BY <3>1, <3>2
  <2>4. IsFiniteSet(Covered(p, n - 1)) /\ Cardinality(Covered(p, n - 1)) \in Nat
    BY <2>0, <1>3
  <2> HIDE DEF s
  <2>5. Cardinality(Covered(p, n - 1) \union s)
        = Cardinality(Covered(p, n - 1)) + Cardinality(s) - Cardinality(Covered(p, n - 1) \cap s)
    BY <2>3, <2>4, FS_Union
  <2>6. e(n) - p.pointers[n] \in Int
    BY <1>1, <1>2
  <2>7. Cardinality(Covered(p, n)) = Cardinality(Covered(p, n - 1)) + (e(n) - p.pointers[n]) - 0
    BY <2>1, <2>2, <2>3, <2>5, FS_EmptySet
  <2> QED
    BY <2>4, <2>6, <2>7
<1> QED
  BY <1>3, <1>4, <1>5, FS_EmptySet DEF e

(* What x is once the first n cells of p are moved.                         *)
Moved(p, x, n) ==
  /\ x \in PageType /\ Count(x) = n /\ x.first = p.first
  /\ Descends(x) /\ Carries(x, Entries(p))
  /\ x.content = PageSize - Cardinality(Covered(p, n))

(* A page without pointers is a stack of no cells.                          *)
LEMMA BareMoved ==
  ASSUME NEW p \in PageType
  PROVE  /\ Bare(p) \in PageType /\ Count(Bare(p)) = 0 /\ Bare(p).first = p.first
         /\ Bare(p).content = PageSize /\ Bare(p).raw = p.raw
         /\ Descends(Bare(p)) /\ \A es : Carries(Bare(p), es)
<1> DEFINE x == Bare(p)
<1>1. x \in PageType /\ x.pointers = << >> /\ x.content = PageSize /\ x.first = p.first /\ x.raw = p.raw
  <2>1. << >> \in Seq(Units) /\ PageSize \in 0..PageSize
    BY Sizes
  <2> QED
    BY <2>1 DEF Bare, PageType
<1> HIDE DEF x
<1>2. Count(x) = 0
  BY <1>1 DEF Count
<1>3. Descends(x) /\ \A es : Carries(x, es)
  BY <1>1, <1>2 DEF Descends, Carries, Above
<1> QED
  BY <1>1, <1>2, <1>3 DEF x

(* defragment moves all the cells together, one under the other.            *)
LEMMA Moving ==
  ASSUME NEW p \in PageType, Distinct(p), NEW lo \in Nat, 1 <= lo, lo <= PageSize,
         \A i \in 1..Count(p) : lo <= p.pointers[i]
  PROVE  \E x : /\ Moved(p, x, Count(p))
                /\ Defragment(p) = WritePointers([x EXCEPT !.first = 0, !.fragments = 0])
<1> DEFINE N == Count(p)
           step(f) == [n \in 0..N |-> IF n = 0 THEN Bare(p) ELSE Place(f[n - 1], Entries(p)[n])]
           moved == CHOOSE f : f = step(f)
           S == [n \in 0..N |-> {x \in PageType : Moved(p, x, n)}]
           g == [n \in 1..N |-> [x \in PageType |-> Place(x, Entries(p)[n])]]
           H == {n \in 0..N : moved[n] \in S[n]}
<1>1. N \in Nat
  BY Fields
<1>2. /\ Cardinality(Covered(p, 0)) = 0
      /\ \A n \in 0..N : Cardinality(Covered(p, n)) \in Nat
                         /\ Cardinality(Covered(p, n)) <= PageSize - lo
      /\ \A n \in 1..N : Cardinality(Covered(p, n)) =
                         Cardinality(Covered(p, n - 1)) + (FindCellEnd(p, n) - p.pointers[n])
  BY CoveredCount
<1>3. Bare(p) \in S[0]
  <2>1. Moved(p, Bare(p), 0)
    BY <1>2, BareMoved, Sizes DEF Moved
  <2> QED
    BY <2>1, <1>1, BareMoved
<1>4. ASSUME NEW n \in 1..N, NEW x \in PageType, Moved(p, x, n - 1)
      PROVE  Place(x, Entries(p)[n]) \in PageType /\ Moved(p, Place(x, Entries(p)[n]), n)
  <2> DEFINE s == Entries(p)[n]
             q == Place(x, s)
  <2>0. n \in Nat /\ n \in 0..N /\ n - 1 \in 0..N /\ n - 1 + 1 = n
    BY <1>1
  <2>1. s \in Seq(UnitValue) /\ Len(s) = FindCellEnd(p, n) - p.pointers[n]
    BY CellReadRaw
  <2>2. FindCellEnd(p, n) \in Nat /\ p.pointers[n] < FindCellEnd(p, n) /\ p.pointers[n] \in Nat
    BY CellEnd, Fields, Sizes
  <2>3. x.content = PageSize - Cardinality(Covered(p, n - 1)) /\ Count(x) = n - 1 /\ x.first = p.first
        /\ Descends(x) /\ Carries(x, Entries(p))
    BY <1>4 DEF Moved
  <2>4. Len(s) \in Nat /\ 1 <= Len(s) /\ x.content - Len(s) = PageSize - Cardinality(Covered(p, n))
        /\ Len(s) < x.content
    <3>1. Cardinality(Covered(p, n)) = Cardinality(Covered(p, n - 1)) + Len(s)
      BY <1>2, <2>1
    <3>2. Cardinality(Covered(p, n)) \in Nat /\ Cardinality(Covered(p, n)) <= PageSize - lo
          /\ Cardinality(Covered(p, n - 1)) \in Nat
      BY <1>2, <2>0
    <3>3. Len(s) \in Nat /\ 1 <= Len(s)
      BY <2>1, <2>2
    <3> QED
      BY <3>1, <3>2, <3>3, <2>3, Sizes
  <2>5. s = Entries(p)[Count(x) + 1]
    BY <2>0, <2>3
  <2> HIDE DEF s
  <2>6. Descends(q) /\ Carries(q, Entries(p))
    BY <2>1, <2>3, <2>4, <2>5, StackOn
  <2>7. q \in PageType /\ q.content = x.content - Len(s) /\ q.first = x.first /\ Count(q) = Count(x) + 1
    BY <2>1, <2>4, Placed
  <2> HIDE DEF q
  <2>8. Moved(p, q, n)
    BY <2>0, <2>3, <2>4, <2>6, <2>7 DEF Moved
  <2> QED
    BY <2>7, <2>8 DEF q, s
<1>5. \A n \in 1..N : \A x \in S[n - 1] : g[n][x] \in S[n]
  <2> SUFFICES ASSUME NEW n \in 1..N, NEW x \in S[n - 1] PROVE g[n][x] \in S[n]
    OBVIOUS
  <2>1. n - 1 \in 0..N /\ n \in 0..N
    BY <1>1
  <2>2. x \in PageType /\ Moved(p, x, n - 1)
    BY <2>1
  <2> QED
    BY <2>1, <2>2, <1>4
<1> HIDE DEF S
<1>6. \E f : f = step(f)
  <2>0. PICK f : Follows(f, N, S, Bare(p), g)
    <3>1. Stepwise(N, S, Bare(p), g)
      BY <1>1, <1>3, <1>5 DEF Stepwise
    <3> QED
      BY <3>1, Recursion
  <2>1. /\ f[0] = Bare(p)
        /\ \A n \in 1..N : f[n] = g[n][f[n - 1]]
        /\ \A n \in 0..N : f[n] \in S[n]
    BY <2>0 DEF Follows
  <2>2. \A n \in 1..N : g[n][f[n - 1]] = Place(f[n - 1], Entries(p)[n])
    <3> SUFFICES ASSUME NEW n \in 1..N PROVE g[n][f[n - 1]] = Place(f[n - 1], Entries(p)[n])
      OBVIOUS
    <3>1. n - 1 \in 0..N
      BY <1>1
    <3>2. f[n - 1] \in PageType
      BY <2>1, <3>1 DEF S
    <3> QED
      BY <3>2
  <2>3. \A n \in 0..N : f[n] = IF n = 0 THEN Bare(p) ELSE Place(f[n - 1], Entries(p)[n])
    <3> HIDE DEF g
    <3>1. \A n \in 0..N : n # 0 => n \in 1..N
      BY <1>1
    <3> QED
      BY <2>1, <2>2, <3>1
  <2> DEFINE h == [n \in 0..N |-> f[n]]
  <2>4. h = step(h)
    <3> HIDE DEF g
    <3>1. \A n \in 0..N : n # 0 => n - 1 \in 0..N
      BY <1>1
    <3> QED
      BY <2>3, <3>1
  <2> QED
    BY <2>4
<1> DEFINE t == step(moved)
<1>7. moved = t
  <2> HIDE DEF step
  <2> QED
    BY <1>6
<1>8. \A n \in 0..N : t[n] = IF n = 0 THEN Bare(p) ELSE Place(moved[n - 1], Entries(p)[n])
  OBVIOUS
<1>9. Defragment(p) = WritePointers([moved[N] EXCEPT !.first = 0, !.fragments = 0])
  BY DEF Defragment
<1> HIDE DEF t, moved
<1>10. 0..N \subseteq H
  <2>1. 0 \in H
    BY <1>1, <1>3, <1>7, <1>8
  <2>2. ASSUME NEW n \in 1..N, n - 1 \in H PROVE n \in H
    <3>1. n \in 0..N /\ n # 0 /\ n - 1 \in 0..N
      BY <1>1
    <3>2. moved[n - 1] \in PageType /\ Moved(p, moved[n - 1], n - 1)
      BY <2>2, <3>1 DEF S
    <3>3. moved[n] = Place(moved[n - 1], Entries(p)[n])
      BY <3>1, <1>7, <1>8
    <3>4. moved[n] \in PageType /\ Moved(p, moved[n], n)
      BY <3>2, <3>3, <1>4
    <3> QED
      BY <3>1, <3>4 DEF S
  <2> HIDE DEF H
  <2> QED
    BY <1>1, <2>1, <2>2, Induction
<1>11. Moved(p, moved[N], N)
  <2>1. N \in 0..N
    BY <1>1
  <2> QED
    BY <2>1, <1>10 DEF S
<1> QED
  BY <1>9, <1>11

(* Pages that agree in every part are the same page.                        *)
LEMMA SamePage ==
  ASSUME NEW x \in PageType, NEW y \in PageType,
         \A u \in Units : x.raw[u] = y.raw[u], x.pointers = y.pointers, x.content = y.content,
         x.first = y.first
  PROVE  x = y
<1>1. x.raw \in [Units -> UnitValue] /\ y.raw \in [Units -> UnitValue] /\ x.fragments = 0 /\ y.fragments = 0
  BY Fields
<1>2. x.raw = y.raw
  BY <1>1
<1> QED
  BY <1>1, <1>2 DEF PageType

(* The pointer array has been written, over whatever lay there.             *)
PointersKept(p) == \A i \in 1..Count(p) : p.raw[HeaderSize + i - 1] = Word(p.pointers[i])

(* Writing the pointers of stacked cells; they stay what they were as long  *)
(* as the pointers do not reach them.                                       *)
LEMMA StackWritten ==
  ASSUME NEW y \in PageType, Descends(y), HeaderSize + Count(y) <= PageSize
  PROVE  LET q == WritePointers(y)
         IN  /\ q \in PageType /\ q.pointers = y.pointers /\ Count(q) = Count(y)
             /\ q.content = y.content /\ q.first = y.first
             /\ Descends(q) /\ PointersKept(q)
             /\ HeaderSize + Count(y) <= y.content => \A es : Carries(y, es) => Carries(q, es)
<1> DEFINE N == Count(y)
           q == WritePointers(y)
<1>1. N \in Nat /\ y.content \in Nat
  BY Fields, Sizes
<1>2. /\ q \in PageType /\ q.pointers = y.pointers /\ q.content = y.content /\ q.first = y.first
      /\ \A u \in Units :
           q.raw[u] = IF HeaderSize <= u /\ u < HeaderSize + Count(y)
                      THEN Word(y.pointers[u - HeaderSize + 1]) ELSE y.raw[u]
  BY PointersWritten
<1> HIDE DEF q
<1>3. Count(q) = N
  BY <1>2 DEF Count
<1>4. \A i : Above(q, i) = Above(y, i)
  BY <1>2 DEF Above
<1>5. Descends(q)
  BY <1>2, <1>3, <1>4 DEF Descends
<1>6. PointersKept(q)
  <2> SUFFICES ASSUME NEW i \in 1..N PROVE q.raw[HeaderSize + i - 1] = Word(q.pointers[i])
    BY <1>3 DEF PointersKept
  <2> DEFINE u == HeaderSize + i - 1
  <2>1. u \in Units /\ HeaderSize <= u /\ u < HeaderSize + N /\ u - HeaderSize + 1 = i
    BY <1>1, Sizes
  <2> HIDE DEF u
  <2>2. q.raw[u] = Word(y.pointers[u - HeaderSize + 1])
    BY <2>1, <1>2
  <2> QED
    BY <2>1, <2>2, <1>2 DEF u
<1>7. ASSUME HeaderSize + N <= y.content, NEW es, Carries(y, es) PROVE Carries(q, es)
  <2> SUFFICES ASSUME NEW i \in 1..N
               PROVE  LET s == es[i]
                      IN  /\ s \in Seq(UnitValue) /\ Len(s) = Above(q, i) - q.pointers[i]
                          /\ \A k \in 1..Len(s) : q.raw[q.pointers[i] + k - 1] = s[k]
    BY <1>3 DEF Carries
  <2> DEFINE s == es[i]
             a == y.pointers[i]
  <2>1. s \in Seq(UnitValue) /\ Len(s) = Above(y, i) - a /\ \A k \in 1..Len(s) : y.raw[a + k - 1] = s[k]
    BY <1>7 DEF Carries
  <2>2. a \in Nat /\ y.content <= a
    BY Descending, Fields, Sizes
  <2>3. Above(y, i) \in Nat /\ Above(y, i) <= PageSize
    <3>1. i \in 1..N + 1
      BY <1>1
    <3> QED
      BY <3>1, Descending
  <2> HIDE DEF s, a
  <2>4. ASSUME NEW k \in 1..Len(s) PROVE q.raw[a + k - 1] = y.raw[a + k - 1]
    <3>0. Len(s) \in Nat
      BY <2>1
    <3>1. a + k - 1 \in Units /\ ~(a + k - 1 < HeaderSize + N)
      BY <3>0, <2>1, <2>2, <2>3, <1>1, <1>7, Sizes
    <3> QED
      BY <3>1, <1>2
  <2>5. \A k \in 1..Len(s) : q.raw[a + k - 1] = s[k]
    BY <2>1, <2>4
  <2> QED
    BY <2>1, <2>5, <1>2, <1>4 DEF s, a
<1> QED
  BY <1>2, <1>3, <1>5, <1>6, <1>7 DEF q

(* What defragment makes of a page whose cells begin at places of their     *)
(* own.                                                                     *)
LEMMA Defragmented ==
  ASSUME NEW p \in PageType, Distinct(p), NEW lo \in Nat, 1 <= lo, lo <= PageSize,
         \A i \in 1..Count(p) : lo <= p.pointers[i], HeaderSize + Count(p) <= lo
  PROVE  LET q == Defragment(p)
         IN  /\ q \in PageType /\ Count(q) = Count(p) /\ q.first = 0 /\ lo <= q.content
             /\ Descends(q) /\ Carries(q, Entries(p)) /\ PointersKept(q)
<1> DEFINE N == Count(p)
           q == Defragment(p)
<1>1. PICK x : Moved(p, x, N) /\ q = WritePointers([x EXCEPT !.first = 0, !.fragments = 0])
  BY Moving
<1> DEFINE y == [x EXCEPT !.first = 0, !.fragments = 0]
<1>2. x \in PageType /\ Count(x) = N /\ Descends(x) /\ Carries(x, Entries(p))
      /\ x.content = PageSize - Cardinality(Covered(p, N))
  BY <1>1 DEF Moved
<1>3. y \in PageType /\ y.pointers = x.pointers /\ y.content = x.content /\ y.raw = x.raw /\ y.first = 0
  BY <1>2 DEF PageType
<1>0. q = WritePointers(y)
  BY <1>1
<1> HIDE DEF y, q
<1>4. N \in Nat /\ lo <= x.content /\ x.content \in Nat /\ x.content <= PageSize
  <2>1. N \in Nat /\ N \in 0..N
    BY Fields
  <2>2. Cardinality(Covered(p, N)) \in Nat /\ Cardinality(Covered(p, N)) <= PageSize - lo
    BY <2>1, CoveredCount
  <2> QED
    BY <2>1, <2>2, <1>2, Sizes
<1>5. Count(y) = N /\ \A i : Above(y, i) = Above(x, i)
  BY <1>2, <1>3 DEF Count, Above
<1>6. Descends(y) /\ Carries(y, Entries(p))
  BY <1>2, <1>3, <1>5 DEF Descends, Carries
<1>7. HeaderSize + Count(y) <= y.content /\ HeaderSize + Count(y) <= PageSize
  BY <1>3, <1>4, <1>5, Sizes
<1>8. /\ q \in PageType /\ Count(q) = N /\ q.content = x.content /\ q.first = 0
      /\ Descends(q) /\ PointersKept(q) /\ Carries(q, Entries(p))
  BY <1>0, <1>3, <1>5, <1>6, <1>7, StackWritten
<1> QED
  BY <1>4, <1>8 DEF q

(* Moving the cells of a page keeps them and takes its list of free blocks  *)
(* away.                                                                    *)
LEMMA DefragmentLayout ==
  ASSUME NEW p, NEW bl, Layout(p, bl)
  PROVE  LET q == Defragment(p)
         IN  /\ Layout(q, << >>) /\ Descends(q) /\ PointersKept(q) /\ q.first = 0
             /\ Count(q) = Count(p) /\ \A i \in 1..Count(p) : At(q, i) = At(p, i)
<1> DEFINE q == Defragment(p)
           N == Count(p)
           cs == Cellsat(p)
<1>1. p \in PageType /\ PointersHeld(p) /\ CellsHeld(p)
  BY DEF Layout
<1>2. N \in Nat /\ p.content \in Nat /\ p.content <= PageSize /\ HeaderSize + N <= p.content
  BY <1>1, Fields, Sizes DEF PointersHeld
<1>3. 1 <= p.content
  BY <1>2, Sizes
<1>4. \A i \in 1..N : p.content <= p.pointers[i]
  BY <1>1, CellHeld
<1>5. Distinct(p)
  <2> SUFFICES ASSUME NEW i \in 1..N, NEW j \in 1..N, i # j PROVE p.pointers[i] # p.pointers[j]
    BY DEF Distinct
  <2>1. p.pointers[i] < p.pointers[j] \/ p.pointers[j] < p.pointers[i]
    BY <1>1, CellsApart
  <2>2. p.pointers[i] \in Nat /\ p.pointers[j] \in Nat
    BY <1>1, CellHeld
  <2> QED
    BY <2>1, <2>2
<1>6. /\ q \in PageType /\ Count(q) = N /\ q.first = 0 /\ p.content <= q.content
      /\ Descends(q) /\ Carries(q, Entries(p)) /\ PointersKept(q)
  BY <1>1, <1>2, <1>3, <1>4, <1>5, Defragmented
<1> HIDE DEF q
<1>7. PointersHeld(q)
  <2>1. q.content \in Nat
    BY <1>6, Fields, Sizes
  <2> QED
    BY <2>1, <1>2, <1>6, Sizes DEF PointersHeld, PointersKept
<1>8. \A i \in 1..Count(q) : Begins(Entries(p)[i], cs[i])
  <2> SUFFICES ASSUME NEW i \in 1..N PROVE Begins(Entries(p)[i], At(p, i))
    BY <1>6 DEF Cellsat
  <2>1. Begins(ReadCell(p, i), At(p, i))
    BY <1>1, CellsRead
  <2>2. Entries(p)[i] = ReadCell(p, i)
    BY <1>1, CellReadRaw
  <2> QED
    BY <2>1, <2>2
<1>9. Layout(q, << >>) /\ \A i \in 1..Count(q) : At(q, i) = cs[i]
  BY <1>6, <1>7, <1>8, StackedLayout
<1> QED
  BY <1>6, <1>9 DEF q, Cellsat

(* Writing the pointers that are there changes nothing.                     *)
LEMMA PointersWrittenAlready ==
  ASSUME NEW p \in PageType, PointersKept(p)
  PROVE  WritePointers(p) = p
<1> DEFINE q == WritePointers(p)
<1>1. /\ q \in PageType
      /\ q.pointers = p.pointers /\ q.content = p.content /\ q.first = p.first
      /\ \A u \in Units :
           q.raw[u] = IF HeaderSize <= u /\ u < HeaderSize + Count(p)
                      THEN Word(p.pointers[u - HeaderSize + 1]) ELSE p.raw[u]
  BY PointersWritten
<1> HIDE DEF q
<1>2. ASSUME NEW u \in Units PROVE q.raw[u] = p.raw[u]
  <2>1. CASE HeaderSize <= u /\ u < HeaderSize + Count(p)
    <3> DEFINE i == u - HeaderSize + 1
    <3>1. i \in 1..Count(p) /\ HeaderSize + i - 1 = u
      BY <2>1, Fields, Sizes
    <3> HIDE DEF i
    <3>2. p.raw[HeaderSize + i - 1] = Word(p.pointers[i])
      BY <3>1 DEF PointersKept
    <3> QED
      BY <3>1, <3>2, <2>1, <1>1 DEF i
  <2>2. CASE ~(HeaderSize <= u /\ u < HeaderSize + Count(p))
    BY <2>2, <1>1
  <2> QED
    BY <2>1, <2>2
<1>3. q = p
  BY <1>1, <1>2, SamePage
<1> QED
  BY <1>3 DEF q

(* A page whose cells are stacked already, and that has no free blocks, is  *)
(* not changed by moving its cells -- not even when its last pointer lies   *)
(* over a cell.                                                             *)
LEMMA DefragmentPacked ==
  ASSUME NEW p \in PageType, Descends(p), PointersKept(p), p.first = 0, 1 <= p.content
  PROVE  Defragment(p) = p
<1> DEFINE N == Count(p)
           step(f) == [n \in 0..N |-> IF n = 0 THEN Bare(p) ELSE Place(f[n - 1], Entries(p)[n])]
           moved == CHOOSE f : f = step(f)
           part(n) == [p EXCEPT !.pointers = SubSeq(p.pointers, 1, n), !.content = Above(p, n + 1)]
           parts == [n \in 0..N |-> part(n)]
           H == {n \in 0..N : moved[n] = part(n)}
<1>1. N \in Nat /\ p.pointers \in Seq(Units) /\ N = Len(p.pointers)
  BY Fields
<1>2. ASSUME NEW n \in 0..N
      PROVE  /\ part(n) \in PageType /\ part(n).pointers = SubSeq(p.pointers, 1, n)
             /\ part(n).content = Above(p, n + 1) /\ part(n).first = p.first /\ part(n).raw = p.raw
             /\ Count(part(n)) = n /\ \A i \in 1..n : part(n).pointers[i] = p.pointers[i]
  <2>1. SubSeq(p.pointers, 1, n) \in Seq(Units) /\ Len(SubSeq(p.pointers, 1, n)) = n
        /\ \A i \in 1..n : SubSeq(p.pointers, 1, n)[i] = p.pointers[i]
    BY <1>1
  <2>2. Above(p, n + 1) \in 0..PageSize
    <3>1. n + 1 \in 1..N + 1
      BY <1>1
    <3>2. Above(p, n + 1) \in Nat /\ Above(p, n + 1) <= PageSize
      BY <3>1, Descending
    <3> QED
      BY <3>2, Sizes
  <2> DEFINE ptrs == SubSeq(p.pointers, 1, n)
             c == Above(p, n + 1)
             x == part(n)
  <2>3. x = [p EXCEPT !.pointers = ptrs, !.content = c]
    OBVIOUS
  <2> HIDE DEF ptrs, c, x
  <2>4. x \in PageType /\ x.pointers = ptrs /\ x.content = c /\ x.first = p.first /\ x.raw = p.raw
    <3>1. ptrs \in Seq(Units) /\ c \in 0..PageSize
      BY <2>1, <2>2 DEF ptrs, c
    <3> QED
      BY <2>3, <3>1 DEF PageType
  <2>5. Count(x) = n
    BY <2>1, <2>4 DEF Count, ptrs
  <2> QED
    BY <2>1, <2>4, <2>5 DEF x, ptrs, c
<1> HIDE DEF part
<1>3. ASSUME NEW n \in 1..N PROVE Place(part(n - 1), Entries(p)[n]) = part(n)
  <2> DEFINE s == Entries(p)[n]
             x == part(n - 1)
             q == Place(x, s)
             a == p.pointers[n]
             y == part(n)
  <2>0. n \in Nat /\ n - 1 \in 0..N /\ n \in 0..N /\ n - 1 + 1 = n /\ (n + 1) - 1 = n /\ n + 1 # 1
    BY <1>1
  <2>1. s \in Seq(UnitValue) /\ Len(s) = FindCellEnd(p, n) - a
        /\ \A k \in 1..Len(s) : s[k] = p.raw[a + k - 1]
    <3> DEFINE r == ReadCell(p, n)
    <3>1. r \in Seq(UnitValue) /\ Len(r) = FindCellEnd(p, n) - p.pointers[n]
          /\ (\A k \in 1..Len(r) : r[k] = p.raw[p.pointers[n] + k - 1]) /\ Entries(p)[n] = r
      BY CellReadRaw
    <3> HIDE DEF r
    <3> QED
      BY <3>1
  <2>2. FindCellEnd(p, n) = Above(p, n) /\ FindCellEnd(p, n) \in Nat /\ FindCellEnd(p, n) <= PageSize
        /\ a < FindCellEnd(p, n) /\ a \in Nat
    BY Descending, CellEnd, Fields, Sizes
  <2>3. x \in PageType /\ x.content = Above(p, n) /\ x.first = p.first /\ x.raw = p.raw /\ Count(x) = n - 1
        /\ \A i \in 1..n - 1 : x.pointers[i] = p.pointers[i]
    BY <2>0, <1>2
  <2>4. y \in PageType /\ y.content = Above(p, n + 1) /\ y.first = p.first /\ y.raw = p.raw /\ Count(y) = n
        /\ \A i \in 1..n : y.pointers[i] = p.pointers[i]
    BY <2>0, <1>2
  <2>5. Above(p, n + 1) = a
    BY <2>0 DEF Above
  <2> HIDE DEF s, x, q, a, y
  <2>6. 1 <= a
    BY <2>2, Descending, Fields, Sizes DEF a
  <2>7. Len(s) \in Nat /\ 1 <= Len(s) /\ Len(s) < x.content /\ x.content - Len(s) = a
    <3>1. Len(s) = FindCellEnd(p, n) - a /\ x.content = FindCellEnd(p, n)
      BY <2>1, <2>2, <2>3
    <3> QED
      BY <3>1, <2>2, <2>6
  <2>8. /\ q \in PageType /\ q.content = a /\ q.first = x.first /\ Count(q) = n
        /\ q.pointers[n] = a
        /\ \A i \in 1..n - 1 : q.pointers[i] = x.pointers[i]
        /\ \A u \in Units : q.raw[u] = IF a <= u /\ u < x.content THEN s[u - a + 1] ELSE x.raw[u]
    BY <2>0, <2>1, <2>3, <2>7, Placed DEF q
  <2>9. \A u \in Units : q.raw[u] = y.raw[u]
    <3> SUFFICES ASSUME NEW u \in Units PROVE q.raw[u] = p.raw[u]
      BY <2>4
    <3>1. CASE a <= u /\ u < x.content
      <4>1. u - a + 1 \in 1..Len(s) /\ a + (u - a + 1) - 1 = u
        BY <3>1, <2>2, <2>3, <2>7, Sizes
      <4>2. s[u - a + 1] = p.raw[a + (u - a + 1) - 1]
        BY <4>1, <2>1
      <4> QED
        BY <3>1, <4>1, <4>2, <2>8
    <3>2. CASE ~(a <= u /\ u < x.content)
      BY <3>2, <2>8, <2>3
    <3> QED
      BY <3>1, <3>2
  <2>10. q.pointers = y.pointers
    <3>1. q.pointers \in Seq(Units) /\ y.pointers \in Seq(Units)
          /\ Len(q.pointers) = n /\ Len(y.pointers) = n
      BY <2>8, <2>4, Fields
    <3>2. \A i \in 1..n : q.pointers[i] = y.pointers[i]
      <4> SUFFICES ASSUME NEW i \in 1..n PROVE q.pointers[i] = y.pointers[i]
        OBVIOUS
      <4>1. CASE i = n
        BY <4>1, <2>8, <2>4, <2>0 DEF a
      <4>2. CASE i # n
        <5>1. i \in 1..n - 1
          BY <4>2, <2>0
        <5> QED
          BY <5>1, <2>8, <2>3, <2>4
      <4> QED
        BY <4>1, <4>2
    <3> QED
      BY <3>1, <3>2, SeqEqual
  <2>11. q = y
    BY <2>3, <2>4, <2>5, <2>8, <2>9, <2>10, SamePage
  <2> QED
    BY <2>11 DEF q, y, x, s
<1>4. Bare(p) = part(0)
  <2>1. SubSeq(p.pointers, 1, 0) = << >>
    BY <1>1
  <2>2. Above(p, 0 + 1) = PageSize
    BY DEF Above
  <2> QED
    BY <2>1, <2>2 DEF Bare, part
<1>5. parts = step(parts)
  <2>1. \A n \in 0..N : part(n) = IF n = 0 THEN Bare(p) ELSE Place(parts[n - 1], Entries(p)[n])
    <3> SUFFICES ASSUME NEW n \in 0..N, n # 0 PROVE part(n) = Place(parts[n - 1], Entries(p)[n])
      BY <1>4
    <3>1. n \in 1..N /\ n - 1 \in 0..N
      BY <1>1
    <3> QED
      BY <3>1, <1>3
  <2> QED
    BY <2>1
<1> DEFINE t == step(moved)
<1>6. moved = t
  <2> HIDE DEF step
  <2> QED
    BY <1>5
<1>7. \A n \in 0..N : t[n] = IF n = 0 THEN Bare(p) ELSE Place(moved[n - 1], Entries(p)[n])
  OBVIOUS
<1>8. Defragment(p) = WritePointers([moved[N] EXCEPT !.first = 0, !.fragments = 0])
  BY DEF Defragment
<1> HIDE DEF t, moved
<1>9. 0..N \subseteq H
  <2>1. 0 \in H
    BY <1>1, <1>4, <1>6, <1>7
  <2>2. ASSUME NEW n \in 1..N, n - 1 \in H PROVE n \in H
    <3>1. n \in 0..N /\ n # 0 /\ moved[n - 1] = part(n - 1)
      BY <2>2, <1>1
    <3>2. moved[n] = Place(moved[n - 1], Entries(p)[n])
      BY <3>1, <1>6, <1>7
    <3>3. moved[n] = part(n)
      BY <3>1, <3>2, <1>3
    <3> QED
      BY <3>1, <3>3
  <2> HIDE DEF H
  <2> QED
    BY <1>1, <2>1, <2>2, Induction
<1>10. moved[N] = part(N)
  <2>1. N \in 0..N
    BY <1>1
  <2> QED
    BY <2>1, <1>9
<1>11. part(N) = p
  <2>1. SubSeq(p.pointers, 1, N) = p.pointers
    BY <1>1
  <2>2. N \in 0..N /\ Above(p, N + 1) = p.content
    BY <1>1 DEF Descends
  <2> DEFINE y == part(N)
  <2>3. y \in PageType
    BY <2>2, <1>2
  <2>4. y.raw = p.raw /\ y.pointers = p.pointers /\ y.content = p.content /\ y.first = p.first
    BY <2>1, <2>2, <1>2
  <2> HIDE DEF y
  <2>5. y = p
    BY <2>3, <2>4, SamePage
  <2> QED
    BY <2>5 DEF y
<1>12. [p EXCEPT !.first = 0, !.fragments = 0] = p
  BY DEF PageType
<1>13. WritePointers(p) = p
  BY PointersWrittenAlready
<1> QED
  BY <1>8, <1>10, <1>11, <1>12, <1>13

-----------------------------------------------------------------------------
(* The list of free blocks                                                  *)

(* What follows the block at b.                                             *)
Following(p, b) == IF b \in Units \ {0} THEN Number(p.raw[b]) ELSE 0

(* The walk along the list of free blocks.                                  *)
LEMMA BlockValues ==
  ASSUME NEW p \in PageType
  PROVE  /\ DOMAIN Block(p) = 1..PageSize /\ 1 \in 1..PageSize
         /\ Block(p)[1] = p.first
         /\ \A n \in 1..PageSize : /\ Block(p)[n] \in Nat
                                   /\ n # 1 => Block(p)[n] = Following(p, Block(p)[n - 1])
<1> DEFINE step(f) == [n \in 1..PageSize |-> IF n = 1 THEN p.first ELSE Following(p, f[n - 1])]
           at == CHOOSE f : f = step(f)
           N == PageSize - 1
           S == [n \in 0..N |-> Nat]
           g == [n \in 1..N |-> [b \in Nat |-> Following(p, b)]]
<1>1. PageSize \in Nat /\ 1 <= PageSize /\ N \in Nat
  BY Sizes
<1>2. Block(p) = at
  BY DEF Block, Following
<1>3. p.first \in Nat /\ \A b : Following(p, b) \in Nat
  BY Fields, UnitValues DEF Following
<1>4. \E f : Follows(f, N, S, p.first, g)
  <2>1. Stepwise(N, S, p.first, g)
    BY <1>1, <1>3 DEF Stepwise
  <2> QED
    BY <2>1, Recursion
<1>5. PICK f : Follows(f, N, S, p.first, g)
  BY <1>4
<1>6. f[0] = p.first /\ \A n \in 1..N : f[n] = Following(p, f[n - 1])
  <2>1. f[0] = p.first /\ (\A n \in 1..N : f[n] = g[n][f[n - 1]]) /\ \A n \in 0..N : f[n] \in Nat
    BY <1>5 DEF Follows
  <2>2. \A n \in 1..N : n - 1 \in 0..N
    BY <1>1
  <2> QED
    BY <2>1, <2>2
<1> DEFINE h == [n \in 1..PageSize |-> f[n - 1]]
<1>7. h = step(h)
  <2>1. ASSUME NEW n \in 1..PageSize
        PROVE  f[n - 1] = IF n = 1 THEN p.first ELSE Following(p, h[n - 1])
    <3>1. CASE n = 1
      BY <3>1, <1>6
    <3>2. CASE n # 1
      <4>1. n - 1 \in 1..N /\ n - 1 \in 1..PageSize
        BY <3>2, <1>1
      <4>2. h[n - 1] = f[(n - 1) - 1]
        BY <4>1
      <4> QED
        BY <3>2, <4>1, <4>2, <1>6
    <3> QED
      BY <3>1, <3>2
  <2> QED
    BY <2>1
<1> DEFINE t == step(at)
<1>8. at = t
  <2> HIDE DEF step, h
  <2> QED
    BY <1>7
<1>9. DOMAIN t = 1..PageSize
      /\ \A n \in 1..PageSize : t[n] = IF n = 1 THEN p.first ELSE Following(p, at[n - 1])
  OBVIOUS
<1> HIDE DEF t, at
<1>10. \A n \in 1..PageSize : at[n] = IF n = 1 THEN p.first ELSE Following(p, at[n - 1])
  BY <1>8, <1>9
<1>11. \A n \in 1..PageSize : at[n] \in Nat
  BY <1>3, <1>10
<1> QED
  BY <1>1, <1>2, <1>8, <1>9, <1>10, <1>11

(* The size of a block is read from its second unit.                        *)
LEMMA BlockSizes ==
  ASSUME NEW p \in PageType, NEW b \in Nat
  PROVE  /\ BlockSize(p, b) \in Nat
         /\ 1 <= BlockSize(p, b) => b + 1 \in Units /\ b \in Units /\ BlockSize(p, b) = Number(p.raw[b + 1])
<1>1. b + 1 \in Units => b \in Units
  BY Sizes
<1> QED
  BY <1>1, Fields, UnitValues DEF BlockSize

(* The walk along a list whose blocks differ visits them and ends.          *)
LEMMA LinkedBlocks ==
  ASSUME NEW p \in PageType, NEW bl, Linked(p, bl),
         \A m, n \in 1..Len(bl) : m # n => bl[m] # bl[n]
  PROVE  /\ Len(bl) \in Nat /\ Len(bl) < PageSize
         /\ \A n \in 1..PageSize : Block(p)[n] = IF n <= Len(bl) THEN bl[n] ELSE 0
         /\ Blocks(p) = {bl[m] : m \in 1..Len(bl)}
<1> DEFINE L == Len(bl)
           T == Units \ {0}
           H == {n \in 0..PageSize : n # 0 => Block(p)[n] = IF n <= L THEN bl[n] ELSE 0}
<1>1. bl \in Seq(T) /\ L \in Nat /\ bl \in [1..L -> T]
  BY DEF Linked
<1>2. L < PageSize
  <2>1. IsFiniteSet(1..L) /\ Cardinality(1..L) = L
    <3>1. 1 \in Int /\ L \in Int /\ L \in Nat
      BY <1>1
    <3>2. IsFiniteSet(1..L) /\ Cardinality(1..L) = IF 1 > L THEN 0 ELSE L - 1 + 1
      BY <3>1, FS_Interval
    <3> HIDE DEF L
    <3> QED
      BY <3>1, <3>2
  <2>2. IsFiniteSet(T) /\ Cardinality(T) = PageSize - 1
    <3>1. T = 1..PageSize - 1
      BY Sizes
    <3>2. 1 \in Int /\ PageSize - 1 \in Int /\ 1 <= PageSize
      BY Sizes
    <3>3. IsFiniteSet(1..PageSize - 1)
          /\ Cardinality(1..PageSize - 1) = IF 1 > PageSize - 1 THEN 0 ELSE (PageSize - 1) - 1 + 1
      BY <3>2, FS_Interval
    <3>4. Cardinality(1..PageSize - 1) = PageSize - 1
      BY <3>2, <3>3, Sizes
    <3> QED
      BY <3>1, <3>3, <3>4, Zenon
  <2>3. SUFFICES ASSUME PageSize <= L PROVE FALSE
    BY <1>1, Sizes
  <2>4. Cardinality(T) < Cardinality(1..L)
    BY <2>1, <2>2, <2>3, <1>1, Sizes
  <2>5. \E x, y \in 1..L : x # y /\ bl[x] = bl[y]
    <3> HIDE DEF T
    <3> QED
      BY <1>1, <2>1, <2>2, <2>4, FS_PigeonHole
  <2> QED
    BY <2>5
<1>3. \A m \in 1..L : bl[m] \in T /\ bl[m] # 0 /\ bl[m] \in Nat
  BY <1>1, Sizes
<1>4. p.first = (IF L = 0 THEN 0 ELSE bl[1])
      /\ \A m \in 1..L : p.raw[bl[m]] = Word(IF m = L THEN 0 ELSE bl[m + 1])
  BY DEF Linked
<1>5. \A m \in 1..L : Following(p, bl[m]) = IF m = L THEN 0 ELSE bl[m + 1]
  <2> SUFFICES ASSUME NEW m \in 1..L PROVE Following(p, bl[m]) = IF m = L THEN 0 ELSE bl[m + 1]
    OBVIOUS
  <2>1. (IF m = L THEN 0 ELSE bl[m + 1]) \in Nat
    <3>1. CASE m = L
      BY <3>1
    <3>2. CASE m # L
      <4>1. m + 1 \in 1..L
        <5>1. L \in Nat
          BY <1>1
        <5> HIDE DEF L
        <5> QED
          BY <3>2, <5>1
      <4> QED
        BY <3>2, <4>1, <1>3
    <3> QED
      BY <3>1, <3>2
  <2> QED
    BY <2>1, <1>3, <1>4, UnitValues DEF Following
<1>6. Block(p)[1] = p.first
      /\ \A n \in 1..PageSize : n # 1 => Block(p)[n] = Following(p, Block(p)[n - 1])
  BY BlockValues
<1>7. \A n \in 1..PageSize : n - 1 \in H => n \in H
  <2> SUFFICES ASSUME NEW n \in 1..PageSize, n - 1 \in H
               PROVE  Block(p)[n] = IF n <= L THEN bl[n] ELSE 0
    BY Sizes
  <2>1. CASE n = 1
    <3>1. L \in Nat /\ (L = 0 <=> ~(1 <= L))
      <4>1. L \in Nat
        BY <1>1
      <4> HIDE DEF L
      <4> QED
        BY <4>1
    <3> QED
      BY <2>1, <3>1, <1>4, <1>6
  <2>2. CASE n # 1
    <3>1. Block(p)[n - 1] = IF n - 1 <= L THEN bl[n - 1] ELSE 0
      BY <2>2
    <3>2. Block(p)[n] = Following(p, Block(p)[n - 1])
      BY <2>2, <1>6
    <3>3. CASE n - 1 <= L
      <4>1. n - 1 \in 1..L /\ (n - 1 = L <=> ~(n <= L)) /\ n - 1 + 1 = n
        BY <2>2, <3>3, <1>1
      <4> QED
        BY <4>1, <3>1, <3>2, <3>3, <1>5
    <3>4. CASE ~(n - 1 <= L)
      <4>1. ~(n <= L)
        BY <3>4, <1>1
      <4> QED
        BY <4>1, <3>1, <3>2, <3>4 DEF Following
    <3> QED
      BY <3>3, <3>4
  <2> QED
    BY <2>1, <2>2
<1>8. 0..PageSize \subseteq H
  <2>1. PageSize \in Nat /\ 0 \in H
    BY Sizes
  <2> HIDE DEF H
  <2> QED
    BY <1>7, <2>1, Induction
<1>9. \A n \in 1..PageSize : Block(p)[n] = IF n <= L THEN bl[n] ELSE 0
  <2> SUFFICES ASSUME NEW n \in 1..PageSize PROVE Block(p)[n] = IF n <= L THEN bl[n] ELSE 0
    OBVIOUS
  <2>1. n \in 0..PageSize /\ n # 0
    BY Sizes
  <2> QED
    BY <2>1, <1>8
<1>10. Blocks(p) = {bl[m] : m \in 1..L}
  <2>1. DOMAIN Block(p) = 1..PageSize
    BY BlockValues
  <2>2. \A m \in 1..L : m \in 1..PageSize /\ m <= L
    BY <1>1, <1>2, Sizes
  <2>3. \A n \in 1..PageSize : n <= L => n \in 1..L
    BY <1>1
  <2>4. Range(Block(p)) = {Block(p)[n] : n \in 1..PageSize}
    BY <2>1 DEF Range
  <2> HIDE DEF L
  <2>5. ASSUME NEW x \in Blocks(p) PROVE \E m \in 1..L : bl[m] = x
    <3>1. x # 0 /\ \E n \in 1..PageSize : Block(p)[n] = x
      BY <2>4 DEF Blocks
    <3> QED
      BY <3>1, <1>9, <2>3
  <2>6. ASSUME NEW m \in 1..L PROVE bl[m] \in Blocks(p)
    <3>1. Block(p)[m] = bl[m] /\ bl[m] # 0
      BY <2>2, <1>3, <1>9
    <3> QED
      BY <3>1, <2>2, <2>4 DEF Blocks
  <2> QED
    BY <2>5, <2>6
<1> QED
  BY <1>1, <1>2, <1>9, <1>10

-----------------------------------------------------------------------------
(* Putting a cell where there is room                                       *)

(* Of two spans that are apart, neither begins in the first two units of    *)
(* the other.                                                               *)
LEMMA ApartHeads ==
  ASSUME NEW a \in Nat, NEW m \in Nat, 2 <= m, NEW b \in Nat, NEW n \in Nat, 2 <= n, Apart(a, m, b, n)
  PROVE  a # b /\ a + 1 # b
BY DEF Apart

(* Of two spans that are apart, each is apart from the other.               *)
LEMMA ApartIsSymmetric ==
  \A a, m, b, n : Apart(a, m, b, n) => Apart(b, n, a, m)
BY DEF Apart

(* A free block lies within the content area, at a place of its own.        *)
LEMMA BlockHeld ==
  ASSUME NEW p, NEW bl, Layout(p, bl), NEW m \in 1..Len(bl)
  PROVE  /\ bl[m] \in Nat /\ bl[m] # 0 /\ bl[m] \in Units /\ bl[m] + 1 \in Units
         /\ p.content <= bl[m] /\ bl[m] + BlockSize(p, bl[m]) <= PageSize
         /\ BlockSize(p, bl[m]) \in Nat /\ 2 <= BlockSize(p, bl[m])
         /\ \A n \in 1..Len(bl) : m # n => bl[m] # bl[n]
<1>1. p \in PageType /\ bl \in Seq(Units \ {0})
  BY DEF Layout, BlocksHeld, Linked
<1>2. \A n \in 1..Len(bl) : bl[n] \in Nat /\ bl[n] # 0 /\ bl[n] \in Units
  BY <1>1, Sizes
<1>3. \A n \in 1..Len(bl) :
        /\ p.content <= bl[n] /\ bl[n] + BlockSize(p, bl[n]) <= PageSize
        /\ BlockSize(p, bl[n]) >= 2 /\ BlockSize(p, bl[n]) \in Nat
  BY <1>1, <1>2, BlockSizes DEF Layout, BlocksHeld
<1>4. ASSUME NEW n \in 1..Len(bl), m # n PROVE bl[m] # bl[n]
  <2>1. Apart(bl[m], BlockSize(p, bl[m]), bl[n], BlockSize(p, bl[n]))
    BY <1>4 DEF Layout, BlocksHeld
  <2> QED
    BY <2>1, <1>2, <1>3 DEF Apart
<1>5. bl[m] + 1 \in Units
  <2>1. p \in PageType /\ bl[m] \in Nat
    BY <1>1, <1>2
  <2>2. 1 <= BlockSize(p, bl[m]) => bl[m] + 1 \in Units
    BY <2>1, BlockSizes
  <2>3. 2 <= BlockSize(p, bl[m]) /\ BlockSize(p, bl[m]) \in Nat
    BY <1>3
  <2> QED
    BY <2>2, <2>3
<1> QED
  BY <1>2, <1>3, <1>4, <1>5

(* A cell whose units have not changed is held still, under any number.     *)
LEMMA CellKept ==
  ASSUME NEW p \in PageType, CellsHeld(p), NEW i \in 1..Count(p),
         NEW q \in PageType, q.content <= p.content,
         NEW k \in 1..Count(q), q.pointers[k] = p.pointers[i],
         \A u \in Units :
           p.pointers[i] <= u /\ u < p.pointers[i] + At(p, i).size => q.raw[u] = p.raw[u]
  PROVE  At(q, k) = At(p, i) /\ CellAt(q, q.pointers[k], At(q, k))
<1> DEFINE a == p.pointers[i]
           c == At(p, i)
<1>1. /\ c \in Cells /\ c.size \in Nat /\ 2 <= c.size /\ a \in Nat /\ a \in Units
      /\ p.content <= a /\ a + c.size <= PageSize
      /\ \A j \in 1..c.size : p.raw[a + j - 1] = Piece(c, j)
  BY CellHeld
<1>2. q.raw[a] = p.raw[a]
  BY <1>1
<1>3. At(q, k) = c
  BY <1>2 DEF At
<1> HIDE DEF a, c
<1>4. ASSUME NEW j \in 1..c.size PROVE q.raw[a + j - 1] = Piece(c, j)
  <2>1. a + j - 1 \in Units /\ a <= a + j - 1 /\ a + j - 1 < a + c.size
    BY <1>1, Sizes, SMTT(20)
  <2> QED
    BY <2>1, <1>1 DEF a, c
<1>5. q.content <= a
  <2>1. q.content \in Nat /\ p.content \in Nat
    <3>1. q.content \in 0..PageSize /\ p.content \in 0..PageSize
      BY DEF PageType
    <3> QED
      BY <3>1, Sizes
  <2> QED
    BY <2>1, <1>1
<1> QED
  BY <1>1, <1>3, <1>4, <1>5 DEF CellAt, a, c

(* The m units at a are used for nothing.                                   *)
Room(p, bl, a, m) ==
  /\ a \in Nat /\ p.content <= a /\ a + m <= PageSize
  /\ \A i \in 1..Count(p) : Apart(a, m, p.pointers[i], At(p, i).size)
  /\ \A n \in 1..Len(bl) : Apart(a, m, bl[n], BlockSize(p, bl[n]))

Put(p, i, a, s) == WritePointers([Overwrite(p, a, s) EXCEPT !.pointers = InsertAt(@, i, a)])

(* What a page holds after an entry was written at a and a pointer to it    *)
(* inserted.                                                                *)
LEMMA PutPage ==
  ASSUME NEW p \in PageType, NEW i \in 1..Count(p) + 1, NEW a \in Units, NEW s \in Seq(UnitValue)
  PROVE  LET q == Put(p, i, a, s)
         IN  /\ q \in PageType /\ q.content = p.content /\ q.first = p.first
             /\ Count(q) = Count(p) + 1
             /\ \A k \in 1..Count(p) + 1 :
                  q.pointers[k] =
                  IF k < i THEN p.pointers[k] ELSE IF k = i THEN a ELSE p.pointers[k - 1]
             /\ \A u \in Units :
                  q.raw[u] = IF HeaderSize <= u /\ u < HeaderSize + Count(q)
                             THEN Word(q.pointers[u - HeaderSize + 1])
                             ELSE IF a <= u /\ u < a + Len(s) THEN s[u - a + 1] ELSE p.raw[u]
<1> DEFINE o == Overwrite(p, a, s)
           ptrs == InsertAt(p.pointers, i, a)
           y == [o EXCEPT !.pointers = InsertAt(o.pointers, i, a)]
           q == WritePointers(y)
<1>0. Put(p, i, a, s) = q
  BY DEF Put
<1>1. /\ o \in PageType
      /\ o.pointers = p.pointers /\ o.content = p.content /\ o.first = p.first
      /\ \A u \in Units : o.raw[u] = IF a <= u /\ u < a + Len(s) THEN s[u - a + 1] ELSE p.raw[u]
  <2>1. a \in Int
    BY Sizes
  <2> QED
    BY <2>1, Overwritten
<1>2. p.pointers \in Seq(Units) /\ Len(p.pointers) = Count(p) /\ Count(p) \in Nat
  BY Fields
<1>3. /\ ptrs \in Seq(Units) /\ Len(ptrs) = Count(p) + 1
      /\ \A k \in 1..Count(p) + 1 :
           ptrs[k] = IF k < i THEN p.pointers[k] ELSE IF k = i THEN a ELSE p.pointers[k - 1]
  <2>1. i \in 1..Len(p.pointers) + 1
    BY <1>2
  <2>2. ptrs \in Seq(Units) /\ Insertion(ptrs, p.pointers, i, a)
    BY <1>2, <2>1, InsertedAt
  <2> HIDE DEF ptrs
  <2> QED
    BY <1>2, <2>2 DEF Insertion
<1>4. y = [o EXCEPT !.pointers = ptrs]
  BY <1>1
<1> HIDE DEF o, ptrs
<1>5. y \in PageType /\ y.pointers = ptrs /\ y.content = p.content /\ y.first = p.first /\ y.raw = o.raw
  <2> HIDE DEF y
  <2> QED
    BY <1>1, <1>3, <1>4 DEF PageType
<1> HIDE DEF y
<1>6. /\ q \in PageType /\ q.pointers = ptrs /\ q.content = p.content /\ q.first = p.first
      /\ \A u \in Units :
           q.raw[u] = IF HeaderSize <= u /\ u < HeaderSize + Count(y)
                      THEN Word(ptrs[u - HeaderSize + 1]) ELSE o.raw[u]
  BY <1>5, PointersWritten
<1> HIDE DEF q
<1>7. Count(y) = Count(p) + 1 /\ Count(q) = Count(p) + 1
  BY <1>3, <1>5, <1>6 DEF Count
<1>8. \A u \in Units :
        q.raw[u] = IF HeaderSize <= u /\ u < HeaderSize + Count(q)
                   THEN Word(q.pointers[u - HeaderSize + 1])
                   ELSE IF a <= u /\ u < a + Len(s) THEN s[u - a + 1] ELSE p.raw[u]
  BY <1>1, <1>6, <1>7
<1>9. \A k \in 1..Count(p) + 1 :
        q.pointers[k] = IF k < i THEN p.pointers[k] ELSE IF k = i THEN a ELSE p.pointers[k - 1]
  BY <1>3, <1>6
<1> QED
  BY <1>0, <1>6, <1>7, <1>8, <1>9

(* A cell put where there is room for it leaves the page sound.             *)
LEMMA PutLayout ==
  ASSUME NEW p, NEW bl, Layout(p, bl), NEW c \in Cells, NEW a, Room(p, bl, a, c.size),
         NEW i \in 1..Count(p) + 1, HeaderSize + Count(p) + 1 <= p.content
  PROVE  LET q == Put(p, i, a, Bytes(c))
         IN  Layout(q, bl) /\ Insertion(Cellsat(q), Cellsat(p), i, c)
<1> DEFINE N == Count(p)
           z == c.size
           s == Bytes(c)
           q == Put(p, i, a, s)
           src(k) == IF k < i THEN k ELSE k - 1
<1>1. p \in PageType /\ CellsHeld(p) /\ N \in Nat /\ p.content \in Nat /\ p.content <= PageSize
      /\ i \in Nat /\ 1 <= i /\ i <= N + 1
  BY Fields, Sizes DEF Layout
<1>2. z \in Nat /\ 2 <= z /\ a \in Nat /\ p.content <= a /\ a + z <= PageSize /\ a \in Units
  BY Sizes DEF Room
<1>3. s \in Seq(UnitValue) /\ Len(s) = z /\ \A k \in 1..z : s[k] = Piece(c, k)
  <2>1. \A k \in 1..z : Piece(c, k) \in UnitValue
    BY <1>2, UnitValues
  <2> QED
    BY <1>2, <2>1 DEF Bytes
<1> HIDE DEF s
<1>4. /\ q \in PageType /\ q.content = p.content /\ q.first = p.first
      /\ Count(q) = N + 1
      /\ \A k \in 1..N + 1 :
           q.pointers[k] = IF k < i THEN p.pointers[k] ELSE IF k = i THEN a ELSE p.pointers[k - 1]
      /\ \A u \in Units :
           q.raw[u] = IF HeaderSize <= u /\ u < HeaderSize + Count(q)
                      THEN Word(q.pointers[u - HeaderSize + 1])
                      ELSE IF a <= u /\ u < a + Len(s) THEN s[u - a + 1] ELSE p.raw[u]
  BY <1>1, <1>2, <1>3, PutPage
<1> HIDE DEF q
<1>5. ASSUME NEW u \in Units, p.content <= u, ~(a <= u /\ u < a + z) PROVE q.raw[u] = p.raw[u]
  <2>1. ~(u < HeaderSize + Count(q))
    BY <1>1, <1>4, <1>5, Sizes
  <2> QED
    BY <2>1, <1>3, <1>4, <1>5
<1>6. ASSUME NEW k \in 1..z PROVE q.raw[a + k - 1] = Piece(c, k)
  <2> DEFINE u == a + k - 1
  <2>0. k \in Nat /\ 1 <= k /\ k <= z
    BY <1>2
  <2>3. Count(q) = N + 1
    BY <1>4
  <2>6. HeaderSize + (N + 1) <= p.content
    BY <1>1, Sizes
  <2> HIDE DEF N, z
  <2>4. u \in Nat /\ a <= u /\ u < a + z /\ u - a + 1 = k
    BY <1>2, <2>0
  <2>5. u < PageSize /\ ~(u < HeaderSize + (N + 1))
    BY <1>1, <1>2, <2>4, <2>6, Sizes
  <2>1. u \in Units /\ a <= u /\ u < a + z /\ u - a + 1 = k /\ ~(u < HeaderSize + Count(q))
    BY <2>3, <2>4, <2>5, Sizes
  <2> HIDE DEF u
  <2>2. q.raw[u] = s[u - a + 1]
    BY <2>1, <1>3, <1>4
  <2> QED
    BY <2>1, <2>2, <1>3 DEF u
<1>7. \A k \in 1..N + 1 : k # i => src(k) \in 1..N /\ q.pointers[k] = p.pointers[src(k)]
  <2> SUFFICES ASSUME NEW k \in 1..N + 1, k # i PROVE src(k) \in 1..N /\ q.pointers[k] = p.pointers[src(k)]
    OBVIOUS
  <2>1. CASE k < i
    BY <2>1, <1>1, <1>4
  <2>2. CASE ~(k < i)
    <3>1. k - 1 \in 1..N
      BY <2>2, <1>1
    <3> QED
      BY <2>2, <3>1, <1>4
  <2> QED
    BY <2>1, <2>2
<1>8. q.pointers[i] = a /\ At(q, i) = c /\ CellAt(q, a, c)
  <2>1. i \in 1..N + 1
    BY <1>1
  <2>2. q.pointers[i] = a
    BY <2>1, <1>1, <1>4
  <2>3. 1 \in 1..z /\ a + 1 - 1 = a
    BY <1>2
  <2>4. q.raw[a] = Piece(c, 1)
    BY <2>3, <1>6
  <2>5. At(q, i) = c
    BY <2>2, <2>4, UnitValues DEF At
  <2>6. CellAt(q, a, c)
    BY <1>2, <1>4, <1>6 DEF CellAt
  <2> QED
    BY <2>2, <2>5, <2>6
<1>9. ASSUME NEW k \in 1..N + 1, k # i
      PROVE  At(q, k) = At(p, src(k)) /\ CellAt(q, q.pointers[k], At(q, k))
  <2> DEFINE j == src(k)
             b == p.pointers[j]
             y == At(p, j).size
  <2>1. j \in 1..N /\ q.pointers[k] = b
    BY <1>7, <1>9
  <2> HIDE DEF j
  <2>2. b \in Nat /\ p.content <= b /\ y \in Nat
    BY <2>1, <1>1, CellHeld
  <2>3. Apart(a, z, b, y)
    BY <2>1 DEF Room
  <2> HIDE DEF b, y
  <2>4. ASSUME NEW u \in Units, b <= u, u < b + y PROVE q.raw[u] = p.raw[u]
    <3>1. u \in Nat
      BY Sizes
    <3>2. ~(a <= u /\ u < a + z)
      BY <2>2, <2>3, <2>4, <3>1, <1>2 DEF Apart
    <3>3. p.content <= u
      BY <2>2, <2>4, <3>1, <1>1
    <3> QED
      BY <3>2, <3>3, <1>5
  <2>5. q.content <= p.content /\ k \in 1..Count(q)
    BY <1>1, <1>4
  <2>6. At(q, k) = At(p, j) /\ CellAt(q, q.pointers[k], At(q, k))
    BY <2>1, <2>4, <2>5, <1>1, <1>4, CellKept DEF b, y
  <2> QED
    BY <2>6 DEF j
<1>10. ASSUME NEW k \in 1..N + 1, k # i
       PROVE  Apart(a, z, q.pointers[k], At(q, k).size)
  <2>1. src(k) \in 1..N /\ q.pointers[k] = p.pointers[src(k)] /\ At(q, k) = At(p, src(k))
    BY <1>7, <1>9, <1>10
  <2> QED
    BY <2>1 DEF Room
<1>11. CellsHeld(q)
  <2>1. ASSUME NEW k \in 1..N + 1 PROVE At(q, k) \in Cells /\ CellAt(q, q.pointers[k], At(q, k))
    <3>1. CASE k = i
      BY <3>1, <1>8
    <3>2. CASE k # i
      <4>1. At(p, src(k)) \in Cells
        BY <3>2, <1>1, <1>7, CellHeld
      <4> QED
        BY <3>2, <4>1, <1>9
    <3> QED
      BY <3>1, <3>2
  <2>2. ASSUME NEW k \in 1..N + 1, NEW j \in 1..N + 1, k # j
        PROVE  Apart(q.pointers[k], At(q, k).size, q.pointers[j], At(q, j).size)
    <3>1. CASE k = i
      BY <2>2, <3>1, <1>8, <1>10
    <3>2. CASE j = i
      BY <2>2, <3>2, <1>8, <1>10, ApartIsSymmetric
    <3>3. CASE k # i /\ j # i
      <4>1. src(k) \in 1..N /\ src(j) \in 1..N /\ src(k) # src(j)
        <5>1. src(k) \in 1..N /\ src(j) \in 1..N
          BY <3>3, <1>7
        <5>2. src(k) # src(j)
          BY <2>2, <3>3, <1>1
        <5> QED
          BY <5>1, <5>2
      <4>2. q.pointers[k] = p.pointers[src(k)] /\ At(q, k) = At(p, src(k))
            /\ q.pointers[j] = p.pointers[src(j)] /\ At(q, j) = At(p, src(j))
        BY <3>3, <1>7, <1>9
      <4> HIDE DEF src
      <4>3. Apart(p.pointers[src(k)], At(p, src(k)).size, p.pointers[src(j)], At(p, src(j)).size)
        BY <4>1, <1>1 DEF CellsHeld
      <4> QED
        BY <4>2, <4>3
    <3> QED
      BY <3>1, <3>2, <3>3
  <2> QED
    BY <2>1, <2>2, <1>4 DEF CellsHeld
<1>12. PointersHeld(q)
  <2>1. HeaderSize + Count(q) <= q.content
    BY <1>1, <1>4, Sizes
  <2>2. ASSUME NEW k \in 1..N + 1 PROVE q.raw[HeaderSize + k - 1] = Word(q.pointers[k])
    <3> DEFINE u == HeaderSize + k - 1
    <3>1. u \in Units /\ HeaderSize <= u /\ u < HeaderSize + Count(q) /\ u - HeaderSize + 1 = k
      BY <1>1, <1>4, Sizes
    <3> HIDE DEF u
    <3>2. q.raw[u] = Word(q.pointers[u - HeaderSize + 1])
      BY <3>1, <1>4
    <3> QED
      BY <3>1, <3>2 DEF u
  <2> QED
    BY <2>1, <2>2, <1>4 DEF PointersHeld
<1>13. ASSUME NEW m \in 1..Len(bl)
       PROVE  q.raw[bl[m]] = p.raw[bl[m]] /\ BlockSize(q, bl[m]) = BlockSize(p, bl[m])
  <2> DEFINE b == bl[m]
             y == BlockSize(p, b)
  <2>1. b \in Nat /\ b \in Units /\ b + 1 \in Units /\ p.content <= b /\ y \in Nat /\ 2 <= y
    BY BlockHeld
  <2>2. Apart(a, z, b, y)
    BY DEF Room
  <2> HIDE DEF b, y
  <2>3. ~(a <= b /\ b < a + z) /\ ~(a <= b + 1 /\ b + 1 < a + z) /\ p.content <= b + 1
    BY <2>1, <2>2, <1>1, <1>2 DEF Apart
  <2>4. q.raw[b] = p.raw[b] /\ q.raw[b + 1] = p.raw[b + 1]
    BY <2>1, <2>3, <1>5
  <2> QED
    BY <2>4 DEF b, y, BlockSize
<1>14. BlocksHeld(q, bl)
  <2>1. Linked(q, bl)
    BY <1>4, <1>13 DEF Layout, BlocksHeld, Linked
  <2>2. \A m \in 1..Len(bl) :
          /\ q.content <= bl[m] /\ bl[m] + BlockSize(q, bl[m]) <= PageSize
          /\ BlockSize(q, bl[m]) >= 2
    BY <1>4, <1>13 DEF Layout, BlocksHeld
  <2>3. \A m, n \in 1..Len(bl) :
          m # n => Apart(bl[m], BlockSize(q, bl[m]), bl[n], BlockSize(q, bl[n]))
    BY <1>13 DEF Layout, BlocksHeld
  <2>4. ASSUME NEW m \in 1..Len(bl), NEW k \in 1..N + 1
        PROVE  Apart(bl[m], BlockSize(p, bl[m]), q.pointers[k], At(q, k).size)
    <3>1. CASE k = i
      BY <3>1, <1>8, ApartIsSymmetric DEF Room
    <3>2. CASE k # i
      <4>1. src(k) \in 1..N /\ q.pointers[k] = p.pointers[src(k)] /\ At(q, k) = At(p, src(k))
        BY <3>2, <1>7, <1>9
      <4> HIDE DEF src
      <4> QED
        BY <4>1 DEF Layout, BlocksHeld
    <3> QED
      BY <3>1, <3>2
  <2> QED
    BY <2>1, <2>2, <2>3, <2>4, <1>4, <1>13 DEF BlocksHeld
<1>15. Insertion(Cellsat(q), Cellsat(p), i, c)
  <2>1. Len(Cellsat(q)) = N + 1 /\ Len(Cellsat(p)) = N
    BY <1>1, <1>4 DEF Cellsat
  <2>2. \A k \in 1..N + 1 : Cellsat(q)[k] = At(q, k)
    BY <1>4 DEF Cellsat
  <2>3. \A k \in 1..N : Cellsat(p)[k] = At(p, k)
    BY DEF Cellsat
  <2>4. ASSUME NEW k \in 1..N + 1
        PROVE  At(q, k) = IF k < i THEN Cellsat(p)[k] ELSE IF k = i THEN c ELSE Cellsat(p)[k - 1]
    <3>1. CASE k = i
      BY <3>1, <1>1, <1>8
    <3>2. CASE k # i
      <4>1. src(k) \in 1..N /\ At(q, k) = At(p, src(k))
        BY <3>2, <1>7, <1>9
      <4>2. At(q, k) = Cellsat(p)[src(k)]
        BY <4>1, <2>3
      <4> QED
        BY <4>2, <3>2
    <3> QED
      BY <3>1, <3>2
  <2> QED
    BY <2>1, <2>2, <2>4 DEF Insertion
<1> QED
  BY <1>4, <1>11, <1>12, <1>14, <1>15 DEF Layout, q, s

-----------------------------------------------------------------------------
(* Finding room                                                             *)

(* The same pointers, and the same cells behind them.                       *)
SameCells(q, p) == q.pointers = p.pointers /\ \A i \in 1..Count(p) : At(q, i) = At(p, i)

(* Such pages hold the same sequence of cells.                              *)
LEMMA SameCellsat ==
  ASSUME NEW q, NEW p, SameCells(q, p)
  PROVE  Count(q) = Count(p) /\ Cellsat(q) = Cellsat(p)
BY DEF SameCells, Count, Cellsat

(* The content area grows downwards by room for a cell.                     *)
LEMMA Grown ==
  ASSUME NEW p, NEW bl, Layout(p, bl), NEW z \in Nat, 1 <= z, Below(p, z)
  PROVE  LET g == Grow(p, z)
         IN  /\ g.at \in Units /\ g.at # 0 /\ g.page.content = g.at
             /\ Layout(g.page, bl) /\ SameCells(g.page, p) /\ Room(g.page, bl, g.at, z)
             /\ g.page.first = p.first
<1> DEFINE a == p.content - z
           q == [p EXCEPT !.content = a]
           N == Count(p)
<1>1. p \in PageType /\ PointersHeld(p) /\ CellsHeld(p) /\ BlocksHeld(p, bl)
  BY DEF Layout
<1>2. N \in Nat /\ p.content \in Nat /\ p.content <= PageSize
  BY <1>1, Fields, Sizes
<1>3. HeaderSize + N <= a
  BY <1>2, Sizes DEF Below, PointerOffset
<1>4. a \in Nat /\ 1 <= a /\ a < p.content /\ a \in Units /\ a \in 0..PageSize /\ a + z = p.content
  BY <1>2, <1>3, Sizes
<1>5. Grow(p, z).at = a /\ Grow(p, z).page = q
  BY <1>1 DEF Grow
<1> HIDE DEF a
<1>6. q \in PageType /\ q.content = a /\ q.pointers = p.pointers /\ q.raw = p.raw /\ q.first = p.first
  BY <1>1, <1>4 DEF PageType
<1> HIDE DEF q
<1>7. Count(q) = N /\ \A i : At(q, i) = At(p, i)
  BY <1>6 DEF Count, At
<1>8. \A b : BlockSize(q, b) = BlockSize(p, b)
  BY <1>6 DEF BlockSize
<1>9. PointersHeld(q)
  BY <1>1, <1>3, <1>6, <1>7 DEF PointersHeld
<1>10. \A i \in 1..N : p.content <= p.pointers[i] /\ p.pointers[i] \in Nat
  BY <1>1, CellHeld
<1>11. \A m \in 1..Len(bl) : p.content <= bl[m] /\ bl[m] \in Nat
  BY BlockHeld
<1>12. CellsHeld(q)
  <2>1. \A i \in 1..N : At(p, i) \in Cells /\ CellAt(q, p.pointers[i], At(p, i))
    <3> SUFFICES ASSUME NEW i \in 1..N PROVE At(p, i) \in Cells /\ CellAt(q, p.pointers[i], At(p, i))
      OBVIOUS
    <3>1. At(p, i) \in Cells /\ CellAt(p, p.pointers[i], At(p, i))
      BY <1>1 DEF CellsHeld
    <3>2. a <= p.pointers[i]
      BY <1>2, <1>4, <1>10
    <3> QED
      BY <3>1, <3>2, <1>6 DEF CellAt
  <2> QED
    BY <2>1, <1>1, <1>6, <1>7 DEF CellsHeld
<1>13. BlocksHeld(q, bl)
  <2>1. Linked(q, bl)
    BY <1>1, <1>6 DEF BlocksHeld, Linked
  <2>2. \A m \in 1..Len(bl) : a <= bl[m]
    BY <1>2, <1>4, <1>11
  <2> QED
    BY <2>1, <2>2, <1>1, <1>6, <1>7, <1>8 DEF BlocksHeld
<1>14. Room(q, bl, a, z)
  <2>1. \A i \in 1..N : Apart(a, z, p.pointers[i], At(p, i).size)
    BY <1>4, <1>10 DEF Apart
  <2>2. \A m \in 1..Len(bl) : Apart(a, z, bl[m], BlockSize(p, bl[m]))
    BY <1>4, <1>11 DEF Apart
  <2>3. a <= a /\ a + z <= PageSize
    BY <1>2, <1>4
  <2> QED
    BY <2>1, <2>2, <2>3, <1>4, <1>6, <1>7, <1>8 DEF Room
<1> QED
  BY <1>4, <1>5, <1>6, <1>7, <1>9, <1>12, <1>13, <1>14 DEF Layout, SameCells

(* What a change leaves alone when it writes into no cell and to no pointer, *)
(* and the content area stays where it is.                                  *)
LEMMA CellsUntouched ==
  ASSUME NEW p \in PageType, PointersHeld(p), CellsHeld(p), NEW q \in PageType,
         q.pointers = p.pointers, q.content = p.content,
         \A u \in Units : u < p.content => q.raw[u] = p.raw[u],
         \A i \in 1..Count(p), u \in Units :
           p.pointers[i] <= u /\ u < p.pointers[i] + At(p, i).size => q.raw[u] = p.raw[u]
  PROVE  PointersHeld(q) /\ CellsHeld(q) /\ SameCells(q, p)
<1> DEFINE N == Count(p)
<1>1. N \in Nat /\ Count(q) = N /\ p.content \in Nat /\ p.content <= PageSize
  BY Fields, Sizes DEF Count
<1>2. PointersHeld(q)
  <2>1. HeaderSize + N <= p.content
    BY DEF PointersHeld
  <2>2. ASSUME NEW i \in 1..N PROVE q.raw[HeaderSize + i - 1] = p.raw[HeaderSize + i - 1]
    <3>1. HeaderSize + i - 1 \in Units /\ HeaderSize + i - 1 < p.content
      BY <2>1, <1>1, Sizes
    <3> QED
      BY <3>1
  <2> QED
    BY <2>1, <2>2, <1>1 DEF PointersHeld
<1>3. ASSUME NEW i \in 1..N PROVE At(q, i) = At(p, i) /\ CellAt(q, q.pointers[i], At(q, i))
  <2>1. q.content <= p.content /\ i \in 1..Count(q) /\ q.pointers[i] = p.pointers[i]
    BY <1>1
  <2>2. \A u \in Units :
          p.pointers[i] <= u /\ u < p.pointers[i] + At(p, i).size => q.raw[u] = p.raw[u]
    OBVIOUS
  <2> QED
    BY <2>1, <2>2, CellKept
<1>4. CellsHeld(q)
  BY <1>1, <1>3 DEF CellsHeld
<1> QED
  BY <1>2, <1>3, <1>4 DEF SameCells

(* A part of a span is apart from what the span is apart from.              *)
LEMMA ApartInside ==
  ASSUME NEW a \in Nat, NEW m \in Nat, NEW b \in Nat, NEW n \in Nat, Apart(a, m, b, n),
         NEW x \in Nat, NEW k \in Nat, a <= x, x + k <= a + m
  PROVE  Apart(x, k, b, n)
BY DEF Apart

(* A unit of a block is in no cell, no other block, no pointer.             *)
LEMMA InBlock ==
  ASSUME NEW p, NEW bl, Layout(p, bl), NEW m \in 1..Len(bl), NEW u \in Nat,
         bl[m] <= u, u < bl[m] + BlockSize(p, bl[m])
  PROVE  /\ u \in Units /\ ~(u < p.content)
         /\ \A i \in 1..Count(p) : ~(p.pointers[i] <= u /\ u < p.pointers[i] + At(p, i).size)
         /\ \A n \in 1..Len(bl) : n # m => u # bl[n] /\ u # bl[n] + 1
<1> DEFINE b == bl[m]
           y == BlockSize(p, b)
<1>1. b \in Nat /\ y \in Nat /\ p.content <= b /\ b + y <= PageSize
  BY BlockHeld
<1>2. p \in PageType /\ CellsHeld(p) /\ p.content \in Nat
  BY Fields, Sizes DEF Layout
<1>3. u \in Units /\ ~(u < p.content)
  BY <1>1, <1>2, Sizes
<1>4. ASSUME NEW i \in 1..Count(p) PROVE ~(p.pointers[i] <= u /\ u < p.pointers[i] + At(p, i).size)
  <2>1. Apart(b, y, p.pointers[i], At(p, i).size)
    BY DEF Layout, BlocksHeld
  <2>2. p.pointers[i] \in Nat /\ At(p, i).size \in Nat
    BY <1>2, CellHeld
  <2> HIDE DEF b, y
  <2>3. b <= u /\ u < b + y
    BY DEF b, y
  <2> QED
    BY <2>1, <2>2, <2>3, <1>1 DEF Apart
<1>5. ASSUME NEW n \in 1..Len(bl), n # m PROVE u # bl[n] /\ u # bl[n] + 1
  <2>1. Apart(b, y, bl[n], BlockSize(p, bl[n]))
    BY <1>5 DEF Layout, BlocksHeld
  <2>2. bl[n] \in Nat /\ BlockSize(p, bl[n]) \in Nat /\ 2 <= BlockSize(p, bl[n])
    BY BlockHeld
  <2> HIDE DEF b, y
  <2>3. b <= u /\ u < b + y
    BY DEF b, y
  <2> QED
    BY <2>1, <2>2, <2>3, <1>1 DEF Apart
<1> QED
  BY <1>3, <1>4, <1>5

(* What the blocks of a page that keeps its cells must satisfy.             *)
LEMMA Reblocked ==
  ASSUME NEW p, NEW bl, Layout(p, bl), NEW q \in PageType, NEW bs, Linked(q, bs),
         PointersHeld(q), CellsHeld(q), SameCells(q, p), q.content = p.content,
         NEW src \in [1..Len(bs) -> 1..Len(bl)], \A m, n \in 1..Len(bs) : m # n => src[m] # src[n],
         \A m \in 1..Len(bs) :
           /\ bs[m] \in Nat /\ BlockSize(q, bs[m]) \in Nat /\ 2 <= BlockSize(q, bs[m])
           /\ bl[src[m]] <= bs[m]
           /\ bs[m] + BlockSize(q, bs[m]) <= bl[src[m]] + BlockSize(p, bl[src[m]])
  PROVE  Layout(q, bs)
<1>1. \A m \in 1..Len(bl) :
        /\ bl[m] \in Nat /\ BlockSize(p, bl[m]) \in Nat /\ p.content <= bl[m]
        /\ bl[m] + BlockSize(p, bl[m]) <= PageSize
  BY BlockHeld
<1>2. p \in PageType /\ p.content \in Nat /\ CellsHeld(p)
  BY Fields, Sizes DEF Layout
<1>3. ASSUME NEW m \in 1..Len(bs)
      PROVE  /\ q.content <= bs[m] /\ bs[m] + BlockSize(q, bs[m]) <= PageSize
             /\ BlockSize(q, bs[m]) >= 2
  <2> DEFINE n == src[m]
  <2>1. n \in 1..Len(bl)
    OBVIOUS
  <2>2. bs[m] \in Nat /\ BlockSize(q, bs[m]) \in Nat /\ 2 <= BlockSize(q, bs[m])
        /\ bl[n] <= bs[m] /\ bs[m] + BlockSize(q, bs[m]) <= bl[n] + BlockSize(p, bl[n])
    OBVIOUS
  <2> HIDE DEF n
  <2>3. bl[n] \in Nat /\ BlockSize(p, bl[n]) \in Nat /\ p.content <= bl[n]
        /\ bl[n] + BlockSize(p, bl[n]) <= PageSize
    BY <2>1, <1>1
  <2> QED
    BY <2>2, <2>3, <1>2, Sizes
<1>4. ASSUME NEW m \in 1..Len(bs), NEW b \in Nat, NEW y \in Nat,
             Apart(bl[src[m]], BlockSize(p, bl[src[m]]), b, y)
      PROVE  Apart(bs[m], BlockSize(q, bs[m]), b, y)
  <2>1. src[m] \in 1..Len(bl)
    OBVIOUS
  <2>2. bl[src[m]] \in Nat /\ BlockSize(p, bl[src[m]]) \in Nat
    BY <2>1, <1>1
  <2>3. bs[m] \in Nat /\ BlockSize(q, bs[m]) \in Nat
        /\ bl[src[m]] <= bs[m]
        /\ bs[m] + BlockSize(q, bs[m]) <= bl[src[m]] + BlockSize(p, bl[src[m]])
    OBVIOUS
  <2> QED
    BY <2>2, <2>3, <1>4, ApartInside
<1>5. ASSUME NEW m \in 1..Len(bs), NEW n \in 1..Len(bs), m # n
      PROVE  Apart(bs[m], BlockSize(q, bs[m]), bs[n], BlockSize(q, bs[n]))
  <2>1. src[m] \in 1..Len(bl) /\ src[n] \in 1..Len(bl) /\ src[m] # src[n]
    BY <1>5
  <2>2. Apart(bl[src[n]], BlockSize(p, bl[src[n]]), bl[src[m]], BlockSize(p, bl[src[m]]))
    BY <2>1 DEF Layout, BlocksHeld
  <2>3. bl[src[m]] \in Nat /\ BlockSize(p, bl[src[m]]) \in Nat
    BY <2>1, <1>1
  <2>4. Apart(bs[n], BlockSize(q, bs[n]), bl[src[m]], BlockSize(p, bl[src[m]]))
    BY <2>2, <2>3, <1>4
  <2>5. bs[n] \in Nat /\ BlockSize(q, bs[n]) \in Nat
    OBVIOUS
  <2> QED
    BY <2>4, <2>5, <1>4, ApartIsSymmetric
<1>6. ASSUME NEW m \in 1..Len(bs), NEW i \in 1..Count(q)
      PROVE  Apart(bs[m], BlockSize(q, bs[m]), q.pointers[i], At(q, i).size)
  <2>1. src[m] \in 1..Len(bl) /\ i \in 1..Count(p)
    BY <1>6 DEF SameCells, Count
  <2>2. Apart(bl[src[m]], BlockSize(p, bl[src[m]]), p.pointers[i], At(p, i).size)
    BY <2>1 DEF Layout, BlocksHeld
  <2>3. p.pointers[i] \in Nat /\ At(p, i).size \in Nat
    BY <2>1, <1>2, CellHeld
  <2>4. q.pointers[i] = p.pointers[i] /\ At(q, i) = At(p, i)
    BY <2>1 DEF SameCells
  <2> QED
    BY <2>2, <2>3, <2>4, <1>4
<1> QED
  BY <1>3, <1>5, <1>6 DEF Layout, BlocksHeld

(* A cell taken from the front of the n-th block, the rest of which stays.  *)
LEMMA CutBlock ==
  ASSUME NEW p, NEW bl, Layout(p, bl), NEW n \in 1..Len(bl), NEW z \in Nat, 2 <= z,
         z + 2 <= BlockSize(p, bl[n]),
         NEW q \in PageType, q.pointers = p.pointers, q.content = p.content,
         q.first = IF n = 1 THEN bl[n] + z ELSE p.first,
         \A u \in Units :
           q.raw[u] = IF n # 1 /\ u = bl[n - 1] THEN Word(bl[n] + z)
                      ELSE IF u = bl[n] + z THEN p.raw[bl[n]]
                      ELSE IF u = bl[n] + z + 1 THEN Word(BlockSize(p, bl[n]) - z)
                      ELSE p.raw[u]
  PROVE  /\ Layout(q, [bl EXCEPT ![n] = bl[n] + z]) /\ SameCells(q, p)
         /\ Room(q, [bl EXCEPT ![n] = bl[n] + z], bl[n], z)
<1> DEFINE L == Len(bl)
           b == bl[n]
           y == BlockSize(p, b)
           new == b + z
           bs == [bl EXCEPT ![n] = new]
<1>0. n \in 1..L
  OBVIOUS
<1>1. p \in PageType /\ PointersHeld(p) /\ CellsHeld(p) /\ bl \in Seq(Units \ {0}) /\ L \in Nat
  BY DEF Layout, BlocksHeld, Linked
<1>2. b \in Nat /\ y \in Nat /\ p.content <= b /\ b + y <= PageSize /\ z + 2 <= y
  BY BlockHeld
<1>3. new \in Nat /\ new # 0 /\ b <= new /\ new + 1 < b + y /\ b + 2 <= new
  BY <1>2
<1>4. /\ new \in Units /\ new + 1 \in Units
      /\ ~(new < p.content) /\ ~(new + 1 < p.content)
      /\ \A i \in 1..Count(p) : ~(p.pointers[i] <= new /\ new < p.pointers[i] + At(p, i).size)
      /\ \A i \in 1..Count(p) : ~(p.pointers[i] <= new + 1 /\ new + 1 < p.pointers[i] + At(p, i).size)
      /\ \A m \in 1..L : m # n => /\ new # bl[m] /\ new # bl[m] + 1
                                  /\ new + 1 # bl[m] /\ new + 1 # bl[m] + 1
  <2>1. new \in Nat /\ bl[n] <= new /\ new < bl[n] + BlockSize(p, bl[n])
    BY <1>2, <1>3
  <2>2. new + 1 \in Nat /\ bl[n] <= new + 1 /\ new + 1 < bl[n] + BlockSize(p, bl[n])
    BY <1>2, <1>3
  <2> HIDE DEF new, b, y
  <2>3. /\ new \in Units /\ ~(new < p.content)
        /\ \A i \in 1..Count(p) : ~(p.pointers[i] <= new /\ new < p.pointers[i] + At(p, i).size)
        /\ \A m \in 1..L : m # n => new # bl[m] /\ new # bl[m] + 1
    BY <2>1, InBlock
  <2>4. /\ new + 1 \in Units /\ ~(new + 1 < p.content)
        /\ \A i \in 1..Count(p) : ~(p.pointers[i] <= new + 1 /\ new + 1 < p.pointers[i] + At(p, i).size)
        /\ \A m \in 1..L : m # n => new + 1 # bl[m] /\ new + 1 # bl[m] + 1
    BY <2>2, InBlock
  <2> QED
    BY <2>3, <2>4
<1>5. \A m \in 1..L : /\ bl[m] \in Nat /\ bl[m] \in Units /\ bl[m] + 1 \in Units /\ bl[m] # 0
                      /\ p.content <= bl[m] /\ 2 <= BlockSize(p, bl[m]) /\ BlockSize(p, bl[m]) \in Nat
  BY BlockHeld
<1>6. n # 1 => n - 1 \in 1..L /\ n - 1 # n
  BY <1>1
<1> HIDE DEF L, y, b
<1>7. \A u \in Units :
        q.raw[u] = IF n # 1 /\ u = bl[n - 1] THEN Word(new)
                   ELSE IF u = new THEN p.raw[b]
                   ELSE IF u = new + 1 THEN Word(y - z) ELSE p.raw[u]
  BY DEF b, y
<1> HIDE DEF new
<1>8. PointersHeld(q) /\ CellsHeld(q) /\ SameCells(q, p)
  <2>1. ASSUME n # 1
        PROVE  /\ ~(bl[n - 1] < p.content)
               /\ \A i \in 1..Count(p) :
                    ~(p.pointers[i] <= bl[n - 1] /\ bl[n - 1] < p.pointers[i] + At(p, i).size)
    <3> DEFINE u == bl[n - 1]
               m == n - 1
    <3>1. u \in Nat /\ bl[m] <= u /\ u < bl[m] + BlockSize(p, bl[m]) /\ m \in 1..Len(bl)
      BY <2>1, <1>5, <1>6 DEF L
    <3> HIDE DEF u, m
    <3>2. /\ ~(u < p.content)
          /\ \A i \in 1..Count(p) : ~(p.pointers[i] <= u /\ u < p.pointers[i] + At(p, i).size)
      BY <3>1, InBlock
    <3> QED
      BY <3>2 DEF u
  <2>2. \A u \in Units : u < p.content => q.raw[u] = p.raw[u]
    BY <2>1, <1>4, <1>7
  <2>3. \A i \in 1..Count(p), u \in Units :
          p.pointers[i] <= u /\ u < p.pointers[i] + At(p, i).size => q.raw[u] = p.raw[u]
    BY <2>1, <1>4, <1>7
  <2> QED
    BY <2>2, <2>3, <1>1, CellsUntouched
<1>9. bs \in Seq(Units \ {0}) /\ Len(bs) = L /\ bs[n] = new /\ \A m \in 1..L : m # n => bs[m] = bl[m]
  <2>1. new \in Units \ {0}
    BY <1>3, <1>4
  <2> QED
    BY <2>1, <1>1 DEF L
<1> HIDE DEF bs
<1>10. \A m \in 1..L, k \in 1..L : m # k => bl[m] # bl[k] /\ bl[m] + 1 # bl[k]
  <2> SUFFICES ASSUME NEW m \in 1..L, NEW k \in 1..L, m # k PROVE bl[m] # bl[k] /\ bl[m] + 1 # bl[k]
    OBVIOUS
  <2>1. Apart(bl[m], BlockSize(p, bl[m]), bl[k], BlockSize(p, bl[k]))
    BY DEF Layout, BlocksHeld, L
  <2>2. bl[m] \in Nat /\ bl[k] \in Nat /\ BlockSize(p, bl[m]) \in Nat /\ BlockSize(p, bl[k]) \in Nat
        /\ 2 <= BlockSize(p, bl[m]) /\ 2 <= BlockSize(p, bl[k])
    BY <1>5
  <2> DEFINE f == bl[m]
             g == bl[k]
             sf == BlockSize(p, f)
             sg == BlockSize(p, g)
  <2>3. Apart(f, sf, g, sg) /\ f \in Nat /\ g \in Nat /\ sf \in Nat /\ sg \in Nat /\ 2 <= sf /\ 2 <= sg
    BY <2>1, <2>2
  <2> HIDE DEF f, g, sf, sg
  <2>4. f # g /\ f + 1 # g
    BY <2>3 DEF Apart
  <2> QED
    BY <2>4 DEF f, g
<1>11. p.raw[b] = Word(IF n = L THEN 0 ELSE bl[n + 1])
  BY DEF Layout, BlocksHeld, Linked, L, b
<1>12. q.raw[new] = p.raw[b] /\ q.raw[new + 1] = Word(y - z)
  <2>1. n # 1 => new # bl[n - 1] /\ new + 1 # bl[n - 1]
    BY <1>4, <1>6
  <2>2. new + 1 # new
    BY <1>3
  <2> QED
    BY <2>1, <2>2, <1>4, <1>7
<1>13. ASSUME NEW m \in 1..L, m # n
       PROVE  /\ q.raw[bl[m]] = IF m = n - 1 THEN Word(new) ELSE p.raw[bl[m]]
              /\ BlockSize(q, bl[m]) = BlockSize(p, bl[m])
  <2>1. new # bl[m] /\ new # bl[m] + 1 /\ new + 1 # bl[m] /\ new + 1 # bl[m] + 1
    BY <1>4, <1>13
  <2>2. bl[m] \in Units /\ bl[m] + 1 \in Units
    BY <1>5
  <2>3. n # 1 => bl[n - 1] # bl[m] + 1 /\ (bl[n - 1] = bl[m] <=> m = n - 1)
    <3> SUFFICES ASSUME n # 1 PROVE bl[n - 1] # bl[m] + 1 /\ (bl[n - 1] = bl[m] <=> m = n - 1)
      OBVIOUS
    <3>1. n - 1 \in 1..L
      BY <1>6
    <3>2. CASE m = n - 1
      BY <3>1, <3>2, <1>5
    <3>3. CASE m # n - 1
      BY <3>1, <3>3, <1>10
    <3> QED
      BY <3>2, <3>3
  <2>4. n = 1 => m # n - 1
    BY <1>1
  <2>5. q.raw[bl[m]] = IF m = n - 1 THEN Word(new) ELSE p.raw[bl[m]]
    BY <2>1, <2>2, <2>3, <2>4, <1>7
  <2>6. q.raw[bl[m] + 1] = p.raw[bl[m] + 1]
    BY <2>1, <2>2, <2>3, <1>7
  <2> QED
    BY <2>2, <2>5, <2>6 DEF BlockSize
<1>14. BlockSize(q, new) = y - z /\ y - z \in Nat /\ 2 <= y - z
  <2>1. y - z \in Nat /\ 2 <= y - z
    BY <1>2
  <2> QED
    BY <2>1, <1>4, <1>12, UnitValues DEF BlockSize
<1>15. Linked(q, bs)
  <2>1. q.first = IF Len(bs) = 0 THEN 0 ELSE bs[1]
    <3>1. L # 0 /\ 1 \in 1..L
      BY <1>1 DEF L
    <3>2. p.first = bl[1]
      BY <3>1 DEF Layout, BlocksHeld, Linked, L
    <3> QED
      BY <3>1, <3>2, <1>9 DEF new, b
  <2>2. ASSUME NEW m \in 1..L PROVE q.raw[bs[m]] = Word(IF m = L THEN 0 ELSE bs[m + 1])
    <3>1. CASE m = n
      <4>1. n # L => n + 1 \in 1..L /\ n + 1 # n
        BY <1>0, <1>1
      <4> QED
        BY <3>1, <4>1, <1>9, <1>11, <1>12
    <3>2. CASE m # n
      <4>1. p.raw[bl[m]] = Word(IF m = L THEN 0 ELSE bl[m + 1])
        BY DEF Layout, BlocksHeld, Linked, L
      <4>2. m # L => m + 1 \in 1..L /\ (m + 1 = n <=> m = n - 1)
        BY <1>0, <1>1
      <4>3. m = n - 1 => m # L
        BY <1>0, <1>1
      <4> QED
        BY <3>2, <4>1, <4>2, <4>3, <1>9, <1>13
    <3> QED
      BY <3>1, <3>2
  <2> QED
    BY <2>1, <2>2, <1>9 DEF Linked
<1>16. Layout(q, bs)
  <2> DEFINE src == [m \in 1..L |-> m]
  <2>1. src \in [1..Len(bs) -> 1..Len(bl)] /\ \A m, k \in 1..Len(bs) : m # k => src[m] # src[k]
    BY <1>9 DEF L
  <2>2. ASSUME NEW m \in 1..Len(bs)
        PROVE  /\ bs[m] \in Nat /\ BlockSize(q, bs[m]) \in Nat /\ 2 <= BlockSize(q, bs[m])
               /\ bl[src[m]] <= bs[m]
               /\ bs[m] + BlockSize(q, bs[m]) <= bl[src[m]] + BlockSize(p, bl[src[m]])
    <3>1. m \in 1..L /\ src[m] = m
      BY <1>9
    <3> HIDE DEF src
    <3>2. CASE m = n
      <4>1. new + (y - z) <= b + y
        BY <1>2 DEF new
      <4> QED
        BY <3>1, <3>2, <4>1, <1>3, <1>9, <1>14 DEF b, y
    <3>3. CASE m # n
      BY <3>1, <3>3, <1>5, <1>9, <1>13
    <3> QED
      BY <3>2, <3>3
  <2> HIDE DEF src
  <2> QED
    BY <2>1, <2>2, <1>8, <1>15, Reblocked
<1>17. Room(q, bs, b, z)
  <2>1. b \in Nat /\ q.content <= b /\ b + z <= PageSize
    <3>1. PageSize \in Nat /\ p.content \in Nat
      BY <1>1, Fields, Sizes
    <3> QED
      BY <3>1, <1>2
  <2>2. ASSUME NEW i \in 1..Count(q) PROVE Apart(b, z, q.pointers[i], At(q, i).size)
    <3>1. i \in 1..Count(p) /\ q.pointers[i] = p.pointers[i] /\ At(q, i) = At(p, i)
      BY <1>8 DEF SameCells, Count
    <3>2. Apart(b, y, p.pointers[i], At(p, i).size)
      BY <3>1 DEF Layout, BlocksHeld, b, y
    <3>3. p.pointers[i] \in Nat /\ At(p, i).size \in Nat
      BY <3>1, <1>1, CellHeld
    <3>4. b <= b /\ b + z <= b + y
      BY <1>2
    <3> QED
      BY <3>1, <3>2, <3>3, <3>4, <1>2, ApartInside
  <2>3. ASSUME NEW m \in 1..Len(bs) PROVE Apart(b, z, bs[m], BlockSize(q, bs[m]))
    <3>1. m \in 1..L
      BY <1>9
    <3>2. CASE m = n
      BY <3>2, <1>2, <1>9 DEF Apart, new
    <3>3. CASE m # n
      <4>1. Apart(b, y, bl[m], BlockSize(p, bl[m]))
        BY <3>1, <3>3 DEF Layout, BlocksHeld, b, y, L
      <4>2. bl[m] \in Nat /\ BlockSize(p, bl[m]) \in Nat
        BY <3>1, <1>5
      <4>3. b <= b /\ b + z <= b + y
        BY <1>2
      <4>4. Apart(b, z, bl[m], BlockSize(p, bl[m]))
        BY <4>1, <4>2, <4>3, <1>2, ApartInside
      <4> QED
        BY <3>1, <3>3, <4>4, <1>9, <1>13
    <3> QED
      BY <3>2, <3>3
  <2> QED
    BY <2>1, <2>2, <2>3 DEF Room
<1> QED
  BY <1>8, <1>16, <1>17 DEF bs, new, b

(* A block used up, with a unit of it lost or none.                         *)
LEMMA TakeBlock ==
  ASSUME NEW p, NEW bl, Layout(p, bl), NEW n \in 1..Len(bl), NEW z \in Nat, 2 <= z,
         z <= BlockSize(p, bl[n]),
         NEW q \in PageType, q.pointers = p.pointers, q.content = p.content,
         q.first = IF n = 1 THEN (IF Len(bl) = 1 THEN 0 ELSE bl[2]) ELSE p.first,
         \A u \in Units : q.raw[u] = IF n # 1 /\ u = bl[n - 1] THEN p.raw[bl[n]] ELSE p.raw[u]
  PROVE  Layout(q, RemoveAt(bl, n)) /\ SameCells(q, p) /\ Room(q, RemoveAt(bl, n), bl[n], z)
<1> DEFINE L == Len(bl)
           b == bl[n]
           y == BlockSize(p, b)
           bs == RemoveAt(bl, n)
           src == [m \in 1..L - 1 |-> IF m < n THEN m ELSE m + 1]
<1>0. n \in 1..L
  OBVIOUS
<1>1. p \in PageType /\ PointersHeld(p) /\ CellsHeld(p) /\ bl \in Seq(Units \ {0}) /\ L \in Nat
  BY DEF Layout, BlocksHeld, Linked
<1>2. b \in Nat /\ y \in Nat /\ p.content <= b /\ b + y <= PageSize /\ z <= y
  BY BlockHeld
<1>3. \A m \in 1..L : /\ bl[m] \in Nat /\ bl[m] \in Units /\ bl[m] + 1 \in Units /\ bl[m] # 0
                      /\ p.content <= bl[m] /\ 2 <= BlockSize(p, bl[m]) /\ BlockSize(p, bl[m]) \in Nat
  BY BlockHeld
<1>4. bs \in Seq(Units \ {0}) /\ Removal(bs, bl, n)
  BY <1>1, RemovedAt
<1>5. p.raw[b] = Word(IF n = L THEN 0 ELSE bl[n + 1])
  BY DEF Layout, BlocksHeld, Linked
<1>6. \A m \in 1..L : p.raw[bl[m]] = Word(IF m = L THEN 0 ELSE bl[m + 1])
  BY DEF Layout, BlocksHeld, Linked
<1>7. p.first = bl[1]
  <2>1. L # 0
    BY <1>0
  <2> QED
    BY <2>1 DEF Layout, BlocksHeld, Linked
<1> HIDE DEF bs
<1>8. Len(bs) = L - 1 /\ \A m \in 1..L - 1 : bs[m] = bl[src[m]] /\ src[m] \in 1..L /\ src[m] # n
  <2>1. Len(bs) = L - 1 /\ \A m \in 1..L - 1 : bs[m] = IF m < n THEN bl[m] ELSE bl[m + 1]
    BY <1>4 DEF Removal
  <2> HIDE DEF L
  <2>2. \A m \in 1..L - 1 : src[m] \in 1..L /\ src[m] # n
    BY <1>0, <1>1
  <2> QED
    BY <2>1, <2>2
<1> HIDE DEF L, b, y
<1>9. \A m \in 1..L - 1, k \in 1..L - 1 : m # k => src[m] # src[k]
  BY <1>0, <1>1
<1>10. n # 1 => n - 1 \in 1..L /\ n - 1 # n
  BY <1>0, <1>1
<1>11. PointersHeld(q) /\ CellsHeld(q) /\ SameCells(q, p)
  <2>1. ASSUME n # 1
        PROVE  /\ ~(bl[n - 1] < p.content)
               /\ \A i \in 1..Count(p) :
                    ~(p.pointers[i] <= bl[n - 1] /\ bl[n - 1] < p.pointers[i] + At(p, i).size)
    <3> DEFINE u == bl[n - 1]
               m == n - 1
    <3>1. u \in Nat /\ bl[m] <= u /\ u < bl[m] + BlockSize(p, bl[m]) /\ m \in 1..Len(bl)
      BY <2>1, <1>3, <1>10 DEF L
    <3> HIDE DEF u, m
    <3>2. /\ ~(u < p.content)
          /\ \A i \in 1..Count(p) : ~(p.pointers[i] <= u /\ u < p.pointers[i] + At(p, i).size)
      BY <3>1, InBlock
    <3> QED
      BY <3>2 DEF u
  <2>2. \A u \in Units : u < p.content => q.raw[u] = p.raw[u]
    BY <2>1
  <2>3. \A i \in 1..Count(p), u \in Units :
          p.pointers[i] <= u /\ u < p.pointers[i] + At(p, i).size => q.raw[u] = p.raw[u]
    BY <2>1
  <2> QED
    BY <2>2, <2>3, <1>1, CellsUntouched
<1>12. \A m \in 1..L, k \in 1..L : m # k => bl[m] # bl[k] /\ bl[m] + 1 # bl[k]
  <2> SUFFICES ASSUME NEW m \in 1..L, NEW k \in 1..L, m # k PROVE bl[m] # bl[k] /\ bl[m] + 1 # bl[k]
    OBVIOUS
  <2>1. Apart(bl[m], BlockSize(p, bl[m]), bl[k], BlockSize(p, bl[k]))
    BY DEF Layout, BlocksHeld, L
  <2> QED
    BY <2>1, <1>3 DEF Apart
<1>13. ASSUME NEW m \in 1..L, m # n
       PROVE  /\ q.raw[bl[m]] = IF m = n - 1 THEN p.raw[b] ELSE p.raw[bl[m]]
              /\ BlockSize(q, bl[m]) = BlockSize(p, bl[m])
  <2>2. bl[m] \in Units /\ bl[m] + 1 \in Units
    BY <1>3
  <2>3. n # 1 => bl[n - 1] # bl[m] + 1 /\ (bl[n - 1] = bl[m] <=> m = n - 1)
    <3> SUFFICES ASSUME n # 1 PROVE bl[n - 1] # bl[m] + 1 /\ (bl[n - 1] = bl[m] <=> m = n - 1)
      OBVIOUS
    <3>1. n - 1 \in 1..L
      BY <1>10
    <3>2. CASE m = n - 1
      BY <3>1, <3>2, <1>3
    <3>3. CASE m # n - 1
      BY <3>1, <3>3, <1>12
    <3> QED
      BY <3>2, <3>3
  <2>4. n = 1 => m # n - 1
    BY <1>1
  <2>5. q.raw[bl[m]] = IF m = n - 1 THEN p.raw[b] ELSE p.raw[bl[m]]
    BY <2>2, <2>3, <2>4 DEF b
  <2>6. q.raw[bl[m] + 1] = p.raw[bl[m] + 1]
    BY <2>2, <2>3
  <2> QED
    BY <2>2, <2>5, <2>6 DEF BlockSize
<1>14. Linked(q, bs)
  <2>1. q.first = IF Len(bs) = 0 THEN 0 ELSE bs[1]
    <3>1. CASE n = 1
      <4>1. CASE L = 1
        BY <3>1, <4>1, <1>8 DEF L
      <4>2. CASE L # 1
        <5>1. 1 \in 1..L - 1 /\ L - 1 # 0 /\ ~(1 < n)
          BY <3>1, <4>2, <1>0, <1>1
        <5>2. src[1] = 2
          BY <5>1
        <5> QED
          BY <3>1, <4>2, <5>1, <5>2, <1>8 DEF L
      <4> QED
        BY <4>1, <4>2
    <3>2. CASE n # 1
      <4>1. 1 \in 1..L - 1 /\ L - 1 # 0 /\ 1 < n
        BY <3>2, <1>0, <1>1
      <4>2. src[1] = 1
        BY <4>1
      <4> QED
        BY <3>2, <4>1, <4>2, <1>7, <1>8
    <3> QED
      BY <3>1, <3>2
  <2>2. ASSUME NEW m \in 1..L - 1 PROVE q.raw[bs[m]] = Word(IF m = L - 1 THEN 0 ELSE bs[m + 1])
    <3> DEFINE k == src[m]
    <3>0. k \in 1..L /\ k # n /\ bs[m] = bl[k] /\ k = IF m < n THEN m ELSE m + 1
      BY <1>8
    <3> DEFINE j == src[m + 1]
    <3>1. m # L - 1 => m + 1 \in 1..L - 1
      BY <1>1
    <3>2. m # L - 1 => bs[m + 1] = bl[j] /\ j = IF m + 1 < n THEN m + 1 ELSE m + 1 + 1
      BY <3>1, <1>8
    <3> HIDE DEF k, j
    <3>3. CASE k = n - 1
      <4>1. m = n - 1 /\ (m = L - 1 <=> n = L)
        BY <3>0, <3>3, <1>0, <1>1
      <4>2. m # L - 1 => j = n + 1
        BY <3>2, <4>1, <1>0
      <4> QED
        BY <3>0, <3>2, <3>3, <4>1, <4>2, <1>5, <1>13
    <3>4. CASE k # n - 1
      <4>1. (m = L - 1 <=> k = L) /\ (m # L - 1 => j = k + 1)
        BY <3>0, <3>2, <3>4, <1>0, <1>1, SMTT(20)
      <4>2. q.raw[bl[k]] = Word(IF k = L THEN 0 ELSE bl[k + 1])
        BY <3>0, <3>4, <1>6, <1>13 DEF L
      <4> QED
        BY <3>0, <3>2, <4>1, <4>2
    <3> QED
      BY <3>3, <3>4
  <2> QED
    BY <2>1, <2>2, <1>4, <1>8 DEF Linked
<1>15. Layout(q, bs)
  <2>1. src \in [1..Len(bs) -> 1..Len(bl)] /\ \A m, k \in 1..Len(bs) : m # k => src[m] # src[k]
    <3>1. src \in [1..L - 1 -> 1..L]
      BY <1>0, <1>1
    <3> HIDE DEF src
    <3> QED
      BY <3>1, <1>8, <1>9 DEF L
  <2>2. ASSUME NEW m \in 1..Len(bs)
        PROVE  /\ bs[m] \in Nat /\ BlockSize(q, bs[m]) \in Nat /\ 2 <= BlockSize(q, bs[m])
               /\ bl[src[m]] <= bs[m]
               /\ bs[m] + BlockSize(q, bs[m]) <= bl[src[m]] + BlockSize(p, bl[src[m]])
    <3>1. m \in 1..L - 1
      BY <1>8
    <3>2. bs[m] = bl[src[m]] /\ src[m] \in 1..L /\ src[m] # n
      BY <3>1, <1>8
    <3> HIDE DEF src
    <3> QED
      BY <3>2, <1>3, <1>13, SMTT(20)
  <2> HIDE DEF src
  <2> QED
    BY <2>1, <2>2, <1>11, <1>14, Reblocked
<1>16. Room(q, bs, b, z)
  <2>1. b \in Nat /\ q.content <= b /\ b + z <= PageSize
    <3>1. PageSize \in Nat /\ p.content \in Nat
      BY <1>1, Fields, Sizes
    <3> QED
      BY <3>1, <1>2
  <2>0. b <= b /\ b + z <= b + y
    BY <1>2
  <2>2. ASSUME NEW i \in 1..Count(q) PROVE Apart(b, z, q.pointers[i], At(q, i).size)
    <3>1. i \in 1..Count(p) /\ q.pointers[i] = p.pointers[i] /\ At(q, i) = At(p, i)
      BY <1>11 DEF SameCells, Count
    <3>2. Apart(b, y, p.pointers[i], At(p, i).size)
      BY <3>1 DEF Layout, BlocksHeld, b, y
    <3>3. p.pointers[i] \in Nat /\ At(p, i).size \in Nat
      BY <3>1, <1>1, CellHeld
    <3> QED
      BY <2>0, <3>1, <3>2, <3>3, <1>2, ApartInside
  <2>3. ASSUME NEW m \in 1..Len(bs) PROVE Apart(b, z, bs[m], BlockSize(q, bs[m]))
    <3> DEFINE k == src[m]
    <3>1. bs[m] = bl[k] /\ k \in 1..L /\ k # n
      BY <1>8
    <3> HIDE DEF k
    <3>2. Apart(b, y, bl[k], BlockSize(p, bl[k]))
      BY <3>1 DEF Layout, BlocksHeld, b, y, L
    <3>3. bl[k] \in Nat /\ BlockSize(p, bl[k]) \in Nat
      BY <3>1, <1>3
    <3>4. Apart(b, z, bl[k], BlockSize(p, bl[k]))
      BY <2>0, <3>2, <3>3, <1>2, ApartInside
    <3> QED
      BY <3>1, <3>4, <1>13
  <2> QED
    BY <2>1, <2>2, <2>3 DEF Room
<1> QED
  BY <1>11, <1>15, <1>16 DEF bs, b

(* q is p once the block before another is linked to the one behind it.     *)
Unlinked(q, p, prev, x) ==
  /\ q \in PageType /\ q.pointers = p.pointers /\ q.content = p.content
  /\ q.first = IF prev = 0 THEN x ELSE p.first
  /\ \A u \in Units : q.raw[u] = IF prev # 0 /\ u = prev THEN Word(x) ELSE p.raw[u]

(* What changes as the block before another is linked to the one behind it. *)
LEMMA UnlinkPage ==
  ASSUME NEW p \in PageType, NEW prev \in Nat, NEW x \in Nat
  PROVE  Unlinked(Unlink(p, prev, x), p, prev, x)
<1>1. CASE prev = 0
  <2> DEFINE q == [p EXCEPT !.first = x]
  <2>1. Unlink(p, prev, x) = q
    BY <1>1 DEF Unlink
  <2>2. q \in PageType /\ q.pointers = p.pointers /\ q.content = p.content /\ q.first = x /\ q.raw = p.raw
    BY DEF PageType
  <2> HIDE DEF q
  <2> QED
    BY <1>1, <2>1, <2>2 DEF Unlinked
<1>2. CASE prev # 0
  <2> DEFINE s == <<Word(x)>>
             q == Overwrite(p, prev, s)
  <2>1. s \in Seq(UnitValue) /\ Len(s) = 1 /\ s[1] = Word(x)
    BY UnitValues
  <2>0. prev \in Int /\ s \in Seq(UnitValue)
    BY <2>1
  <2> HIDE DEF s
  <2>2. /\ q \in PageType /\ q.pointers = p.pointers /\ q.content = p.content /\ q.first = p.first
        /\ \A u \in Units : q.raw[u] = IF prev <= u /\ u < prev + Len(s) THEN s[u - prev + 1] ELSE p.raw[u]
    BY <2>0, Overwritten
  <2> HIDE DEF q
  <2>3. \A u \in Units : (prev <= u /\ u < prev + 1 <=> u = prev) /\ (u = prev => u - prev + 1 = 1)
    BY Sizes
  <2>4. \A u \in Units : q.raw[u] = IF u = prev THEN Word(x) ELSE p.raw[u]
    BY <2>1, <2>2, <2>3
  <2>5. Unlink(p, prev, x) = q
    BY <1>2 DEF Unlink, q, s
  <2> QED
    BY <1>2, <2>2, <2>4, <2>5 DEF Unlinked
<1> QED
  BY <1>1, <1>2

(* What a page holds after the header of a free block was written.          *)
LEMMA BlockWritten ==
  ASSUME NEW p \in PageType, NEW b \in Nat, NEW x \in Nat, NEW y \in Nat
  PROVE  LET q == Overwrite(p, b, <<Word(x), Word(y)>>)
         IN  /\ q \in PageType /\ q.pointers = p.pointers /\ q.content = p.content /\ q.first = p.first
             /\ \A u \in Units :
                  q.raw[u] = IF u = b THEN Word(x) ELSE IF u = b + 1 THEN Word(y) ELSE p.raw[u]
<1> DEFINE s == <<Word(x), Word(y)>>
           q == Overwrite(p, b, s)
<1>1. s \in Seq(UnitValue) /\ Len(s) = 2 /\ s[1] = Word(x) /\ s[2] = Word(y)
  BY UnitValues
<1>0. b \in Int /\ s \in Seq(UnitValue)
  BY <1>1
<1> HIDE DEF s
<1>2. /\ q \in PageType /\ q.pointers = p.pointers /\ q.content = p.content /\ q.first = p.first
      /\ \A u \in Units : q.raw[u] = IF b <= u /\ u < b + Len(s) THEN s[u - b + 1] ELSE p.raw[u]
  BY <1>0, Overwritten
<1> HIDE DEF q
<1>3. ASSUME NEW u \in Units
      PROVE  q.raw[u] = IF u = b THEN Word(x) ELSE IF u = b + 1 THEN Word(y) ELSE p.raw[u]
  <2>1. u \in Nat
    BY Sizes
  <2>2. CASE u = b
    <3>1. b <= u /\ u < b + 2 /\ u - b + 1 = 1
      BY <2>1, <2>2
    <3> QED
      BY <2>2, <3>1, <1>1, <1>2
  <2>3. CASE u = b + 1
    <3>1. b <= u /\ u < b + 2 /\ u - b + 1 = 2 /\ u # b
      BY <2>1, <2>3
    <3> QED
      BY <2>3, <3>1, <1>1, <1>2
  <2>4. CASE u # b /\ u # b + 1
    <3>1. ~(b <= u /\ u < b + 2)
      BY <2>1, <2>4
    <3> QED
      BY <2>4, <3>1, <1>1, <1>2
  <2> QED
    BY <2>2, <2>3, <2>4
<1> QED
  BY <1>2, <1>3 DEF q, s

(* The first block that fits is a block of the list and large enough.       *)
LEMMA FirstFits ==
  ASSUME NEW p \in PageType, NEW z \in Nat, 2 <= z, NEW n \in FirstFit(p, z)
  PROVE  /\ n \in 1..PageSize /\ Block(p)[n] \in Nat /\ Block(p)[n] \in Units /\ Block(p)[n] # 0
         /\ Block(p)[n] + 1 \in Units
         /\ BlockSize(p, Block(p)[n]) \in Nat /\ z <= BlockSize(p, Block(p)[n])
         /\ n # 1 => n - 1 \in 1..PageSize /\ Block(p)[n - 1] \in Nat /\ Block(p)[n - 1] # 0
<1> DEFINE b == Block(p)[n]
<1>1. n \in 1..PageSize /\ b # 0 /\ BlockSize(p, b) >= z
  BY BlockValues DEF FirstFit
<1>2. b \in Nat
  BY <1>1, BlockValues
<1>3. BlockSize(p, b) \in Nat
  BY <1>2, BlockSizes
<1>4. b + 1 \in Units /\ b \in Units
  <2>1. 1 <= BlockSize(p, b)
    BY <1>1, <1>3
  <2> QED
    BY <1>2, <2>1, BlockSizes
<1>5. n # 1 => n - 1 \in 1..PageSize /\ Block(p)[n - 1] \in Nat /\ Block(p)[n - 1] # 0
  <2> SUFFICES ASSUME n # 1
               PROVE  n - 1 \in 1..PageSize /\ Block(p)[n - 1] \in Nat /\ Block(p)[n - 1] # 0
    OBVIOUS
  <2>1. n - 1 \in 1..PageSize
    BY <1>1, Sizes
  <2>2. b = Following(p, Block(p)[n - 1])
    BY <1>1, BlockValues
  <2>3. Block(p)[n - 1] # 0
    BY <2>2, <1>1 DEF Following
  <2> QED
    BY <2>1, <2>3, BlockValues
<1> QED
  BY <1>1, <1>2, <1>3, <1>4, <1>5

(* What is written when the first block that fits is used.                  *)
LEMMA Allocation ==
  ASSUME NEW p \in PageType, NEW z \in Nat, 2 <= z, NEW n \in FirstFit(p, z)
  PROVE  LET b == Block(p)[n]
             y == BlockSize(p, b)
             next == Number(p.raw[b])
             r == FreeblockAlloc(p, z, n)
             q == r.page
         IN  /\ r.at = b /\ q \in PageType /\ q.pointers = p.pointers /\ q.content = p.content
             /\ z + 2 <= y =>
                  /\ q.first = IF n = 1 THEN b + z ELSE p.first
                  /\ \A u \in Units :
                       q.raw[u] = IF n # 1 /\ u = Block(p)[n - 1] THEN Word(b + z)
                                  ELSE IF u = b + z THEN Word(next)
                                  ELSE IF u = b + z + 1 THEN Word(y - z)
                                  ELSE p.raw[u]
             /\ ~(z + 2 <= y) =>
                  /\ q.first = IF n = 1 THEN next ELSE p.first
                  /\ \A u \in Units :
                       q.raw[u] = IF n # 1 /\ u = Block(p)[n - 1] THEN Word(next) ELSE p.raw[u]
<1> DEFINE b == Block(p)[n]
           y == BlockSize(p, b)
           next == Number(p.raw[b])
           prev == IF n = 1 THEN 0 ELSE Block(p)[n - 1]
           r == FreeblockAlloc(p, z, n)
           w == Overwrite(p, b + z, <<Word(next), Word(y - z)>>)
<1>1. b \in Nat /\ b \in Units /\ y \in Nat /\ z <= y /\ prev \in Nat /\ (prev # 0 <=> n # 1)
      /\ (n # 1 => prev = Block(p)[n - 1])
  BY FirstFits
<1>7. next \in Nat
  <2>1. p.raw[b] \in UnitValue
    BY <1>1, Fields
  <2> HIDE DEF b
  <2> QED
    BY <2>1, UnitValues
<1>2. y - z \in Nat /\ b + z \in Nat /\ (y - z >= MinBlock <=> z + 2 <= y)
  <2> HIDE DEF b, y
  <2> QED
    BY <1>1, Sizes
<1>3. r.at = b /\ r.page = IF z + 2 <= y THEN Unlink(w, prev, b + z) ELSE Unlink(p, prev, next)
  <2>1. r.page = IF y - z >= MinBlock THEN Unlink(w, prev, b + z) ELSE Unlink(p, prev, next)
    BY DEF FreeblockAlloc
  <2>2. r.at = b
    BY DEF FreeblockAlloc
  <2> QED
    BY <1>2, <2>1, <2>2
<1> HIDE DEF r, prev, y, b, next
<1>4. /\ w \in PageType /\ w.pointers = p.pointers /\ w.content = p.content /\ w.first = p.first
      /\ \A u \in Units :
           w.raw[u] = IF u = b + z THEN Word(next) ELSE IF u = b + z + 1 THEN Word(y - z) ELSE p.raw[u]
  <2> DEFINE bz == b + z
             yz == y - z
  <2>1. bz \in Nat /\ yz \in Nat /\ next \in Nat
    BY <1>2, <1>7
  <2> HIDE DEF bz, yz
  <2>2. LET v == Overwrite(p, bz, <<Word(next), Word(yz)>>)
        IN  /\ v \in PageType /\ v.pointers = p.pointers /\ v.content = p.content /\ v.first = p.first
            /\ \A u \in Units :
                 v.raw[u] = IF u = bz THEN Word(next) ELSE IF u = bz + 1 THEN Word(yz) ELSE p.raw[u]
    BY <2>1, BlockWritten
  <2> QED
    BY <2>2 DEF bz, yz
<1> HIDE DEF w
<1>5. CASE z + 2 <= y
  <2> DEFINE bz == b + z
             q == Unlink(w, prev, bz)
  <2>0. bz \in Nat
    BY <1>2
  <2>4. prev \in Nat
    BY <1>1
  <2>5. w \in PageType
    BY <1>4
  <2>2. r.page = q
    BY <1>3, <1>5
  <2> HIDE DEF bz, q
  <2>3. Unlinked(Unlink(w, prev, bz), w, prev, bz)
    BY <2>0, <2>4, <2>5, UnlinkPage
  <2>1. /\ q \in PageType /\ q.pointers = w.pointers /\ q.content = w.content
        /\ q.first = IF prev = 0 THEN b + z ELSE w.first
        /\ \A u \in Units : q.raw[u] = IF prev # 0 /\ u = prev THEN Word(b + z) ELSE w.raw[u]
    BY <2>3 DEF bz, q, Unlinked
  <2> HIDE DEF q
  <2> QED
    BY <1>1, <1>3, <1>4, <1>5, <2>1, <2>2 DEF r, y, b, next
<1>6. CASE ~(z + 2 <= y)
  <2> DEFINE q == Unlink(p, prev, next)
  <2>0. prev \in Nat /\ next \in Nat
    BY <1>1, <1>7
  <2>1. /\ q \in PageType /\ q.pointers = p.pointers /\ q.content = p.content
        /\ q.first = IF prev = 0 THEN next ELSE p.first
        /\ \A u \in Units : q.raw[u] = IF prev # 0 /\ u = prev THEN Word(next) ELSE p.raw[u]
    <3>1. Unlinked(Unlink(p, prev, next), p, prev, next)
      BY <2>0, UnlinkPage
    <3> QED
      BY <3>1 DEF Unlinked
  <2>2. r.page = q
    BY <1>3, <1>6
  <2> HIDE DEF q
  <2> QED
    BY <1>1, <1>3, <1>6, <2>1, <2>2 DEF r, y, b, next
<1> QED
  BY <1>5, <1>6

(* Each block of bl but the one at a is a block of bs.                      *)
Stayed(bl, bs, a) == \A m \in 1..Len(bl) : bl[m] = a \/ \E k \in 1..Len(bs) : bs[k] = bl[m]

(* Using the first block that fits leaves a page that is laid out, with     *)
(* room where the block begins.                                             *)
LEMMA LaidAllocation ==
  ASSUME NEW p, NEW bl, Layout(p, bl), NEW z \in Nat, 2 <= z, NEW n \in FirstFit(p, z)
  PROVE  LET r == FreeblockAlloc(p, z, n)
         IN  /\ r.at \in Units /\ r.at # 0
             /\ r.page.content = p.content
             /\ \E bs : /\ Layout(r.page, bs) /\ SameCells(r.page, p) /\ Room(r.page, bs, r.at, z)
                        /\ Stayed(bl, bs, r.at)
<1> DEFINE b == Block(p)[n]
           y == BlockSize(p, b)
           next == Number(p.raw[b])
           r == FreeblockAlloc(p, z, n)
           q == r.page
           L == Len(bl)
<1>1. p \in PageType /\ Linked(p, bl)
  BY DEF Layout, BlocksHeld
<1>2. \A m, k \in 1..Len(bl) : m # k => bl[m] # bl[k]
  BY BlockHeld
<1>3. L \in Nat /\ \A k \in 1..PageSize : Block(p)[k] = IF k <= L THEN bl[k] ELSE 0
  BY <1>1, <1>2, LinkedBlocks
<1>4. n \in 1..PageSize /\ b \in Units /\ b # 0 /\ y \in Nat /\ z <= y
  BY <1>1, FirstFits
<1>5. n \in Nat /\ n \in 1..L /\ b = bl[n]
  <2> HIDE DEF b
  <2>1. b = IF n <= L THEN bl[n] ELSE 0
    BY <1>3, <1>4 DEF b
  <2> QED
    BY <2>1, <1>3, <1>4, Sizes
<1>6. n # 1 => Block(p)[n - 1] = bl[n - 1]
  <2> SUFFICES ASSUME n # 1 PROVE Block(p)[n - 1] = bl[n - 1]
    OBVIOUS
  <2>1. n - 1 \in 1..PageSize /\ n - 1 <= L
    BY <1>4, <1>5, <1>3, Sizes
  <2> QED
    BY <2>1, <1>3
<1>7. /\ p.raw[b] = Word(IF n = L THEN 0 ELSE bl[n + 1])
      /\ next = IF n = L THEN 0 ELSE bl[n + 1]
      /\ p.first = bl[1]
  <2>1. p.raw[b] = Word(IF n = L THEN 0 ELSE bl[n + 1])
    BY <1>1, <1>5 DEF Linked
  <2>2. (IF n = L THEN 0 ELSE bl[n + 1]) \in Nat
    <3>1. n # L => n + 1 \in 1..L
      BY <1>3, <1>5
    <3>2. n # L => bl[n + 1] \in Nat
      BY <3>1, BlockHeld
    <3> QED
      BY <3>2
  <2>3. p.first = bl[1]
    BY <1>1, <1>3, <1>5 DEF Linked
  <2> HIDE DEF b
  <2> QED
    BY <2>1, <2>2, <2>3, UnitValues
<1>8. /\ r.at = b /\ q \in PageType /\ q.pointers = p.pointers /\ q.content = p.content
      /\ z + 2 <= y =>
           /\ q.first = IF n = 1 THEN b + z ELSE p.first
           /\ \A u \in Units :
                q.raw[u] = IF n # 1 /\ u = Block(p)[n - 1] THEN Word(b + z)
                           ELSE IF u = b + z THEN Word(next)
                           ELSE IF u = b + z + 1 THEN Word(y - z)
                           ELSE p.raw[u]
      /\ ~(z + 2 <= y) =>
           /\ q.first = IF n = 1 THEN next ELSE p.first
           /\ \A u \in Units :
                q.raw[u] = IF n # 1 /\ u = Block(p)[n - 1] THEN Word(next) ELSE p.raw[u]
  BY <1>1, Allocation
<1>9. y = BlockSize(p, bl[n])
  BY <1>5
<1>10. Word(next) = p.raw[bl[n]]
  BY <1>5, <1>7
<1> HIDE DEF r, q, y, b, next, L
<1>11. CASE z + 2 <= y
  <2> DEFINE bs == [bl EXCEPT ![n] = bl[n] + z]
  <2>1. q.first = IF n = 1 THEN bl[n] + z ELSE p.first
    BY <1>5, <1>8, <1>11
  <2>2. \A u \in Units :
          q.raw[u] = IF n # 1 /\ u = bl[n - 1] THEN Word(bl[n] + z)
                     ELSE IF u = bl[n] + z THEN p.raw[bl[n]]
                     ELSE IF u = bl[n] + z + 1 THEN Word(BlockSize(p, bl[n]) - z)
                     ELSE p.raw[u]
    BY <1>5, <1>6, <1>8, <1>9, <1>10, <1>11
  <2>3. n \in 1..Len(bl) /\ z + 2 <= BlockSize(p, bl[n])
    BY <1>5, <1>9, <1>11 DEF L
  <2>4. Layout(q, bs) /\ SameCells(q, p) /\ Room(q, bs, bl[n], z)
    BY <2>1, <2>2, <2>3, <1>8, CutBlock
  <2>5. Stayed(bl, bs, bl[n])
    <3> SUFFICES ASSUME NEW m \in 1..Len(bl), m # n PROVE \E k \in 1..Len(bs) : bs[k] = bl[m]
      BY DEF Stayed
    <3>1. bl \in Seq(Units \ {0})
      BY <1>1 DEF Linked
    <3>2. Len(bs) = Len(bl) /\ bs[m] = bl[m]
      BY <3>1
    <3> HIDE DEF bs
    <3> QED
      BY <3>2
  <2> HIDE DEF bs
  <2> QED
    BY <2>4, <2>5, <1>4, <1>5, <1>8 DEF r, q
<1>12. CASE ~(z + 2 <= y)
  <2> DEFINE bs == RemoveAt(bl, n)
  <2>1. q.first = IF n = 1 THEN (IF Len(bl) = 1 THEN 0 ELSE bl[2]) ELSE p.first
    <3>1. q.first = IF n = 1 THEN next ELSE p.first
      BY <1>8, <1>12
    <3>2. n = 1 => next = IF Len(bl) = 1 THEN 0 ELSE bl[2]
      <4> SUFFICES ASSUME n = 1 PROVE next = IF Len(bl) = 1 THEN 0 ELSE bl[2]
        OBVIOUS
      <4>1. n + 1 = 2 /\ (n = L <=> Len(bl) = 1)
        BY DEF L
      <4>2. next = IF n = L THEN 0 ELSE bl[n + 1]
        BY <1>7
      <4> QED
        BY <4>1, <4>2
    <3> QED
      BY <3>1, <3>2
  <2>2. \A u \in Units : q.raw[u] = IF n # 1 /\ u = bl[n - 1] THEN p.raw[bl[n]] ELSE p.raw[u]
    BY <1>6, <1>8, <1>10, <1>12
  <2>3. n \in 1..Len(bl) /\ z <= BlockSize(p, bl[n])
    BY <1>4, <1>5, <1>9 DEF L
  <2>4. Layout(q, bs) /\ SameCells(q, p) /\ Room(q, bs, bl[n], z)
    BY <2>1, <2>2, <2>3, <1>8, TakeBlock
  <2>5. Stayed(bl, bs, bl[n])
    <3> SUFFICES ASSUME NEW m \in 1..Len(bl), m # n PROVE \E k \in 1..Len(bs) : bs[k] = bl[m]
      BY DEF Stayed
    <3>1. bl \in Seq(Units \ {0})
      BY <1>1 DEF Linked
    <3>2. Removal(bs, bl, n)
      BY <2>3, <3>1, RemovedAt
    <3> HIDE DEF bs
    <3>3. Len(bs) = Len(bl) - 1
          /\ \A k \in 1..Len(bl) - 1 : bs[k] = IF k < n THEN bl[k] ELSE bl[k + 1]
      BY <3>2 DEF Removal
    <3>4. CASE m < n
      <4>1. m \in 1..Len(bl) - 1
        BY <3>4, <2>3
      <4> QED
        BY <4>1, <3>3, <3>4
    <3>5. CASE n < m
      <4>1. m - 1 \in 1..Len(bl) - 1 /\ ~(m - 1 < n) /\ (m - 1) + 1 = m
        BY <3>5, <2>3
      <4> QED
        BY <4>1, <3>3
    <3> QED
      BY <3>4, <3>5, <2>3
  <2> HIDE DEF bs
  <2> QED
    BY <2>4, <2>5, <1>4, <1>5, <1>8 DEF r, q
<1> QED
  BY <1>11, <1>12

(* Where there is room for a cell of z units, in a page that still has its  *)
(* cells; 0, and the page with its cells moved, if there is none.           *)
LEMMA Spaced ==
  ASSUME NEW p, NEW bl, Layout(p, bl), NEW z \in Nat, 2 <= z
  PROVE  LET r == AllocateSpace(p, z)
         IN  \/ r.at = 0 /\ r.page = Defragment(p)
             \/ /\ r.at # 0 /\ r.at \in Units
                /\ \E bs : /\ Layout(r.page, bs) /\ Room(r.page, bs, r.at, z)
                           /\ Count(r.page) = Count(p) /\ Cellsat(r.page) = Cellsat(p)
<1> DEFINE r == AllocateSpace(p, z)
           d == Defragment(p)
           T == FirstFit(p, z)
<1>1. p \in PageType
  BY DEF Layout
<1>2. CASE T # {}
  <2> DEFINE n == Min(T)
             f == FreeblockAlloc(p, z, n)
  <2>1. T \in SUBSET Nat
    <3>1. DOMAIN Block(p) = 1..PageSize
      BY <1>1, BlockValues
    <3>2. T \subseteq DOMAIN Block(p)
      BY DEF FirstFit
    <3> QED
      BY <3>1, <3>2, Sizes
  <2>2. \E m \in T : \A k \in T : m <= k
    <3> HIDE DEF T
    <3> QED
      BY <1>2, <2>1, Least
  <2>3. n \in T
    BY <2>2 DEF Min
  <2>4. r = f
    BY <1>2 DEF AllocateSpace
  <2> HIDE DEF n
  <2>5. /\ f.at \in Units /\ f.at # 0
        /\ \E bs : /\ Layout(f.page, bs) /\ SameCells(f.page, p) /\ Room(f.page, bs, f.at, z)
                   /\ Stayed(bl, bs, f.at)
    BY <2>3, LaidAllocation
  <2> HIDE DEF r, f
  <2> QED
    BY <2>4, <2>5, SameCellsat DEF r
<1>3. CASE T = {} /\ Below(p, z)
  <2> DEFINE g == Grow(p, z)
  <2>1. r = g
    BY <1>3 DEF AllocateSpace
  <2>2. 1 <= z
    OBVIOUS
  <2>3. /\ g.at \in Units /\ g.at # 0
        /\ Layout(g.page, bl) /\ SameCells(g.page, p) /\ Room(g.page, bl, g.at, z)
    BY <1>3, <2>2, Grown
  <2> HIDE DEF r, g
  <2> QED
    BY <2>1, <2>3, SameCellsat DEF r
<1>4. CASE T = {} /\ ~Below(p, z) /\ Below(d, z)
  <2> DEFINE g == Grow(d, z)
  <2>1. r = g
    BY <1>4 DEF AllocateSpace
  <2>2. 1 <= z
    OBVIOUS
  <2>3. Layout(d, << >>) /\ Count(d) = Count(p) /\ \A i \in 1..Count(p) : At(d, i) = At(p, i)
    BY DefragmentLayout
  <2> HIDE DEF d
  <2>4. /\ g.at \in Units /\ g.at # 0
        /\ Layout(g.page, << >>) /\ SameCells(g.page, d) /\ Room(g.page, << >>, g.at, z)
    BY <1>4, <2>2, <2>3, Grown
  <2>5. Cellsat(d) = Cellsat(p)
    BY <2>3 DEF Cellsat
  <2> HIDE DEF r, g
  <2> QED
    BY <2>1, <2>3, <2>4, <2>5, SameCellsat DEF r
<1>5. CASE T = {} /\ ~Below(p, z) /\ ~Below(d, z)
  <2>1. r = [at |-> 0, page |-> d]
    BY <1>5 DEF AllocateSpace
  <2> QED
    BY <2>1
<1> QED
  BY <1>2, <1>3, <1>4, <1>5

-----------------------------------------------------------------------------
(* Inserting and deleting a cell                                            *)

(* The units of a cell begin with the cell.                                 *)
LEMMA BytesOf ==
  ASSUME NEW c \in Cells
  PROVE  Bytes(c) \in Seq(UnitValue) /\ Len(Bytes(c)) = c.size /\ Begins(Bytes(c), c)
<1> DEFINE s == Bytes(c)
<1>1. c.size \in Nat
  BY Sizes
<1>2. s = [k \in 1..c.size |-> Piece(c, k)]
  BY DEF Bytes
<1>3. \A k \in 1..c.size : Piece(c, k) \in UnitValue
  BY <1>1, UnitValues
<1>4. s \in Seq(UnitValue) /\ Len(s) = c.size /\ \A k \in 1..c.size : s[k] = Piece(c, k)
  <2> HIDE DEF s
  <2> QED
    BY <1>1, <1>2, <1>3
<1> QED
  BY <1>1, <1>4 DEF Begins

(* Inserting a cell into a page that is laid out: the page is full, and its *)
(* cells are moved; or the cell is in its place -- unless its pointer lies  *)
(* over the content area.                                                   *)
LEMMA CellInserted ==
  ASSUME NEW p, NEW bl, Layout(p, bl), NEW c \in Cells, NEW i \in 1..Count(p) + 1
  PROVE  LET r == InsertCell(p, i, Bytes(c))
         IN  \/ r.at = 0 /\ r.page = Defragment(p)
             \/ /\ r.at # 0 /\ r.page \in PageType /\ r.page.first \in Units
                /\ ~Tight(r.page) =>
                     \E bs : Layout(r.page, bs) /\ Insertion(Cellsat(r.page), Cellsat(p), i, c)
<1> DEFINE s == Bytes(c)
           r == InsertCell(p, i, s)
           a == AllocateSpace(p, c.size)
           q == Put(a.page, i, a.at, s)
<1>1. p \in PageType /\ c.size \in Nat /\ 2 <= c.size
  BY Sizes DEF Layout
<1>2. ~NeedsDefrag(p)
  <2>1. p.content \in Nat /\ p.fragments = 0
    BY <1>1, Fields, Sizes
  <2> QED
    BY <2>1 DEF NeedsDefrag
<1>3. s \in Seq(UnitValue) /\ Len(s) = c.size
  BY BytesOf
<1>4. r = IF a.at = 0 THEN a ELSE [at |-> a.at, page |-> q]
  BY <1>2, <1>3 DEF InsertCell, Put
<1>5. \/ a.at = 0 /\ a.page = Defragment(p)
      \/ /\ a.at # 0 /\ a.at \in Units
         /\ \E bs : /\ Layout(a.page, bs) /\ Room(a.page, bs, a.at, c.size)
                    /\ Count(a.page) = Count(p) /\ Cellsat(a.page) = Cellsat(p)
  BY <1>1, Spaced
<1> HIDE DEF a
<1>6. CASE a.at = 0
  BY <1>4, <1>5, <1>6
<1>7. CASE a.at # 0
  <2> DEFINE g == a.page
             at == a.at
  <2>1. at \in Units /\ r.at = at /\ r.page = q
    BY <1>4, <1>5, <1>7
  <2>2. PICK bs : Layout(g, bs) /\ Room(g, bs, at, c.size) /\ Count(g) = Count(p) /\ Cellsat(g) = Cellsat(p)
    BY <1>5, <1>7
  <2>3. g \in PageType /\ Linked(g, bs)
    BY <2>2 DEF Layout, BlocksHeld
  <2>4. i \in 1..Count(g) + 1
    BY <2>2
  <2> HIDE DEF g, at
  <2>5. q = Put(g, i, at, s)
    BY DEF g, at
  <2> HIDE DEF q, s
  <2>6. q \in PageType /\ q.content = g.content /\ q.first = g.first /\ Count(q) = Count(g) + 1
    BY <2>1, <2>3, <2>4, <2>5, <1>3, PutPage
  <2>7. q.first \in Units
    <3>1. Len(bs) \in Nat /\ (Len(bs) # 0 => bs[1] \in Units)
      BY <2>3 DEF Linked
    <3>2. 0 \in Units
      BY Sizes
    <3> QED
      BY <3>1, <3>2, <2>3, <2>6 DEF Linked
  <2>8. ASSUME ~Tight(q)
        PROVE  Layout(q, bs) /\ Insertion(Cellsat(q), Cellsat(p), i, c)
    <3>1. HeaderSize + Count(g) + 1 <= g.content
      <4>1. Count(g) \in Nat /\ g.content \in Nat
        BY <2>3, Fields, Sizes
      <4> QED
        BY <4>1, <2>6, <2>8, Sizes DEF Tight, PointerOffset
    <3>2. LET v == Put(g, i, at, Bytes(c))
          IN  Layout(v, bs) /\ Insertion(Cellsat(v), Cellsat(g), i, c)
      BY <3>1, <2>2, <2>4, PutLayout
    <3> QED
      BY <3>2, <2>2, <2>5 DEF s
  <2> QED
    BY <2>1, <2>6, <2>7, <2>8, <1>7 DEF s, at
<1> QED
  BY <1>6, <1>7

(* What a page holds after a cell was deleted, its span now the first free  *)
(* block.                                                                   *)
LEMMA CellFreed ==
  ASSUME NEW p \in PageType, NEW i \in 1..Count(p), 2 <= Len(ReadCell(p, i))
  PROVE  LET q == DeleteCell(p, i)
             a == p.pointers[i]
         IN  /\ q \in PageType /\ q.content = p.content /\ q.first = a
             /\ Count(q) = Count(p) - 1
             /\ \A k \in 1..Count(p) - 1 :
                  q.pointers[k] = IF k < i THEN p.pointers[k] ELSE p.pointers[k + 1]
             /\ \A u \in Units :
                  q.raw[u] = IF HeaderSize <= u /\ u < HeaderSize + Count(q)
                             THEN Word(q.pointers[u - HeaderSize + 1])
                             ELSE IF u = a THEN Word(p.first)
                             ELSE IF u = a + 1 THEN Word(Len(ReadCell(p, i)))
                             ELSE p.raw[u]
<1> DEFINE a == p.pointers[i]
           n == Len(ReadCell(p, i))
           ptrs == RemoveAt(p.pointers, i)
           w == Overwrite(p, a, <<Word(p.first), Word(n)>>)
           y == [w EXCEPT !.first = a, !.pointers = ptrs]
           q == DeleteCell(p, i)
<1>1. a \in Nat /\ a \in Units /\ p.first \in Nat
  BY Fields, Sizes
<1>2. n \in Nat /\ 2 <= n
  <2>1. ReadCell(p, i) \in Seq(UnitValue)
    BY CellReadRaw
  <2> QED
    BY <2>1
<1>3. ptrs \in Seq(Units) /\ Removal(ptrs, p.pointers, i)
  <2>1. p.pointers \in Seq(Units) /\ i \in 1..Len(p.pointers)
    BY Fields
  <2> QED
    BY <2>1, RemovedAt
<1> HIDE DEF a, n, ptrs
<1>4. /\ w \in PageType /\ w.pointers = p.pointers /\ w.content = p.content /\ w.first = p.first
      /\ \A u \in Units :
           w.raw[u] = IF u = a THEN Word(p.first) ELSE IF u = a + 1 THEN Word(n) ELSE p.raw[u]
  <2> DEFINE f == p.first
  <2>1. f \in Nat
    BY <1>1
  <2> HIDE DEF f
  <2>2. LET v == Overwrite(p, a, <<Word(f), Word(n)>>)
        IN  /\ v \in PageType /\ v.pointers = p.pointers /\ v.content = p.content /\ v.first = p.first
            /\ \A u \in Units :
                 v.raw[u] = IF u = a THEN Word(f) ELSE IF u = a + 1 THEN Word(n) ELSE p.raw[u]
    BY <1>1, <1>2, <2>1, BlockWritten, SMTT(20)
  <2> QED
    BY <2>2 DEF f
<1>5. /\ AddFreeblock(p, a, n).pointers = p.pointers
      /\ [AddFreeblock(p, a, n) EXCEPT !.pointers = ptrs] = y
  <2>1. ~(n < MinBlock)
    BY <1>2, Sizes
  <2>2. AddFreeblock(p, a, n) = [w EXCEPT !.first = a, !.fragments = w.fragments]
    BY <2>1 DEF AddFreeblock
  <2> HIDE DEF w
  <2> QED
    BY <2>2, <1>4 DEF PageType
<1>6. q = WritePointers(y)
  BY <1>5 DEF DeleteCell, a, n, ptrs
<1> HIDE DEF w
<1>7. y \in PageType /\ y.pointers = ptrs /\ y.content = p.content /\ y.first = a /\ y.raw = w.raw
  BY <1>1, <1>3, <1>4 DEF PageType
<1> HIDE DEF y, q
<1>8. /\ q \in PageType /\ q.pointers = ptrs /\ q.content = p.content /\ q.first = a
      /\ \A u \in Units :
           q.raw[u] = IF HeaderSize <= u /\ u < HeaderSize + Count(y)
                      THEN Word(ptrs[u - HeaderSize + 1]) ELSE w.raw[u]
  BY <1>6, <1>7, PointersWritten
<1>9. Count(q) = Count(p) - 1 /\ Count(y) = Count(q)
  BY <1>3, <1>7, <1>8 DEF Count, Removal
<1>10. \A k \in 1..Count(p) - 1 : q.pointers[k] = IF k < i THEN p.pointers[k] ELSE p.pointers[k + 1]
  BY <1>3, <1>8 DEF Count, Removal
<1>11. \A u \in Units :
         q.raw[u] = IF HeaderSize <= u /\ u < HeaderSize + Count(q)
                    THEN Word(q.pointers[u - HeaderSize + 1])
                    ELSE IF u = a THEN Word(p.first)
                    ELSE IF u = a + 1 THEN Word(n)
                    ELSE p.raw[u]
  BY <1>4, <1>8, <1>9
<1> QED
  BY <1>8, <1>9, <1>10, <1>11 DEF q, a, n

(* Deleting a cell of a page that is laid out, when no free block begins    *)
(* behind the cell and before the next one: what the cell and the space up  *)
(* to the next one held is a free block, in front of the others.            *)
LEMMA CellDeleted ==
  ASSUME NEW p, NEW bl, Layout(p, bl), NEW i \in 1..Count(p),
         \A m \in 1..Len(bl) : ~(p.pointers[i] <= bl[m] /\ bl[m] < FindCellEnd(p, i))
  PROVE  LET q == DeleteCell(p, i)
         IN  Layout(q, <<p.pointers[i]>> \o bl) /\ Removal(Cellsat(q), Cellsat(p), i)
<1> DEFINE a == p.pointers[i]
           e == FindCellEnd(p, i)
           z == At(p, i).size
           n == Len(ReadCell(p, i))
           q == DeleteCell(p, i)
           N == Count(p)
           L == Len(bl)
           bs == <<a>> \o bl
           src(k) == IF k < i THEN k ELSE k + 1
<1>1. p \in PageType /\ PointersHeld(p) /\ CellsHeld(p) /\ BlocksHeld(p, bl) /\ Linked(p, bl)
  BY DEF Layout, BlocksHeld
<1>2. N \in Nat /\ p.content \in Nat /\ p.content <= PageSize /\ HeaderSize + N <= p.content /\ i \in Nat /\ 1 <= i /\ i <= N
  BY <1>1, Fields, Sizes DEF PointersHeld
<1>3. /\ a \in Nat /\ a \in Units /\ p.content <= a /\ z \in Nat /\ 2 <= z /\ a + z <= e
      /\ e \in Nat /\ e <= PageSize
  BY <1>1, CellHeld
<1>4. n = e - a
  BY <1>1, CellReadRaw
<1>5. n \in Nat /\ 2 <= n /\ a + n = e
  <2> HIDE DEF n, e, a, z
  <2> QED
    BY <1>3, <1>4
<1>6. /\ q \in PageType /\ q.content = p.content /\ q.first = a /\ Count(q) = N - 1
      /\ \A k \in 1..N - 1 : q.pointers[k] = IF k < i THEN p.pointers[k] ELSE p.pointers[k + 1]
      /\ \A u \in Units :
           q.raw[u] = IF HeaderSize <= u /\ u < HeaderSize + Count(q)
                      THEN Word(q.pointers[u - HeaderSize + 1])
                      ELSE IF u = a THEN Word(p.first)
                      ELSE IF u = a + 1 THEN Word(n)
                      ELSE p.raw[u]
  BY <1>1, <1>5, CellFreed
<1> HIDE DEF q, n
<1>7. \A k \in 1..N - 1 : src(k) \in 1..N /\ src(k) # i /\ q.pointers[k] = p.pointers[src(k)]
  BY <1>2, <1>6
<1>8. \A k, l \in 1..N - 1 : k # l => src(k) # src(l)
  BY <1>2
<1> HIDE DEF src
<1>9. ASSUME NEW u \in Units, ~(u < HeaderSize + N), u # a, u # a + 1
      PROVE  q.raw[u] = p.raw[u]
  <2>1. ~(u < HeaderSize + Count(q))
    BY <1>2, <1>6, <1>9, Sizes
  <2> QED
    BY <2>1, <1>6, <1>9
<1>10. a + 1 \in Units /\ q.raw[a] = Word(p.first) /\ q.raw[a + 1] = Word(n)
  <2>1. a + 1 \in Units /\ ~(a < HeaderSize + Count(q)) /\ ~(a + 1 < HeaderSize + Count(q)) /\ a + 1 # a
    <3> HIDE DEF a, e, z
    <3> QED
      BY <1>2, <1>3, <1>6, Sizes
  <2> QED
    BY <2>1, <1>3, <1>6
<1>11. PointersHeld(q)
  <2>1. HeaderSize + Count(q) <= q.content
    BY <1>2, <1>6, Sizes
  <2>2. ASSUME NEW k \in 1..Count(q) PROVE q.raw[HeaderSize + k - 1] = Word(q.pointers[k])
    <3> DEFINE u == HeaderSize + k - 1
    <3>1. u \in Units /\ HeaderSize <= u /\ u < HeaderSize + Count(q) /\ u - HeaderSize + 1 = k
      BY <1>2, <1>6, Sizes
    <3> HIDE DEF u
    <3>2. q.raw[u] = Word(q.pointers[u - HeaderSize + 1])
      BY <3>1, <1>6
    <3> QED
      BY <3>1, <3>2 DEF u
  <2> QED
    BY <2>1, <2>2 DEF PointersHeld
<1>12. ASSUME NEW k \in 1..N - 1
       PROVE  At(q, k) = At(p, src(k)) /\ CellAt(q, q.pointers[k], At(q, k))
  <2> DEFINE j == src(k)
             b == p.pointers[j]
             y == At(p, j).size
  <2>1. j \in 1..N /\ j # i /\ q.pointers[k] = b
    BY <1>7
  <2>2. b \in Nat /\ p.content <= b /\ b + y <= PageSize /\ y \in Nat
    BY <2>1, <1>1, CellHeld
  <2>3. b + y <= a \/ a + z <= b
    BY <2>1, <1>1, CellsApart
  <2> HIDE DEF b, y, a, z, e
  <2>4. ASSUME NEW u \in Units, b <= u, u < b + y PROVE q.raw[u] = p.raw[u]
    <3>1. ~(u < HeaderSize + N) /\ u # a /\ u # a + 1
      BY <2>2, <2>3, <2>4, <1>2, <1>3, Sizes
    <3> QED
      BY <3>1, <1>9
  <2>5. q.content <= p.content /\ k \in 1..Count(q)
    BY <1>2, <1>6
  <2>6. \A u \in Units :
          p.pointers[j] <= u /\ u < p.pointers[j] + At(p, j).size => q.raw[u] = p.raw[u]
    BY <2>4 DEF b, y
  <2>7. q.pointers[k] = p.pointers[j]
    BY <2>1 DEF b
  <2> HIDE DEF j
  <2>8. At(q, k) = At(p, j) /\ CellAt(q, q.pointers[k], At(q, k))
    BY <2>1, <2>5, <2>6, <2>7, <1>1, <1>6, CellKept
  <2> QED
    BY <2>8 DEF j
<1>13. CellsHeld(q)
  <2>1. \A k \in 1..N - 1 : At(q, k) \in Cells
    BY <1>1, <1>7, <1>12 DEF CellsHeld
  <2>2. ASSUME NEW k \in 1..N - 1, NEW l \in 1..N - 1, k # l
        PROVE  Apart(q.pointers[k], At(q, k).size, q.pointers[l], At(q, l).size)
    <3>1. src(k) \in 1..N /\ src(l) \in 1..N /\ src(k) # src(l)
      BY <2>2, <1>7, <1>8
    <3>2. Apart(p.pointers[src(k)], At(p, src(k)).size, p.pointers[src(l)], At(p, src(l)).size)
      BY <3>1, <1>1 DEF CellsHeld
    <3> QED
      BY <3>2, <1>7, <1>12
  <2> QED
    BY <2>1, <2>2, <1>6, <1>12 DEF CellsHeld
<1>14. /\ bs \in Seq(Units \ {0}) /\ Len(bs) = L + 1 /\ bs[1] = a
       /\ \A m \in 1..L : bs[m + 1] = bl[m] /\ bl[m] \in Units \ {0}
       /\ L \in Nat
  <2> DEFINE T == Units \ {0}
  <2>1. a \in T
    BY <1>2, <1>3, Sizes
  <2>2. bl \in Seq(T)
    BY <1>1 DEF Linked
  <2> HIDE DEF T, a
  <2>3. bs \in Seq(T) /\ Prefixed(bs, bl, a)
    BY <2>1, <2>2, Prepended
  <2>4. \A m \in 1..Len(bl) : bl[m] \in T
    BY <2>2
  <2>5. Len(bl) \in Nat
    BY <2>2
  <2> HIDE DEF bs
  <2> QED
    BY <2>3, <2>4, <2>5 DEF Prefixed, T
<1> HIDE DEF bs
<1>15. ASSUME NEW m \in 1..L
       PROVE  /\ bl[m] \in Nat /\ BlockSize(p, bl[m]) \in Nat /\ 2 <= BlockSize(p, bl[m])
              /\ p.content <= bl[m] /\ bl[m] + BlockSize(p, bl[m]) <= PageSize
              /\ Apart(bl[m], BlockSize(p, bl[m]), a, n)
              /\ q.raw[bl[m]] = p.raw[bl[m]]
              /\ BlockSize(q, bl[m]) = BlockSize(p, bl[m])
  <2> DEFINE b == bl[m]
             y == BlockSize(p, b)
  <2>1. b \in Nat /\ y \in Nat /\ 2 <= y /\ p.content <= b /\ b + y <= PageSize
        /\ b \in Units /\ b + 1 \in Units
    BY BlockHeld
  <2>2. Apart(b, y, a, z)
    BY <1>1 DEF BlocksHeld
  <2>3. ~(a <= b /\ b < e)
    OBVIOUS
  <2>5. BlockSize(p, b) = Number(p.raw[b + 1]) /\ BlockSize(q, b) = Number(q.raw[b + 1])
    BY <2>1 DEF BlockSize
  <2> HIDE DEF b, y, a, z, e
  <2>4. b + y <= a \/ e <= b
    BY <2>1, <2>2, <2>3, <1>3 DEF Apart
  <2>6. b # a /\ b # a + 1 /\ b + 1 # a /\ b + 1 # a + 1 /\ ~(b < HeaderSize + N) /\ ~(b + 1 < HeaderSize + N)
    BY <2>1, <2>4, <1>2, <1>3, Sizes
  <2>7. q.raw[b] = p.raw[b] /\ q.raw[b + 1] = p.raw[b + 1]
    BY <2>1, <2>6, <1>9
  <2>8. Apart(b, y, a, n)
    BY <2>1, <2>4, <1>3, <1>5 DEF Apart
  <2> QED
    BY <2>1, <2>5, <2>7, <2>8 DEF b, y
<1>16. BlockSize(q, a) = n
  BY <1>5, <1>10, UnitValues DEF BlockSize
<1>17. Linked(q, bs)
  <2>1. q.first = IF Len(bs) = 0 THEN 0 ELSE bs[1]
    BY <1>6, <1>14
  <2>2. ASSUME NEW m \in 1..Len(bs) PROVE q.raw[bs[m]] = Word(IF m = Len(bs) THEN 0 ELSE bs[m + 1])
    <3>1. CASE m = 1
      <4>1. p.first = IF L = 0 THEN 0 ELSE bl[1]
        BY <1>1 DEF Linked
      <4>2. p.first = IF m = Len(bs) THEN 0 ELSE bs[m + 1]
        <5>1. CASE L = 0
          BY <4>1, <5>1, <3>1, <1>14
        <5>2. CASE L # 0
          <6>1. 1 \in 1..L /\ m # Len(bs)
            BY <5>2, <3>1, <1>14
          <6> QED
            BY <4>1, <5>2, <6>1, <3>1, <1>14
        <5> QED
          BY <5>1, <5>2
      <4> HIDE DEF a, L
      <4> QED
        BY <4>2, <3>1, <1>10, <1>14
    <3>2. CASE m # 1
      <4> DEFINE l == m - 1
      <4>1. l \in 1..L /\ l + 1 = m /\ (l = L <=> m = Len(bs)) /\ (l # L => l + 1 \in 1..L /\ (l + 1) + 1 = m + 1)
        BY <3>2, <1>14
      <4> HIDE DEF l
      <4>2. bs[m] = bl[l]
        BY <4>1, <1>14
      <4>3. l # L => bs[m + 1] = bl[l + 1]
        BY <4>1, <1>14
      <4>4. p.raw[bl[l]] = Word(IF l = L THEN 0 ELSE bl[l + 1])
        BY <4>1, <1>1 DEF Linked
      <4>5. q.raw[bl[l]] = p.raw[bl[l]]
        BY <4>1, <1>15
      <4> HIDE DEF L
      <4> QED
        BY <4>1, <4>2, <4>3, <4>4, <4>5
    <3> QED
      BY <3>1, <3>2
  <2> QED
    BY <2>1, <2>2, <1>14 DEF Linked
(* A block of the new list is the freed one or an old one.                  *)
<1>18. \A m \in 1..Len(bs) : (m = 1 /\ bs[m] = a) \/ (m # 1 /\ m - 1 \in 1..L /\ bs[m] = bl[m - 1])
  <2> SUFFICES ASSUME NEW m \in 1..Len(bs), m # 1 PROVE m - 1 \in 1..L /\ bs[m] = bl[m - 1]
    BY <1>14
  <2>1. m - 1 \in 1..L /\ (m - 1) + 1 = m
    BY <1>14
  <2> QED
    BY <2>1, <1>14
<1>19. \A m \in 1..Len(bs) :
         /\ q.content <= bs[m] /\ bs[m] + BlockSize(q, bs[m]) <= PageSize
         /\ BlockSize(q, bs[m]) >= 2
  <2> SUFFICES ASSUME NEW m \in 1..Len(bs)
               PROVE  /\ q.content <= bs[m] /\ bs[m] + BlockSize(q, bs[m]) <= PageSize
                      /\ BlockSize(q, bs[m]) >= 2
    OBVIOUS
  <2>1. CASE m = 1 /\ bs[m] = a
    <3> HIDE DEF a, e, z
    <3> QED
      BY <2>1, <1>3, <1>5, <1>6, <1>16
  <2>2. CASE m - 1 \in 1..L /\ bs[m] = bl[m - 1]
    <3> DEFINE l == m - 1
               b == bl[l]
               y == BlockSize(p, b)
    <3>1. b \in Nat /\ y \in Nat /\ 2 <= y /\ p.content <= b /\ b + y <= PageSize /\ BlockSize(q, b) = y
      BY <2>2, <1>15
    <3>2. bs[m] = b
      BY <2>2
    <3> HIDE DEF b, y
    <3> QED
      BY <3>1, <3>2, <1>6
  <2> QED
    BY <2>1, <2>2, <1>18
<1>20. ASSUME NEW m \in 1..Len(bs), NEW l \in 1..Len(bs), m # l
       PROVE  Apart(bs[m], BlockSize(q, bs[m]), bs[l], BlockSize(q, bs[l]))
  <2>1. CASE bs[m] = a /\ l - 1 \in 1..L /\ bs[l] = bl[l - 1]
    <3> DEFINE b == bl[l - 1]
    <3>1. Apart(b, BlockSize(p, b), a, n) /\ BlockSize(q, b) = BlockSize(p, b)
      BY <2>1, <1>15
    <3>2. bs[m] = a /\ bs[l] = b
      BY <2>1
    <3> HIDE DEF b, a
    <3> QED
      BY <3>1, <3>2, <1>16, ApartIsSymmetric
  <2>2. CASE bs[l] = a /\ m - 1 \in 1..L /\ bs[m] = bl[m - 1]
    <3> DEFINE b == bl[m - 1]
    <3>1. Apart(b, BlockSize(p, b), a, n) /\ BlockSize(q, b) = BlockSize(p, b)
      BY <2>2, <1>15
    <3>2. bs[l] = a /\ bs[m] = b
      BY <2>2
    <3> HIDE DEF b, a
    <3> QED
      BY <3>1, <3>2, <1>16
  <2>3. CASE m - 1 \in 1..L /\ bs[m] = bl[m - 1] /\ l - 1 \in 1..L /\ bs[l] = bl[l - 1]
    <3> DEFINE mm == m - 1
               ll == l - 1
    <3>1. mm \in 1..L /\ ll \in 1..L /\ mm # ll
      BY <2>3, <1>20, <1>14
    <3>2. bs[m] = bl[mm] /\ bs[l] = bl[ll]
      BY <2>3
    <3> HIDE DEF mm, ll
    <3>3. Apart(bl[mm], BlockSize(p, bl[mm]), bl[ll], BlockSize(p, bl[ll]))
      BY <3>1, <1>1 DEF BlocksHeld
    <3> QED
      BY <3>1, <3>2, <3>3, <1>15
  <2> QED
    BY <2>1, <2>2, <2>3, <1>18, <1>20
<1>21. ASSUME NEW m \in 1..Len(bs), NEW k \in 1..Count(q)
       PROVE  Apart(bs[m], BlockSize(q, bs[m]), q.pointers[k], At(q, k).size)
  <2> DEFINE j == src(k)
             x == p.pointers[j]
             y == At(p, j).size
  <2>1. k \in 1..N - 1
    BY <1>6
  <2>2. j \in 1..N /\ j # i /\ q.pointers[k] = x /\ At(q, k).size = y
    BY <2>1, <1>7, <1>12
  <2>3. CASE bs[m] = a
    <3>1. x \in Nat /\ y \in Nat /\ ((x + y <= a /\ x < a) \/ (a + z <= x /\ a < x))
      BY <2>2, <1>1, CellsApart, CellHeld
    <3>2. a < x => e <= x
      BY <2>2, <1>1, CellEnd
    <3>3. x \in Nat /\ y \in Nat
      BY <2>2, <1>1, CellHeld
    <3> HIDE DEF x, y, a, z, e
    <3>4. Apart(a, n, x, y)
      BY <3>1, <3>2, <3>3, <1>3, <1>5 DEF Apart
    <3> QED
      BY <3>4, <2>2, <2>3, <1>16
  <2>4. CASE m - 1 \in 1..L /\ bs[m] = bl[m - 1]
    <3> DEFINE l == m - 1
    <3>1. l \in 1..L /\ bs[m] = bl[l]
      BY <2>4
    <3> HIDE DEF l
    <3>2. Apart(bl[l], BlockSize(p, bl[l]), x, y)
      BY <3>1, <2>2, <1>1 DEF BlocksHeld
    <3>3. BlockSize(q, bl[l]) = BlockSize(p, bl[l])
      BY <3>1, <1>15
    <3> QED
      BY <3>1, <3>2, <3>3, <2>2
  <2> QED
    BY <2>3, <2>4, <1>18
<1>22. BlocksHeld(q, bs)
  BY <1>17, <1>19, <1>20, <1>21 DEF BlocksHeld
<1>23. Removal(Cellsat(q), Cellsat(p), i)
  <2>1. Len(Cellsat(p)) = N /\ Len(Cellsat(q)) = N - 1
    BY <1>2, <1>6 DEF Cellsat
  <2>2. ASSUME NEW k \in 1..N - 1
        PROVE  Cellsat(q)[k] = IF k < i THEN Cellsat(p)[k] ELSE Cellsat(p)[k + 1]
    <3>1. Cellsat(q)[k] = At(q, k) /\ src(k) \in 1..N /\ src(k) = IF k < i THEN k ELSE k + 1
      BY <1>2, <1>6, <1>7 DEF Cellsat, src
    <3>2. Cellsat(p)[src(k)] = At(p, src(k))
      BY <3>1 DEF Cellsat
    <3> QED
      BY <3>1, <3>2, <1>12
  <2> QED
    BY <2>1, <2>2 DEF Removal
<1>24. Layout(q, bs)
  BY <1>6, <1>11, <1>13, <1>22 DEF Layout
<1> QED
  BY <1>23, <1>24 DEF q, bs

-----------------------------------------------------------------------------
(* Filling half of a split page                                             *)

(* x has no free blocks and, unless some of the first n cells of es were    *)
(* passed over or its last pointer lies over the content area, these cells, *)
(* stacked.                                                                 *)
Packed(x, es, n) ==
  /\ x \in PageType /\ x.first = 0 /\ 1 <= x.content /\ HeaderSize + Count(x) <= x.content + 1
  /\ Descends(x) /\ PointersKept(x)
  /\ Count(x) <= n /\ (Count(x) = n /\ ~Tight(x) => Carries(x, es))

(* Without free blocks none fits.                                           *)
LEMMA NothingFits ==
  ASSUME NEW p \in PageType, p.first = 0, NEW z
  PROVE  FirstFit(p, z) = {}
<1> DEFINE bl == << >>
<1>1. Linked(p, bl) /\ Len(bl) = 0
  BY DEF Linked
<1>2. \A m, n \in 1..Len(bl) : m # n => bl[m] # bl[n]
  BY <1>1
<1> HIDE DEF bl
<1>3. \A n \in 1..PageSize : Block(p)[n] = 0
  <2>1. \A n \in 1..PageSize : Block(p)[n] = IF n <= Len(bl) THEN bl[n] ELSE 0
    BY <1>1, <1>2, LinkedBlocks
  <2> QED
    BY <2>1, <1>1, Sizes
<1>4. DOMAIN Block(p) = 1..PageSize
  BY BlockValues
<1> QED
  BY <1>3, <1>4 DEF FirstFit

(* On a packed page an entry is put under the others, or is passed over.    *)
LEMMA PackedInsert ==
  ASSUME NEW x, NEW es, NEW n, Packed(x, es, n), NEW s \in Seq(UnitValue), 2 <= Len(s)
  PROVE  LET q == InsertCell(x, Count(x) + 1, s).page
         IN  \/ q = x
             \/ /\ q = WritePointers(Place(x, s))
                /\ HeaderSize + Count(x) + Len(s) <= x.content
<1> DEFINE N == Count(x)
           z == Len(s)
           r == InsertCell(x, N + 1, s)
           a == AllocateSpace(x, z)
<1>1. /\ x \in PageType /\ x.first = 0 /\ 1 <= x.content /\ HeaderSize + N <= x.content + 1
      /\ Descends(x) /\ PointersKept(x)
  BY DEF Packed
<1>2. N \in Nat /\ x.content \in Nat /\ x.content <= PageSize /\ z \in Nat /\ x.pointers \in Seq(Units)
      /\ N = Len(x.pointers)
  BY <1>1, Fields, Sizes
<1>3. ~NeedsDefrag(x)
  BY <1>1, <1>2, Fields DEF NeedsDefrag
<1>4. Defragment(x) = x
  BY <1>1, DefragmentPacked
<1>5. FirstFit(x, z) = {}
  BY <1>1, NothingFits
<1>6. a = IF Below(x, z) THEN Grow(x, z) ELSE [at |-> 0, page |-> x]
  BY <1>4, <1>5 DEF AllocateSpace
<1>7. CASE ~Below(x, z)
  <2>1. a = [at |-> 0, page |-> x]
    BY <1>6, <1>7
  <2>2. r = a
    BY <2>1, <1>3 DEF InsertCell
  <2> QED
    BY <2>1, <2>2
<1>8. CASE Below(x, z)
  <2> DEFINE at == x.content - z
             g == [x EXCEPT !.content = at]
             q == Put(g, N + 1, at, s)
             w == WritePointers(Place(x, s))
  <2>1. HeaderSize + N <= at /\ at # 0 /\ at \in Nat /\ at < x.content /\ at + z = x.content
    BY <1>2, <1>8, Sizes DEF Below, PointerOffset
  <2>2. a.at = at /\ a.page = g
    BY <1>1, <1>6, <1>8 DEF Grow
  <2>3. r.page = q
    BY <2>1, <2>2, <1>3 DEF InsertCell, Put
  <2>4. at \in Units /\ at \in 0..PageSize
    BY <2>1, <1>2, Sizes
  <2>5. g \in PageType /\ g.content = at /\ g.pointers = x.pointers /\ g.raw = x.raw /\ g.first = x.first
    BY <2>4, <1>1 DEF PageType
  <2>6. Count(g) = N
    BY <2>5 DEF Count
  <2>7. InsertAt(x.pointers, N + 1, at) = Append(x.pointers, at)
    <3> DEFINE ptrs == x.pointers
               l == InsertAt(ptrs, N + 1, at)
               o == Append(ptrs, at)
    <3>0. ptrs \in Seq(Units) /\ N = Len(ptrs)
      BY <1>2
    <3> HIDE DEF ptrs, at
    <3>1. l \in Seq(Units) /\ Insertion(l, ptrs, N + 1, at)
      <4>1. N + 1 \in 1..Len(ptrs) + 1
        BY <3>0
      <4> QED
        BY <3>0, <4>1, <2>4, InsertedAt
    <3>2. o \in Seq(Units) /\ Len(o) = N + 1 /\ o[N + 1] = at /\ \A k \in 1..N : o[k] = ptrs[k]
      BY <3>0, <2>4
    <3> HIDE DEF l, o
    <3>3. Len(l) = N + 1 /\ \A k \in 1..N + 1 : l[k] = o[k]
      BY <3>0, <3>1, <3>2 DEF Insertion
    <3>4. l = o
      BY <3>1, <3>2, <3>3, SeqEqual
    <3> QED
      BY <3>4 DEF l, o, ptrs
  <2> DEFINE og == Overwrite(g, at, s)
             ox == Overwrite(x, at, s)
             yg == [og EXCEPT !.pointers = InsertAt(og.pointers, N + 1, at)]
             yx == [ox EXCEPT !.content = ox.content - z, !.pointers = Append(ox.pointers, at)]
  <2>8. at \in Int
    BY <2>1
  <2>9. /\ og \in PageType /\ og.pointers = x.pointers /\ og.content = at /\ og.first = x.first
        /\ \A u \in Units : og.raw[u] = IF at <= u /\ u < at + Len(s) THEN s[u - at + 1] ELSE x.raw[u]
    <3> HIDE DEF at, g
    <3>1. /\ og \in PageType /\ og.pointers = g.pointers /\ og.content = g.content /\ og.first = g.first
          /\ \A u \in Units : og.raw[u] = IF at <= u /\ u < at + Len(s) THEN s[u - at + 1] ELSE g.raw[u]
      BY <2>5, <2>8, Overwritten
    <3> QED
      BY <3>1, <2>5
  <2>10. /\ ox \in PageType /\ ox.pointers = x.pointers /\ ox.content = x.content /\ ox.first = x.first
         /\ \A u \in Units : ox.raw[u] = IF at <= u /\ u < at + Len(s) THEN s[u - at + 1] ELSE x.raw[u]
    <3> HIDE DEF at
    <3> QED
      BY <1>1, <2>8, Overwritten
  <2>11. w = WritePointers(yx) /\ q = WritePointers(yg)
    BY DEF Place, Put
  <2>12. yx = yg
    <3> HIDE DEF og, ox
    <3>1. og.raw = ox.raw /\ og.fragments = ox.fragments
      <4>1. \A u \in Units : og.raw[u] = ox.raw[u]
        BY <2>9, <2>10
      <4>2. og.raw \in [Units -> UnitValue] /\ ox.raw \in [Units -> UnitValue] /\ og.fragments = 0 /\ ox.fragments = 0
        BY <2>9, <2>10, Fields
      <4> QED
        BY <4>1, <4>2
    <3>2. yx = [ox EXCEPT !.content = at, !.pointers = Append(x.pointers, at)]
      BY <2>10
    <3>3. yg = [og EXCEPT !.content = at, !.pointers = Append(x.pointers, at)]
      <4>1. yg = [og EXCEPT !.pointers = Append(x.pointers, at)]
        BY <2>7, <2>9
      <4>2. og = [og EXCEPT !.content = at]
        BY <2>9 DEF PageType
      <4> QED
        BY <4>1, <4>2
    <3> DEFINE ptrs == Append(x.pointers, at)
    <3>4. ox \in PageType /\ og \in PageType /\ og.first = ox.first
      BY <2>9, <2>10
    <3>5. yx = [ox EXCEPT !.content = at, !.pointers = ptrs] /\ yg = [og EXCEPT !.content = at, !.pointers = ptrs]
      BY <3>2, <3>3
    <3> HIDE DEF yx, yg, at, ptrs
    <3>6. [ox EXCEPT !.content = at, !.pointers = ptrs] = [og EXCEPT !.content = at, !.pointers = ptrs]
      BY <3>1, <3>4 DEF PageType
    <3> QED
      BY <3>5, <3>6
  <2>13. HeaderSize + N + z <= x.content
    BY <2>1, <1>2, Sizes
  <2> HIDE DEF q, w, yx, yg, at
  <2> QED
    BY <2>3, <2>11, <2>12, <2>13 DEF w
<1> QED
  BY <1>7, <1>8

(* A page that is packed stays so as it is filled with the next entry.      *)
LEMMA PackedStep ==
  ASSUME NEW x, NEW es, NEW n \in Nat, 1 <= n, Packed(x, es, n - 1),
         es[n] \in Seq(UnitValue), 2 <= Len(es[n])
  PROVE  Packed(InsertCell(x, Count(x) + 1, es[n]).page, es, n)
<1> DEFINE N == Count(x)
           s == es[n]
           q == InsertCell(x, N + 1, s).page
           y == Place(x, s)
           a == x.content - Len(s)
<1>1. /\ x \in PageType /\ x.first = 0 /\ 1 <= x.content /\ HeaderSize + N <= x.content + 1
      /\ Descends(x) /\ PointersKept(x)
      /\ N <= n - 1 /\ (N = n - 1 /\ ~Tight(x) => Carries(x, es))
  BY DEF Packed
<1>2. N \in Nat /\ x.content \in Nat /\ x.content <= PageSize
  BY <1>1, Fields, Sizes
<1>3. s \in Seq(UnitValue) /\ Len(s) \in Nat /\ 2 <= Len(s)
  OBVIOUS
<1>4. \/ q = x
      \/ q = WritePointers(y) /\ HeaderSize + N + Len(s) <= x.content
  <2>1. Packed(x, es, n - 1) /\ s \in Seq(UnitValue) /\ 2 <= Len(s)
    BY <1>3
  <2> HIDE DEF s
  <2> QED
    BY <2>1, PackedInsert
<1>5. CASE q = x
  <2>1. N <= n /\ N # n
    BY <1>1, <1>2
  <2> HIDE DEF q
  <2> QED
    BY <2>1, <1>1, <1>5 DEF Packed, q, s
<1>6. CASE q = WritePointers(y) /\ HeaderSize + N + Len(s) <= x.content
  <2> HIDE DEF q, s
  <2>1. Len(s) < x.content /\ a \in Nat /\ HeaderSize + N <= a /\ a < x.content /\ 1 <= Len(s) /\ 1 <= a
    BY <1>2, <1>3, <1>6, Sizes
  <2>2. /\ y \in PageType /\ y.content = a /\ y.first = 0 /\ Count(y) = N + 1
        /\ y.pointers[N + 1] = a /\ \A i \in 1..N : y.pointers[i] = x.pointers[i]
    <3>1. /\ y \in PageType /\ y.content = a /\ y.first = x.first /\ Count(y) = N + 1
          /\ y.pointers[Count(y)] = a /\ \A i \in 1..N : y.pointers[i] = x.pointers[i]
      BY <1>1, <1>3, <2>1, Placed
    <3> HIDE DEF y, a
    <3> QED
      BY <3>1, <1>1
  <2>3. Descends(y)
    <3> HIDE DEF y, a
    <3>1. \A i \in 1..N + 1 : Above(y, i) = Above(x, i)
      <4> SUFFICES ASSUME NEW i \in 1..N + 1, i # 1 PROVE y.pointers[i - 1] = x.pointers[i - 1]
        BY DEF Above
      <4>1. i - 1 \in 1..N
        BY <1>2
      <4> QED
        BY <4>1, <2>2
    <3>2. ASSUME NEW i \in 1..N + 1 PROVE y.pointers[i] < Above(y, i)
      <4>1. CASE i = N + 1
        <5>1. Above(x, N + 1) = x.content
          BY <1>1 DEF Descends
        <5> QED
          BY <4>1, <5>1, <3>1, <2>1, <2>2
      <4>2. CASE i # N + 1
        <5>1. i \in 1..N
          BY <4>2, <1>2
        <5>2. x.pointers[i] < Above(x, i)
          BY <5>1, <1>1 DEF Descends
        <5> QED
          BY <5>1, <5>2, <3>1, <2>2
      <4> QED
        BY <4>1, <4>2
    <3>3. y.content = Above(y, N + 1 + 1)
      <4>1. N + 1 + 1 # 1 /\ (N + 1 + 1) - 1 = N + 1
        BY <1>2
      <4> QED
        BY <4>1, <2>2 DEF Above
    <3> QED
      BY <3>2, <3>3, <2>2 DEF Descends
  <2>4. HeaderSize + Count(y) <= PageSize /\ HeaderSize + Count(y) <= a + 1
    <3> HIDE DEF y, a
    <3> QED
      BY <1>2, <2>1, <2>2, Sizes, SMTT(20)
  <2>5. /\ q \in PageType /\ Count(q) = N + 1 /\ q.content = a /\ q.first = 0
        /\ Descends(q) /\ PointersKept(q)
        /\ HeaderSize + N + 1 <= a => \A ls : Carries(y, ls) => Carries(q, ls)
    <3> DEFINE w == WritePointers(y)
    <3>1. /\ w \in PageType /\ Count(w) = Count(y)
          /\ w.content = y.content /\ w.first = y.first
          /\ Descends(w) /\ PointersKept(w)
          /\ HeaderSize + Count(y) <= y.content => \A ls : Carries(y, ls) => Carries(w, ls)
      BY <2>2, <2>3, <2>4, StackWritten
    <3>2. HeaderSize + Count(y) = HeaderSize + N + 1
      BY <2>2, <1>2, Sizes
    <3>3. q = w
      BY <1>6
    <3> HIDE DEF y, a, w
    <3> QED
      BY <3>1, <3>2, <3>3, <2>2
  <2>6. ASSUME Count(q) = n, ~Tight(q) PROVE Carries(q, es)
    <3>1. N = n - 1 /\ HeaderSize + N + 1 <= a
      <4> HIDE DEF a
      <4> QED
        BY <2>1, <2>5, <2>6, <1>2, Sizes DEF Tight, PointerOffset
    <3>2. ~Tight(x)
      <4> HIDE DEF a
      <4> QED
        BY <2>1, <1>2, Sizes DEF Tight, PointerOffset
    <3>3. Carries(x, es)
      BY <3>1, <3>2, <1>1
    <3>4. s = es[Count(x) + 1]
      BY <3>1, <1>2 DEF s
    <3>5. Carries(y, es)
      BY <3>3, <3>4, <1>1, <1>3, <2>1, StackOn
    <3> QED
      BY <3>1, <3>5, <2>5
  <2>7. N + 1 <= n
    BY <1>1, <1>2
  <2> HIDE DEF y, a
  <2>8. 1 <= q.content /\ HeaderSize + Count(q) <= q.content + 1
    BY <2>1, <2>2, <2>4, <2>5
  <2> QED
    BY <2>5, <2>6, <2>7, <2>8 DEF Packed, q, s
<1> QED
  BY <1>4, <1>5, <1>6

(* A page as Fill has it after n entries is in S[n].                        *)
Fills(x, es, S) ==
  /\ Len(es) \in Nat /\ x \in S[0]
  /\ \A n \in 1..Len(es) : \A y \in S[n - 1] : InsertCell(y, Count(y) + 1, es[n]).page \in S[n]

(* Filling a page leads through the sets that its steps lead through.       *)
LEMMA Filling ==
  ASSUME NEW x, NEW es, NEW S, Fills(x, es, S)
  PROVE  Fill(x, es) \in S[Len(es)]
<1> DEFINE N == Len(es)
           next(y, n) == InsertCell(y, Count(y) + 1, es[n]).page
           step(f) == [n \in 0..N |-> IF n = 0 THEN x ELSE next(f[n - 1], n)]
           filled == CHOOSE f : f = step(f)
           g == [n \in 1..N |-> [y \in S[n - 1] |-> next(y, n)]]
           H == {n \in 0..N : filled[n] \in S[n]}
<1>1. N \in Nat /\ x \in S[0] /\ \A n \in 1..N : \A y \in S[n - 1] : next(y, n) \in S[n]
  BY DEF Fills
<1>2. Fill(x, es) = filled[N]
  BY DEF Fill
<1> HIDE DEF next, N
<1>3. \E f : f = step(f)
  <2>0. PICK f : Follows(f, N, S, x, g)
    <3>1. \A n \in 1..N : \A y \in S[n - 1] : g[n][y] \in S[n]
      BY <1>1
    <3>2. Stepwise(N, S, x, g)
      BY <1>1, <3>1 DEF Stepwise
    <3> QED
      BY <3>2, Recursion
  <2>1. /\ f[0] = x
        /\ \A n \in 1..N : f[n] = g[n][f[n - 1]]
        /\ \A n \in 0..N : f[n] \in S[n]
    BY <2>0 DEF Follows
  <2>2. \A n \in 1..N : g[n][f[n - 1]] = next(f[n - 1], n)
    <3> SUFFICES ASSUME NEW n \in 1..N PROVE g[n][f[n - 1]] = next(f[n - 1], n)
      OBVIOUS
    <3>1. n - 1 \in 0..N
      BY <1>1
    <3>2. f[n - 1] \in S[n - 1]
      BY <2>1, <3>1
    <3> QED
      BY <3>2
  <2>3. \A n \in 0..N : f[n] = IF n = 0 THEN x ELSE next(f[n - 1], n)
    <3> HIDE DEF g
    <3>1. \A n \in 0..N : n # 0 => n \in 1..N
      BY <1>1
    <3> QED
      BY <2>1, <2>2, <3>1
  <2> DEFINE h == [n \in 0..N |-> f[n]]
  <2>4. h = step(h)
    <3> HIDE DEF g
    <3>1. \A n \in 0..N : n # 0 => n - 1 \in 0..N
      BY <1>1
    <3> QED
      BY <2>3, <3>1
  <2> QED
    BY <2>4
<1> DEFINE t == step(filled)
<1>4. filled = t
  <2> HIDE DEF step
  <2> QED
    BY <1>3
<1>5. \A n \in 0..N : t[n] = IF n = 0 THEN x ELSE next(filled[n - 1], n)
  OBVIOUS
<1> HIDE DEF t, filled
<1>6. 0..N \subseteq H
  <2>1. 0 \in H
    BY <1>1, <1>4, <1>5
  <2>2. ASSUME NEW n \in 1..N, n - 1 \in H PROVE n \in H
    <3>1. n \in 0..N /\ n # 0 /\ n - 1 \in 0..N
      BY <1>1
    <3>2. filled[n] = next(filled[n - 1], n)
      BY <3>1, <1>4, <1>5
    <3> QED
      BY <2>2, <3>1, <3>2, <1>1
  <2> HIDE DEF H
  <2> QED
    BY <1>1, <2>1, <2>2, Induction
<1>7. filled[N] \in S[N]
  <2>1. N \in 0..N
    BY <1>1
  <2> QED
    BY <2>1, <1>6
<1> QED
  BY <1>2, <1>7 DEF N

(* None of the entries is shorter than the header of a free block.          *)
NoneShort(es) ==
  Len(es) \in Nat /\ \A i \in 1..Len(es) : es[i] \in Seq(UnitValue) /\ 2 <= Len(es[i])

(* A page without free blocks, filled, is packed.                           *)
LEMMA FillPacks ==
  ASSUME NEW x \in PageType, x.first = 0, Count(x) = 0, x.content = PageSize, NEW es, NoneShort(es)
  PROVE  Packed(Fill(x, es), es, Len(es))
<1> DEFINE N == Len(es)
           S == [n \in 0..N |-> {y \in PageType : Packed(y, es, n)}]
           q == Fill(x, es)
<1>1. N \in Nat
  BY DEF NoneShort
<1>2. Packed(x, es, 0)
  <2>1. Descends(x) /\ PointersKept(x) /\ Carries(x, es)
    <3>1. Above(x, 0 + 1) = PageSize
      BY DEF Above
    <3> QED
      BY <3>1 DEF Descends, PointersKept, Carries
  <2>2. 1 <= PageSize /\ HeaderSize + 0 <= PageSize + 1
    BY Sizes
  <2> QED
    BY <2>1, <2>2 DEF Packed
<1>3. ASSUME NEW n \in 1..N, NEW y \in S[n - 1]
      PROVE  InsertCell(y, Count(y) + 1, es[n]).page \in S[n]
  <2> DEFINE v == InsertCell(y, Count(y) + 1, es[n]).page
  <2>1. n \in Nat /\ 1 <= n /\ n - 1 \in 0..N /\ n \in 0..N
    BY <1>1
  <2>2. Packed(y, es, n - 1)
    BY <2>1
  <2>3. es[n] \in Seq(UnitValue) /\ 2 <= Len(es[n])
    BY DEF NoneShort
  <2>4. Packed(v, es, n)
    BY <2>1, <2>2, <2>3, PackedStep
  <2> HIDE DEF v
  <2>5. v \in PageType
    BY <2>4 DEF Packed
  <2> QED
    BY <2>1, <2>4, <2>5 DEF v
<1>4. q \in S[N]
  <2>1. x \in S[0]
    BY <1>1, <1>2
  <2> HIDE DEF S
  <2>2. Fills(x, es, S)
    BY <1>1, <1>3, <2>1 DEF Fills
  <2> QED
    BY <2>2, Filling
<1>5. Packed(q, es, N)
  <2>1. N \in 0..N
    BY <1>1
  <2> HIDE DEF q, N
  <2> QED
    BY <1>4, <2>1
<1> QED
  BY <1>5

(* So nothing was passed over and no pointer lies over a cell, or the page  *)
(* is damaged.                                                              *)
LEMMA FilledPacked ==
  ASSUME NEW x \in PageType, x.first = 0, Count(x) = 0, x.content = PageSize,
         NEW es, Len(es) \in Nat, NEW cs, \A i \in 1..Len(es) : Begins(es[i], cs[i])
  PROVE  LET q == Fill(x, es)
         IN  /\ q \in PageType /\ q.first = 0 /\ Count(q) <= Len(es)
             /\ Count(q) = Len(es) /\ ~Tight(q) =>
                  Layout(q, << >>) /\ \A i \in 1..Count(q) : At(q, i) = cs[i]
<1> DEFINE N == Len(es)
           q == Fill(x, es)
<1>1. Packed(q, es, N)
  <2>1. NoneShort(es)
    BY CellRead DEF Begins, NoneShort
  <2> QED
    BY <2>1, FillPacks
<1> HIDE DEF q
<1>2. q \in PageType /\ q.first = 0 /\ Count(q) <= N /\ Descends(q) /\ PointersKept(q)
      /\ (Count(q) = N /\ ~Tight(q) => Carries(q, es))
  BY <1>1 DEF Packed
<1>3. ASSUME Count(q) = N, ~Tight(q)
      PROVE  Layout(q, << >>) /\ \A i \in 1..Count(q) : At(q, i) = cs[i]
  <2>1. PointersHeld(q)
    <3>1. Count(q) \in Nat /\ q.content \in Nat
      BY <1>2, Fields, Sizes
    <3>2. HeaderSize + Count(q) <= q.content
      BY <3>1, <1>3, Sizes DEF Tight, PointerOffset
    <3> QED
      BY <3>2, <1>2 DEF PointersHeld, PointersKept
  <2>2. \A i \in 1..Count(q) : Begins(es[i], cs[i])
    BY <1>3
  <2> QED
    BY <2>1, <2>2, <1>2, <1>3, StackedLayout
<1> QED
  BY <1>2, <1>3 DEF q

(* A page that keeps its list of free blocks and is filled with its own     *)
(* first cells always has room for the next one before its content area,    *)
(* and so stays a page, whatever its free blocks have become.               *)
Refilled(p, y, n) ==
  y \in PageType /\ Count(y) = n /\ PageSize - Cardinality(Covered(p, n)) <= y.content

(* One step of such a filling.                                              *)
LEMMA RefilledStep ==
  ASSUME NEW p \in PageType, Distinct(p), PointersHeld(p), CellsHeld(p),
         NEW n \in 1..Count(p), NEW y, Refilled(p, y, n - 1)
  PROVE  Refilled(p, InsertCell(y, Count(y) + 1, Entries(p)[n]).page, n)
<1> DEFINE s == Entries(p)[n]
           z == Len(s)
           i == Count(y) + 1
           r == InsertCell(y, i, s)
           a == AllocateSpace(y, z)
           C(k) == Cardinality(Covered(p, k))
           lo == p.content
<1>1. /\ y \in PageType /\ Count(y) = n - 1 /\ PageSize - C(n - 1) <= y.content
      /\ y.content \in Nat /\ y.content <= PageSize
  BY Fields, Sizes DEF Refilled
<1>2. /\ Count(p) \in Nat /\ n \in Nat /\ 1 <= n /\ n <= Count(p) /\ n - 1 \in 0..Count(p) /\ n \in 0..Count(p)
      /\ lo \in Nat /\ lo <= PageSize /\ HeaderSize + Count(p) <= lo
  BY Fields, Sizes DEF PointersHeld
<1>3. s \in Seq(UnitValue) /\ z = FindCellEnd(p, n) - p.pointers[n]
  BY CellReadRaw
<1>4. z \in Nat /\ 2 <= z
  <2>1. At(p, n).size \in Nat /\ 2 <= At(p, n).size /\ p.pointers[n] \in Nat /\ FindCellEnd(p, n) \in Nat
        /\ p.pointers[n] + At(p, n).size <= FindCellEnd(p, n)
    BY CellHeld
  <2> HIDE DEF z
  <2> QED
    BY <2>1, <1>3
<1>5. /\ C(n) \in Nat /\ C(n - 1) \in Nat /\ C(n) <= PageSize - lo
      /\ C(n) = C(n - 1) + z
  <2>1. \A k \in 1..Count(p) : lo <= p.pointers[k]
    BY CellHeld
  <2>2. /\ \A k \in 0..Count(p) : C(k) \in Nat /\ C(k) <= PageSize - lo
        /\ \A k \in 1..Count(p) : C(k) = C(k - 1) + (FindCellEnd(p, k) - p.pointers[k])
    BY <2>1, <1>2, CoveredCount
  <2> HIDE DEF C, z
  <2> QED
    BY <2>2, <1>2, <1>3
<1> HIDE DEF s, z, C
<1>6. Below(y, z)
  <2>1. y.content - z >= HeaderSize + Count(y)
    BY <1>1, <1>2, <1>4, <1>5, Sizes, SMTT(20)
  <2> QED
    BY <2>1 DEF Below, PointerOffset
<1>7. ~NeedsDefrag(y)
  BY <1>1, Fields DEF NeedsDefrag
<1>8. /\ a.at # 0 /\ a.at \in Units /\ a.page \in PageType /\ Count(a.page) = Count(y)
      /\ y.content - z <= a.page.content
  <2> DEFINE T == FirstFit(y, z)
  <2>1. CASE T # {}
    <3> DEFINE m == Min(T)
               f == FreeblockAlloc(y, z, m)
    <3>1. T \in SUBSET Nat
      <4>1. DOMAIN Block(y) = 1..PageSize
        BY <1>1, BlockValues
      <4>2. T \subseteq DOMAIN Block(y)
        BY DEF FirstFit
      <4> QED
        BY <4>1, <4>2, Sizes
    <3>2. \E l \in T : \A k \in T : l <= k
      <4> HIDE DEF T
      <4> QED
        BY <2>1, <3>1, Least
    <3>3. m \in T
      BY <3>2 DEF Min
    <3>4. a = f
      BY <2>1 DEF AllocateSpace
    <3> HIDE DEF m
    <3>5. Block(y)[m] \in Units /\ Block(y)[m] # 0
      BY <3>3, <1>1, <1>4, FirstFits
    <3>6. f.at = Block(y)[m] /\ f.page \in PageType /\ f.page.pointers = y.pointers /\ f.page.content = y.content
      BY <3>3, <1>1, <1>4, Allocation
    <3> HIDE DEF a, f
    <3> QED
      BY <3>4, <3>5, <3>6, <1>1, <1>4 DEF Count
  <2>2. CASE T = {}
    <3> DEFINE at == y.content - z
               g == [y EXCEPT !.content = at]
    <3>1. a = [at |-> at, page |-> g]
      BY <2>2, <1>6 DEF AllocateSpace, Grow
    <3>2. at \in 0..PageSize /\ at # 0 /\ at \in Units
      <4>1. HeaderSize + Count(y) <= at
        BY <1>6 DEF Below, PointerOffset
      <4>2. Count(y) \in Nat
        BY <1>1, <1>2
      <4>3. at \in Int /\ at <= y.content
        BY <1>1, <1>4
      <4>4. z \in Nat /\ 2 <= z /\ y.content \in Nat /\ y.content <= PageSize /\ at = y.content - z
        BY <1>1, <1>4
      <4> HIDE DEF at, z
      <4>5. 1 <= at /\ at < PageSize
        BY <4>1, <4>2, <4>3, <4>4, Sizes
      <4> QED
        BY <4>3, <4>5, Sizes
    <3> HIDE DEF at
    <3>3. g \in PageType /\ g.content = at /\ g.pointers = y.pointers
      BY <3>2, <1>1 DEF PageType
    <3>4. Count(g) = Count(y) /\ y.content - z <= at
      BY <3>3, <1>1, <1>4 DEF Count, at
    <3> HIDE DEF a, g
    <3> QED
      BY <3>1, <3>2, <3>3, <3>4 DEF at
  <2> QED
    BY <2>1, <2>2
<1> DEFINE g == a.page
           at == a.at
           q == Put(g, i, at, s)
<1>9. r.page = q
  BY <1>7, <1>8 DEF InsertCell, Put, z
<1>10. i \in 1..Count(g) + 1
  BY <1>1, <1>2, <1>8
<1> HIDE DEF a, r
<1>11. g \in PageType /\ at \in Units
  BY <1>8
<1>12. q \in PageType /\ q.content = g.content /\ Count(q) = Count(g) + 1
  <2> HIDE DEF g, at, i
  <2> QED
    BY <1>3, <1>10, <1>11, PutPage
<1>13. g.content \in Nat /\ Count(q) = n
  BY <1>1, <1>2, <1>8, <1>12, Fields, Sizes
<1> HIDE DEF q
<1>14. PageSize - C(n) <= q.content
  <2> DEFINE cn == C(n)
             cm == C(n - 1)
             yc == y.content
             gc == g.content
  <2>1. cn \in Nat /\ cm \in Nat /\ cn = cm + z
    BY <1>5
  <2>2. yc \in Nat /\ gc \in Nat
    BY <1>1, <1>13
  <2>3. PageSize - cm <= yc
    BY <1>1
  <2>4. yc - z <= gc
    BY <1>8
  <2>5. q.content = gc
    BY <1>12
  <2> HIDE DEF cn, cm, yc, gc, g
  <2>6. PageSize - cn <= gc
    BY <2>1, <2>2, <2>3, <2>4, <1>4, Sizes
  <2> QED
    BY <2>5, <2>6 DEF cn
<1> QED
  BY <1>9, <1>12, <1>13, <1>14 DEF Refilled, r, i, s, C

(* The lower half of a sequence.                                            *)
LEMMA Halved ==
  ASSUME NEW S, NEW s \in Seq(S), NEW h, h = Len(s) \div 2
  PROVE  /\ h \in Nat /\ h <= Len(s)
         /\ SubSeq(s, 1, h) \in Seq(S) /\ Len(SubSeq(s, 1, h)) = h
         /\ \A k \in 1..h : SubSeq(s, 1, h)[k] = s[k] /\ k \in 1..Len(s)
<1>1. Len(s) \in Nat
  OBVIOUS
<1>2. h \in Nat /\ h <= Len(s)
  BY <1>1
<1> QED
  BY <1>1, <1>2

(* Filled with the lower half of its own cells, a page stays a page.        *)
LEMMA RefilledPage ==
  ASSUME NEW p, NEW bl, Layout(p, bl)
  PROVE  Fill(Bare(p), LowerHalf(Entries(p))) \in PageType
<1> DEFINE N == Count(p)
           es == LowerHalf(Entries(p))
           h == N \div 2
           S == [n \in 0..h |-> {y \in PageType : Refilled(p, y, n)}]
           q == Fill(Bare(p), es)
<1>1. p \in PageType /\ PointersHeld(p) /\ CellsHeld(p)
  BY DEF Layout
<1>2. N \in Nat /\ Entries(p) \in Seq(Seq(UnitValue)) /\ Len(Entries(p)) = N
  <2>1. N \in Nat /\ DOMAIN p.pointers = 1..N
    BY <1>1, Fields
  <2>2. Entries(p) = [i \in 1..N |-> ReadCell(p, i)]
    BY <2>1 DEF Entries
  <2>3. \A i \in 1..N : ReadCell(p, i) \in Seq(UnitValue)
    BY <1>1, CellReadRaw
  <2> HIDE DEF N
  <2> QED
    BY <2>1, <2>2, <2>3
<1>3. h \in Nat /\ h <= N /\ Len(es) = h /\ \A k \in 1..h : es[k] = Entries(p)[k]
  <2> DEFINE a == Entries(p)
  <2>1. a \in Seq(Seq(UnitValue)) /\ h = Len(a) \div 2 /\ es = SubSeq(a, 1, h)
    BY <1>2 DEF LowerHalf
  <2> HIDE DEF a, h, es
  <2>2. /\ h \in Nat /\ h <= Len(a) /\ Len(SubSeq(a, 1, h)) = h
        /\ \A k \in 1..h : SubSeq(a, 1, h)[k] = a[k]
    BY <2>1, Halved
  <2> QED
    BY <2>1, <2>2, <1>2 DEF a
<1>4. Distinct(p)
  <2> SUFFICES ASSUME NEW i \in 1..N, NEW j \in 1..N, i # j PROVE p.pointers[i] # p.pointers[j]
    BY DEF Distinct
  <2>1. p.pointers[i] < p.pointers[j] \/ p.pointers[j] < p.pointers[i]
    BY <1>1, CellsApart
  <2>2. p.pointers[i] \in Nat /\ p.pointers[j] \in Nat
    BY <1>1, CellHeld
  <2> QED
    BY <2>1, <2>2
<1> HIDE DEF h, es
<1>5. Refilled(p, Bare(p), 0)
  <2>1. Bare(p) \in PageType /\ Count(Bare(p)) = 0 /\ Bare(p).content = PageSize
    BY <1>1, BareMoved
  <2>2. Cardinality(Covered(p, 0)) = 0
    <3>1. \A i \in 1..Count(p) : p.content <= p.pointers[i]
      BY <1>1, CellHeld
    <3>2. p.content \in Nat /\ p.content <= PageSize
      BY <1>1, Fields, Sizes
    <3> QED
      BY <1>1, <1>4, <3>1, <3>2, CoveredCount
  <2> QED
    BY <2>1, <2>2, Sizes DEF Refilled
<1>6. ASSUME NEW n \in 1..h, NEW y \in S[n - 1]
      PROVE  InsertCell(y, Count(y) + 1, es[n]).page \in S[n]
  <2>1. n \in 1..Count(p) /\ n - 1 \in 0..h /\ n \in 0..h /\ es[n] = Entries(p)[n]
    BY <1>2, <1>3
  <2>2. Refilled(p, y, n - 1)
    BY <2>1
  <2> DEFINE v == InsertCell(y, Count(y) + 1, Entries(p)[n]).page
  <2>3. Refilled(p, v, n)
    BY <2>1, <2>2, <1>1, <1>4, RefilledStep
  <2> HIDE DEF v
  <2>4. v \in PageType
    BY <2>3 DEF Refilled
  <2> QED
    BY <2>1, <2>3, <2>4 DEF v
<1>7. q \in S[Len(es)]
  <2>1. Bare(p) \in S[0]
    BY <1>3, <1>5 DEF Refilled
  <2> HIDE DEF S
  <2>2. Fills(Bare(p), es, S)
    BY <1>3, <1>6, <2>1 DEF Fills
  <2> QED
    BY <2>2, Filling
<1>8. h \in 0..h
  BY <1>3
<1> HIDE DEF q
<1> QED
  BY <1>3, <1>7, <1>8 DEF q, es

(* A page without free blocks filled with the lower half of its cells is    *)
(* sound, unless a cell was passed over or the pointers have reached the    *)
(* content area.                                                            *)
LEMMA FilledHalf ==
  ASSUME NEW p \in PageType, p.first = 0, NEW es \in Seq(Seq(UnitValue)), NEW cs \in Seq(Cells),
         Len(es) = Len(cs), \A k \in 1..Len(es) : Begins(es[k], cs[k])
  PROVE  LET q == Fill(Bare(p), LowerHalf(es))
         IN  /\ q \in PageType /\ q.first \in Units
             /\ ~Tight(q) /\ ~(Count(q) < Len(LowerHalf(es))) =>
                  Layout(q, << >>) /\ Cellsat(q) = SubSeq(cs, 1, Len(cs) \div 2)
<1> DEFINE q == Fill(Bare(p), LowerHalf(es))
           ls == LowerHalf(es)
           h == Len(es) \div 2
           ds == SubSeq(cs, 1, h)
           x == Bare(p)
<1>1. x \in PageType /\ x.first = 0 /\ Count(x) = 0 /\ x.content = PageSize
  BY BareMoved
<1>2. h \in Nat /\ Len(ls) = h /\ \A k \in 1..h : ls[k] = es[k] /\ k \in 1..Len(es)
  <2>1. ls = SubSeq(es, 1, h) /\ h = Len(es) \div 2
    BY DEF LowerHalf
  <2> HIDE DEF h, ls
  <2>2. /\ h \in Nat /\ Len(SubSeq(es, 1, h)) = h
        /\ \A k \in 1..h : SubSeq(es, 1, h)[k] = es[k] /\ k \in 1..Len(es)
    BY <2>1, Halved
  <2> QED
    BY <2>1, <2>2
<1>3. ds \in Seq(Cells) /\ Len(ds) = h /\ \A k \in 1..h : ds[k] = cs[k]
  <2>1. h = Len(cs) \div 2
    OBVIOUS
  <2> HIDE DEF h
  <2>2. /\ SubSeq(cs, 1, h) \in Seq(Cells) /\ Len(SubSeq(cs, 1, h)) = h
        /\ \A k \in 1..h : SubSeq(cs, 1, h)[k] = cs[k]
    BY <2>1, Halved
  <2> QED
    BY <2>2
<1>4. \A k \in 1..Len(ls) : Begins(ls[k], ds[k])
  <2> HIDE DEF ls, ds, h
  <2> QED
    BY <1>2, <1>3
<1> HIDE DEF ls, x, ds
<1>5. LET v == Fill(x, ls)
      IN  /\ v \in PageType /\ v.first = 0 /\ Count(v) <= Len(ls)
          /\ Count(v) = Len(ls) /\ ~Tight(v) =>
               Layout(v, << >>) /\ \A i \in 1..Count(v) : At(v, i) = ds[i]
  <2>1. Len(ls) \in Nat
    BY <1>2
  <2> QED
    BY <2>1, <1>1, <1>4, FilledPacked
<1>6. q = Fill(x, ls)
  BY DEF x, ls
<1> HIDE DEF q, h
<1>7. q.first \in Units
  BY <1>5, <1>6, Sizes
<1>8. ASSUME ~Tight(q), ~(Count(q) < Len(ls)) PROVE Layout(q, << >>) /\ Cellsat(q) = ds
  <2>1. Count(q) = Len(ls)
    <3>1. Count(q) \in Nat
      BY <1>5, <1>6, Fields
    <3> QED
      BY <3>1, <1>2, <1>5, <1>6, <1>8
  <2>2. Layout(q, << >>) /\ \A i \in 1..h : At(q, i) = ds[i]
    BY <2>1, <1>2, <1>5, <1>6, <1>8
  <2>3. Cellsat(q) = [i \in 1..h |-> ds[i]]
    BY <2>1, <2>2, <1>2 DEF Cellsat
  <2>4. ds = [i \in 1..h |-> ds[i]]
    BY <1>3
  <2> QED
    BY <2>2, <2>3, <2>4
<1> QED
  BY <1>5, <1>6, <1>7, <1>8 DEF q, ls, ds, h

-----------------------------------------------------------------------------
(* The operations of a cursor                                               *)

(* There is one way to insert an element.                                   *)
LEMMA InsertionIs ==
  ASSUME NEW S, NEW s \in Seq(S), NEW x \in S, NEW i \in 1..Len(s) + 1, NEW r \in Seq(S),
         Insertion(r, s, i, x)
  PROVE  r = InsertAt(s, i, x)
<1> DEFINE t == InsertAt(s, i, x)
<1>1. t \in Seq(S) /\ Insertion(t, s, i, x)
  BY InsertedAt
<1> HIDE DEF t
<1>2. Len(r) = Len(t) /\ \A k \in 1..Len(r) : r[k] = t[k]
  BY <1>1 DEF Insertion
<1>3. r = t
  BY <1>1, <1>2, SeqEqual
<1> QED
  BY <1>3 DEF t

(* There is one way to take an element out.                                 *)
LEMMA RemovalIs ==
  ASSUME NEW S, NEW s \in Seq(S), NEW i \in 1..Len(s), NEW r \in Seq(S), Removal(r, s, i)
  PROVE  r = RemoveAt(s, i)
<1> DEFINE t == RemoveAt(s, i)
<1>1. t \in Seq(S) /\ Removal(t, s, i)
  BY RemovedAt
<1> HIDE DEF t
<1>2. Len(r) = Len(t) /\ \A k \in 1..Len(r) : r[k] = t[k]
  BY <1>1 DEF Removal
<1>3. r = t
  BY <1>1, <1>2, SeqEqual
<1> QED
  BY <1>3 DEF t

(* What a sound page holds.                                                 *)
LEMMA LaidCells ==
  ASSUME NEW p, NEW bl, Layout(p, bl)
  PROVE  /\ p \in PageType /\ CellsHeld(p) /\ PointersHeld(p) /\ Linked(p, bl) /\ p.first \in Units
         /\ Cellsat(p) \in Seq(Cells) /\ Len(Cellsat(p)) = Count(p) /\ Count(p) \in Nat
         /\ CellsOf(p) = Cellsat(p) /\ ~Tight(p)
<1>1. p \in PageType /\ CellsHeld(p) /\ PointersHeld(p) /\ Linked(p, bl)
  BY DEF Layout, BlocksHeld
<1>2. Count(p) \in Nat /\ p.content \in Nat
  BY <1>1, Fields, Sizes
<1>3. \A i \in 1..Count(p) : At(p, i) \in Cells
  BY <1>1 DEF CellsHeld
<1>4. Cellsat(p) \in Seq(Cells) /\ Len(Cellsat(p)) = Count(p)
  BY <1>2, <1>3 DEF Cellsat
<1>5. CellsOf(p) = Cellsat(p)
  BY <1>1, CellsRead
<1>6. ~Tight(p)
  BY <1>1, <1>2, Sizes DEF Tight, PointerOffset, PointersHeld
<1>7. p.first \in Units
  <2>1. Len(bl) \in Nat /\ (Len(bl) # 0 => bl[1] \in Units)
    BY <1>1 DEF Linked
  <2>2. 0 \in Units
    BY Sizes
  <2> QED
    BY <1>1, <2>1, <2>2 DEF Linked
<1> QED
  BY <1>1, <1>2, <1>4, <1>5, <1>6, <1>7

(* The place that insert looks up is one to insert at.                      *)
LEMMA IndexRange ==
  ASSUME NEW p \in PageType, NEW c
  PROVE  Index(p, c) \in 1..Count(p) + 1
<1> DEFINE N == Count(p)
           T == {i \in DOMAIN p.pointers : CellOf(ReadCell(p, i)).key < c.key}
<1>1. N \in Nat /\ DOMAIN p.pointers = 1..N
  BY Fields
<1>2. IsFiniteSet(1..N) /\ Cardinality(1..N) = N
  <2>1. 1 \in Int /\ N \in Int
    BY <1>1
  <2>2. IsFiniteSet(1..N) /\ Cardinality(1..N) = IF 1 > N THEN 0 ELSE N - 1 + 1
    BY <2>1, FS_Interval
  <2> HIDE DEF N
  <2> QED
    BY <1>1, <2>2
<1>3. T \subseteq 1..N
  BY <1>1
<1> HIDE DEF N, T
<1>4. Cardinality(T) \in Nat /\ Cardinality(T) <= N
  BY <1>2, <1>3, FS_Subset, FS_CardinalityType
<1>5. Index(p, c) = 1 + Cardinality(T)
  BY DEF Index, T
<1> QED
  BY <1>1, <1>4, <1>5 DEF N

(* A new page is sound and holds no cells.                                  *)
LEMMA EmptyPage ==
  Empty \in PageType /\ Layout(Empty, << >>) /\ CellsOf(Empty) = << >>
<1>1. /\ Empty.pointers = << >> /\ Empty.content = PageSize /\ Empty.first = 0
      /\ Empty.fragments = 0 /\ Empty.raw = [u \in Units |-> Word(0)]
  BY DEF Empty
<1>2. Word(0) \in UnitValue
  BY UnitValues
<1>3. [u \in Units |-> Word(0)] \in [Units -> UnitValue] /\ << >> \in Seq(Units) /\ PageSize \in 0..PageSize /\ 0 \in Nat
  BY <1>2, Sizes
<1>4. Empty \in PageType
  BY <1>3 DEF Empty, PageType
<1>5. Count(Empty) = 0
  BY <1>1 DEF Count
<1>6. PointersHeld(Empty) /\ CellsHeld(Empty)
  BY <1>1, <1>5, Sizes DEF PointersHeld, CellsHeld
<1>7. BlocksHeld(Empty, << >>)
  <2>1. << >> \in Seq(Units \ {0}) /\ Len(<< >>) = 0
    OBVIOUS
  <2> QED
    BY <1>1, <1>5, <2>1 DEF BlocksHeld, Linked
<1>8. CellsOf(Empty) = << >>
  <2>1. DOMAIN Empty.pointers = {}
    BY <1>1
  <2> QED
    BY <2>1 DEF CellsOf
<1> QED
  BY <1>4, <1>6, <1>7, <1>8 DEF Layout

(* The inductive invariant: the page is a page, and while it is intact its  *)
(* pointers, cells and free blocks are laid out in it.                      *)
LayoutInv ==
  /\ page \in PageType
  /\ damage # "free list kept" => page.first \in Units
  /\ Intact => \E bl : Layout(page, bl)

(* The cells cs become ds: one is inserted, and the upper half may go.      *)
InsertedOrSplit(cs, ds) ==
  \E c \in Cells, i \in 1..Len(cs) + 1 :
    \/ ds = InsertAt(cs, i, c)
    \/ ds = SubSeq(InsertAt(cs, i, c), 1, (Len(cs) + 1) \div 2)

(* Splitting: what comes back into the page is the lower half of entries    *)
(* that hold the page's cells and the new one.                              *)
LEMMA Splitting ==
  ASSUME NEW p \in PageType, p.first = 0, NEW es \in Seq(Seq(UnitValue)),
         NEW cs \in Seq(Cells), NEW c \in Cells, NEW i \in 1..Len(cs) + 1,
         Len(es) = Len(cs) + 1,
         \A k \in 1..Len(es) : Begins(es[k], InsertAt(cs, i, c)[k])
  PROVE  LET q == Fill(Bare(p), LowerHalf(es))
         IN  /\ q \in PageType /\ q.first \in Units
             /\ ~Tight(q) /\ ~(Count(q) < Len(LowerHalf(es))) =>
                  Layout(q, << >>) /\ InsertedOrSplit(cs, Cellsat(q))
<1> DEFINE q == Fill(Bare(p), LowerHalf(es))
           ds == InsertAt(cs, i, c)
<1>1. ds \in Seq(Cells) /\ Insertion(ds, cs, i, c)
  BY InsertedAt
<1>2. Len(ds) = Len(es)
  BY <1>1 DEF Insertion
<1>3. \A k \in 1..Len(es) : Begins(es[k], ds[k])
  OBVIOUS
<1> HIDE DEF ds
<1>4. LET v == Fill(Bare(p), LowerHalf(es))
      IN  /\ v \in PageType /\ v.first \in Units
          /\ ~Tight(v) /\ ~(Count(v) < Len(LowerHalf(es))) =>
               Layout(v, << >>) /\ Cellsat(v) = SubSeq(ds, 1, Len(ds) \div 2)
  BY <1>1, <1>2, <1>3, FilledHalf
<1>5. /\ q \in PageType /\ q.first \in Units
      /\ ~Tight(q) /\ ~(Count(q) < Len(LowerHalf(es))) =>
           Layout(q, << >>) /\ Cellsat(q) = SubSeq(ds, 1, Len(ds) \div 2)
  BY <1>4
<1> HIDE DEF q
<1>6. Cellsat(q) = SubSeq(ds, 1, Len(ds) \div 2) => InsertedOrSplit(cs, Cellsat(q))
  BY <1>2 DEF InsertedOrSplit, ds
<1> QED
  BY <1>5, <1>6 DEF q

(* An insert leaves a page, and a sound one unless it reports damage, with  *)
(* the cell at its place, or the lower half of the cells.                   *)
LEMMA InsertStep ==
  ASSUME LayoutInv, NEW c \in Cells, NEW margin \in Margins, Insert(c, margin)
  PROVE  /\ page' \in PageType
         /\ damage' # "free list kept" => page'.first \in Units
         /\ damage' = "none" =>
              (\E bl : Layout(page', bl)) /\ InsertedOrSplit(Cellsat(page), Cellsat(page'))
<1> DEFINE i == Index(page, c)
           r == InsertCell(page, i, Bytes(c))
           rp == r.page
           full == r.at = 0 \/ SpaceLeft(rp) < margin
           entries == IF r.at = 0 THEN InsertAt(Entries(rp), i, Bytes(c)) ELSE Entries(rp)
           ls == LowerHalf(entries)
           lower == Fill(Bare(rp), ls)
           us == UpperHalf(entries, margin)
           upper == Fill(Empty, us)
           lost == Count(lower) < Len(ls) \/ Count(upper) < Len(us) \/ Tight(upper)
           N == Count(page)
           cs == Cellsat(page)
<1>1. PICK bl : Layout(page, bl)
  BY DEF LayoutInv, Insert, Intact
<1>2. /\ page' = IF full /\ ~Tight(rp) THEN lower ELSE rp
      /\ damage' = IF Tight(rp) THEN "pointer over content"
                   ELSE IF ~full THEN "none"
                   ELSE IF rp.first # 0 THEN "free list kept"
                   ELSE IF Tight(lower) THEN "pointer over content"
                   ELSE IF lost THEN "cell lost"
                   ELSE "none"
  BY DEF Insert
<1>3. /\ page \in PageType /\ CellsHeld(page) /\ cs \in Seq(Cells) /\ Len(cs) = N /\ N \in Nat
  BY <1>1, LaidCells
<1>4. i \in 1..N + 1
  BY <1>3, IndexRange
<1> HIDE DEF i
<1>5. \/ r.at = 0 /\ rp = Defragment(page)
      \/ /\ r.at # 0 /\ rp \in PageType /\ rp.first \in Units
         /\ ~Tight(rp) => \E bs : Layout(rp, bs) /\ Insertion(Cellsat(rp), cs, i, c)
  BY <1>1, <1>4, CellInserted
<1> HIDE DEF r
<1>6. CASE r.at = 0
  <2>1. rp = Defragment(page) /\ full
    BY <1>5, <1>6
  <2>2. Layout(rp, << >>) /\ rp.first = 0 /\ Count(rp) = N /\ \A k \in 1..N : At(rp, k) = At(page, k)
    <3> HIDE DEF rp
    <3> QED
      BY <2>1, <1>1, DefragmentLayout
  <2>3. rp \in PageType /\ CellsHeld(rp) /\ ~Tight(rp)
    BY <2>2, LaidCells
  <2> DEFINE b == Entries(rp)
             o == Bytes(c)
             es == InsertAt(b, i, o)
             ds == InsertAt(cs, i, c)
  <2>4. entries = es
    BY <1>6
  <2> HIDE DEF rp
  <2>5. b \in Seq(Seq(UnitValue)) /\ Len(b) = N /\ \A k \in 1..N : Begins(b[k], cs[k])
    <3>1. DOMAIN rp.pointers = 1..N
      BY <2>2, <2>3, Fields
    <3>2. b = [k \in 1..N |-> ReadCell(rp, k)]
      BY <3>1 DEF Entries
    <3>3. \A k \in 1..N : ReadCell(rp, k) \in Seq(UnitValue)
      BY <2>2, <2>3, CellReadRaw
    <3>4. \A k \in 1..N : Begins(ReadCell(rp, k), At(rp, k))
      BY <2>2, <2>3, CellsRead
    <3>5. \A k \in 1..N : cs[k] = At(rp, k)
      BY <2>2 DEF Cellsat
    <3> HIDE DEF b, cs, N
    <3> QED
      BY <3>2, <3>3, <3>4, <3>5, <1>3
  <2>6. o \in Seq(UnitValue) /\ Begins(o, c)
    BY BytesOf
  <2> HIDE DEF b, o, cs, N
  <2>7. es \in Seq(Seq(UnitValue)) /\ Insertion(es, b, i, o)
    BY <2>5, <2>6, <1>4, InsertedAt
  <2>8. ds \in Seq(Cells) /\ Insertion(ds, cs, i, c)
    BY <1>3, <1>4, InsertedAt
  <2> HIDE DEF es, ds
  <2>9. Len(es) = N + 1 /\ Len(ds) = N + 1
    BY <2>5, <2>7, <2>8, <1>3 DEF Insertion
  <2>10. ASSUME NEW k \in 1..N + 1 PROVE Begins(es[k], ds[k])
    <3>1. /\ es[k] = IF k < i THEN b[k] ELSE IF k = i THEN o ELSE b[k - 1]
          /\ ds[k] = IF k < i THEN cs[k] ELSE IF k = i THEN c ELSE cs[k - 1]
      BY <2>5, <2>7, <2>8, <1>3 DEF Insertion
    <3>2. CASE k < i
      <4>1. k \in 1..N
        BY <3>2, <1>3, <1>4
      <4> QED
        BY <3>1, <3>2, <4>1, <2>5
    <3>3. CASE k = i
      BY <3>1, <3>3, <2>6
    <3>4. CASE k > i
      <4>1. k - 1 \in 1..N /\ ~(k < i) /\ k # i
        BY <3>4, <1>3, <1>4
      <4> QED
        BY <3>1, <4>1, <2>5
    <3> QED
      BY <3>2, <3>3, <3>4, <1>4
  <2>11. \A k \in 1..Len(es) : Begins(es[k], InsertAt(cs, i, c)[k])
    BY <2>9, <2>10 DEF ds
  <2> DEFINE q == Fill(Bare(rp), LowerHalf(es))
  <2>12. /\ q \in PageType /\ q.first \in Units
         /\ ~Tight(q) /\ ~(Count(q) < Len(LowerHalf(es))) =>
              Layout(q, << >>) /\ InsertedOrSplit(cs, Cellsat(q))
    <3>1. Len(es) = Len(cs) + 1 /\ i \in 1..Len(cs) + 1
      BY <2>9, <1>3, <1>4
    <3> QED
      BY <3>1, <2>2, <2>3, <2>7, <2>11, <1>3, Splitting
  <2>13. page' = q /\ ls = LowerHalf(es) /\ lower = q
    BY <2>1, <2>3, <2>4, <1>2
  <2>14. damage' = IF Tight(q) THEN "pointer over content" ELSE IF lost THEN "cell lost" ELSE "none"
    BY <2>1, <2>2, <2>3, <2>13, <1>2
  <2> HIDE DEF lower, upper, us, ls, full, entries, q
  <2>15. damage' = "none" => ~Tight(q) /\ ~(Count(q) < Len(LowerHalf(es)))
    BY <2>13, <2>14
  <2> QED
    BY <2>12, <2>13, <2>15 DEF cs
<1>7. CASE r.at # 0 /\ Tight(rp)
  <2>1. page' = rp /\ rp \in PageType /\ rp.first \in Units
    BY <1>2, <1>5, <1>7
  <2>2. damage' = "pointer over content"
    BY <1>2, <1>7
  <2> HIDE DEF rp
  <2> QED
    BY <2>1, <2>2
<1>8. CASE r.at # 0 /\ ~Tight(rp) /\ ~full
  <2>1. page' = rp
    BY <1>2, <1>8
  <2>2. rp \in PageType /\ rp.first \in Units
    BY <1>5, <1>8
  <2>3. PICK bs : Layout(rp, bs) /\ Insertion(Cellsat(rp), cs, i, c)
    BY <1>5, <1>8
  <2> HIDE DEF rp, full, cs
  <2>4. InsertedOrSplit(cs, Cellsat(rp))
    <3> DEFINE ds == Cellsat(rp)
    <3>1. ds \in Seq(Cells)
      BY <2>3, LaidCells
    <3> HIDE DEF ds
    <3>2. i \in 1..Len(cs) + 1
      BY <1>3, <1>4
    <3>3. Insertion(ds, cs, i, c)
      BY <2>3 DEF ds
    <3>4. ds = InsertAt(cs, i, c)
      BY <3>1, <3>2, <3>3, <1>3, InsertionIs
    <3> QED
      BY <3>2, <3>4 DEF InsertedOrSplit, ds
  <2> QED
    BY <2>1, <2>2, <2>3, <2>4 DEF cs
<1>9. CASE r.at # 0 /\ ~Tight(rp) /\ full
  <2>1. page' = lower
    BY <1>2, <1>9
  <2>2. PICK bs : Layout(rp, bs) /\ Insertion(Cellsat(rp), cs, i, c)
    BY <1>5, <1>9
  <2>3. entries = Entries(rp)
    BY <1>9
  <2>4. damage' = IF rp.first # 0 THEN "free list kept"
                  ELSE IF Tight(lower) THEN "pointer over content"
                  ELSE IF lost THEN "cell lost" ELSE "none"
    BY <1>2, <1>9
  <2>5. lower = Fill(Bare(rp), LowerHalf(Entries(rp)))
    BY <2>3
  <2>6. lost => damage' # "none" \/ Tight(lower)
    BY <2>4
  <2>7. ~lost => ~(Count(lower) < Len(LowerHalf(Entries(rp))))
    BY <2>3
  <2> HIDE DEF rp, full, cs, lower, lost, entries, N
  <2>8. CASE rp.first # 0
    <3>1. damage' = "free list kept"
      BY <2>4, <2>8
    <3>2. lower \in PageType
      BY <2>2, <2>5, RefilledPage
    <3> QED
      BY <3>1, <3>2, <2>1
  <2>9. CASE rp.first = 0
    <3>1. rp \in PageType /\ CellsHeld(rp) /\ Len(Cellsat(rp)) = Count(rp)
      BY <2>2, LaidCells
    <3>2. Len(Cellsat(rp)) = N + 1
      BY <2>2, <1>3 DEF Insertion
    <3> DEFINE es == Entries(rp)
               ds == Cellsat(rp)
    <3>3. es \in Seq(Seq(UnitValue)) /\ Len(es) = N + 1 /\ \A k \in 1..N + 1 : Begins(es[k], ds[k])
      <4>0. Count(rp) = N + 1
        BY <3>1, <3>2
      <4>1. DOMAIN rp.pointers = 1..N + 1
        BY <3>1, <4>0, Fields
      <4>2. es = [k \in 1..N + 1 |-> ReadCell(rp, k)]
        BY <4>1 DEF Entries
      <4>3. \A k \in 1..N + 1 : ReadCell(rp, k) \in Seq(UnitValue)
        BY <3>1, <4>0, CellReadRaw
      <4>4. \A k \in 1..N + 1 : Begins(ReadCell(rp, k), At(rp, k))
        BY <3>1, <4>0, CellsRead
      <4>5. \A k \in 1..N + 1 : ds[k] = At(rp, k)
        BY <4>0 DEF Cellsat
      <4>6. N + 1 \in Nat
        BY <1>3
      <4> HIDE DEF es, ds
      <4> QED
        BY <4>2, <4>3, <4>4, <4>5, <4>6
    <3> HIDE DEF es
    <3>4. ds = InsertAt(cs, i, c)
      <4>1. ds \in Seq(Cells)
        BY <2>2, LaidCells
      <4>2. Insertion(ds, cs, i, c)
        BY <2>2
      <4> HIDE DEF ds
      <4>3. i \in 1..Len(cs) + 1
        BY <1>3, <1>4
      <4> QED
        BY <4>1, <4>2, <4>3, <1>3, InsertionIs
    <3> HIDE DEF ds
    <3>5. \A k \in 1..Len(es) : Begins(es[k], InsertAt(cs, i, c)[k])
      BY <3>3, <3>4
    <3> DEFINE q == Fill(Bare(rp), LowerHalf(es))
    <3>6. /\ q \in PageType /\ q.first \in Units
          /\ ~Tight(q) /\ ~(Count(q) < Len(LowerHalf(es))) =>
               Layout(q, << >>) /\ InsertedOrSplit(cs, Cellsat(q))
      <4>1. Len(es) = Len(cs) + 1 /\ i \in 1..Len(cs) + 1
        BY <3>3, <1>3, <1>4
      <4> QED
        BY <4>1, <3>1, <3>3, <3>5, <2>9, <1>3, Splitting
    <3>7. q = lower
      BY <2>5 DEF es
    <3>8. damage' = "none" => ~Tight(q) /\ ~(Count(q) < Len(LowerHalf(es)))
      BY <3>7, <2>4, <2>6, <2>7, <2>9 DEF es
    <3> HIDE DEF q
    <3> QED
      BY <3>6, <3>7, <3>8, <2>1 DEF cs
  <2> QED
    BY <2>8, <2>9
<1> QED
  BY <1>6, <1>7, <1>8, <1>9

(* A delete leaves a page, and a sound one unless it reports damage,        *)
(* without the cell.                                                        *)
LEMMA DeleteStep ==
  ASSUME LayoutInv, NEW i \in DOMAIN page.pointers, Delete(i)
  PROVE  /\ page' \in PageType /\ page'.first \in Units /\ damage' # "free list kept"
         /\ damage' = "none" =>
              (\E bl : Layout(page', bl)) /\ Cellsat(page') = RemoveAt(Cellsat(page), i)
<1> DEFINE q == DeleteCell(page, i)
           a == page.pointers[i]
           e == FindCellEnd(page, i)
           N == Count(page)
           cs == Cellsat(page)
<1>1. PICK bl : Layout(page, bl)
  BY DEF LayoutInv, Delete, Intact
<1>2. /\ page \in PageType /\ CellsHeld(page) /\ Linked(page, bl)
      /\ cs \in Seq(Cells) /\ Len(cs) = N /\ N \in Nat
  BY <1>1, LaidCells
<1>3. i \in 1..N
  BY <1>2, Fields
<1>4. /\ page' = q
      /\ damage' = IF \E b \in Blocks(page) : b \in Span(a, Len(ReadCell(page, i)))
                   THEN "freed twice" ELSE "none"
  BY DEF Delete
<1>5. /\ a \in Nat /\ a \in Units /\ At(page, i).size \in Nat /\ 2 <= At(page, i).size
      /\ a + At(page, i).size <= e /\ e \in Nat
  BY <1>2, <1>3, CellHeld
<1>6. Len(ReadCell(page, i)) = e - a
  BY <1>2, <1>3, CellReadRaw
<1>7. 2 <= Len(ReadCell(page, i)) /\ \A b \in Nat : b \in Span(a, Len(ReadCell(page, i))) <=> a <= b /\ b < e
  <2> DEFINE n == Len(ReadCell(page, i))
  <2> HIDE DEF n, a, e
  <2> QED
    BY <1>5, <1>6 DEF Span, n
<1>8. q \in PageType /\ q.first = a
  BY <1>2, <1>3, <1>7, CellFreed
<1> HIDE DEF q
<1>9. ASSUME damage' = "none"
      PROVE  (\E bs : Layout(q, bs)) /\ Cellsat(q) = RemoveAt(cs, i)
  <2>1. Blocks(page) = {bl[m] : m \in 1..Len(bl)}
    <3>1. \A m, n \in 1..Len(bl) : m # n => bl[m] # bl[n]
      BY <1>1, BlockHeld
    <3> QED
      BY <3>1, <1>2, LinkedBlocks
  <2>2. ASSUME NEW m \in 1..Len(bl) PROVE ~(a <= bl[m] /\ bl[m] < e)
    <3>1. bl[m] \in Nat
      BY <1>1, BlockHeld
    <3>2. bl[m] \in Blocks(page)
      BY <2>1
    <3>3. ~(bl[m] \in Span(a, Len(ReadCell(page, i))))
      BY <3>2, <1>4, <1>9
    <3> QED
      BY <3>1, <3>3, <1>7
  <2>3. LET v == DeleteCell(page, i)
        IN  Layout(v, <<a>> \o bl) /\ Removal(Cellsat(v), cs, i)
    BY <1>1, <1>3, <2>2, CellDeleted
  <2>4. Layout(q, <<a>> \o bl) /\ Removal(Cellsat(q), cs, i)
    BY <2>3 DEF q
  <2> DEFINE ds == Cellsat(q)
  <2>5. ds \in Seq(Cells)
    BY <2>4, LaidCells
  <2> HIDE DEF ds, cs
  <2>6. ds = RemoveAt(cs, i)
    <3>1. i \in 1..Len(cs) /\ Removal(ds, cs, i)
      BY <2>4, <1>2, <1>3 DEF ds
    <3> QED
      BY <3>1, <2>5, <1>2, RemovalIs
  <2> QED
    BY <2>4, <2>6 DEF ds
<1>10. damage' # "free list kept"
  BY <1>4
<1> HIDE DEF a
<1> QED
  BY <1>4, <1>5, <1>8, <1>9, <1>10

-----------------------------------------------------------------------------
(* The invariant, and what follows from it                                  *)

(* The invariant holds at first.                                            *)
LEMMA LayoutInvInit ==
  Init => LayoutInv
<1>1. Empty.first \in Units
  BY EmptyPage, LaidCells
<1> QED
  BY <1>1, EmptyPage DEF Init, LayoutInv

(* Every step keeps the invariant.                                          *)
LEMMA LayoutInvNext ==
  LayoutInv /\ [Next]_vars => LayoutInv'
<1> SUFFICES ASSUME LayoutInv, [Next]_vars PROVE LayoutInv'
  OBVIOUS
<1>1. CASE \E c \in Cells, margin \in Margins : Insert(c, margin)
  <2>1. PICK c \in Cells, margin \in Margins : Insert(c, margin)
    BY <1>1
  <2>2. /\ page' \in PageType
        /\ damage' # "free list kept" => page'.first \in Units
        /\ damage' = "none" => \E bl : Layout(page', bl)
    BY <2>1, InsertStep
  <2> QED
    BY <2>2 DEF LayoutInv, Intact
<1>2. CASE \E i \in DOMAIN page.pointers : Delete(i)
  <2>1. PICK i \in DOMAIN page.pointers : Delete(i)
    BY <1>2
  <2>2. /\ page' \in PageType /\ page'.first \in Units
        /\ damage' = "none" => \E bl : Layout(page', bl)
    BY <2>1, DeleteStep
  <2> QED
    BY <2>2 DEF LayoutInv, Intact
<1>3. CASE UNCHANGED vars
  BY <1>3 DEF vars, LayoutInv, Intact
<1> QED
  BY <1>1, <1>2, <1>3 DEF Next

(* The invariant holds in every reachable state.                            *)
LEMMA LayoutHolds == Spec => []LayoutInv
BY LayoutInvInit, LayoutInvNext, PTL DEF Spec

(* The invariant implies that the page is one.                              *)
LEMMA LayoutInvType ==
  LayoutInv => TypeOK
<1> SUFFICES ASSUME LayoutInv PROVE TypeOK
  OBVIOUS
<1> DEFINE N == Count(page)
<1>1. page \in PageType
  BY DEF LayoutInv
<1>2. /\ page.raw \in [Units -> UnitValue] /\ page.content \in 0..PageSize /\ page.fragments = 0
      /\ N \in Nat /\ DOMAIN page.pointers = 1..N /\ \A i \in 1..N : page.pointers[i] \in Units
  BY <1>1, Fields
<1>3. damage # "free list kept" => page.first \in 0..PageSize - 1
  BY DEF LayoutInv, Units
<1>4. page.fragments \in 0..255 /\ DOMAIN page.raw = Units
  BY <1>2
<1>5. ASSUME NEW i \in 1..N, Intact PROVE page.raw[PointerOffset(i - 1)] = Word(page.pointers[i])
  <2>1. PICK bl : Layout(page, bl)
    BY <1>5 DEF LayoutInv
  <2>2. PointersHeld(page)
    BY <2>1 DEF Layout
  <2>3. page.raw[HeaderSize + i - 1] = Word(page.pointers[i])
    BY <2>2 DEF PointersHeld
  <2>4. PointerOffset(i - 1) = HeaderSize + i - 1
    BY Sizes DEF PointerOffset
  <2> QED
    BY <2>3, <2>4
<1> QED
  BY <1>2, <1>3, <1>4, <1>5 DEF TypeOK

(* The header and the pointers that BTreePage keeps in memory are always in *)
(* the page's range, and agree with the page's bytes while it is intact.    *)
THEOREM TypeCorrect == Spec => []TypeOK
<1>1. Spec => []LayoutInv
  BY LayoutHolds
<1> QED
  BY <1>1, LayoutInvType, PTL

-----------------------------------------------------------------------------
(* The page is a sequence of cells                                          *)

(* Every step of a page is a step of the sequence of its cells, or none.    *)
LEMMA SequenceNext ==
  LayoutInv /\ LayoutInv' /\ [Next]_vars => [Abstract!Next]_<<CellsOf(page), ~Intact>>
<1> SUFFICES ASSUME LayoutInv, LayoutInv', [Next]_vars
             PROVE  [Abstract!Next]_<<CellsOf(page), ~Intact>>
  OBVIOUS
<1> DEFINE cs == CellsOf(page)
           ds == CellsOf(page')
<1>4. CellsOf(page)' = ds
  BY DEF CellsOf, Entries, ReadCell, FindCellEnd
<1>5. \A s, i, x : Abstract!InsertAt(s, i, x) = InsertAt(s, i, x)
  BY DEF Abstract!InsertAt, InsertAt
<1>6. \A s, i : Abstract!RemoveAt(s, i) = RemoveAt(s, i)
  BY DEF Abstract!RemoveAt, RemoveAt
<1>1. CASE \E c \in Cells, margin \in Margins : Insert(c, margin)
  <2>1. PICK c \in Cells, margin \in Margins : Insert(c, margin)
    BY <1>1
  <2>2. Intact
    BY <2>1 DEF Insert
  <2>3. CASE damage' # "none"
    BY <2>2, <2>3 DEF Abstract!Next, Abstract!Damage, Intact
  <2>4. CASE damage' = "none"
    <3>1. (\E bl : Layout(page', bl)) /\ InsertedOrSplit(Cellsat(page), Cellsat(page'))
      BY <2>1, <2>4, InsertStep
    <3>2. cs = Cellsat(page) /\ ds = Cellsat(page')
      BY <2>2, <3>1, LaidCells DEF LayoutInv
    <3>3. InsertedOrSplit(cs, ds)
      BY <3>1, <3>2
    <3> HIDE DEF cs, ds
    <3>4. \E x \in Cells, i \in 1..Len(cs) + 1 :
            ds = InsertAt(cs, i, x) \/ ds = SubSeq(InsertAt(cs, i, x), 1, (Len(cs) + 1) \div 2)
      BY <3>3 DEF InsertedOrSplit
    <3>5. Abstract!Insert \/ Abstract!Split
      BY <3>4, <1>4, <1>5 DEF Abstract!Insert, Abstract!Split, cs, ds
    <3> QED
      BY <2>2, <2>4, <3>5 DEF Abstract!Next, Intact
  <2> QED
    BY <2>3, <2>4
<1>2. CASE \E i \in DOMAIN page.pointers : Delete(i)
  <2>1. PICK i \in DOMAIN page.pointers : Delete(i)
    BY <1>2
  <2>2. Intact
    BY <2>1 DEF Delete
  <2>3. CASE damage' # "none"
    BY <2>2, <2>3 DEF Abstract!Next, Abstract!Damage, Intact
  <2>4. CASE damage' = "none"
    <3>1. (\E bl : Layout(page', bl)) /\ Cellsat(page') = RemoveAt(Cellsat(page), i)
      BY <2>1, <2>4, DeleteStep
    <3>2. cs = Cellsat(page) /\ ds = Cellsat(page')
      BY <2>2, <3>1, LaidCells DEF LayoutInv
    <3>3. ds = RemoveAt(cs, i)
      BY <3>1, <3>2
    <3>4. i \in DOMAIN cs
      BY DEF CellsOf
    <3> HIDE DEF cs, ds
    <3>5. Abstract!Delete
      BY <3>3, <3>4, <1>4, <1>6 DEF Abstract!Delete, cs, ds
    <3> QED
      BY <2>2, <2>4, <3>5 DEF Abstract!Next, Intact
  <2> QED
    BY <2>3, <2>4
<1>3. CASE UNCHANGED vars
  BY <1>3 DEF vars, Intact, CellsOf, Entries, ReadCell, FindCellEnd
<1> QED
  BY <1>1, <1>2, <1>3 DEF Next

(* Through inserting, deleting, splitting, reusing free blocks and moving   *)
(* every cell, the page is the sequence of cells that PageCells describes,  *)
(* until it is damaged.                                                     *)
THEOREM PageIsSequenceOfCells == Spec => IsSequenceOfCells
<1>1. Init => Abstract!Init
  BY EmptyPage DEF Init, Abstract!Init, Intact
<1>2. Spec => []LayoutInv
  BY LayoutHolds
<1> QED
  BY <1>1, <1>2, SequenceNext, PTL DEF Spec, IsSequenceOfCells, Abstract!Spec

-----------------------------------------------------------------------------
(* No unit of an intact page is in use twice                                *)

(* The unit u is used for o: 0 stands for the pointers, i for the i-th      *)
(* cell, -b for the free block at b.                                        *)
UsedFor(p, bl, o, u) ==
  \/ o = 0 /\ HeaderSize <= u /\ u < HeaderSize + Count(p)
  \/ \E i \in 1..Count(p) : o = i /\ p.pointers[i] <= u /\ u < p.pointers[i] + At(p, i).size
  \/ \E m \in 1..Len(bl) : o = -bl[m] /\ bl[m] <= u /\ u < bl[m] + BlockSize(p, bl[m])

(* A unit in use is in the page, behind its header.                         *)
LEMMA UseInPage ==
  ASSUME NEW p, NEW bl, Layout(p, bl), NEW o, NEW u \in Int, UsedFor(p, bl, o, u)
  PROVE  u \in HeaderSize..PageSize - 1 /\ (o # 0 => p.content <= u)
<1>1. p \in PageType /\ CellsHeld(p) /\ PointersHeld(p) /\ Count(p) \in Nat
  BY LaidCells
<1>2. p.content \in Nat /\ p.content <= PageSize /\ HeaderSize + Count(p) <= p.content
  BY <1>1, Fields, Sizes DEF PointersHeld
<1>3. CASE o = 0 /\ HeaderSize <= u /\ u < HeaderSize + Count(p)
  BY <1>1, <1>2, <1>3, Sizes
<1>4. CASE \E i \in 1..Count(p) : o = i /\ p.pointers[i] <= u /\ u < p.pointers[i] + At(p, i).size
  <2>1. PICK i \in 1..Count(p) : p.pointers[i] <= u /\ u < p.pointers[i] + At(p, i).size
    BY <1>4
  <2> DEFINE a == p.pointers[i]
             z == At(p, i).size
  <2>2. a \in Nat /\ z \in Nat /\ p.content <= a /\ a + z <= PageSize /\ a <= u /\ u < a + z
    BY <2>1, <1>1, CellHeld
  <2> HIDE DEF a, z
  <2> QED
    BY <2>2, <1>1, <1>2, Sizes
<1>5. CASE \E m \in 1..Len(bl) : o = -bl[m] /\ bl[m] <= u /\ u < bl[m] + BlockSize(p, bl[m])
  <2>1. PICK m \in 1..Len(bl) : bl[m] <= u /\ u < bl[m] + BlockSize(p, bl[m])
    BY <1>5
  <2> DEFINE a == bl[m]
             z == BlockSize(p, bl[m])
  <2>2. a \in Nat /\ z \in Nat /\ p.content <= a /\ a + z <= PageSize /\ a <= u /\ u < a + z
    BY <2>1, BlockHeld
  <2> HIDE DEF a, z
  <2> QED
    BY <2>2, <1>1, <1>2, Sizes
<1> QED
  BY <1>3, <1>4, <1>5 DEF UsedFor

(* Spans that share a unit are not apart.                                   *)
LEMMA NotApart ==
  ASSUME NEW a \in Nat, NEW m \in Nat, NEW b \in Nat, NEW n \in Nat, NEW u \in Int,
         a <= u, u < a + m, b <= u, u < b + n
  PROVE  ~Apart(a, m, b, n)
BY DEF Apart

(* A unit of a sound page is in use for one thing.                          *)
LEMMA UsedOnce ==
  ASSUME NEW p, NEW bl, Layout(p, bl), NEW u \in Int,
         NEW o, UsedFor(p, bl, o, u), NEW w, UsedFor(p, bl, w, u)
  PROVE  o = w
<1> DEFINE Pointer(x) == x = 0 /\ HeaderSize <= u /\ u < HeaderSize + Count(p)
           Cell(x, i) == x = i /\ p.pointers[i] <= u /\ u < p.pointers[i] + At(p, i).size
           Free(x, m) == x = -bl[m] /\ bl[m] <= u /\ u < bl[m] + BlockSize(p, bl[m])
<1>1. /\ p \in PageType /\ CellsHeld(p) /\ BlocksHeld(p, bl) /\ PointersHeld(p) /\ Count(p) \in Nat
  BY LaidCells DEF Layout
<1>2. /\ \A i \in 1..Count(p) : /\ p.pointers[i] \in Nat /\ At(p, i).size \in Nat
                                /\ p.content <= p.pointers[i]
      /\ \A m \in 1..Len(bl) : /\ bl[m] \in Nat /\ BlockSize(p, bl[m]) \in Nat
                               /\ p.content <= bl[m]
  BY <1>1, CellHeld, BlockHeld
<1>3. p.content \in Nat /\ HeaderSize + Count(p) <= p.content
  BY <1>1, Fields, Sizes DEF PointersHeld
<1>4. \A x : UsedFor(p, bl, x, u) <=>
             \/ Pointer(x)
             \/ \E i \in 1..Count(p) : Cell(x, i)
             \/ \E m \in 1..Len(bl) : Free(x, m)
  BY DEF UsedFor
<1>5. ASSUME NEW x, NEW y, Pointer(x), NEW i \in 1..Count(p), Cell(y, i) PROVE FALSE
  BY <1>1, <1>2, <1>3, <1>5, Sizes
<1>6. ASSUME NEW x, NEW y, Pointer(x), NEW m \in 1..Len(bl), Free(y, m) PROVE FALSE
  BY <1>1, <1>2, <1>3, <1>6, Sizes
<1>7. ASSUME NEW x, NEW y, NEW i \in 1..Count(p), Cell(x, i), NEW m \in 1..Len(bl), Free(y, m) PROVE FALSE
  <2>1. Apart(bl[m], BlockSize(p, bl[m]), p.pointers[i], At(p, i).size)
    BY <1>1 DEF BlocksHeld
  <2>2. ~Apart(bl[m], BlockSize(p, bl[m]), p.pointers[i], At(p, i).size)
    BY <1>2, <1>7, NotApart
  <2> QED
    BY <2>1, <2>2
<1>8. ASSUME NEW x, NEW y, NEW i \in 1..Count(p), Cell(x, i), NEW j \in 1..Count(p), Cell(y, j) PROVE x = y
  <2> SUFFICES ASSUME i # j PROVE FALSE
    BY <1>8
  <2>1. Apart(p.pointers[i], At(p, i).size, p.pointers[j], At(p, j).size)
    BY <1>1 DEF CellsHeld
  <2>2. ~Apart(p.pointers[i], At(p, i).size, p.pointers[j], At(p, j).size)
    BY <1>2, <1>8, NotApart
  <2> QED
    BY <2>1, <2>2
<1>9. ASSUME NEW x, NEW y, NEW m \in 1..Len(bl), Free(x, m), NEW n \in 1..Len(bl), Free(y, n) PROVE x = y
  <2> SUFFICES ASSUME m # n PROVE FALSE
    BY <1>9
  <2>1. Apart(bl[m], BlockSize(p, bl[m]), bl[n], BlockSize(p, bl[n]))
    BY <1>1 DEF BlocksHeld
  <2>2. ~Apart(bl[m], BlockSize(p, bl[m]), bl[n], BlockSize(p, bl[n]))
    BY <1>2, <1>9, NotApart
  <2> QED
    BY <2>1, <2>2
<1>10. ASSUME NEW x, NEW y, Pointer(x), Pointer(y) PROVE x = y
  BY <1>10
<1> HIDE DEF Pointer, Cell, Free
<1> QED
  BY <1>4, <1>5, <1>6, <1>7, <1>8, <1>9, <1>10

(* Each use that the module lists is one of these.                          *)
LEMMA UsesOf ==
  ASSUME NEW bl, Layout(page, bl)
  PROVE  \A x \in Uses : x = <<x[1], x[2]>> /\ x[2] \in Int /\ UsedFor(page, bl, x[1], x[2])
<1> DEFINE N == Count(page)
           cells == CellsOf(page)
<1>1. /\ page \in PageType /\ CellsHeld(page) /\ Linked(page, bl)
      /\ N \in Nat /\ cells = Cellsat(page)
  BY LaidCells
<1>2. DOMAIN cells = 1..N /\ \A i \in 1..N : cells[i] = At(page, i)
  BY <1>1 DEF Cellsat
<1>3. Blocks(page) = {bl[m] : m \in 1..Len(bl)}
  <2>1. \A m, n \in 1..Len(bl) : m # n => bl[m] # bl[n]
    BY BlockHeld
  <2> QED
    BY <2>1, <1>1, LinkedBlocks
<1> DEFINE A == {<<0, u>> : u \in Span(HeaderSize, N)}
           B == UNION {{<<i, u>> : u \in Span(page.pointers[i], cells[i].size)} : i \in DOMAIN cells}
           C == UNION {{<<-b, u>> : u \in Span(b, BlockSize(page, b))} : b \in Blocks(page)}
<1>4. Uses = A \union B \union C
  BY DEF Uses
<1>5. ASSUME NEW x \in A PROVE x = <<x[1], x[2]>> /\ x[2] \in Int /\ UsedFor(page, bl, x[1], x[2])
  <2>1. PICK u \in Span(HeaderSize, N) : x = <<0, u>>
    OBVIOUS
  <2>2. u \in Int /\ HeaderSize <= u /\ u < HeaderSize + N
    BY <1>1, Sizes DEF Span
  <2>3. x[1] = 0 /\ x[2] = u
    BY <2>1
  <2> QED
    BY <2>1, <2>2, <2>3 DEF UsedFor
<1>6. ASSUME NEW x \in B PROVE x = <<x[1], x[2]>> /\ x[2] \in Int /\ UsedFor(page, bl, x[1], x[2])
  <2>1. PICK i \in 1..N : \E u \in Span(page.pointers[i], cells[i].size) : x = <<i, u>>
    BY <1>2
  <2>2. PICK u \in Span(page.pointers[i], At(page, i).size) : x = <<i, u>>
    BY <2>1, <1>2
  <2>3. page.pointers[i] \in Nat /\ At(page, i).size \in Nat
    BY <1>1, CellHeld
  <2>4. u \in Int /\ page.pointers[i] <= u /\ u < page.pointers[i] + At(page, i).size
    BY <2>3 DEF Span
  <2>5. x[1] = i /\ x[2] = u
    BY <2>2
  <2> QED
    BY <2>2, <2>4, <2>5 DEF UsedFor
<1>7. ASSUME NEW x \in C PROVE x = <<x[1], x[2]>> /\ x[2] \in Int /\ UsedFor(page, bl, x[1], x[2])
  <2>1. PICK m \in 1..Len(bl) : \E u \in Span(bl[m], BlockSize(page, bl[m])) : x = <<-bl[m], u>>
    BY <1>3
  <2>2. PICK u \in Span(bl[m], BlockSize(page, bl[m])) : x = <<-bl[m], u>>
    BY <2>1
  <2>3. bl[m] \in Nat /\ BlockSize(page, bl[m]) \in Nat
    BY BlockHeld
  <2>4. u \in Int /\ bl[m] <= u /\ u < bl[m] + BlockSize(page, bl[m])
    BY <2>3 DEF Span
  <2>5. x[1] = -bl[m] /\ x[2] = u
    BY <2>2
  <2> QED
    BY <2>2, <2>4, <2>5 DEF UsedFor
<1> QED
  BY <1>4, <1>5, <1>6, <1>7

(* So there are as many uses as units in use.                               *)
LEMMA UsesCounted ==
  ASSUME NEW bl, Layout(page, bl)
  PROVE  Cardinality({x[2] : x \in Uses}) = Cardinality(Uses)
<1> DEFINE T == {x[2] : x \in Uses}
           f == [x \in Uses |-> x[2]]
<1>1. \A x \in Uses : x = <<x[1], x[2]>> /\ x[2] \in Int /\ UsedFor(page, bl, x[1], x[2])
  BY UsesOf
<1>2. \A x \in Uses : x[2] \in HeaderSize..PageSize - 1
  BY <1>1, UseInPage
<1>3. \A x, y \in Uses : x[2] = y[2] => x = y
  <2> SUFFICES ASSUME NEW x \in Uses, NEW y \in Uses, x[2] = y[2] PROVE x = y
    OBVIOUS
  <2>1. x[1] = y[1]
    <3>1. x[2] \in Int /\ UsedFor(page, bl, x[1], x[2]) /\ UsedFor(page, bl, y[1], x[2])
      BY <1>1
    <3> QED
      BY <3>1, UsedOnce
  <2> QED
    BY <2>1, <1>1
<1> HIDE DEF T
<1>4. f \in [Uses -> T] /\ (\A x, y \in Uses : f[x] = f[y] => x = y) /\ \A t \in T : \E x \in Uses : f[x] = t
  BY <1>3 DEF T
<1>5. ExistsBijection(Uses, T)
  <2>1. f \in Bijection(Uses, T)
    <3> HIDE DEF f
    <3> QED
      BY <1>4, Fun_IsBij
  <2> QED
    BY <2>1 DEF ExistsBijection
<1>6. ExistsBijection(T, Uses)
  BY <1>5, Fun_ExistsBijSymmetric
<1>7. IsFiniteSet(T)
  <2>1. HeaderSize \in Int /\ PageSize - 1 \in Int
    BY Sizes
  <2>2. IsFiniteSet(HeaderSize..PageSize - 1)
    BY <2>1, FS_Interval
  <2>3. T \subseteq HeaderSize..PageSize - 1
    BY <1>2 DEF T
  <2> QED
    BY <2>2, <2>3, FS_Subset
<1>8. Cardinality(Uses) = Cardinality(T)
  BY <1>6, <1>7, FS_Bijection
<1> QED
  BY <1>8 DEF T

(* The invariant implies that nothing overlaps.                             *)
LEMMA LayoutInvDisjoint ==
  LayoutInv => NothingOverlaps
<1> SUFFICES ASSUME LayoutInv, Intact PROVE SpaceIsDisjoint
  BY DEF NothingOverlaps
<1>1. PICK bl : Layout(page, bl)
  BY DEF LayoutInv
<1>2. /\ page \in PageType /\ Linked(page, bl)
      /\ Cellsat(page) \in Seq(Cells) /\ CellsOf(page) = Cellsat(page)
  BY <1>1, LaidCells
<1>3. Range(CellsOf(page)) \subseteq Cells
  BY <1>2 DEF Range
<1>4. Cardinality({x[2] : x \in Uses}) = Cardinality(Uses)
  BY <1>1, UsesCounted
<1>5. \A x \in Uses : x[2] \in HeaderSize..PageSize - 1
  BY <1>1, UsesOf, UseInPage
<1>6. /\ \A m \in 1..Len(bl) : /\ bl[m] # 0 /\ BlockSize(page, bl[m]) \in Nat
                               /\ 2 <= BlockSize(page, bl[m])
      /\ \A m, n \in 1..Len(bl) : m # n => bl[m] # bl[n]
  BY <1>1, BlockHeld
<1>7. /\ Len(bl) \in Nat /\ Len(bl) < PageSize
      /\ \A n \in 1..PageSize : Block(page)[n] = IF n <= Len(bl) THEN bl[n] ELSE 0
      /\ Blocks(page) = {bl[m] : m \in 1..Len(bl)}
  BY <1>2, <1>6, LinkedBlocks
<1>8. ASSUME NEW n \in 2..PageSize, Block(page)[n] # 0 PROVE Block(page)[n] # Block(page)[n - 1]
  <2>1. n \in 1..PageSize /\ n - 1 \in 1..PageSize /\ n # n - 1 /\ n - 1 <= n
    BY Sizes
  <2>2. n <= Len(bl)
    BY <2>1, <1>7, <1>8
  <2>3. n \in 1..Len(bl) /\ n - 1 \in 1..Len(bl)
    BY <2>1, <2>2, <1>7, Sizes
  <2> QED
    BY <2>1, <2>3, <1>6, <1>7
<1>9. Block(page)[PageSize] = 0
  BY <1>7, Sizes
<1>10. \A b \in Blocks(page) : BlockSize(page, b) >= MinBlock
  BY <1>6, <1>7, Sizes
<1> QED
  BY <1>3, <1>4, <1>5, <1>8, <1>9, <1>10 DEF SpaceIsDisjoint

(* Whatever is inserted and deleted, no unit of an intact page is in use    *)
(* twice -- by two cells, a cell and a free block, two free blocks, or the  *)
(* pointer array and any of them --, and the list of free blocks ends.      *)
THEOREM UnitsUsedOnce == Spec => []NothingOverlaps
<1>1. Spec => []LayoutInv
  BY LayoutHolds
<1> QED
  BY <1>1, LayoutInvDisjoint, PTL

-----------------------------------------------------------------------------
(* The damage that a page reports is damage                                 *)

(* The content area begins with something that is in use: a cell, a free    *)
(* block, or the end of the page.                                           *)
Edge(p) ==
  \/ p.content = PageSize
  \/ \E i \in 1..Count(p) : p.pointers[i] = p.content
  \/ p.content \in Blocks(p)

(* A pointer lies where a cell should begin; a free block begins among the  *)
(* pointers; a free block begins within another.                            *)
Clash(p) ==
  \/ \E i \in 1..Count(p) : p.raw[p.pointers[i]].kind = "word"
  \/ \E b \in Blocks(p) : HeaderSize <= b /\ b < HeaderSize + Count(p) /\ 1 <= BlockSize(p, b)
  \/ \E a, b \in Blocks(p) : a # b /\ a <= b /\ b < a + BlockSize(p, a) /\ 1 <= BlockSize(p, b)

(* The free blocks of a page that is laid out are those of its list.        *)
LEMMA LaidBlocks ==
  ASSUME NEW p, NEW bl, Layout(p, bl)
  PROVE  /\ Len(bl) \in Nat /\ Len(bl) < PageSize
         /\ Blocks(p) = {bl[m] : m \in 1..Len(bl)}
<1>1. p \in PageType /\ Linked(p, bl)
  BY DEF Layout, BlocksHeld
<1>2. \A m, n \in 1..Len(bl) : m # n => bl[m] # bl[n]
  BY BlockHeld
<1> QED
  BY <1>1, <1>2, LinkedBlocks

(* The first m blocks of a list, each linked to the next.                   *)
Chained(q, s, m) ==
  /\ \A k \in 1..m : s[k] \in Units \ {0}
  /\ q.first = s[1]
  /\ \A k \in 1..m - 1 : q.raw[s[k]] = Word(s[k + 1])

(* The walk along the list visits them, whatever follows.                   *)
LEMMA Walked ==
  ASSUME NEW q \in PageType, NEW m \in 1..PageSize, NEW s, Chained(q, s, m)
  PROVE  \A k \in 1..m : s[k] \in Blocks(q)
<1> DEFINE H == {n \in 0..m : n # 0 => Block(q)[n] = s[n]}
<1>1. PageSize \in Nat /\ m \in Nat /\ 1 <= m /\ m <= PageSize
  BY Sizes
<1>2. /\ \A k \in 1..m : s[k] \in Units \ {0} /\ s[k] \in Nat
      /\ q.first = s[1]
      /\ \A k \in 1..m - 1 : q.raw[s[k]] = Word(s[k + 1])
  BY Sizes DEF Chained
<1>3. /\ DOMAIN Block(q) = 1..PageSize
      /\ Block(q)[1] = q.first
      /\ \A n \in 1..PageSize : n # 1 => Block(q)[n] = Following(q, Block(q)[n - 1])
  BY BlockValues
<1>4. ASSUME NEW n \in 1..m, n - 1 \in H PROVE n \in H
  <2> SUFFICES Block(q)[n] = s[n]
    BY <1>1
  <2>1. CASE n = 1
    BY <2>1, <1>2, <1>3
  <2>2. CASE n # 1
    <3>1. n - 1 \in 1..m - 1 /\ n - 1 \in 1..m /\ (n - 1) + 1 = n /\ n \in 1..PageSize /\ n - 1 # 0
      BY <2>2, <1>1
    <3>2. Block(q)[n - 1] = s[n - 1]
      BY <3>1, <1>4
    <3>3. q.raw[s[n - 1]] = Word(s[n]) /\ s[n - 1] \in Units \ {0} /\ s[n] \in Nat
      BY <3>1, <1>2
    <3>4. Following(q, s[n - 1]) = s[n]
      BY <3>3, UnitValues DEF Following
    <3>5. Block(q)[n] = Following(q, Block(q)[n - 1])
      BY <2>2, <3>1, <1>3
    <3> QED
      BY <3>2, <3>4, <3>5
  <2> QED
    BY <2>1, <2>2
<1>5. 0..m \subseteq H
  <2>1. 0 \in H
    BY <1>1
  <2> HIDE DEF H
  <2> QED
    BY <1>1, <1>4, <2>1, Induction
<1> SUFFICES ASSUME NEW k \in 1..m PROVE s[k] \in Blocks(q)
  OBVIOUS
<1>6. k \in 0..m /\ k # 0 /\ k \in 1..PageSize
  BY <1>1
<1>7. Block(q)[k] = s[k] /\ s[k] # 0
  BY <1>2, <1>5, <1>6
<1> QED
  BY <1>3, <1>6, <1>7 DEF Blocks, Range

(* One unit in use for two things, and the page's space is not disjoint.    *)
LEMMA TwoUses ==
  ASSUME page \in PageType, NEW x \in Uses, NEW y \in Uses, x # y, x[2] = y[2]
  PROVE  ~SpaceIsDisjoint
<1> SUFFICES ASSUME SpaceIsDisjoint PROVE FALSE
  OBVIOUS
<1> DEFINE T == {w[2] : w \in Uses}
           V == Uses \ {x}
           N == Count(page)
           S == (-PageSize..N) \X (HeaderSize..PageSize - 1)
           f == [w \in V |-> w[2]]
<1>1. /\ Cardinality(T) = Cardinality(Uses)
      /\ \A w \in Uses : w[2] \in HeaderSize..PageSize - 1
      /\ \A b \in Blocks(page) : BlockSize(page, b) >= 2
  BY Sizes DEF SpaceIsDisjoint
<1>2. N \in Nat /\ DOMAIN page.pointers = 1..N /\ PageSize \in Nat /\ HeaderSize \in Nat
  BY Fields, Sizes
<1>3. \A b \in Blocks(page) : b \in Nat /\ b <= PageSize
  <2> SUFFICES ASSUME NEW b \in Blocks(page) PROVE b \in Nat /\ b <= PageSize
    OBVIOUS
  <2>1. b \in Nat
    <3>1. DOMAIN Block(page) = 1..PageSize /\ \A n \in 1..PageSize : Block(page)[n] \in Nat
      BY BlockValues
    <3> QED
      BY <3>1 DEF Blocks, Range
  <2>2. BlockSize(page, b) \in Nat
    BY <2>1, BlockSizes
  <2>3. 1 <= BlockSize(page, b)
    BY <2>2, <1>1
  <2>4. b \in Units
    BY <2>1, <2>3, BlockSizes
  <2> QED
    BY <2>1, <2>4, Sizes
<1>4. ASSUME NEW w \in Uses PROVE w \in S
  <2> DEFINE cells == CellsOf(page)
             A == {<<0, u>> : u \in Span(HeaderSize, N)}
             B == UNION {{<<i, u>> : u \in Span(page.pointers[i], cells[i].size)} : i \in DOMAIN cells}
             C == UNION {{<<-b, u>> : u \in Span(b, BlockSize(page, b))} : b \in Blocks(page)}
  <2>1. w \in A \union B \union C
    BY DEF Uses
  <2>2. DOMAIN cells = 1..N
    BY <1>2 DEF CellsOf
  <2>3. \E o \in -PageSize..N : \E u : w = <<o, u>>
    <3>1. CASE w \in A
      <4>1. 0 \in -PageSize..N
        BY <1>2
      <4>2. \E u : w = <<0, u>>
        BY <3>1
      <4> QED
        BY <4>1, <4>2
    <3>2. CASE w \in B
      <4>1. PICK i \in DOMAIN cells : \E u : w = <<i, u>>
        BY <3>2
      <4>2. i \in -PageSize..N
        BY <2>2, <1>2
      <4> QED
        BY <4>1, <4>2
    <3>3. CASE w \in C
      <4>1. PICK b \in Blocks(page) : \E u : w = <<-b, u>>
        BY <3>3
      <4>2. -b \in -PageSize..N
        BY <1>2, <1>3
      <4> QED
        BY <4>1, <4>2
    <3> QED
      BY <2>1, <3>1, <3>2, <3>3
  <2>4. PICK o \in -PageSize..N : \E u : w = <<o, u>>
    BY <2>3
  <2>5. PICK u : w = <<o, u>>
    BY <2>4
  <2>6. u \in HeaderSize..PageSize - 1
    <3>1. w[2] = u
      BY <2>5
    <3> QED
      BY <3>1, <1>1
  <2> QED
    BY <2>5, <2>6
<1>5. IsFiniteSet(S)
  <2>1. -PageSize \in Int /\ N \in Int /\ HeaderSize \in Int /\ PageSize - 1 \in Int
    BY <1>2
  <2>2. IsFiniteSet(-PageSize..N) /\ IsFiniteSet(HeaderSize..PageSize - 1)
    BY <2>1, FS_Interval
  <2> QED
    BY <2>2, FS_Product
<1> HIDE DEF S
<1>6. IsFiniteSet(Uses)
  BY <1>4, <1>5, FS_Subset
<1>7. IsFiniteSet(V) /\ Cardinality(V) = Cardinality(Uses) - 1
  BY <1>6, FS_RemoveElement
<1>8. f \in Surjection(V, T)
  <2>1. \A t \in T : \E w \in V : f[w] = t
    <3> SUFFICES ASSUME NEW w \in Uses PROVE \E v \in V : v[2] = w[2]
      OBVIOUS
    <3>1. CASE w = x
      <4>1. y \in V /\ y[2] = w[2]
        BY <3>1
      <4> QED
        BY <4>1
    <3>2. CASE w # x
      BY <3>2
    <3> QED
      BY <3>1, <3>2
  <2>2. f \in [V -> T]
    OBVIOUS
  <2> HIDE DEF f, V, T
  <2> QED
    BY <2>1, <2>2, Fun_IsSurj
<1> HIDE DEF f, V, T
<1>9. Cardinality(T) <= Cardinality(V)
  BY <1>7, <1>8, FS_Surjection
<1>10. Cardinality(Uses) \in Nat
  BY <1>6, FS_CardinalityType
<1> QED
  BY <1>1, <1>7, <1>9, <1>10

(* A clash is not disjoint.                                                 *)
LEMMA ClashIsReal ==
  ASSUME page \in PageType, Clash(page)
  PROVE  ~SpaceIsDisjoint
<1> DEFINE N == Count(page)
<1>1. N \in Nat /\ DOMAIN page.pointers = 1..N
  BY Fields
<1>2. \A b \in Blocks(page) : b \in Nat /\ b # 0 /\ BlockSize(page, b) \in Nat
  <2>1. DOMAIN Block(page) = 1..PageSize /\ \A n \in 1..PageSize : Block(page)[n] \in Nat
    BY BlockValues
  <2> QED
    BY <2>1, BlockSizes DEF Blocks, Range
<1>3. ASSUME NEW b \in Blocks(page), NEW u \in Nat, b <= u, u < b + BlockSize(page, b)
      PROVE  <<-b, u>> \in Uses
  <2>1. u \in Span(b, BlockSize(page, b))
    BY <1>2, <1>3 DEF Span
  <2>2. <<-b, u>> \in UNION {{<<-d, v>> : v \in Span(d, BlockSize(page, d))} : d \in Blocks(page)}
    BY <2>1
  <2> QED
    BY <2>2 DEF Uses
<1>4. CASE \E i \in 1..N : page.raw[page.pointers[i]].kind = "word"
  <2>1. PICK i \in 1..N : page.raw[page.pointers[i]].kind = "word"
    BY <1>4
  <2> DEFINE s == ReadCell(page, i)
  <2>2. /\ s \in Seq(UnitValue) /\ Len(s) = FindCellEnd(page, i) - page.pointers[i]
        /\ \A k \in 1..Len(s) : s[k] = page.raw[page.pointers[i] + k - 1]
        /\ Entries(page)[i] = s
    BY CellReadRaw
  <2>3. page.pointers[i] < FindCellEnd(page, i) /\ FindCellEnd(page, i) \in Nat
        /\ page.pointers[i] \in Nat
    BY CellEnd, Fields, Sizes
  <2> HIDE DEF s
  <2>4. 1 \in 1..Len(s) /\ page.pointers[i] + 1 - 1 = page.pointers[i]
    BY <2>2, <2>3
  <2>5. s[1].kind = "word"
    BY <2>1, <2>2, <2>4
  <2>6. CellOf(s) = NoCell
    BY <2>5 DEF CellOf
  <2>7. CellsOf(page)[i] = NoCell /\ DOMAIN CellsOf(page) = 1..N
    <3>1. CellsOf(page) = [k \in 1..N |-> CellOf(Entries(page)[k])]
      BY <1>1 DEF CellsOf
    <3>2. CellOf(Entries(page)[i]) = NoCell
      <4>1. Entries(page)[i] = s
        BY <2>2
      <4> HIDE DEF NoCell
      <4> QED
        BY <4>1, <2>6
    <3> HIDE DEF N
    <3> QED
      BY <3>1, <3>2
  <2>8. NoCell \notin Cells
    <3>1. NoCell.key = -1 /\ -1 \notin Nat
      BY DEF NoCell
    <3> QED
      BY <3>1, SizesAssumption
  <2>9. NoCell \in Range(CellsOf(page))
    BY <2>7 DEF Range
  <2> QED
    BY <2>8, <2>9 DEF SpaceIsDisjoint
<1>5. CASE \E b \in Blocks(page) : HeaderSize <= b /\ b < HeaderSize + N /\ 1 <= BlockSize(page, b)
  <2>1. PICK b \in Blocks(page) : HeaderSize <= b /\ b < HeaderSize + N /\ 1 <= BlockSize(page, b)
    BY <1>5
  <2>2. b \in Nat /\ b # 0 /\ BlockSize(page, b) \in Nat
    BY <1>2
  <2>3. <<-b, b>> \in Uses
    BY <2>1, <2>2, <1>3
  <2>4. <<0, b>> \in Uses
    <3>1. b \in Span(HeaderSize, N)
      BY <2>1, <2>2, <1>1, Sizes DEF Span
    <3> QED
      BY <3>1 DEF Uses
  <2>5. <<-b, b>> # <<0, b>> /\ <<-b, b>>[2] = <<0, b>>[2]
    BY <2>2
  <2> QED
    BY <2>3, <2>4, <2>5, TwoUses
<1>6. CASE \E a, b \in Blocks(page) :
             a # b /\ a <= b /\ b < a + BlockSize(page, a) /\ 1 <= BlockSize(page, b)
  <2>1. PICK a \in Blocks(page), b \in Blocks(page) :
          a # b /\ a <= b /\ b < a + BlockSize(page, a) /\ 1 <= BlockSize(page, b)
    BY <1>6
  <2>2. a \in Nat /\ b \in Nat /\ BlockSize(page, b) \in Nat
    BY <1>2
  <2>3. <<-a, b>> \in Uses /\ <<-b, b>> \in Uses
    BY <2>1, <2>2, <1>3
  <2>4. <<-a, b>> # <<-b, b>> /\ <<-a, b>>[2] = <<-b, b>>[2]
    BY <2>1, <2>2
  <2> QED
    BY <2>3, <2>4, TwoUses
<1> QED
  BY <1>4, <1>5, <1>6 DEF Clash

(* After an allocation what was at the edge of the content area still is,   *)
(* or the space allocated is.                                               *)
LEMMA SpacedEdge ==
  ASSUME NEW p, NEW bl, Layout(p, bl), Edge(p), NEW z \in Nat, 2 <= z, AllocateSpace(p, z).at # 0
  PROVE  LET r == AllocateSpace(p, z)
         IN  r.page.content = r.at \/ Edge(r.page)
<1> DEFINE r == AllocateSpace(p, z)
           d == Defragment(p)
           T == FirstFit(p, z)
<1>1. p \in PageType
  BY DEF Layout
<1>2. CASE T # {}
  <2> DEFINE n == Min(T)
             f == FreeblockAlloc(p, z, n)
  <2>1. T \in SUBSET Nat
    <3>1. DOMAIN Block(p) = 1..PageSize
      BY <1>1, BlockValues
    <3>2. T \subseteq DOMAIN Block(p)
      BY DEF FirstFit
    <3> QED
      BY <3>1, <3>2, Sizes
  <2>2. \E m \in T : \A k \in T : m <= k
    <3> HIDE DEF T
    <3> QED
      BY <1>2, <2>1, Least
  <2>3. n \in T
    BY <2>2 DEF Min
  <2>4. r = f
    BY <1>2 DEF AllocateSpace
  <2> HIDE DEF n
  <2>5. /\ f.page.content = p.content
        /\ \E bs : /\ Layout(f.page, bs) /\ SameCells(f.page, p) /\ Room(f.page, bs, f.at, z)
                   /\ Stayed(bl, bs, f.at)
    BY <2>3, LaidAllocation
  <2> HIDE DEF r, f
  <2> DEFINE q == f.page
             a == f.at
  <2>6. PICK bs : Layout(q, bs) /\ SameCells(q, p) /\ Stayed(bl, bs, a)
    BY <2>5
  <2>7. q.content = p.content
    BY <2>5
  <2> HIDE DEF q, a
  <2>8. Blocks(p) = {bl[m] : m \in 1..Len(bl)} /\ Blocks(q) = {bs[m] : m \in 1..Len(bs)}
    BY <2>6, LaidBlocks
  <2>9. CASE p.content = PageSize
    BY <2>4, <2>7, <2>9 DEF Edge, q, a, r
  <2>10. CASE \E i \in 1..Count(p) : p.pointers[i] = p.content
    <3>1. Count(q) = Count(p) /\ q.pointers = p.pointers
      BY <2>6 DEF SameCells, Count
    <3>2. Edge(q)
      BY <2>7, <2>10, <3>1 DEF Edge
    <3> QED
      BY <2>4, <3>2 DEF q, r
  <2>11. CASE p.content \in Blocks(p)
    <3>1. PICK m \in 1..Len(bl) : bl[m] = p.content
      BY <2>8, <2>11
    <3>2. bl[m] = a \/ \E k \in 1..Len(bs) : bs[k] = bl[m]
      BY <2>6 DEF Stayed
    <3>3. q.content = a \/ Edge(q)
      BY <2>7, <2>8, <3>1, <3>2 DEF Edge
    <3> QED
      BY <2>4, <3>3 DEF q, a, r
  <2> QED
    BY <2>9, <2>10, <2>11 DEF Edge
<1>3. CASE T = {} /\ Below(p, z)
  <2> DEFINE g == Grow(p, z)
  <2>1. r = g
    BY <1>3 DEF AllocateSpace
  <2>2. 1 <= z
    OBVIOUS
  <2>3. g.page.content = g.at
    BY <1>3, <2>2, Grown
  <2> HIDE DEF g
  <2> QED
    BY <2>1, <2>3
<1>4. CASE T = {} /\ ~Below(p, z) /\ Below(d, z)
  <2> DEFINE g == Grow(d, z)
  <2>1. r = g
    BY <1>4 DEF AllocateSpace
  <2>2. 1 <= z
    OBVIOUS
  <2>3. Layout(d, << >>)
    BY DefragmentLayout
  <2> HIDE DEF d
  <2>4. g.page.content = g.at
    BY <1>4, <2>2, <2>3, Grown
  <2> HIDE DEF g
  <2> QED
    BY <2>1, <2>4
<1>5. CASE T = {} /\ ~Below(p, z) /\ ~Below(d, z)
  <2>1. r = [at |-> 0, page |-> d]
    BY <1>5 DEF AllocateSpace
  <2> QED
    BY <2>1
<1> QED
  BY <1>2, <1>3, <1>4, <1>5

(* A cell put into a page leaves its content area with an edge; but if the  *)
(* pointers have grown over that edge, something that is in use is lost.    *)
LEMMA PutEdge ==
  ASSUME NEW p, NEW bl, Layout(p, bl), NEW c \in Cells, NEW a \in Units, Room(p, bl, a, c.size),
         NEW i \in 1..Count(p) + 1, p.content = a \/ Edge(p)
  PROVE  LET q == Put(p, i, a, Bytes(c))
         IN  (Tight(q) => Clash(q)) /\ (~Tight(q) => Edge(q))
<1> DEFINE N == Count(p)
           s == Bytes(c)
           z == c.size
           q == Put(p, i, a, s)
           w == p.content
<1>1. p \in PageType /\ N \in Nat /\ w \in Nat /\ w <= PageSize /\ HeaderSize + N <= w
      /\ i \in Nat /\ 1 <= i /\ i <= N + 1
  BY Fields, Sizes DEF Layout, PointersHeld
<1>2. s \in Seq(UnitValue) /\ Len(s) = z /\ z \in Nat /\ 2 <= z
  BY BytesOf, Sizes
<1>3. a \in Nat /\ w <= a /\ a + z <= PageSize
      /\ \A n \in 1..Len(bl) : Apart(a, z, bl[n], BlockSize(p, bl[n]))
  BY DEF Room
<1> HIDE DEF s
<1>4. /\ q \in PageType /\ q.content = w /\ q.first = p.first
      /\ Count(q) = N + 1
      /\ \A k \in 1..N + 1 :
           q.pointers[k] = IF k < i THEN p.pointers[k] ELSE IF k = i THEN a ELSE p.pointers[k - 1]
      /\ \A u \in Units :
           q.raw[u] = IF HeaderSize <= u /\ u < HeaderSize + Count(q)
                      THEN Word(q.pointers[u - HeaderSize + 1])
                      ELSE IF a <= u /\ u < a + Len(s) THEN s[u - a + 1] ELSE p.raw[u]
  BY <1>1, <1>2, PutPage
<1> DEFINE Points == \E k \in 1..N + 1 : q.pointers[k] = w
<1>5. Points \/ \E m \in 1..Len(bl) : bl[m] = w
  <2> HIDE DEF q
  <2>1. CASE w = a
    <3>1. i \in 1..N + 1 /\ q.pointers[i] = a
      BY <1>1, <1>4
    <3> QED
      BY <2>1, <3>1
  <2>2. CASE w = PageSize
    BY <2>2, <1>1, <1>2, <1>3
  <2>3. CASE \E j \in 1..N : p.pointers[j] = w
    <3>1. PICK j \in 1..N : p.pointers[j] = w
      BY <2>3
    <3>2. CASE j < i
      <4>1. j \in 1..N + 1
        BY <1>1
      <4> QED
        BY <3>1, <3>2, <4>1, <1>4
    <3>3. CASE ~(j < i)
      <4>1. j + 1 \in 1..N + 1 /\ ~(j + 1 < i) /\ j + 1 # i /\ (j + 1) - 1 = j
        BY <3>3, <1>1
      <4> QED
        BY <3>1, <4>1, <1>4
    <3> QED
      BY <3>2, <3>3
  <2>4. CASE w \in Blocks(p)
    BY <2>4, LaidBlocks
  <2> QED
    BY <2>1, <2>2, <2>3, <2>4 DEF Edge
<1>6. ASSUME ~Tight(q) PROVE Edge(q)
  <2>1. HeaderSize + N + 1 <= w
    <3> HIDE DEF q, N, w
    <3> QED
      BY <1>1, <1>4, <1>6, Sizes DEF Tight, PointerOffset
  <2>2. LET v == Put(p, i, a, Bytes(c))
        IN  Layout(v, bl) /\ Insertion(Cellsat(v), Cellsat(p), i, c)
    BY <2>1, PutLayout
  <2>3. Layout(q, bl)
    BY <2>2 DEF s
  <2> HIDE DEF q
  <2>4. Blocks(q) = {bl[m] : m \in 1..Len(bl)}
    BY <2>3, LaidBlocks
  <2> QED
    BY <1>4, <1>5, <2>4 DEF Edge
<1>7. ASSUME Tight(q) PROVE Clash(q)
  <2> HIDE DEF q
  <2>1. w = HeaderSize + N /\ HeaderSize <= w /\ w < HeaderSize + Count(q)
    <3> HIDE DEF N, w
    <3> QED
      BY <1>1, <1>4, <1>7, Sizes DEF Tight, PointerOffset
  <2>2. w \in Units
    BY <1>1, <1>2, <1>3, Sizes
  <2>3. CASE Points
    <3>1. PICK k \in 1..N + 1 : q.pointers[k] = w
      BY <2>3
    <3>2. q.raw[w] = Word(q.pointers[w - HeaderSize + 1])
      BY <2>1, <2>2, <1>4
    <3>3. q.raw[q.pointers[k]].kind = "word"
      BY <3>1, <3>2 DEF Word
    <3> QED
      BY <3>1, <3>3, <1>4 DEF Clash
  <2>4. CASE \E m \in 1..Len(bl) : bl[m] = w
    <3>1. PICK m \in 1..Len(bl) : bl[m] = w
      BY <2>4
    <3>2. \A k \in 1..Len(bl) :
            /\ bl[k] \in Nat /\ bl[k] # 0 /\ bl[k] \in Units /\ bl[k] + 1 \in Units
            /\ w <= bl[k] /\ BlockSize(p, bl[k]) \in Nat /\ 2 <= BlockSize(p, bl[k])
      BY BlockHeld
    <3>3. \A k \in 1..Len(bl) : m # k => bl[k] # w
      BY <3>1, BlockHeld
    <3>4. Len(bl) \in Nat /\ Len(bl) < PageSize
      BY LaidBlocks
    <3>5. ASSUME NEW k \in 1..Len(bl), NEW u \in Units, u = bl[k] \/ u = bl[k] + 1, u # w
          PROVE  q.raw[u] = p.raw[u]
      <4> DEFINE b == bl[k]
                 y == BlockSize(p, b)
      <4>1. Apart(a, z, b, y) /\ b \in Nat /\ y \in Nat /\ 2 <= y /\ w <= b
        BY <3>2, <1>3
      <4>2. u = b \/ u = b + 1
        BY <3>5
      <4> HIDE DEF b, y, w
      <4>3. ~(a <= u /\ u < a + z)
        BY <4>1, <4>2, <1>2, <1>3 DEF Apart
      <4>4. ~(u < HeaderSize + Count(q))
        <5>1. Count(q) = N + 1 /\ w = HeaderSize + N
          BY <1>4, <2>1
        <5>2. w \in Nat /\ u \in Nat /\ w < u
          BY <4>1, <4>2, <3>5, <1>1
        <5>3. HeaderSize \in Nat /\ N \in Nat
          BY <1>1, Sizes
        <5> HIDE DEF N
        <5> QED
          BY <5>1, <5>2, <5>3
      <4> QED
        BY <4>3, <4>4, <1>2, <1>4
    <3>6. Chained(q, bl, m)
      <4>1. Linked(p, bl)
        BY DEF Layout, BlocksHeld
      <4>2. Len(bl) # 0 /\ m \in Nat /\ m <= Len(bl)
        BY <3>1, <3>4
      <4>3. q.first = bl[1]
        BY <4>1, <4>2, <1>4 DEF Linked
      <4>4. \A k \in 1..m : bl[k] \in Units \ {0}
        BY <3>2, <3>4, <4>2
      <4>5. ASSUME NEW k \in 1..m - 1 PROVE q.raw[bl[k]] = Word(bl[k + 1])
        <5>1. k \in 1..Len(bl) /\ k # m /\ k # Len(bl)
          BY <3>4, <4>2
        <5>2. q.raw[bl[k]] = p.raw[bl[k]]
          BY <5>1, <3>2, <3>3, <3>5
        <5>3. p.raw[bl[k]] = Word(bl[k + 1])
          BY <4>1, <5>1 DEF Linked
        <5> QED
          BY <5>2, <5>3
      <4> QED
        BY <4>3, <4>4, <4>5 DEF Chained
    <3>7. w \in Blocks(q)
      <4>1. m \in 1..PageSize /\ m \in 1..m
        BY <3>1, <3>4, Sizes
      <4> QED
        BY <4>1, <3>1, <3>6, <1>4, Walked
    <3>8. BlockSize(q, w) = BlockSize(p, w)
      <4>1. w + 1 \in Units /\ w + 1 # w /\ w + 1 = bl[m] + 1
        BY <1>1, <3>1, <3>2
      <4>2. q.raw[w + 1] = p.raw[w + 1]
        BY <4>1, <3>5
      <4> QED
        BY <4>1, <4>2 DEF BlockSize
    <3>9. 1 <= BlockSize(q, w)
      BY <3>1, <3>2, <3>8
    <3> QED
      BY <2>1, <3>7, <3>9 DEF Clash
  <2> QED
    BY <1>5, <2>3, <2>4
<1> QED
  BY <1>6, <1>7 DEF q, s

(* A packed page has a cell or its end at the edge of its content area, and *)
(* a pointer that lies over that edge lies over the last cell.              *)
LEMMA PackedEdge ==
  ASSUME NEW q, NEW es, NEW n, Packed(q, es, n)
  PROVE  Edge(q) /\ (Tight(q) => Clash(q))
<1> DEFINE N == Count(q)
<1>1. q \in PageType /\ HeaderSize + N <= q.content + 1 /\ Descends(q) /\ PointersKept(q)
  BY DEF Packed
<1>2. N \in Nat /\ q.content \in Nat
  BY <1>1, Fields, Sizes
<1>3. q.content = Above(q, N + 1)
  BY <1>1 DEF Descends
<1>4. CASE N = 0
  <2>1. q.content = PageSize
    BY <1>3, <1>4 DEF Above
  <2>2. ~Tight(q)
    BY <2>1, <1>4, Sizes DEF Tight, PointerOffset
  <2> QED
    BY <2>1, <2>2 DEF Edge
<1>5. CASE N # 0
  <2>1. N \in 1..N /\ N + 1 # 1 /\ (N + 1) - 1 = N
    BY <1>2, <1>5
  <2>2. q.pointers[N] = q.content
    BY <2>1, <1>3 DEF Above
  <2>3. Edge(q)
    BY <2>1, <2>2 DEF Edge
  <2>4. ASSUME Tight(q) PROVE Clash(q)
    <3>1. HeaderSize + N - 1 = q.content
      <4>1. HeaderSize + N > q.content
        BY <2>4 DEF Tight, PointerOffset
      <4> HIDE DEF N
      <4> QED
        BY <4>1, <1>1, <1>2, Sizes
    <3>2. q.raw[HeaderSize + N - 1] = Word(q.pointers[N])
      BY <2>1, <1>1 DEF PointersKept
    <3>3. q.raw[q.pointers[N]].kind = "word"
      BY <3>1, <3>2, <2>2 DEF Word
    <3> QED
      BY <3>3, <2>1 DEF Clash
  <2> QED
    BY <2>3, <2>4
<1> QED
  BY <1>4, <1>5

(* So has a page without free blocks that was filled with half of some      *)
(* entries.                                                                 *)
LEMMA HalfFilledEdge ==
  ASSUME NEW p \in PageType, p.first = 0, NEW es \in Seq(Seq(UnitValue)), NoneShort(es)
  PROVE  LET q == Fill(Bare(p), LowerHalf(es))
         IN  Edge(q) /\ (Tight(q) => Clash(q))
<1> DEFINE x == Bare(p)
           ls == LowerHalf(es)
           h == Len(es) \div 2
<1>1. x \in PageType /\ x.first = 0 /\ Count(x) = 0 /\ x.content = PageSize
  BY BareMoved
<1>2. h \in Nat /\ Len(ls) = h /\ \A k \in 1..h : ls[k] = es[k] /\ k \in 1..Len(es)
  <2>1. ls = SubSeq(es, 1, h) /\ h = Len(es) \div 2
    BY DEF LowerHalf
  <2> HIDE DEF h, ls
  <2>2. /\ h \in Nat /\ Len(SubSeq(es, 1, h)) = h
        /\ \A k \in 1..h : SubSeq(es, 1, h)[k] = es[k] /\ k \in 1..Len(es)
    BY <2>1, Halved
  <2> QED
    BY <2>1, <2>2
<1> HIDE DEF x, ls, h
<1>3. NoneShort(ls)
  BY <1>2 DEF NoneShort
<1>4. Packed(Fill(x, ls), ls, Len(ls))
  BY <1>1, <1>3, FillPacks
<1>5. LET q == Fill(x, ls)
      IN  Edge(q) /\ (Tight(q) => Clash(q))
  BY <1>4, PackedEdge
<1> QED
  BY <1>5 DEF x, ls

(* No entry of a page that is laid out is short.                            *)
LEMMA EntriesNotShort ==
  ASSUME NEW p, NEW bl, Layout(p, bl)
  PROVE  Entries(p) \in Seq(Seq(UnitValue)) /\ Len(Entries(p)) = Count(p) /\ NoneShort(Entries(p))
<1> DEFINE N == Count(p)
           es == Entries(p)
<1>1. p \in PageType /\ CellsHeld(p) /\ N \in Nat
  BY LaidCells
<1>2. DOMAIN p.pointers = 1..N
  BY <1>1, Fields
<1>3. es = [k \in 1..N |-> ReadCell(p, k)]
  BY <1>2 DEF Entries
<1>4. \A k \in 1..N : ReadCell(p, k) \in Seq(UnitValue)
  BY <1>1, CellReadRaw
<1>5. \A k \in 1..N : 2 <= Len(ReadCell(p, k))
  <2> SUFFICES ASSUME NEW k \in 1..N PROVE 2 <= Len(ReadCell(p, k))
    OBVIOUS
  <2>1. Begins(ReadCell(p, k), At(p, k))
    BY <1>1, CellsRead
  <2> QED
    BY <2>1, CellRead
<1> HIDE DEF N, es
<1>6. es \in Seq(Seq(UnitValue)) /\ Len(es) = N /\ \A k \in 1..N : es[k] = ReadCell(p, k)
  BY <1>1, <1>3, <1>4
<1>7. NoneShort(es)
  BY <1>1, <1>4, <1>5, <1>6 DEF NoneShort
<1> QED
  BY <1>6, <1>7 DEF es, N

(* Inserting a cell keeps the edge, or what was there is lost.              *)
LEMMA InsertedEdge ==
  ASSUME NEW p, NEW bl, Layout(p, bl), Edge(p), NEW c \in Cells, NEW i \in 1..Count(p) + 1,
         InsertCell(p, i, Bytes(c)).at # 0
  PROVE  LET q == InsertCell(p, i, Bytes(c)).page
         IN  (Tight(q) => Clash(q)) /\ (~Tight(q) => Edge(q))
<1> DEFINE s == Bytes(c)
           r == InsertCell(p, i, s)
           a == AllocateSpace(p, c.size)
           g == a.page
           at == a.at
           q == Put(g, i, at, s)
<1>1. p \in PageType /\ c.size \in Nat /\ 2 <= c.size
  BY Sizes DEF Layout
<1>2. ~NeedsDefrag(p)
  <2>1. p.content \in Nat /\ p.fragments = 0
    BY <1>1, Fields, Sizes
  <2> QED
    BY <2>1 DEF NeedsDefrag
<1>3. Len(s) = c.size
  BY BytesOf
<1>4. r = IF at = 0 THEN a ELSE [at |-> at, page |-> q]
  BY <1>2, <1>3 DEF InsertCell, Put
<1>5. at # 0
  BY <1>4
<1>6. r.page = q
  BY <1>4, <1>5
<1>7. g.content = at \/ Edge(g)
  BY <1>1, <1>5, SpacedEdge
<1>8. /\ at \in Units
      /\ \E bs : /\ Layout(g, bs) /\ Room(g, bs, at, c.size)
                 /\ Count(g) = Count(p) /\ Cellsat(g) = Cellsat(p)
  BY <1>1, <1>5, Spaced
<1> HIDE DEF g, at, r
<1>9. PICK bs : Layout(g, bs) /\ Room(g, bs, at, c.size) /\ Count(g) = Count(p)
  BY <1>8
<1>10. i \in 1..Count(g) + 1
  BY <1>9
<1>11. LET v == Put(g, i, at, Bytes(c))
       IN  (Tight(v) => Clash(v)) /\ (~Tight(v) => Edge(v))
  BY <1>7, <1>8, <1>9, <1>10, PutEdge
<1> QED
  BY <1>6, <1>11 DEF r, s

(* An insert leaves an intact page with an edge to its content area; if it  *)
(* reports a pointer over the content, something that is in use is lost.    *)
LEMMA InsertEdge ==
  ASSUME LayoutInv, Edge(page), NEW c \in Cells, NEW margin \in Margins, Insert(c, margin)
  PROVE  /\ damage' = "none" => Edge(page')
         /\ damage' = "pointer over content" => Clash(page')
         /\ damage' # "freed twice"
<1> DEFINE i == Index(page, c)
           o == Bytes(c)
           r == InsertCell(page, i, o)
           rp == r.page
           full == r.at = 0 \/ SpaceLeft(rp) < margin
           entries == IF r.at = 0 THEN InsertAt(Entries(rp), i, o) ELSE Entries(rp)
           ls == LowerHalf(entries)
           lower == Fill(Bare(rp), ls)
           us == UpperHalf(entries, margin)
           upper == Fill(Empty, us)
           lost == Count(lower) < Len(ls) \/ Count(upper) < Len(us) \/ Tight(upper)
           N == Count(page)
<1>1. PICK bl : Layout(page, bl)
  BY DEF LayoutInv, Insert, Intact
<1>2. /\ page' = IF full /\ ~Tight(rp) THEN lower ELSE rp
      /\ damage' = IF Tight(rp) THEN "pointer over content"
                   ELSE IF ~full THEN "none"
                   ELSE IF rp.first # 0 THEN "free list kept"
                   ELSE IF Tight(lower) THEN "pointer over content"
                   ELSE IF lost THEN "cell lost"
                   ELSE "none"
  BY DEF Insert
<1>3. page \in PageType /\ N \in Nat
  BY <1>1, LaidCells
<1>4. i \in 1..N + 1
  BY <1>3, IndexRange
<1>5. o \in Seq(UnitValue) /\ 2 <= Len(o)
  BY BytesOf, Sizes
<1>6. \/ r.at = 0 /\ rp = Defragment(page)
      \/ r.at # 0 /\ (~Tight(rp) => \E bs : Layout(rp, bs))
  <2>1. LET v == InsertCell(page, i, Bytes(c))
        IN  \/ v.at = 0 /\ v.page = Defragment(page)
            \/ /\ v.at # 0 /\ v.page \in PageType /\ v.page.first \in Units
               /\ ~Tight(v.page) =>
                    \E bs : Layout(v.page, bs) /\ Insertion(Cellsat(v.page), Cellsat(page), i, c)
    <3> HIDE DEF i
    <3> QED
      BY <1>1, <1>4, CellInserted
  <2> QED
    BY <2>1
<1>7. r.at # 0 => (Tight(rp) => Clash(rp)) /\ (~Tight(rp) => Edge(rp))
  <2> SUFFICES ASSUME r.at # 0 PROVE (Tight(rp) => Clash(rp)) /\ (~Tight(rp) => Edge(rp))
    OBVIOUS
  <2>1. InsertCell(page, i, Bytes(c)).at # 0
    OBVIOUS
  <2>2. LET q == InsertCell(page, i, Bytes(c)).page
        IN  (Tight(q) => Clash(q)) /\ (~Tight(q) => Edge(q))
    <3> HIDE DEF i
    <3> QED
      BY <1>1, <1>4, <2>1, InsertedEdge
  <2> QED
    BY <2>2
<1> HIDE DEF i, o, r
<1>8. r.at = 0 => Layout(rp, << >>)
  <2> HIDE DEF rp
  <2> QED
    BY <1>1, <1>6, DefragmentLayout
<1>9. ~Tight(rp) => entries \in Seq(Seq(UnitValue)) /\ NoneShort(entries) /\ rp \in PageType
  <2> SUFFICES ASSUME ~Tight(rp)
               PROVE  entries \in Seq(Seq(UnitValue)) /\ NoneShort(entries) /\ rp \in PageType
    OBVIOUS
  <2>1. PICK bs : Layout(rp, bs)
    BY <1>6, <1>8
  <2> DEFINE es == Entries(rp)
  <2>2. es \in Seq(Seq(UnitValue)) /\ Len(es) = Count(rp) /\ NoneShort(es)
    BY <2>1, EntriesNotShort
  <2>3. rp \in PageType
    BY <2>1, LaidCells
  <2>4. CASE r.at # 0
    <3>1. entries = es
      BY <2>4
    <3> HIDE DEF entries, es, rp
    <3> QED
      BY <2>2, <2>3, <3>1
  <2>5. CASE r.at = 0
    <3> DEFINE ds == InsertAt(es, i, o)
    <3>1. entries = ds
      BY <2>5
    <3>2. Count(rp) = N
      <4>1. rp = Defragment(page)
        BY <2>5, <1>6
      <4> HIDE DEF rp
      <4> QED
        BY <4>1, <1>1, DefragmentLayout
    <3> HIDE DEF es, rp, N
    <3>3. ds \in Seq(Seq(UnitValue)) /\ Insertion(ds, es, i, o)
      <4>1. i \in 1..Len(es) + 1
        BY <2>2, <3>2, <1>4
      <4> QED
        BY <4>1, <2>2, <1>5, InsertedAt
    <3> HIDE DEF ds
    <3>4. Len(es) \in Nat /\ Len(ds) = Len(es) + 1
          /\ \A k \in 1..Len(es) + 1 : ds[k] = IF k < i THEN es[k] ELSE IF k = i THEN o ELSE es[k - 1]
      BY <2>2, <3>3 DEF Insertion
    <3>5. ASSUME NEW k \in 1..Len(ds) PROVE ds[k] \in Seq(UnitValue) /\ 2 <= Len(ds[k])
      <4>1. CASE k < i
        <5>1. k \in 1..Len(es) /\ ds[k] = es[k]
          BY <4>1, <3>2, <3>4, <2>2, <1>3, <1>4
        <5> QED
          BY <5>1, <2>2 DEF NoneShort
      <4>2. CASE k = i
        <5>1. ds[k] = o
          BY <4>2, <3>4
        <5> QED
          BY <5>1, <1>5
      <4>3. CASE k > i
        <5>1. k - 1 \in 1..Len(es) /\ ds[k] = es[k - 1]
          BY <4>3, <3>2, <3>4, <2>2, <1>3, <1>4
        <5> QED
          BY <5>1, <2>2 DEF NoneShort
      <4> QED
        BY <4>1, <4>2, <4>3, <1>4
    <3>6. NoneShort(ds)
      BY <3>4, <3>5 DEF NoneShort
    <3> HIDE DEF entries
    <3> QED
      BY <2>3, <3>1, <3>3, <3>6
  <2> QED
    BY <2>4, <2>5
<1>10. ~Tight(rp) /\ rp.first = 0 => Edge(lower) /\ (Tight(lower) => Clash(lower))
  <2> HIDE DEF entries, rp
  <2> QED
    BY <1>9, HalfFilledEdge
<1>11. r.at = 0 => ~Tight(rp)
  <2> HIDE DEF rp
  <2> QED
    BY <1>8, LaidCells
<1>12. r.at = 0 => full
  OBVIOUS
<1> HIDE DEF lower, lost, full, rp
<1>13. CASE Tight(rp)
  BY <1>2, <1>7, <1>11, <1>13
<1>14. CASE ~Tight(rp) /\ ~full
  BY <1>2, <1>7, <1>12, <1>14
<1>15. CASE ~Tight(rp) /\ full
  BY <1>2, <1>10, <1>15
<1> QED
  BY <1>13, <1>14, <1>15

(* A delete keeps the edge; if it reports that a block was freed twice, the *)
(* new first block has another one within it.                               *)
LEMMA DeleteEdge ==
  ASSUME LayoutInv, Edge(page), NEW i \in DOMAIN page.pointers, Delete(i)
  PROVE  /\ damage' = "none" => Edge(page')
         /\ damage' = "freed twice" => Clash(page')
         /\ damage' # "pointer over content"
<1> DEFINE q == DeleteCell(page, i)
           a == page.pointers[i]
           e == FindCellEnd(page, i)
           n == Len(ReadCell(page, i))
           N == Count(page)
<1>1. PICK bl : Layout(page, bl)
  BY DEF LayoutInv, Delete, Intact
<1>2. /\ page \in PageType /\ CellsHeld(page) /\ Linked(page, bl) /\ N \in Nat
      /\ page.content \in Nat /\ HeaderSize + N <= page.content
  BY <1>1, LaidCells, Fields, Sizes DEF PointersHeld
<1>3. i \in 1..N
  BY <1>2, Fields
<1>4. /\ page' = q
      /\ damage' = IF \E b \in Blocks(page) : b \in Span(a, n) THEN "freed twice" ELSE "none"
  BY DEF Delete
<1>5. /\ a \in Nat /\ a \in Units /\ page.content <= a /\ a # 0
      /\ At(page, i).size \in Nat /\ 2 <= At(page, i).size
      /\ a + At(page, i).size <= e /\ e \in Nat /\ e <= PageSize
  BY <1>2, <1>3, CellHeld, Sizes
<1>6. n = e - a
  BY <1>2, <1>3, CellReadRaw
<1>7. n \in Nat /\ 2 <= n /\ a + n = e /\ \A b \in Nat : b \in Span(a, n) <=> a <= b /\ b < e
  <2> HIDE DEF n, a, e
  <2> QED
    BY <1>5, <1>6 DEF Span
<1>8. /\ q \in PageType /\ q.content = page.content /\ q.first = a /\ Count(q) = N - 1
      /\ \A k \in 1..N - 1 : q.pointers[k] = IF k < i THEN page.pointers[k] ELSE page.pointers[k + 1]
      /\ \A u \in Units :
           q.raw[u] = IF HeaderSize <= u /\ u < HeaderSize + Count(q)
                      THEN Word(q.pointers[u - HeaderSize + 1])
                      ELSE IF u = a THEN Word(page.first)
                      ELSE IF u = a + 1 THEN Word(n)
                      ELSE page.raw[u]
  BY <1>2, <1>3, <1>7, CellFreed
<1>9. /\ Len(bl) \in Nat /\ Len(bl) < PageSize
      /\ Blocks(page) = {bl[m] : m \in 1..Len(bl)}
  BY <1>1, LaidBlocks
<1>10. \A m \in 1..Len(bl) :
         /\ bl[m] \in Nat /\ bl[m] # 0 /\ bl[m] \in Units /\ bl[m] + 1 \in Units
         /\ page.content <= bl[m]
         /\ BlockSize(page, bl[m]) \in Nat /\ 2 <= BlockSize(page, bl[m])
  BY <1>1, BlockHeld
<1> DEFINE s == <<a>> \o bl
<1>11. s \in Seq(Units \ {0}) /\ Prefixed(s, bl, a)
  <2>1. bl \in Seq(Units \ {0}) /\ a \in Units \ {0}
    BY <1>2, <1>5 DEF Linked
  <2> QED
    BY <2>1, Prepended
<1> HIDE DEF q, n, s
<1>12. s[1] = a /\ Len(s) = Len(bl) + 1 /\ \A m \in 1..Len(bl) : s[m + 1] = bl[m]
  BY <1>11 DEF Prefixed
<1>13. ASSUME damage' = "none" PROVE Edge(q)
  <2>1. ASSUME NEW m \in 1..Len(bl) PROVE ~(a <= bl[m] /\ bl[m] < e)
    <3>1. bl[m] \in Nat /\ bl[m] \in Blocks(page)
      BY <1>9, <1>10
    <3>2. ~(bl[m] \in Span(a, n))
      BY <3>1, <1>4, <1>13
    <3> QED
      BY <3>1, <3>2, <1>7
  <2>2. LET v == DeleteCell(page, i)
        IN  Layout(v, <<a>> \o bl) /\ Removal(Cellsat(v), Cellsat(page), i)
    BY <1>1, <1>3, <2>1, CellDeleted
  <2>3. Layout(q, s)
    BY <2>2 DEF q, s
  <2>4. Blocks(q) = {s[m] : m \in 1..Len(s)}
    BY <2>3, LaidBlocks
  <2>5. a \in Blocks(q) /\ \A m \in 1..Len(bl) : bl[m] \in Blocks(q)
    <3>1. 1 \in 1..Len(s) /\ \A m \in 1..Len(bl) : m + 1 \in 1..Len(s)
      BY <1>9, <1>12
    <3> QED
      BY <3>1, <2>4, <1>12
  <2>6. CASE page.content = PageSize
    BY <2>6, <1>8 DEF Edge
  <2>7. CASE \E j \in 1..N : page.pointers[j] = page.content
    <3>1. PICK j \in 1..N : page.pointers[j] = page.content
      BY <2>7
    <3>2. CASE j = i
      BY <3>1, <3>2, <2>5, <1>8 DEF Edge
    <3>3. CASE j < i
      <4>1. j \in 1..N - 1
        BY <3>3, <1>2, <1>3
      <4>2. q.pointers[j] = q.content /\ j \in 1..Count(q)
        BY <3>1, <3>3, <4>1, <1>8
      <4> QED
        BY <4>2 DEF Edge
    <3>4. CASE j > i
      <4>1. j - 1 \in 1..N - 1 /\ ~(j - 1 < i) /\ (j - 1) + 1 = j
        BY <3>4, <1>2, <1>3
      <4>2. q.pointers[j - 1] = q.content /\ j - 1 \in 1..Count(q)
        BY <3>1, <4>1, <1>8
      <4> QED
        BY <4>2 DEF Edge
    <3> QED
      BY <3>2, <3>3, <3>4, <1>3
  <2>8. CASE page.content \in Blocks(page)
    BY <2>8, <2>5, <1>8, <1>9 DEF Edge
  <2> QED
    BY <2>6, <2>7, <2>8 DEF Edge
<1>14. ASSUME damage' = "freed twice" PROVE Clash(q)
  <2>1. PICK m \in 1..Len(bl) : bl[m] \in Span(a, n)
    <3>1. \E b \in Blocks(page) : b \in Span(a, n)
      BY <1>4, <1>14
    <3> QED
      BY <3>1, <1>9
  <2>2. a <= bl[m] /\ bl[m] < a + n
    BY <2>1, <1>7, <1>10
  <2>3. \A k \in 1..Len(bl) : a # bl[k] /\ a + 1 # bl[k]
    <3> SUFFICES ASSUME NEW k \in 1..Len(bl) PROVE a # bl[k] /\ a + 1 # bl[k]
      OBVIOUS
    <3>1. Apart(bl[k], BlockSize(page, bl[k]), a, At(page, i).size)
      BY <1>1, <1>3 DEF Layout, BlocksHeld
    <3>2. Apart(a, At(page, i).size, bl[k], BlockSize(page, bl[k]))
      BY <3>1, ApartIsSymmetric
    <3> HIDE DEF a
    <3> QED
      BY <3>2, <1>5, <1>10, ApartHeads
  <2> HIDE DEF a, e
  <2>4. ASSUME NEW u \in Units, page.content <= u PROVE ~(u < HeaderSize + Count(q))
    <3> HIDE DEF N
    <3> QED
      BY <2>4, <1>2, <1>8, Sizes
  <2>5. \A k \in 1..Len(bl) : q.raw[bl[k]] = page.raw[bl[k]]
    BY <2>3, <2>4, <1>8, <1>10
  <2>6. q.raw[a] = Word(page.first)
    BY <2>4, <1>5, <1>8
  <2>7. a + 1 \in Units /\ q.raw[a + 1] = Word(n)
    <3>1. a + 1 \in Units /\ page.content <= a + 1 /\ a + 1 # a
      BY <1>2, <1>5, <1>7, Sizes
    <3> QED
      BY <3>1, <2>4, <1>8
  <2>8. bl[m] + 1 \in Units /\ q.raw[bl[m] + 1] = page.raw[bl[m] + 1]
    <3> DEFINE b == bl[m]
    <3>1. b \in Nat /\ b + 1 \in Units /\ page.content <= b /\ a <= b /\ a # b
      BY <2>2, <2>3, <1>10
    <3> HIDE DEF b
    <3>2. page.content <= b + 1 /\ b + 1 # a /\ b + 1 # a + 1
      BY <3>1, <1>2, <1>5
    <3>3. q.raw[b + 1] = page.raw[b + 1]
      BY <3>1, <3>2, <2>4, <1>8
    <3> QED
      BY <3>1, <3>3 DEF b
  <2>9. Chained(q, s, m + 1)
    <3>1. m \in Nat /\ 1 <= m /\ m <= Len(bl)
      BY <1>9
    <3>2. \A k \in 1..m + 1 : s[k] \in Units \ {0}
      <4>1. \A k \in 1..m + 1 : k \in 1..Len(s)
        BY <3>1, <1>9, <1>12
      <4> QED
        BY <4>1, <1>11
    <3>3. ASSUME NEW k \in 1..m PROVE q.raw[s[k]] = Word(s[k + 1])
      <4>1. s[k + 1] = bl[k] /\ k \in 1..Len(bl)
        BY <3>1, <1>9, <1>12
      <4>2. CASE k = 1
        <5>1. Len(bl) # 0
          BY <3>1
        <5>2. page.first = bl[1]
          BY <5>1, <1>2 DEF Linked
        <5> QED
          BY <4>1, <4>2, <5>2, <2>6, <1>12
      <4>3. CASE k # 1
        <5>1. k - 1 \in 1..Len(bl) /\ k - 1 # Len(bl) /\ (k - 1) + 1 = k
          BY <4>3, <3>1, <1>9
        <5>2. s[k] = bl[k - 1]
          BY <5>1, <1>12
        <5>3. page.raw[bl[k - 1]] = Word(bl[k])
          BY <5>1, <1>2 DEF Linked
        <5> QED
          BY <4>1, <5>1, <5>2, <5>3, <2>5
      <4> QED
        BY <4>2, <4>3
    <3>4. (m + 1) - 1 = m
      BY <3>1
    <3> QED
      BY <3>2, <3>3, <3>4, <1>8, <1>12 DEF Chained
  <2>10. a \in Blocks(q) /\ bl[m] \in Blocks(q)
    <3>1. m + 1 \in 1..PageSize /\ 1 \in 1..m + 1 /\ m + 1 \in 1..m + 1
      BY <1>9, Sizes
    <3>2. \A k \in 1..m + 1 : s[k] \in Blocks(q)
      BY <2>9, <3>1, <1>8, Walked
    <3> QED
      BY <3>1, <3>2, <1>12
  <2>11. BlockSize(q, a) = n
    BY <2>7, <1>7, UnitValues DEF BlockSize
  <2>12. 1 <= BlockSize(q, bl[m])
    <3>1. BlockSize(q, bl[m]) = BlockSize(page, bl[m])
      BY <2>8 DEF BlockSize
    <3> QED
      BY <3>1, <1>10
  <2> QED
    BY <2>2, <2>3, <2>10, <2>11, <2>12 DEF Clash
<1>15. damage' # "pointer over content"
  BY <1>4
<1> QED
  BY <1>4, <1>13, <1>14, <1>15

(* The invariant, with what an intact page has at its edge, and what one    *)
(* that reports these kinds of damage has lost.                             *)
EdgeInv ==
  /\ LayoutInv
  /\ Intact => Edge(page)
  /\ damage \in {"freed twice", "pointer over content"} => Clash(page)

(* The invariant holds at first.                                            *)
LEMMA EdgeInvInit ==
  Init => EdgeInv
<1> SUFFICES ASSUME Init PROVE EdgeInv
  OBVIOUS
<1>1. LayoutInv
  BY LayoutInvInit
<1>2. page.content = PageSize
  BY DEF Init, Empty
<1> QED
  BY <1>1, <1>2 DEF EdgeInv, Edge, Init

(* Every step keeps it.                                                     *)
LEMMA EdgeInvNext ==
  EdgeInv /\ [Next]_vars => EdgeInv'
<1> SUFFICES ASSUME EdgeInv, [Next]_vars PROVE EdgeInv'
  OBVIOUS
<1>1. LayoutInv'
  BY LayoutInvNext DEF EdgeInv
<1>2. Edge(page)' = Edge(page') /\ Clash(page)' = Clash(page')
  BY DEF Edge, Clash, Blocks, Block, BlockSize, Count
<1>3. CASE \E c \in Cells, margin \in Margins : Insert(c, margin)
  <2>1. PICK c \in Cells, margin \in Margins : Insert(c, margin)
    BY <1>3
  <2>2. LayoutInv /\ Edge(page)
    BY <2>1 DEF EdgeInv, Insert
  <2>3. /\ damage' = "none" => Edge(page')
        /\ damage' = "pointer over content" => Clash(page')
        /\ damage' # "freed twice"
    BY <2>1, <2>2, InsertEdge
  <2> QED
    BY <2>3, <1>1, <1>2 DEF EdgeInv, Intact
<1>4. CASE \E i \in DOMAIN page.pointers : Delete(i)
  <2>1. PICK i \in DOMAIN page.pointers : Delete(i)
    BY <1>4
  <2>2. LayoutInv /\ Edge(page)
    BY <2>1 DEF EdgeInv, Delete
  <2>3. /\ damage' = "none" => Edge(page')
        /\ damage' = "freed twice" => Clash(page')
        /\ damage' # "pointer over content"
    BY <2>1, <2>2, DeleteEdge
  <2> QED
    BY <2>3, <1>1, <1>2 DEF EdgeInv, Intact
<1>5. CASE UNCHANGED vars
  <2>1. page' = page /\ damage' = damage
    BY <1>5 DEF vars
  <2> QED
    BY <2>1, <1>1, <1>2 DEF EdgeInv, Intact
<1> QED
  BY <1>3, <1>4, <1>5 DEF Next

(* The kinds of damage that a page reports on its own space are damage: a   *)
(* cell deleted below a free block leaves two free blocks that overlap, and *)
(* a cell placed against the pointers loses its first bytes to its own      *)
(* pointer, or a cell or a free block there loses them.                     *)
THEOREM ReportedDamageIsReal == Spec => []DamageIsReal
<1>1. Init => EdgeInv
  BY EdgeInvInit
<1>2. EdgeInv /\ [Next]_vars => EdgeInv'
  BY EdgeInvNext
<1>3. EdgeInv => DamageIsReal
  BY ClashIsReal DEF EdgeInv, LayoutInv, DamageIsReal
<1> QED
  BY <1>1, <1>2, <1>3, PTL DEF Spec
=============================================================================
