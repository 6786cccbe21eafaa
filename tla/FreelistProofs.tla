--------------------------- MODULE FreelistProofs ---------------------------
(***************************************************************************)
(* Proofs about module Freelist, for a file of any number of pages and     *)
(* trunk pages with any number of leaves.                                  *)
(***************************************************************************)
EXTENDS Freelist, Loops, FunctionTheorems, SequenceTheorems, FiniteSetTheorems

\* The pages that can be allocated.
Low == 2..MaxPages

LEMMA Pages ==
  /\ 1 \in Page /\ Low \subseteq Page /\ 1 \notin Low /\ 0 \notin Low
  /\ \A p \in Page : p = 1 \/ p \in Low
  /\ \A p \in Page : p \in Nat
BY MaxPagesAssumption DEF Page, Low

-----------------------------------------------------------------------------
(* Types *)

LeafSeq == {l \in Seq(Low) : Len(l) <= MaxLeaves}
Content == [next : Low \cup {0}, leaves : LeafSeq] \cup {InUse}
Header  == [trunk : Low \cup {0}, count : Nat, size : Page]

\* As TypeOK, and no page number is that of page 1: the pages of readers, ...
FilesType ==
  /\ view = [p \in Page |-> view[p]] /\ view[1] \in Header
  /\ before = [p \in Page |-> before[p]] /\ before[1] \in Header \cup {NoImage}
  /\ \A p \in Low : view[p] \in Content
  /\ \A p \in Low : before[p] \in Content \cup {NoImage}
  /\ dirty \subseteq Page

\* ... and the rest.
OtherTypes ==
  /\ disk = [p \in Page |-> disk[p]] /\ disk[1] \in Header
  /\ \A p \in Low : disk[p] \in Content
  /\ Fields(trunk, count, total) \in Header /\ fieldsThen \in Header \cup {NoFields}
  /\ pending \subseteq dirty
  /\ used \subseteq Low /\ usedThen \subseteq Low
  /\ op \in {"idle", "allocate", "free"} /\ page \in Low \cup {0}
  /\ op = "allocate" => page \in Low
  /\ field \in {"none", "trunk", "count", "size"}
  /\ op = "idle" => pending = {} /\ field = "none"
  /\ {inTx, overflowed, undone, torn} \subseteq BOOLEAN

TypeInv == FilesType /\ OtherTypes

-----------------------------------------------------------------------------
(* What is written *)

\* Contents of pages.
LEMMA Contents ==
  /\ Zero \in Content /\ InUse \in Content
  /\ \A n \in Low \cup {0}, l \in LeafSeq :
       /\ Trunk(n, l) \in Content /\ Trunk(n, l) # InUse
       /\ Trunk(n, l).next = n /\ Trunk(n, l).leaves = l
  /\ \A c \in Content : c # InUse => c.next \in Low \cup {0} /\ c.leaves \in LeafSeq
  /\ Zero # InUse /\ Zero.next = 0 /\ Zero.leaves = <<>>
<1>1. <<>> \in LeafSeq
  BY MaxLeavesAssumption DEF LeafSeq
<1>2. \A n, l : Trunk(n, l) # InUse
  BY DEF Trunk, InUse
<1> QED
  BY <1>1, <1>2 DEF Zero, Trunk, Content

\* Leaves that come and go.
LEMMA LeafSequences ==
  ASSUME NEW l \in LeafSeq
  PROVE  /\ l \in Seq(Low) /\ Len(l) \in Nat /\ Len(l) <= MaxLeaves
         /\ DOMAIN l = 1..Len(l) /\ \A i \in 1..Len(l) : l[i] \in Low
         /\ \A p \in Low :
              /\ Len(l) < MaxLeaves => Append(l, p) \in LeafSeq
              /\ Len(Append(l, p)) = Len(l) + 1 /\ Append(l, p)[Len(l) + 1] = p
              /\ \A i \in 1..Len(l) : Append(l, p)[i] = l[i]
         /\ l # <<>> => /\ Len(l) > 0 /\ l[Len(l)] \in Low
                        /\ SubSeq(l, 1, Len(l) - 1) \in LeafSeq
                        /\ Len(SubSeq(l, 1, Len(l) - 1)) = Len(l) - 1
                        /\ \A i \in 1..(Len(l) - 1) : SubSeq(l, 1, Len(l) - 1)[i] = l[i]
         /\ l = <<>> <=> Len(l) = 0
<1>1. l \in Seq(Low) /\ Len(l) \in Nat /\ Len(l) <= MaxLeaves
      /\ DOMAIN l = 1..Len(l) /\ \A i \in 1..Len(l) : l[i] \in Low
  BY DEF LeafSeq
<1>2. \A p \in Low : /\ Append(l, p) \in Seq(Low) /\ Len(Append(l, p)) = Len(l) + 1
                     /\ Append(l, p)[Len(l) + 1] = p
                     /\ \A i \in 1..Len(l) : Append(l, p)[i] = l[i]
  BY <1>1
<1>3. l = <<>> <=> Len(l) = 0
  BY <1>1, EmptySeq
<1>4. ASSUME l # <<>>
      PROVE  /\ Len(l) > 0 /\ l[Len(l)] \in Low
             /\ SubSeq(l, 1, Len(l) - 1) \in Seq(Low) /\ Len(SubSeq(l, 1, Len(l) - 1)) = Len(l) - 1
             /\ \A i \in 1..(Len(l) - 1) : SubSeq(l, 1, Len(l) - 1)[i] = l[i]
  <2>1. Len(l) > 0 /\ Len(l) \in 1..Len(l)
    BY <1>1, <1>3, <1>4
  <2>2. \A i \in 1..(Len(l) - 1) : i \in 1..Len(l)
    BY <1>1
  <2>3. \A i \in 1..(Len(l) - 1) : l[i] \in Low
    BY <1>1, <2>2
  <2>4. 1 \in Int /\ Len(l) - 1 \in Int
    BY <1>1
  <2>5. l[Len(l)] \in Low
    BY <1>1, <2>1
  <2> DEFINE t == SubSeq(l, 1, Len(l) - 1)
  <2>6. /\ t \in Seq(Low) /\ Len(t) = IF 1 <= Len(l) - 1 THEN Len(l) - 1 - 1 + 1 ELSE 0
        /\ \A i \in 1..((Len(l) - 1) - 1 + 1) : t[i] = l[1 + i - 1]
    BY <2>3, <2>4, SubSeqProperties
  <2> HIDE DEF t
  <2>8. \A i \in 1..(Len(l) - 1) : t[i] = l[i]
    <3>1. (Len(l) - 1) - 1 + 1 = Len(l) - 1 /\ \A i \in 1..(Len(l) - 1) : 1 + i - 1 = i
      BY <1>1
    <3> QED
      BY <2>6, <3>1
  <2>7. Len(t) = Len(l) - 1
    <3>1. \A n \in Nat : n > 0 => (IF 1 <= n - 1 THEN n - 1 - 1 + 1 ELSE 0) = n - 1
      OBVIOUS
    <3>2. Len(l) \in Nat /\ Len(l) > 0
      BY <1>1, <2>1
    <3> QED
      BY <2>6, <3>1, <3>2
  <2> QED
    BY <2>1, <2>5, <2>6, <2>7, <2>8 DEF t
<1> QED
  BY <1>1, <1>2, <1>3, <1>4, MaxLeavesAssumption DEF LeafSeq

\* Fields of the header that are written.
LEMMA HeaderFields ==
  ASSUME NEW h \in Header
  PROVE  /\ \A v : /\ [h EXCEPT !["trunk"] = v] = Fields(v, h.count, h.size)
                   /\ [h EXCEPT !["count"] = v] = Fields(h.trunk, v, h.size)
                   /\ [h EXCEPT !["size"] = v] = Fields(h.trunk, h.count, v)
         /\ h = Fields(h.trunk, h.count, h.size)
         /\ h.trunk \in Low \cup {0} /\ h.count \in Nat /\ h.size \in Page
BY DEF Header, Fields

LEMMA FieldsIn ==
  ASSUME NEW t \in Low \cup {0}, NEW c \in Nat, NEW s \in Page
  PROVE  Fields(t, c, s) \in Header
BY DEF Header, Fields

LEMMA FieldsTo ==
  ASSUME NEW h \in Header
  PROVE  /\ \A v \in Low \cup {0} : [h EXCEPT !["trunk"] = v] \in Header
         /\ \A v \in Nat : [h EXCEPT !["count"] = v] \in Header
         /\ \A v \in Page : [h EXCEPT !["size"] = v] \in Header
BY DEF Header

\* Page writes of a method.
Writes(f) == DOMAIN f \subseteq Low /\ \A p \in DOMAIN f : f[p] \in Content

LEMMA WritesOf ==
  /\ Writes(Nothing) /\ DOMAIN Nothing = {}
  /\ \A p \in Low, c \in Content :
       Writes(Write(p, c)) /\ DOMAIN Write(p, c) = {p} /\ Write(p, c)[p] = c
  /\ \A p, q \in Low, c, d \in Content :
       /\ Writes(Write2(p, c, q, d)) /\ DOMAIN Write2(p, c, q, d) = {p, q}
       /\ Write2(p, c, q, d)[p] = c /\ (p # q => Write2(p, c, q, d)[q] = d)
BY DEF Writes, Nothing, Write, Write2

\* The types of the pages after a write.
LEMMA PutTypes ==
  ASSUME TypeInv, NEW f, Writes(f), Put(f)
  PROVE  FilesType' /\ UNCHANGED <<disk, inTx, usedThen, fieldsThen>> /\ dirty' = dirty \cup DOMAIN f
<1>1. view' = [p \in Page |-> IF p \in DOMAIN f THEN f[p] ELSE view[p]]
  BY DEF Put
<1>2. before' = [p \in Page |-> IF inTx /\ p \in DOMAIN f /\ before[p] = NoImage
                                THEN disk[p] ELSE before[p]]
  BY DEF Put
<1>3. view' = [p \in Page |-> view'[p]] /\ view'[1] \in Header
  BY <1>1, Pages DEF Writes, TypeInv, FilesType, OtherTypes
<1>4. before' = [p \in Page |-> before'[p]] /\ before'[1] \in Header \cup {NoImage}
  BY <1>2, Pages DEF TypeInv, FilesType, OtherTypes
<1>5. \A p \in Low : view'[p] \in Content
  BY <1>1, Pages DEF Writes, TypeInv, FilesType, OtherTypes
<1>6. \A p \in Low : before'[p] \in Content \cup {NoImage}
  BY <1>2, Pages DEF TypeInv, FilesType, OtherTypes
<1>7. dirty' \subseteq Page /\ dirty' = dirty \cup DOMAIN f /\ UNCHANGED <<disk, inTx, usedThen, fieldsThen>>
  BY Pages DEF Put, Writes, TypeInv, FilesType, OtherTypes
<1> QED
  BY <1>3, <1>4, <1>5, <1>6, <1>7 DEF FilesType

LEMMA PutHeaderTypes ==
  ASSUME TypeInv, NEW f, Writes(f), NEW name, NEW value,
         [view[1] EXCEPT ![name] = value] \in Header, PutHeader(f, name, value)
  PROVE  /\ FilesType' /\ UNCHANGED <<disk, inTx, usedThen, fieldsThen>>
         /\ dirty' = dirty \cup DOMAIN f \cup {1} /\ pending' = dirty' /\ field' = name
<1> DEFINE h == [view[1] EXCEPT ![name] = value]
           g == WithHeader(f, name, value)
<1>1. DOMAIN g = DOMAIN f \cup {1} /\ g[1] = h /\ \A p \in DOMAIN f : g[p] = f[p]
  BY Pages DEF WithHeader, Writes
<1>2. Put(g) /\ field' = name /\ pending' = dirty'
  BY DEF PutHeader
<1> HIDE DEF h, g
<1>3. view' = [p \in Page |-> IF p \in DOMAIN g THEN g[p] ELSE view[p]]
  BY <1>2 DEF Put
<1>4. before' = [p \in Page |-> IF inTx /\ p \in DOMAIN g /\ before[p] = NoImage
                                THEN disk[p] ELSE before[p]]
  BY <1>2 DEF Put
<1>5. view' = [p \in Page |-> view'[p]] /\ view'[1] \in Header
  BY <1>1, <1>3, Pages DEF h
<1>6. before' = [p \in Page |-> before'[p]] /\ before'[1] \in Header \cup {NoImage}
  BY <1>4, Pages DEF TypeInv, FilesType, OtherTypes
<1>7. \A p \in Low : view'[p] \in Content
  BY <1>1, <1>3, Pages DEF Writes, TypeInv, FilesType, OtherTypes
<1>8. \A p \in Low : before'[p] \in Content \cup {NoImage}
  BY <1>4, Pages DEF TypeInv, FilesType, OtherTypes
<1>9. dirty' \subseteq Page /\ dirty' = dirty \cup DOMAIN g /\ UNCHANGED <<disk, inTx, usedThen, fieldsThen>>
  BY <1>1, <1>2, Pages DEF Put, Writes, TypeInv, FilesType, OtherTypes
<1> QED
  BY <1>1, <1>2, <1>5, <1>6, <1>7, <1>8, <1>9 DEF FilesType

LEMMA TypeInit == Init => TypeInv
<1> SUFFICES ASSUME Init PROVE TypeInv
  OBVIOUS
<1>1. /\ view = [p \in Page |-> IF p = 1 THEN Fields(0, 0, 1) ELSE Zero] /\ disk = view
      /\ before = [p \in Page |-> NoImage]
  BY DEF Init, Empty
<1>2. view[1] = Fields(0, 0, 1) /\ before[1] = NoImage
      /\ \A p \in Low : view[p] = Zero /\ before[p] = NoImage
  BY <1>1, Pages
<1>3. Fields(0, 0, 1) \in Header
  BY FieldsIn, Pages
<1>4. /\ view = [p \in Page |-> view[p]] /\ disk = [p \in Page |-> disk[p]]
      /\ before = [p \in Page |-> before[p]]
  BY <1>1
<1>5. disk[1] \in Header /\ \A p \in Low : disk[p] \in Content
  BY <1>1, <1>2, <1>3, Contents
<1> QED
  BY <1>2, <1>3, <1>4, <1>5, Contents DEF Init, TypeInv, FilesType, OtherTypes

\* A trunk page.
LEMMA TrunkPage ==
  ASSUME TypeInv, trunk # 0, view[trunk] # InUse
  PROVE  /\ trunk \in Low /\ view[trunk].next \in Low \cup {0}
         /\ view[trunk].leaves \in LeafSeq
BY Contents, HeaderFields DEF TypeInv, FilesType, OtherTypes, Header, Fields

LEMMA TypeStep == TypeInv /\ [Next]_vars => TypeInv'
<1> SUFFICES ASSUME TypeInv, [Next]_vars PROVE TypeInv'
  OBVIOUS
<1>a. trunk \in Low \cup {0} /\ count \in Nat /\ total \in Page /\ view[1] \in Header
  BY DEF TypeInv, FilesType, OtherTypes, Header, Fields
<1>b. \A v \in Low \cup {0} : [view[1] EXCEPT !["trunk"] = v] \in Header
  BY <1>a, FieldsTo
<1>c. \A v \in Nat : [view[1] EXCEPT !["count"] = v] \in Header
  BY <1>a, FieldsTo
<1>d. \A v \in Page : [view[1] EXCEPT !["size"] = v] \in Header
  BY <1>a, FieldsTo
<1>e. FilesType /\ OtherTypes
  BY DEF TypeInv
<1>1. CASE FlushBatch
  <2>1. /\ disk' = [p \in Page |-> IF p \in Batch THEN view[p] ELSE disk[p]]
        /\ pending' \subseteq pending /\ dirty' \in {{}, dirty} /\ (pending' = {} \/ dirty' = dirty)
        /\ UNCHANGED <<view, fields, txState, op, page, field, used, flags>>
    BY <1>1 DEF FlushBatch
  <2>2. disk' = [p \in Page |-> disk'[p]] /\ disk'[1] \in Header /\ \A p \in Low : disk'[p] \in Content
    BY <1>e, <2>1, Pages DEF FilesType, OtherTypes
  <2>3. FilesType'
    BY <1>e, <2>1 DEF FilesType, txState
  <2>4. OtherTypes'
    BY <1>e, <2>1, <2>2 DEF OtherTypes, fields, txState, flags
  <2> QED
    BY <2>3, <2>4 DEF TypeInv
<1>2. CASE CountField
  <2>1. /\ PutHeader(Nothing, "count", count) /\ UNCHANGED <<fields, op, page, used, flags>>
        /\ field = "trunk"
    BY <1>2 DEF CountField
  <2>2. /\ FilesType' /\ UNCHANGED <<disk, inTx, usedThen, fieldsThen>>
        /\ pending' = dirty' /\ field' = "count"
    BY <1>a, <1>c, <2>1, WritesOf, PutHeaderTypes
  <2>3. OtherTypes'
    BY <1>e, <2>1, <2>2 DEF OtherTypes, fields, flags
  <2> QED
    BY <2>2, <2>3 DEF TypeInv
<1>3. CASE AllocateFree
  <2>1. trunk \in Low /\ view[trunk].next \in Low \cup {0} /\ view[trunk].leaves \in LeafSeq
    BY <1>3, TrunkPage DEF AllocateFree
  <2>2. /\ FilesType' /\ UNCHANGED <<disk, inTx, usedThen, fieldsThen>>
        /\ pending' = dirty' /\ field' = "trunk" /\ page' \in Low /\ trunk' \in Low \cup {0}
    <3>1. CASE PopLeaf
      <4> DEFINE l == view[trunk].leaves
                 c == Trunk(view[trunk].next, SubSeq(l, 1, Len(l) - 1))
      <4>1. l # <<>> /\ page' = l[Len(l)] /\ UNCHANGED trunk /\ PutHeader(Write(trunk, c), "trunk", trunk)
        BY <2>1, <3>1, LeafSequences DEF PopLeaf
      <4>2. page' \in Low /\ c \in Content
        BY <2>1, <4>1, LeafSequences, Contents
      <4> HIDE DEF c, l
      <4>3. Writes(Write(trunk, c))
        BY <2>1, <4>2, WritesOf
      <4>4. [view[1] EXCEPT !["trunk"] = trunk] \in Header
        BY <1>a, <1>b
      <4> QED
        BY <1>a, <4>1, <4>2, <4>3, <4>4, PutHeaderTypes
    <3>2. CASE PopTrunk
      <4>1. page' = trunk /\ trunk' = view[trunk].next
            /\ PutHeader(Nothing, "trunk", view[trunk].next)
        BY <3>2 DEF PopTrunk
      <4>2. [view[1] EXCEPT !["trunk"] = view[trunk].next] \in Header
        BY <1>b, <2>1
      <4> QED
        <5>1. Writes(Nothing) /\ DOMAIN Nothing = {}
          BY WritesOf
        <5>2. FilesType' /\ UNCHANGED <<disk, inTx, usedThen, fieldsThen>>
              /\ pending' = dirty' /\ field' = "trunk"
          BY <4>1, <4>2, <5>1, PutHeaderTypes
        <5> QED
          BY <2>1, <4>1, <5>2
    <3> QED
      BY <1>3, <3>1, <3>2 DEF AllocateFree
  <2>3. count' \in Nat /\ op' = "allocate" /\ UNCHANGED <<total, used, flags>>
    BY <1>3, <1>a DEF AllocateFree
  <2>4. Fields(trunk', count', total') \in Header
    BY <1>a, <2>2, <2>3, FieldsIn
  <2>5. OtherTypes'
    BY <1>e, <2>2, <2>3, <2>4 DEF OtherTypes, flags
  <2> QED
    BY <2>2, <2>5 DEF TypeInv
<1>4. CASE AllocateNew
  <2>1. /\ total' = total + 1 /\ total < MaxPages /\ page' = total'
        /\ PutHeader(Nothing, "size", total') /\ op' = "allocate"
        /\ UNCHANGED <<trunk, count, used, flags>>
    BY <1>4 DEF AllocateNew
  <2>2. total' \in Page /\ page' \in Low
    BY <1>a, <2>1, MaxPagesAssumption DEF Page, Low
  <2>3. /\ FilesType' /\ UNCHANGED <<disk, inTx, usedThen, fieldsThen>>
        /\ pending' = dirty' /\ field' = "size"
    BY <1>d, <2>1, <2>2, WritesOf, PutHeaderTypes
  <2>4. Fields(trunk', count', total') \in Header
    BY <1>a, <2>1, <2>2, FieldsIn
  <2>5. OtherTypes'
    BY <1>e, <2>1, <2>2, <2>3, <2>4 DEF OtherTypes, flags
  <2> QED
    BY <2>3, <2>5 DEF TypeInv
<1>5. CASE AllocateDone
  <2>1. /\ op = "allocate" /\ pending = {} /\ Put(Write(page, Zero)) /\ used' = used \cup {page}
        /\ op' = "idle" /\ page' = 0 /\ field' = "none" /\ UNCHANGED <<fields, pending, flags>>
    BY <1>5 DEF AllocateDone
  <2>2. page \in Low
    BY <2>1 DEF TypeInv, FilesType, OtherTypes
  <2>3. FilesType' /\ UNCHANGED <<disk, inTx, usedThen, fieldsThen>>
    BY <2>1, <2>2, WritesOf, Contents, PutTypes
  <2>4. OtherTypes'
    BY <1>e, <2>1, <2>2, <2>3 DEF OtherTypes, fields, flags
  <2> QED
    BY <2>3, <2>4 DEF TypeInv
<1>6. ASSUME NEW p \in Page, Use(p) PROVE TypeInv'
  <2>1. p \in used /\ Put(Write(p, InUse)) /\ UNCHANGED <<fields, control, used, flags>>
    BY <1>6 DEF Use
  <2>2. p \in Low
    BY <2>1 DEF TypeInv, FilesType, OtherTypes
  <2>3. FilesType' /\ UNCHANGED <<disk, inTx, usedThen, fieldsThen>>
        /\ dirty' = dirty \cup DOMAIN Write(p, InUse)
    BY <2>1, <2>2, WritesOf, Contents, PutTypes
  <2>4. OtherTypes'
    BY <1>e, <2>1, <2>3 DEF OtherTypes, fields, flags, control
  <2> QED
    BY <2>3, <2>4 DEF TypeInv
<1>7. ASSUME NEW p \in Page, FreePage(p) PROVE TypeInv'
  <2>1. /\ p \in used /\ count' = count + 1 /\ op' = "free" /\ page' = p /\ used' = used \ {p}
        /\ UNCHANGED <<total, undone, torn>>
    BY <1>7 DEF FreePage
  <2>2. p \in Low
    BY <2>1 DEF TypeInv, FilesType, OtherTypes
  <2>3. [view[1] EXCEPT !["trunk"] = trunk] \in Header /\ [view[1] EXCEPT !["trunk"] = p] \in Header
    BY <1>a, <1>b, <2>2
  <2>4. /\ FilesType' /\ UNCHANGED <<disk, inTx, usedThen, fieldsThen>>
        /\ pending' = dirty' /\ field' = "trunk" /\ trunk' \in Low \cup {0} /\ overflowed' \in BOOLEAN
    <3>1. CASE PushFirst(p)
      <4>1. trunk' = p /\ PutHeader(Write(p, Zero), "trunk", p) /\ UNCHANGED overflowed
        BY <3>1 DEF PushFirst
      <4>2. Writes(Write(p, Zero))
        BY <2>2, WritesOf, Contents
      <4> QED
        BY <2>2, <2>3, <4>1, <4>2, PutHeaderTypes DEF TypeInv, FilesType, OtherTypes
    <3>2. CASE PushLeaf(p)
      <4> DEFINE l == view[trunk].leaves
                 c == Trunk(view[trunk].next, Append(l, p))
      <4>1. /\ trunk # 0 /\ view[trunk] # InUse /\ Len(l) < MaxLeaves /\ UNCHANGED <<trunk, overflowed>>
            /\ PutHeader(Write2(p, Zero, trunk, c), "trunk", trunk)
        BY <3>2 DEF PushLeaf
      <4>2. trunk \in Low /\ view[trunk].next \in Low \cup {0} /\ l \in LeafSeq
        BY <4>1, TrunkPage
      <4>3. c \in Content
        BY <2>2, <4>1, <4>2, LeafSequences, Contents
      <4> HIDE DEF c, l
      <4>4. Writes(Write2(p, Zero, trunk, c))
        BY <2>2, <4>2, <4>3, WritesOf, Contents
      <4> QED
        BY <1>a, <2>3, <4>1, <4>4, PutHeaderTypes DEF TypeInv, FilesType, OtherTypes
    <3>3. CASE PushTrunk(p)
      <4>1. /\ trunk # 0 /\ view[trunk] # InUse /\ trunk' = p /\ overflowed' = TRUE
            /\ PutHeader(Write(p, Trunk(trunk, <<trunk>>)), "trunk", p)
        BY <3>3 DEF PushTrunk
      <4>2. trunk \in Low /\ <<trunk>> \in LeafSeq
        BY <4>1, TrunkPage, MaxLeavesAssumption DEF LeafSeq
      <4>3. Writes(Write(p, Trunk(trunk, <<trunk>>)))
        BY <2>2, <4>2, WritesOf, Contents
      <4> QED
        BY <2>2, <2>3, <4>1, <4>3, PutHeaderTypes
    <3> QED
      BY <1>7, <3>1, <3>2, <3>3 DEF FreePage
  <2>5. Fields(trunk', count', total') \in Header
    BY <1>a, <2>1, <2>4, FieldsIn
  <2>6. OtherTypes'
    BY <1>e, <2>1, <2>2, <2>4, <2>5 DEF OtherTypes
  <2> QED
    BY <2>4, <2>6 DEF TypeInv
<1>8. CASE FreeDone
  <2>1. FilesType'
    BY <1>e, <1>8 DEF FreeDone, FilesType, files, txState
  <2>2. OtherTypes'
    BY <1>e, <1>8 DEF FreeDone, OtherTypes, files, fields, txState, flags
  <2> QED
    BY <2>1, <2>2 DEF TypeInv
<1>9. CASE Begin
  <2>1. /\ before' = [p \in Page |-> NoImage] /\ inTx' = TRUE /\ usedThen' = used
        /\ fieldsThen' = Fields(trunk, count, total) /\ UNCHANGED <<files, fields, control, used, flags>>
    BY <1>9 DEF Begin, Empty
  <2>2. before' = [p \in Page |-> before'[p]] /\ before'[1] = NoImage /\ \A p \in Low : before'[p] = NoImage
    BY <2>1, Pages
  <2>3. FilesType'
    BY <1>e, <2>1, <2>2 DEF FilesType, files
  <2>4. OtherTypes'
    BY <1>e, <2>1 DEF OtherTypes, files, fields, control, flags
  <2> QED
    BY <2>3, <2>4 DEF TypeInv
<1>10. CASE Commit \/ Rollback
  <2>1. /\ before' = [p \in Page |-> NoImage] /\ inTx' = FALSE /\ usedThen' = {} /\ fieldsThen' = NoFields
        /\ dirty' = {} /\ UNCHANGED <<fields, control, overflowed, torn>>
    BY <1>10 DEF Commit, Rollback, EndTx, Empty, flags
  <2>2. before' = [p \in Page |-> before'[p]] /\ before'[1] = NoImage /\ \A p \in Low : before'[p] = NoImage
    BY <2>1, Pages
  <2>3. used' \subseteq Low /\ undone' \in BOOLEAN
    BY <1>e, <1>10 DEF Commit, Rollback, flags, OtherTypes
  <2>4. pending' = {}
    BY <1>10, <1>e DEF Commit, Rollback, control, Idle, OtherTypes
  <2>5. \A f \in {view', disk'} : f = [p \in Page |-> f[p]] /\ f[1] \in Header
                                  /\ \A p \in Low : f[p] \in Content
    <3>1. CASE Commit
      <4>1. view' = view /\ disk' = [p \in Page |-> IF p \in dirty THEN view[p] ELSE disk[p]]
        BY <3>1 DEF Commit
      <4>2. \A p \in Page : disk'[p] = view[p] \/ disk'[p] = disk[p]
        BY <4>1
      <4> QED
        BY <1>e, <4>1, <4>2, Pages DEF FilesType, OtherTypes
    <3>2. CASE Rollback
      <4> DEFINE back(f) == [p \in Page |-> IF before[p] = NoImage THEN f[p] ELSE before[p]]
      <4>1. disk' = back(disk) /\ view' = back(view)
        BY <3>2 DEF Rollback
      <4> QED
        BY <1>e, <4>1, Pages DEF FilesType, OtherTypes
    <3> QED
      BY <1>10, <3>1, <3>2
  <2>6. FilesType'
    BY <2>1, <2>2, <2>5 DEF FilesType
  <2>7. OtherTypes'
    BY <1>e, <2>1, <2>3, <2>4, <2>5 DEF OtherTypes, fields, control
  <2> QED
    BY <2>6, <2>7 DEF TypeInv
<1>11. CASE Reopen
  <2>1. /\ before' = [p \in Page |-> NoImage] /\ inTx' = FALSE /\ usedThen' = {} /\ fieldsThen' = NoFields
        /\ dirty' = {} /\ view' = disk /\ UNCHANGED <<disk, used, overflowed, undone>>
        /\ trunk' = disk[1].trunk /\ count' = disk[1].count /\ total' = disk[1].size
        /\ op' = "idle" /\ page' = 0 /\ field' = "none" /\ pending' = {}
        /\ torn' = (torn \/ op # "idle")
    BY <1>11 DEF Reopen, Empty
  <2>2. before' = [p \in Page |-> before'[p]] /\ before'[1] = NoImage /\ \A p \in Low : before'[p] = NoImage
    BY <2>1, Pages
  <2>3. Fields(trunk', count', total') \in Header
    BY <1>e, <2>1, HeaderFields DEF OtherTypes
  <2>4. FilesType'
    BY <1>e, <2>1, <2>2 DEF FilesType, OtherTypes
  <2>5. OtherTypes'
    BY <1>e, <2>1, <2>3 DEF OtherTypes
  <2> QED
    BY <2>4, <2>5 DEF TypeInv
<1>12. CASE UNCHANGED vars
  BY <1>12 DEF vars, files, fields, txState, control, flags, TypeInv, FilesType, OtherTypes
<1> QED
  BY <1>1, <1>2, <1>3, <1>4, <1>5, <1>6, <1>7, <1>8, <1>9, <1>10, <1>11, <1>12 DEF Next

LEMMA TypesGiven == TypeInv => TypeOK
<1> SUFFICES ASSUME TypeInv PROVE TypeOK
  OBVIOUS
<1> DEFINE C == [next : 0..MaxPages, leaves : UNION {[1..n -> Page] : n \in 0..MaxLeaves}]
                  \cup {InUse}
           H == [trunk : 0..MaxPages, count : Nat, size : Page]
<1>1. Low \cup {0} \subseteq 0..MaxPages /\ \A p \in 2..MaxPages : p \in Low
  BY MaxPagesAssumption DEF Low
<1>2. LeafSeq \subseteq UNION {[1..n -> Page] : n \in 0..MaxLeaves}
  <2> SUFFICES ASSUME NEW l \in LeafSeq PROVE \E n \in 0..MaxLeaves : l \in [1..n -> Page]
    OBVIOUS
  <2>1. l \in [1..Len(l) -> Low] /\ Len(l) \in 0..MaxLeaves
    BY MaxLeavesAssumption DEF LeafSeq
  <2>2. l \in [1..Len(l) -> Page]
    BY <2>1, Pages
  <2> QED
    BY <2>1, <2>2
<1>3. Content \subseteq C
  BY <1>1, <1>2 DEF Content
<1>4. Header \subseteq H
  BY <1>1 DEF Header
<1>5. \A f \in {disk, view} : f[1] \in H /\ \A p \in 2..MaxPages : f[p] \in C
  BY <1>1, <1>3, <1>4 DEF TypeInv, FilesType, OtherTypes
<1>6. before[1] \in H \cup {NoImage} /\ \A p \in 2..MaxPages : before[p] \in C \cup {NoImage}
  BY <1>1, <1>3, <1>4 DEF TypeInv, FilesType, OtherTypes
<1>7. Fields(trunk, count, total) \in H /\ fieldsThen \in H \cup {NoFields}
  BY <1>4 DEF TypeInv, OtherTypes
<1>8. /\ dirty \subseteq Page /\ pending \subseteq dirty /\ used \subseteq Page /\ usedThen \subseteq Page
      /\ page \in 0..MaxPages /\ op \in {"idle", "allocate", "free"}
      /\ field \in {"none", "trunk", "count", "size"}
      /\ \A b \in {inTx, overflowed, undone, torn} : b \in BOOLEAN
  BY <1>1, Pages DEF TypeInv, FilesType, OtherTypes
<1> HIDE DEF C, H
<1> QED
  BY <1>5, <1>6, <1>7, <1>8 DEF TypeOK, C, H

\* Every variable keeps its type, whatever happens to the list.
THEOREM TypeCorrect == Spec => []TypeOK
BY TypeInit, TypeStep, TypesGiven, PTL DEF Spec

-----------------------------------------------------------------------------
(* The list while it is of one trunk page *)

\* The leaves of trunk page t, and all pages of the list, where f are the pages.
LeavesOf(f, t) == IF t = 0 \/ f[t] = InUse THEN <<>> ELSE f[t].leaves
LeafSet(f, t)  == {LeavesOf(f, t)[i] : i \in DOMAIN LeavesOf(f, t)}
Chain(f, t)    == IF t = 0 THEN {} ELSE {t} \cup LeafSet(f, t)

\* No page names a successor, and only page t names leaves.
Flat(f, t) ==
  \A p \in Low : f[p] = InUse \/ (f[p].next = 0 /\ (p # t => f[p].leaves = <<>>))

\* No page is twice on the list, and none outside of a file of s pages.
List(f, t, s) ==
  /\ Flat(f, t)
  /\ Chain(f, t) \subseteq 2..s
  /\ \A i, j \in DOMAIN LeavesOf(f, t) : LeavesOf(f, t)[i] = LeavesOf(f, t)[j] => i = j
  /\ t \notin LeafSet(f, t)

\* The number c counts the list.
Counted(f, t, c) ==
  IF t = 0 THEN c = 0 ELSE f[t] # InUse /\ c = Len(f[t].leaves) + 1

\* The page about to be handed out.
Coming == IF op = "allocate" THEN {page} ELSE {}

\* The pages hold a list, and so does the file, at every moment: what is on the
\* list in the file is free, or about to be handed out; nothing is lost of the
\* header and of the listed pages once it is flushed.  When the trunk changes,
\* neither the old one nor the new one has leaves.
ListInv ==
  /\ List(view, trunk, total)
  /\ view[1].trunk = trunk /\ view[1].size = total
  /\ field # "trunk" => view[1].count = count
  /\ List(disk, disk[1].trunk, disk[1].size)
  /\ Chain(disk, disk[1].trunk) \subseteq Chain(view, trunk) \cup Coming
  /\ disk[1].trunk # trunk => Flat(view, 0) /\ Flat(disk, 0)
  /\ \A p \in {1} \cup Chain(view, trunk) : p \notin pending => disk[p] = view[p]

\* What callers hold is not on the list, and within the file.
HeldInv ==
  /\ used \cap Chain(view, trunk) = {}
  /\ used \subseteq 2..total /\ used \subseteq 2..disk[1].size
  /\ op = "allocate" => page \in (2..total) \ (used \cup Chain(view, trunk))

\* The pages f with the before-images put back.
Back(f) == [p \in Page |-> IF before[p] = NoImage THEN f[p] ELSE before[p]]

\* A rollback would bring back the list that the transaction found; a page
\* without a before-image that was on it, or is page 1, is still as it was.
ImageInv ==
  inTx =>
    /\ List(Back(disk), fieldsThen.trunk, fieldsThen.size)
    /\ Back(disk)[1] = fieldsThen
    /\ usedThen \subseteq 2..fieldsThen.size
    /\ usedThen \cap Chain(Back(disk), fieldsThen.trunk) = {}
    /\ \A p \in {1} \cup Chain(Back(disk), fieldsThen.trunk) :
         before[p] = NoImage => disk[p] = view[p]
    /\ Flat(Back(view), fieldsThen.trunk)
    /\ trunk \notin {0, fieldsThen.trunk} => before[trunk] # NoImage
    /\ ~torn => /\ Counted(Back(disk), fieldsThen.trunk, fieldsThen.count)
                /\ usedThen \cup Chain(Back(disk), fieldsThen.trunk) = 2..fieldsThen.size

\* Without a crash inside an operation, no page is lost and the count is right.
CountInv ==
  ~torn => /\ Counted(view, trunk, count)
           /\ Held \cup Chain(view, trunk) = 2..total

Good == ListInv /\ HeldInv /\ ImageInv /\ CountInv

FreeInv == ~(overflowed \/ undone) => Good

-----------------------------------------------------------------------------
(* The chain of trunk pages *)

\* A trunk page that names no successor is the whole chain.
LEMMA OneTrunk ==
  ASSUME NEW t, t = 0 \/ view[t] = InUse \/ view[t].next = 0
  PROVE  Trunks(t) = IF t = 0 THEN <<>> ELSE <<t>>
<1> DEFINE base == IF t = 0 THEN <<>> ELSE <<t>>
           next(ts) == IF ts = <<>> \/ view[ts[Len(ts)]] = InUse \/ view[ts[Len(ts)]].next = 0
                       THEN ts ELSE Append(ts, view[ts[Len(ts)]].next)
           step(f) == [n \in 0..MaxPages |-> IF n = 0 THEN base ELSE next(f[n - 1])]
           from == CHOOSE f : f = step(f)
           same == [n \in 0..MaxPages |-> base]
           H == {n \in Nat : n <= MaxPages => from[n] = base}
<1>1. Trunks(t) = from[MaxPages]
  BY DEF Trunks
<1>2. next(base) = base
  BY Len(<<t>>) = 1, <<t>>[1] = t
<1>3. \A n \in 0..MaxPages : n = 0 \/ n - 1 \in 0..MaxPages
  BY MaxPagesAssumption
<1> HIDE DEF base, next
<1>4. step(same) = same
  BY <1>2, <1>3
<1>5. from = step(from)
  <2> HIDE DEF step, same
  <2> QED
    BY <1>4
<1> HIDE DEF from
<1>6. MaxPages \in Nat /\ 0 \in H
  BY <1>5, MaxPagesAssumption
<1>7. \A n \in 1..MaxPages : n - 1 \in H => n \in H
  <2> SUFFICES ASSUME NEW n \in 1..MaxPages, n - 1 \in H PROVE n \in H
    OBVIOUS
  <2>1. n \in Nat /\ n \in 0..MaxPages /\ n # 0 /\ n - 1 \in Nat /\ n - 1 <= MaxPages
    BY MaxPagesAssumption
  <2>2. from[n] = next(from[n - 1]) /\ from[n - 1] = base
    BY <1>5, <2>1
  <2> QED
    BY <1>2, <2>1, <2>2
<1>8. 0..MaxPages \subseteq H
  BY <1>6, <1>7, Induction
<1>9. from[MaxPages] = base
  BY <1>6, <1>8
<1> QED
  BY <1>1, <1>9 DEF base

-----------------------------------------------------------------------------
(* What a write does to the lists *)

\* The leaves of a page depend on that page only.
LEMMA SameLeaves ==
  ASSUME NEW f, NEW g, NEW t, t = 0 \/ f[t] = g[t]
  PROVE  /\ LeavesOf(f, t) = LeavesOf(g, t) /\ LeafSet(f, t) = LeafSet(g, t)
         /\ Chain(f, t) = Chain(g, t)
         /\ \A c : Counted(f, t, c) <=> Counted(g, t, c)
BY DEF LeavesOf, LeafSet, Chain, Counted

\* Where no page names leaves, a trunk page has none.
LEMMA NoLeaves ==
  ASSUME NEW f, NEW t \in Low \cup {0}, t = 0 \/ f[t] = InUse \/ f[t].leaves = <<>>
  PROVE  /\ LeavesOf(f, t) = <<>> /\ LeafSet(f, t) = {}
         /\ Chain(f, t) = IF t = 0 THEN {} ELSE {t}
<1>1. LeavesOf(f, t) = <<>>
  BY DEF LeavesOf
<1>2. LeafSet(f, t) = {}
  BY <1>1 DEF LeafSet
<1> QED
  BY <1>1, <1>2 DEF Chain

\* No page that is journaled is taken for one that is not.
LEMMA NotNoImage ==
  /\ \A c \in Content : c # NoImage
  /\ \A h \in Header : h # NoImage
<1>1. \A n, l : Trunk(n, l) # NoImage
  BY DEF Trunk, NoImage
<1>2. InUse # NoImage
  BY DEF InUse, NoImage
<1>3. \A t, c, s : Fields(t, c, s) # NoImage
  BY DEF Fields, NoImage
<1>4. \A c \in Content : c = InUse \/ c = Trunk(c.next, c.leaves)
  BY DEF Content, Trunk
<1> QED
  BY <1>1, <1>2, <1>3, <1>4, HeaderFields

\* A write to the pages in the domain of g; the before-images make up for it.
LEMMA PutEffect ==
  ASSUME TypeInv, NEW g, DOMAIN g \subseteq Page, Put(g)
  PROVE  /\ \A p \in Page : view'[p] = IF p \in DOMAIN g THEN g[p] ELSE view[p]
         /\ UNCHANGED <<disk, inTx, usedThen, fieldsThen>> /\ dirty' = dirty \cup DOMAIN g
         /\ \A p \in Page : p \notin DOMAIN g \/ before[p] # NoImage => before'[p] = before[p]
         /\ inTx => /\ Back(disk)' = Back(disk)
                    /\ \A p \in DOMAIN g : before'[p] # NoImage
                    /\ \A p \in Page : Back(view)'[p] \in {Back(view)[p], Back(disk)[p]}
<1>1. view' = [p \in Page |-> IF p \in DOMAIN g THEN g[p] ELSE view[p]]
  BY DEF Put
<1>2. before' = [p \in Page |-> IF inTx /\ p \in DOMAIN g /\ before[p] = NoImage
                                THEN disk[p] ELSE before[p]]
  BY DEF Put
<1>3. UNCHANGED <<disk, inTx, usedThen, fieldsThen>> /\ dirty' = dirty \cup DOMAIN g
  BY DEF Put
<1>4. \A p \in Page : disk[p] # NoImage
  BY Pages, NotNoImage DEF TypeInv, OtherTypes
<1>5. ASSUME inTx
      PROVE  /\ Back(disk)' = Back(disk)
             /\ \A p \in DOMAIN g : before'[p] # NoImage
             /\ \A p \in Page : Back(view)'[p] \in {Back(view)[p], Back(disk)[p]}
  <2>1. \A p \in Page : before'[p] = IF p \in DOMAIN g /\ before[p] = NoImage THEN disk[p] ELSE before[p]
    BY <1>2, <1>5
  <2>2. Back(disk)' = Back(disk)
    BY <1>3, <1>4, <2>1 DEF Back
  <2>3. \A p \in DOMAIN g : before'[p] # NoImage
    BY <1>4, <2>1
  <2>4. \A p \in Page : Back(view)'[p] \in {Back(view)[p], Back(disk)[p]}
    BY <1>1, <1>4, <2>1 DEF Back
  <2> QED
    BY <2>2, <2>3, <2>4
<1> QED
  BY <1>1, <1>2, <1>3, <1>5

\* A write of a header field, after the writes f.
LEMMA HeaderEffect ==
  ASSUME TypeInv, NEW f, Writes(f), NEW name, NEW value, PutHeader(f, name, value)
  PROVE  \E g : /\ Put(g) /\ DOMAIN g = DOMAIN f \cup {1} /\ DOMAIN g \subseteq Page
                /\ view'[1] = [view[1] EXCEPT ![name] = value]
                /\ \A p \in Low : view'[p] = IF p \in DOMAIN f THEN f[p] ELSE view[p]
                /\ pending' = dirty \cup DOMAIN f \cup {1} /\ field' = name
                /\ UNCHANGED disk
<1> DEFINE g == WithHeader(f, name, value)
           h == [view[1] EXCEPT ![name] = value]
<1>1. DOMAIN g = DOMAIN f \cup {1} /\ g[1] = h /\ \A p \in DOMAIN f : g[p] = f[p]
  BY Pages DEF WithHeader, Writes
<1>2. Put(g) /\ field' = name /\ pending' = dirty'
  BY DEF PutHeader
<1>3. DOMAIN g \subseteq Page
  BY <1>1, Pages DEF Writes
<1> HIDE DEF g, h
<1>4. /\ \A p \in Page : view'[p] = IF p \in DOMAIN g THEN g[p] ELSE view[p]
      /\ UNCHANGED disk /\ dirty' = dirty \cup DOMAIN g
  BY <1>2, <1>3, PutEffect
<1>5. view'[1] = h
  BY <1>1, <1>4, Pages
<1>6. \A p \in Low : view'[p] = IF p \in DOMAIN f THEN f[p] ELSE view[p]
  BY <1>1, <1>4, Pages
<1> QED
  BY <1>1, <1>2, <1>3, <1>4, <1>5, <1>6 DEF h

\* The fields that a transaction has found are of a header.
LEMMA NotFields ==
  ASSUME TypeInv, Back(disk)[1] = fieldsThen
  PROVE  fieldsThen \in Header
<1>1. Back(disk)[1] \in Header
  BY Pages DEF Back, TypeInv, FilesType, OtherTypes
<1> QED
  BY <1>1

\* What the transaction found can be brought back after any write in it.
LEMMA ImagePut ==
  ASSUME TypeInv, ImageInv, NEW g, DOMAIN g \subseteq Page, Put(g),
         trunk' \in {trunk, 0} \cup DOMAIN g, torn' = torn
  PROVE  ImageInv'
<1> SUFFICES ASSUME inTx' PROVE ImageInv'
  BY DEF ImageInv
<1>1. /\ \A p \in Page : view'[p] = IF p \in DOMAIN g THEN g[p] ELSE view[p]
      /\ UNCHANGED <<disk, inTx, usedThen, fieldsThen>>
      /\ \A p \in Page : p \notin DOMAIN g \/ before[p] # NoImage => before'[p] = before[p]
      /\ inTx /\ Back(disk)' = Back(disk)
      /\ \A p \in DOMAIN g : before'[p] # NoImage
      /\ \A p \in Page : Back(view)'[p] \in {Back(view)[p], Back(disk)[p]}
  BY PutEffect
<1> DEFINE t == fieldsThen.trunk
           B == Back(disk)
<1>2. /\ List(B, t, fieldsThen.size) /\ B[1] = fieldsThen
      /\ usedThen \subseteq 2..fieldsThen.size /\ usedThen \cap Chain(B, t) = {}
      /\ \A p \in {1} \cup Chain(B, t) : before[p] = NoImage => disk[p] = view[p]
      /\ Flat(Back(view), t)
      /\ trunk \notin {0, t} => before[trunk] # NoImage
      /\ ~torn => Counted(B, t, fieldsThen.count) /\ usedThen \cup Chain(B, t) = 2..fieldsThen.size
  BY <1>1 DEF ImageInv
<1>3. fieldsThen \in Header
  BY <1>1, <1>2, Pages, NotFields DEF TypeInv, OtherTypes
<1>4. Chain(B, t) \subseteq Low
  BY <1>2, <1>3, HeaderFields, Pages, MaxPagesAssumption DEF List, Low, Page
<1>5. \A p \in {1} \cup Chain(B, t) : before'[p] = NoImage => disk'[p] = view'[p]
  BY <1>1, <1>2, <1>4, Pages
<1>6. Flat(Back(view)', t)
  BY <1>1, <1>2, Pages DEF Flat, List
<1>7. trunk' \notin {0, t} => before'[trunk'] # NoImage
  BY <1>1, <1>2, Pages DEF TypeInv, OtherTypes, Header, Fields
<1> HIDE DEF t, B
<1>8. t' = t /\ B' = B
  BY <1>1 DEF t, B
<1> QED
  BY <1>1, <1>2, <1>5, <1>6, <1>7, <1>8 DEF ImageInv, t, B


-----------------------------------------------------------------------------
(* One list that takes the place of another *)

\* A list is the same list in other pages that keep its trunk page.
LEMMA ListMoves ==
  ASSUME NEW f, NEW g, NEW t, NEW s, List(f, t, s), Flat(g, t), t = 0 \/ f[t] = g[t]
  PROVE  List(g, t, s)
<1>1. /\ LeavesOf(f, t) = LeavesOf(g, t) /\ LeafSet(f, t) = LeafSet(g, t)
      /\ Chain(f, t) = Chain(g, t)
  BY SameLeaves
<1> QED
  BY <1>1 DEF List

\* Pages that are those of one or the other are flat when both are.
LEMMA FlatMix ==
  ASSUME NEW f, NEW g, NEW h, NEW t, Flat(f, t), Flat(g, t), \A p \in Low : h[p] \in {f[p], g[p]}
  PROVE  Flat(h, t)
BY DEF Flat

\* Where no page names leaves, any page may be the trunk.
LEMMA FlatAny ==
  ASSUME NEW f, NEW t, Flat(f, 0)
  PROVE  Flat(f, t) /\ (t \in Low => f[t] = InUse \/ f[t].leaves = <<>>)
BY Pages DEF Flat

\* What is known of the fields and of the list.
LEMMA Facts ==
  ASSUME TypeInv, ListInv
  PROVE  /\ trunk \in Low \cup {0} /\ count \in Nat /\ total \in Page
         /\ view[1] = Fields(trunk, view[1].count, total)
         /\ Chain(view, trunk) \subseteq Low /\ 1 \notin Chain(view, trunk)
         /\ disk[1].trunk \in Low \cup {0} /\ disk[1].size \in Page
         /\ \A p \in Low : view[p] \in Content /\ disk[p] \in Content
         /\ (trunk # 0 => trunk \in Chain(view, trunk))
<1>1. trunk \in Low \cup {0} /\ count \in Nat /\ total \in Page
  BY DEF TypeInv, OtherTypes, Header, Fields
<1>2. view[1] = Fields(trunk, view[1].count, total)
  BY HeaderFields DEF TypeInv, FilesType, ListInv
<1>3. Chain(view, trunk) \subseteq Low
  BY <1>1, MaxPagesAssumption DEF ListInv, List, Page, Low
<1>4. disk[1].trunk \in Low \cup {0} /\ disk[1].size \in Page
  BY HeaderFields DEF TypeInv, OtherTypes
<1>5. \A p \in Low : view[p] \in Content /\ disk[p] \in Content
  BY DEF TypeInv, FilesType, OtherTypes
<1>6. trunk # 0 => trunk \in Chain(view, trunk)
  BY DEF Chain
<1> QED
  BY <1>1, <1>2, <1>3, <1>4, <1>5, <1>6, Pages

\* Once all is flushed, the file describes the list.
LEMMA Flushed ==
  ASSUME TypeInv, ListInv, pending = {}
  PROVE  /\ disk[1] = view[1] /\ disk[1].trunk = trunk /\ disk[1].size = total
         /\ \A p \in Chain(view, trunk) : disk[p] = view[p]
         /\ trunk = 0 \/ disk[trunk] = view[trunk]
         /\ Chain(disk, trunk) = Chain(view, trunk)
         /\ \A c : Counted(disk, trunk, c) <=> Counted(view, trunk, c)
         /\ field # "trunk" => disk[1] = Fields(trunk, count, total)
<1>1. disk[1] = view[1] /\ \A p \in Chain(view, trunk) : disk[p] = view[p]
  BY DEF ListInv
<1>2. disk[1].trunk = trunk /\ disk[1].size = total
  BY <1>1 DEF ListInv
<1>3. trunk = 0 \/ disk[trunk] = view[trunk]
  BY <1>1 DEF Chain
<1>4. Chain(disk, trunk) = Chain(view, trunk) /\ \A c : Counted(disk, trunk, c) <=> Counted(view, trunk, c)
  BY <1>3, SameLeaves
<1>5. field # "trunk" => disk[1] = Fields(trunk, count, total)
  BY <1>1, Facts DEF ListInv
<1> QED
  BY <1>1, <1>2, <1>3, <1>4, <1>5

-----------------------------------------------------------------------------
(* Every step keeps the list good *)

LEMMA FreeInit == Init => FreeInv
<1> SUFFICES ASSUME Init PROVE Good
  BY DEF FreeInv
<1>1. /\ view = [p \in Page |-> IF p = 1 THEN Fields(0, 0, 1) ELSE Zero] /\ disk = view
      /\ trunk = 0 /\ count = 0 /\ total = 1 /\ ~inTx /\ op = "idle" /\ used = {}
  BY DEF Init
<1>2. view[1] = Fields(0, 0, 1) /\ \A p \in Low : view[p] = Zero
  BY <1>1, Pages
<1>3. view[1].trunk = 0 /\ view[1].size = 1 /\ view[1].count = 0
  BY <1>2 DEF Fields
<1>4. Flat(view, 0)
  BY <1>2, Contents DEF Flat
<1>5. Chain(view, 0) = {} /\ LeafSet(view, 0) = {} /\ LeavesOf(view, 0) = <<>>
  BY NoLeaves
<1>6. List(view, 0, 1)
  BY <1>4, <1>5 DEF List
<1>7. ListInv
  BY <1>1, <1>3, <1>5, <1>6 DEF ListInv
<1>8. HeldInv /\ ImageInv
  BY <1>1, <1>3, <1>5 DEF HeldInv, ImageInv
<1>9. CountInv
  <2>1. Held = {} /\ 2..1 = {}
    BY <1>1 DEF Held
  <2> QED
    BY <1>1, <1>5, <2>1 DEF CountInv, Counted
<1> QED
  BY <1>7, <1>8, <1>9 DEF Good

LEMMA FlushKeeps ==
  ASSUME TypeInv, Good, FlushBatch
  PROVE  Good'
<1>1. ListInv /\ HeldInv /\ ImageInv /\ CountInv
  BY DEF Good
<1>2. /\ disk' = [p \in Page |-> IF p \in Batch THEN view[p] ELSE disk[p]]
      /\ pending' = pending \ Batch
      /\ UNCHANGED <<view, trunk, count, total, inTx, before, usedThen, fieldsThen, op, page, field,
                     used, torn>>
  BY DEF FlushBatch, fields, txState, flags
<1>3. /\ \A p \in Page : disk'[p] = IF p \in Batch THEN view[p] ELSE disk[p]
      /\ \A p \in Low : disk'[p] \in {view[p], disk[p]}
  BY <1>2, Pages
<1>4. disk'[1] = view[1]
  <2>1. 1 \in pending => 1 \in Batch
    BY DEF Batch
  <2> QED
    BY <1>1, <1>3, <2>1, Pages DEF ListInv
<1>5. disk'[1].trunk = trunk /\ disk'[1].size = total
  BY <1>1, <1>4 DEF ListInv
<1>6. Flat(view, trunk) /\ Flat(disk, trunk)
  BY <1>1, FlatAny DEF ListInv, List
<1>7. Flat(disk', trunk)
  BY <1>3, <1>6, FlatMix
<1>8. trunk \in Low \cup {0} /\ \A p \in Low : view[p] \in Content /\ disk[p] \in Content
  BY <1>1, Facts
<1>9. List(disk', trunk, total) /\ Chain(disk', trunk) \subseteq Chain(view, trunk) \cup Coming
  <2>1. CASE trunk = 0 \/ disk'[trunk] = view[trunk]
    <3>1. List(view, trunk, total)
      BY <1>1 DEF ListInv
    <3>2. List(disk', trunk, total)
      BY <1>7, <2>1, <3>1, ListMoves
    <3>3. Chain(disk', trunk) = Chain(view, trunk)
      BY <2>1, SameLeaves
    <3> QED
      BY <3>2, <3>3
  <2>2. CASE trunk # 0 /\ disk'[trunk] = disk[trunk] /\ disk[1].trunk = trunk
    <3>1. Chain(disk', trunk) = Chain(disk, trunk) /\ List(disk', trunk, disk[1].size)
      BY <1>1, <1>7, <2>2, ListMoves, SameLeaves DEF ListInv
    <3>2. Chain(disk', trunk) \subseteq 2..total
      BY <1>1, <2>2, <3>1 DEF ListInv, List, HeldInv, Coming
    <3> QED
      BY <1>1, <2>2, <3>1, <3>2 DEF List, ListInv
  <2>3. CASE trunk # 0 /\ disk'[trunk] = disk[trunk] /\ disk[1].trunk # trunk
    <3>1. disk'[trunk] = InUse \/ disk'[trunk].leaves = <<>>
      BY <1>1, <1>8, <2>3, FlatAny DEF ListInv
    <3>2. LeavesOf(disk', trunk) = <<>> /\ LeafSet(disk', trunk) = {} /\ Chain(disk', trunk) = {trunk}
      BY <1>8, <2>3, <3>1, NoLeaves
    <3>3. trunk \in Chain(view, trunk)
      BY <2>3 DEF Chain
    <3> QED
      BY <1>1, <1>7, <3>2, <3>3 DEF List, ListInv
  <2> QED
    BY <1>3, <1>8, <2>1, <2>2, <2>3
<1>10. \A p \in {1} \cup Chain(view, trunk) : p \notin pending' => disk'[p] = view[p]
  BY <1>1, <1>2, <1>3, Facts, Pages DEF ListInv
<1>11. ListInv'
  BY <1>1, <1>2, <1>5, <1>9, <1>10 DEF ListInv, Coming
<1>12. HeldInv'
  BY <1>1, <1>2, <1>5 DEF HeldInv
<1>13. ASSUME inTx PROVE ImageInv'
  <2> DEFINE t == fieldsThen.trunk
             B == Back(disk)
             N == Back(disk')
  <2>1. /\ List(B, t, fieldsThen.size) /\ B[1] = fieldsThen
        /\ usedThen \subseteq 2..fieldsThen.size /\ usedThen \cap Chain(B, t) = {}
        /\ \A p \in {1} \cup Chain(B, t) : before[p] = NoImage => disk[p] = view[p]
        /\ Flat(Back(view), t)
        /\ trunk \notin {0, t} => before[trunk] # NoImage
        /\ ~torn => Counted(B, t, fieldsThen.count) /\ usedThen \cup Chain(B, t) = 2..fieldsThen.size
    BY <1>1, <1>13 DEF ImageInv
  <2>2. fieldsThen \in Header
    BY <2>1, NotFields
  <2>3. Chain(B, t) \subseteq Low /\ t \in Low \cup {0}
    BY <2>1, <2>2, HeaderFields, MaxPagesAssumption DEF List, Low, Page
  <2>4. \A p \in Low : N[p] \in {Back(view)[p], B[p]}
    BY <1>3, Pages DEF Back
  <2>5. \A p \in {1} \cup Chain(B, t) : N[p] = B[p] /\ (before[p] = NoImage => disk'[p] = view[p])
    BY <1>3, <2>1, <2>3, Pages DEF Back
  <2>6. t = 0 \/ N[t] = B[t]
    BY <2>5 DEF Chain
  <2> HIDE DEF B, N
  <2>7. List(N, t, fieldsThen.size) /\ Chain(N, t) = Chain(B, t)
        /\ (Counted(B, t, fieldsThen.count) => Counted(N, t, fieldsThen.count))
    <3>1. Flat(N, t)
      BY <2>1, <2>4, FlatMix DEF List
    <3> QED
      BY <2>1, <2>6, <3>1, ListMoves, SameLeaves
  <2>8. N[1] = fieldsThen
    BY <2>1, <2>5
  <2>9. Back(disk)' = N /\ Back(view)' = Back(view) /\ fieldsThen' = fieldsThen /\ t' = t
    BY <1>2 DEF Back, N
  <2> QED
    BY <1>2, <2>1, <2>5, <2>7, <2>8, <2>9 DEF ImageInv
<1>14. ImageInv'
  BY <1>2, <1>13 DEF ImageInv
<1>15. CountInv'
  BY <1>1, <1>2 DEF CountInv, Held, Counted, Chain, LeafSet, LeavesOf
<1> QED
  BY <1>11, <1>12, <1>14, <1>15 DEF Good


LEMMA CountKeeps ==
  ASSUME TypeInv, Good, CountField
  PROVE  Good'
<1>1. ListInv /\ HeldInv /\ ImageInv /\ CountInv
  BY DEF Good
<1>2. /\ PutHeader(Nothing, "count", count) /\ pending = {}
      /\ UNCHANGED <<trunk, count, total, op, page, used, torn>>
  BY DEF CountField, fields, flags
<1>3. PICK g : /\ Put(g) /\ DOMAIN g = DOMAIN Nothing \cup {1} /\ DOMAIN g \subseteq Page
               /\ view'[1] = [view[1] EXCEPT !["count"] = count]
               /\ \A p \in Low : view'[p] = IF p \in DOMAIN Nothing THEN Nothing[p] ELSE view[p]
               /\ pending' = dirty \cup DOMAIN Nothing \cup {1} /\ field' = "count" /\ UNCHANGED disk
  BY <1>2, WritesOf, HeaderEffect
<1>4. \A p \in Low : view'[p] = view[p]
  BY <1>3, WritesOf
<1>5. /\ trunk \in Low \cup {0} /\ view[1] = Fields(trunk, view[1].count, total)
      /\ Chain(view, trunk) \subseteq Low
      /\ disk[1].trunk = trunk /\ disk[1].size = total /\ Chain(disk, trunk) = Chain(view, trunk)
      /\ \A p \in Chain(view, trunk) : disk[p] = view[p]
  BY <1>1, <1>2, Facts, Flushed
<1>6. view'[1] = Fields(trunk, count, total)
  <2>1. view'[1] = Fields(view[1].trunk, count, view[1].size)
    BY <1>3, HeaderFields DEF TypeInv, FilesType
  <2> QED
    BY <1>1, <2>1 DEF ListInv
<1>7. view'[1].trunk = trunk /\ view'[1].size = total /\ view'[1].count = count
  BY <1>6 DEF Fields
<1>8. /\ Chain(view', trunk) = Chain(view, trunk)
      /\ \A c : Counted(view', trunk, c) <=> Counted(view, trunk, c)
  BY <1>4, <1>5, SameLeaves
<1>9. List(view', trunk, total)
  <2>1. Flat(view', trunk)
    BY <1>1, <1>4, FlatMix DEF ListInv, List
  <2> QED
    BY <1>1, <1>4, <1>5, <2>1, ListMoves DEF ListInv
<1>10. ListInv'
  BY <1>1, <1>2, <1>3, <1>4, <1>5, <1>7, <1>8, <1>9 DEF ListInv, Coming
<1>11. HeldInv'
  BY <1>1, <1>2, <1>3, <1>8 DEF HeldInv
<1>12. ImageInv'
  BY <1>1, <1>2, <1>3, ImagePut
<1>13. CountInv'
  BY <1>1, <1>2, <1>8 DEF CountInv, Held
<1> QED
  BY <1>10, <1>11, <1>12, <1>13 DEF Good

LEMMA PopLeafKeeps ==
  ASSUME TypeInv, Good, AllocateFree, PopLeaf
  PROVE  Good'
<1> DEFINE l == view[trunk].leaves
           n == Len(l)
           k == SubSeq(l, 1, n - 1)
           c == Trunk(view[trunk].next, k)
<1>1. ListInv /\ HeldInv /\ ImageInv /\ CountInv
  BY DEF Good
<1>2. /\ op = "idle" /\ trunk # 0 /\ view[trunk] # InUse /\ count > 0
      /\ n > 0 /\ page' = l[n] /\ PutHeader(Write(trunk, c), "trunk", trunk)
      /\ count' = count - 1 /\ op' = "allocate"
      /\ UNCHANGED <<trunk, total, used, torn>>
  BY DEF AllocateFree, PopLeaf, Idle, flags
<1>3. trunk \in Low /\ l \in LeafSeq /\ view[trunk].next = 0 /\ count \in Nat /\ total \in Page
  BY <1>1, <1>2, TrunkPage, Facts DEF ListInv, List, Flat
<1>4. /\ n \in Nat /\ DOMAIN l = 1..n /\ l[n] \in Low /\ n \in 1..n
      /\ k \in LeafSeq /\ Len(k) = n - 1 /\ DOMAIN k = 1..(n - 1)
      /\ \A i \in 1..(n - 1) : k[i] = l[i]
  <2>1. l # <<>>
    BY <1>2, <1>3, LeafSequences
  <2>2. /\ n \in Nat /\ DOMAIN l = 1..n /\ l[n] \in Low
        /\ k \in LeafSeq /\ Len(k) = n - 1 /\ \A i \in 1..(n - 1) : k[i] = l[i]
    BY <1>3, <2>1, LeafSequences
  <2>3. DOMAIN k = 1..Len(k)
    BY <2>2, LeafSequences
  <2> HIDE DEF l, k
  <2>4. n \in 1..n
    BY <1>2, <2>2
  <2> QED
    BY <2>2, <2>3, <2>4
<1> HIDE DEF k
<1>5. c \in Content /\ c # InUse /\ c.next = 0 /\ c.leaves = k
  BY <1>3, <1>4, Contents
<1> HIDE DEF c
<1>6. Writes(Write(trunk, c)) /\ DOMAIN Write(trunk, c) = {trunk} /\ Write(trunk, c)[trunk] = c
  BY <1>3, <1>5, WritesOf
<1>7. PICK g : /\ Put(g) /\ DOMAIN g = {trunk} \cup {1} /\ DOMAIN g \subseteq Page
               /\ view'[1] = [view[1] EXCEPT !["trunk"] = trunk]
               /\ \A p \in Low : view'[p] = IF p \in {trunk} THEN Write(trunk, c)[p] ELSE view[p]
               /\ pending' = dirty \cup {trunk} \cup {1} /\ field' = "trunk" /\ UNCHANGED disk
  <2>1. \E g : /\ Put(g) /\ DOMAIN g = DOMAIN Write(trunk, c) \cup {1} /\ DOMAIN g \subseteq Page
               /\ view'[1] = [view[1] EXCEPT !["trunk"] = trunk]
               /\ \A p \in Low : view'[p] = IF p \in DOMAIN Write(trunk, c) THEN Write(trunk, c)[p] ELSE view[p]
               /\ pending' = dirty \cup DOMAIN Write(trunk, c) \cup {1} /\ field' = "trunk" /\ UNCHANGED disk
    BY <1>2, <1>6, HeaderEffect
  <2> QED
    BY <1>6, <2>1
<1>8. view'[trunk] = c /\ \A p \in Low : p # trunk => view'[p] = view[p]
  BY <1>3, <1>6, <1>7
<1>9. view'[1].trunk = trunk /\ view'[1].size = total
  <2>1. view'[1] = Fields(trunk, view[1].count, view[1].size)
    BY <1>7, HeaderFields DEF TypeInv, FilesType
  <2> QED
    BY <1>1, <2>1 DEF ListInv, Fields
<1>10. /\ disk[1].trunk = trunk /\ disk[1].size = total /\ Chain(disk, trunk) = Chain(view, trunk)
       /\ \A p \in Chain(view, trunk) : disk[p] = view[p]
  <2>1. pending = {}
    BY <1>2 DEF TypeInv, OtherTypes
  <2> QED
    BY <1>1, <2>1, Flushed
<1>11. /\ LeavesOf(view, trunk) = l /\ LeafSet(view, trunk) = {l[i] : i \in 1..n}
       /\ Chain(view, trunk) = {trunk} \cup {l[i] : i \in 1..n}
  BY <1>2, <1>4 DEF LeavesOf, LeafSet, Chain
<1>12. /\ LeavesOf(view', trunk) = k /\ LeafSet(view', trunk) = {l[i] : i \in 1..(n - 1)}
       /\ Chain(view', trunk) = {trunk} \cup {l[i] : i \in 1..(n - 1)}
  <2>1. LeavesOf(view', trunk) = k
    BY <1>2, <1>5, <1>8 DEF LeavesOf
  <2>2. LeafSet(view', trunk) = {l[i] : i \in 1..(n - 1)}
    BY <1>4, <2>1 DEF LeafSet
  <2> QED
    BY <1>2, <2>1, <2>2 DEF Chain
<1>13. /\ \A i, j \in 1..n : l[i] = l[j] => i = j
       /\ \A i \in 1..n : l[i] # trunk
       /\ Chain(view, trunk) \subseteq 2..total /\ Flat(view, trunk)
  BY <1>1, <1>4, <1>11 DEF ListInv, List
<1> HIDE DEF l, n
<1>14. \A i \in 1..(n - 1) : i \in 1..n /\ i # n
  BY <1>4
<1>15. \A i \in 1..n : i = n \/ i \in 1..(n - 1)
  BY <1>4
<1>16. /\ page' \notin Chain(view', trunk) /\ page' \in Chain(view, trunk)
       /\ Chain(view, trunk) = Chain(view', trunk) \cup {page'}
  <2>1. page' \notin Chain(view', trunk) /\ page' \in Chain(view, trunk)
    BY <1>2, <1>4, <1>11, <1>12, <1>13, <1>14
  <2>2. Chain(view', trunk) \subseteq Chain(view, trunk)
    BY <1>11, <1>12, <1>14
  <2>3. Chain(view, trunk) \subseteq Chain(view', trunk) \cup {page'}
    BY <1>2, <1>11, <1>12, <1>15
  <2> QED
    BY <2>1, <2>2, <2>3
<1>17. List(view', trunk, total)
  <2>1. Flat(view', trunk)
    BY <1>5, <1>8, <1>13 DEF Flat
  <2>2. \A i, j \in DOMAIN LeavesOf(view', trunk) :
          LeavesOf(view', trunk)[i] = LeavesOf(view', trunk)[j] => i = j
    BY <1>4, <1>12, <1>13, <1>14
  <2>3. trunk \notin LeafSet(view', trunk)
    BY <1>12, <1>13, <1>14
  <2> QED
    BY <1>13, <1>16, <2>1, <2>2, <2>3 DEF List
<1>18. ListInv'
  <2>1. \A p \in {1} \cup Chain(view', trunk) : p \notin pending' => disk[p] = view'[p]
    <3>1. Chain(view, trunk) \subseteq Low
      BY <1>1, Facts
    <3> QED
      BY <1>7, <1>8, <1>10, <1>16, <3>1
  <2> QED
    BY <1>1, <1>2, <1>7, <1>9, <1>10, <1>16, <1>17, <2>1 DEF ListInv, Coming
<1>19. HeldInv'
  <2>1. used \cap Chain(view, trunk) = {} /\ used \subseteq 2..total
    BY <1>1 DEF HeldInv
  <2> QED
    BY <1>2, <1>7, <1>10, <1>13, <1>16, <2>1 DEF HeldInv
<1>20. ImageInv'
  BY <1>1, <1>2, <1>7, ImagePut
<1>21. CountInv'
  <2> SUFFICES ASSUME ~torn PROVE CountInv'
    BY <1>2 DEF CountInv
  <2>1. Counted(view, trunk, count) /\ Held \cup Chain(view, trunk) = 2..total
    BY <1>1 DEF CountInv
  <2>2. count = n + 1
    BY <1>2, <2>1 DEF Counted, l, n
  <2>3. Counted(view', trunk, count')
    BY <1>2, <1>4, <1>5, <1>8, <2>2 DEF Counted
  <2>4. Held = used /\ Held' = used \cup {page'}
    BY <1>2 DEF Held
  <2> QED
    BY <1>2, <1>16, <2>1, <2>3, <2>4 DEF CountInv
<1> QED
  BY <1>18, <1>19, <1>20, <1>21 DEF Good


LEMMA PopTrunkKeeps ==
  ASSUME TypeInv, Good, AllocateFree, PopTrunk
  PROVE  Good'
<1>1. ListInv /\ HeldInv /\ ImageInv /\ CountInv
  BY DEF Good
<1>2. /\ op = "idle" /\ trunk # 0 /\ view[trunk] # InUse /\ view[trunk].leaves = <<>>
      /\ page' = trunk /\ trunk' = view[trunk].next
      /\ PutHeader(Nothing, "trunk", view[trunk].next)
      /\ count' = count - 1 /\ op' = "allocate"
      /\ UNCHANGED <<total, used, torn>>
  BY DEF AllocateFree, PopTrunk, Idle, flags
<1>3. trunk \in Low /\ view[trunk].next = 0 /\ trunk' = 0 /\ total \in Page
  BY <1>1, <1>2, Facts DEF ListInv, List, Flat
<1>4. PICK g : /\ Put(g) /\ DOMAIN g = DOMAIN Nothing \cup {1} /\ DOMAIN g \subseteq Page
               /\ view'[1] = [view[1] EXCEPT !["trunk"] = view[trunk].next]
               /\ \A p \in Low : view'[p] = IF p \in DOMAIN Nothing THEN Nothing[p] ELSE view[p]
               /\ pending' = dirty \cup DOMAIN Nothing \cup {1} /\ field' = "trunk" /\ UNCHANGED disk
  BY <1>2, WritesOf, HeaderEffect
<1>5. \A p \in Low : view'[p] = view[p]
  BY <1>4, WritesOf
<1>6. view'[1].trunk = 0 /\ view'[1].size = total
  <2>1. view'[1] = Fields(0, view[1].count, view[1].size)
    BY <1>3, <1>4, HeaderFields DEF TypeInv, FilesType
  <2> QED
    BY <1>1, <2>1 DEF ListInv, Fields
<1>7. /\ disk[1].trunk = trunk /\ disk[1].size = total /\ Chain(disk, trunk) = Chain(view, trunk)
      /\ disk[trunk] = view[trunk]
  <2>1. pending = {}
    BY <1>2 DEF TypeInv, OtherTypes
  <2> QED
    BY <1>1, <1>2, <2>1, Flushed
<1>8. Chain(view, trunk) = {trunk}
  BY <1>2, <1>3, NoLeaves
<1>9. Flat(view', 0) /\ Flat(disk, 0)
  <2>1. Flat(view, trunk) /\ Flat(disk, trunk)
    BY <1>1, <1>7 DEF ListInv, List
  <2> QED
    BY <1>2, <1>3, <1>5, <1>7, <2>1 DEF Flat
<1>10. Chain(view', 0) = {} /\ LeafSet(view', 0) = {} /\ LeavesOf(view', 0) = <<>>
  BY NoLeaves
<1>11. List(view', 0, total)
  BY <1>9, <1>10 DEF List
<1>12. ListInv'
  BY <1>1, <1>2, <1>3, <1>4, <1>6, <1>7, <1>8, <1>9, <1>10, <1>11 DEF ListInv, Coming
<1>13. HeldInv'
  <2>1. trunk \in 2..total /\ trunk \notin used
    BY <1>1, <1>8 DEF HeldInv, ListInv, List
  <2> QED
    BY <1>1, <1>2, <1>3, <1>4, <1>10, <2>1 DEF HeldInv
<1>14. ImageInv'
  BY <1>1, <1>2, <1>3, <1>4, ImagePut
<1>15. CountInv'
  <2> SUFFICES ASSUME ~torn PROVE CountInv'
    BY <1>2 DEF CountInv
  <2>1. Counted(view, trunk, count) /\ Held \cup Chain(view, trunk) = 2..total
    BY <1>1 DEF CountInv
  <2>2. count = Len(<<>>) + 1
    BY <1>2, <2>1 DEF Counted
  <2>3. Counted(view', trunk', count')
    BY <1>2, <1>3, <2>2 DEF Counted
  <2>4. Held = used /\ Held' = used \cup {trunk}
    BY <1>2 DEF Held
  <2> QED
    BY <1>2, <1>3, <1>8, <1>10, <2>1, <2>3, <2>4 DEF CountInv
<1> QED
  BY <1>12, <1>13, <1>14, <1>15 DEF Good

LEMMA NewKeeps ==
  ASSUME TypeInv, Good, AllocateNew
  PROVE  Good'
<1>1. ListInv /\ HeldInv /\ ImageInv /\ CountInv
  BY DEF Good
<1>2. /\ op = "idle" /\ count = 0 /\ total' = total + 1 /\ page' = total'
      /\ PutHeader(Nothing, "size", total') /\ op' = "allocate"
      /\ UNCHANGED <<trunk, count, used, torn>>
  BY DEF AllocateNew, Idle, flags
<1>3. pending = {} /\ field = "none"
  BY <1>2 DEF TypeInv, OtherTypes
<1>4. PICK g : /\ Put(g) /\ DOMAIN g = DOMAIN Nothing \cup {1} /\ DOMAIN g \subseteq Page
               /\ view'[1] = [view[1] EXCEPT !["size"] = total']
               /\ \A p \in Low : view'[p] = IF p \in DOMAIN Nothing THEN Nothing[p] ELSE view[p]
               /\ pending' = dirty \cup DOMAIN Nothing \cup {1} /\ field' = "size" /\ UNCHANGED disk
  <2>1. Writes(Nothing) /\ PutHeader(Nothing, "size", total')
    BY <1>2, WritesOf
  <2> QED
    BY <2>1, HeaderEffect
<1>5. \A p \in Low : view'[p] = view[p]
  BY <1>4, WritesOf
<1>6. /\ trunk \in Low \cup {0} /\ total \in Nat /\ Chain(view, trunk) \subseteq Low
      /\ disk[1].trunk = trunk /\ disk[1].size = total /\ Chain(disk, trunk) = Chain(view, trunk)
      /\ \A p \in Chain(view, trunk) : disk[p] = view[p]
  BY <1>1, <1>3, Facts, Flushed, Pages
<1>7. view'[1].trunk = trunk /\ view'[1].size = total' /\ view'[1].count = count
  <2>1. view'[1] = Fields(view[1].trunk, view[1].count, total')
    BY <1>4, HeaderFields DEF TypeInv, FilesType
  <2> QED
    BY <1>1, <1>3, <2>1 DEF ListInv, Fields
<1>8. /\ Chain(view', trunk) = Chain(view, trunk)
      /\ \A c : Counted(view', trunk, c) <=> Counted(view, trunk, c)
  BY <1>5, <1>6, SameLeaves
<1>9. total \in 1..total /\ 2..total \subseteq 2..total' /\ 2..total' = 2..total \cup {total'}
      /\ total' \notin 2..total
  <2>1. total >= 1
    BY <1>1, Facts DEF Page
  <2> QED
    BY <1>2, <1>6, <2>1
<1>10. List(view', trunk, total')
  <2>1. Flat(view', trunk)
    BY <1>1, <1>5, FlatMix DEF ListInv, List
  <2>2. List(view', trunk, total)
    BY <1>1, <1>5, <1>6, <2>1, ListMoves DEF ListInv
  <2> QED
    BY <1>9, <2>2 DEF List
<1>11. ListInv'
  BY <1>1, <1>2, <1>4, <1>5, <1>6, <1>7, <1>8, <1>10 DEF ListInv, Coming
<1>12. used \subseteq 2..total /\ Chain(view, trunk) \subseteq 2..total
  BY <1>1 DEF HeldInv, ListInv, List
<1>13. HeldInv'
  BY <1>1, <1>2, <1>4, <1>6, <1>8, <1>9, <1>12 DEF HeldInv
<1>14. ImageInv'
  BY <1>1, <1>2, <1>4, ImagePut
<1>15. CountInv'
  <2>1. Held = used /\ Held' = used \cup {total'}
    BY <1>2 DEF Held
  <2> QED
    BY <1>1, <1>2, <1>8, <1>9, <2>1 DEF CountInv
<1> QED
  BY <1>11, <1>13, <1>14, <1>15 DEF Good

\* A write to a page that is not on the list, of which it makes no trunk page.
LEMMA OtherPage ==
  ASSUME TypeInv, ListInv, NEW p \in Low, p \notin Chain(view, trunk),
         NEW c, c \in {Zero, InUse}, Put(Write(p, c))
  PROVE  /\ List(view', trunk, total) /\ Chain(view', trunk) = Chain(view, trunk)
         /\ \A n : Counted(view', trunk, n) <=> Counted(view, trunk, n)
         /\ \A q \in {1} \cup Chain(view, trunk) : view'[q] = view[q]
         /\ UNCHANGED disk /\ DOMAIN Write(p, c) \subseteq Page
<1>1. DOMAIN Write(p, c) = {p} /\ Write(p, c)[p] = c /\ {p} \subseteq Page
  <2>1. c \in Content
    BY Contents
  <2> QED
    BY <2>1, WritesOf, Pages
<1>2. (\A q \in Page : view'[q] = IF q \in {p} THEN Write(p, c)[q] ELSE view[q]) /\ UNCHANGED disk
  BY <1>1, PutEffect
<1>3. trunk \in Low \cup {0} /\ Chain(view, trunk) \subseteq Low /\ (trunk # 0 => trunk \in Chain(view, trunk))
  BY Facts
<1>4. \A q \in {1} \cup Chain(view, trunk) : view'[q] = view[q]
  BY <1>2, <1>3, Pages
<1>5. Flat(view', trunk)
  <2>1. \A q \in Low : view'[q] = IF q = p THEN c ELSE view[q]
    BY <1>1, <1>2, Pages
  <2>2. c = InUse \/ (c.next = 0 /\ c.leaves = <<>>)
    BY Contents
  <2> QED
    BY <2>1, <2>2 DEF ListInv, List, Flat
<1>6. trunk = 0 \/ view[trunk] = view'[trunk]
  BY <1>3, <1>4
<1>7. List(view', trunk, total)
  <2>1. List(view, trunk, total)
    BY DEF ListInv
  <2> QED
    BY <1>5, <1>6, <2>1, ListMoves
<1>8. /\ Chain(view', trunk) = Chain(view, trunk)
      /\ \A n : Counted(view', trunk, n) <=> Counted(view, trunk, n)
  BY <1>6, SameLeaves
<1> QED
  BY <1>1, <1>2, <1>4, <1>7, <1>8

LEMMA DoneKeeps ==
  ASSUME TypeInv, Good, AllocateDone
  PROVE  Good'
<1>1. ListInv /\ HeldInv /\ ImageInv /\ CountInv
  BY DEF Good
<1>2. /\ op = "allocate" /\ field \in {"count", "size"} /\ pending = {} /\ Put(Write(page, Zero))
      /\ used' = used \cup {page} /\ op' = "idle" /\ field' = "none"
      /\ UNCHANGED <<trunk, count, total, pending, torn>>
  BY DEF AllocateDone, fields, flags
<1>3. page \in Low /\ page \in (2..total) \ (used \cup Chain(view, trunk))
  BY <1>1, <1>2 DEF TypeInv, OtherTypes, HeldInv
<1>4. /\ List(view', trunk, total) /\ Chain(view', trunk) = Chain(view, trunk)
      /\ \A n : Counted(view', trunk, n) <=> Counted(view, trunk, n)
      /\ \A q \in {1} \cup Chain(view, trunk) : view'[q] = view[q]
      /\ UNCHANGED disk /\ DOMAIN Write(page, Zero) \subseteq Page
  BY <1>1, <1>2, <1>3, OtherPage
<1>5. /\ disk[1].trunk = trunk /\ disk[1].size = total /\ Chain(disk, trunk) = Chain(view, trunk)
  BY <1>1, <1>2, Flushed
<1>6. ListInv'
  BY <1>1, <1>2, <1>4, <1>5 DEF ListInv, Coming
<1>7. HeldInv'
  BY <1>1, <1>2, <1>3, <1>4, <1>5 DEF HeldInv
<1>8. ImageInv'
  BY <1>1, <1>2, <1>4, ImagePut
<1>9. Held' = Held
  BY <1>2 DEF Held
<1>10. CountInv'
  BY <1>1, <1>2, <1>4, <1>9 DEF CountInv
<1> QED
  BY <1>6, <1>7, <1>8, <1>10 DEF Good

LEMMA UseKeeps ==
  ASSUME TypeInv, Good, NEW p \in Page, Use(p)
  PROVE  Good'
<1>1. ListInv /\ HeldInv /\ ImageInv /\ CountInv
  BY DEF Good
<1>2. /\ p \in used /\ Put(Write(p, InUse))
      /\ UNCHANGED <<trunk, count, total, op, page, field, pending, used, torn>>
  BY DEF Use, fields, control, flags
<1>3. p \in Low /\ p \notin Chain(view, trunk)
  BY <1>1, <1>2 DEF TypeInv, OtherTypes, HeldInv
<1>4. /\ List(view', trunk, total) /\ Chain(view', trunk) = Chain(view, trunk)
      /\ \A n : Counted(view', trunk, n) <=> Counted(view, trunk, n)
      /\ \A q \in {1} \cup Chain(view, trunk) : view'[q] = view[q]
      /\ UNCHANGED disk /\ DOMAIN Write(p, InUse) \subseteq Page
  BY <1>1, <1>2, <1>3, OtherPage
<1>5. disk[1].trunk = trunk
  <2>1. pending = {}
    BY DEF Use, Idle, TypeInv, OtherTypes
  <2> QED
    BY <1>1, <2>1, Flushed
<1>6. ListInv'
  BY <1>1, <1>2, <1>4, <1>5 DEF ListInv, Coming
<1>7. HeldInv'
  BY <1>1, <1>2, <1>4 DEF HeldInv
<1>8. ImageInv'
  BY <1>1, <1>2, <1>4, ImagePut
<1>9. CountInv'
  BY <1>1, <1>2, <1>4 DEF CountInv, Held
<1> QED
  BY <1>6, <1>7, <1>8, <1>9 DEF Good


LEMMA PushFirstKeeps ==
  ASSUME TypeInv, Good, NEW p \in Page, FreePage(p), PushFirst(p)
  PROVE  Good'
<1>1. ListInv /\ HeldInv /\ ImageInv /\ CountInv
  BY DEF Good
<1>2. /\ op = "idle" /\ p \in used /\ trunk = 0 /\ trunk' = p
      /\ PutHeader(Write(p, Zero), "trunk", p)
      /\ count' = count + 1 /\ op' = "free" /\ page' = p /\ used' = used \ {p}
      /\ UNCHANGED <<total, torn>>
  BY DEF FreePage, PushFirst, Idle
<1>3. /\ p \in Low /\ p \in 2..total /\ p # 0
  BY <1>1, <1>2, Pages DEF TypeInv, OtherTypes, HeldInv
<1>4. Writes(Write(p, Zero)) /\ DOMAIN Write(p, Zero) = {p} /\ Write(p, Zero)[p] = Zero
  BY <1>3, Contents, WritesOf
<1>5. PICK g : /\ Put(g) /\ DOMAIN g = DOMAIN Write(p, Zero) \cup {1} /\ DOMAIN g \subseteq Page
               /\ view'[1] = [view[1] EXCEPT !["trunk"] = p]
               /\ \A q \in Low : view'[q] = IF q \in DOMAIN Write(p, Zero) THEN Write(p, Zero)[q]
                                            ELSE view[q]
               /\ pending' = dirty \cup DOMAIN Write(p, Zero) \cup {1} /\ field' = "trunk"
               /\ UNCHANGED disk
  BY <1>2, <1>4, HeaderEffect
<1>6. \A q \in Low : view'[q] = IF q = p THEN Zero ELSE view[q]
  BY <1>4, <1>5
<1>7. view'[1].trunk = p /\ view'[1].size = total
  <2>1. view'[1] = Fields(p, view[1].count, view[1].size)
    BY <1>5, HeaderFields DEF TypeInv, FilesType
  <2> QED
    BY <1>1, <2>1 DEF ListInv, Fields
<1>8. disk[1].trunk = 0 /\ disk[1].size = total /\ Chain(disk, 0) = {}
  <2>1. pending = {}
    BY <1>2 DEF TypeInv, OtherTypes
  <2> QED
    BY <1>1, <1>2, <2>1, Flushed, NoLeaves
<1>9. Flat(view', 0) /\ Flat(view', p) /\ Flat(disk, 0)
  <2>1. Flat(view, 0) /\ Flat(disk, 0)
    BY <1>1, <1>2, <1>8 DEF ListInv, List
  <2>2. Flat(view', 0)
    BY <1>6, <2>1, Contents DEF Flat
  <2> QED
    BY <2>1, <2>2, FlatAny
<1>10. LeavesOf(view', p) = <<>> /\ LeafSet(view', p) = {} /\ Chain(view', p) = {p}
  <2>1. view'[p].leaves = <<>>
    BY <1>3, <1>6, Contents
  <2> QED
    BY <1>3, <2>1, NoLeaves
<1>11. List(view', p, total)
  BY <1>3, <1>9, <1>10 DEF List
<1>12. ListInv'
  BY <1>1, <1>2, <1>3, <1>4, <1>5, <1>7, <1>8, <1>9, <1>10, <1>11 DEF ListInv
<1>13. HeldInv'
  BY <1>1, <1>2, <1>5, <1>8, <1>10 DEF HeldInv
<1>14. ImageInv'
  BY <1>1, <1>2, <1>4, <1>5, ImagePut
<1>15. CountInv'
  <2> SUFFICES ASSUME ~torn PROVE CountInv'
    BY <1>2 DEF CountInv
  <2>1. count = 0 /\ Held \cup Chain(view, 0) = 2..total /\ Chain(view, 0) = {}
    BY <1>1, <1>2, NoLeaves DEF CountInv, Counted
  <2>2. Counted(view', p, count')
    <3>1. view'[p] # InUse /\ Len(view'[p].leaves) = 0
      BY <1>3, <1>6, Contents
    <3> QED
      BY <1>2, <1>3, <2>1, <3>1 DEF Counted
  <2>3. Held = used /\ Held' = used \ {p}
    BY <1>2 DEF Held
  <2> QED
    BY <1>2, <1>10, <2>1, <2>2, <2>3 DEF CountInv
<1> QED
  BY <1>12, <1>13, <1>14, <1>15 DEF Good

LEMMA PushLeafKeeps ==
  ASSUME TypeInv, Good, NEW p \in Page, FreePage(p), PushLeaf(p)
  PROVE  Good'
<1> DEFINE l == view[trunk].leaves
           n == Len(l)
           k == Append(l, p)
           c == Trunk(view[trunk].next, k)
           w == Write2(p, Zero, trunk, c)
<1>1. ListInv /\ HeldInv /\ ImageInv /\ CountInv
  BY DEF Good
<1>2. /\ op = "idle" /\ p \in used /\ trunk # 0 /\ view[trunk] # InUse
      /\ n < MaxLeaves /\ PutHeader(w, "trunk", trunk)
      /\ count' = count + 1 /\ op' = "free" /\ page' = p /\ used' = used \ {p}
      /\ UNCHANGED <<trunk, total, torn>>
  BY DEF FreePage, PushLeaf, Idle
<1>3. /\ trunk \in Low /\ l \in LeafSeq /\ view[trunk].next = 0 /\ count \in Nat
      /\ p \in Low /\ p \in 2..total /\ p \notin Chain(view, trunk) /\ p # trunk
  <2>1. trunk \in Low /\ l \in LeafSeq /\ view[trunk].next = 0 /\ count \in Nat
    BY <1>1, <1>2, TrunkPage, Facts DEF ListInv, List, Flat
  <2>2. p \in Low /\ p \in 2..total /\ p \notin Chain(view, trunk)
    BY <1>1, <1>2 DEF TypeInv, OtherTypes, HeldInv
  <2> QED
    BY <1>2, <2>1, <2>2 DEF Chain
<1>4. /\ n \in Nat /\ DOMAIN l = 1..n
      /\ k \in LeafSeq /\ Len(k) = n + 1 /\ DOMAIN k = 1..(n + 1)
      /\ k[n + 1] = p /\ \A i \in 1..n : k[i] = l[i]
  <2>1. /\ n \in Nat /\ DOMAIN l = 1..n
        /\ k \in LeafSeq /\ Len(k) = n + 1 /\ k[n + 1] = p /\ \A i \in 1..n : k[i] = l[i]
    BY <1>2, <1>3, LeafSequences
  <2>2. DOMAIN k = 1..Len(k)
    BY <2>1, LeafSequences
  <2> QED
    BY <2>1, <2>2
<1> HIDE DEF k
<1>5. c \in Content /\ c # InUse /\ c.next = 0 /\ c.leaves = k
  BY <1>3, <1>4, Contents
<1> HIDE DEF c
<1>6. Writes(w) /\ DOMAIN w = {p, trunk} /\ w[p] = Zero /\ w[trunk] = c
  <2>1. Zero \in Content
    BY Contents
  <2> QED
    BY <1>3, <1>5, <2>1 DEF Writes, Write2
<1> HIDE DEF w
<1>7. PICK g : /\ Put(g) /\ DOMAIN g = DOMAIN w \cup {1} /\ DOMAIN g \subseteq Page
               /\ view'[1] = [view[1] EXCEPT !["trunk"] = trunk]
               /\ \A q \in Low : view'[q] = IF q \in DOMAIN w THEN w[q] ELSE view[q]
               /\ pending' = dirty \cup DOMAIN w \cup {1} /\ field' = "trunk" /\ UNCHANGED disk
  BY <1>2, <1>6, HeaderEffect
<1>8. /\ view'[trunk] = c /\ view'[p] = Zero
      /\ \A q \in Low : q \notin {p, trunk} => view'[q] = view[q]
  BY <1>3, <1>6, <1>7
<1>9. view'[1].trunk = trunk /\ view'[1].size = total
  <2>1. view'[1] = Fields(trunk, view[1].count, view[1].size)
    BY <1>7, HeaderFields DEF TypeInv, FilesType
  <2> QED
    BY <1>1, <2>1 DEF ListInv, Fields
<1>10. /\ disk[1].trunk = trunk /\ disk[1].size = total /\ Chain(disk, trunk) = Chain(view, trunk)
       /\ \A q \in Chain(view, trunk) : disk[q] = view[q]
  <2>1. pending = {}
    BY <1>2 DEF TypeInv, OtherTypes
  <2> QED
    BY <1>1, <2>1, Flushed
<1>11. /\ LeavesOf(view, trunk) = l /\ LeafSet(view, trunk) = {l[i] : i \in 1..n}
       /\ Chain(view, trunk) = {trunk} \cup {l[i] : i \in 1..n}
  BY <1>2, <1>4 DEF LeavesOf, LeafSet, Chain
<1>12. /\ LeavesOf(view', trunk) = k /\ LeafSet(view', trunk) = {k[i] : i \in 1..(n + 1)}
       /\ Chain(view', trunk) = {trunk} \cup {k[i] : i \in 1..(n + 1)}
  <2>1. LeavesOf(view', trunk) = k
    BY <1>2, <1>5, <1>8 DEF LeavesOf
  <2>2. LeafSet(view', trunk) = {k[i] : i \in 1..(n + 1)}
    BY <1>4, <2>1 DEF LeafSet
  <2> QED
    BY <1>2, <2>1, <2>2 DEF Chain
<1>13. /\ \A i, j \in 1..n : l[i] = l[j] => i = j
       /\ \A i \in 1..n : l[i] # trunk /\ l[i] # p
       /\ Chain(view, trunk) \subseteq 2..total /\ Flat(view, trunk)
  BY <1>1, <1>3, <1>4, <1>11 DEF ListInv, List
<1> HIDE DEF l, n
<1>14. \A i : i \in 1..(n + 1) <=> i \in 1..n \/ i = n + 1
  BY <1>4
<1>15. Chain(view', trunk) = Chain(view, trunk) \cup {p}
  BY <1>4, <1>11, <1>12, <1>14
<1>16. List(view', trunk, total)
  <2>1. Flat(view', trunk)
    BY <1>5, <1>8, <1>13, Contents DEF Flat
  <2>2. \A i, j \in 1..(n + 1) : k[i] = k[j] => i = j
    BY <1>4, <1>13, <1>14
  <2>3. trunk \notin LeafSet(view', trunk)
    BY <1>3, <1>4, <1>12, <1>13, <1>14
  <2>4. Chain(view', trunk) \subseteq 2..total
    BY <1>3, <1>13, <1>15
  <2> QED
    BY <1>4, <1>12, <2>1, <2>2, <2>3, <2>4 DEF List
<1>17. ListInv'
  <2>1. \A q \in {1} \cup Chain(view', trunk) : q \notin pending' => disk[q] = view'[q]
    <3>1. Chain(view, trunk) \subseteq Low
      BY <1>1, Facts
    <3> QED
      BY <1>6, <1>7, <1>8, <1>10, <1>15, <3>1
  <2> QED
    BY <1>1, <1>2, <1>7, <1>9, <1>10, <1>15, <1>16, <2>1 DEF ListInv
<1>18. HeldInv'
  BY <1>1, <1>2, <1>7, <1>10, <1>15 DEF HeldInv
<1>19. ImageInv'
  BY <1>1, <1>2, <1>7, ImagePut
<1>20. CountInv'
  <2> SUFFICES ASSUME ~torn PROVE CountInv'
    BY <1>2 DEF CountInv
  <2>1. Counted(view, trunk, count) /\ Held \cup Chain(view, trunk) = 2..total
    BY <1>1 DEF CountInv
  <2>2. count = n + 1
    BY <1>2, <2>1 DEF Counted, l, n
  <2>3. Counted(view', trunk, count')
    BY <1>2, <1>4, <1>5, <1>8, <2>2 DEF Counted
  <2>4. Held = used /\ Held' = used \ {p}
    BY <1>2 DEF Held
  <2> QED
    BY <1>2, <1>15, <2>1, <2>3, <2>4 DEF CountInv
<1> QED
  BY <1>17, <1>18, <1>19, <1>20 DEF Good

LEMMA FreeDoneKeeps ==
  ASSUME TypeInv, Good, FreeDone
  PROVE  Good'
<1>1. ListInv /\ HeldInv /\ ImageInv /\ CountInv
  BY DEF Good
<1>2. /\ op = "free" /\ field = "count" /\ op' = "idle" /\ field' = "none"
      /\ UNCHANGED <<disk, view, trunk, count, total, inTx, before, usedThen, fieldsThen, pending, used,
                     torn>>
  BY DEF FreeDone, files, fields, txState, flags
<1>3. /\ Coming = {} /\ Coming' = {} /\ Held' = Held
  BY <1>2 DEF Coming, Held
<1>4. ListInv'
  BY <1>1, <1>2, <1>3 DEF ListInv
<1>5. HeldInv'
  BY <1>1, <1>2 DEF HeldInv
<1>6. ImageInv'
  <2>1. Back(disk)' = Back(disk) /\ Back(view)' = Back(view)
    BY <1>2 DEF Back
  <2> QED
    BY <1>1, <1>2, <2>1 DEF ImageInv
<1>7. CountInv'
  BY <1>1, <1>2, <1>3 DEF CountInv
<1> QED
  BY <1>4, <1>5, <1>6, <1>7 DEF Good


LEMMA BeginKeeps ==
  ASSUME TypeInv, Good, Begin
  PROVE  Good'
<1>1. ListInv /\ HeldInv /\ ImageInv /\ CountInv
  BY DEF Good
<1>2. /\ op = "idle" /\ inTx' /\ before' = [p \in Page |-> NoImage]
      /\ usedThen' = used /\ fieldsThen' = Fields(trunk, count, total)
      /\ UNCHANGED <<disk, view, trunk, count, total, op, page, field, pending, used, torn>>
  BY DEF Begin, Idle, Empty, files, fields, control, flags
<1>3. pending = {} /\ field # "trunk"
  BY <1>2 DEF TypeInv, OtherTypes
<1>4. /\ disk[1] = Fields(trunk, count, total) /\ Chain(disk, trunk) = Chain(view, trunk)
      /\ disk[1].trunk = trunk /\ disk[1].size = total
      /\ \A p \in {1} \cup Chain(view, trunk) : disk[p] = view[p]
      /\ \A c : Counted(disk, trunk, c) <=> Counted(view, trunk, c)
  BY <1>1, <1>3, Flushed
<1>5. /\ fieldsThen'.trunk = trunk /\ fieldsThen'.size = total /\ fieldsThen'.count = count
  BY <1>2 DEF Fields
<1>6. Back(disk)' = disk /\ Back(view)' = view
  BY <1>2 DEF Back, TypeInv, FilesType, OtherTypes
<1>7. ListInv' /\ HeldInv'
  BY <1>1, <1>2 DEF ListInv, HeldInv, Coming
<1>8. List(disk, trunk, total) /\ Flat(view, trunk)
  BY <1>1, <1>4 DEF ListInv, List
<1>9. CountInv'
  BY <1>1, <1>2 DEF CountInv, Held
<1>10. ~torn => Counted(disk, trunk, count) /\ used \cup Chain(disk, trunk) = 2..total
  BY <1>1, <1>2, <1>4 DEF CountInv, Held
<1>11. used \subseteq 2..total /\ used \cap Chain(disk, trunk) = {}
  BY <1>1, <1>4 DEF HeldInv
<1>12. ImageInv'
  BY <1>2, <1>4, <1>5, <1>6, <1>8, <1>10, <1>11 DEF ImageInv
<1> QED
  BY <1>7, <1>9, <1>12 DEF Good

LEMMA CommitKeeps ==
  ASSUME TypeInv, Good, Commit
  PROVE  Good'
<1>1. ListInv /\ HeldInv /\ ImageInv /\ CountInv
  BY DEF Good
<1> DEFINE F == [p \in Page |-> IF p \in dirty THEN view[p] ELSE disk[p]]
<1>2. /\ op = "idle" /\ pending = {} /\ ~inTx' /\ disk' = F
      /\ UNCHANGED <<view, trunk, count, total, op, page, field, pending, used, torn>>
  BY DEF Commit, EndTx, Idle, fields, control, flags, TypeInv, OtherTypes
<1>3. view[1].trunk = trunk /\ view[1].size = total
  BY <1>1 DEF ListInv
<1>4. disk[1] = view[1] /\ \A p \in Chain(view, trunk) : disk[p] = view[p]
  BY <1>1, <1>2 DEF ListInv
<1>5. /\ List(view, trunk, total) /\ Flat(view, trunk) /\ Flat(disk, trunk)
      /\ Chain(view, trunk) \subseteq 2..total
  BY <1>1, <1>3, <1>4 DEF ListInv, List
<1>6. F[1] = view[1] /\ \A p \in Page : F[p] = view[p] \/ F[p] = disk[p]
  BY <1>4, Pages
<1>7. trunk \in Low \cup {0} /\ total \in Page
  BY HeaderFields, <1>3 DEF TypeInv, OtherTypes, Header, FilesType
<1>8. \A p \in Chain(view, trunk) : F[p] = view[p]
  BY <1>4, <1>5, <1>7, Pages, MaxPagesAssumption DEF Page
<1> HIDE DEF F
<1>9. Flat(F, trunk)
  BY <1>5, <1>6, Pages DEF Flat
<1>10. trunk = 0 \/ view[trunk] = F[trunk]
  BY <1>8 DEF Chain
<1>11. List(F, trunk, total) /\ Chain(F, trunk) = Chain(view, trunk)
  BY <1>5, <1>9, <1>10, ListMoves, SameLeaves
<1>12. ListInv' /\ HeldInv'
  BY <1>1, <1>2, <1>3, <1>6, <1>8, <1>11 DEF ListInv, HeldInv, Coming
<1>13. ImageInv' /\ CountInv'
  BY <1>1, <1>2 DEF ImageInv, CountInv, Held
<1> QED
  BY <1>12, <1>13 DEF Good

LEMMA RollbackKeeps ==
  ASSUME TypeInv, Good, Rollback, ~undone'
  PROVE  Good'
<1> DEFINE B == Back(disk)
           V == Back(view)
<1>1. ImageInv
  BY DEF Good
<1>2. /\ op = "idle" /\ inTx /\ ~inTx' /\ disk' = B /\ view' = V /\ used' = usedThen
      /\ fieldsThen = Fields(trunk, count, total)
      /\ UNCHANGED <<trunk, count, total, op, page, field, pending, torn>>
  BY DEF Rollback, EndTx, Idle, Back, fields, control
<1>3. fieldsThen.trunk = trunk /\ fieldsThen.count = count /\ fieldsThen.size = total
  BY <1>2 DEF Fields
<1> HIDE DEF B, V
<1>4. /\ List(B, trunk, total) /\ B[1] = fieldsThen
      /\ usedThen \subseteq 2..total /\ usedThen \cap Chain(B, trunk) = {}
      /\ \A p \in {1} \cup Chain(B, trunk) : before[p] = NoImage => disk[p] = view[p]
      /\ Flat(V, trunk)
      /\ ~torn => Counted(B, trunk, count) /\ usedThen \cup Chain(B, trunk) = 2..total
  BY <1>1, <1>2, <1>3 DEF ImageInv, B, V
<1>5. trunk \in Low \cup {0} /\ total \in Page
  BY HeaderFields, <1>2, <1>3 DEF TypeInv, OtherTypes, Header, Fields
<1>6. Chain(B, trunk) \subseteq Low
  BY <1>4, <1>5, MaxPagesAssumption DEF List, Low, Page
<1>7. \A p \in {1} \cup Chain(B, trunk) : B[p] = V[p]
  BY <1>4, <1>6, Pages DEF B, V, Back
<1>8. trunk = 0 \/ B[trunk] = V[trunk]
  BY <1>7 DEF Chain
<1>9. /\ List(V, trunk, total) /\ Chain(V, trunk) = Chain(B, trunk)
      /\ (Counted(B, trunk, count) => Counted(V, trunk, count))
  BY <1>4, <1>8, ListMoves, SameLeaves
<1>10. V[1] = fieldsThen
  BY <1>4, <1>7
<1>11. ListInv'
  BY <1>2, <1>3, <1>4, <1>7, <1>9, <1>10 DEF ListInv, Coming
<1>12. HeldInv'
  BY <1>2, <1>3, <1>4, <1>9 DEF HeldInv
<1>13. Held' = usedThen
  BY <1>2 DEF Held
<1>14. ImageInv' /\ CountInv'
  BY <1>2, <1>4, <1>9, <1>13 DEF ImageInv, CountInv
<1> QED
  BY <1>11, <1>12, <1>14 DEF Good

LEMMA ReopenKeeps ==
  ASSUME TypeInv, Good, Reopen
  PROVE  Good'
<1>1. ListInv /\ HeldInv /\ ImageInv /\ CountInv
  BY DEF Good
<1>2. /\ view' = disk /\ trunk' = disk[1].trunk /\ count' = disk[1].count /\ total' = disk[1].size
      /\ ~inTx' /\ op' = "idle" /\ pending' = {} /\ UNCHANGED <<disk, used>>
      /\ (~torn' => ~torn /\ op = "idle")
  BY DEF Reopen
<1>3. ListInv'
  BY <1>1, <1>2 DEF ListInv
<1>4. used \cap (Chain(view, trunk) \cup Coming) = {}
  BY <1>1 DEF HeldInv, Coming
<1>5. HeldInv'
  BY <1>1, <1>2, <1>4 DEF HeldInv, ListInv
<1>6. CountInv'
  <2> SUFFICES ASSUME ~torn' PROVE CountInv'
    BY DEF CountInv
  <2>1. ~torn /\ op = "idle" /\ pending = {} /\ field # "trunk"
    BY <1>2 DEF TypeInv, OtherTypes
  <2>2. /\ disk[1] = Fields(trunk, count, total) /\ Chain(disk, trunk) = Chain(view, trunk)
        /\ \A c : Counted(disk, trunk, c) <=> Counted(view, trunk, c)
    BY <1>1, <2>1, Flushed
  <2>3. trunk' = trunk /\ count' = count /\ total' = total
    BY <1>2, <2>2 DEF Fields
  <2> QED
    BY <1>1, <1>2, <2>1, <2>2, <2>3 DEF CountInv, Held
<1> QED
  BY <1>2, <1>3, <1>5, <1>6 DEF Good, ImageInv

LEMMA FreeStep == TypeInv /\ FreeInv /\ [Next]_vars => FreeInv'
<1> SUFFICES ASSUME TypeInv, FreeInv, [Next]_vars, ~(overflowed' \/ undone') PROVE Good'
  BY DEF FreeInv
<1>1. CASE FlushBatch
  BY <1>1, FlushKeeps DEF FreeInv, FlushBatch, flags
<1>2. CASE CountField
  BY <1>2, CountKeeps DEF FreeInv, CountField, flags
<1>3. CASE AllocateFree
  BY <1>3, PopLeafKeeps, PopTrunkKeeps DEF FreeInv, AllocateFree, flags
<1>4. CASE AllocateNew
  BY <1>4, NewKeeps DEF FreeInv, AllocateNew, flags
<1>5. CASE AllocateDone
  BY <1>5, DoneKeeps DEF FreeInv, AllocateDone, flags
<1>6. ASSUME NEW p \in Page, Use(p) PROVE Good'
  BY <1>6, UseKeeps DEF FreeInv, Use, flags
<1>7. ASSUME NEW p \in Page, FreePage(p) PROVE Good'
  <2>1. ~PushTrunk(p) /\ undone' = undone
    BY <1>7 DEF FreePage, PushTrunk
  <2>2. CASE PushFirst(p)
    BY <1>7, <2>1, <2>2, PushFirstKeeps DEF FreeInv, PushFirst
  <2>3. CASE PushLeaf(p)
    BY <1>7, <2>1, <2>3, PushLeafKeeps DEF FreeInv, PushLeaf
  <2> QED
    BY <1>7, <2>1, <2>2, <2>3 DEF FreePage
<1>8. CASE FreeDone
  BY <1>8, FreeDoneKeeps DEF FreeInv, FreeDone, flags
<1>9. CASE Begin
  BY <1>9, BeginKeeps DEF FreeInv, Begin, flags
<1>10. CASE Commit
  BY <1>10, CommitKeeps DEF FreeInv, Commit, flags
<1>11. CASE Rollback
  BY <1>11, RollbackKeeps DEF FreeInv, Rollback
<1>12. CASE Reopen
  BY <1>12, ReopenKeeps DEF FreeInv, Reopen
<1>13. CASE UNCHANGED vars
  <2>1. Good
    BY <1>13 DEF FreeInv, vars, flags
  <2> QED
    BY <1>13, <2>1 DEF vars, files, fields, txState, control, flags, Good, ListInv, HeldInv, ImageInv,
                       CountInv, Coming, Held, Back
<1> QED
  BY <1>1, <1>2, <1>3, <1>4, <1>5, <1>6, <1>7, <1>8, <1>9, <1>10, <1>11, <1>12, <1>13 DEF Next

LEMMA FreeAlways == Spec => [](TypeInv /\ FreeInv)
<1>1. Init => TypeInv /\ FreeInv
  BY TypeInit, FreeInit
<1>2. (TypeInv /\ FreeInv) /\ [Next]_vars => (TypeInv /\ FreeInv)'
  BY TypeStep, FreeStep
<1> QED
  BY <1>1, <1>2, PTL DEF Spec


-----------------------------------------------------------------------------
(* What the invariant says of the list as it is read *)

\* A set that the numbers up to n count has n + 1 elements.
LEMMA CountUp ==
  ASSUME NEW n \in Nat, NEW S, NEW g \in [0..n -> S],
         \A i, j \in 0..n : g[i] = g[j] => i = j,
         \A s \in S : \E j \in 0..n : g[j] = s
  PROVE  Cardinality(S) = n + 1
<1>1. g \in Bijection(0..n, S)
  BY Fun_IsBij
<1>2. IsFiniteSet(0..n) /\ Cardinality(0..n) = n + 1
  BY FS_Interval
<1>3. ExistsBijection(0..n, S)
  BY <1>1 DEF ExistsBijection
<1> QED
  BY <1>2, <1>3, FS_Bijection

\* What the file, followed from page to page, says is on the list, is the chain;
\* and if the count is right, it is that of the places of the list and of its pages.
LEMMA ReadList ==
  ASSUME TypeInv, ListInv
  PROVE  /\ Listed(Trunks(trunk)) = Chain(view, trunk)
         /\ Counted(view, trunk, count) =>
              /\ Cardinality(Slots(Trunks(trunk))) = count
              /\ Cardinality(Listed(Trunks(trunk))) = count
<1> DEFINE ts == Trunks(trunk)
           l == LeavesOf(view, trunk)
           n == Len(l)
<1>1. /\ trunk \in Low \cup {0} /\ (trunk # 0 => view[trunk] \in Content)
      /\ trunk = 0 \/ view[trunk] = InUse \/ view[trunk].next = 0
  BY Facts DEF ListInv, List, Flat
<1>2. ts = IF trunk = 0 THEN <<>> ELSE <<trunk>>
  BY <1>1, OneTrunk
<1> HIDE DEF ts
<1>3. CASE trunk = 0
  <2>1. ts = <<>> /\ 1..Len(ts) = {}
    BY <1>2, <1>3
  <2>2. Slots(ts) = {}
    BY <2>1 DEF Slots
  <2>3. Listed(ts) = {} /\ Chain(view, trunk) = {}
    BY <1>3, <2>2 DEF Listed, Chain
  <2>4. Counted(view, trunk, count) => count = 0
    BY <1>3 DEF Counted
  <2> QED
    BY <2>2, <2>3, <2>4, FS_EmptySet DEF ts
<1>4. CASE trunk # 0
  <2>1. ts[1] = trunk /\ Len(ts) = 1 /\ 1..Len(ts) = {1}
    BY <1>2, <1>4
  <2>2. l \in LeafSeq
    BY <1>1, <1>4, Contents DEF LeavesOf, Zero, Trunk
  <2>3. n \in Nat /\ n <= MaxLeaves /\ DOMAIN l = 1..n
    BY <2>2, LeafSequences
  <2>4. Leaves(trunk) = l
    BY <1>4 DEF Leaves, LeavesOf
  <2>5. /\ \A i, j \in 1..n : l[i] = l[j] => i = j
        /\ \A i \in 1..n : l[i] # trunk
        /\ Chain(view, trunk) = {trunk} \cup {l[i] : i \in 1..n}
    BY <1>4, <2>3 DEF ListInv, List, LeafSet, Chain
  <2> HIDE DEF l, n
  <2>6. /\ \A s \in Slots(ts) : s = <<1, s[2]>> /\ s[1] = 1 /\ s[2] \in 0..n
        /\ \A j \in 0..n : <<1, j>> \in Slots(ts)
    <3>1. Len(Leaves(trunk)) = n
      BY <2>4 DEF n
    <3>2. \A j \in 0..MaxLeaves : j <= n <=> j \in 0..n
      BY <2>3
    <3>3. 0..n \subseteq 0..MaxLeaves
      BY <2>3, MaxLeavesAssumption
    <3>4. \A s \in Slots(ts) : s = <<1, s[2]>> /\ s[1] = 1 /\ s[2] \in 0..n
      BY <2>1, <3>1, <3>2 DEF Slots
    <3>5. \A j \in 0..n : <<1, j>> \in Slots(ts)
      BY <2>1, <3>1, <3>2, <3>3 DEF Slots
    <3> QED
      BY <3>4, <3>5
  <2> DEFINE at(j) == IF j = 0 THEN trunk ELSE l[j]
  <2>7. Listed(ts) = {at(s[2]) : s \in Slots(ts)}
    BY <2>1, <2>4, <2>6 DEF Listed
  <2>8. \A j \in 0..n : j = 0 \/ j \in 1..n
    BY <2>3
  <2>9. 0 \in 0..n /\ 1..n \subseteq 0..n /\ 0 \notin 1..n
    BY <2>3
  <2>10. Listed(ts) = {at(j) : j \in 0..n}
    <3>1. \A j \in 0..n : <<1, j>>[2] = j
      OBVIOUS
    <3> QED
      BY <2>6, <2>7, <3>1
  <2>11. Chain(view, trunk) = {at(j) : j \in 0..n}
    BY <2>5, <2>8, <2>9
  <2>12. Cardinality(Slots(ts)) = n + 1
    <3> DEFINE g == [j \in 0..n |-> <<1, j>>]
    <3>1. g \in [0..n -> Slots(ts)]
      BY <2>6
    <3>2. \A i, j \in 0..n : g[i] = g[j] => i = j
      OBVIOUS
    <3>3. \A s \in Slots(ts) : \E j \in 0..n : g[j] = s
      BY <2>6
    <3> HIDE DEF g
    <3> QED
      BY <2>3, <3>1, <3>2, <3>3, CountUp
  <2>13. Cardinality(Listed(ts)) = n + 1
    <3> DEFINE g == [j \in 0..n |-> at(j)]
    <3>1. g \in [0..n -> Listed(ts)]
      BY <2>10
    <3>2. \A i, j \in 0..n : g[i] = g[j] => i = j
      BY <2>5, <2>8
    <3>3. \A s \in Listed(ts) : \E j \in 0..n : g[j] = s
      BY <2>10
    <3> HIDE DEF g
    <3> QED
      BY <2>3, <3>1, <3>2, <3>3, CountUp
  <2>14. Counted(view, trunk, count) => count = n + 1
    BY <1>4 DEF Counted, LeavesOf, l, n
  <2> QED
    BY <2>10, <2>11, <2>12, <2>13, <2>14 DEF ts
<1> QED
  BY <1>3, <1>4

LEMMA Promised == TypeInv /\ FreeInv => FreelistSound /\ ListIsDurable /\ CrashOnlyLeaks
<1> SUFFICES ASSUME TypeInv, FreeInv, ~(overflowed \/ undone)
             PROVE  FreelistSound /\ ListIsDurable /\ CrashOnlyLeaks
  BY DEF FreelistSound, ListIsDurable, CrashOnlyLeaks
<1>1. ListInv /\ HeldInv /\ CountInv
  BY DEF FreeInv, Good
<1>2. /\ Listed(Trunks(trunk)) = Chain(view, trunk)
      /\ Counted(view, trunk, count) => /\ Cardinality(Slots(Trunks(trunk))) = count
                                        /\ Cardinality(Listed(Trunks(trunk))) = count
  BY <1>1, ReadList
<1>3. CrashOnlyLeaks
  BY <1>1, <1>2 DEF CrashOnlyLeaks, NoPageTwice, HeldInv
<1>4. FreelistSound
  <2> SUFFICES ASSUME ~torn PROVE ListSound
    BY DEF FreelistSound
  <2>1. Held \cap Chain(view, trunk) = {}
    BY <1>1 DEF Held, HeldInv
  <2> QED
    BY <1>1, <1>2, <2>1 DEF ListSound, CountInv
<1>5. ListIsDurable
  <2> SUFFICES ASSUME op = "idle"
               PROVE  /\ disk[1] = Fields(trunk, count, total)
                      /\ \A p \in Listed(Trunks(trunk)) : disk[p] = view[p]
    BY DEF ListIsDurable
  <2>1. pending = {} /\ field # "trunk"
    BY DEF TypeInv, OtherTypes
  <2> QED
    BY <1>1, <1>2, <2>1, Flushed
<1> QED
  BY <1>3, <1>4, <1>5

\* allocate_page and free_page keep every page but the first either with a caller
\* or exactly once on the list, and the count right, at every flush of every step.
THEOREM ListStaysSound == Spec => []FreelistSound
BY FreeAlways, Promised, PTL

\* Between two operations the file alone describes the list, in a transaction too.
THEOREM ListInFile == Spec => []ListIsDurable
BY FreeAlways, Promised, PTL

\* However the process dies, no page is given to two callers.
THEOREM NoPageToTwo == Spec => []CrashOnlyLeaks
BY FreeAlways, Promised, PTL

=============================================================================
