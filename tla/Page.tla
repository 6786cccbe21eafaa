-------------------------------- MODULE Page --------------------------------
(* One page of a B-tree, byte by byte: class BTreePage of                   *)
(* src/pysqlite/btree.py.  The header and the array of cell pointers grow   *)
(* from the start of the page, the cells from its end; deleted cells become *)
(* free blocks, linked through their own first bytes.  A unit of this model *)
(* is two bytes: a cell pointer, half a free block's header, or a piece of  *)
(* a cell.  The bytes a cell is made of, its overflow pages and the pages   *)
(* that point to this one belong to other modules.                          *)
EXTENDS Integers, FiniteSets, Functions, SequencesExt

CONSTANTS Cells,        \* the cells to insert: records [key, size]
          PageSize,     \* units in a page: 2048 in the code
          HeaderSize,   \* units of the header: 4 in a leaf, 6 in an interior page
          MinBlock,     \* units of a free block's header: 2
          Margins       \* with less free space than this a page is split after an
                        \* insertion: 60 for a leaf, 0 for an interior page

ASSUME SizesAssumption ==
  /\ PageSize \in Nat /\ HeaderSize \in 1..PageSize /\ MinBlock = 2 /\ Margins \subseteq Nat
  /\ \A c \in Cells : c.key \in Nat /\ c.size \in MinBlock..PageSize

Units == 0..PageSize - 1

(* What a unit of the page can hold.                                        *)
Word(n) == [kind |-> "word", value |-> n]
Piece(c, k) == [kind |-> "cell", cell |-> c, piece |-> k]
Number(u) == IF u.kind = "word" THEN u.value ELSE 0

VARIABLES page,         \* the BTreePage object
          damage        \* what went wrong on this page, "none" so far

vars == <<page, damage>>

Count(p) == Len(p.pointers)
PointerOffset(index) == HeaderSize + index
Span(offset, size) == offset..offset + size - 1

(* Write the units of s at an offset of the page.                           *)
Overwrite(p, offset, s) ==
  [p EXCEPT !.raw = [u \in Units |-> IF u \in Span(offset, Len(s)) THEN s[u - offset + 1] ELSE @[u]]]

(* The cell pointers, as the page's own bytes hold them.                    *)
WritePointers(p) ==
  Overwrite(p, PointerOffset(0), [i \in DOMAIN p.pointers |-> Word(p.pointers[i])])

Empty == [raw |-> [u \in Units |-> Word(0)], pointers |-> << >>, content |-> PageSize,
          first |-> 0, fragments |-> 0]

Init == page = Empty /\ damage = "none"

(* Reading a cell: from its pointer to the next higher one.                 *)
FindCellEnd(p, i) ==
  Min({PageSize} \union {q \in Range(p.pointers) : q > p.pointers[i]})

ReadCell(p, i) ==
  [k \in 1..FindCellEnd(p, i) - p.pointers[i] |-> p.raw[p.pointers[i] + k - 1]]

(* The cell at an index, by the bytes that begin it: a cell says itself how *)
(* long it is, what follows it in its span is not looked at.                *)
NoCell == [key |-> -1, size |-> 0]
CellOf(s) ==
  IF s # << >> /\ s[1].kind = "cell" /\ s[1].cell.size <= Len(s)
       /\ \A k \in 1..s[1].cell.size : s[k] = Piece(s[1].cell, k)
  THEN s[1].cell ELSE NoCell

Entries(p) == [i \in DOMAIN p.pointers |-> ReadCell(p, i)]
CellsOf(p) == [i \in DOMAIN p.pointers |-> CellOf(Entries(p)[i])]
Bytes(c) == [k \in 1..c.size |-> Piece(c, k)]

-----------------------------------------------------------------------------
(* Free space                                                               *)

(* The free blocks, in the order of their list.                             *)
Block(p) ==
  LET at[n \in 1..PageSize] ==
        IF n = 1 THEN p.first
        ELSE LET b == at[n - 1] IN IF b \in Units \ {0} THEN Number(p.raw[b]) ELSE 0
  IN at
BlockSize(p, b) == IF b + 1 \in Units THEN Number(p.raw[b + 1]) ELSE 0
Blocks(p) == Range(Block(p)) \ {0}

(* A slip: the old list is not hung behind the new block.                   *)
FreeWithoutLink(p, offset, size) ==
  [Overwrite(p, offset, <<Word(0), Word(size)>>) EXCEPT !.first = offset]

AddFreeblock(p, offset, size) ==
  [Overwrite(p, offset, <<Word(p.first), Word(size)>>) EXCEPT
     !.first = offset,
     !.fragments = IF size < MinBlock THEN @ + size ELSE @]

(* The first free block that is large enough; what is left of it stays on   *)
(* the list if a header fits into it, and is lost otherwise.                *)
FirstFit(p, size) ==
  {n \in DOMAIN Block(p) :
     /\ Block(p)[n] # 0 /\ BlockSize(p, Block(p)[n]) >= size
     /\ \A m \in 1..n - 1 : BlockSize(p, Block(p)[m]) < size}

Unlink(p, prev, rest) ==
  IF prev = 0 THEN [p EXCEPT !.first = rest] ELSE Overwrite(p, prev, <<Word(rest)>>)

(* A slip: a block that is used up stays on the list.                       *)
AllocWithoutUnlink(p, size, n) == [at |-> Block(p)[n], page |-> p]

FreeblockAlloc(p, size, n) ==
  LET prev == IF n = 1 THEN 0 ELSE Block(p)[n - 1]
      current == Block(p)[n]
      remaining == BlockSize(p, current) - size
      next == Number(p.raw[current])
      new == current + size
  IN [at |-> current,
      page |-> IF remaining >= MinBlock
               THEN Unlink(Overwrite(p, new, <<Word(next), Word(remaining)>>), prev, new)
               ELSE Unlink(p, prev, next)]

NeedsDefrag(p) == p.fragments * 10 > p.content

(* The end of the page as it is before any cell is in it; a cell more, from *)
(* the end down.                                                            *)
Bare(p) == [p EXCEPT !.pointers = << >>, !.content = PageSize]
Place(p, s) == [Overwrite(p, p.content - Len(s), s) EXCEPT
                  !.content = @ - Len(s), !.pointers = Append(@, p.content - Len(s))]

(* A slip: each cell is read when it is moved, although the ones before it  *)
(* may have been put over it.                                               *)
DefragmentInPlace(p) ==
  LET moved[n \in 0..Count(p)] ==
        IF n = 0 THEN Bare(p)
        ELSE LET q == moved[n - 1]
             IN Place(q, [k \in DOMAIN Entries(p)[n] |-> q.raw[p.pointers[n] + k - 1]])
  IN WritePointers([moved[Count(p)] EXCEPT !.first = 0, !.fragments = 0])

(* The cells, with whatever follows them in their spans, moved to the end.  *)
Defragment(p) ==
  LET moved[n \in 0..Count(p)] == IF n = 0 THEN Bare(p) ELSE Place(moved[n - 1], Entries(p)[n])
  IN WritePointers([moved[Count(p)] EXCEPT !.first = 0, !.fragments = 0])

Below(p, size) == p.content - size >= PointerOffset(Count(p))
Grow(p, size) == [at |-> p.content - size, page |-> [p EXCEPT !.content = @ - size]]

AllocateSpace(p, size) ==
  IF FirstFit(p, size) # {} THEN FreeblockAlloc(p, size, Min(FirstFit(p, size)))
  ELSE IF Below(p, size) THEN Grow(p, size)
  ELSE IF Below(Defragment(p), size) THEN Grow(Defragment(p), size)
  ELSE [at |-> 0, page |-> Defragment(p)]

-----------------------------------------------------------------------------
(* Cells                                                                    *)

(* [page, at]: at is 0 when the page is full.                               *)
InsertCell(p, i, bytes) ==
  LET q == IF NeedsDefrag(p) THEN Defragment(p) ELSE p
      a == AllocateSpace(q, Len(bytes))
      put == Overwrite(a.page, a.at, bytes)
  IN IF a.at = 0 THEN a
     ELSE [at |-> a.at,
           page |-> WritePointers([put EXCEPT !.pointers = InsertAt(@, i, a.at)])]

(* A slip: the pointers are shifted in memory only.                         *)
DeleteUnwritten(p, i) ==
  [AddFreeblock(p, p.pointers[i], Len(ReadCell(p, i))) EXCEPT !.pointers = RemoveAt(@, i)]

DeleteCell(p, i) ==
  LET freed == AddFreeblock(p, p.pointers[i], Len(ReadCell(p, i)))
  IN WritePointers([freed EXCEPT !.pointers = RemoveAt(@, i)])

(* Entries inserted one behind the other; what does not fit is passed over, *)
(* as nobody looks at what insert_cell returns.                             *)
Fill(p, entries) ==
  LET filled[n \in 0..Len(entries)] ==
        IF n = 0 THEN p
        ELSE LET q == filled[n - 1] IN InsertCell(q, Count(q) + 1, entries[n]).page
  IN filled[Len(entries)]

(* The halves of a split.  The lower one goes back into its page, whose     *)
(* content area starts over at the end -- the list of free blocks does not. *)
(* The upper one goes into a new page; the entry in the middle goes there,  *)
(* if this is a leaf, or up.                                                *)
LowerHalf(entries) == SubSeq(entries, 1, Len(entries) \div 2)
UpperHalf(entries, margin) ==
  SubSeq(entries, Len(entries) \div 2 + (IF margin = 0 THEN 2 ELSE 1), Len(entries))

Index(p, c) == 1 + Cardinality({i \in DOMAIN p.pointers : CellOf(ReadCell(p, i)).key < c.key})
SpaceLeft(p) == p.content - PointerOffset(Count(p))

(* The last pointer lies in the content area.                               *)
Tight(p) == PointerOffset(Count(p)) > p.content

-----------------------------------------------------------------------------
(* The operations of a cursor on this page                                  *)

Intact == damage = "none"

(* BTreeCursor.insert on a leaf, or a promoted key's on an interior page,   *)
(* and the split of a page that is full or about to be.                     *)
Insert(c, margin) ==
  LET i == Index(page, c)
      r == InsertCell(page, i, Bytes(c))
      full == r.at = 0 \/ SpaceLeft(r.page) < margin
      entries == IF r.at = 0 THEN InsertAt(Entries(r.page), i, Bytes(c)) ELSE Entries(r.page)
      lower == Fill(Bare(r.page), LowerHalf(entries))
      upper == Fill(Empty, UpperHalf(entries, margin))
      split == full /\ ~Tight(r.page)
  IN /\ Intact
     /\ c.key \notin {d.key : d \in Range(CellsOf(page))}
     /\ page' = IF split THEN lower ELSE r.page
     /\ damage' = IF Tight(r.page) THEN "pointer over content"
                  ELSE IF ~full THEN "none"
                  ELSE IF r.page.first # 0 THEN "free list kept"
                  ELSE IF Tight(lower) THEN "pointer over content"
                  ELSE IF \/ Count(lower) < Len(LowerHalf(entries))
                          \/ Count(upper) < Len(UpperHalf(entries, margin)) \/ Tight(upper)
                       THEN "cell lost"
                  ELSE "none"

(* BTreeCursor.delete.                                                      *)
Delete(i) ==
  /\ Intact
  /\ page' = DeleteCell(page, i)
  /\ damage' = IF \E b \in Blocks(page) : b \in Span(page.pointers[i], Len(ReadCell(page, i)))
               THEN "freed twice" ELSE "none"

Next == \/ \E c \in Cells, margin \in Margins : Insert(c, margin)
        \/ \E i \in DOMAIN page.pointers : Delete(i)

Spec == Init /\ [][Next]_vars

-----------------------------------------------------------------------------
(* Properties                                                               *)

(* The parsed header and pointers stay in the page's range, and agree with  *)
(* the pointers in its bytes (_parse_cell_pointers reads those).  Only a    *)
(* list of free blocks that was kept through a split can lead behind the    *)
(* end of the page: the cells written over its blocks become their sizes.   *)
TypeOK ==
  /\ page.content \in 0..PageSize
  /\ damage # "free list kept" => page.first \in 0..PageSize - 1
  /\ page.fragments \in 0..255
  /\ DOMAIN page.raw = Units
  /\ \A i \in DOMAIN page.pointers :
       /\ page.pointers[i] \in Units
       /\ Intact => page.raw[PointerOffset(i - 1)] = Word(page.pointers[i])

(* What each unit of the page is used for: the pointers, the cells' own     *)
(* bytes, the free blocks.                                                  *)
Uses ==
  LET cells == CellsOf(page)
  IN {<<0, u>> : u \in Span(HeaderSize, Count(page))}
       \union (UNION {{<<i, u>> : u \in Span(page.pointers[i], cells[i].size)} : i \in DOMAIN cells})
       \union (UNION {{<<-b, u>> : u \in Span(b, BlockSize(page, b))} : b \in Blocks(page)})

SpaceIsDisjoint ==
  /\ Range(CellsOf(page)) \subseteq Cells
  /\ Cardinality({x[2] : x \in Uses}) = Cardinality(Uses)
  /\ \A x \in Uses : x[2] \in HeaderSize..PageSize - 1
  /\ \A n \in 2..PageSize : Block(page)[n] # 0 => Block(page)[n] # Block(page)[n - 1]
  /\ Block(page)[PageSize] = 0
  /\ \A b \in Blocks(page) : BlockSize(page, b) >= MinBlock

(* No unit of the page is in use twice -- two cells, a cell and a free      *)
(* block, two free blocks, or the pointer array and any of them -- as long  *)
(* as none of the kinds of damage occurred.                                 *)
NothingOverlaps == Intact => SpaceIsDisjoint

(* The kinds of damage are damage: a cell deleted below a free block leaves *)
(* two free blocks that overlap, and a cell placed against the end of the   *)
(* pointer array loses its first bytes to its own pointer, because          *)
(* _allocate_space (btree.py:136) leaves no room for that pointer.          *)
DamageIsReal ==
  damage \in {"freed twice", "pointer over content"} => ~SpaceIsDisjoint

(* Through everything the page does -- reusing, splitting, losing and       *)
(* joining free space, moving every cell -- it is the sequence of cells     *)
(* that PageCells describes.                                                *)
Abstract == INSTANCE PageCells WITH
              Cell <- Cells, cells <- CellsOf(page), damaged <- ~Intact
IsSequenceOfCells == Abstract!Spec
=============================================================================
