------------------------------- MODULE BTree -------------------------------
(* The B-tree of a table and a cursor on it: classes BTree and BTreeCursor  *)
(* of src/pysqlite/btree.py.  A page is its cells, in order: a leaf's are   *)
(* keys, an interior page's are pairs of a left child and a key, and it has *)
(* a right child.  How cells lie in a page is module Page's; here a page is *)
(* full at a number of cells.  A tree is not followed any further once it   *)
(* is damaged.  Index trees differ in what a cell holds and are left out.   *)
EXTENDS Integers, FiniteSets, Functions, SequencesExt

CONSTANTS LastKey,              \* the keys are 1..LastKey (a bound of the model)
          LeafCapacity,         \* a leaf with this many cells is split
          InteriorCapacity      \* no further cell fits into an interior page

ASSUME CapacityAssumption ==
  LastKey \in Nat /\ LeafCapacity \in Nat \ {0, 1} /\ InteriorCapacity \in Nat \ {0}

Keys == 1..LastKey

Leaf(keys) == [leaf |-> TRUE, cells |-> [i \in DOMAIN keys |-> [child |-> 0, key |-> keys[i]]], right |-> 0]
Interior(cells, right) == [leaf |-> FALSE, cells |-> cells, right |-> right]

VARIABLES tree,         \* [root, pages]: pages by number
          cursor,       \* [stack, eof]: the stack's entries are [page, index]
          rows,         \* the keys in the table, as the program was told
          steady,       \* the tree is as it was when the cursor was positioned
          damage        \* what went wrong with the tree, "none" so far

vars == <<tree, cursor, rows, steady, damage>>

Cells(t, p) == t.pages[p].cells
Count(t, p) == Len(Cells(t, p))
KeysOf(t, p) == [i \in DOMAIN Cells(t, p) |-> Cells(t, p)[i].key]
IsLeaf(t, p) == t.pages[p].leaf

(* The child left of an index, the right child behind the last one.         *)
Child(t, p, i) == IF i <= Count(t, p) THEN Cells(t, p)[i].child ELSE t.pages[p].right

(* How many of a page's keys are smaller than a key, or equal to it.        *)
Smaller(t, p, key) == Cardinality({i \in DOMAIN Cells(t, p) : Cells(t, p)[i].key < key})
UpTo(t, p, key) == Cardinality({i \in DOMAIN Cells(t, p) : Cells(t, p)[i].key <= key})

(* allocate_page: any page that is not in use would do.                     *)
NewPage(t) == Min(1..Cardinality(DOMAIN t.pages) + 1 \ DOMAIN t.pages)
SetPage(t, p, page) ==
  [t EXCEPT !.pages = [q \in DOMAIN t.pages \union {p} |-> IF q = p THEN page ELSE t.pages[q]]]
SetCells(t, p, cells) == [t EXCEPT !.pages[p].cells = cells]

-----------------------------------------------------------------------------
(* The cursor.  Page 0 is where a missing right child leads: reading it     *)
(* raises CorruptError, and the cursor stays there.  At the end of the table *)
(* the code leaves the way down on the stack; nothing reads it then.        *)

At(p, i) == [page |-> p, index |-> i]
On(stack) == [stack |-> stack, eof |-> FALSE]
AtEnd == [stack |-> << >>, eof |-> TRUE]
Lost(c) == ~c.eof /\ (c.stack = << >> \/ Last(c.stack).page = 0)
KeyAt(t, c) == Cells(t, Last(c.stack).page)[Last(c.stack).index].key

(* The way down from a page: the index to take at each page is given.       *)
Walk(t, p, turn) ==
  LET path[q \in DOMAIN t.pages \union {0}] ==
        IF q = 0 THEN <<At(0, 0)>>
        ELSE IF IsLeaf(t, q) THEN <<At(q, turn[q])>>
        ELSE <<At(q, turn[q])>> \o path[Child(t, q, turn[q])]
  IN path[p]

Leftmost(t, p) == Walk(t, p, [q \in DOMAIN t.pages |-> 1])

First(t) ==
  LET path == Leftmost(t, t.root)
  IN IF Count(t, Last(path).page) = 0 THEN AtEnd ELSE On(path)

(* last() enters the child left of the last key.                            *)
Rightmost(t) ==
  Walk(t, t.root, [q \in DOMAIN t.pages |-> IF IsLeaf(t, q) THEN Count(t, q) ELSE Max({1, Count(t, q)})])

(* Slip: one short of the last cell.                                        *)
LastButOne(t) ==
  LET path == Rightmost(t)
      leaf == Last(path)
  IN IF leaf.index = 0 THEN AtEnd
     ELSE On(Append(Front(path), At(leaf.page, Max({1, leaf.index - 1}))))

LastEntry(t) ==
  LET path == Rightmost(t)
  IN IF Last(path).index = 0 THEN AtEnd ELSE On(path)

(* Slip: the right child is never come to.                                  *)
AdvanceAmongCells(t, c) ==
  LET top == Last(c.stack)
      rest == Front(c.stack)
      open == {j \in DOMAIN rest : rest[j].index < Count(t, rest[j].page)}
      j == Max(open)
      i == rest[j].index + 1
  IN IF c.eof \/ Lost(c) THEN c
     ELSE IF top.index < Count(t, top.page) THEN On(Append(rest, At(top.page, top.index + 1)))
     ELSE IF open = {} THEN AtEnd
     ELSE On(SubSeq(rest, 1, j - 1) \o <<At(rest[j].page, i)>> \o Leftmost(t, Child(t, rest[j].page, i)))

(* next(): within the leaf, or up to the lowest page with another child.    *)
Advance(t, c) ==
  LET top == Last(c.stack)
      rest == Front(c.stack)
      open == {j \in DOMAIN rest : rest[j].index <= Count(t, rest[j].page)}
      j == Max(open)
      i == rest[j].index + 1
  IN IF c.eof \/ Lost(c) THEN c
     ELSE IF top.index < Count(t, top.page) THEN On(Append(rest, At(top.page, top.index + 1)))
     ELSE IF open = {} THEN AtEnd
     ELSE On(SubSeq(rest, 1, j - 1) \o <<At(rest[j].page, i)>> \o Leftmost(t, Child(t, rest[j].page, i)))

(* seek(): [cursor, exact].  An equal key in an interior page counts as a   *)
(* match, and the search goes on to its left.                               *)
Descend(t, key) == Walk(t, t.root, [q \in DOMAIN t.pages |-> Smaller(t, q, key) + 1])

(* Slip: off by one at the end of the leaf.                                 *)
SeekShort(t, key) ==
  LET path == Descend(t, key)
  IN [cursor |-> IF Last(path).index >= Count(t, Last(path).page) THEN AtEnd ELSE On(path),
      exact |-> \E j \in DOMAIN path : key \in Range(KeysOf(t, path[j].page))]

Seek(t, key) ==
  LET path == Descend(t, key)
      leaf == Last(path)
  IN [cursor |-> IF leaf.index > Count(t, leaf.page) THEN AtEnd ELSE On(path),
      exact |-> \E j \in DOMAIN path : key \in Range(KeysOf(t, path[j].page))]

(* What a scan from here to the end reads; -1 stands for a scan that ends   *)
(* with the error, or not at all.                                           *)
Scan(t, c) ==
  LET at[n \in 0..2 * LastKey] == IF n = 0 THEN c ELSE Advance(t, at[n - 1])
      ends == {n \in 0..2 * LastKey : at[n].eof}
  IN IF ends = {} THEN <<-1>> ELSE [n \in 1..Min(ends) |-> KeyAt(t, at[n - 1])]

-----------------------------------------------------------------------------
(* Inserting                                                                *)

(* Entries are split in the middle: the middle one goes right in a leaf.    *)
Mid(entries) == Len(entries) \div 2
Lower(entries) == SubSeq(entries, 1, Mid(entries))
Upper(entries) == SubSeq(entries, Mid(entries) + 1, Len(entries))

NewRoot(t, cell, right) ==
  LET p == NewPage(t) IN [SetPage(t, p, Interior(<<cell>>, right)) EXCEPT !.root = p]

(* Slip: the cell after the new one keeps its child.                        *)
LinkedTwice(t, p, i, cell, new) == SetCells(t, p, InsertAt(Cells(t, p), i, cell))

(* A page was split: put the key that divides it, with the old page on its  *)
(* left, into the parent, and the new page where the old one was.           *)
Linked(t, p, i, cell, new) ==
  LET cells == InsertAt(Cells(t, p), i, cell)
  IN IF i < Len(cells) THEN SetCells(t, p, [cells EXCEPT ![i + 1].child = new])
     ELSE [SetCells(t, p, cells) EXCEPT !.pages[p].right = new]

(* A parent that is full is split itself, and its middle key goes up.  The  *)
(* new page below it is linked nowhere.                                     *)
Raised(s, p) ==
  LET entries == InsertAt(Cells(s.tree, p), UpTo(s.tree, p, s.cell.key) + 1, s.cell)
      middle == Upper(entries)[1]
      sibling == NewPage(s.tree)
      beside == SetPage(s.tree, sibling, Interior(Tail(Upper(entries)), s.tree.pages[p].right))
  IN [tree |-> SetPage(beside, p, Interior(Lower(entries), middle.child)),
      cell |-> [child |-> p, key |-> middle.key], new |-> sibling]

(* So it goes up the path, to the first parent with room or to a new root.  *)
Promote(t, path, cell, new) ==
  LET up[n \in 0..Len(path)] ==
        IF n = 0 THEN [tree |-> t, cell |-> cell, new |-> new]
        ELSE Raised(up[n - 1], path[Len(path) - n + 1].page)
      full == {n \in 1..Len(path) : Count(t, path[Len(path) - n + 1].page) >= InteriorCapacity}
      n == Min({m \in 0..Len(path) : m + 1 \notin full})
      parent == path[Len(path) - n]
  IN IF n = Len(path) THEN NewRoot(up[n].tree, up[n].cell, up[n].new)
     ELSE Linked(up[n].tree, parent.page, parent.index, up[n].cell, up[n].new)

(* _balance: a leaf that is too full becomes two.                           *)
Balance(t, path, p) ==
  LET entries == KeysOf(t, p)
      new == NewPage(t)
      split == SetPage(SetPage(t, new, Leaf(Upper(entries))), p, Leaf(Lower(entries)))
  IN Promote(split, path, [child |-> p, key |-> Upper(entries)[1]], new)

(* Slip: an equal key leads to the left.                                    *)
WayDownLeft(t, key) == Walk(t, t.root, [q \in DOMAIN t.pages |-> Smaller(t, q, key) + 1])

(* The way down for an insertion: an equal key leads to the right.          *)
WayDown(t, key) ==
  Walk(t, t.root,
       [q \in DOMAIN t.pages |-> IF IsLeaf(t, q) THEN Smaller(t, q, key) + 1 ELSE UpTo(t, q, key) + 1])

(* Slip: off by one.                                                        *)
OverfullLate(t, key, large) ==
  LET n == Count(t, Last(WayDown(t, key)).page) + 1
  IN n > LeafCapacity \/ (large /\ n > 1)

(* The leaf an insertion leads to has no room for one more: it has too many *)
(* cells, or the new one is large.                                          *)
Overfull(t, key, large) ==
  LET n == Count(t, Last(WayDown(t, key)).page) + 1
  IN n >= LeafCapacity \/ (large /\ n > 1)

Inserted(t, key, large) ==
  LET path == WayDown(t, key)
      leaf == Last(path)
      put == SetPage(t, leaf.page, Leaf(InsertAt(KeysOf(t, leaf.page), leaf.index, key)))
  IN IF Overfull(t, key, large) THEN Balance(put, Front(path), leaf.page) ELSE put

(* An insertion that splits an interior page.                               *)
SplitsInterior(t, key, large) ==
  LET path == WayDown(t, key)
  IN /\ Overfull(t, key, large)
     /\ Len(path) > 1 /\ Count(t, path[Len(path) - 1].page) = InteriorCapacity

-----------------------------------------------------------------------------
(* Deleting                                                                 *)

Free(t, p) == [t EXCEPT !.pages = Restrict(@, DOMAIN @ \ {p})]

(* The reference to an empty child taken out of its parent.                 *)
Unlinked(t, p, child) ==
  LET refs == {i \in DOMAIN Cells(t, p) : Cells(t, p)[i].child = child}
  IN IF refs # {} THEN SetCells(t, p, RemoveAt(Cells(t, p), Min(refs)))
     ELSE [t EXCEPT !.pages[p].right = 0]

(* Up the stack as long as parents become empty, but not beyond the root.   *)
Cascade(t, stack) ==
  LET parent(n) == stack[Len(stack) - n].page
      cut[n \in 0..Len(stack) - 1] ==
        IF n = 0 THEN t
        ELSE LET child == stack[Len(stack) - n + 1].page
             IN Free(Unlinked(cut[n - 1], parent(n), child), child)
      last == {n \in 1..Len(stack) - 1 : Count(cut[n], parent(n)) > 0 \/ parent(n) = t.root}
  IN IF last = {} THEN cut[Len(stack) - 1] ELSE cut[Min(last)]

(* A root without cells becomes a leaf, whatever its right child holds.     *)
Collapsed(t) ==
  IF Count(t, t.root) = 0 THEN SetPage(t, t.root, Leaf(<< >>)) ELSE t

Deleted(t, c) ==
  LET top == Last(c.stack)
      cut == SetCells(t, top.page, RemoveAt(Cells(t, top.page), top.index))
  IN IF Count(cut, top.page) > 0 THEN [tree |-> cut, cursor |-> c]
     ELSE IF top.page = t.root THEN [tree |-> cut, cursor |-> AtEnd]
     ELSE [tree |-> Collapsed(Cascade(cut, c.stack)), cursor |-> AtEnd]

(* What becomes of the tree when the leaf under the cursor is emptied.      *)
Emptied(t, c) ==
  LET top == Last(c.stack)
      parent == Last(Front(c.stack))
  IN IF Count(t, top.page) > 1 \/ top.page = t.root THEN "none"
     ELSE IF t.pages[parent.page].right = top.page THEN "no right child"
     ELSE IF Count(t, parent.page) = 1 THEN "leaf discarded"
     ELSE "none"

-----------------------------------------------------------------------------
(* The operations                                                           *)

Init == /\ tree = [root |-> 1, pages |-> [p \in {1} |-> Leaf(<< >>)]]
        /\ cursor = AtEnd
        /\ rows = {} /\ steady = TRUE /\ damage = "none"

Sound == damage = "none"
Positioned == ~cursor.eof /\ ~Lost(cursor)

Move(c) == cursor' = c /\ UNCHANGED <<tree, rows, damage>>

Rewind == Sound /\ Move(First(tree)) /\ steady' = TRUE
GoLast == Sound /\ Move(LastEntry(tree)) /\ steady' = TRUE
SeekKey(k) == Sound /\ Move(Seek(tree, k).cursor) /\ steady' = TRUE
Step == Sound /\ Positioned /\ steady /\ Move(Advance(tree, cursor)) /\ UNCHANGED steady

(* Insert under a key that a statement gives, or that a search did not find:*)
(* no key is inserted that the table has.                                   *)
Insert(k) ==
  /\ Sound /\ k \notin rows
  /\ tree' = Inserted(tree, k, FALSE)
  /\ rows' = rows \union {k}
  /\ damage' = IF SplitsInterior(tree, k, FALSE) THEN "leaf not linked" ELSE "none"
  /\ steady' = FALSE /\ UNCHANGED cursor

(* NewRowid, then Insert: one more than the key that last() finds.          *)
NewRowid(t) == LET c == LastEntry(t) IN IF c.eof THEN 1 ELSE KeyAt(t, c) + 1

AppendRow ==
  LET k == NewRowid(tree)
  IN /\ Sound /\ k \in Keys
     /\ tree' = Inserted(tree, k, FALSE)
     /\ rows' = rows \union {k}
     /\ cursor' = LastEntry(tree)
     /\ damage' = IF k \in rows THEN "rowid taken"
                  ELSE IF SplitsInterior(tree, k, FALSE) THEN "leaf not linked" ELSE "none"
     /\ steady' = FALSE

(* The cursor is left on what was the next row, unless that is in the next  *)
(* leaf, or the leaf is gone.                                               *)
Delete ==
  LET d == Deleted(tree, cursor)
  IN /\ Sound /\ Positioned /\ steady
     /\ tree' = d.tree /\ cursor' = d.cursor
     /\ rows' = rows \ {KeyAt(tree, cursor)}
     /\ damage' = Emptied(tree, cursor)
     /\ steady' = (~d.cursor.eof /\ Last(d.cursor.stack).index <= Count(d.tree, Last(d.cursor.stack).page))

(* UPDATE: the row is deleted and inserted again, at its old index; a row   *)
(* that has grown may be too much for its leaf.                             *)
Rewrite(grown) ==
  LET d == Deleted(tree, cursor)
      k == KeyAt(tree, cursor)
  IN /\ Sound /\ Positioned /\ steady
     /\ cursor' = d.cursor
     /\ damage' = IF Emptied(tree, cursor) # "none" THEN Emptied(tree, cursor)
                  ELSE IF SplitsInterior(d.tree, k, grown) THEN "leaf not linked" ELSE "none"
     /\ tree' = IF Emptied(tree, cursor) # "none" THEN d.tree ELSE Inserted(d.tree, k, grown)
     /\ rows' = rows
     /\ steady' = (~d.cursor.eof /\ ~Overfull(d.tree, k, grown))

Next == \/ Rewind \/ GoLast \/ Step \/ AppendRow \/ Delete
        \/ \E k \in Keys : SeekKey(k) \/ Insert(k)
        \/ \E grown \in BOOLEAN : Rewrite(grown)

Spec == Init /\ [][Next]_vars

-----------------------------------------------------------------------------
(* Properties                                                               *)

Lists(s, S) == Range(s) = S /\ \A i, j \in DOMAIN s : i < j => s[i] < s[j]
Greater(k) == {j \in rows : j > k}

Pages == DOMAIN tree.pages
Children(p) == {Child(tree, p, i) : i \in 1..Count(tree, p) + 1}
Below(p) ==
  LET below[q \in Pages] ==
        IF IsLeaf(tree, q) THEN {q} ELSE {q} \union UNION {below[c] : c \in Children(q)}
  IN below[p]

TypeOK ==
  /\ tree.root \in Pages
  /\ \A p \in Pages : Count(tree, p) <= IF IsLeaf(tree, p) THEN LeafCapacity - 1 ELSE InteriorCapacity
  /\ rows \subseteq Keys /\ steady \in BOOLEAN
  /\ steady /\ ~cursor.eof => \A j \in DOMAIN cursor.stack : cursor.stack[j].page \in Pages \union {0}

(* Every page is reached from the root, by one way; the keys left of a      *)
(* divider are smaller, those right of it are not.  Splitting and           *)
(* rebalancing keep it that way as long as there is no damage.              *)
SearchTree ==
  Sound =>
    /\ Below(tree.root) = Pages
    /\ \A p \in Pages : ~IsLeaf(tree, p) =>
         /\ \A i, j \in 1..Count(tree, p) + 1 : i # j => Child(tree, p, i) # Child(tree, p, j)
         /\ \A i \in DOMAIN Cells(tree, p) : \A q \in Pages :
              /\ q \in Below(Child(tree, p, i)) => \A k \in Range(KeysOf(tree, q)) : k < Cells(tree, p)[i].key
              /\ q \in Below(Child(tree, p, i + 1)) => \A k \in Range(KeysOf(tree, q)) : k >= Cells(tree, p)[i].key

(* A scan reads every row of the table once, in order: exactly the trees    *)
(* that are not damaged are the table the program was told to keep.         *)
ScanIsTable == Sound <=> Lists(Scan(tree, First(tree)), rows)

(* "Position cursor on the first entry >= key.  Returns True if exact match *)
(* found" (btree.py:484): seek does, except for a key that divides two      *)
(* leaves, and when the next larger row is in the next leaf.                *)
OddSeek(k) ==
  LET path == Descend(tree, k)
  IN \/ \E j \in 1..Len(path) - 1 : k \in Range(KeysOf(tree, path[j].page))
     \/ Last(path).index > Count(tree, Last(path).page) /\ Greater(k) # {}

SeekFinds ==
  Sound => \A k \in Keys :
    ~OddSeek(k) <=>
      /\ Seek(tree, k).exact = (k \in rows)
      /\ Lists(Scan(tree, Seek(tree, k).cursor), {j \in rows : j >= k})

(* "Position cursor at the last (rightmost) entry" (btree.py:342): last     *)
(* does as long as the root is a leaf, and never once it is not.            *)
LastIsLast ==
  Sound /\ rows # {} =>
    (IsLeaf(tree, tree.root) <=> KeyAt(tree, LastEntry(tree)) = Max(rows))

(* Where Rowid reads a key; elsewhere current_key raises, and it gives NULL. *)
AtRow(t, c) ==
  ~c.eof /\ ~Lost(c) /\ Last(c.stack).index \in DOMAIN Cells(t, Last(c.stack).page)

(* A scan that was on row k has come to the next larger row, or to the end  *)
(* if k was the last.                                                       *)
MovedOn(t, c, k) ==
  IF Greater(k) = {} THEN ~AtRow(t, c) ELSE AtRow(t, c) /\ KeyAt(t, c) = Min(Greater(k))

Index == Last(cursor.stack).index
InLeaf == Count(tree, Last(cursor.stack).page)

(* DELETE goes on from where Delete left the cursor: behind the last cell   *)
(* of a leaf, or in no leaf, it ends, whatever the next leaf has.           *)
OddDelete == Index = InLeaf /\ Greater(KeyAt(tree, cursor)) # {}

(* UPDATE goes on by a Next.  That ends if the leaf was emptied in between, *)
(* or was the only one and was split below the row; with the row in the new *)
(* leaf, it goes back to that leaf's first.                                 *)
OddRewrite(grown) ==
  \/ InLeaf = 1 /\ Greater(KeyAt(tree, cursor)) # {}
  \/ /\ grown /\ InLeaf > 1
     /\ IF Len(cursor.stack) = 1 THEN Index \in InLeaf \div 2..InLeaf - 1 ELSE Index > InLeaf \div 2

(* A scan moves on from each row to the next larger one, and to the end     *)
(* behind the last: a SELECT by its Next, always; a DELETE by its Delete,   *)
(* exactly if the row was not the last of a leaf with more to come; and an  *)
(* UPDATE by its Delete, Insert and Next, exactly if the leaf was neither   *)
(* emptied nor split so that the cursor lost its place.                     *)
ScanMovesOn ==
  [][Sound /\ Sound' /\ Positioned /\ steady =>
       LET k == KeyAt(tree, cursor)
       IN /\ Step => MovedOn(tree', cursor', k)
          /\ Delete => (MovedOn(tree', cursor', k) <=> ~OddDelete)
          /\ \A grown \in BOOLEAN :
               Rewrite(grown) => (MovedOn(tree', Advance(tree', cursor'), k) <=> ~OddRewrite(grown))]_vars
=============================================================================
