----------------------------- MODULE PageCells -----------------------------
(* What a page of a B-tree promises (src/pysqlite/btree.py, BTreePage): it  *)
(* is a sequence of cells.  Inserting puts one between two others, deleting *)
(* takes one out, a split keeps the cells of the lower half, and nothing    *)
(* else ever happens to them.  A damaged page promises nothing.             *)
EXTENDS Naturals, Sequences, SequencesExt

CONSTANT Cell

VARIABLES cells, damaged

TypeOK == cells \in Seq(Cell) /\ damaged \in BOOLEAN

Init == cells = << >> /\ damaged = FALSE

Insert == \E c \in Cell, i \in 1..Len(cells) + 1 : cells' = InsertAt(cells, i, c)

Delete == \E i \in DOMAIN cells : cells' = RemoveAt(cells, i)

(* The cells were split in the middle, with the one to be inserted.         *)
Split == \E c \in Cell, i \in 1..Len(cells) + 1 :
           cells' = SubSeq(InsertAt(cells, i, c), 1, (Len(cells) + 1) \div 2)

Damage == damaged' = TRUE

Next == /\ ~damaged
        /\ \/ damaged' = FALSE /\ (Insert \/ Delete \/ Split)
           \/ Damage

Spec == Init /\ [][Next]_<<cells, damaged>>
=============================================================================
