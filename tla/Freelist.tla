------------------------------ MODULE Freelist ------------------------------
(***************************************************************************)
(* Page allocation in pysqlite/pager.py: allocate_page and free_page, the  *)
(* list of trunk pages they keep in the file, and what a transaction, a    *)
(* crash and an open do to it.                                             *)
(*                                                                         *)
(* The list is in three places that must agree: the trunk pages, three     *)
(* fields of the header on page 1, and three fields of the Pager object.   *)
(* Each header field is written by its own _write_header_field, which      *)
(* flushes every dirty page, so one operation is several flushes, and the  *)
(* process may die between any two writes of them.  Failing writes and the *)
(* steps of a commit or a rollback are modelled in module Pager.           *)
(***************************************************************************)
EXTENDS Naturals, Sequences, FiniteSets

CONSTANTS MaxPages,   \* bound: pages the file may grow to
          MaxLeaves   \* (page_size - 8) \div 4: leaves a trunk page has room for

Page == 1..MaxPages

ASSUME MaxPagesAssumption  == MaxPages \in Nat \ {0}
ASSUME MaxLeavesAssumption == MaxLeaves \in Nat \ {0}

Fields(t, c, s) == [trunk |-> t, count |-> c, size |-> s]
Trunk(n, l)     == [next |-> n, leaves |-> l]
Zero    == Trunk(0, <<>>)   \* a page of zero bytes reads as a trunk without leaves
InUse   == [next |-> 0]     \* what a client has written: no trunk at all
NoImage == [none |-> TRUE]

VARIABLES
  disk, view,          \* page -> content: in the file; to a reader.  Page 1: Fields
  dirty,               \* dirty_pages
  trunk, count, total, \* freelist_trunk, freelist_count, total_pages
  inTx, before,        \* in_transaction, _before_images
  \* the method in progress, the page it is about, the header field it is
  \* writing and the pages that are left to flush
  op, page, field, pending,
  \* history: the pages allocated and not freed; those, and the pager's
  \* fields, at the beginning of the transaction
  used, usedThen, fieldsThen,
  \* history: was a page freed when the trunk was full; did a rollback undo a
  \* change of the fields; did the process die inside an operation
  overflowed, undone, torn

files   == <<disk, view, dirty>>
fields  == <<trunk, count, total>>
txState == <<inTx, before, usedThen, fieldsThen>>
control == <<op, page, field, pending>>
flags   == <<overflowed, undone, torn>>
vars == <<files, fields, txState, control, used, flags>>

Empty == [p \in Page |-> NoImage]
NoFields == Fields(0, 0, 0)

Init ==
  /\ disk = [p \in Page |-> IF p = 1 THEN Fields(0, 0, 1) ELSE Zero]
  /\ view = disk
  /\ dirty = {}
  /\ trunk = 0 /\ count = 0 /\ total = 1
  /\ inTx = FALSE /\ before = Empty
  /\ op = "idle" /\ page = 0 /\ field = "none" /\ pending = {}
  /\ used = {} /\ usedThen = {} /\ fieldsThen = NoFields
  /\ overflowed = FALSE /\ undone = FALSE /\ torn = FALSE

\* What is written to pages: nothing, c to p, and also d to q.
Nothing == <<>>
Write(p, c) == [x \in {p} |-> c]
Write2(p, c, q, d) == [x \in {p, q} |-> IF x = p THEN c ELSE d]

\* write_page of every page in the domain of f; in a transaction each is
\* journaled, from the disk, the first time.
Put(f) ==
  /\ view' = [p \in Page |-> IF p \in DOMAIN f THEN f[p] ELSE view[p]]
  /\ dirty' = dirty \cup DOMAIN f
  /\ before' = [p \in Page |-> IF inTx /\ p \in DOMAIN f /\ before[p] = NoImage
                               THEN disk[p] ELSE before[p]]
  /\ UNCHANGED <<disk, inTx, usedThen, fieldsThen>>

\* The writes f and that of a header field.
WithHeader(f, name, value) ==
  [p \in DOMAIN f \cup {1} |-> IF p \in DOMAIN f THEN f[p]
                              ELSE [view[1] EXCEPT ![name] = value]]

\* Mistake: nothing is flushed.
PutHeader_NoFlush(f, name, value) ==
  /\ Put(WithHeader(f, name, value))
  /\ field' = name
  /\ pending' = {}

\* _write_header_field, after the page writes f of the same method: page 1 is
\* written, and the flush of all that is dirty begins.
PutHeader(f, name, value) ==
  /\ Put(WithHeader(f, name, value))
  /\ field' = name
  /\ pending' = dirty'

\* flush writes contiguous runs of pages, lowest first.
Batch == {p \in pending : \A q \in 1..p :
                            (\E r \in pending : r <= q) => q \in pending}

\* Mistake: dirty_pages is cleared before everything is written.
FlushBatch_ClearsFirst ==
  /\ pending # {}
  /\ disk' = [p \in Page |-> IF p \in Batch THEN view[p] ELSE disk[p]]
  /\ pending' = pending \ Batch
  /\ dirty' = {}
  /\ UNCHANGED <<view, fields, txState, op, page, field, used, flags>>

FlushBatch ==
  /\ pending # {}
  /\ disk' = [p \in Page |-> IF p \in Batch THEN view[p] ELSE disk[p]]
  /\ pending' = pending \ Batch
  /\ dirty' = IF pending' = {} THEN {} ELSE dirty
  /\ UNCHANGED <<view, fields, txState, op, page, field, used, flags>>

\* _update_freelist_headers writes the trunk field, then the count field.
CountField ==
  /\ field = "trunk" /\ pending = {}
  /\ PutHeader(Nothing, "count", count)
  /\ UNCHANGED <<fields, op, page, used, flags>>

Idle == op = "idle"

-----------------------------------------------------------------------------
(* allocate_page.  What the code makes of a page in use that it takes for a *)
(* trunk depends on the bytes in it, and is left out: the model stops.      *)

\* Mistake: the number of leaves is not lowered.
PopLeaf_Keeps ==
  LET t == view[trunk] IN
  /\ t.leaves # <<>>
  /\ page' = t.leaves[Len(t.leaves)]
  /\ UNCHANGED trunk
  /\ PutHeader(Write(trunk, t), "trunk", trunk)

\* The last leaf leaves the trunk page.
PopLeaf ==
  LET t == view[trunk]
      n == Len(t.leaves)
  IN  /\ n > 0
      /\ page' = t.leaves[n]
      /\ UNCHANGED trunk
      /\ PutHeader(Write(trunk, Trunk(t.next, SubSeq(t.leaves, 1, n - 1))), "trunk", trunk)

\* Mistake: freelist_trunk does not advance.
PopTrunk_Keeps ==
  LET t == view[trunk] IN
  /\ t.leaves = <<>>
  /\ page' = trunk
  /\ UNCHANGED trunk
  /\ PutHeader(Nothing, "trunk", trunk)

\* A trunk page without leaves is itself the page, and the next becomes trunk.
PopTrunk ==
  LET t == view[trunk] IN
  /\ t.leaves = <<>>
  /\ page' = trunk
  /\ trunk' = t.next
  /\ PutHeader(Nothing, "trunk", t.next)

\* With a count but no trunk the code raises "Freelist empty but count > 0".
AllocateFree ==
  /\ Idle /\ count > 0
  /\ trunk # 0 /\ view[trunk] # InUse
  /\ PopLeaf \/ PopTrunk
  /\ count' = count - 1
  /\ op' = "allocate"
  /\ UNCHANGED <<total, used, flags>>

\* The file grows by a page.
AllocateNew ==
  /\ Idle /\ count = 0
  /\ total < MaxPages
  /\ total' = total + 1
  /\ page' = total'
  /\ PutHeader(Nothing, "size", total')
  /\ op' = "allocate"
  /\ UNCHANGED <<trunk, count, used, flags>>

\* The page is zeroed, and not flushed, before it is returned.
AllocateDone ==
  /\ op = "allocate" /\ field \in {"count", "size"} /\ pending = {}
  /\ Put(Write(page, Zero))
  /\ used' = used \cup {page}
  /\ op' = "idle" /\ page' = 0 /\ field' = "none"
  /\ UNCHANGED <<fields, pending, flags>>

\* The caller writes a page it was given.
Use(p) ==
  /\ Idle
  /\ p \in used
  /\ Put(Write(p, InUse))
  /\ UNCHANGED <<fields, control, used, flags>>

-----------------------------------------------------------------------------
(* free_page of a page its caller was given and has not freed *)

\* The first page of an empty list becomes its trunk.
PushFirst(p) ==
  /\ trunk = 0
  /\ trunk' = p
  /\ PutHeader(Write(p, Zero), "trunk", p)
  /\ UNCHANGED overflowed

\* The page becomes the last leaf of the trunk page.
PushLeaf(p) ==
  LET t == view[trunk] IN
  /\ trunk # 0 /\ t # InUse
  /\ Len(t.leaves) < MaxLeaves
  /\ PutHeader(Write2(p, Zero, trunk, Trunk(t.next, Append(t.leaves, p))), "trunk", trunk)
  /\ UNCHANGED <<trunk, overflowed>>

\* The trunk page is full: the page becomes the trunk, and the old trunk both
\* its successor and its first leaf.
PushTrunk(p) ==
  /\ trunk # 0 /\ view[trunk] # InUse
  /\ Len(view[trunk].leaves) >= MaxLeaves
  /\ trunk' = p
  /\ PutHeader(Write(p, Trunk(trunk, <<trunk>>)), "trunk", p)
  /\ overflowed' = TRUE

FreePage(p) ==
  /\ Idle
  /\ p \in used
  /\ PushFirst(p) \/ PushLeaf(p) \/ PushTrunk(p)
  /\ count' = count + 1
  /\ op' = "free" /\ page' = p
  /\ used' = used \ {p}
  /\ UNCHANGED <<total, undone, torn>>

\* All is flushed; the page leaves the cache.
FreeDone ==
  /\ op = "free" /\ field = "count" /\ pending = {}
  /\ op' = "idle" /\ page' = 0 /\ field' = "none"
  /\ UNCHANGED <<files, fields, txState, pending, used, flags>>

-----------------------------------------------------------------------------
(* Transactions, crashes and opening *)

Begin ==
  /\ Idle /\ ~inTx
  /\ inTx' = TRUE
  /\ before' = Empty
  /\ usedThen' = used /\ fieldsThen' = Fields(trunk, count, total)
  /\ UNCHANGED <<files, fields, control, used, flags>>

EndTx ==
  /\ inTx
  /\ inTx' = FALSE
  /\ before' = Empty
  /\ usedThen' = {} /\ fieldsThen' = NoFields
  /\ dirty' = {}

Commit ==
  /\ Idle
  /\ EndTx
  /\ disk' = [p \in Page |-> IF p \in dirty THEN view[p] ELSE disk[p]]
  /\ UNCHANGED <<view, fields, control, used, flags>>

\* Every page with a before-image gets it back; the pager's own fields keep
\* what the transaction made of them.
Rollback ==
  /\ Idle
  /\ EndTx
  /\ LET back(f) == [p \in Page |-> IF before[p] = NoImage THEN f[p] ELSE before[p]] IN
     disk' = back(disk) /\ view' = back(view)
  /\ used' = usedThen
  /\ undone' = (undone \/ Fields(trunk, count, total) # fieldsThen)
  /\ UNCHANGED <<fields, control, overflowed, torn>>

\* The process dies, or closes the file, at any moment; the next open takes
\* the fields from the header.  The journal is never replayed (module Pager).
Reopen ==
  /\ view' = disk
  /\ trunk' = disk[1].trunk /\ count' = disk[1].count /\ total' = disk[1].size
  /\ dirty' = {}
  /\ inTx' = FALSE /\ before' = Empty
  /\ usedThen' = {} /\ fieldsThen' = NoFields
  /\ op' = "idle" /\ page' = 0 /\ field' = "none" /\ pending' = {}
  /\ torn' = (torn \/ op # "idle")
  /\ UNCHANGED <<disk, used, overflowed, undone>>

Next ==
  \/ FlushBatch \/ CountField
  \/ AllocateFree \/ AllocateNew \/ AllocateDone
  \/ \E p \in Page : Use(p) \/ FreePage(p)
  \/ FreeDone
  \/ Begin \/ Commit \/ Rollback \/ Reopen

Spec == Init /\ [][Next]_vars

-----------------------------------------------------------------------------
(* The list that a trunk number and the pages describe *)

\* The trunk pages from t on, followed for at most as many steps as there are
\* pages.
Trunks(t) ==
  LET from[n \in 0..MaxPages] ==
        IF n = 0 THEN (IF t = 0 THEN <<>> ELSE <<t>>)
        ELSE LET ts == from[n - 1]
                 l  == ts[Len(ts)]
             IN  IF ts = <<>> \/ view[l] = InUse \/ view[l].next = 0
                 THEN ts ELSE Append(ts, view[l].next)
  IN  from[MaxPages]

Leaves(p) == IF view[p] = InUse THEN <<>> ELSE view[p].leaves

\* The places of the list: <<i, 0>> is its i-th trunk, <<i, j>> the j-th leaf
\* of that; and the pages in them.
Slots(ts) == {s \in (1..Len(ts)) \X (0..MaxLeaves) : s[2] <= Len(Leaves(ts[s[1]]))}

Listed(ts) == {IF s[2] = 0 THEN ts[s[1]] ELSE Leaves(ts[s[1]])[s[2]] : s \in Slots(ts)}

\* The pages in the hands of callers, or about to be.
Held == used \cup (IF op = "allocate" THEN {page} ELSE {})

(* Properties *)

\* Every variable holds a value of its type.
TypeOK ==
  LET Content == [next : 0..MaxPages, leaves : UNION {[1..n -> Page] : n \in 0..MaxLeaves}]
                   \cup {InUse}
      Header  == [trunk : 0..MaxPages, count : Nat, size : Page]
  IN
  /\ \A f \in {disk, view} : f[1] \in Header /\ \A p \in 2..MaxPages : f[p] \in Content
  /\ before[1] \in Header \cup {NoImage}
  /\ \A p \in 2..MaxPages : before[p] \in Content \cup {NoImage}
  /\ Fields(trunk, count, total) \in Header /\ fieldsThen \in Header \cup {NoFields}
  /\ dirty \subseteq Page /\ pending \subseteq dirty
  /\ used \subseteq Page /\ usedThen \subseteq Page
  /\ op \in {"idle", "allocate", "free"} /\ page \in 0..MaxPages
  /\ field \in {"none", "trunk", "count", "size"}
  /\ \A b \in {inTx, overflowed, undone, torn} : b \in BOOLEAN

\* Every page but the first is either held by a caller or exactly once on the
\* list, and the count counts the list.
ListSound ==
  LET ts == Trunks(trunk) IN
  /\ Cardinality(Slots(ts)) = count
  /\ Cardinality(Listed(ts)) = count
  /\ Held \cap Listed(ts) = {}
  /\ Held \cup Listed(ts) = 2..total

\* No page in a caller's hands is on the list, or about to be handed out again.
NoPageTwice ==
  /\ used \cap Listed(Trunks(trunk)) = {}
  /\ op = "allocate" => page \in (2..total) \ used

\* allocate_page and free_page keep the list sound at every step, in or out of
\* a transaction and across an orderly reopening, as long as no trunk page was
\* full, no change of the list rolled back and no operation cut by a crash.
FreelistSound == ~(overflowed \/ undone \/ torn) => ListSound

\* Between operations, in a transaction too, the file alone describes the list
\* the pager works with, so a connection that opens it continues that list.
ListIsDurable ==
  op = "idle" /\ ~(overflowed \/ undone \/ torn) =>
    /\ disk[1] = Fields(trunk, count, total)
    /\ \A p \in Listed(Trunks(trunk)) : disk[p] = view[p]

\* A crash inside an operation may lose pages for ever, or spoil the count, but
\* it makes no page belong to two callers.
CrashOnlyLeaks == ~(overflowed \/ undone) => NoPageTwice

(* What the documents of the repository say and the code does not do. *)

\* tests/unit/test_pager.py:222 and implementation.md:3590: freed pages come
\* back one by one, and every page is either in a B-tree or on the freelist;
\* no exception is made for lists longer than one trunk page.
FullTrunkKeepsPages == ~(undone \/ torn) => NoPageTwice

=============================================================================
