----------------------------- MODULE PagerProofs -----------------------------
(***************************************************************************)
(* Proofs about module Pager, for every number of pages, every set of page *)
(* bodies and every value of the two bounds.                               *)
(***************************************************************************)
EXTENDS Pager, TLAPS

(* The inductive invariant *)

\* What each value of op says about the rest of the Pager object.
ControlInv ==
  /\ ~up => op = "idle" /\ ~inTx /\ cache = Empty /\ dirty = {} /\ loose = {}
  /\ op = "idle" => pending = {}
  /\ op \in {"commit", "drop", "count", "stamp", "rollback"} => inTx
  /\ op \in {"flush", "commit", "stamp"} => pending \subseteq dirty
  /\ op \in {"drop", "count"} => dirty = {} /\ pending = {}
  /\ op = "rollback" => pending \subseteq Imaged
  /\ op \in {"commit", "drop", "count"} => counter < MaxCounter
  /\ ~inTx => Imaged = {}

\* A transaction makes no page loose, and what is dirty is cached.
DirtyInv ==
  /\ inTx => loose \subseteq exempt
  /\ op # "rollback" => \A p \in dirty : cache[p] # NoImage

\* A cached page can differ from the disk only if it is loose, or if the
\* transaction wrote it and it is still to be flushed or restored.
CoherentInv ==
  \A p \in Page \ loose :
    \/ cache[p] = NoImage \/ cache[p] = disk[p]
    \/ p \in dirty /\ before[p] # NoImage
    \/ op = "rollback" /\ p \in pending

\* How far the loop in progress has got.
ProgressInv ==
  /\ op \in {"flush", "commit", "stamp"} =>
       \A p \in dirty \ pending : cache[p] = disk[p]
  /\ op = "rollback" =>
       \A p \in Imaged \ pending : cache[p] = NoImage /\ disk[p] = before[p]

\* The write-ahead rule, page by page.
CoverInv ==
  inTx => \A p \in Page \ exempt :
            IF before[p] = NoImage
            THEN /\ disk[p] = saved[p]
                 /\ cache[p] = NoImage \/ cache[p] = saved[p]
            ELSE before[p] = saved[p]

IInv == TypeOK /\ ControlInv /\ DirtyInv /\ CoherentInv /\ ProgressInv /\ CoverInv

-----------------------------------------------------------------------------
(* Lemmas about the operators of the model *)

USE NumPagesAssumption, NoImageAssumption, BoundsAssumption

\* Page 1, which holds the header, is a page.
LEMMA HeaderPage == 1 \in Page
BY DEF Page

\* What a reader sees is a content for every page, never "no entry".
LEMMA ViewType ==
  ASSUME TypeOK
  PROVE  /\ View \in [Page -> Content]
         /\ \A p \in Page : View[p] = IF cache[p] = NoImage THEN disk[p] ELSE cache[p]
BY DEF TypeOK, View

\* flush writes only pages it still has to write.
LEMMA BatchPending == Batch \subseteq pending
BY DEF Batch

\* Replacing the body, or the counter, of a content gives a content.
LEMMA ContentUpdate ==
  ASSUME NEW c \in Content
  PROVE  /\ \A d \in Data : [c EXCEPT !.data = d] \in Content
         /\ \A n \in 0..MaxCounter : [c EXCEPT !.counter = n] \in Content
BY DEF Content

\* Journaling a page keeps the types, gives the page a before-image, and keeps
\* those there are.
LEMMA JournalPageType ==
  ASSUME TypeOK, NEW p \in Page, JournalPage(p)
  PROVE  /\ journal' \in [exists : BOOLEAN, nPages : Nat, images : Seq(Content)]
         /\ before' \in [Page -> Content \cup {NoImage}]
         /\ before'[p] = IF before[p] = NoImage THEN disk[p] ELSE before[p]
         /\ before'[p] # NoImage
         /\ \A q \in Page \ {p} : before'[q] = before[q]
<1>1. CASE before[p] # NoImage
  BY <1>1 DEF TypeOK, JournalPage
<1>2. CASE before[p] = NoImage
  <2>1. before' = [before EXCEPT ![p] = disk[p]] /\ disk[p] \in Content
    BY <1>2 DEF TypeOK, JournalPage
  <2>2. Append(journal.images, disk[p]) \in Seq(Content)
    BY <2>1 DEF TypeOK
  <2>3. \/ journal' = [journal EXCEPT !.images = Append(journal.images, disk[p])]
        \/ journal' = journal
    BY <1>2 DEF JournalPage
  <2>4. journal' \in [exists : BOOLEAN, nPages : Nat, images : Seq(Content)]
    BY <2>2, <2>3 DEF TypeOK
  <2>5. QED
    BY <1>2, <2>1, <2>4 DEF TypeOK
<1>3. QED
  BY <1>1, <1>2

-----------------------------------------------------------------------------
(* Type correctness *)

LEMMA TypeInit == Init => TypeOK
<1> SUFFICES ASSUME Init PROVE TypeOK
  OBVIOUS
<1>1. disk \in [Page -> Content]
  BY DEF Init, Content
<1>2. journal \in [exists : BOOLEAN, nPages : Nat, images : Seq(Content)]
  BY DEF Init, NoJournal
<1>3. Empty \in [Page -> Content \cup {NoImage}] /\ 0 \in 0..MaxCounter
  BY DEF Empty
<1>4. QED
  BY <1>1, <1>2, <1>3 DEF Init, TypeOK

LEMMA TypeStep == TypeOK /\ ControlInv /\ DirtyInv /\ [Next]_vars => TypeOK'
<1> SUFFICES ASSUME TypeOK, ControlInv, DirtyInv, [Next]_vars PROVE TypeOK'
  OBVIOUS
<1> USE HeaderPage, ViewType DEF config, files, txState, control, history
<1>1. ASSUME NEW p \in Page, ReadPage(p) PROVE TypeOK'
  BY <1>1 DEF ReadPage, TypeOK
<1>2. ASSUME NEW p \in Page, RestorePage(p) PROVE TypeOK'
  BY <1>2 DEF RestorePage, TypeOK, ControlInv, Imaged
<1>3. ASSUME NEW p \in Page, NEW d \in Data, WritePage(p, d) PROVE TypeOK'
  <2>1. [View[p] EXCEPT !.data = d] \in Content
    BY ContentUpdate
  <2>2. CASE inTx
    BY <1>3, <2>1, <2>2, JournalPageType DEF WritePage, PutPage, TypeOK
  <2>3. CASE ~inTx
    BY <1>3, <2>1, <2>3 DEF WritePage, PutPage, TypeOK
  <2>4. QED
    BY <2>2, <2>3 
<1>4. ASSUME NEW d \in Data, WriteHeaderField(d) PROVE TypeOK'
  <2>1. [View[1] EXCEPT !.data = d] \in Content
    BY ContentUpdate
  <2>2. CASE inTx
    BY <1>4, <2>1, <2>2, JournalPageType DEF WriteHeaderField, PutPage, TypeOK
  <2>3. CASE ~inTx
    BY <1>4, <2>1, <2>3 DEF WriteHeaderField, PutPage, TypeOK
  <2>4. QED
    BY <2>2, <2>3 
<1>5. CASE Flush
  BY <1>5 DEF Flush, TypeOK
<1>6. CASE FlushBatch
  BY <1>6, BatchPending DEF FlushBatch, TypeOK, ControlInv, DirtyInv
<1>7. CASE FlushDone
  BY <1>7 DEF FlushDone, TypeOK
<1>8. CASE FlushError
  BY <1>8 DEF FlushError, TypeOK
<1>9. CASE BeginTransaction
  <2>1. journal' \in [exists : BOOLEAN, nPages : Nat, images : Seq(Content)]
    BY <1>9 DEF BeginTransaction, TypeOK
  <2>2. QED
    BY <1>9, <2>1 DEF BeginTransaction, TypeOK, Empty
<1>10. CASE BeginBusy
  <2>1. journal' \in [exists : BOOLEAN, nPages : Nat, images : Seq(Content)]
    BY <1>10 DEF BeginBusy, TypeOK
  <2>2. QED
    BY <1>10, <2>1 DEF BeginBusy, TypeOK
<1>11. CASE CommitTransaction
  BY <1>11 DEF CommitTransaction, TypeOK
<1>12. CASE FinalizeJournal
  <2>1. journal' \in [exists : BOOLEAN, nPages : Nat, images : Seq(Content)]
    BY <1>12 DEF FinalizeJournal, TypeOK
  <2>2. QED
    BY <1>12, <2>1 DEF FinalizeJournal, TypeOK
<1>13. CASE DropJournal
  <2>1. journal' \in [exists : BOOLEAN, nPages : Nat, images : Seq(Content)]
    <3>1. NoJournal \in [exists : BOOLEAN, nPages : Nat, images : Seq(Content)]
      BY DEF NoJournal
    <3>2. journal' = NoJournal \/ journal' = journal
      BY <1>13 DEF DropJournal
    <3>3. QED
      BY <3>1, <3>2 DEF TypeOK
  <2>2. journalFd' \in {"none", "open", "closed"}
    BY <1>13 DEF DropJournal, TypeOK
  <2>3. QED
    BY <1>13, <2>1, <2>2 DEF DropJournal, TypeOK
<1>14. CASE StampCounter
  <2>1. counter + 1 \in 0..MaxCounter
    BY <1>14 DEF StampCounter, ControlInv, TypeOK
  <2>2. [View[1] EXCEPT !.counter = counter + 1] \in Content
    BY <2>1, ContentUpdate
  <2>3. cache' \in [Page -> Content \cup {NoImage}]
    BY <1>14, <2>2 DEF StampCounter, TypeOK
  <2>4. /\ journal' \in [exists : BOOLEAN, nPages : Nat, images : Seq(Content)]
        /\ before' \in [Page -> Content \cup {NoImage}]
    BY <1>14, JournalPageType DEF StampCounter
  <2>5. /\ dirty' \subseteq Page /\ pending' \subseteq Page
        /\ op' \in {"rollback", "stamp"}
    BY <1>14 DEF StampCounter, TypeOK, Imaged
  <2>6. QED
    BY <1>14, <2>1, <2>3, <2>4, <2>5 DEF StampCounter, TypeOK
<1>15. CASE CommitDone
  BY <1>15 DEF CommitDone, TypeOK, Empty
<1>16. CASE CommitError
  BY <1>16 DEF CommitError, TypeOK, Imaged
<1>17. CASE RollbackTransaction
  BY <1>17 DEF RollbackTransaction, TypeOK, Imaged
<1>18. CASE RollbackDone
  <2> DEFINE Journals == [exists : BOOLEAN, nPages : Nat, images : Seq(Content)]
  <2>1. journal \in Journals
    BY DEF TypeOK
  <2>2. NoJournal \in Journals
    BY DEF NoJournal
  <2>3. journal' = NoJournal \/ journal' = journal
    BY <1>18 DEF RollbackDone
  <2>4. journal' \in Journals
    BY <2>1, <2>2, <2>3
  <2>5. QED
    BY <1>18, <2>4 DEF RollbackDone, TypeOK, Empty
<1>19. CASE SetJournalMode
  BY <1>19 DEF SetJournalMode, TypeOK
<1>20. CASE Crash
  BY <1>20 DEF Crash, TypeOK, Empty
<1>21. CASE Reopen
  <2>1. Reopened \in [Page -> Content]
    <3>1. ASSUME NEW p \in Page, p <= Len(journal.images)
          PROVE  journal.images[p] \in Content
      BY <3>1 DEF Page, TypeOK
    <3>2. QED
      BY <3>1 DEF Reopened, Recovered, TypeOK
  <2>2. journal' \in [exists : BOOLEAN, nPages : Nat, images : Seq(Content)]
    BY <1>21 DEF Reopen, NoJournal, TypeOK
  <2>3. disk[1].counter \in 0..MaxCounter
    BY DEF TypeOK, Content
  <2>4. QED
    BY <1>21, <2>1, <2>2, <2>3 DEF Reopen, TypeOK
<1>22. CASE UNCHANGED vars
  BY <1>22 DEF vars, TypeOK
<1>23. QED
  BY <1>1, <1>2, <1>3, <1>4, <1>5, <1>6, <1>7, <1>8, <1>9, <1>10, <1>11, <1>12,
     <1>13, <1>14, <1>15, <1>16, <1>17, <1>18, <1>19, <1>20, <1>21, <1>22 DEF Next

-----------------------------------------------------------------------------
(* The invariant is inductive *)

\* It holds in every initial state.
LEMMA InvInit == Init => IInv
<1> SUFFICES ASSUME Init PROVE IInv
  OBVIOUS
<1>1. TypeOK
  BY TypeInit
<1>2. Imaged = {}
  BY DEF Init, Empty, Imaged
<1>3. QED
  BY <1>1, <1>2 DEF Init, Empty, IInv, ControlInv, DirtyInv, CoherentInv, ProgressInv, CoverInv

\* Every step preserves it.
LEMMA InvStep == IInv /\ [Next]_vars => IInv'
<1> SUFFICES ASSUME IInv, [Next]_vars PROVE IInv'
  OBVIOUS
<1> DEFINE Parts == ControlInv /\ DirtyInv /\ CoherentInv /\ ProgressInv /\ CoverInv
<1>type. TypeOK /\ TypeOK'
  BY TypeStep DEF IInv
<1>view. /\ View \in [Page -> Content]
        /\ \A p \in Page : View[p] = IF cache[p] = NoImage THEN disk[p] ELSE cache[p]
  BY <1>type, ViewType
<1>parts. Parts
  BY DEF IInv
<1> HIDE DEF Parts
<1> USE HeaderPage, <1>type, <1>view, <1>parts
        DEF config, files, txState, control, history, Idle, Imaged, TypeOK,
            Parts, ControlInv, DirtyInv, CoherentInv, ProgressInv, CoverInv
<1>1. ASSUME NEW p \in Page, ReadPage(p) PROVE Parts'
  <2>1. ControlInv'
    BY <1>1 DEF ReadPage
  <2>2. DirtyInv'
    BY <1>1 DEF ReadPage
  <2>3. CoherentInv'
    BY <1>1 DEF ReadPage
  <2>4. ProgressInv'
    BY <1>1 DEF ReadPage
  <2>5. CoverInv'
    BY <1>1 DEF ReadPage
  <2>6. QED
    BY <2>1, <2>2, <2>3, <2>4, <2>5
<1>2. ASSUME NEW p \in Page, RestorePage(p) PROVE Parts'
  <2>1. ControlInv'
    BY <1>2 DEF RestorePage
  <2>2. DirtyInv'
    BY <1>2 DEF RestorePage
  <2>3. CoherentInv'
    BY <1>2 DEF RestorePage
  <2>4. ProgressInv'
    BY <1>2 DEF RestorePage
  <2>5. CoverInv'
    BY <1>2 DEF RestorePage
  <2>6. QED
    BY <2>1, <2>2, <2>3, <2>4, <2>5
<1>3. ASSUME NEW p \in Page, NEW d \in Data, WritePage(p, d) PROVE Parts'
  <2> DEFINE image == [View[p] EXCEPT !.data = d]
  <2>image. image \in Content /\ image # NoImage
    BY ContentUpdate
  <2>cache. cache' = [cache EXCEPT ![p] = image]
    BY <1>3 DEF WritePage, PutPage
  <2> HIDE DEF image
  <2>1. ControlInv'
    BY <1>3, <2>image, <2>cache, JournalPageType DEF WritePage, PutPage
  <2>2. DirtyInv'
    BY <1>3, <2>image, <2>cache, JournalPageType DEF WritePage, PutPage
  <2>3. CoherentInv'
    BY <1>3, <2>image, <2>cache, JournalPageType DEF WritePage, PutPage
  <2>4. ProgressInv'
    BY <1>3, <2>image, <2>cache, JournalPageType DEF WritePage, PutPage
  <2>5. CoverInv'
    BY <1>3, <2>image, <2>cache, JournalPageType DEF WritePage, PutPage
  <2>6. QED
    BY <2>1, <2>2, <2>3, <2>4, <2>5
<1>4. ASSUME NEW d \in Data, WriteHeaderField(d) PROVE Parts'
  <2> DEFINE image == [View[1] EXCEPT !.data = d]
  <2>image. image \in Content /\ image # NoImage
    BY ContentUpdate
  <2>cache. cache' = [cache EXCEPT ![1] = image]
    BY <1>4 DEF WriteHeaderField, PutPage
  <2> HIDE DEF image
  <2>1. ControlInv'
    BY <1>4, <2>image, <2>cache, JournalPageType DEF WriteHeaderField, PutPage
  <2>2. DirtyInv'
    BY <1>4, <2>image, <2>cache, JournalPageType DEF WriteHeaderField, PutPage
  <2>3. CoherentInv'
    BY <1>4, <2>image, <2>cache, JournalPageType DEF WriteHeaderField, PutPage
  <2>4. ProgressInv'
    BY <1>4, <2>image, <2>cache, JournalPageType DEF WriteHeaderField, PutPage
  <2>5. CoverInv'
    BY <1>4, <2>image, <2>cache, JournalPageType DEF WriteHeaderField, PutPage
  <2>6. QED
    BY <2>1, <2>2, <2>3, <2>4, <2>5
<1>5. ASSUME Flush PROVE Parts'
  BY <1>5 DEF Flush
<1>6. ASSUME FlushBatch PROVE Parts'
  BY <1>6, BatchPending DEF FlushBatch
<1>7. ASSUME FlushDone PROVE Parts'
  BY <1>7 DEF FlushDone
<1>8. ASSUME FlushError PROVE Parts'
  BY <1>8 DEF FlushError
<1>9. ASSUME BeginTransaction PROVE Parts'
  BY <1>9 DEF BeginTransaction, Empty
<1>10. ASSUME BeginBusy PROVE Parts'
  BY <1>10 DEF BeginBusy
<1>11. ASSUME CommitTransaction PROVE Parts'
  BY <1>11 DEF CommitTransaction
<1>12. ASSUME FinalizeJournal PROVE Parts'
  BY <1>12 DEF FinalizeJournal
<1>13. ASSUME DropJournal PROVE Parts'
  BY <1>13 DEF DropJournal
<1>14. ASSUME StampCounter PROVE Parts'
  <2> DEFINE image == [View[1] EXCEPT !.counter = counter + 1]
  <2>image. image \in Content /\ image # NoImage
    BY <1>14, ContentUpdate DEF StampCounter
  <2>cache. cache' = [cache EXCEPT ![1] = image]
    BY <1>14 DEF StampCounter
  <2> HIDE DEF image
  <2>1. ControlInv'
    BY <1>14, <2>image, <2>cache, JournalPageType DEF StampCounter
  <2>2. DirtyInv'
    BY <1>14, <2>image, <2>cache, JournalPageType DEF StampCounter
  <2>3. CoherentInv'
    BY <1>14, <2>image, <2>cache, JournalPageType DEF StampCounter
  <2>4. ProgressInv'
    BY <1>14, <2>image, <2>cache, JournalPageType DEF StampCounter
  <2>5. CoverInv'
    BY <1>14, <2>image, <2>cache, JournalPageType DEF StampCounter
  <2>6. QED
    BY <2>1, <2>2, <2>3, <2>4, <2>5
<1>15. ASSUME CommitDone PROVE Parts'
  BY <1>15 DEF CommitDone, Empty
<1>16. ASSUME CommitError PROVE Parts'
  BY <1>16 DEF CommitError
<1>17. ASSUME RollbackTransaction PROVE Parts'
  BY <1>17 DEF RollbackTransaction
<1>18. ASSUME RollbackDone PROVE Parts'
  BY <1>18 DEF RollbackDone, Empty
<1>19. ASSUME SetJournalMode PROVE Parts'
  BY <1>19 DEF SetJournalMode
<1>20. ASSUME Crash PROVE Parts'
  BY <1>20 DEF Crash, Empty
<1>21. ASSUME Reopen PROVE Parts'
  BY <1>21 DEF Reopen, Empty
<1>22. ASSUME UNCHANGED vars PROVE Parts'
  BY <1>22 DEF vars
<1>23. QED
  BY <1>1, <1>2, <1>3, <1>4, <1>5, <1>6, <1>7, <1>8, <1>9, <1>10, <1>11, <1>12,
     <1>13, <1>14, <1>15, <1>16, <1>17, <1>18, <1>19, <1>20, <1>21, <1>22 DEF Next, IInv

\* The invariant holds in every reachable state.
THEOREM Invariance == Spec => []IInv
BY InvInit, InvStep, PTL DEF Spec

-----------------------------------------------------------------------------
(* What follows from it *)

\* Every variable keeps its type.
THEOREM TypeCorrect == Spec => []TypeOK
<1>1. IInv => TypeOK
  BY DEF IInv
<1>2. QED
  BY <1>1, Invariance, PTL

\* The write-ahead rule: write_page has journaled a page before any flush can
\* overwrite the image it had when the transaction began.
THEOREM WriteAhead == Spec => []JournalCovers
<1>1. IInv => JournalCovers
  BY ViewType DEF IInv, CoverInv, JournalCovers, TypeOK
<1>2. QED
  BY <1>1, Invariance, PTL

\* flush never meets a dirty page that is not cached, and nothing a reader sees
\* is out of reach of the next flush but the loose pages.
THEOREM Coherence == Spec => []CacheCoherent
<1>1. IInv => CacheCoherent
  BY DEF IInv, DirtyInv, CoherentInv, CacheCoherent, TypeOK
<1>2. QED
  BY <1>1, Invariance, PTL

\* The end of a rollback, asked for or forced by a commit that failed.
LEMMA RollbackEnds ==
  ASSUME IInv, [Next]_vars, op = "rollback", op' = "idle", up'
  PROVE  RollbackDone
BY DEF IInv, ControlInv, TypeOK, Next, vars, control, Idle, ReadPage, RestorePage, WritePage,
   WriteHeaderField, Flush, FlushBatch, FlushDone, FlushError, BeginTransaction, BeginBusy,
   CommitTransaction, FinalizeJournal, DropJournal, StampCounter, CommitDone, CommitError,
   RollbackTransaction, RollbackDone, SetJournalMode, Crash, Reopen

\* A rollback leaves the file and what is read as they were when the
\* transaction began, on every page that was not loose then.
THEOREM RollbackSafe == Spec => RollbackRestores
<1>1. ASSUME IInv, [Next]_vars, op = "rollback", op' = "idle", up', NEW p \in Page \ exempt
      PROVE  disk'[p] = saved[p] /\ View'[p] = saved[p]
  <2>1. RollbackDone
    BY <1>1, RollbackEnds
  <2>2. pending = {} /\ inTx /\ disk' = disk /\ cache' = cache
    BY <1>1, <2>1 DEF RollbackDone, IInv, ControlInv
  <2>3. disk[p] = saved[p] /\ (cache[p] = NoImage \/ cache[p] = saved[p])
    BY <1>1, <2>2 DEF IInv, ProgressInv, CoverInv, Imaged
  <2>4. QED
    BY <1>1, <2>2, <2>3 DEF View
<1>2. IInv /\ [Next]_vars =>
        [op = "rollback" /\ op' = "idle" /\ up' =>
           \A p \in Page \ exempt : disk'[p] = saved[p] /\ View'[p] = saved[p]]_vars
  BY <1>1
<1>3. QED
  BY <1>2, Invariance, PTL DEF Spec, RollbackRestores

-----------------------------------------------------------------------------
(* Beyond the invariant: a commit is durable, the change counter only grows, *)
(* and the pager implements PageStore.                                      *)


\* The journal of this pager is never hot, so no open ever replays one.
ColdInv == journal.nPages = 0

\* Which copies of page 1 may carry an older counter than the pager's.
CountInv ==
  /\ disk[1].counter <= counter
  /\ cache[1] # NoImage =>
       \/ cache[1].counter = disk[1].counter
       \/ op = "stamp"
       \/ op = "rollback" /\ 1 \in pending
  /\ before[1] # NoImage =>
       \/ before[1].counter = disk[1].counter
       \/ op = "stamp" /\ 1 \notin pending
  /\ op = "stamp" => /\ dirty = {1} /\ before[1] # NoImage
                     /\ cache[1].counter = counter
                     /\ saved[1].counter < counter
                     /\ (1 \in pending => disk[1].counter < counter)
  /\ inTx => saved[1].counter <= counter

\* A page the transaction wrote stays loose only until it is flushed.
LooseInv ==
  \A p \in loose \cap Imaged :
    \/ op = "rollback"
    \/ p \in dirty /\ (op \in {"flush", "commit", "stamp"} => p \in pending)

RInv == IInv /\ ColdInv /\ CountInv /\ LooseInv

-----------------------------------------------------------------------------
LEMMA CounterType == \A c \in Content : c.counter \in Nat
BY DEF Content

LEMMA RInvInit == Init => RInv
<1> SUFFICES ASSUME Init PROVE RInv
  OBVIOUS
<1>1. IInv
  BY InvInit
<1>2. ColdInv
  BY DEF Init, NoJournal, ColdInv
<1>3. CountInv
  BY HeaderPage DEF Init, Empty, CountInv
<1>4. LooseInv
  BY DEF Init, LooseInv
<1>5. QED
  BY <1>1, <1>2, <1>3, <1>4 DEF RInv

LEMMA ColdStep == IInv /\ ColdInv /\ [Next]_vars => ColdInv'
<1> SUFFICES ASSUME IInv, ColdInv, [Next]_vars PROVE ColdInv'
  OBVIOUS
<1> USE DEF ColdInv, files, NoJournal, IInv, TypeOK
<1>1. ASSUME NEW p \in Page, JournalPage(p) PROVE ColdInv'
  BY <1>1 DEF JournalPage
<1>2. ASSUME NEW p \in Page, NEW d \in Data, PutPage(p, d) PROVE ColdInv'
  BY <1>1, <1>2 DEF PutPage
<1>3. CASE StampCounter
  BY <1>1, <1>3, HeaderPage DEF StampCounter
<1>4. CASE BeginTransaction
  BY <1>4 DEF BeginTransaction
<1>5. CASE BeginBusy
  BY <1>5 DEF BeginBusy
<1>6. CASE FinalizeJournal
  BY <1>6 DEF FinalizeJournal
<1>7. CASE DropJournal \/ RollbackDone
  BY <1>7 DEF DropJournal, RollbackDone
<1>8. CASE Reopen
  BY <1>8 DEF Reopen, HotJournal
<1>9. ASSUME NEW p \in Page, NEW d \in Data, WritePage(p, d) \/ WriteHeaderField(d)
      PROVE  ColdInv'
  BY <1>2, <1>9, HeaderPage DEF WritePage, WriteHeaderField
<1>10. QED
  BY <1>3, <1>4, <1>5, <1>6, <1>7, <1>8, <1>9, HeaderPage
  DEF Next, vars, ReadPage, RestorePage, WriteHeaderField, Flush, FlushBatch, FlushDone,
      FlushError, CommitTransaction, CommitDone, CommitError, RollbackTransaction,
      SetJournalMode, Crash

LEMMA RInvStep == RInv /\ [Next]_vars => RInv'
<1> SUFFICES ASSUME RInv, [Next]_vars PROVE RInv'
  OBVIOUS
<1> DEFINE Parts == CountInv /\ LooseInv
<1>type. TypeOK /\ TypeOK'
  BY TypeStep DEF RInv, IInv
<1>view. /\ View \in [Page -> Content]
        /\ \A p \in Page : View[p] = IF cache[p] = NoImage THEN disk[p] ELSE cache[p]
  BY <1>type, ViewType
<1>parts. ControlInv /\ DirtyInv /\ CoherentInv /\ ProgressInv /\ ColdInv /\ Parts
  BY DEF RInv, IInv
<1>nat. \A p \in Page : disk[p].counter \in Nat
  BY <1>type, CounterType DEF TypeOK
<1> HIDE DEF Parts
<1> USE HeaderPage, <1>type, <1>view, <1>parts, <1>nat, CounterType
        DEF config, files, txState, control, history, Idle, Imaged, TypeOK, ControlInv,
            DirtyInv, ProgressInv, Parts, CountInv, LooseInv
<1>1. ASSUME NEW p \in Page, ReadPage(p) PROVE Parts'
  <2>1. CountInv'
    BY <1>1 DEF ReadPage
  <2>2. LooseInv'
    BY <1>1 DEF ReadPage
  <2>3. QED
    BY <2>1, <2>2
<1>2. ASSUME NEW p \in Page, RestorePage(p) PROVE Parts'
  <2>1. CountInv'
    BY <1>2 DEF RestorePage
  <2>2. LooseInv'
    BY <1>2 DEF RestorePage
  <2>3. QED
    BY <2>1, <2>2
<1>3. ASSUME NEW p \in Page, NEW d \in Data, WritePage(p, d) PROVE Parts'
  <2> DEFINE image == [View[p] EXCEPT !.data = d]
  <2>count. image.counter = View[p].counter
    BY <1>view DEF Content
  <2>image. image \in Content /\ image # NoImage
    BY ContentUpdate
  <2>cache. cache' = [cache EXCEPT ![p] = image]
    BY <1>3 DEF WritePage, PutPage
  <2> HIDE DEF image
  <2>1. CountInv'
    BY <1>3, <2>image, <2>count, <2>cache, JournalPageType DEF WritePage, PutPage
  <2>2. LooseInv'
    BY <1>3, <2>image, <2>count, <2>cache, JournalPageType DEF WritePage, PutPage
  <2>3. QED
    BY <2>1, <2>2
<1>4. ASSUME NEW d \in Data, WriteHeaderField(d) PROVE Parts'
  <2> DEFINE image == [View[1] EXCEPT !.data = d]
  <2>count. image.counter = View[1].counter
    BY <1>view DEF Content
  <2>image. image \in Content /\ image # NoImage
    BY ContentUpdate
  <2>cache. cache' = [cache EXCEPT ![1] = image]
    BY <1>4 DEF WriteHeaderField, PutPage
  <2> HIDE DEF image
  <2>1. CountInv'
    BY <1>4, <2>image, <2>count, <2>cache, JournalPageType DEF WriteHeaderField, PutPage
  <2>2. LooseInv'
    BY <1>4, <2>image, <2>count, <2>cache, JournalPageType DEF WriteHeaderField, PutPage
  <2>3. QED
    BY <2>1, <2>2
<1>5. ASSUME Flush PROVE Parts'
  <2>1. CountInv'
    BY <1>5 DEF Flush
  <2>2. LooseInv'
    BY <1>5 DEF Flush
  <2>3. QED
    BY <2>1, <2>2
<1>6. ASSUME FlushBatch PROVE Parts'
  <2>1. CountInv'
    BY <1>6, BatchPending DEF FlushBatch
  <2>2. LooseInv'
    BY <1>6, BatchPending DEF FlushBatch
  <2>3. QED
    BY <2>1, <2>2
<1>7. ASSUME FlushDone PROVE Parts'
  <2>1. CountInv'
    BY <1>7 DEF FlushDone
  <2>2. LooseInv'
    BY <1>7 DEF FlushDone
  <2>3. QED
    BY <2>1, <2>2
<1>8. ASSUME FlushError PROVE Parts'
  <2>1. CountInv'
    BY <1>8 DEF FlushError
  <2>2. LooseInv'
    BY <1>8 DEF FlushError
  <2>3. QED
    BY <2>1, <2>2
<1>9. ASSUME BeginTransaction PROVE Parts'
  <2>1. CountInv'
    BY <1>9 DEF BeginTransaction, Empty
  <2>2. LooseInv'
    BY <1>9 DEF BeginTransaction, Empty
  <2>3. QED
    BY <2>1, <2>2
<1>10. ASSUME BeginBusy PROVE Parts'
  <2>1. CountInv'
    BY <1>10 DEF BeginBusy
  <2>2. LooseInv'
    BY <1>10 DEF BeginBusy
  <2>3. QED
    BY <2>1, <2>2
<1>11. ASSUME CommitTransaction PROVE Parts'
  <2>1. CountInv'
    BY <1>11 DEF CommitTransaction
  <2>2. LooseInv'
    BY <1>11 DEF CommitTransaction
  <2>3. QED
    BY <2>1, <2>2
<1>12. ASSUME FinalizeJournal PROVE Parts'
  <2>1. CountInv'
    BY <1>12 DEF FinalizeJournal
  <2>2. LooseInv'
    BY <1>12 DEF FinalizeJournal
  <2>3. QED
    BY <2>1, <2>2
<1>13. ASSUME DropJournal PROVE Parts'
  <2>1. CountInv'
    BY <1>13 DEF DropJournal
  <2>2. LooseInv'
    BY <1>13 DEF DropJournal
  <2>3. QED
    BY <2>1, <2>2
<1>14. ASSUME StampCounter PROVE Parts'
  <2> DEFINE image == [View[1] EXCEPT !.counter = counter + 1]
  <2>count. image.counter = counter + 1
    BY <1>14 DEF Content
  <2>image. image \in Content /\ image # NoImage
    BY <1>14, ContentUpdate DEF StampCounter
  <2>cache. cache' = [cache EXCEPT ![1] = image]
    BY <1>14 DEF StampCounter
  <2> HIDE DEF image
  <2>1. CountInv'
    BY <1>14, <2>image, <2>count, <2>cache, JournalPageType, SMTT(30) DEF StampCounter
  <2>2. LooseInv'
    BY <1>14, <2>image, <2>count, <2>cache, JournalPageType DEF StampCounter
  <2>3. QED
    BY <2>1, <2>2
<1>15. ASSUME CommitDone PROVE Parts'
  <2>1. CountInv'
    BY <1>15 DEF CommitDone, Empty
  <2>2. LooseInv'
    BY <1>15 DEF CommitDone, Empty
  <2>3. QED
    BY <2>1, <2>2
<1>16. ASSUME CommitError PROVE Parts'
  <2>1. CountInv'
    BY <1>16 DEF CommitError
  <2>2. LooseInv'
    BY <1>16 DEF CommitError
  <2>3. QED
    BY <2>1, <2>2
<1>17. ASSUME RollbackTransaction PROVE Parts'
  <2>1. CountInv'
    BY <1>17 DEF RollbackTransaction
  <2>2. LooseInv'
    BY <1>17 DEF RollbackTransaction
  <2>3. QED
    BY <2>1, <2>2
<1>18. ASSUME RollbackDone PROVE Parts'
  <2>1. CountInv'
    BY <1>18 DEF RollbackDone, Empty
  <2>2. LooseInv'
    BY <1>18 DEF RollbackDone, Empty
  <2>3. QED
    BY <2>1, <2>2
<1>19. ASSUME SetJournalMode PROVE Parts'
  <2>1. CountInv'
    BY <1>19 DEF SetJournalMode
  <2>2. LooseInv'
    BY <1>19 DEF SetJournalMode
  <2>3. QED
    BY <2>1, <2>2
<1>20. ASSUME Crash PROVE Parts'
  <2>1. CountInv'
    BY <1>20 DEF Crash, Empty
  <2>2. LooseInv'
    BY <1>20 DEF Crash, Empty
  <2>3. QED
    BY <2>1, <2>2
<1>21. ASSUME Reopen PROVE Parts'
  <2>1. CountInv'
    BY <1>21 DEF Reopen, Empty, HotJournal, Reopened, ColdInv
  <2>2. LooseInv'
    BY <1>21 DEF Reopen, Empty, HotJournal, Reopened, ColdInv
  <2>3. QED
    BY <2>1, <2>2
<1>22. ASSUME UNCHANGED vars PROVE Parts'
  BY <1>22 DEF vars
<1>23. Parts'
  BY <1>1, <1>2, <1>3, <1>4, <1>5, <1>6, <1>7, <1>8, <1>9, <1>10, <1>11, <1>12,
     <1>13, <1>14, <1>15, <1>16, <1>17, <1>18, <1>19, <1>20, <1>21, <1>22 DEF Next
<1>24. IInv' /\ ColdInv'
  BY InvStep, ColdStep DEF RInv
<1>25. QED
  BY <1>23, <1>24 DEF RInv

\* Every reachable state satisfies the strengthened invariant.
THEOREM RefinementInvariance == Spec => []RInv
BY RInvInit, RInvStep, PTL DEF Spec

-----------------------------------------------------------------------------
(* The change counter *)

\* A commit that returns leaves on disk what the connection reads, under a
\* change counter higher than the one the transaction found.
THEOREM Durability == Spec => CommitDurable
<1>1. ASSUME RInv, [Next]_vars, op = "stamp", op' = "idle", up'
      PROVE  /\ \A p \in Page \ loose' : disk'[p] = View'[p]
             /\ disk'[1].counter > saved[1].counter
  <2>1. CommitDone
    BY <1>1 DEF RInv, IInv, ControlInv, TypeOK, Next, vars, control, Idle, ReadPage, RestorePage,
       WritePage, WriteHeaderField, Flush, FlushBatch, FlushDone, FlushError, BeginTransaction,
       BeginBusy, CommitTransaction, FinalizeJournal, DropJournal, StampCounter, CommitDone,
       CommitError, RollbackTransaction, RollbackDone, SetJournalMode, Crash, Reopen
  <2>2. pending = {} /\ dirty = {1} /\ UNCHANGED <<disk, cache, loose>>
    BY <1>1, <2>1 DEF CommitDone, files, RInv, CountInv
  <2>3. ASSUME NEW p \in Page \ loose PROVE cache[p] = NoImage \/ cache[p] = disk[p]
    BY <1>1, <2>2 DEF RInv, IInv, CoherentInv, ProgressInv
  <2>4. disk[1].counter = counter /\ saved[1].counter < counter
    BY <1>1, <2>2 DEF RInv, IInv, ProgressInv, CountInv
  <2>5. saved[1].counter \in Nat /\ counter \in Nat
    BY <1>1, <2>1, HeaderPage, CounterType DEF RInv, IInv, TypeOK, ControlInv
  <2>6. QED
    BY <2>2, <2>3, <2>4, <2>5 DEF View
<1>2. RInv /\ [Next]_vars =>
        [op = "stamp" /\ op' = "idle" /\ up' =>
           /\ \A p \in Page \ loose' : disk'[p] = View'[p]
           /\ disk'[1].counter > saved[1].counter]_vars
  BY <1>1
<1>3. QED
  BY <1>2, RefinementInvariance, PTL DEF Spec, CommitDurable

\* No step, be it a rollback, a failed commit or a crash, takes the change
\* counter of the file back.
THEOREM CounterGrows == Spec => CounterNeverDecreases
<1>1. ASSUME RInv, [Next]_vars PROVE disk'[1].counter >= disk[1].counter
  <2> USE <1>1, HeaderPage, CounterType DEF RInv, IInv, TypeOK, files
  <2>1. disk[1].counter \in Nat
    OBVIOUS
  <2>2. ASSUME NEW p \in Page, RestorePage(p) PROVE disk'[1].counter >= disk[1].counter
    <3>1. CASE p = 1
      <4>1. before[1] # NoImage
        BY <2>2, <3>1 DEF RestorePage, ControlInv, Imaged
      <4>2. before[1].counter = disk[1].counter /\ disk'[1] = before[1]
        BY <2>2, <3>1, <4>1 DEF RestorePage, CountInv
      <4>3. QED
        BY <2>1, <4>2
    <3>2. CASE p # 1
      BY <2>1, <2>2, <3>2 DEF RestorePage
    <3>3. QED
      BY <3>1, <3>2
  <2>3. CASE FlushBatch
    <3>1. CASE 1 \in Batch
      <4>1. cache[1] # NoImage /\ disk'[1] = cache[1] /\ 1 \in pending
        BY <2>3, <3>1, BatchPending DEF FlushBatch, ControlInv, DirtyInv
      <4>2. cache[1].counter = disk[1].counter \/ cache[1].counter > disk[1].counter
        BY <2>1, <2>3, <4>1 DEF FlushBatch, CountInv
      <4>3. QED
        BY <2>1, <4>1, <4>2
    <3>2. CASE 1 \notin Batch
      BY <2>1, <2>3, <3>2 DEF FlushBatch
    <3>3. QED
      BY <3>1, <3>2
  <2>4. CASE Reopen
    BY <2>1, <2>4 DEF Reopen, Reopened, HotJournal, ColdInv
  <2>5. CASE disk' = disk
    BY <2>1, <2>5
  <2>6. QED
    BY <2>2, <2>3, <2>4, <2>5 
    DEF Next, vars, ReadPage, WritePage, WriteHeaderField, Flush, FlushDone, FlushError,
        BeginTransaction, BeginBusy, CommitTransaction, FinalizeJournal, DropJournal,
        StampCounter, CommitDone, CommitError, RollbackTransaction, RollbackDone,
        SetJournalMode, Crash
<1>2. RInv /\ [Next]_vars => [disk'[1].counter >= disk[1].counter]_vars
  BY <1>1
<1>3. QED
  BY <1>2, RefinementInvariance, PTL DEF Spec, CounterNeverDecreases

-----------------------------------------------------------------------------
(* The pager implements PageStore *)

LEMMA StoreInit == Init => Store!Init
<1> SUFFICES ASSUME Init PROVE Store!Init
  OBVIOUS
<1>1. View \in [Page -> Content]
  BY TypeInit, ViewType
<1>2. QED
  BY <1>1 DEF Init, Store!Init, Empty, Imaged, NoView, Store!NoView

\* Every step of the pager is a step of the store, or changes nothing there.
LEMMA StoreStep == RInv /\ [Next]_vars => [Store!Next]_(Store!vars)
<1> SUFFICES ASSUME RInv, [Next]_vars PROVE [Store!Next]_(Store!vars)
  OBVIOUS
<1>type. TypeOK /\ TypeOK'
  BY TypeStep DEF RInv, IInv
<1>now. /\ View \in [Page -> Content]
       /\ \A p \in Page : View[p] = IF cache[p] = NoImage THEN disk[p] ELSE cache[p]
  BY <1>type, ViewType
<1>next. /\ View' \in [Page -> Content]
        /\ \A p \in Page : View'[p] = IF cache'[p] = NoImage THEN disk'[p] ELSE cache'[p]
  BY <1>type DEF TypeOK, View
<1>parts. /\ ControlInv /\ DirtyInv /\ CoherentInv /\ ProgressInv /\ CoverInv
          /\ ColdInv /\ CountInv /\ LooseInv
  BY DEF RInv, IInv
<1> USE HeaderPage, <1>type, <1>now, <1>next, <1>parts DEF config, files, txState, control, history
<1>stutter. ASSUME UNCHANGED <<cache, disk, inTx, saved, before, loose, exempt>>
            PROVE  UNCHANGED Store!vars
  BY <1>stutter DEF Store!vars, View, Imaged
<1>write. ASSUME NEW p \in Page, NEW c \in Content, inTx, JournalPage(p),
                 cache' = [cache EXCEPT ![p] = c],
                 UNCHANGED <<disk, inTx, saved, loose, exempt>>
          PROVE  Store!Next
  <2>1. View' = [View EXCEPT ![p] = c]
    BY <1>write DEF TypeOK
  <2>2. Imaged' = Imaged \cup {p}
    BY <1>write, JournalPageType DEF Imaged
  <2>3. QED
    BY <1>write, <2>1, <2>2 DEF Store!Next, Store!Write
<1>1. ASSUME NEW p \in Page, ReadPage(p) PROVE UNCHANGED Store!vars
  <2>1. View' = View
    BY <1>1 DEF ReadPage, TypeOK
  <2>2. QED
    BY <1>1, <2>1 DEF ReadPage, Store!vars, Imaged
<1>2. ASSUME NEW p \in Page, NEW d \in Data, PutPage(p, d),
             UNCHANGED <<disk, inTx, saved, exempt>>
      PROVE  Store!Next
  <2> DEFINE image == [View[p] EXCEPT !.data = d]
  <2>1. image \in Content /\ image # NoImage /\ cache' = [cache EXCEPT ![p] = image]
    BY <1>2, ContentUpdate DEF PutPage
  <2> HIDE DEF image
  <2>2. CASE inTx
    BY <1>2, <1>write, <2>1, <2>2 DEF PutPage
  <2>3. CASE ~inTx
    <3>1. View' = [View EXCEPT ![p] = image]
      BY <1>2, <2>1 DEF TypeOK
    <3>2. loose' = loose \cup {p} /\ Imaged' = Imaged
      BY <1>2, <2>3 DEF PutPage, Imaged
    <3>3. Store!Write(p, image)
      BY <1>2, <2>3, <3>1, <3>2 DEF Store!Write
    <3>4. QED
      BY <2>1, <3>3 DEF Store!Next
  <2>4. QED
    BY <2>2, <2>3
<1>3. ASSUME FlushBatch PROVE Store!Next
  <2>1. \A p \in Batch : cache[p] # NoImage
    BY <1>3, BatchPending DEF FlushBatch, ControlInv, DirtyInv
  <2>2. View' = View
    BY <1>3, <2>1 DEF FlushBatch, TypeOK
  <2>3. loose' = loose \ (loose \cap Batch) /\ loose \cap Batch \in SUBSET loose
    BY <1>3 DEF FlushBatch
  <2>4. QED
    BY <1>3, <2>2, <2>3 DEF FlushBatch, Imaged, Store!Next, Store!Harden
<1>4. ASSUME BeginTransaction PROVE Store!Next
  BY <1>4 DEF BeginTransaction, Empty, Imaged, View, Store!Next, Store!Begin
<1>5. ASSUME StampCounter PROVE Store!Next
  <2> DEFINE image == [View[1] EXCEPT !.counter = counter + 1]
  <2>1. image \in Content /\ cache' = [cache EXCEPT ![1] = image]
    BY <1>5, ContentUpdate DEF StampCounter, ControlInv, TypeOK
  <2>2. inTx /\ JournalPage(1) /\ UNCHANGED <<disk, inTx, saved, loose, exempt>>
    BY <1>5 DEF StampCounter, ControlInv
  <2> HIDE DEF image
  <2>3. QED
    BY <2>1, <2>2, <1>write
<1>6. ASSUME CommitDone PROVE Store!Next
  <2>1. View' = View /\ Imaged' = {} /\ inTx
    BY <1>6 DEF CommitDone, ControlInv, View, Imaged, Empty
  <2>2. loose \cap Imaged = {}
    BY <1>6 DEF CommitDone, LooseInv
  <2>3. QED
    BY <1>6, <2>1, <2>2 DEF CommitDone, NoView, Store!NoView, Store!Next, Store!Commit
<1>7. ASSUME NEW p \in Page, RestorePage(p) PROVE Store!Next
  <2>1. inTx /\ p \in Imaged /\ before[p] \in Content
    BY <1>7 DEF RestorePage, ControlInv, Imaged, TypeOK
  <2>2. View' = [View EXCEPT ![p] = before[p]]
    BY <1>7 DEF RestorePage, TypeOK
  <2>3. p \notin exempt => before[p] = saved[p]
    BY <2>1 DEF CoverInv, Imaged
  <2>4. QED
    BY <1>7, <2>1, <2>2, <2>3 DEF RestorePage, Imaged, Store!Next, Store!PutBack
<1>8. ASSUME RollbackDone PROVE Store!Next
  <2>1. View' = View /\ Imaged' = {} /\ inTx
    BY <1>8 DEF RollbackDone, ControlInv, View, Imaged, Empty
  <2>2. \A p \in Page \ exempt : View[p] = saved[p]
    BY <1>8, <2>1 DEF RollbackDone, ProgressInv, CoverInv, Imaged
  <2>3. QED
    BY <1>8, <2>1, <2>2 DEF RollbackDone, NoView, Store!NoView, Store!Next, Store!Rollback
<1>9. ASSUME Crash PROVE Store!Next
  <2>1. \A p \in Page \ (loose \cup Imaged) : View'[p] = View[p]
    BY <1>9 DEF Crash, Empty, Imaged, CoherentInv, ControlInv
  <2>2. QED
    BY <1>9, <2>1 DEF Crash, Empty, Imaged, NoView, Store!NoView, Store!Next, Store!Crash
<1>10. ASSUME Reopen PROVE UNCHANGED Store!vars
  BY <1>10, <1>stutter DEF Reopen, Reopened, HotJournal, ColdInv
<1>11. QED
  BY <1>stutter, <1>1, <1>2, <1>3, <1>4, <1>5, <1>6, <1>7, <1>8, <1>9, <1>10
  DEF Next, vars, WritePage, WriteHeaderField, Flush, FlushDone, FlushError, BeginBusy,
      CommitTransaction, FinalizeJournal, DropJournal, CommitError, RollbackTransaction,
      SetJournalMode

\* Module Pager implements module PageStore.
THEOREM Refinement == Spec => ImplementsPageStore
<1>1. Init => Store!Init
  BY StoreInit
<1>2. RInv /\ [Next]_vars => [Store!Next]_(Store!vars)
  BY StoreStep
<1>3. QED
  BY <1>1, <1>2, RefinementInvariance, PTL DEF Spec, ImplementsPageStore, Store!Spec
=============================================================================
