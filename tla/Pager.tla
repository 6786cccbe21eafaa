-------------------------------- MODULE Pager --------------------------------
(***************************************************************************)
(* The page cache and rollback journal of pysqlite/pager.py, for one       *)
(* connection.  A method that changes the file in several writes (flush,   *)
(* commit_transaction, rollback_transaction) is a sequence of steps, so    *)
(* that the process may die, or a write may fail, between any two of them; *)
(* "op" says which one is running and how far it got.                      *)
(*                                                                         *)
(* The pages are those of a file that neither grows nor shrinks: page      *)
(* allocation and the freelist are modelled in module Freelist.            *)
(***************************************************************************)
EXTENDS Naturals, Sequences, FiniteSets

CONSTANTS NumPages,    \* pages in the database file
          Data,        \* what the body of a page can hold
          NoImage,     \* "no entry" in the cache and among the before-images
          MaxCounter,  \* bound: value of the change counter commits stop at
          MaxJournal   \* bound: images a journal may hold when a transaction begins

Page == 1..NumPages

\* The header of page 1 carries the file change counter; it is 0 elsewhere.
Content == [data : Data, counter : 0..MaxCounter]

ASSUME NumPagesAssumption == NumPages \in Nat \ {0}
ASSUME NoImageAssumption  == NoImage \notin Content
ASSUME BoundsAssumption   == MaxCounter \in Nat /\ MaxJournal \in Nat

NoJournal == [exists |-> FALSE, nPages |-> 0, images |-> <<>>]

VARIABLES
  vfs,        \* "memory" or "os": which VFS the database was opened with
  \* the files
  disk,       \* the database file
  journal,    \* the -journal file: does it exist, header's nPages, page images
  \* the Pager object
  up,         \* is there one (the process runs and has the database open)
  cache,      \* page -> content, or NoImage when the page is not cached
  dirty,      \* dirty_pages
  before,     \* _before_images: page -> content, or NoImage
  inTx,       \* in_transaction
  journalFd,  \* journal_fd: "none", "open", or "closed" (a closed handle kept)
  mode,       \* journal_mode: the initial "DELETE", or an Enum member
  counter,    \* file_change_counter
  \* the method in progress
  op, pending,
  \* history: the view when the transaction began, the pages written outside
  \* a transaction and not flushed since, and those that were when it began
  saved, loose, exempt

files   == <<disk, journal>>
txState == <<before, inTx, journalFd>>
config  == <<vfs, mode>>
control == <<op, pending>>
history == <<saved, loose, exempt>>
vars == <<config, files, up, cache, dirty, txState, counter, control, history>>

Empty == [p \in Page |-> NoImage]

\* The history of a transaction is kept while there is one.
NoView == <<>>

\* What read_page returns: the cached copy if there is one, else the disk's.
View == [p \in Page |-> IF cache[p] = NoImage THEN disk[p] ELSE cache[p]]

Imaged == {p \in Page : before[p] # NoImage}

\* _hot_journal_exists: only a header that counts its pages is hot.
HotJournal == journal.exists /\ journal.nPages > 0

\* _recover_hot_journal: image i goes to page first_page + i - 1, and
\* _write_journal_header always writes 1 as first_page.
Recovered ==
  [p \in Page |-> IF p <= journal.nPages /\ p <= Len(journal.images)
                  THEN journal.images[p] ELSE disk[p]]

\* What a connection that opens the files now would find.
Reopened == IF HotJournal THEN Recovered ELSE disk

Idle == up /\ op = "idle"

Init ==
  /\ vfs \in {"memory", "os"}
  /\ disk \in [Page -> [data : Data, counter : {0}]]
  /\ journal = NoJournal
  /\ up = TRUE
  /\ cache = Empty /\ dirty = {} /\ before = Empty
  /\ inTx = FALSE /\ journalFd = "none"
  /\ mode = "DELETE"
  /\ counter = 0
  /\ op = "idle" /\ pending = {}
  /\ saved = NoView /\ loose = {} /\ exempt = {}

-----------------------------------------------------------------------------
(* Reading and writing pages *)

\* A cache miss fills the cache.
ReadPage(p) ==
  /\ Idle
  /\ cache[p] = NoImage
  /\ cache' = [cache EXCEPT ![p] = disk[p]]
  /\ UNCHANGED <<config, files, up, dirty, txState, counter, control, history>>

\* Mistake: the before-image is taken at every write of the page.
JournalPage_EveryTime(p) ==
  /\ before' = [before EXCEPT ![p] = disk[p]]
  /\ UNCHANGED journal

\* _journal_page: the before-image is read from the DISK, once per page.
JournalPage(p) ==
  IF before[p] # NoImage
  THEN UNCHANGED <<before, journal>>
  ELSE /\ before' = [before EXCEPT ![p] = disk[p]]
       /\ journal' = IF journalFd = "open"
                     THEN [journal EXCEPT !.images = Append(@, disk[p])]
                     ELSE journal

\* Mistake: a page that is dirty already is not journaled.
PutPage_SkipsDirty(p, d) ==
  /\ cache' = [cache EXCEPT ![p] = [View[p] EXCEPT !.data = d]]
  /\ IF inTx
     THEN (IF p \in dirty THEN UNCHANGED <<before, journal>> ELSE JournalPage(p)) /\ UNCHANGED loose
     ELSE loose' = loose \cup {p} /\ UNCHANGED <<before, journal>>

\* write_page of a new body; page 1 keeps its counter.
PutPage(p, d) ==
  /\ cache' = [cache EXCEPT ![p] = [View[p] EXCEPT !.data = d]]
  /\ IF inTx
     THEN JournalPage(p) /\ UNCHANGED loose
     ELSE loose' = loose \cup {p} /\ UNCHANGED <<before, journal>>

WritePage(p, d) ==
  /\ Idle
  /\ PutPage(p, d)
  /\ dirty' = dirty \cup {p}
  /\ UNCHANGED <<config, disk, up, inTx, journalFd, counter, control, saved, exempt>>

\* _write_header_field: page 1 is written and then EVERY dirty page is
\* flushed, in the middle of a transaction too.
WriteHeaderField(d) ==
  /\ Idle
  /\ PutPage(1, d)
  /\ dirty' = dirty \cup {1}
  /\ op' = "flush" /\ pending' = dirty'
  /\ UNCHANGED <<config, disk, up, inTx, journalFd, counter, saved, exempt>>

-----------------------------------------------------------------------------
(* flush: contiguous runs of dirty pages, lowest first, one write each *)

Batch == {p \in pending : \A q \in 1..p :
                            (\E r \in pending : r <= q) => q \in pending}

Flush ==
  /\ Idle
  /\ dirty # {}
  /\ op' = "flush" /\ pending' = dirty
  /\ UNCHANGED <<config, files, up, cache, dirty, txState, counter, history>>

FlushBatch ==
  /\ up
  /\ op \in {"flush", "commit", "stamp"}
  /\ pending # {}
  /\ disk' = [p \in Page |-> IF p \in Batch THEN cache[p] ELSE disk[p]]
  /\ pending' = pending \ Batch
  /\ loose' = loose \ Batch
  /\ UNCHANGED <<config, journal, up, cache, dirty, txState, counter, op, saved, exempt>>

\* dirty_pages is only cleared once every batch is written.
FlushDone ==
  /\ up
  /\ op = "flush" /\ pending = {}
  /\ dirty' = {}
  /\ op' = "idle"
  /\ UNCHANGED <<config, files, up, cache, txState, counter, pending, history>>

\* A write raises: the pages stay dirty and the exception leaves flush.
FlushError ==
  /\ up /\ vfs = "os"
  /\ op = "flush" /\ pending # {}
  /\ op' = "idle" /\ pending' = {}
  /\ UNCHANGED <<config, files, up, cache, dirty, txState, counter, history>>

-----------------------------------------------------------------------------
(* begin_transaction and commit_transaction *)

\* The journal is opened or created, and its header written with nPages 0;
\* images an earlier transaction left in the file stay in it.
BeginTransaction ==
  /\ Idle
  /\ ~inTx
  /\ Len(journal.images) <= MaxJournal
  /\ journal' = [journal EXCEPT !.exists = TRUE, !.nPages = 0]
  /\ journalFd' = "open"
  /\ inTx' = TRUE
  /\ before' = Empty
  /\ saved' = View
  /\ exempt' = loose
  /\ UNCHANGED <<config, disk, up, cache, dirty, counter, control, loose>>

\* Another connection holds the lock: the journal file has been opened, hence
\* created, by then, and stays.
BeginBusy ==
  /\ Idle /\ vfs = "os"
  /\ ~inTx
  /\ journal' = [journal EXCEPT !.exists = TRUE]
  /\ UNCHANGED <<config, disk, up, cache, dirty, txState, counter, control, history>>

\* Mistake: the dirty pages are not flushed.
CommitTransaction_NoFlush ==
  /\ Idle
  /\ inTx
  /\ counter < MaxCounter
  /\ op' = "commit" /\ pending' = {}
  /\ UNCHANGED <<config, files, up, cache, dirty, txState, counter, history>>

CommitTransaction ==
  /\ Idle
  /\ inTx
  /\ counter < MaxCounter
  /\ op' = "commit" /\ pending' = dirty
  /\ UNCHANGED <<config, files, up, cache, dirty, txState, counter, history>>

\* All is flushed and synced; _finalize_journal writes nPages 0 again.
FinalizeJournal ==
  /\ up
  /\ op = "commit" /\ pending = {}
  /\ dirty' = {}
  /\ journal' = [journal EXCEPT !.nPages = 0]
  /\ op' = "drop"
  /\ UNCHANGED <<config, disk, up, cache, txState, counter, pending, history>>

\* Only the initial mode matches one of the branches: set_journal_mode stores
\* members of another class than the one the pager compares with.
DropJournal ==
  /\ up
  /\ op = "drop"
  /\ IF mode = "DELETE"
     THEN journal' = NoJournal /\ journalFd' = "closed"
     ELSE UNCHANGED <<journal, journalFd>>
  /\ op' = "count"
  /\ UNCHANGED <<config, disk, up, cache, dirty, before, inTx, counter, pending, history>>

\* The change counter goes into page 1 after the journal is gone, through
\* write_page, which journals page 1 unless it already is.  The cached page is
\* changed in place before that.
StampRaises == vfs = "os" /\ journalFd = "closed" /\ before[1] = NoImage

StampCounter ==
  /\ up
  /\ op = "count"
  /\ counter' = counter + 1
  /\ cache' = [cache EXCEPT ![1] = [View[1] EXCEPT !.counter = counter + 1]]
  /\ JournalPage(1)
  /\ IF StampRaises
     THEN op' = "rollback" /\ pending' = Imaged \cup {1} /\ UNCHANGED dirty
     ELSE op' = "stamp" /\ dirty' = dirty \cup {1} /\ pending' = dirty'
  /\ UNCHANGED <<config, disk, up, inTx, journalFd, history>>

\* The finally block of a commit that went through.
CommitDone ==
  /\ up
  /\ op = "stamp" /\ pending = {}
  /\ dirty' = {}
  /\ inTx' = FALSE /\ before' = Empty /\ journalFd' = "none"
  /\ op' = "idle"
  /\ saved' = NoView /\ exempt' = {}
  /\ UNCHANGED <<config, files, up, cache, counter, pending, loose>>

\* Mistake: only the pages that are still dirty are restored.
CommitError_DirtyOnly ==
  /\ up /\ vfs = "os"
  /\ op \in {"commit", "stamp"} /\ pending # {}
  /\ op' = "rollback" /\ pending' = Imaged \cap dirty
  /\ UNCHANGED <<config, files, up, cache, dirty, txState, counter, history>>

\* A write raises, to the database or the journal, or the journal cannot be
\* deleted: the commit rolls back.
CommitError ==
  /\ up /\ vfs = "os"
  /\ \/ op = "commit"
     \/ op = "drop" /\ mode = "DELETE"
     \/ op = "stamp" /\ pending # {}
  /\ op' = "rollback" /\ pending' = Imaged
  /\ UNCHANGED <<config, files, up, cache, dirty, txState, counter, history>>

-----------------------------------------------------------------------------
(* rollback_transaction *)

\* Mistake: the dirty pages are restored, not those with a before-image.
RollbackTransaction_Dirty ==
  /\ Idle
  /\ inTx
  /\ op' = "rollback" /\ pending' = dirty
  /\ UNCHANGED <<config, files, up, cache, dirty, txState, counter, history>>

RollbackTransaction ==
  /\ Idle
  /\ inTx
  /\ op' = "rollback" /\ pending' = Imaged
  /\ UNCHANGED <<config, files, up, cache, dirty, txState, counter, history>>

\* Mistake: the page stays in the cache.
RestorePage_KeepsCache(p) ==
  /\ up
  /\ op = "rollback"
  /\ p \in pending
  /\ disk' = [disk EXCEPT ![p] = before[p]]
  /\ pending' = pending \ {p}
  /\ loose' = loose \ {p}
  /\ UNCHANGED <<config, journal, up, cache, dirty, txState, counter, op, saved, exempt>>

\* One before-image is written back and the page leaves the cache; it stays
\* in dirty_pages until the end.  (The code goes in order of first write.)
RestorePage(p) ==
  /\ up
  /\ op = "rollback"
  /\ p \in pending
  /\ disk' = [disk EXCEPT ![p] = before[p]]
  /\ cache' = [cache EXCEPT ![p] = NoImage]
  /\ pending' = pending \ {p}
  /\ loose' = loose \ {p}
  /\ UNCHANGED <<config, journal, up, dirty, txState, counter, op, saved, exempt>>

\* The end of it, also if the journal cannot be deleted: then rollback raises
\* and the file stays, which the next transaction writes over.
RollbackDone ==
  /\ up
  /\ op = "rollback" /\ pending = {}
  /\ journal' = NoJournal \/ (vfs = "os" /\ UNCHANGED journal)
  /\ dirty' = {}
  /\ inTx' = FALSE /\ before' = Empty /\ journalFd' = "none"
  /\ op' = "idle"
  /\ saved' = NoView /\ exempt' = {}
  /\ UNCHANGED <<config, disk, up, cache, counter, pending, loose>>

-----------------------------------------------------------------------------
(* PRAGMA journal_mode, and the end of the Pager object *)

\* Whatever mode is asked for, the value stored equals none of the strings
\* the pager compares journal_mode with.
SetJournalMode ==
  /\ Idle
  /\ mode = "DELETE"
  /\ mode' = "enum"
  /\ UNCHANGED <<vfs, files, up, cache, dirty, txState, counter, control, history>>

\* The process dies, or Database.close closes the handle: neither flushes nor
\* rolls back.  (A :memory: database goes with its process.)
Crash ==
  /\ up /\ vfs = "os"
  /\ up' = FALSE
  /\ cache' = Empty /\ dirty' = {} /\ before' = Empty
  /\ inTx' = FALSE /\ journalFd' = "none"
  /\ mode' = "DELETE"
  /\ op' = "idle" /\ pending' = {}
  /\ saved' = NoView /\ loose' = {} /\ exempt' = {}
  /\ UNCHANGED <<vfs, files, counter>>

\* Mistake: the change counter is not taken from the header.
Reopen_NoCounter ==
  /\ ~up
  /\ up' = TRUE
  /\ counter' = 0
  /\ UNCHANGED <<config, files, cache, dirty, txState, control, history>>

\* _open_db parses the header, then replays the journal if it is hot.
Reopen ==
  /\ ~up
  /\ up' = TRUE
  /\ counter' = disk[1].counter
  /\ disk' = Reopened
  /\ journal' = IF HotJournal THEN NoJournal ELSE journal
  /\ UNCHANGED <<config, cache, dirty, txState, control, history>>

Next ==
  \/ \E p \in Page : ReadPage(p) \/ RestorePage(p)
  \/ \E p \in Page, d \in Data : WritePage(p, d)
  \/ \E d \in Data : WriteHeaderField(d)
  \/ Flush \/ FlushBatch \/ FlushDone \/ FlushError
  \/ BeginTransaction \/ BeginBusy
  \/ CommitTransaction \/ FinalizeJournal \/ DropJournal
  \/ StampCounter \/ CommitDone \/ CommitError
  \/ RollbackTransaction \/ RollbackDone
  \/ SetJournalMode \/ Crash \/ Reopen

Spec == Init /\ [][Next]_vars

-----------------------------------------------------------------------------
(* Properties *)

\* Every variable holds a value of its type.
TypeOK ==
  /\ vfs \in {"memory", "os"}
  /\ mode \in {"DELETE", "enum"}
  /\ disk \in [Page -> Content]
  /\ journal \in [exists : BOOLEAN, nPages : Nat, images : Seq(Content)]
  /\ up \in BOOLEAN /\ inTx \in BOOLEAN
  /\ cache \in [Page -> Content \cup {NoImage}]
  /\ before \in [Page -> Content \cup {NoImage}]
  /\ dirty \subseteq Page /\ pending \subseteq Page
  /\ journalFd \in {"none", "open", "closed"}
  /\ counter \in 0..MaxCounter
  /\ op \in {"idle", "flush", "commit", "drop", "count", "stamp", "rollback"}
  /\ saved \in [Page -> Content] \cup {NoView}
  /\ inTx => saved \in [Page -> Content]
  /\ loose \subseteq Page /\ exempt \subseteq Page

\* The write-ahead rule of the rollback journal: in a transaction every page
\* that was not loose at its beginning either still has the image it had then,
\* on disk and to a reader, or that image is among the before-images.  flush
\* may run at any moment of a transaction, so it is write_page that must have
\* journaled the page by then.
JournalCovers ==
  inTx => \A p \in Page \ exempt :
            IF before[p] = NoImage
            THEN disk[p] = saved[p] /\ View[p] = saved[p]
            ELSE before[p] = saved[p]

\* flush writes self.cache[p] for each dirty page (a KeyError if it is not
\* cached), and a cached page that no flush will write must not differ from
\* the disk: otherwise what the connection reads is lost when it closes.
CacheCoherent ==
  /\ dirty \subseteq {p \in Page : cache[p] # NoImage}
       \/ op = "rollback"
  /\ \A p \in Page \ (dirty \cup loose) :
       \/ cache[p] \in {NoImage, disk[p]}
       \/ op = "rollback" /\ p \in pending

\* rollback_transaction, and a commit_transaction that raises, end with the
\* file and the reader's view as they were when the transaction began, but for
\* the pages that were loose then.
RollbackRestores ==
  [][op = "rollback" /\ op' = "idle" /\ up' =>
       \A p \in Page \ exempt : disk'[p] = saved[p] /\ View'[p] = saved[p]]_vars

\* A commit that returns has everything the connection reads on disk (but for
\* pages still loose), under a change counter no earlier commit has used.
CommitDurable ==
  [][op = "stamp" /\ op' = "idle" /\ up' =>
       /\ \A p \in Page \ loose' : disk'[p] = View'[p]
       /\ disk'[1].counter > saved[1].counter]_vars

\* The change counter in the file never goes back, whatever is rolled back,
\* fails or crashes: another connection compares it to see that the file changed.
CounterNeverDecreases == [][disk'[1].counter >= disk[1].counter]_vars

\* The pager keeps the promise of module PageStore: transactions that restore
\* or keep, pages made durable by a flush, and crashes that damage nothing but
\* loose pages and the pages of the interrupted transaction.
Store == INSTANCE PageStore WITH view <- View, open <- inTx, touched <- Imaged

ImplementsPageStore == Store!Spec

(* What the documents of the repository say and the code does not do. *)

\* implementation.md:716: a transaction that a crash interrupts before its
\* journal is disposed of is undone when the database is opened again.
CrashRecovers ==
  inTx /\ op \in {"idle", "flush", "commit"} =>
    \A p \in Page \ exempt : Reopened[p] = saved[p]

=============================================================================
