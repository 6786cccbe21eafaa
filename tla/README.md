# Verification of pysqlite

TLA+ models of `pysqlite`, the pure-Python SQL database in `src/pysqlite`, the
TLC runs that check them on small instances, and theorems about them proved
with TLAPS. They follow a statement all the way down: what the compiler emits
for it and what the VM makes of that, foreign keys included; statements,
autocommit and the transaction manager; the B-tree, the bytes of its pages and
of the rows in them; the pager with its cache, rollback journal and freelist;
and the locks of two connections to one file.

## 1. The system

`Database.execute` parses a statement, compiles it to a list of opcodes, and
runs them on a VM. The VM reads and writes rows through B-tree cursors, the
B-tree reads and writes pages through the pager, and the pager reads and writes
bytes through a VFS file. Everything is synchronous and runs in the caller's
thread; nothing runs in the background and there are no callbacks. What makes
the system hard is not threads but the *sequences* in which pages, header
fields, the journal and four notions of "in a transaction" change, exceptions
and crashes in the middle of them, and other processes on the same file.

| Part | Code | State it keeps | Operations |
|---|---|---|---|
| Pager: cache and journal | `pager.py:145-619` | `cache`, `dirty_pages`, `_before_images`, `in_transaction`, `journal_fd`, `journal_mode`, `file_change_counter`, both files | read_page, write_page, `_write_header_field`, flush, begin/commit/rollback_transaction, open, close |
| Pager: freelist | `pager.py:258-285, 620-708` | trunk pages, three header fields, `freelist_trunk`, `freelist_count`, `total_pages` | allocate_page, free_page |
| Statements and transactions | `__init__.py`, `transaction.py`, Transaction opcodes in `vm.py`, `compile.py` | `TransactionManager.state`, `_savepoints`, `was_in_tx` | execute, BEGIN, COMMIT, ROLLBACK, SAVEPOINT, autocommit, foreign-key pass at commit |
| Foreign keys | `transaction.py:139-271`, `vm.py:1696-1790`, `compile.py:1911-1925` | none: reads the schema | check and repair at commit, ON UPDATE while an UPDATE runs |
| VFS and locks | `vfs.py` | lock level, locked bytes (of page 1 of the file) | read, write, sync, truncate, lock, unlock |
| WAL | `pager.py` | the `-wal` file | append, checkpoint |
| B-tree, cells | `btree.py`, `cell.py` | cells in pages, cursor position | insert, delete, split, seek, next, last |
| Records, varints | `record.py`, `bitwise.py` | none | encode, decode, compare |
| Schema | `schema.py` | dictionaries of tables, indexes, views, triggers; `sqlite_schema` rows | create, drop, alter, reload |
| VM | `vm.py`, `opcode.py` | registers, cursors, program counter | one handler per opcode |
| Compiler | `compile.py` | none kept, but CREATE TABLE writes pages while it is compiled | one method per kind of statement |
| Lexer, parser, AST | `lexer.py`, `parser.py`, `ast.py` | none | text to trees |
| Functions, virtual tables, shell | `functions/`, `virtualtables/`, `cli.py` | FTS5 keeps an inverted index | |

How they interact, where it matters:

- The VM's `_op_transaction` dispatches on one integer to
  `TransactionManager.begin_write`, `commit`, `rollback`, `savepoint`. The
  opcode that *opens a table for reading* carries the integer it takes for
  "commit".
- `TransactionManager.state` (NONE, READ, WRITE) and `Pager.in_transaction` are
  two variables for one fact, changed by different methods, and
  `Database.execute_params` acts on the first.
- A page allocated by the B-tree writes header fields, and each
  `_write_header_field` flushes *every* dirty page, whether a transaction is
  open or not. So uncommitted pages reach the file at almost any moment, and
  the before-images must exist by then.
- `flush` reads what it writes from the cache, through the set of dirty pages;
  a rollback rewrites the file beneath the cache and empties that set.
- The Pager object copies three freelist fields and the change counter from the
  header when the file is opened, and not again.

What each part must guarantee:

- Pager: the write-ahead rule (a page that reaches the file inside a
  transaction has its old image saved); a rollback, or a commit that fails, puts
  every page back; a commit that returns is in the file; the change counter
  never goes back; a crash harms no page that was not being written.
- Freelist: every page is held by one owner or is once on the list; a crash
  inside an operation never gives a page two owners.
- Statements: what was acknowledged stays, what was rolled back is gone,
  autocommit leaves no transaction behind, and the two variables agree.
- Locks: no writer beside a reader or another writer, and nobody waits for
  ever.
- B-tree: keys in order, found by search and by iteration, no page in two
  places; in a page, no byte used twice.
- Records: decoding undoes encoding.
- Compiler and VM: a statement ends, answers and changes what SQL says; rowids
  are unique; foreign keys hold when a statement is done.
- Schema: dictionaries and `sqlite_schema` rows agree, after a rollback too
  (not modelled yet).

`PROJECT.json` lists the hazards at their lines, with the properties that cover
each, and those no property covers yet.

## 2. Plan

Done: **Pager** against **PageStore**, **Freelist**, **Session** and **Locks**,
each with proofs of all its safety properties; **Page** against **PageCells**,
with proofs of all of them; **Codec** (records and varints), with proofs that what
is written is read back; **BTree**, with proofs of its properties; **Builder**,
**Program**, **Machine** and **Statement** (compiler, VM and foreign keys).

Left, in this order:

1. **Schema**: dictionaries against rows of `sqlite_schema`, under rollback.
2. Index trees in BTree, and indexes in Program.
3. Savepoints as an API (`rollback_to`, `release`), should a statement ever
   reach it.
4. CTEs, views, triggers and window functions in Program and Machine.
5. WAL, as it stands; no statement of the product reaches it.

Session's pager should become an INSTANCE of PageStore once PageStore can
express its commit as one step of several pages, and a table of Machine a tree
of BTree once the damage of BTree is repaired in the code: as it is, every
statement on a table of two leaves would be an exception.

## 3. Modules

| Module | What it is |
|---|---|
| `PageStore` | abstract specification: what the pager promises |
| `Pager` | the cache and journal, write by write; `ImplementsPageStore` |
| `PagerProofs` | inductive invariant of Pager, its safety theorems, and `Spec => ImplementsPageStore` |
| `Freelist` | allocate_page and free_page, write by write |
| `FreelistProofs` | inductive invariant of Freelist and its safety theorems |
| `Session` | statements, autocommit and TransactionManager |
| `SessionProofs` | types, the agreement of the two transaction states, one transaction at a time; what was acknowledged stays, what was rolled back is gone |
| `PageCells` | abstract specification of a page: a sequence of cells |
| `Page` | the bytes of a page: pointers, cells, free blocks; `IsSequenceOfCells` |
| `PageProofs` | inductive invariant of Page, and `Spec => IsSequenceOfCells`, for pages of any size |
| `BTree` | the tree of a table, and a cursor that stays on it |
| `BTreeProofs` | inductive invariant of BTree and its theorems, for any number of keys and any capacities |
| `Codec` | varints, values, records, cells and overflow chains |
| `CodecProofs` | what is written is read back, for any record, base and page size |
| `Locks` | two connections to one file: locks, the journal file, stale caches |
| `LocksProofs` | inductive invariant of Locks and its safety theorems, for any set of connections |
| `Builder` | the compiler's registers, labels and expressions |
| `Program` | the program compiled for each kind of statement; foreign keys of the schema |
| `Machine` | the VM: one action per opcode or group of opcodes, and the commit |
| `Statement` | what SQL says of a statement, and the properties of Machine |
| `Loops` | lemmas on induction, recursive functions, numbers and short sequences, used by four of the modules of proofs |
| `MC...` | for TLC: symmetry sets, constraints, and the cells, records, tables and statements to be tried |

Definitions commented "Mistake:", "Slip:" or "Mutant of" are variants of the
definition after them, with a plausible bug. They are used by no specification;
putting one in the place of the real definition must break the property it is
paired with in `PROJECT.json`, which shows that the property can fail.

### Pager

One connection, and a file of `NumPages` pages, each with an opaque body; page 1
carries the change counter as well. `cache`, `dirty`, `before`, `inTx`,
`journalFd`, `mode`, `counter` are the attributes of the Pager object, `disk`
and `journal` the two files, `vfs` the kind of VFS (writes to `:memory:` never fail,
and its journal handle can still be written after it is closed). `op` and `pending` say which method is
in the middle of which loop: `flush`, the five phases of `commit_transaction`
(flush, finalize the journal, dispose of it, stamp the counter, flush again),
and `rollback_transaction`. One step is one write to a file. Between any two
steps the process may die (`Crash`, `Reopen`), and a write of a flush or a
commit may raise (`FlushError`, `CommitError`).

`saved`, `loose` and `exempt` are history variables. A page is *loose* when it
was written outside a transaction and not flushed since: the code neither
journals it nor protects it, so `exempt`, the pages loose when a transaction
began, are left out of what a rollback owes. In the product CREATE TABLE's
writes at compile time and INSERT ... SELECT's make pages loose.

`Recovered` and `Reopened` transcribe the replay of a hot journal. The replay is
unreachable: the header's page count is written as 0 at the beginning and again
at the end, and never as anything else, so no journal is ever hot.
`ColdInv` in `PagerProofs` proves it.

### PageStore

`view` is what reading returns, `open` whether a transaction is in progress,
`touched` what it wrote. It promises that Rollback leaves every page that was
not loose as it was, that Commit keeps everything, and that a Crash changes only
loose pages and those of the open transaction. It does not promise that a crash
undoes a transaction, because the code does not (finding `pager_crash`). The
refinement mapping takes `view` to `View` (the cache over the disk), `open` to
`inTx`, `touched` to the pages with a before-image.

### Freelist

The list lives in the trunk pages, the header fields and the object's fields.
Each operation of the code is one write of pages and of the first header field
(`AllocateFree`, `AllocateNew`, `FreePage`), batches of a flush (`FlushBatch`),
the second header field (`CountField`) and an end (`AllocateDone`, `FreeDone`).
`Begin`, `Commit` and `Rollback` are atomic here; `Reopen` may come at any
moment, which makes it a crash. `used` is what callers have been given.
`overflowed`, `undone` and `torn` record that a trunk page was full when a page
was freed, that a rollback undid a change of the list, and that an operation
was cut: the properties name which of the three they tolerate. A caller frees
only what it was given and has not freed; the code does not check that.

### Session

A row stands for a change to one page, made once. `INSERTSELECT` stands for every
writing statement that reads another table on the way, `TRIGGERED` for one with
a trigger, `RELEASE` for a statement that only changes `savepoint_stack`. `stmt` holds the opcodes still
to run; `Program` says which ones each kind of statement gets, where `"commit"`
is what opening a table for reading executes. `OpBegin`, `OpCommit`,
`OpRollback`, `OpSavepoint` are the branches of `_op_transaction` composed with
the TransactionManager methods and with an atomic pager; `OpWrite` is one
B-tree write, with or without a flush of everything (whether it allocated).
`Finish` is the autocommit at the end of `execute_params`. `Fail` is an exception
anywhere a statement can raise, after which nothing is undone, and `LoseCommit`
a pager commit that raised. `Reopen` may come between any two opcodes. `odd`
records which of the situations the findings are about have happened; each
property names the ones under which it is not claimed.

### Page and PageCells

A page is an array of *units* of two bytes: a cell pointer, half of a free
block's header, or a piece of a cell. `InsertCell`, `DeleteCell`, the search
for a free block, defragmentation and the filling of the two halves of a split
are functions from page to page, composed as `BTreeCursor` composes them. Cells
are opaque but for the key and the size with which they begin. `damage` names
the four situations in which the code corrupts a page or loses a row, and the
model stops there; `DamageIsReal` shows that two of them do break the layout at
once. A free list kept through a split breaks it only when a block on it is
used, and a cell lost in a split is in neither half. The refinement mapping
takes `cells` to the cells that the pointers lead to, and `damaged` to `~Intact`.
`TypeOK` does not bound the head of a list that was kept through a split: cells
are written over its blocks, their bytes are read as the blocks' sizes, and a
front cut off such a block leaves a head behind the end of the page. No page of
the run is large enough for that; the proof could not do without, and a page of
40 units shows it.

### BTree

A tree is a function from page numbers to nodes, a cursor the stack the code
keeps. `Inserted`, `Deleted` and the splits are the whole operations, from the
leaf up to a new root; `_rebalance_after_delete` is part of `Delete`. `Rewrite`
is an UPDATE's Delete and Insert at the old place. `steady` says that nothing
happened to the tree beside what the cursor did itself: the code's cursors are
not told of changes, and the compiler opens a second one on a table only to
read what nobody writes. `damage` names what the code does to a tree that is no
longer the table it stands for, and the model stops there; `ScanIsTable` is an
equivalence, so that none of the four is claimed in vain.

### Codec

Functions on sequences of bytes, to a base instead of 256 so that all nine forms
of a varint fit into TLC's integers. `Store` writes one row as a cell of a table,
as one of an index, with its overflow pages, and as a divider, and the
properties read all of them back, followed by junk. The readers take the bytes and
an offset, as the code's do, and their loops are recursive functions whose value
at k is the state after k iterations. A text is its length. `RecordsAssumption`
says which rows can be stored: rowids are not negative and, like every length and
every serial type, have at most eight bytes (`encode_varint` raises for others);
integers fit into eight bytes with their sign (`struct.pack` raises for others);
and the overflow pages of one payload have numbers of four bytes.

### Locks

Two connections, each with its TransactionManager, FileHandle, cached page and
before-image, over one file, of which only page 1 is modelled: a COMMIT stamps
the change counter into it, so none goes through without writing it. Its content
is the set of updates made to it. `OSVFS` runs on Windows only, and calls
`LockFileEx` so that it waits. Which byte a level locks depends on the process:

- `_make_overlapped` (`vfs.py:98-111`) declares `Internal` and `InternalHigh` with
  four bytes each. In a 32-bit process that is the layout of Windows, and SHARED,
  RESERVED and EXCLUSIVE lock bytes 0, 1 and 3.
- In a 64-bit process those two fields have eight bytes, so Windows finds its
  offset where the code has put `hEvent`, which is 0: every level locks byte 0
  (`ByteOf`, `wide`). A shared and an exclusive lock of one byte exclude each other
  also on one handle, so a connection that holds SHARED waits for itself. What
  Windows takes for `hEvent` lies behind the structure; should it refuse a call
  for that, only the Pager's refusal matters (`Refused`: BEGIN raises BusyError
  and leaves SHARED locked).

A connection that waits is in the middle of a method; `todo` says which call of
`lock` it is in. Locks of Windows are mandatory, and the locked bytes are bytes of
page 1. So another connection's RESERVED or EXCLUSIVE denies reading the page
(`Readable`), and any lock of another connection, or SHARED of one's own, denies
writing it (`Writable`). A flush or a stamp that is denied the page makes the
COMMIT raise, after a rollback that may be denied it, too (`CommitDenied`,
`CommitUnstamped`); a rollback that raises leaves the journal open (`leaked`), so
that it cannot be deleted as long as that process lives. Deleting it fails as well
while another connection has it open (`CommitUndone`).

BEGIN always begins DEFERRED, whatever its text says, as does every statement:
the opcode calls `begin_write` (`vm.py:1279`). IMMEDIATE and EXCLUSIVE are modes of
`TransactionManager.begin` that programs may use directly, as
`tests/unit/test_transaction.py:136-141` do; `asked` remembers who has. After a failure a
program rolls back (`EndAgain`); what it may do instead is Session's subject.
`stale` is a history variable for `KeepsAcknowledged`. Not modelled are writes
outside a transaction (CREATE TABLE at compile time), and what Windows does with
locks at the end of a process other than to drop them.

### Builder, Program, Machine and Statement

`Builder` is `ProgramBuilder` (registers, constants, labels whose names can
collide) and one recursive operator for expressions. `Program` has an operator
for each clause and each kind of statement, which appends instructions as the
compiler's methods do, and `Compile` resolves the labels. `Machine` runs a
program: `pc`, `regs`, `cursors`, `tables`, `results`, and `after`, which is the
sorting, grouping, HAVING and DISTINCT that the VM applies to all results when
the program has ended. Then comes the commit: `AutoCommit` is
`TransactionManager.commit` with its pass over the foreign keys, and
`DoTransaction` the same for the opcode in the middle of a program.

`Statement` is the abstract specification of both: from the syntax tree alone,
without programs, what a statement answers and leaves (`Answer`, `After`), or
that it is refused. It computes, compares, orders and aggregates by operators of
its own: a sum, difference or product of integers is an integer, NULL is smaller
than every number and sorts there in either direction, and SUM, MIN and MAX of
nothing are NULL. (Machine makes REALs of sums and products, sorts NULL last and
sums nothing to 0, as the code does; a REAL is the integer it equals, shifted by
`RealBase`.) Where the code does something else than `Statement`, an operator whose
name begins with `Odd` says exactly when, and cites the lines; `Promised` is NULL
there. Everything outside the exceptions is promised.

`Programs` and `Promises` are constants assumed to equal `Compiled` and
`Promised`: the model values TLC computes once instead of in every state. The
assumptions are evaluated by each run, and the cfg gives no other value than
these definitions.

## 4. What the runs show

| Run | Bounds | Distinct states | Shows |
|---|---|---|---|
| `pager` | 2 pages, 2 bodies, counter to 2, 1 image left in the journal when a transaction begins | 639 000 | the seven properties below |
| `freelist` | 4 pages, 1 leaf per trunk | 128 000 | TypeOK, FreelistSound, ListIsDurable, CrashOnlyLeaks |
| `session` | 2 pages, 2 rows | 591 000 | KeepsAcknowledged, UndoesRolledBack, OneTransaction, StateAgrees |
| `page` | 15 units, header of 4; three keys, one of them with cells of two sizes; split margins 0 and 2 | 8 100 | TypeOK, NothingOverlaps, DamageIsReal, IsSequenceOfCells |
| `btree` | 6 keys, leaves split at 4 cells, interior pages at 3 | 29 400 | TypeOK, SearchTree, ScanIsTable, SeekFinds, LastIsLast, ScanMovesOn |
| `codec` | base 20, pages of 48 bytes | 2 200 | IntegersReadBack, RecordsReadBack, RowsReadBack, IndexReadsBack |
| `locks` | 2 connections, 2 updates known to a writer, 32-bit and 64-bit | 336 000 | OneAtATime, KeepsAcknowledged, HangsOnItself, StatementsNeverCommit, WaitEnds |
| `machine` | 12 tables of up to 4 rows, 3 databases, 387 statements | 39 400 | TypeOK, RowidsUnique, AnswerRight, TableRight, KeysHold, Completes |
| `pager_crash`, `freelist_full`, `session_failure`, `machine_chain` | as above | stop at the violation | the findings of section 5 |

The type invariants of Session and Locks are proved for every value of the
constants (section 6), so the runs do not check them again.

**pager.** `JournalCovers` is the write-ahead rule, `CacheCoherent` that every
dirty page can be flushed and no other differs from the file,
`RollbackRestores` that a rollback or a failed commit ends with the old pages,
`CommitDurable` that a commit that returns is in the file under a new counter,
`CounterNeverDecreases` that the file's counter never goes back, through
failures and crashes too, and `ImplementsPageStore` the refinement. Two pages suffice
because each property relates one page's copies to one another, and page 1,
which is special, to another one; adjacency (one batch or two) needs two. Two
bodies tell old from new. Two commits after the first state show a counter used
twice; one old image in a journal shows that leftovers are kept. The theorems
remove these bounds.

**freelist.** Four pages give a trunk, a leaf, a page in use and the header, with a
second trunk when the first is full. One leaf per trunk makes "last leaf", "empty
trunk" and "full trunk" happen at once; five pages and two leaves were also
checked (4.9 million states). The constraint `Unspoilt` checks states after an overflow
or a rolled-back change but does not continue from them: no property of this run
claims anything there, and the fields then drift without bound.

**session.** Two pages suffice for one dirty and one flushed, or one journaled
and one not; two rows for one acknowledged and one that is not. Three rows were also
checked. Every kind of statement may follow every other.

**page.** Fifteen units hold three cells and their pointers with a unit or two
to spare, or fewer cells with free blocks between them, so that free blocks are
reused whole, cut, left with too little behind for a header, and given up when
the page is defragmented. One key with two sizes makes a row return larger or
smaller, and a large one and its neighbour can be too much for half of a split.
Margins 0 and 2 are an interior page and a leaf. All four kinds of damage are reached; pages of
fourteen units with cells of other sizes were checked as well (18 900 and 21 000
states).

**btree.** Six keys and these capacities give a root that moves, two interior
levels, and leaves emptied first, last and in the middle. `ScanMovesOn` says
where a cursor that stands on a row is after the step of each kind of statement:
a SELECT's Next always comes to the next larger row; a DELETE goes on from where
the deletion left the cursor, which is right exactly if the row was not the last
of a leaf with more behind it (`OddDelete`); and an UPDATE, which deletes, inserts
and calls Next, exactly if the leaf was neither emptied nor split in between so
that the cursor lost its place (`OddRewrite`). `steady` only says that nobody else
changed the tree since the cursor was positioned; it is part of the premise, and
whatever the step itself does is in the conclusion.

**codec.** With base 20 the nine forms of a varint begin at 0, 5, 164, 564 and
then at powers of 20; `MCRowids` and `MCRecords` have values on both sides of
each, of each width of a signed integer, and of a payload that fills a page, or
one, two or three overflow pages.

**locks.** Two connections are enough for one to wait for the other, to commit
while the other waits with the journal open or with a page in its cache, and to keep
a lock or a journal that is in the other's way. Two updates let one connection
commit, and write again to what it has cached, or each commit one. The safety properties
are proved for any number of both. Both layouts of OVERLAPPED are in the one run.

`problems.md:22-29` and `289-297` report that `LockFileEx` "hangs", for which the lock
tests are skipped (`tests/unit/test_vfs.py:183`). `HangsOnItself` says when: in
a 64-bit process BEGIN waits for the SHARED lock that the same BEGIN took, and
COMMIT for its own transaction's lock unless that is EXCLUSIVE; in a 32-bit process
no connection ever waits for itself. The note's last sentence, "Not blocking any SQL
functionality", is not so: `StatementsNeverCommit` says that no change of the
header page made by SQL statements alone ever gets into a file that `OSVFS` has
locked, in a 64-bit process since BEGIN hangs, in a 32-bit one since its SHARED
lock denies the COMMIT the page. `WaitEnds` says that every other wait ends: in 32-bit
processes all of them, in 64-bit ones all that no connection is in the way of which
waits for itself or has kept SHARED (`InTheWay`).

**machine.** `AnswerRight` and `TableRight` compare what the program computed
with `Statement`'s reference; `RowidsUnique` looks between any two opcodes;
`KeysHold` says that no statement which is done leaves a row without its parent;
`Completes` that a statement ends as promised, done or refused. The statements
are every WHERE built from a few atoms by AND, OR and NOT, and for each clause and
each form the cases that the compiler tells apart; the tables have NULLs,
duplicates, gaps in the rowids and no rows. All foreign-key statements, and most
of the others, were also executed by the Python code on the same tables, with
the model's results.

**Deadlock** is checked in every run but five: a statement of `machine` ends and
`codec` stores one row, and then nothing is left to do; `page` and `btree` do not
follow a damaged page or tree any further; and in `locks` connections of 64-bit
processes hang, which is what `HangsOnItself` and `WaitEnds` are about.

**Fairness and liveness.** The program is sequential: a call runs to its end or
raises, and no caller is obliged to make another. So there is liveness in two
places only. `Completes` assumes WF of Machine's `Step`, since `VM.run` is a loop
that nothing interrupts. `WaitEnds` assumes that a program ends the transactions
it begins (WF of `Ends`: in autocommit every statement does, in `execute` itself;
after a failure it rolls back) and that Windows serves a waiter of a lock that is
free again and again (SF of `Proceeds`); it claims nothing where a connection of a
64-bit process is in the way (`InTheWay`). No other specification assumes fairness.

**Symmetry** is used where values are only copied and compared: page bodies in
Pager, pages in Session. Page numbers in Pager and Freelist are ordered and
not symmetric. Locks has a liveness property and uses none.

## 5. Findings

Each is a run that TLC must find violated, because the code does what the model
does and a document of the repository says otherwise.

| Run | What happens |
|---|---|
| `pager_crash` | A crash inside a transaction is never undone: the journal's page count stays 0, so no journal counts as hot. |
| `freelist_full` | Freeing a page when the trunk page is full makes the old trunk both the successor and a leaf of the new one; it is handed out twice. |
| `session_failure` | A statement that fails in autocommit mode leaves its transaction open; the statements after it join it silently, and are not committed when they return. |
| `machine_chain` | `a AND b AND c` never ends: the labels of the two ANDs get one name, and the jump of the inner one goes back into it. |

The passing properties are stated so as to hold around the code's other
departures: they say what can be relied on, and name the circumstances in which
it cannot.

- *Pager, Freelist, Session.* A commit of a transaction that did not write page 1
  raises after its journal is deleted, because stamping the counter journals
  page 1 through the closed handle (`pager.py:525`). A rollback restores the pages
  and not the pager's freelist fields (`pager.py:555`): `undone` in FreelistSound.
  A SELECT inside BEGIN ... ROLLBACK commits what came before it (`vm.py:1277`), and
  INSERT ... SELECT commits its own transaction before it writes
  (`compile.py:1777`): `odd` in Session.
- *Page.* A cell that leaves no room for its own pointer is accepted
  (`btree.py:136`); the span of a cell reaches over the free blocks behind it, which
  are freed a second time with it (`btree.py:112`); a split keeps the list of free
  blocks of the page it has emptied (`btree.py:760`), and loses the cells that do
  not fit into their half, as nobody looks at what `insert_cell` returns
  (`btree.py:768`, and 865 for an interior page). Rows of 400, 400, 2500 and 2500
  bytes, inserted in this order into a table, leave three rows.
- *BTree.* The leaf that a split of a full parent makes is linked into neither
  half; `last()` goes down the left side, so that an INSERT repeats a rowid once
  there are two levels; a leaf emptied at the right end leaves its parent
  without a right child, and scans raise; one emptied at the left, beside a
  single other, discards that one. A search for a key that divides two leaves
  claims to have found it and stands at the end (`OddSeek`). A DELETE over several
  leaves ends behind the first leaf whose last row it deletes: there `_op_Rowid` gives
  NULL (`vm.py:834`), which the program takes for the end of the table
  (`compile.py:2095-2096`), so that `DELETE FROM t` leaves the rows of all later
  leaves (`OddDelete`). An UPDATE that makes rows grow goes on in a leaf that was
  split under it: it ends too early, or goes back to rows it has been to (`OddRewrite`).
- *Codec.* An index entry longer than a page holds is written without overflow
  pages and read as if it had them.
- *Locks.* The layout of OVERLAPPED, and what follows of it and of mandatory locks
  (`vfs.py:98`, `pager.py:525`): section 4. A connection never drops a page when another
  one commits, and overwrites that commit when it writes to the page; it also keeps
  a page that its denied rollback could not put back (`stale`). A connection that is idle
  after a COMMIT keeps SHARED, which denies everybody's writes of page 1. Deleting the
  journal fails while another connection waits in BEGIN with the journal open: the
  commit is undone. In 32-bit processes a transaction begun EXCLUSIVE, through
  `TransactionManager.begin`, does not exclude the others.
- *Statement.* Each of these is an `Odd` operator with its lines: chains of AND
  and OR, comparisons with NULL; the sum and the product of two integers is a REAL,
  in answers and in rows, unless the compiler folds two literals (`vm.py:601, 625`;
  `problems.md:319-325` calls the same a bug in Subtract, and fixed); ORDER BY puts NULL
  last, also ascending, although `vm.py:216` says that NULL is smallest; SUM of only
  NULLs is 0; an aggregate over no row gives no answer row; LIMIT and OFFSET before
  ORDER BY, DISTINCT and groups; two ORDER BY keys; groups that are not the first
  columns; joins with an empty table, with a third, LEFT JOIN with
  WHERE; a key sought as if it were the rowid; subqueries with more than columns
  and WHERE; a rowid made although the key is given; NOT NULL with 0; INSERT
  ... SELECT with WHERE; UPDATE of an empty table, or of one with an INTEGER
  PRIMARY KEY. These are for tables of one leaf; what a statement meets in
  more is under *BTree*.
- *Foreign keys* (`OddKeys`). The pass at commit treats an orphan as if its parent
  had been deleted, so a child inserted without a parent is not refused but
  deleted, or set to NULL, if its key says ON DELETE CASCADE or SET NULL; the rows
  that refer to a repaired row wait for the next commit; SET DEFAULT does not
  ask whether the default has a parent; a key into an INTEGER PRIMARY KEY looks
  into a record that does not hold it; ON UPDATE moves a child twice if a new
  key equals the old one of another row, and takes NULL to equal NULL; INSERT
  ... SELECT has committed before it writes. A refused statement leaves the
  transaction open, and each later statement, a SELECT too, raises again.

## 6. Proofs

`PagerProofs` proves, for every number of pages, every set of bodies and both
bounds, under the assumptions named in `Pager`
(`NumPagesAssumption`: there is a page 1; `NoImageAssumption`: "no entry" is not
a content; `BoundsAssumption`: the bounds are numbers):

| Theorem | States |
|---|---|
| `TypeCorrect` | `Spec => []TypeOK` |
| `WriteAhead` | `Spec => []JournalCovers` |
| `Coherence` | `Spec => []CacheCoherent` |
| `RollbackSafe` | `Spec => RollbackRestores` |
| `Durability` | `Spec => CommitDurable` |
| `CounterGrows` | `Spec => CounterNeverDecreases` |
| `Refinement` | `Spec => ImplementsPageStore` |

None of the properties is inductive. That a rollback ends with the old pages
needs to know, while it runs, that the pages already done are right and the
others still have their before-image; that the write-ahead rule survives a flush
needs to know that whatever is dirty and not loose has been journaled; and so
on. The inductive invariant is

    IInv = TypeOK /\ ControlInv /\ DirtyInv /\ CoherentInv /\ ProgressInv /\ CoverInv

`ControlInv` says what each value of `op` implies about the object, `DirtyInv`
that dirty pages are cached and a transaction makes no page loose, `CoherentInv`
where a cached page may differ from the disk, `ProgressInv` how far the running
loop has got, `CoverInv` the write-ahead rule in terms of the variables. The
refinement and the two theorems on the counter need

    RInv = IInv /\ ColdInv /\ CountInv /\ LooseInv

`ColdInv` says that no journal is hot, `CountInv` how the object's counter, the
header in the cache, on disk and among the before-images are ordered in each phase, and
`LooseInv` that a page is touched or exempt whenever the crash may change it.
`StoreStep` then maps every step of Pager to a step of PageStore or a stutter.

`SessionProofs` proves, for any set of pages and any number of rows
(`MaxRowsAssumption`):

| Theorem | States |
|---|---|
| `TypeCorrect` | `Spec => []TypeOK` |
| `Agreement` | `Spec => []StateAgrees` |
| `SingleTransaction` | `Spec => []OneTransaction` |

`StateAgrees` is inductive as it stands. `OneTransaction` speaks only of the
moments between statements; its invariant `OneInv` adds which opcodes a statement
of each kind can still have to run (`OpsInv`), and what the state is meanwhile
(`PhaseInv`): that of the user, unless the statement is one that changes it or
one autocommit will end.

The two promises to the user rest on those invariants:

| Theorem | States |
|---|---|
| `Keeps` | `Spec => []KeepsAcknowledged` |
| `Undoes` | `Spec => []UndoesRolledBack` |

`KeepInv` holds as long as nothing happened after which rows may be lost
(`Lossless`). `WhereInv` says what the state is while a statement of each kind has
these opcodes left, `CleanInv` that a page which is not dirty is as in the file
and a dirty one has a before-image, and `StayInv` that the acknowledged rows are
the same in the page, its before-image and the file. `UndoInv` says the opposite of
the rows of the user's transaction: they are only in pages that have an image,
and not in the image; and those that were rolled back are nowhere. `ShapeInv` and
`RowsInv` hold the bookkeeping. TLC checked the invariants with two pages and two
rows (1.1 million states) before they were proved.

`LocksProofs` proves, for any finite set of connections and any number of
updates:

| Theorem | States |
|---|---|
| `TypeCorrect` | `Spec => []TypeOK` |
| `Exclusion` | `Spec => []OneAtATime` |
| `Acknowledged` | `Spec => []KeepsAcknowledged` |
| `Hangs` | `Spec => []HangsOnItself` |
| `NeverCommitted` | `Spec => []StatementsNeverCommit` |

The invariant says which locks a connection holds at each point of each method
(`HoldsLevel`, `CallFits`); that two locks of one byte are both SHARED or the same
one (`ExclusiveInv`); that a connection which has only executed statements has SHARED
from its first BEGIN on, and gets no further in a 64-bit process (`KeepsShared`); who
made the updates in the caches and before-images (`KnowsAuthors`), from which
`StatementsNeverCommit` is inductive; and that what was acknowledged is in the file,
and in both pages of everybody who is about to write one of them over the file, until
a connection writes to a page that is not the file's (`KeepsInv`).

`FreelistProofs` proves, for any number of pages and of leaves per trunk:

| Theorem | States |
|---|---|
| `TypeCorrect` | `Spec => []TypeOK` |
| `ListStaysSound` | `Spec => []FreelistSound` |
| `ListInFile` | `Spec => []ListIsDurable` |
| `NoPageToTwo` | `Spec => []CrashOnlyLeaks` |

`FreelistSound` speaks of a moment between operations, and of what a walk along
the trunk pages finds. The invariant `FreeInv` holds at every flush, until a trunk
page overflowed or a change of the list was undone. Its surprising part is that
until then the list has a single trunk page: the code makes a second one only
by overflowing, as it looks for room in the first alone. So `ListInv` says that
no page names a successor, that no page is twice on the list, neither in the
cached pages nor in the file, and how the file lags behind; `HeldInv` that no page
on the list is held; `ImageInv` that a rollback would bring back such a list;
`CountInv` that the count is right and no page is lost unless an operation was
cut. The walk `Trunks` is a recursive function, and that it finds the one
trunk is an induction. The library's induction theorems take an operator, which
the provers cannot instantiate; module `Loops` uses sets instead: lemma `Least` gives
a non-empty set of numbers its least element, and lemma `Induction` says that a
set which holds 0 and with each number the next one holds all up to a bound. On
these rest `Recursion`, that a function exists whose value at n is a given step
from that at n - 1, and `SameLoop`, that two functions with the same start and the
same steps are the same. TLC
checked `FreeInv` with four pages and two leaves (149 000 states).

`PageProofs` proves, for pages of any size and any set of cells, under
`SizesAssumption` (a header fits into a page, a free block's header is two units,
and no cell is smaller than that or larger than a page):

| Theorem | States |
|---|---|
| `TypeCorrect` | `Spec => []TypeOK` |
| `UnitsUsedOnce` | `Spec => []NothingOverlaps` |
| `PageIsSequenceOfCells` | `Spec => IsSequenceOfCells` |
| `ReportedDamageIsReal` | `Spec => []DamageIsReal` |

The invariant `LayoutInv` says that an intact page is laid out: there is a sequence
of free blocks, linked in its order, and pointers, cells and blocks lie apart, the
pointers before the content area and the rest in it. `NothingOverlaps` alone is
not inductive: `DeleteCell` frees what lies between a pointer and the next higher
one, so the proof must know that no block lies there (else the page reports
"freed twice") and that every cell is whole in its span; `FreeblockAlloc` writes
through the list as the walk finds it, so the walk must be that sequence and end.
`Layout` is stated with the sequence as a witness, and each way to allocate names
the next witness: the block's own sequence (`Grown`), one block replaced by its rest
(`CutBlock`), one left out (`TakeBlock`), one put in front (`CellDeleted`), none
(`DefragmentLayout`). Defragmentation and the filling of a split's lower half are
recursive functions; a stack invariant (`Descends`, `Carries`, `Packed`) is carried
along them by induction with sets, as in `FreelistProofs`. That they never run
out of page is counted: the spans of the cells are disjoint, so together they are
no longer than the content area (`CoveredCount`). A page that keeps its list
through a split is filled over blocks that no longer are any; of it the proof shows
only that it stays a page. TLC checked `LayoutInv` on the run's page.

`DamageIsReal` does not follow from `LayoutInv`: were there unused space where the
content area begins, a pointer written there would destroy nothing. `EdgeInv` adds
`Edge`: a cell, a free block or the end of the page begins there. Each step keeps
it, for the content area only ever grows by the cell that is then put at its edge
(`SpacedEdge`, `PutEdge`), a deleted cell's place becomes a block (`DeleteEdge`), and
packed cells end there (`PackedEdge`). So a page that reports "pointer over content"
or "freed twice" has a pointer to a word, a free block among the pointers, or one
free block within another (`Clash`); and two uses of one unit make the uses
outnumber the units in use (`TwoUses`). TLC checked `EdgeInv` on the run's page.

`CodecProofs` proves, for bytes of any even base above 16, pages of any size above
16, and any rows that satisfy `RecordsAssumption` (256 and the code's page sizes
and limits among them):

| Theorem | States |
|---|---|
| `IntegersAreReadBack` | `Spec => []IntegersReadBack` |
| `RecordsAreReadBack` | `Spec => []RecordsReadBack` |
| `RowsAreReadBack` | `Spec => []RowsReadBack` |
| `EntriesAreReadBack` | `Spec => []EntriesReadBack` |

Here the invariant is plain (`StoredInv`: the cells are those of the row) and the
work is in the operators. What is written is a concatenation; `Held(s, offset, e)`
says that the bytes e are among the bytes s at an offset, and lemma `HeldJoined`
takes a concatenation apart. `NumberHeld` reads a number from its digits, by
induction over them; `SignedRead` a negative one, whose digits are those of its
twos complement because division rounds down; `VarintHeld` goes through the four
forms of a varint, the long one of as many bytes as the number needs
(`LongSizeFits`). `ValueReadable` goes through the kinds of values. The three loops
are compared, iteration by iteration, with the list of states they should go
through (`TypesRead`, `ValuesRead`, `ChainRead`), by `SameLoop`. The chain's case is
arithmetic on the last page: how many pages a payload needs, and that each but
the last is full (`ChainIs`). The boundaries at which the run tries these (each
length of a varint, each width of an integer, a page, two overflow pages) are
so proved for every base and page size.

`EntriesReadBack` is the part of `IndexReadsBack` that is true of every payload. The
rest, that a longer entry is *not* read back, is only model-checked, and holds for
the run's records: an entry whose payload happens to contain the number of an
overflow page of the same contents at the right place would be read.

`BTreeProofs` proves, for any number of keys and any capacities of leaves and interior
pages (`CapacityAssumption`: a leaf holds a key and splits with the next but one, an
interior page holds a divider):

| Theorem | States |
|---|---|
| `TreeTypeCorrect` | `Spec => []TypeOK` |
| `TreeStaysSearchTree` | `Spec => []SearchTree` |
| `SeekIsRight` | `Spec => []SeekFinds` |
| `LastNeedsLeaf` | `Spec => []LastIsLast` |
| `ScanTellsDamage` | `Spec => []ScanIsTable` |
| `ScanMovesOnRows` | `Spec => ScanMovesOn` |

The properties walk over the tree; the invariant `TreeInv` names what the walks find.
A sound tree is given by three lists: `L`, the keys of each leaf from left to right, `K`,
the page each leaf is on, and `D`, the keys that divide them. `InTree` says that the
pages are these and no others, `Ordered` that the keys ascend in each leaf and from
leaf to leaf, `Fits` that no page is too full, `Holds` that the keys are `rows`, and
`InPlace` that a steady cursor is on a key or at the end. That a sound tree has a
single interior page at most is part of `InTree`, and a fact about the code: the first
split of an interior page loses a leaf. Of a damaged tree the invariant keeps
that its pages are not too full (`PagesFit`), which is what `TypeOK` asks of it.

Each operation gives the lists of its new tree. An insertion that fits puts a key
into `L[i]` (`PutTreeIs`); one that splits a leaf replaces one entry of each list by
two (`SplitTree`, `SplitOrdered`, `SplitHolds`), under a new root if there was only
the leaf; a deletion that empties a leaf takes an entry out (`DropTree`,
`DropOrdered`). `InsertKeeps` and `DeleteKeeps` sum this up, and `Rewrite` is one
after the other (`RewriteInv`). For reading, `Walked` shows that the recursive way
down ends at a leaf, and `WayIs`, `DescendIs` at which one; `AdvanceIs` where `Advance` goes from
each place. That a scan reads the keys of all the places behind its first follows
from `HasCourse` and `ScanIs`: there are no more keys than a scan has steps, so
it comes to the end, and by then it has been to every key there is. TLC checked
`TreeInv` in all states of the run.

`ScanMovesOn` is about the tree and the cursor after a step. `RowsBehind` says
where the next larger row is (in the same leaf, at the beginning of the next, or
nowhere) and `MovedIs` what it is to have come to it. For Next that is
`NextMoves`, by `AdvanceIs`. Delete leaves the cursor at the deleted row's place, in
the tree of `DropTree` or of the shorter leaf (`DeleteMoves`). An UPDATE puts the
row back at its old place (`PutBack`), in a leaf that is split if it is too full
(`SplitMoves`); Next then works in the new tree with the old stack, which `AloneMoves`
and `BehindMoves` follow.

That is one half of `ScanIsTable` (`ScanReadsTable`). The other, that none of the
four damages is claimed in vain, is the invariant `DamageShows`. No operation goes
on with a damaged tree, so what counts is the step that does the damage, and the
tree it leaves. A scan that ends lists no set if it comes to a key twice in a
row or misses one of the set (`Unlisted`). Emptying the last leaf leaves a
scan that never ends, or a tree of one leaf of two in which it reads nothing
(`LastEmptied`, `OneDiscarded`, `BadlyEmptied`). The split of an interior root gives
a tree of three levels, whose ways down lead to the old leaves only; so a scan
never comes to the leaf that was just cut off, nor to a key of it (`RaisingIs`,
`ThreeLevels`, `UnlinkedKey`). A rowid that is given twice was the first of the last
leaf (`TakenIs`): the scan comes to it twice (`TwinListed`), also where the leaf of
it is divided (`DoubledDivided`) or linked twice in a split root (`DoubledRaised`),
or it misses another key (`DoubledUnlinked`).

Only model-checked so far:

- `TypeOK`, `RowidsUnique`, `AnswerRight`, `TableRight` and `KeysHold` of Statement.
  Builder, Program, Machine and Statement recurse over expressions and plans with
  RECURSIVE operators, which the prover cannot take; and none of the five is true
  of every program, only of those that are compiled.
- The other half of `IndexReadsBack`, as said above.
- What is temporal under fairness: `Completes` and `WaitEnds`.

## 7. What is abstracted, and assumed

- One connection, but in Locks, which has page 1 only. A lock may be refused when a transaction begins
  (`BeginBusy` in Pager, `Fail` in Session); otherwise locks are granted.
- A crash is the death of the process: what `write` was given survives, what was
  not written is gone, and one write call is atomic. The loss of unsynced writes
  with the machine is not modelled. Crashes are in Pager, Freelist and Session;
  what a crash makes of a tree that is being split follows from
  `ImplementsPageStore` (some of the pages are old) and is not modelled in BTree.
- I/O errors strike in flush and commit, not in the writes of a rollback, nor in
  Freelist. A rollback that raises half way is not modelled.
- In Codec a column is not a bool: `serial_type` makes False a NULL
  (`record.py:20-21`), but the VM makes an integer of each bool (`vm.py:34`).
- The order in which a rollback restores pages (that of their first write) is
  left open: any order.
- Pages are neither added nor removed in Pager; Freelist has that.
- Cache eviction and pins, `Pager.close` and WAL are left out: eviction skips dirty
  pages and changes nothing a reader sees, `Database.close` closes the file handle
  and does not call `Pager.close`, and no statement turns WAL on, since the mode
  PRAGMA stores equals none of the values the pager compares with.
- Freelist stops where the code would take a page in use for a trunk page, since
  what it then does depends on the bytes in it.
- In Session savepoint names are left out: no statement's effect on pages
  depends on them (ROLLBACK TO is compiled as ROLLBACK, and the branch for
  `rollback_to` is never emitted). Page 1 is left out too; `LoseCommit` stands
  for the failure of stamping the counter.
- Page measures in units of two bytes: an odd number of bytes left over in a page
  does not occur. Fragments of one to three bytes are one unit.
- In BTree a page is full at a number of cells, not of bytes; which sizes lead
  to it, and the cells that a split of unequal ones loses, are Page's. Overflow pages are Codec's, and are never freed by the code.
- In Machine and Statement values are NULL, integers and REALs without a fraction,
  between -500 and 500; a table is one leaf of
  its tree and has neither indexes nor triggers, and a statement begins outside
  a transaction. No table refers to itself (`ForeignKeysAssumption`): the order in
  which the code visits rows it is changing would matter then.
- Bounds: `MaxCounter` stops commits at a counter value, `MaxJournal` stops a new
  transaction when a kept journal holds that many images already, `MaxPages`,
  `MaxLeaves` and `MaxRows` bound the file, a trunk page and the rows written,
  `MaxUpdates` the updates that a writer knows of, `LastKey` the keys of a tree.

Not modelled, and why:

- The lexer, parser and syntax tree (sequential functions from text to trees that
  unit tests reach), SQL functions and JSON paths (pure), and the shell (input
  and output).
- The schema's dictionaries and `sqlite_schema`, and the DDL statements: in the
  plan. Program takes a schema as given.
- Views, CTEs, triggers, window functions, EXPLAIN and indexes in the compiler
  and the VM: in the plan.
- Virtual tables: FTS5 keeps an inverted index in ordinary tables, the others
  keep no state.
- WAL, `rollback_to`, `bulk_insert`, `prev` and MemoryVFS: no statement reaches
  the first three, no opcode that calls the fourth is ever emitted, and the last
  keeps byte arrays for one process.
