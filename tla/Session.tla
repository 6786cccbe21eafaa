------------------------------- MODULE Session -------------------------------
(***************************************************************************)
(* One connection's statements and its transaction: Database.execute       *)
(* (pysqlite/__init__.py), the Transaction opcodes the compiler gives each *)
(* statement (compile.py, vm.py) and TransactionManager (transaction.py),  *)
(* over a pager whose begin, commit and rollback are atomic here and       *)
(* modelled step by step in module Pager.                                  *)
(*                                                                         *)
(* What a statement writes, or deletes, is abstracted to a "row": a change *)
(* of one page, made once.  Left out are page 1, the names of savepoints,  *)
(* and of the pass over the foreign keys a commit makes all but that it    *)
(* may raise; what begins a transaction may be refused a lock.             *)
(***************************************************************************)
EXTENDS Naturals, Sequences, FiniteSets

CONSTANTS Page,      \* pages of tables
          MaxRows    \* bound: rows ever written

ASSUME MaxRowsAssumption == MaxRows \in Nat

Row == 1..MaxRows

VARIABLES
  state,       \* TransactionManager.state
  \* the pager: rows in a page to a reader, and in the file; dirty_pages,
  \* in_transaction, and _before_images (a function on the imaged pages)
  view, disk, dirty, inTx, before,
  \* the statement being executed: its kind, the opcodes still to run,
  \* was_in_tx, the rows it wrote so far; "idle" between statements
  stmt,
  \* history: has the user begun a transaction and not ended it; the rows the
  \* statements that returned wrote in it; the rows of statements that
  \* returned outside one, and of transactions whose COMMIT returned; the rows
  \* of transactions the user rolled back; the rows written; what unusual
  \* thing has happened
  explicit, inside, acked, undone, written, odd

pager   == <<view, disk, dirty, inTx, before>>
history == <<explicit, inside, acked, undone, odd>>
vars == <<state, pager, stmt, written, history>>

\* What the compiler emits; a write stands for all the rows the statement
\* writes to one page.  Every way of reading a table starts with the opcode
\* that VM executes as a commit.
SelectProgram == <<"commit">>
InsertProgram == <<"begin", "write">>
UpdateProgram == <<"begin", "write">>
DeleteProgram == <<"begin", "write">>

\* The table read is opened after the table written, with the same opcode; so
\* is the table of a subquery in any statement that writes.
InsertSelectProgram == <<"begin", "commit", "write">>

\* The program of an AFTER trigger is run after the statement's own, and that of
\* a BEFORE trigger before it.
TriggeredProgram == InsertProgram \o InsertProgram

\* The pages are written while the statement is compiled, ahead of its program.
CreateTableProgram == <<"write", "begin">>

Program ==
  [ BEGIN        |-> <<"begin">>,
    COMMIT       |-> <<"commit">>,
    ROLLBACK     |-> <<"rollback">>,
    SAVEPOINT    |-> <<"savepoint">>,
    RELEASE      |-> <<>>,   \* only savepoint_stack changes
    SELECT       |-> SelectProgram,
    INSERT       |-> InsertProgram,
    UPDATE       |-> UpdateProgram,
    DELETE       |-> DeleteProgram,
    INSERTSELECT |-> InsertSelectProgram,
    TRIGGERED    |-> TriggeredProgram,
    CREATETABLE  |-> CreateTableProgram ]

Kind == DOMAIN Program

Idle == stmt.kind = "idle"
NoStatement == [kind |-> "idle", ops |-> <<>>, wasInTx |-> FALSE, rows |-> {}]

Init ==
  /\ state = "NONE"
  /\ view = [p \in Page |-> {}] /\ disk = view /\ dirty = {}
  /\ inTx = FALSE /\ before = <<>>
  /\ stmt = NoStatement
  /\ explicit = FALSE /\ inside = {} /\ acked = {} /\ undone = {}
  /\ written = {} /\ odd = {}

Rows(f) == UNION {f[p] : p \in Page}

-----------------------------------------------------------------------------
(* The pager *)

\* The pages in f with every before-image put back.
Restored(f) == [p \in Page |-> IF p \in DOMAIN before THEN before[p] ELSE f[p]]

PagerBegin == inTx' = TRUE /\ before' = <<>> /\ UNCHANGED <<view, disk, dirty>>

\* Mistake: the dirty pages are forgotten, not written.
PagerCommit_NoFlush ==
  IF inTx
  THEN /\ dirty' = {}
       /\ inTx' = FALSE /\ before' = <<>>
       /\ UNCHANGED <<view, disk>>
  ELSE UNCHANGED pager

\* Nothing is done without a transaction.
PagerCommit ==
  IF inTx
  THEN /\ disk' = [p \in Page |-> IF p \in dirty THEN view[p] ELSE disk[p]]
       /\ dirty' = {}
       /\ inTx' = FALSE /\ before' = <<>>
       /\ UNCHANGED view
  ELSE UNCHANGED pager

\* Mistake: the pages stay as they are for readers.
PagerRollback_KeepsView ==
  IF inTx
  THEN /\ disk' = Restored(disk)
       /\ dirty' = {}
       /\ inTx' = FALSE /\ before' = <<>>
       /\ UNCHANGED view
  ELSE UNCHANGED pager

\* All pages lose their dirty mark, those without a before-image as well.
PagerRollback ==
  IF inTx
  THEN /\ disk' = Restored(disk) /\ view' = Restored(view)
       /\ dirty' = {}
       /\ inTx' = FALSE /\ before' = <<>>
  ELSE UNCHANGED pager

-----------------------------------------------------------------------------
(* TransactionManager *)

BeginWrite ==
  /\ state' = "WRITE"
  /\ IF state = "NONE" THEN PagerBegin ELSE UNCHANGED pager

\* Mistake: the state stays when there was nothing to commit.
TxCommit_KeepsRead ==
  \/ state = "NONE"  /\ UNCHANGED <<state, pager>>
  \/ state = "READ"  /\ PagerRollback /\ UNCHANGED state
  \/ state = "WRITE" /\ PagerCommit /\ state' = "NONE"

\* A transaction in state READ, which savepoint began, is rolled back.
TxCommit ==
  \/ state = "NONE"  /\ UNCHANGED <<state, pager>>
  \/ state = "READ"  /\ PagerRollback /\ state' = "NONE"
  \/ state = "WRITE" /\ PagerCommit /\ state' = "NONE"

TxRollback ==
  IF state = "NONE" THEN UNCHANGED <<state, pager>>
  ELSE PagerRollback /\ state' = "NONE"

\* savepoint() begins a transaction, of state READ, if there is none.
TxSavepoint ==
  IF state = "NONE" THEN PagerBegin /\ state' = "READ"
  ELSE UNCHANGED <<state, pager>>

-----------------------------------------------------------------------------
(* The statement: Database.execute_params and VM.run *)

Execute(kind) ==
  /\ Idle
  /\ stmt' = [kind |-> kind, ops |-> Program[kind], wasInTx |-> state # "NONE",
              rows |-> {}]
  /\ odd' = odd \cup (IF kind = "SELECT" /\ explicit THEN {"SELECT"}
                      ELSE IF kind \in {"INSERTSELECT", "SAVEPOINT"} THEN {kind}
                      ELSE {})
  /\ UNCHANGED <<state, pager, written, explicit, inside, acked, undone>>

At(op)  == ~Idle /\ stmt.ops # <<>> /\ Head(stmt.ops) = op
Advance == stmt' = [stmt EXCEPT !.ops = Tail(@)]

OpBegin     == At("begin")     /\ BeginWrite  /\ Advance /\ UNCHANGED <<written, history>>
OpCommit    == At("commit")    /\ TxCommit    /\ Advance /\ UNCHANGED <<written, history>>
OpRollback  == At("rollback")  /\ TxRollback  /\ Advance /\ UNCHANGED <<written, history>>
OpSavepoint == At("savepoint") /\ TxSavepoint /\ Advance /\ UNCHANGED <<written, history>>

\* A row is written to a page; a write that has to allocate a page flushes
\* everything dirty (module Freelist).
OpWrite(p, flush) ==
  LET r == Cardinality(written) + 1 IN
  /\ At("write")
  /\ r <= MaxRows
  /\ view' = [view EXCEPT ![p] = @ \cup {r}]
  /\ before' = IF inTx
               THEN [q \in DOMAIN before \cup {p} |->
                       IF q \in DOMAIN before THEN before[q] ELSE disk[q]]
               ELSE before
  /\ IF flush
     THEN /\ disk' = [q \in Page |-> IF q \in dirty \cup {p} THEN view'[q] ELSE disk[q]]
          /\ dirty' = {}
     ELSE dirty' = dirty \cup {p} /\ UNCHANGED disk
  /\ written' = written \cup {r}
  /\ stmt' = [stmt EXCEPT !.ops = Tail(@), !.rows = @ \cup {r}]
  /\ UNCHANGED <<state, inTx, history>>

\* The statement returns to the user.
Acknowledge ==
  /\ stmt' = NoStatement
  /\ CASE stmt.kind = "BEGIN" ->
            explicit' = TRUE /\ UNCHANGED <<inside, acked, undone>>
       [] stmt.kind = "COMMIT" ->
            explicit' = FALSE /\ acked' = acked \cup inside /\ inside' = {} /\ UNCHANGED undone
       [] stmt.kind = "ROLLBACK" ->
            explicit' = FALSE /\ undone' = undone \cup inside /\ inside' = {} /\ UNCHANGED acked
       [] OTHER ->
            IF explicit
            THEN inside' = inside \cup stmt.rows /\ UNCHANGED <<explicit, acked, undone>>
            ELSE acked' = acked \cup stmt.rows /\ UNCHANGED <<explicit, inside, undone>>
  /\ UNCHANGED <<written, odd>>

\* execute_params commits a transaction the statement began.
AutoCommit == ~stmt.wasInTx /\ stmt.kind \notin {"BEGIN", "COMMIT", "ROLLBACK"}

\* Mistake: the autocommit does not ask whether the statement found a
\* transaction.
Finish_AlwaysCommits ==
  /\ ~Idle /\ stmt.ops = <<>>
  /\ IF stmt.kind \notin {"BEGIN", "COMMIT", "ROLLBACK"}
     THEN TxCommit
     ELSE UNCHANGED <<state, pager>>
  /\ Acknowledge

\* The program has run.
Finish ==
  /\ ~Idle /\ stmt.ops = <<>>
  /\ IF AutoCommit THEN TxCommit ELSE UNCHANGED <<state, pager>>
  /\ Acknowledge

\* An opcode raises, a lock is refused, a constraint or a foreign key is
\* violated: the exception leaves execute_params, and nothing is undone.
Fail ==
  /\ ~Idle
  /\ \/ stmt.ops # <<>> /\ Head(stmt.ops) \in {"begin", "write"}
     \/ stmt.ops # <<>> /\ Head(stmt.ops) = "commit" /\ state # "NONE"
     \/ stmt.ops = <<>> /\ AutoCommit /\ state # "NONE"
  /\ stmt' = NoStatement
  /\ odd' = odd \cup {"fail"}
  /\ UNCHANGED <<state, pager, written, explicit, inside, acked, undone>>

\* The pager cannot commit (CommitError and StampRaises in module Pager): it
\* has rolled back when the exception arrives, TransactionManager.state stays.
LoseCommit ==
  /\ ~Idle
  /\ \/ At("commit")
     \/ stmt.ops = <<>> /\ AutoCommit
  /\ state = "WRITE" /\ inTx
  /\ PagerRollback
  /\ stmt' = NoStatement
  /\ odd' = odd \cup {"lost"}
  /\ UNCHANGED <<state, written, explicit, inside, acked, undone>>

\* Database.close between statements, or the end of the process at any moment,
\* and a new Database.
Reopen ==
  /\ state' = "NONE"
  /\ view' = disk /\ dirty' = {} /\ inTx' = FALSE /\ before' = <<>>
  /\ stmt' = NoStatement
  /\ explicit' = FALSE /\ inside' = {}
  /\ UNCHANGED <<disk, written, acked, undone, odd>>

Next ==
  \/ \E kind \in Kind : Execute(kind)
  \/ OpBegin \/ OpCommit \/ OpRollback \/ OpSavepoint
  \/ \E p \in Page, flush \in BOOLEAN : OpWrite(p, flush)
  \/ Finish \/ Fail \/ LoseCommit
  \/ Reopen

Spec == Init /\ [][Next]_vars

-----------------------------------------------------------------------------
(* Properties *)

\* Every variable holds a value of its type.
TypeOK ==
  /\ state \in {"NONE", "READ", "WRITE"}
  /\ view \in [Page -> SUBSET Row] /\ disk \in [Page -> SUBSET Row]
  /\ dirty \subseteq Page /\ inTx \in BOOLEAN
  /\ DOMAIN before \subseteq Page /\ \A p \in DOMAIN before : before[p] \subseteq Row
  /\ stmt.kind \in Kind \cup {"idle"} /\ stmt.wasInTx \in BOOLEAN
  /\ \A r \in {stmt.rows, inside, acked, undone, written} : r \subseteq Row
  /\ explicit \in BOOLEAN
  /\ odd \subseteq {"SELECT", "INSERTSELECT", "SAVEPOINT", "fail", "lost"}

\* What a statement or a COMMIT that returned has written stays, and is in the
\* file whenever no transaction is open.
Acked == /\ acked \subseteq Rows(view)
         /\ Idle /\ state = "NONE" => acked \subseteq Rows(disk)

\* Nothing of a transaction the user rolled back is left.
Undone == Idle => undone \cap (Rows(view) \cup Rows(disk)) = {}

\* Reading in a transaction, savepoints and orderly reopenings cost no
\* acknowledged row, however they are mixed.
KeepsAcknowledged == odd \cap {"INSERTSELECT", "fail", "lost"} = {} => Acked

\* A statement that fails inside a transaction, or between two, leaves the
\* user able to roll back.
UndoesRolledBack == odd \cap {"SELECT", "INSERTSELECT", "lost"} = {} => Undone

\* Between statements there is a transaction just when the user has begun one:
\* none is left behind by autocommit, none ended behind the user's back.
OneTransaction ==
  odd \cap {"SELECT", "INSERTSELECT", "fail", "lost"} = {} =>
    (Idle => (explicit <=> state # "NONE"))

\* TransactionManager and the pager agree on whether there is a transaction,
\* after every opcode, unless the pager failed to commit.
StateAgrees == "lost" \notin odd => (inTx <=> state # "NONE")

(* What the documents of the repository say and the code does not do. *)

\* README.md:222 (Auto-commit mode): the statement after one that failed is
\* committed when it returns.
AutoCommitsAfterFailure == odd \subseteq {"fail"} => Acked

=============================================================================
