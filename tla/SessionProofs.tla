--------------------------- MODULE SessionProofs ---------------------------
(***************************************************************************)
(* Proofs about module Session, for any set of pages and any bound on the  *)
(* rows written; and then the two promises to the user: what was           *)
(* acknowledged stays, and what was rolled back is gone.                   *)
(***************************************************************************)
EXTENDS Session, SequenceTheorems, FiniteSetTheorems, TLAPS

(* Types *)

\* Rows of a page, for every page.
Contents == [Page -> SUBSET Row]

\* Without a transaction there are no before-images.
LEMMA NoImages ==
  ASSUME NEW b, b = <<>>
  PROVE  DOMAIN b \subseteq Page /\ \A p \in DOMAIN b : b[p] \subseteq Row
OBVIOUS

LEMMA TypeInit == Init => TypeOK
<1> SUFFICES ASSUME Init PROVE TypeOK
  OBVIOUS
<1>1. view \in [Page -> SUBSET Row] /\ disk \in [Page -> SUBSET Row]
  BY DEF Init
<1>2. DOMAIN before \subseteq Page /\ \A p \in DOMAIN before : before[p] \subseteq Row
  BY NoImages DEF Init
<1>3. /\ stmt.kind = "idle" /\ stmt.wasInTx = FALSE
      /\ \A r \in {stmt.rows, inside, acked, undone, written} : r \subseteq Row
  BY DEF Init, NoStatement
<1> QED
  BY <1>1, <1>2, <1>3 DEF Init, TypeOK

\* What the pager does at the end of a transaction keeps the pager's types.
LEMMA PagerTypes ==
  ASSUME TypeOK, PagerCommit \/ PagerRollback
  PROVE  /\ view' \in Contents /\ disk' \in Contents
         /\ dirty' \subseteq Page /\ inTx' \in BOOLEAN
         /\ DOMAIN before' \subseteq Page
         /\ \A p \in DOMAIN before' : before'[p] \subseteq Row
<1>1. CASE ~inTx
  BY <1>1 DEF PagerCommit, PagerRollback, TypeOK, Contents, pager
<1>2. CASE inTx
  <2>1. dirty' = {} /\ inTx' = FALSE /\ before' = <<>>
    BY <1>2 DEF PagerCommit, PagerRollback
  <2>2. CASE PagerCommit
    <3>1. view' \in Contents /\ disk' \in Contents
      BY <1>2, <2>2 DEF PagerCommit, TypeOK, Contents
    <3> QED
      BY <2>1, <3>1, NoImages
  <2>3. CASE PagerRollback
    <3>1. view' \in Contents /\ disk' \in Contents
      BY <1>2, <2>3 DEF PagerRollback, Restored, TypeOK, Contents
    <3> QED
      BY <2>1, <3>1, NoImages
  <2> QED
    BY <2>2, <2>3
<1> QED
  BY <1>1, <1>2

LEMMA TxCommitTypes ==
  ASSUME TypeOK, TxCommit \/ TxRollback \/ UNCHANGED <<state, pager>>
  PROVE  /\ state' \in {"NONE", "READ", "WRITE"}
         /\ view' \in Contents /\ disk' \in Contents
         /\ dirty' \subseteq Page /\ inTx' \in BOOLEAN
         /\ DOMAIN before' \subseteq Page
         /\ \A p \in DOMAIN before' : before'[p] \subseteq Row
<1>1. CASE UNCHANGED <<state, pager>>
  BY <1>1 DEF TypeOK, Contents, pager
<1>2. CASE PagerCommit /\ state' = "NONE"
  BY <1>2, PagerTypes
<1>3. CASE PagerRollback /\ state' = "NONE"
  BY <1>3, PagerTypes
<1> QED
  BY <1>1, <1>2, <1>3 DEF TxCommit, TxRollback

\* The next row to write is a row: only finitely many have been written.
LEMMA NextRow ==
  ASSUME TypeOK, Cardinality(written) + 1 <= MaxRows
  PROVE  Cardinality(written) + 1 \in Row
<1>1. IsFiniteSet(Row)
  BY MaxRowsAssumption, FS_Interval DEF Row
<1>2. IsFiniteSet(written)
  BY <1>1, FS_Subset DEF TypeOK
<1>3. Cardinality(written) \in Nat
  BY <1>2, FS_CardinalityType
<1> QED
  BY <1>3, MaxRowsAssumption DEF Row

LEMMA TypeStep == TypeOK /\ [Next]_vars => TypeOK'
<1> SUFFICES ASSUME TypeOK, [Next]_vars PROVE TypeOK'
  OBVIOUS
<1>1. ASSUME NEW kind \in Kind, Execute(kind) PROVE TypeOK'
  <2>1. odd' \subseteq {"SELECT", "INSERTSELECT", "SAVEPOINT", "fail", "lost"}
    BY <1>1 DEF Execute, TypeOK
  <2>2. stmt'.kind \in Kind /\ stmt'.wasInTx \in BOOLEAN /\ stmt'.rows = {}
    BY <1>1 DEF Execute
  <2> QED
    BY <1>1, <2>1, <2>2 DEF Execute, TypeOK, pager
<1>2. CASE OpBegin
  <2>1. /\ stmt'.kind = stmt.kind /\ stmt'.wasInTx = stmt.wasInTx /\ stmt'.rows = stmt.rows
        /\ UNCHANGED <<view, disk, dirty, written, history>> /\ state' = "WRITE"
    BY <1>2 DEF OpBegin, BeginWrite, PagerBegin, Advance, pager
  <2>2. inTx' \in BOOLEAN /\ DOMAIN before' \subseteq Page
        /\ \A p \in DOMAIN before' : before'[p] \subseteq Row
    BY <1>2, NoImages DEF OpBegin, BeginWrite, PagerBegin, TypeOK, pager
  <2> QED
    BY <2>1, <2>2 DEF TypeOK, history
<1>3. CASE OpCommit
  BY <1>3, TxCommitTypes DEF OpCommit, Advance, TypeOK, Contents, history
<1>4. CASE OpRollback
  BY <1>4, TxCommitTypes DEF OpRollback, Advance, TypeOK, Contents, history
<1>5. CASE OpSavepoint
  <2>1. /\ stmt'.kind = stmt.kind /\ stmt'.wasInTx = stmt.wasInTx /\ stmt'.rows = stmt.rows
        /\ UNCHANGED <<view, disk, dirty, written, history>> /\ state' \in {state, "READ"}
    BY <1>5 DEF OpSavepoint, TxSavepoint, PagerBegin, Advance, pager
  <2>2. inTx' \in BOOLEAN /\ DOMAIN before' \subseteq Page
        /\ \A p \in DOMAIN before' : before'[p] \subseteq Row
    BY <1>5, NoImages DEF OpSavepoint, TxSavepoint, PagerBegin, TypeOK, pager
  <2> QED
    BY <2>1, <2>2 DEF TypeOK, history
<1>6. ASSUME NEW p \in Page, NEW flush \in BOOLEAN, OpWrite(p, flush) PROVE TypeOK'
  <2> DEFINE r == Cardinality(written) + 1
  <2>1. r \in Row
    BY <1>6, NextRow DEF OpWrite
  <2> HIDE DEF r
  <2>2. view' = [view EXCEPT ![p] = @ \cup {r}] /\ view' \in Contents
    BY <1>6, <2>1 DEF OpWrite, r, TypeOK, Contents
  <2>3. disk' \in Contents /\ dirty' \subseteq Page
    BY <1>6, <2>2 DEF OpWrite, TypeOK, Contents
  <2>4. DOMAIN before' \subseteq Page /\ \A q \in DOMAIN before' : before'[q] \subseteq Row
    BY <1>6 DEF OpWrite, TypeOK
  <2>5. written' \subseteq Row
    BY <1>6, <2>1 DEF OpWrite, r, TypeOK
  <2>6. stmt'.kind = stmt.kind /\ stmt'.wasInTx = stmt.wasInTx /\ stmt'.rows = stmt.rows \cup {r}
    BY <1>6 DEF OpWrite, r
  <2>7. UNCHANGED <<state, inTx, history>>
    BY <1>6 DEF OpWrite
  <2>8. stmt'.rows \subseteq Row /\ inside' \subseteq Row /\ acked' \subseteq Row /\ undone' \subseteq Row
    BY <2>1, <2>6, <2>7 DEF TypeOK, history
  <2>9. /\ stmt'.kind \in Kind \cup {"idle"} /\ stmt'.wasInTx \in BOOLEAN /\ inTx' \in BOOLEAN
        /\ explicit' \in BOOLEAN /\ state' \in {"NONE", "READ", "WRITE"}
        /\ odd' \subseteq {"SELECT", "INSERTSELECT", "SAVEPOINT", "fail", "lost"}
    BY <2>6, <2>7 DEF TypeOK, history
  <2> QED
    BY <2>2, <2>3, <2>4, <2>5, <2>8, <2>9 DEF TypeOK, Contents
<1>7. CASE Finish
  <2>1. TxCommit \/ UNCHANGED <<state, pager>>
    BY <1>7 DEF Finish
  <2>2. /\ explicit' \in BOOLEAN /\ inside' \subseteq Row
        /\ acked' \subseteq Row /\ undone' \subseteq Row
    BY <1>7 DEF Finish, Acknowledge, TypeOK
  <2> QED
    BY <1>7, <2>1, <2>2, TxCommitTypes DEF Finish, Acknowledge, NoStatement, TypeOK, Contents
<1>8. CASE Fail
  BY <1>8 DEF Fail, NoStatement, TypeOK, pager
<1>9. CASE LoseCommit
  BY <1>9, PagerTypes DEF LoseCommit, NoStatement, TypeOK, Contents
<1>10. CASE Reopen
  <2>1. DOMAIN before' \subseteq Page /\ \A p \in DOMAIN before' : before'[p] \subseteq Row
    BY <1>10, NoImages DEF Reopen
  <2>2. stmt'.kind = "idle" /\ stmt'.wasInTx = FALSE /\ stmt'.rows = {}
    BY <1>10 DEF Reopen, NoStatement
  <2>3. /\ view' \in [Page -> SUBSET Row] /\ disk' \in [Page -> SUBSET Row]
        /\ dirty' \subseteq Page /\ inTx' \in BOOLEAN /\ explicit' \in BOOLEAN
        /\ inside' \subseteq Row /\ acked' \subseteq Row /\ undone' \subseteq Row
        /\ written' \subseteq Row
    BY <1>10 DEF Reopen, TypeOK
  <2>4. /\ state' \in {"NONE", "READ", "WRITE"}
        /\ odd' \subseteq {"SELECT", "INSERTSELECT", "SAVEPOINT", "fail", "lost"}
        /\ stmt'.kind \in Kind \cup {"idle"} /\ stmt'.wasInTx \in BOOLEAN
        /\ stmt'.rows \subseteq Row
    BY <1>10, <2>2 DEF Reopen, TypeOK
  <2> QED
    BY <2>1, <2>3, <2>4 DEF TypeOK
<1>11. CASE UNCHANGED vars
  BY <1>11 DEF vars, pager, history, TypeOK
<1> QED
  BY <1>1, <1>2, <1>3, <1>4, <1>5, <1>6, <1>7, <1>8, <1>9, <1>10, <1>11 DEF Next

\* Every variable of a session keeps its type.
THEOREM TypeCorrect == Spec => []TypeOK
BY TypeInit, TypeStep, PTL DEF Spec

-----------------------------------------------------------------------------
(* The agreement of the two transaction states is inductive as it stands. *)

LEMMA AgreeStep == StateAgrees /\ [Next]_vars => StateAgrees'
<1> SUFFICES ASSUME StateAgrees, [Next]_vars PROVE StateAgrees'
  OBVIOUS
<1> USE DEF StateAgrees
<1>1. ASSUME NEW kind \in Kind, Execute(kind) PROVE StateAgrees'
  BY <1>1 DEF Execute, pager
<1>2. CASE OpBegin
  BY <1>2 DEF OpBegin, BeginWrite, PagerBegin, pager, history
<1>3. CASE OpCommit
  BY <1>3 DEF OpCommit, TxCommit, PagerCommit, PagerRollback, pager, history
<1>4. CASE OpRollback
  BY <1>4 DEF OpRollback, TxRollback, PagerRollback, pager, history
<1>5. CASE OpSavepoint
  BY <1>5 DEF OpSavepoint, TxSavepoint, PagerBegin, pager, history
<1>6. ASSUME NEW p \in Page, NEW flush \in BOOLEAN, OpWrite(p, flush) PROVE StateAgrees'
  BY <1>6 DEF OpWrite, history
<1>7. CASE Finish
  BY <1>7 DEF Finish, Acknowledge, TxCommit, PagerCommit, PagerRollback, pager
<1>8. CASE Fail
  BY <1>8 DEF Fail, pager
<1>9. CASE LoseCommit
  BY <1>9 DEF LoseCommit
<1>10. CASE Reopen
  BY <1>10 DEF Reopen
<1>11. CASE UNCHANGED vars
  BY <1>11 DEF vars, pager, history
<1> QED
  BY <1>1, <1>2, <1>3, <1>4, <1>5, <1>6, <1>7, <1>8, <1>9, <1>10, <1>11 DEF Next

\* TransactionManager.state and Pager.in_transaction tell the same, after every
\* opcode, as long as the pager has not failed to commit.
THEOREM Agreement == Spec => []StateAgrees
<1>1. Init => StateAgrees
  BY DEF Init, StateAgrees
<1> QED
  BY <1>1, AgreeStep, PTL DEF Spec

-----------------------------------------------------------------------------
(* Whether there is a transaction between statements depends on what was    *)
(* run of the statement in progress, and so on the opcodes it has left.     *)

\* The opcodes that occur in the program of each kind of statement.
Uses(kind) ==
  IF kind = "BEGIN" THEN {"begin"}
  ELSE IF kind \in {"COMMIT", "SELECT"} THEN {"commit"}
  ELSE IF kind = "ROLLBACK" THEN {"rollback"}
  ELSE IF kind = "INSERTSELECT" THEN {"begin", "commit", "write"}
  ELSE {"begin", "savepoint", "write"}

Op == {"begin", "commit", "rollback", "savepoint", "write"}

\* The statement's remaining opcodes are of those its kind uses.
OpsInv ==
  ~Idle => /\ stmt.kind \in Kind
           /\ stmt.ops \in Seq(Op)
           /\ \A i \in 1..Len(stmt.ops) : stmt.ops[i] \in Uses(stmt.kind)

Usual == odd \cap {"SELECT", "INSERTSELECT", "fail", "lost"} = {}

\* Between statements the state is the user's; a statement found the user's
\* state, and has either kept it or has done what it is for.
PhaseInv ==
  Usual =>
    /\ Idle => (explicit <=> state # "NONE")
    /\ ~Idle =>
         /\ stmt.wasInTx \in BOOLEAN
         /\ stmt.wasInTx <=> explicit
         /\ stmt.kind = "BEGIN" /\ stmt.ops = <<>> => state # "NONE"
         /\ stmt.kind \in {"COMMIT", "ROLLBACK"} /\ stmt.ops = <<>> => state = "NONE"
         /\ stmt.kind \in {"SELECT", "INSERTSELECT"} => ~explicit \/ stmt.kind \in odd
         /\ stmt.kind \notin {"BEGIN", "COMMIT", "ROLLBACK"} /\ explicit => state # "NONE"

\* Every program is a sequence of opcodes its kind uses, and those of the
\* statements about transactions are not empty.
LEMMA Programs ==
  ASSUME NEW kind \in Kind
  PROVE  /\ Program[kind] \in Seq(Op)
         /\ \A i \in 1..Len(Program[kind]) : Program[kind][i] \in Uses(kind)
         /\ kind \in {"BEGIN", "COMMIT", "ROLLBACK"} => Program[kind] # <<>>
<1> USE DEF Op, Uses
<1>1. kind \in {"BEGIN", "COMMIT", "ROLLBACK", "SAVEPOINT", "RELEASE", "SELECT", "INSERT",
                "UPDATE", "DELETE", "INSERTSELECT", "TRIGGERED", "CREATETABLE"}
  BY DEF Kind, Program
<1>2. CASE kind = "BEGIN"
  BY <1>2 DEF Program
<1>3. CASE kind = "COMMIT"
  BY <1>3 DEF Program
<1>4. CASE kind = "ROLLBACK"
  BY <1>4 DEF Program
<1>5. CASE kind = "SAVEPOINT"
  BY <1>5 DEF Program
<1>6. CASE kind = "RELEASE"
  BY <1>6 DEF Program
<1>7. CASE kind = "SELECT"
  BY <1>7 DEF Program, SelectProgram
<1>8. CASE kind \in {"INSERT", "UPDATE", "DELETE"}
  <2>1. Program[kind] = <<"begin", "write">>
    BY <1>8 DEF Program, InsertProgram, UpdateProgram, DeleteProgram
  <2> QED
    BY <1>8, <2>1
<1>9. CASE kind = "INSERTSELECT"
  BY <1>9 DEF Program, InsertSelectProgram
<1>10. CASE kind = "TRIGGERED"
  BY <1>10 DEF Program, TriggeredProgram, InsertProgram
<1>11. CASE kind = "CREATETABLE"
  BY <1>11 DEF Program, CreateTableProgram
<1> QED
  BY <1>1, <1>2, <1>3, <1>4, <1>5, <1>6, <1>7, <1>8, <1>9, <1>10, <1>11

\* Running an opcode leaves opcodes of the same kind of statement.
LEMMA AdvanceOps ==
  ASSUME OpsInv, NEW op, At(op), stmt'.kind = stmt.kind, stmt'.ops = Tail(stmt.ops)
  PROVE  OpsInv' /\ op \in Uses(stmt.kind)
<1> DEFINE s == stmt.ops
<1>1. /\ ~Idle /\ s \in Seq(Op) /\ s # <<>> /\ op = Head(s) /\ stmt.kind \in Kind
      /\ \A i \in 1..Len(s) : s[i] \in Uses(stmt.kind)
  BY DEF At, OpsInv
<1>2. /\ Tail(s) \in Seq(Op)
      /\ \A i \in 1..Len(Tail(s)) : Tail(s)[i] = s[i+1] /\ i + 1 \in 1..Len(s)
  BY <1>1, HeadTailProperties
<1>3. Head(s) = s[1] /\ 1 \in 1..Len(s)
  BY <1>1
<1>4. \A i \in 1..Len(Tail(s)) : Tail(s)[i] \in Uses(stmt.kind)
  BY <1>1, <1>2
<1> HIDE DEF s
<1>5. OpsInv'
  <2>1. stmt'.kind \in Kind /\ stmt'.ops = Tail(s) /\ stmt'.kind = stmt.kind
    BY <1>1 DEF s
  <2> QED
    BY <2>1, <1>2, <1>4 DEF OpsInv
<1> QED
  BY <1>1, <1>3, <1>5

OneInv == OpsInv /\ PhaseInv

LEMMA OneInit == Init => OneInv
BY DEF Init, OneInv, OpsInv, PhaseInv, Idle, NoStatement

\* An opcode does to the state what its statement is for; the end of a
\* statement then finds the state its kind leads to, or commits.
LEMMA OneStep == OneInv /\ [Next]_vars => OneInv'
<1> SUFFICES ASSUME OneInv, [Next]_vars PROVE OneInv'
  OBVIOUS
<1>0. OpsInv /\ PhaseInv
  BY DEF OneInv
<1>1. ASSUME NEW kind \in Kind, Execute(kind) PROVE OneInv'
  <2>1. OpsInv'
    BY <1>1, Programs DEF Execute, OpsInv
  <2>2. PhaseInv'
    BY <1>0, <1>1, Programs DEF Execute, PhaseInv, Usual, Idle
  <2> QED
    BY <2>1, <2>2 DEF OneInv
<1>2. CASE OpBegin
  <2>1. OpsInv' /\ "begin" \in Uses(stmt.kind)
    BY <1>0, <1>2, AdvanceOps DEF OpBegin, Advance, OpsInv, At
  <2>2. PhaseInv'
    BY <1>0, <1>2, <2>1 DEF OpBegin, BeginWrite, Advance, At, history, PhaseInv, Usual, Idle, Uses
  <2> QED
    BY <2>1, <2>2 DEF OneInv
<1>3. CASE OpCommit
  <2>1. OpsInv' /\ "commit" \in Uses(stmt.kind)
    BY <1>0, <1>3, AdvanceOps DEF OpCommit, Advance, OpsInv, At
  <2>2. PhaseInv'
    BY <1>0, <1>3, <2>1 DEF OpCommit, TxCommit, Advance, At, history, PhaseInv, Usual, Idle, Uses
  <2> QED
    BY <2>1, <2>2 DEF OneInv
<1>4. CASE OpRollback
  <2>1. OpsInv' /\ "rollback" \in Uses(stmt.kind)
    BY <1>0, <1>4, AdvanceOps DEF OpRollback, Advance, OpsInv, At
  <2>2. PhaseInv'
    BY <1>0, <1>4, <2>1 DEF OpRollback, TxRollback, Advance, At, history, PhaseInv, Usual, Idle, Uses
  <2> QED
    BY <2>1, <2>2 DEF OneInv
<1>5. CASE OpSavepoint
  <2>1. OpsInv' /\ "savepoint" \in Uses(stmt.kind)
    BY <1>0, <1>5, AdvanceOps DEF OpSavepoint, Advance, OpsInv, At
  <2>2. PhaseInv'
    BY <1>0, <1>5, <2>1 DEF OpSavepoint, TxSavepoint, Advance, At, history, PhaseInv, Usual, Idle, Uses
  <2> QED
    BY <2>1, <2>2 DEF OneInv
<1>6. ASSUME NEW p \in Page, NEW flush \in BOOLEAN, OpWrite(p, flush) PROVE OneInv'
  <2>1. OpsInv' /\ "write" \in Uses(stmt.kind)
    BY <1>0, <1>6, AdvanceOps DEF OpWrite, OpsInv, At
  <2>2. PhaseInv'
    BY <1>0, <1>6, <2>1 DEF OpWrite, At, history, PhaseInv, Usual, Idle, Uses
  <2> QED
    BY <2>1, <2>2 DEF OneInv
<1>7. CASE Finish
  <2>1. Idle'
    BY <1>7 DEF Finish, Acknowledge, NoStatement, Idle
  <2>2. odd' = odd
    BY <1>7 DEF Finish, Acknowledge
  <2>3. CASE Usual /\ stmt.kind \in {"BEGIN", "COMMIT", "ROLLBACK"}
    <3>1. UNCHANGED state /\ explicit' = (stmt.kind = "BEGIN")
      BY <1>7, <2>3 DEF Finish, AutoCommit, Acknowledge
    <3>2. state # "NONE" <=> stmt.kind = "BEGIN"
      BY <1>0, <1>7, <2>3 DEF Finish, PhaseInv
    <3> QED
      BY <3>1, <3>2, <2>1 DEF PhaseInv, OpsInv, OneInv
  <2>4. CASE Usual /\ stmt.kind \notin {"BEGIN", "COMMIT", "ROLLBACK"}
    <3>1. UNCHANGED explicit
      BY <1>7, <2>4 DEF Finish, Acknowledge
    <3>2. explicit <=> state' # "NONE"
      BY <1>0, <1>7, <2>4 DEF Finish, AutoCommit, TxCommit, PhaseInv
    <3> QED
      BY <3>1, <3>2, <2>1 DEF PhaseInv, OpsInv, OneInv
  <2>5. CASE ~Usual
    BY <2>1, <2>2, <2>5 DEF PhaseInv, OpsInv, OneInv, Usual
  <2> QED
    BY <2>3, <2>4, <2>5
<1>8. CASE Fail
  BY <1>8 DEF Fail, NoStatement, OneInv, OpsInv, PhaseInv, Usual, Idle
<1>9. CASE LoseCommit
  BY <1>9 DEF LoseCommit, NoStatement, OneInv, OpsInv, PhaseInv, Usual, Idle
<1>10. CASE Reopen
  BY <1>10 DEF Reopen, NoStatement, OneInv, OpsInv, PhaseInv, Usual, Idle
<1>11. CASE UNCHANGED vars
  BY <1>11 DEF vars, history, OneInv, OpsInv, PhaseInv, Usual, Idle
<1> QED
  BY <1>1, <1>2, <1>3, <1>4, <1>5, <1>6, <1>7, <1>8, <1>9, <1>10, <1>11 DEF Next

\* Autocommit leaves no transaction behind, and nothing ends a transaction
\* behind the user's back, but for the statements the findings are about.
THEOREM SingleTransaction == Spec => []OneTransaction
<1>1. OneInv => OneTransaction
  BY DEF OneInv, PhaseInv, Usual, OneTransaction
<1> QED
  BY <1>1, OneInit, OneStep, PTL DEF Spec

-----------------------------------------------------------------------------

(* The statement in progress *)

\* What can be left of the program of a statement of each kind.
Left(kind) ==
  CASE kind = "BEGIN"        -> {<<"begin">>, <<>>}
    [] kind \in {"COMMIT", "SELECT"} -> {<<"commit">>, <<>>}
    [] kind = "ROLLBACK"     -> {<<"rollback">>, <<>>}
    [] kind = "SAVEPOINT"    -> {<<"savepoint">>, <<>>}
    [] kind = "RELEASE"      -> {<<>>}
    [] kind \in {"INSERT", "UPDATE", "DELETE"} -> {<<"begin", "write">>, <<"write">>, <<>>}
    [] kind = "INSERTSELECT" -> {<<"begin", "commit", "write">>, <<"commit", "write">>, <<"write">>, <<>>}
    [] kind = "TRIGGERED"    -> {<<"begin", "write", "begin", "write">>, <<"write", "begin", "write">>,
                                 <<"begin", "write">>, <<"write">>, <<>>}
    [] kind = "CREATETABLE"  -> {<<"write", "begin">>, <<"begin">>, <<>>}

ShapeInv == ~Idle => stmt.kind \in Kind /\ stmt.ops \in Left(stmt.kind)

\* Rows are numbered in the order in which they are written, and before-images
\* belong to a transaction; no page has a row that was not written.
RowsInv ==
  /\ \E n \in 0..MaxRows : written = 1..n
  /\ inside \cup acked \cup undone \cup stmt.rows \subseteq written
  /\ \A p \in Page : view[p] \cup disk[p] \subseteq written
  /\ \A p \in DOMAIN before : before[p] \subseteq written
  /\ ~inTx => before = <<>>

(* What was acknowledged stays *)

Lossless == odd \cap {"INSERTSELECT", "fail", "lost"} = {}

\* CREATE TABLE, on its own, writes pages before it begins a transaction.
Creating == ~Idle /\ stmt.kind = "CREATETABLE" /\ ~stmt.wasInTx

\* Between statements there is no transaction unless the user has begun one;
\* within one, the transaction is there by the time a row is written.
WhereInv ==
  /\ state = "READ" => ~Idle /\ stmt.kind = "SAVEPOINT" /\ ~stmt.wasInTx /\ stmt.ops = <<>>
                       /\ before = <<>> /\ dirty = {}
  /\ Idle /\ ~explicit => state = "NONE"
  /\ ~Idle =>
       /\ stmt.kind # "INSERTSELECT"
       /\ ~explicit => ~stmt.wasInTx
       /\ stmt.kind \in {"COMMIT", "ROLLBACK"} => stmt.rows = {}
       /\ stmt.kind \in {"COMMIT", "ROLLBACK"} /\ stmt.ops = <<>> => state = "NONE"
       /\ stmt.kind \in {"INSERT", "UPDATE", "DELETE", "TRIGGERED"} /\ state = "NONE" =>
            stmt.ops # <<>> /\ Head(stmt.ops) = "begin"
       /\ stmt.kind = "CREATETABLE" /\ stmt.ops = <<>> => state # "NONE"
       /\ stmt.wasInTx /\ stmt.kind \notin {"SELECT", "COMMIT", "ROLLBACK"} => state # "NONE"

\* A page that is not dirty is as in the file; a dirty one has a before-image.
CleanInv ==
  /\ \A p \in Page \ dirty : view[p] = disk[p]
  /\ dirty \subseteq DOMAIN before \/ Creating

\* The acknowledged rows are the same in all versions of a page, and in the
\* file; those that may be acknowledged next can be read.
StayInv ==
  /\ \A p \in Page : acked \cap view[p] = acked \cap disk[p]
  /\ \A p \in DOMAIN before : acked \cap before[p] = acked \cap disk[p]
  /\ acked \subseteq Rows(disk)
  /\ stmt.rows \subseteq Rows(view)
  /\ inside \subseteq Rows(view) \/ (~Idle /\ stmt.kind = "ROLLBACK")

KeepInv == Lossless => WhereInv /\ CleanInv /\ StayInv

(* What was rolled back is gone *)

Undoing == odd \cap {"SELECT", "INSERTSELECT", "lost"} = {}

\* COMMIT or ROLLBACK has done its work and not returned.
Ended == ~Idle /\ stmt.kind \in {"COMMIT", "ROLLBACK"} /\ stmt.ops = <<>>

\* The rows written in the transaction that the user has begun.
Own == inside \cup (IF explicit THEN stmt.rows ELSE {})

\* The rows of the user's transaction are in pages with a before-image, and not
\* in the image; the rows that were rolled back are nowhere.
GoneInv ==
  /\ explicit => inTx \/ Ended
  /\ Ended => ~inTx
  /\ ~Idle /\ stmt.kind = "BEGIN" /\ stmt.ops = <<>> => inTx
  /\ ~explicit => inside = {}
  /\ ~Idle => /\ stmt.kind # "INSERTSELECT"
              /\ explicit => stmt.kind # "SELECT" /\ stmt.wasInTx
              /\ stmt.kind \in {"COMMIT", "ROLLBACK"} => stmt.rows = {}
  /\ ~(Ended /\ stmt.kind = "COMMIT") =>
       /\ \A p \in DOMAIN before : Own \cap before[p] = {}
       /\ \A p \in Page \ DOMAIN before : Own \cap (view[p] \cup disk[p]) = {}
  /\ \A p \in Page : undone \cap (view[p] \cup disk[p]) = {}
  /\ \A p \in DOMAIN before : undone \cap before[p] = {}

UndoInv == Undoing => GoneInv

-----------------------------------------------------------------------------
(* The shape of the statement in progress *)

\* The program of a trigger comes after the statement's own.
LEMMA TriggeredLong == TriggeredProgram = <<"begin", "write", "begin", "write">>
<1> DEFINE s == <<"begin", "write">>
           t == <<"begin", "write", "begin", "write">>
           u == s \o s
<1>1. s \in Seq(Op) /\ Len(s) = 2 /\ t \in Seq(Op) /\ Len(t) = 4
  <2>1. "begin" \in Op /\ "write" \in Op
    BY DEF Op
  <2>2. \A a, b \in Op : <<a, b>> \in Seq(Op) /\ <<a, b, a, b>> \in Seq(Op)
    OBVIOUS
  <2>3. Len(s) = 2
    OBVIOUS
  <2>4. Len(t) = 4
    OBVIOUS
  <2> QED
    BY <2>1, <2>2, <2>3, <2>4
<1>2. u \in Seq(Op) /\ Len(u) = 4
  BY <1>1
<1>3. u[1] = s[1] /\ u[2] = s[2] /\ u[3] = s[1] /\ u[4] = s[2]
  BY <1>1
<1>4. \A i \in 1..4 : u[i] = t[i]
  <2>1. \A i \in 1..4 : i = 1 \/ i = 2 \/ i = 3 \/ i = 4
    OBVIOUS
  <2> QED
    BY <1>3, <2>1
<1> HIDE DEF u, t
<1>5. u = t
  BY <1>1, <1>2, <1>4, SeqEqual
<1> QED
  BY <1>5 DEF TriggeredProgram, InsertProgram, u, t

\* The program of a statement is one of those that can be left of it, ...
LEMMA ProgramLeft ==
  ASSUME NEW kind \in Kind
  PROVE  Program[kind] \in Left(kind)
<1>1. kind \in {"BEGIN", "COMMIT", "ROLLBACK", "SAVEPOINT", "RELEASE", "SELECT", "INSERT",
                "UPDATE", "DELETE", "INSERTSELECT", "TRIGGERED", "CREATETABLE"}
  BY DEF Kind, Program
<1>2. CASE kind \in {"BEGIN", "ROLLBACK", "SAVEPOINT", "RELEASE", "COMMIT", "SELECT"}
  BY <1>2 DEF Left, Program, SelectProgram
<1>3. CASE kind \in {"INSERT", "UPDATE", "DELETE"}
  BY <1>3 DEF Left, Program, InsertProgram, UpdateProgram, DeleteProgram
<1>4. CASE kind = "INSERTSELECT"
  BY <1>4 DEF Left, Program, InsertSelectProgram
<1>5. CASE kind = "TRIGGERED"
  BY <1>5, TriggeredLong DEF Left, Program
<1>6. CASE kind = "CREATETABLE"
  BY <1>6 DEF Left, Program, CreateTableProgram
<1> QED
  BY <1>1, <1>2, <1>3, <1>4, <1>5, <1>6

\* ... and running an opcode leaves another.
LEMMA TailLeft ==
  ASSUME NEW kind \in Kind, NEW ops \in Left(kind), ops # <<>>
  PROVE  Tail(ops) \in Left(kind)
<1>1. kind \in {"BEGIN", "COMMIT", "ROLLBACK", "SAVEPOINT", "RELEASE", "SELECT", "INSERT",
                "UPDATE", "DELETE", "INSERTSELECT", "TRIGGERED", "CREATETABLE"}
  BY DEF Kind, Program
<1>2. CASE kind \in {"BEGIN", "ROLLBACK", "SAVEPOINT", "RELEASE", "COMMIT", "SELECT"}
  <2>1. <<>> \in Left(kind) /\ \E op : ops = <<op>>
    BY <1>2 DEF Left
  <2>2. Tail(ops) = <<>>
    BY <2>1
  <2> QED
    BY <2>1, <2>2
<1>3. CASE kind \in {"INSERT", "UPDATE", "DELETE"}
  <2>1. Left(kind) = {<<"begin", "write">>, <<"write">>, <<>>}
    BY <1>3 DEF Left
  <2>2. CASE ops = <<"begin", "write">>
    <3>1. Tail(ops) = <<"write">>
      BY <2>2
    <3> QED
      BY <2>1, <3>1
  <2>3. CASE ops = <<"write">>
    <3>1. Tail(ops) = <<>>
      BY <2>3
    <3> QED
      BY <2>1, <3>1
  <2> QED
    BY <2>1, <2>2, <2>3
<1>4. CASE kind = "INSERTSELECT"
  <2>1. Left(kind) = {<<"begin", "commit", "write">>, <<"commit", "write">>, <<"write">>, <<>>}
    BY <1>4 DEF Left
  <2>2. CASE ops = <<"begin", "commit", "write">>
    <3>1. Tail(ops) = <<"commit", "write">>
      BY <2>2
    <3> QED
      BY <2>1, <3>1
  <2>3. CASE ops = <<"commit", "write">>
    <3>1. Tail(ops) = <<"write">>
      BY <2>3
    <3> QED
      BY <2>1, <3>1
  <2>4. CASE ops = <<"write">>
    <3>1. Tail(ops) = <<>>
      BY <2>4
    <3> QED
      BY <2>1, <3>1
  <2> QED
    BY <2>1, <2>2, <2>3, <2>4
<1>5. CASE kind = "TRIGGERED"
  <2>1. Left(kind) = {<<"begin", "write", "begin", "write">>, <<"write", "begin", "write">>,
                      <<"begin", "write">>, <<"write">>, <<>>}
    BY <1>5 DEF Left
  <2>2. CASE ops = <<"begin", "write", "begin", "write">>
    <3>1. Tail(ops) = <<"write", "begin", "write">>
      BY <2>2
    <3> QED
      BY <2>1, <3>1
  <2>3. CASE ops = <<"write", "begin", "write">>
    <3>1. Tail(ops) = <<"begin", "write">>
      BY <2>3
    <3> QED
      BY <2>1, <3>1
  <2>4. CASE ops = <<"begin", "write">>
    <3>1. Tail(ops) = <<"write">>
      BY <2>4
    <3> QED
      BY <2>1, <3>1
  <2>5. CASE ops = <<"write">>
    <3>1. Tail(ops) = <<>>
      BY <2>5
    <3> QED
      BY <2>1, <3>1
  <2> QED
    BY <2>1, <2>2, <2>3, <2>4, <2>5
<1>6. CASE kind = "CREATETABLE"
  <2>1. Left(kind) = {<<"write", "begin">>, <<"begin">>, <<>>}
    BY <1>6 DEF Left
  <2>2. CASE ops = <<"write", "begin">>
    <3>1. Tail(ops) = <<"begin">>
      BY <2>2
    <3> QED
      BY <2>1, <3>1
  <2>3. CASE ops = <<"begin">>
    <3>1. Tail(ops) = <<>>
      BY <2>3
    <3> QED
      BY <2>1, <3>1
  <2> QED
    BY <2>1, <2>2, <2>3
<1> QED
  BY <1>1, <1>2, <1>3, <1>4, <1>5, <1>6

\* A statement runs its next opcode.
LEMMA AdvanceShape ==
  ASSUME ShapeInv, NEW op, At(op), stmt'.kind = stmt.kind, stmt'.ops = Tail(stmt.ops)
  PROVE  ShapeInv' /\ ~Idle'
BY TailLeft DEF ShapeInv, At, Idle

LEMMA ShapeStep == ShapeInv /\ [Next]_vars => ShapeInv'
<1> SUFFICES ASSUME ShapeInv, [Next]_vars PROVE ShapeInv'
  OBVIOUS
<1>1. ASSUME NEW kind \in Kind, Execute(kind) PROVE ShapeInv'
  BY <1>1, ProgramLeft DEF Execute, ShapeInv
<1>2. CASE OpBegin
  BY <1>2, AdvanceShape DEF OpBegin, Advance
<1>3. CASE OpCommit
  BY <1>3, AdvanceShape DEF OpCommit, Advance
<1>4. CASE OpRollback
  BY <1>4, AdvanceShape DEF OpRollback, Advance
<1>5. CASE OpSavepoint
  BY <1>5, AdvanceShape DEF OpSavepoint, Advance
<1>6. ASSUME NEW p \in Page, NEW flush \in BOOLEAN, OpWrite(p, flush) PROVE ShapeInv'
  BY <1>6, AdvanceShape DEF OpWrite
<1>7. CASE Finish \/ Fail \/ LoseCommit \/ Reopen
  BY <1>7 DEF Finish, Acknowledge, Fail, LoseCommit, Reopen, NoStatement, ShapeInv, Idle
<1>8. CASE UNCHANGED vars
  BY <1>8 DEF vars, ShapeInv, Idle
<1> QED
  BY <1>1, <1>2, <1>3, <1>4, <1>5, <1>6, <1>7, <1>8 DEF Next

-----------------------------------------------------------------------------
(* Rows *)

\* The next row to be written has not been written.
LEMMA NextIsNew ==
  ASSUME RowsInv
  PROVE  /\ Cardinality(written) + 1 \notin written
         /\ Cardinality(written) + 1 <= MaxRows =>
              \E n \in 0..MaxRows : written \cup {Cardinality(written) + 1} = 1..n
<1>1. PICK n \in 0..MaxRows : written = 1..n
  BY DEF RowsInv
<1>2. n \in Nat
  BY <1>1, MaxRowsAssumption
<1>3. Cardinality(1..n) = n
  BY <1>2, FS_Interval
<1>4. n + 1 \notin 1..n /\ (1..n) \cup {n + 1} = 1..(n + 1)
  BY <1>2
<1>5. n + 1 <= MaxRows => n + 1 \in 0..MaxRows
  BY <1>2, MaxRowsAssumption
<1> QED
  BY <1>1, <1>3, <1>4, <1>5

\* The end of a transaction brings no row to a page that was not written.
LEMMA EndKeepsRows ==
  ASSUME TypeOK, RowsInv, (TxCommit \/ TxRollback) \/ PagerRollback, UNCHANGED written
  PROVE  /\ \A p \in Page : view'[p] \cup disk'[p] \subseteq written'
         /\ \A p \in DOMAIN before' : before'[p] \subseteq written'
         /\ ~inTx' => before' = <<>>
<1>1. CASE UNCHANGED pager
  BY <1>1 DEF RowsInv, pager
<1>2. CASE inTx /\ (PagerCommit \/ PagerRollback)
  <2>1. before' = <<>> /\ DOMAIN before' = {}
    BY <1>2 DEF PagerCommit, PagerRollback
  <2>2. CASE PagerCommit
    BY <1>2, <2>1, <2>2 DEF PagerCommit, RowsInv
  <2>3. CASE PagerRollback
    BY <1>2, <2>1, <2>3 DEF PagerRollback, Restored, RowsInv
  <2> QED
    BY <1>2, <2>2, <2>3
<1> QED
  BY <1>1, <1>2 DEF TxCommit, TxRollback, PagerCommit, PagerRollback

\* Running an opcode changes only what is left to run.
LEMMA AdvanceKeeps ==
  ASSUME Advance
  PROVE  /\ stmt'.kind = stmt.kind /\ stmt'.wasInTx = stmt.wasInTx /\ stmt'.rows = stmt.rows
         /\ stmt'.ops = Tail(stmt.ops)
BY DEF Advance

LEMMA RowsStep == TypeOK /\ RowsInv /\ [Next]_vars => RowsInv'
<1> SUFFICES ASSUME TypeOK, RowsInv, [Next]_vars PROVE RowsInv'
  OBVIOUS
<1>1. ASSUME NEW kind \in Kind, Execute(kind) PROVE RowsInv'
  BY <1>1 DEF Execute, RowsInv, pager
<1>2. CASE OpBegin \/ OpSavepoint
  <2>1. UNCHANGED <<view, disk, written, history>> /\ stmt'.rows = stmt.rows
    <3>1. UNCHANGED <<written, history>> /\ stmt'.rows = stmt.rows
      BY <1>2, AdvanceKeeps DEF OpBegin, OpSavepoint
    <3>2. UNCHANGED <<view, disk>>
      BY <1>2 DEF OpBegin, OpSavepoint, BeginWrite, TxSavepoint, PagerBegin, pager
    <3> QED
      BY <3>1, <3>2
  <2>2. UNCHANGED <<before, inTx>> \/ (before' = <<>> /\ DOMAIN before' = {})
    BY <1>2 DEF OpBegin, OpSavepoint, BeginWrite, TxSavepoint, PagerBegin, pager
  <2> QED
    BY <2>1, <2>2 DEF RowsInv, history
<1>3. CASE OpCommit \/ OpRollback
  <2>1. UNCHANGED <<written, history>> /\ stmt'.rows = stmt.rows /\ (TxCommit \/ TxRollback)
    BY <1>3, AdvanceKeeps DEF OpCommit, OpRollback
  <2>2. /\ \E n \in 0..MaxRows : written' = 1..n
        /\ inside' \cup acked' \cup undone' \cup stmt'.rows \subseteq written'
    BY <2>1 DEF RowsInv, history
  <2> QED
    BY <2>1, <2>2, EndKeepsRows DEF RowsInv
<1>4. ASSUME NEW p \in Page, NEW flush \in BOOLEAN, OpWrite(p, flush) PROVE RowsInv'
  <2> DEFINE r == Cardinality(written) + 1
  <2>1. r <= MaxRows /\ written' = written \cup {r} /\ \E n \in 0..MaxRows : written' = 1..n
    BY <1>4, NextIsNew DEF OpWrite
  <2> HIDE DEF r
  <2>2. inside' \cup acked' \cup undone' \cup stmt'.rows \subseteq written'
    BY <1>4, <2>1 DEF OpWrite, RowsInv, history, r
  <2>3. \A q \in Page : view'[q] \subseteq written'
    BY <1>4, <2>1 DEF OpWrite, RowsInv, TypeOK, r
  <2>4. \A q \in Page : disk'[q] \in {view'[q], disk[q]}
    BY <1>4 DEF OpWrite, TypeOK
  <2>5. \A q \in Page : disk'[q] \subseteq written'
    BY <2>1, <2>3, <2>4 DEF RowsInv
  <2>6. \A q \in DOMAIN before' : before'[q] \in {disk[q]} \/ (q \in DOMAIN before /\ before'[q] = before[q])
    BY <1>4 DEF OpWrite
  <2>7. \A q \in DOMAIN before' : before'[q] \subseteq written'
    <3>1. DOMAIN before' \subseteq Page
      BY <1>4 DEF OpWrite, TypeOK
    <3> QED
      BY <2>1, <2>6, <3>1 DEF RowsInv
  <2>8. ~inTx' => before' = <<>>
    BY <1>4 DEF OpWrite, RowsInv
  <2> QED
    BY <2>1, <2>2, <2>3, <2>5, <2>7, <2>8 DEF RowsInv
<1>5. CASE Finish
  <2>1. (TxCommit \/ UNCHANGED <<state, pager>>) /\ UNCHANGED written
    BY <1>5 DEF Finish, Acknowledge
  <2>2. /\ \A q \in Page : view'[q] \cup disk'[q] \subseteq written'
        /\ \A q \in DOMAIN before' : before'[q] \subseteq written'
        /\ ~inTx' => before' = <<>>
    BY <2>1, EndKeepsRows DEF RowsInv, pager
  <2>3. inside' \cup acked' \cup undone' \cup stmt'.rows \subseteq written'
    BY <1>5, <2>1 DEF Finish, Acknowledge, NoStatement, RowsInv
  <2> QED
    BY <2>1, <2>2, <2>3 DEF RowsInv
<1>6. CASE Fail
  BY <1>6 DEF Fail, NoStatement, RowsInv, pager
<1>7. CASE LoseCommit
  <2>1. PagerRollback /\ UNCHANGED <<written, inside, acked, undone>> /\ stmt'.rows = {}
    BY <1>7 DEF LoseCommit, NoStatement
  <2> QED
    BY <2>1, EndKeepsRows DEF RowsInv
<1>8. CASE Reopen
  <2>1. before' = <<>> /\ DOMAIN before' = {}
    BY <1>8 DEF Reopen
  <2>2. stmt'.rows = {} /\ inside' = {} /\ UNCHANGED <<disk, written, acked, undone>> /\ view' = disk
    BY <1>8 DEF Reopen, NoStatement
  <2> QED
    BY <2>1, <2>2 DEF RowsInv
<1>9. CASE UNCHANGED vars
  BY <1>9 DEF vars, pager, history, RowsInv
<1> QED
  BY <1>1, <1>2, <1>3, <1>4, <1>5, <1>6, <1>7, <1>8, <1>9 DEF Next

-----------------------------------------------------------------------------
(* What was acknowledged stays *)

Context == TypeOK /\ StateAgrees /\ ShapeInv /\ RowsInv

LEMMA ContextInit == Init => Context
<1> SUFFICES ASSUME Init PROVE Context
  OBVIOUS
<1>1. /\ Idle /\ stmt.rows = {} /\ inside = {} /\ acked = {} /\ undone = {} /\ written = {}
      /\ state = "NONE" /\ before = <<>> /\ DOMAIN before = {} /\ ~inTx
      /\ \A p \in Page : view[p] = {} /\ disk[p] = {}
  BY DEF Init, NoStatement, Idle
<1>2. ShapeInv /\ StateAgrees
  BY <1>1 DEF ShapeInv, StateAgrees
<1>3. 0 \in 0..MaxRows /\ written = 1..0
  BY <1>1, MaxRowsAssumption
<1>4. RowsInv
  BY <1>1, <1>3 DEF RowsInv
<1> QED
  BY <1>2, <1>4, TypeInit DEF Context

\* Without a transaction, the file has what the pages have.
LEMMA Settled ==
  ASSUME Context, Lossless, CleanInv, state = "NONE", ~Creating
  PROVE  before = <<>> /\ dirty = {} /\ view = disk
<1>1. ~inTx
  BY DEF Context, StateAgrees, Lossless
<1>2. before = <<>> /\ DOMAIN before = {}
  BY <1>1 DEF Context, RowsInv
<1>3. dirty = {}
  BY <1>2 DEF CleanInv
<1>4. \A p \in Page : view[p] = disk[p]
  BY <1>3 DEF CleanInv
<1> QED
  BY <1>2, <1>3, <1>4 DEF Context, TypeOK

\* Nor does it matter to the pages that a transaction is ended which has
\* written nothing; the end of any other writes them to the file.
Flushed ==
  /\ view' = view /\ disk' = view /\ dirty' = {}
  /\ before' = <<>> /\ DOMAIN before' = {} /\ state' = "NONE"

LEMMA CommitFlushes ==
  ASSUME Context, Lossless, CleanInv, TxCommit,
         state = "READ" => before = <<>> /\ dirty = {},
         ~(Creating /\ state = "NONE")
  PROVE  Flushed
<1>1. CASE state = "NONE"
  BY <1>1, Settled DEF TxCommit, pager, Flushed
<1>2. CASE state = "READ"
  <2>1. inTx /\ PagerRollback /\ state' = "NONE"
    BY <1>2 DEF TxCommit, Context, StateAgrees, Lossless
  <2>2. before = <<>> /\ DOMAIN before = {} /\ dirty = {}
    BY <1>2
  <2>3. view = disk
    BY <2>2 DEF CleanInv, Context, TypeOK
  <2>4. view' = view /\ disk' = disk
    BY <2>1, <2>2 DEF PagerRollback, Restored, Context, TypeOK
  <2> QED
    BY <2>1, <2>2, <2>3, <2>4 DEF PagerRollback, Flushed
<1>3. CASE state = "WRITE"
  <2>1. inTx /\ PagerCommit /\ state' = "NONE"
    BY <1>3 DEF TxCommit, Context, StateAgrees, Lossless
  <2>2. disk' = [p \in Page |-> IF p \in dirty THEN view[p] ELSE disk[p]]
    BY <2>1 DEF PagerCommit
  <2>3. disk' = view
    BY <2>2 DEF CleanInv, Context, TypeOK
  <2>4. view' = view /\ dirty' = {} /\ before' = <<>> /\ DOMAIN before' = {}
    BY <2>1 DEF PagerCommit
  <2> QED
    BY <2>1, <2>3, <2>4 DEF Flushed
<1> QED
  BY <1>1, <1>2, <1>3 DEF Context, TypeOK

\* The rows acknowledged are there for readers.
LEMMA AckedRead ==
  ASSUME StayInv
  PROVE  acked \subseteq Rows(view)
<1> SUFFICES ASSUME NEW r \in acked PROVE r \in Rows(view)
  OBVIOUS
<1>1. PICK p \in Page : r \in disk[p]
  BY DEF StayInv, Rows
<1>2. r \in view[p]
  BY <1>1 DEF StayInv
<1> QED
  BY <1>2 DEF Rows

\* Once the pages are in the file, whatever of them is acknowledged stays.
LEMMA FlushedStays ==
  ASSUME Flushed, acked' \subseteq Rows(view), stmt'.rows \subseteq Rows(view),
         inside' \subseteq Rows(view)
  PROVE  CleanInv' /\ StayInv'
<1>1. CleanInv'
  BY DEF Flushed, CleanInv
<1>2. Rows(view)' = Rows(view) /\ Rows(disk)' = Rows(view)
  BY DEF Flushed, Rows
<1>3. \A p \in Page : acked' \cap view'[p] = acked' \cap disk'[p]
  BY DEF Flushed
<1>4. \A p \in DOMAIN before' : acked' \cap before'[p] = acked' \cap disk'[p]
  BY DEF Flushed
<1> QED
  BY <1>1, <1>2, <1>3, <1>4 DEF StayInv

\* What is left of a statement that has yet to run an opcode.
LEMMA KindOf ==
  ASSUME ShapeInv, NEW op, At(op)
  PROVE  /\ ~Idle /\ stmt.ops # <<>> /\ Head(stmt.ops) = op
         /\ op = "begin" => stmt.kind \in {"BEGIN", "INSERT", "UPDATE", "DELETE",
                                           "INSERTSELECT", "TRIGGERED", "CREATETABLE"}
         /\ op = "commit" => stmt.kind \in {"COMMIT", "SELECT", "INSERTSELECT"}
         /\ op = "rollback" => stmt.kind = "ROLLBACK"
         /\ op = "savepoint" => stmt.kind = "SAVEPOINT"
         /\ op = "write" => stmt.kind \in {"INSERT", "UPDATE", "DELETE", "INSERTSELECT",
                                           "TRIGGERED", "CREATETABLE"}
         /\ op = "savepoint" => Tail(stmt.ops) = <<>>
         /\ op = "write" /\ stmt.kind = "CREATETABLE" => Tail(stmt.ops) # <<>>
<1>0. ~Idle /\ stmt.ops # <<>> /\ Head(stmt.ops) = op /\ stmt.kind \in Kind /\ stmt.ops \in Left(stmt.kind)
  BY DEF At, ShapeInv
<1>1. stmt.kind \in {"BEGIN", "COMMIT", "ROLLBACK", "SAVEPOINT", "RELEASE", "SELECT", "INSERT",
                    "UPDATE", "DELETE", "INSERTSELECT", "TRIGGERED", "CREATETABLE"}
  BY <1>0 DEF Kind, Program
<1>2. CASE stmt.kind = "BEGIN"
  <2>1. stmt.ops \in {<<"begin">>, <<>>}
    BY <1>0, <1>2 DEF Left
  <2>2. op \in {"begin"}
    BY <1>0, <2>1
  <2> QED
    BY <1>0, <1>2, <2>2
<1>3. CASE stmt.kind \in {"COMMIT", "SELECT"}
  <2>1. stmt.ops \in {<<"commit">>, <<>>}
    BY <1>0, <1>3 DEF Left
  <2>2. op \in {"commit"}
    BY <1>0, <2>1
  <2> QED
    BY <1>0, <1>3, <2>2
<1>4. CASE stmt.kind = "ROLLBACK"
  <2>1. stmt.ops \in {<<"rollback">>, <<>>}
    BY <1>0, <1>4 DEF Left
  <2>2. op \in {"rollback"}
    BY <1>0, <2>1
  <2> QED
    BY <1>0, <1>4, <2>2
<1>5. CASE stmt.kind = "SAVEPOINT"
  <2>1. stmt.ops \in {<<"savepoint">>, <<>>}
    BY <1>0, <1>5 DEF Left
  <2>2. stmt.ops = <<"savepoint">>
    BY <1>0, <2>1
  <2>3. op = "savepoint" /\ Tail(stmt.ops) = <<>>
    BY <1>0, <2>2
  <2> QED
    BY <1>0, <1>5, <2>3
<1>6. CASE stmt.kind = "RELEASE"
  BY <1>0, <1>6 DEF Left
<1>7. CASE stmt.kind \in {"INSERT", "UPDATE", "DELETE"}
  <2>1. stmt.ops \in {<<"begin", "write">>, <<"write">>, <<>>}
    BY <1>0, <1>7 DEF Left
  <2>2. op \in {"begin", "write"}
    BY <1>0, <2>1
  <2> QED
    BY <1>0, <1>7, <2>2
<1>8. CASE stmt.kind = "INSERTSELECT"
  <2>1. stmt.ops \in {<<"begin", "commit", "write">>, <<"commit", "write">>, <<"write">>, <<>>}
    BY <1>0, <1>8 DEF Left
  <2>2. op \in {"begin", "commit", "write"}
    BY <1>0, <2>1
  <2> QED
    BY <1>0, <1>8, <2>2
<1>9. CASE stmt.kind = "TRIGGERED"
  <2>1. stmt.ops \in {<<"begin", "write", "begin", "write">>, <<"write", "begin", "write">>,
                   <<"begin", "write">>, <<"write">>, <<>>}
    BY <1>0, <1>9 DEF Left
  <2>2. op \in {"begin", "write"}
    BY <1>0, <2>1
  <2> QED
    BY <1>0, <1>9, <2>2
<1>10. CASE stmt.kind = "CREATETABLE"
  <2>1. stmt.ops \in {<<"write", "begin">>, <<"begin">>, <<>>}
    BY <1>0, <1>10 DEF Left
  <2>2. CASE stmt.ops = <<"write", "begin">>
    <3>1. op = "write" /\ Tail(stmt.ops) = <<"begin">>
      BY <1>0, <2>2
    <3>2. Tail(stmt.ops) # <<>>
      BY <3>1
    <3> QED
      BY <1>0, <1>10, <3>1, <3>2
  <2>3. CASE stmt.ops = <<"begin">>
    <3>1. op = "begin"
      BY <1>0, <2>3
    <3> QED
      BY <1>0, <1>10, <3>1
  <2> QED
    BY <1>0, <2>1, <2>2, <2>3
<1> QED
  BY <1>1, <1>2, <1>3, <1>4, <1>5, <1>6, <1>7, <1>8, <1>9, <1>10

\* The programs of a single opcode leave nothing once it has run.
LEMMA OneOpcode ==
  ASSUME ShapeInv, ~Idle, stmt.ops # <<>>, stmt.kind \in {"COMMIT", "SELECT", "ROLLBACK"}
  PROVE  Tail(stmt.ops) = <<>>
<1>1. \E op : stmt.ops = <<op>>
  BY DEF ShapeInv, Left
<1> QED
  BY <1>1

LEMMA KeepStep == Context /\ KeepInv /\ [Next]_vars => KeepInv'
<1> SUFFICES ASSUME Context, KeepInv, [Next]_vars, Lossless'
             PROVE  WhereInv' /\ CleanInv' /\ StayInv'
  BY DEF KeepInv
<1>0. Lossless /\ WhereInv /\ CleanInv /\ StayInv
  <2>1. odd \subseteq odd'
    BY DEF Next, Execute, OpBegin, OpCommit, OpRollback, OpSavepoint, OpWrite, Finish, Acknowledge,
           Fail, LoseCommit, Reopen, vars, history
  <2> QED
    BY <2>1 DEF Lossless, KeepInv
<1>a. ShapeInv /\ ShapeInv' /\ StateAgrees' /\ (state \in {"NONE", "READ", "WRITE"})
      /\ acked \subseteq Rows(view)
  BY <1>0, ShapeStep, AgreeStep, AckedRead DEF Context, TypeOK
<1>b. (inTx <=> state # "NONE") /\ (inTx' <=> state' # "NONE")
  BY <1>0, <1>a DEF Context, StateAgrees, Lossless
<1>1. ASSUME NEW kind \in Kind, Execute(kind)
      PROVE  WhereInv' /\ CleanInv' /\ StayInv'
  <2>1. UNCHANGED <<state, view, disk, dirty, inTx, before, explicit, inside, acked>> /\ Idle
    BY <1>1 DEF Execute, pager
  <2>2. /\ stmt'.kind = kind /\ stmt'.ops = Program[kind] /\ (stmt'.wasInTx <=> state # "NONE")
        /\ stmt'.rows = {} /\ kind # "idle" /\ ~Idle'
    BY <1>1 DEF Execute, Kind, Program, Idle
  <2>3. kind # "INSERTSELECT"
    BY <1>1 DEF Execute, Lossless
  <2>4. kind \in {"COMMIT", "ROLLBACK", "INSERT", "UPDATE", "DELETE", "TRIGGERED", "CREATETABLE"}
          => Program[kind] # <<>>
    <3>1. CASE kind = "TRIGGERED"
      BY <3>1, TriggeredLong DEF Program
    <3>2. CASE kind # "TRIGGERED"
      BY <3>2 DEF Program, InsertProgram, UpdateProgram, DeleteProgram, CreateTableProgram
    <3> QED
      BY <3>1, <3>2
  <2>5. kind \in {"INSERT", "UPDATE", "DELETE", "TRIGGERED"} => Head(Program[kind]) = "begin"
    <3>1. CASE kind = "TRIGGERED"
      BY <3>1, TriggeredLong DEF Program
    <3>2. CASE kind # "TRIGGERED"
      BY <3>2 DEF Program, InsertProgram, UpdateProgram, DeleteProgram
    <3> QED
      BY <3>1, <3>2
  <2>6. state # "READ" /\ (~explicit => state = "NONE")
    BY <1>0, <2>1 DEF WhereInv
  <2>7. WhereInv'
    BY <2>1, <2>2, <2>3, <2>4, <2>5, <2>6 DEF WhereInv
  <2>8. CleanInv'
    BY <1>0, <2>1 DEF CleanInv, Creating
  <2>9. StayInv'
    BY <1>0, <2>1, <2>2 DEF StayInv, Rows
  <2> QED
    BY <2>7, <2>8, <2>9
<1>2. CASE OpBegin
  <2>1. /\ stmt.kind \in {"BEGIN", "INSERT", "UPDATE", "DELETE", "TRIGGERED", "CREATETABLE"}
        /\ state # "READ" /\ ~Idle /\ stmt.ops # <<>>
    BY <1>0, <1>2, <1>a, KindOf DEF OpBegin, WhereInv
  <2>2. /\ stmt'.kind = stmt.kind /\ stmt'.wasInTx = stmt.wasInTx /\ stmt'.rows = stmt.rows
        /\ UNCHANGED <<view, disk, dirty, explicit, inside, acked>> /\ state' = "WRITE" /\ ~Idle'
    BY <1>2, <2>1, AdvanceKeeps DEF OpBegin, BeginWrite, PagerBegin, pager, history, Idle
  <2>3. before' = before
    BY <1>2, <1>b DEF OpBegin, BeginWrite, PagerBegin, pager, Context, RowsInv
  <2>4. WhereInv'
    BY <1>0, <2>1, <2>2, <2>3 DEF WhereInv
  <2>5. CleanInv'
    BY <1>0, <2>1, <2>2, <2>3 DEF CleanInv, Creating
  <2>6. StayInv'
    BY <1>0, <2>1, <2>2, <2>3 DEF StayInv, Rows
  <2> QED
    BY <2>4, <2>5, <2>6
<1>3. CASE OpCommit
  <2>1. stmt.kind \in {"COMMIT", "SELECT"} /\ ~Idle /\ state # "READ" /\ ~Creating
    BY <1>0, <1>3, <1>a, KindOf DEF OpCommit, WhereInv, Creating
  <2>2. /\ stmt'.kind = stmt.kind /\ stmt'.wasInTx = stmt.wasInTx /\ stmt'.rows = stmt.rows
        /\ UNCHANGED <<explicit, inside, acked>> /\ ~Idle'
    BY <1>3, <2>1, AdvanceKeeps DEF OpCommit, history, Idle
  <2>3. Flushed
    BY <1>0, <1>3, <2>1, CommitFlushes DEF OpCommit
  <2>4. WhereInv'
    BY <1>0, <2>1, <2>2, <2>3 DEF WhereInv, Flushed
  <2>5. inside \subseteq Rows(view)
    BY <1>0, <2>1 DEF StayInv
  <2>6. CleanInv' /\ StayInv'
    BY <1>0, <1>a, <2>2, <2>3, <2>5, FlushedStays DEF StayInv
  <2> QED
    BY <2>4, <2>6
<1>4. CASE OpRollback
  <2>1. /\ stmt.kind = "ROLLBACK" /\ ~Idle /\ stmt.ops # <<>> /\ ~Creating /\ stmt.rows = {}
        /\ state # "READ"
    BY <1>0, <1>4, <1>a, KindOf DEF OpRollback, WhereInv, Creating
  <2>2. /\ stmt'.kind = stmt.kind /\ stmt'.wasInTx = stmt.wasInTx /\ stmt'.rows = stmt.rows
        /\ UNCHANGED <<explicit, inside, acked>> /\ ~Idle'
    BY <1>4, <2>1, AdvanceKeeps DEF OpRollback, history, Idle
  <2>3. state' = "NONE"
    BY <1>4 DEF OpRollback, TxRollback
  <2>4. WhereInv'
    BY <1>0, <2>1, <2>2, <2>3 DEF WhereInv
  <2>5. CASE state = "NONE"
    <3>1. UNCHANGED pager
      BY <1>4, <2>5 DEF OpRollback, TxRollback
    <3> QED
      BY <1>0, <2>1, <2>2, <2>4, <3>1 DEF CleanInv, StayInv, Creating, Rows, pager
  <2>6. CASE state # "NONE"
    <3>1. /\ dirty' = {} /\ before' = <<>> /\ DOMAIN before' = {}
          /\ disk' = Restored(disk) /\ view' = Restored(view)
      BY <1>4, <1>b, <2>6 DEF OpRollback, TxRollback, PagerRollback
    <3>2. \A p \in Page : view'[p] = disk'[p]
      BY <1>0, <2>1, <3>1 DEF Restored, CleanInv
    <3>3. \A p \in Page : acked \cap disk'[p] = acked \cap disk[p]
      BY <1>0, <3>1 DEF Restored, StayInv
    <3>4. acked \subseteq Rows(disk)'
      BY <1>0, <3>3 DEF StayInv, Rows
    <3>5. CleanInv'
      BY <3>1, <3>2 DEF CleanInv
    <3>6. StayInv'
      BY <2>1, <2>2, <3>1, <3>2, <3>4 DEF StayInv
    <3> QED
      BY <2>4, <3>5, <3>6
  <2> QED
    BY <2>5, <2>6
<1>5. CASE OpSavepoint
  <2>1. stmt.kind = "SAVEPOINT" /\ ~Idle /\ ~Creating /\ stmt.ops # <<>> /\ Tail(stmt.ops) = <<>>
        /\ state # "READ"
    BY <1>0, <1>5, <1>a, KindOf DEF OpSavepoint, WhereInv, Creating
  <2>2. /\ stmt'.kind = stmt.kind /\ stmt'.wasInTx = stmt.wasInTx /\ stmt'.rows = stmt.rows
        /\ stmt'.ops = <<>> /\ UNCHANGED <<explicit, inside, acked>> /\ ~Idle'
    BY <1>5, <2>1, AdvanceKeeps DEF OpSavepoint, history, Idle
  <2>3. UNCHANGED <<view, disk, dirty, before>>
    BY <1>5, <1>b DEF OpSavepoint, TxSavepoint, PagerBegin, pager, Context, RowsInv
  <2>4. state' = "READ" => before = <<>> /\ dirty = {} /\ ~stmt.wasInTx
    BY <1>0, <1>5, <2>1, Settled DEF OpSavepoint, TxSavepoint, WhereInv
  <2>5. WhereInv'
    BY <1>0, <1>5, <2>1, <2>2, <2>3, <2>4 DEF OpSavepoint, TxSavepoint, WhereInv
  <2>6. CleanInv'
    BY <1>0, <2>1, <2>2, <2>3 DEF CleanInv, Creating
  <2>7. StayInv'
    BY <1>0, <2>1, <2>2, <2>3 DEF StayInv, Rows
  <2> QED
    BY <2>5, <2>6, <2>7
<1>6. ASSUME NEW p \in Page, NEW flush \in BOOLEAN, OpWrite(p, flush)
      PROVE  WhereInv' /\ CleanInv' /\ StayInv'
  <2> DEFINE r == Cardinality(written) + 1
  <2>1. /\ stmt.kind \in {"INSERT", "UPDATE", "DELETE", "TRIGGERED", "CREATETABLE"} /\ ~Idle
        /\ stmt.ops # <<>> /\ Head(stmt.ops) = "write" /\ state # "READ"
        /\ stmt.kind = "CREATETABLE" => Tail(stmt.ops) # <<>>
    BY <1>0, <1>6, <1>a, KindOf DEF OpWrite, WhereInv
  <2>2. inTx \/ Creating
    BY <1>0, <1>b, <2>1 DEF WhereInv, Creating
  <2>3. /\ stmt'.kind = stmt.kind /\ stmt'.wasInTx = stmt.wasInTx /\ stmt'.rows = stmt.rows \cup {r}
        /\ stmt'.ops = Tail(stmt.ops) /\ UNCHANGED <<state, explicit, inside, acked>> /\ ~Idle'
    BY <1>6, <2>1 DEF OpWrite, history, Idle
  <2>4. r \notin acked
    BY NextIsNew DEF Context, RowsInv
  <2>5. view' = [view EXCEPT ![p] = @ \cup {r}] /\ \A q \in Page \ {p} : view'[q] = view[q]
    BY <1>6 DEF OpWrite, Context, TypeOK
  <2> HIDE DEF r
  <2>6. view'[p] = view[p] \cup {r}
    BY <2>5 DEF Context, TypeOK
  <2>7. \A q \in Page : disk'[q] = disk[q] \/ disk'[q] = view'[q]
    BY <1>6 DEF OpWrite
  <2>8. WhereInv'
    BY <1>0, <2>1, <2>3 DEF WhereInv
  <2>9. CleanInv'
    <3>1. \A q \in Page \ dirty' : view'[q] = disk'[q]
      BY <1>0, <1>6, <2>5 DEF OpWrite, CleanInv
    <3>2. dirty' \subseteq DOMAIN before' \/ Creating'
      <4>1. CASE Creating
        BY <2>3, <4>1 DEF Creating
      <4>2. CASE ~Creating
        <5>1. DOMAIN before' = DOMAIN before \cup {p} /\ dirty' \subseteq dirty \cup {p}
          BY <1>6, <2>2, <4>2 DEF OpWrite
        <5> QED
          BY <1>0, <4>2, <5>1 DEF CleanInv
      <4> QED
        BY <4>1, <4>2
    <3> QED
      BY <3>1, <3>2 DEF CleanInv
  <2>10. StayInv'
    <3>1. \A q \in Page : acked \cap view'[q] = acked \cap view[q]
      BY <2>4, <2>5, <2>6
    <3>2. \A q \in Page : acked \cap disk'[q] = acked \cap disk[q]
      BY <1>0, <2>7, <3>1 DEF StayInv
    <3>3. \A q \in DOMAIN before' : q \in Page /\ acked \cap before'[q] = acked \cap disk[q]
      BY <1>0, <1>6 DEF OpWrite, StayInv, Context, TypeOK
    <3>4. acked \subseteq Rows(disk)'
      BY <1>0, <3>2 DEF StayInv, Rows
    <3>5. \A q \in Page : view[q] \subseteq view'[q]
      BY <2>5, <2>6
    <3>6. Rows(view) \subseteq Rows(view)' /\ r \in Rows(view)'
      BY <2>6, <3>5 DEF Rows
    <3>7. stmt'.rows \subseteq Rows(view)' /\ inside' \subseteq Rows(view)'
      BY <1>0, <2>1, <2>3, <3>6 DEF StayInv
    <3> QED
      BY <1>0, <2>3, <3>1, <3>2, <3>3, <3>4, <3>7 DEF StayInv
  <2> QED
    BY <2>8, <2>9, <2>10
<1>7. CASE Finish
  <2>1. ~Idle /\ stmt.ops = <<>> /\ Idle' /\ stmt'.rows = {}
    BY <1>7 DEF Finish, Acknowledge, NoStatement, Idle
  <2>2. CASE AutoCommit \/ stmt.kind \in {"COMMIT", "ROLLBACK"}
    <3>1. Flushed
      <4>1. CASE AutoCommit
        <5>1. TxCommit
          BY <1>7, <4>1 DEF Finish
        <5>2. (state = "READ" => before = <<>> /\ dirty = {}) /\ ~(Creating /\ state = "NONE")
          BY <1>0, <2>1 DEF WhereInv, Creating
        <5> QED
          BY <1>0, <5>1, <5>2, CommitFlushes
      <4>2. CASE stmt.kind \in {"COMMIT", "ROLLBACK"}
        <5>1. UNCHANGED <<state, pager>> /\ state = "NONE" /\ ~Creating
          BY <1>0, <1>7, <2>1, <4>2 DEF Finish, AutoCommit, WhereInv, Creating
        <5> QED
          BY <1>0, <5>1, Settled DEF Flushed, pager
      <4> QED
        BY <2>2, <4>1, <4>2
    <3>2. /\ acked' \subseteq acked \cup stmt.rows \cup (IF stmt.kind = "COMMIT" THEN inside ELSE {})
          /\ inside' \subseteq (IF stmt.kind = "ROLLBACK" THEN {} ELSE inside) \cup stmt.rows
      BY <1>7, <2>2 DEF Finish, Acknowledge
    <3>3. acked' \subseteq Rows(view) /\ inside' \subseteq Rows(view)
      BY <1>0, <1>a, <3>2 DEF StayInv
    <3>4. WhereInv'
      BY <2>1, <3>1 DEF WhereInv, Flushed
    <3> QED
      BY <2>1, <3>1, <3>3, <3>4, FlushedStays
  <2>3. CASE ~AutoCommit /\ stmt.kind \notin {"COMMIT", "ROLLBACK"}
    <3>1. UNCHANGED <<state, view, disk, dirty, inTx, before>>
      BY <1>7, <2>3 DEF Finish, pager
    <3>2. stmt.kind = "BEGIN" \/ (stmt.wasInTx /\ explicit)
      BY <1>0, <2>1, <2>3 DEF AutoCommit, WhereInv
    <3>3. UNCHANGED acked /\ explicit' = TRUE /\ inside' \subseteq inside \cup stmt.rows
      BY <1>7, <2>3, <3>2 DEF Finish, Acknowledge, Context, TypeOK
    <3>4. state # "READ" /\ ~Creating
      BY <1>0, <3>2 DEF WhereInv, Creating
    <3>5. WhereInv'
      BY <2>1, <3>1, <3>3, <3>4 DEF WhereInv
    <3>6. CleanInv'
      BY <1>0, <3>1, <3>4 DEF CleanInv
    <3>7. Rows(view)' = Rows(view) /\ Rows(disk)' = Rows(disk)
      BY <3>1 DEF Rows
    <3>8. StayInv'
      BY <1>0, <2>1, <2>3, <3>1, <3>3, <3>7 DEF StayInv
    <3> QED
      BY <3>5, <3>6, <3>8
  <2> QED
    BY <2>2, <2>3
<1>8. CASE Fail \/ LoseCommit
  BY <1>8 DEF Fail, LoseCommit, Lossless
<1>9. CASE Reopen
  <2>1. /\ Idle' /\ stmt'.rows = {} /\ inside' = {} /\ explicit' = FALSE /\ state' = "NONE"
        /\ UNCHANGED <<disk, acked>> /\ view' = disk /\ dirty' = {} /\ before' = <<>>
        /\ DOMAIN before' = {}
    BY <1>9 DEF Reopen, NoStatement, Idle
  <2>2. Rows(disk)' = Rows(disk)
    BY <2>1 DEF Rows
  <2>3. WhereInv'
    BY <2>1 DEF WhereInv
  <2>4. CleanInv'
    BY <2>1 DEF CleanInv
  <2>5. StayInv'
    BY <1>0, <2>1, <2>2 DEF StayInv
  <2> QED
    BY <2>3, <2>4, <2>5
<1>10. CASE UNCHANGED vars
  BY <1>0, <1>10 DEF vars, pager, history, WhereInv, CleanInv, StayInv, Creating, Idle, Rows
<1> QED
  BY <1>1, <1>2, <1>3, <1>4, <1>5, <1>6, <1>7, <1>8, <1>9, <1>10 DEF Next

\* A statement or COMMIT that returned is not undone by reading in a
\* transaction, by savepoints or by reopening, in any order.
THEOREM Keeps == Spec => []KeepsAcknowledged
<1>1. Init => Context /\ KeepInv
  <2> SUFFICES ASSUME Init PROVE KeepInv
    BY ContextInit
  <2>1. /\ Idle /\ stmt.rows = {} /\ inside = {} /\ acked = {}
        /\ state = "NONE" /\ dirty = {} /\ DOMAIN before = {}
        /\ \A p \in Page : view[p] = {} /\ disk[p] = {}
    BY DEF Init, NoStatement, Idle
  <2> QED
    BY <2>1 DEF KeepInv, WhereInv, CleanInv, StayInv
<1>2. Context /\ KeepInv /\ [Next]_vars => (Context /\ KeepInv)'
  BY TypeStep, AgreeStep, ShapeStep, RowsStep, KeepStep DEF Context
<1>3. Context /\ KeepInv => KeepsAcknowledged
  <2> SUFFICES ASSUME Context, KeepInv, Lossless PROVE Acked
    BY DEF KeepsAcknowledged, Lossless
  <2>1. StayInv
    BY DEF KeepInv
  <2> QED
    BY <2>1, AckedRead DEF Acked, StayInv
<1> QED
  BY <1>1, <1>2, <1>3, PTL DEF Spec

-----------------------------------------------------------------------------
(* What was rolled back is gone *)

\* No page, and no before-image, has a row of S.
Nowhere(S) ==
  /\ \A p \in Page : S \cap (view[p] \cup disk[p]) = {}
  /\ \A p \in DOMAIN before : S \cap before[p] = {}

\* The end of a transaction, and what begins one, brings no row to a page that
\* was not there before.
LEMMA EndBringsNone ==
  ASSUME Context, NEW S, Nowhere(S),
         TxCommit \/ TxRollback \/ BeginWrite \/ TxSavepoint \/ UNCHANGED pager
  PROVE  /\ \A p \in Page : S \cap (view'[p] \cup disk'[p]) = {}
         /\ \A p \in DOMAIN before' : S \cap before'[p] = {}
<1>1. CASE UNCHANGED pager
  BY <1>1 DEF Nowhere, pager
<1>2. CASE PagerBegin
  <2>1. UNCHANGED <<view, disk>> /\ DOMAIN before' = {}
    BY <1>2 DEF PagerBegin
  <2> QED
    BY <2>1 DEF Nowhere
<1>3. CASE inTx /\ PagerCommit
  <2>1. UNCHANGED view /\ DOMAIN before' = {} /\ \A p \in Page : disk'[p] \in {view[p], disk[p]}
    BY <1>3 DEF PagerCommit
  <2> QED
    BY <2>1 DEF Nowhere
<1>4. CASE inTx /\ PagerRollback
  <2>1. DOMAIN before' = {} /\ view' = Restored(view) /\ disk' = Restored(disk)
    BY <1>4 DEF PagerRollback
  <2> QED
    BY <2>1 DEF Nowhere, Restored
<1> QED
  BY <1>1, <1>2, <1>3, <1>4
  DEF TxCommit, TxRollback, BeginWrite, TxSavepoint, PagerCommit, PagerRollback

LEMMA UndoStep == Context /\ UndoInv /\ [Next]_vars => UndoInv'
<1> SUFFICES ASSUME Context, UndoInv, [Next]_vars, Undoing'
             PROVE  GoneInv'
  BY DEF UndoInv
<1>0. Undoing /\ GoneInv
  <2>1. odd \subseteq odd'
    BY DEF Next, Execute, OpBegin, OpCommit, OpRollback, OpSavepoint, OpWrite, Finish, Acknowledge,
           Fail, LoseCommit, Reopen, vars, history
  <2> QED
    BY <2>1 DEF Undoing, UndoInv
<1>a. Nowhere(undone)
  BY <1>0 DEF GoneInv, Nowhere
<1>b. (inTx <=> state # "NONE") /\ (inTx' <=> state' # "NONE")
  BY <1>0, AgreeStep DEF Context, StateAgrees, Undoing
<1>c. ShapeInv /\ explicit \in BOOLEAN /\ stmt.wasInTx \in BOOLEAN
  BY DEF Context, TypeOK
<1>1. ASSUME NEW kind \in Kind, Execute(kind) PROVE GoneInv'
  <2>1. UNCHANGED <<state, view, disk, dirty, inTx, before, explicit, inside, undone>> /\ Idle
    BY <1>1 DEF Execute, pager
  <2>2. /\ stmt'.kind = kind /\ stmt'.ops = Program[kind] /\ (stmt'.wasInTx <=> state # "NONE")
        /\ stmt'.rows = {} /\ ~Idle'
    BY <1>1 DEF Execute, Kind, Program, Idle
  <2>3. kind # "INSERTSELECT" /\ (explicit => kind # "SELECT")
    BY <1>1 DEF Execute, Undoing
  <2>4. kind \in {"BEGIN", "COMMIT", "ROLLBACK"} => Program[kind] # <<>>
    BY Programs
  <2>5. ~Ended /\ ~Ended' /\ (explicit => inTx)
    BY <1>0, <2>1, <2>2, <2>4 DEF Ended, GoneInv
  <2>6. Own' \subseteq Own
    BY <2>1, <2>2 DEF Own
  <2> QED
    BY <1>0, <1>b, <2>1, <2>2, <2>3, <2>4, <2>5, <2>6 DEF GoneInv
<1>2. CASE OpBegin \/ OpSavepoint
  <2>1. /\ ~Idle /\ stmt.ops # <<>> /\ stmt.kind \notin {"COMMIT", "ROLLBACK"}
        /\ stmt'.kind = stmt.kind /\ stmt'.wasInTx = stmt.wasInTx /\ stmt'.rows = stmt.rows
        /\ UNCHANGED <<view, disk, explicit, inside, undone>> /\ ~Idle'
    <3>1. ~Idle /\ stmt.ops # <<>> /\ stmt.kind \notin {"COMMIT", "ROLLBACK"}
      BY <1>2, <1>c, KindOf DEF OpBegin, OpSavepoint
    <3>2. UNCHANGED <<written, history>> /\ Advance
      BY <1>2 DEF OpBegin, OpSavepoint
    <3>3. UNCHANGED <<view, disk>>
      BY <1>2 DEF OpBegin, OpSavepoint, BeginWrite, TxSavepoint, PagerBegin, pager
    <3> QED
      BY <3>1, <3>2, <3>3, AdvanceKeeps DEF history, Idle
  <2>2. ~Ended /\ ~Ended' /\ inTx'
    <3>1. state' # "NONE"
      BY <1>2 DEF OpBegin, OpSavepoint, BeginWrite, TxSavepoint
    <3> QED
      BY <1>b, <2>1, <3>1 DEF Ended
  <2>3. /\ \A p \in Page : undone' \cap (view'[p] \cup disk'[p]) = {}
        /\ \A p \in DOMAIN before' : undone' \cap before'[p] = {}
    BY <1>2, <1>a, <2>1, EndBringsNone DEF OpBegin, OpSavepoint
  <2>4. Own' = Own
    BY <2>1 DEF Own
  <2>5. /\ \A p \in DOMAIN before' : Own' \cap before'[p] = {}
        /\ \A p \in Page \ DOMAIN before' : Own' \cap (view'[p] \cup disk'[p]) = {}
    <3>1. CASE explicit
      <4>1. before' = before
        BY <1>0, <1>2, <1>b, <2>2, <3>1 DEF GoneInv, OpBegin, OpSavepoint, BeginWrite, TxSavepoint, pager
      <4> QED
        BY <1>0, <2>1, <2>2, <2>4, <4>1 DEF GoneInv
    <3>2. CASE ~explicit
      BY <1>0, <2>4, <3>2 DEF GoneInv, Own
    <3> QED
      BY <3>1, <3>2
  <2> QED
    BY <1>0, <2>1, <2>2, <2>3, <2>5 DEF GoneInv
<1>3. CASE OpCommit
  <2>1. stmt.kind \in {"COMMIT", "SELECT"} /\ ~Idle /\ stmt.ops # <<>> /\ ~Ended
    BY <1>0, <1>3, <1>c, KindOf DEF OpCommit, GoneInv, Ended
  <2>2. /\ stmt'.kind = stmt.kind /\ stmt'.wasInTx = stmt.wasInTx /\ stmt'.rows = stmt.rows
        /\ UNCHANGED <<explicit, inside, undone>> /\ ~Idle' /\ stmt'.ops = Tail(stmt.ops)
    BY <1>3, <2>1, AdvanceKeeps DEF OpCommit, history, Idle
  <2>3. /\ \A p \in Page : undone' \cap (view'[p] \cup disk'[p]) = {}
        /\ \A p \in DOMAIN before' : undone' \cap before'[p] = {}
    BY <1>3, <1>a, <2>2, EndBringsNone DEF OpCommit
  <2>4. ~inTx'
    BY <1>3, <1>b DEF OpCommit, TxCommit
  <2>5. stmt'.ops = <<>>
    BY <1>c, <2>1, <2>2, OneOpcode
  <2>6. stmt.kind = "COMMIT" \/ ~explicit
    BY <1>0, <2>1 DEF GoneInv
  <2>7. ~explicit => Own' = {}
    BY <1>0, <2>2 DEF GoneInv, Own
  <2> QED
    BY <1>0, <2>1, <2>2, <2>3, <2>4, <2>5, <2>6, <2>7 DEF GoneInv, Ended
<1>4. CASE OpRollback
  <2>1. stmt.kind = "ROLLBACK" /\ ~Idle /\ stmt.ops # <<>> /\ ~Ended
    BY <1>4, <1>c, KindOf DEF OpRollback, Ended
  <2>2. /\ stmt'.kind = stmt.kind /\ stmt'.wasInTx = stmt.wasInTx /\ stmt'.rows = stmt.rows
        /\ UNCHANGED <<explicit, inside, undone>> /\ ~Idle' /\ stmt'.ops = Tail(stmt.ops)
    BY <1>4, <2>1, AdvanceKeeps DEF OpRollback, history, Idle
  <2>3. /\ \A p \in Page : undone' \cap (view'[p] \cup disk'[p]) = {}
        /\ \A p \in DOMAIN before' : undone' \cap before'[p] = {}
    BY <1>4, <1>a, <2>2, EndBringsNone DEF OpRollback
  <2>4. ~inTx' /\ DOMAIN before' = {}
    <3>1. ~inTx'
      BY <1>4, <1>b DEF OpRollback, TxRollback
    <3>2. CASE inTx
      BY <1>4, <1>b, <3>2 DEF OpRollback, TxRollback, PagerRollback
    <3>3. CASE ~inTx
      BY <1>4, <1>b, <3>3 DEF OpRollback, TxRollback, pager, Context, RowsInv
    <3> QED
      BY <3>1, <3>2, <3>3
  <2>5. stmt'.ops = <<>>
    BY <1>c, <2>1, <2>2, OneOpcode
  <2>6. Own' = Own
    BY <2>2 DEF Own
  <2>7. \A p \in Page : Own' \cap (view'[p] \cup disk'[p]) = {}
    <3>1. CASE explicit
      <4>1. inTx
        BY <1>0, <2>1, <3>1 DEF GoneInv
      <4>2. view' = Restored(view) /\ disk' = Restored(disk)
        BY <1>4, <1>b, <4>1 DEF OpRollback, TxRollback, PagerRollback
      <4>3. \A p \in Page : IF p \in DOMAIN before THEN Own \cap before[p] = {}
                            ELSE Own \cap (view[p] \cup disk[p]) = {}
        BY <1>0, <2>1 DEF GoneInv
      <4> QED
        BY <2>6, <4>2, <4>3 DEF Restored
    <3>2. CASE ~explicit
      BY <1>0, <2>6, <3>2 DEF GoneInv, Own
    <3> QED
      BY <3>1, <3>2
  <2> QED
    BY <1>0, <2>1, <2>2, <2>3, <2>4, <2>5, <2>7 DEF GoneInv, Ended
<1>5. ASSUME NEW p \in Page, NEW flush \in BOOLEAN, OpWrite(p, flush) PROVE GoneInv'
  <2> DEFINE r == Cardinality(written) + 1
  <2>1. ~Idle /\ stmt.ops # <<>> /\ stmt.kind \notin {"BEGIN", "COMMIT", "ROLLBACK"}
    BY <1>5, <1>c, KindOf DEF OpWrite
  <2>2. /\ stmt'.kind = stmt.kind /\ stmt'.wasInTx = stmt.wasInTx /\ stmt'.rows = stmt.rows \cup {r}
        /\ UNCHANGED <<state, inTx, explicit, inside, undone>> /\ ~Idle'
    BY <1>5, <2>1 DEF OpWrite, history, Idle
  <2>3. r \notin written
    BY NextIsNew DEF Context
  <2>4. /\ \A q \in Page : view[q] \cup disk[q] \subseteq written
        /\ \A q \in DOMAIN before : before[q] \subseteq written
        /\ undone \cup inside \cup stmt.rows \subseteq written
    BY DEF Context, RowsInv
  <2>5. view' = [view EXCEPT ![p] = @ \cup {r}] /\ \A q \in Page \ {p} : view'[q] = view[q]
    BY <1>5 DEF OpWrite, Context, TypeOK
  <2> HIDE DEF r
  <2>6. view'[p] = view[p] \cup {r}
    BY <2>5 DEF Context, TypeOK
  <2>7. \A q \in Page : disk'[q] = disk[q] \/ disk'[q] = view'[q]
    BY <1>5 DEF OpWrite
  <2>8. ~Ended /\ ~Ended' /\ (explicit => inTx)
    BY <1>0, <2>1, <2>2 DEF GoneInv, Ended
  <2>9. \A q \in DOMAIN before' : q \in Page /\ ((q \in DOMAIN before /\ before'[q] = before[q])
                                              \/ (q \notin DOMAIN before /\ before'[q] = disk[q]))
    BY <1>5 DEF OpWrite, Context, TypeOK
  <2>10. /\ \A q \in Page : undone \cap (view'[q] \cup disk'[q]) = {}
         /\ \A q \in DOMAIN before' : undone \cap before'[q] = {}
    BY <1>0, <2>3, <2>4, <2>5, <2>6, <2>7, <2>9 DEF GoneInv
  <2>11. /\ \A q \in DOMAIN before' : Own' \cap before'[q] = {}
         /\ \A q \in Page \ DOMAIN before' : Own' \cap (view'[q] \cup disk'[q]) = {}
    <3>1. CASE explicit
      <4>1. Own' = Own \cup {r} /\ Own \subseteq written
        BY <2>2, <2>4, <3>1 DEF Own
      <4>2. DOMAIN before' = DOMAIN before \cup {p}
        BY <1>5, <2>8, <3>1 DEF OpWrite
      <4>3. \A q \in DOMAIN before' : Own \cap before'[q] = {} /\ before'[q] \subseteq written
        BY <1>0, <2>4, <2>8, <2>9 DEF GoneInv
      <4>4. \A q \in Page \ DOMAIN before' : /\ Own \cap (view'[q] \cup disk'[q]) = {}
                                             /\ view'[q] \cup disk'[q] \subseteq written
        BY <1>0, <2>4, <2>5, <2>7, <2>8, <4>2 DEF GoneInv
      <4> QED
        BY <2>3, <4>1, <4>3, <4>4
    <3>2. CASE ~explicit
      BY <1>0, <2>2, <3>2 DEF GoneInv, Own
    <3> QED
      BY <3>1, <3>2
  <2> QED
    BY <1>0, <2>1, <2>2, <2>8, <2>10, <2>11 DEF GoneInv
<1>6. CASE Finish
  <2>1. ~Idle /\ stmt.ops = <<>> /\ Idle' /\ stmt'.rows = {} /\ ~Ended'
    BY <1>6 DEF Finish, Acknowledge, NoStatement, Idle, Ended
  <2>2. TxCommit \/ UNCHANGED pager
    BY <1>6 DEF Finish
  <2>3. CASE stmt.kind \in {"COMMIT", "ROLLBACK"}
    <3>1. /\ UNCHANGED pager /\ explicit' = FALSE /\ inside' = {}
          /\ undone' = undone \cup (IF stmt.kind = "ROLLBACK" THEN inside ELSE {})
      BY <1>6, <2>3 DEF Finish, AutoCommit, Acknowledge
    <3>2. Own' = {}
      BY <3>1 DEF Own
    <3>3. stmt.kind = "ROLLBACK" =>
            DOMAIN before = {} /\ \A p \in Page : inside \cap (view[p] \cup disk[p]) = {}
      <4>1. Ended /\ ~inTx
        BY <1>0, <2>1, <2>3 DEF GoneInv, Ended
      <4>2. DOMAIN before = {}
        BY <4>1 DEF Context, RowsInv
      <4> QED
        BY <1>0, <4>1, <4>2 DEF GoneInv, Own
    <3>4. UNCHANGED <<view, disk, before>>
      BY <3>1 DEF pager
    <3>5. \A p \in Page : undone' \cap (view'[p] \cup disk'[p]) = {}
      BY <1>a, <3>1, <3>3, <3>4 DEF Nowhere
    <3>6. \A p \in DOMAIN before' : undone' \cap before'[p] = {}
      BY <1>a, <3>1, <3>3, <3>4 DEF Nowhere
    <3> QED
      BY <2>1, <3>1, <3>2, <3>5, <3>6 DEF GoneInv
  <2>4. CASE stmt.kind \notin {"COMMIT", "ROLLBACK"}
    <3>1. UNCHANGED undone /\ ~Ended
      BY <1>6, <2>4 DEF Finish, Acknowledge, Ended
    <3>2. /\ \A p \in Page : undone' \cap (view'[p] \cup disk'[p]) = {}
          /\ \A p \in DOMAIN before' : undone' \cap before'[p] = {}
      BY <1>a, <2>2, <3>1, EndBringsNone
    <3>3. CASE explicit
      <4>1. UNCHANGED pager
        BY <1>0, <1>6, <2>1, <3>3 DEF Finish, AutoCommit, GoneInv
      <4>2. explicit' = TRUE /\ inside' \subseteq inside \cup stmt.rows
        BY <1>6, <2>4, <3>3 DEF Finish, Acknowledge
      <4>3. Own' \subseteq Own
        BY <2>1, <3>3, <4>2 DEF Own
      <4> QED
        BY <1>0, <2>1, <3>1, <3>2, <3>3, <4>1, <4>2, <4>3 DEF GoneInv, pager
    <3>4. CASE ~explicit
      <4>1. inside' = {} /\ (explicit' => stmt.kind = "BEGIN")
        BY <1>0, <1>6, <2>4, <3>4 DEF Finish, Acknowledge, GoneInv
      <4>2. Own' = {}
        BY <2>1, <4>1 DEF Own
      <4>3. explicit' => inTx'
        BY <1>0, <1>6, <2>1, <4>1 DEF GoneInv, Finish, AutoCommit, pager
      <4> QED
        BY <2>1, <3>2, <4>1, <4>2, <4>3 DEF GoneInv
    <3> QED
      BY <3>3, <3>4
  <2> QED
    BY <2>3, <2>4
<1>7. CASE Fail
  <2>1. Idle' /\ stmt'.rows = {} /\ ~Ended' /\ ~Ended
        /\ UNCHANGED <<state, view, disk, inTx, before, explicit, inside, undone>>
    BY <1>7 DEF Fail, NoStatement, Idle, Ended, AutoCommit, pager
  <2>2. Own' \subseteq Own
    BY <2>1 DEF Own
  <2> QED
    BY <1>0, <2>1, <2>2 DEF GoneInv
<1>8. CASE LoseCommit
  BY <1>8 DEF LoseCommit, Undoing
<1>9. CASE Reopen
  <2>1. /\ Idle' /\ ~Ended' /\ inside' = {} /\ explicit' = FALSE
        /\ UNCHANGED <<disk, undone>> /\ view' = disk /\ DOMAIN before' = {}
    BY <1>9 DEF Reopen, NoStatement, Idle, Ended
  <2>2. Own' = {}
    BY <2>1 DEF Own
  <2> QED
    BY <1>0, <2>1, <2>2 DEF GoneInv
<1>10. CASE UNCHANGED vars
  BY <1>0, <1>10 DEF vars, pager, history, GoneInv, Own, Ended, Idle
<1> QED
  BY <1>1, <1>2, <1>3, <1>4, <1>5, <1>6, <1>7, <1>8, <1>9, <1>10 DEF Next

\* What the user rolled back is nowhere, whatever statements failed meanwhile,
\* between transactions or within them.
THEOREM Undoes == Spec => []UndoesRolledBack
<1>1. Init => Context /\ UndoInv
  <2> SUFFICES ASSUME Init PROVE UndoInv
    BY ContextInit
  <2>1. /\ Idle /\ stmt.rows = {} /\ inside = {} /\ undone = {} /\ explicit = FALSE
        /\ before = <<>> /\ DOMAIN before = {}
    BY DEF Init, NoStatement, Idle
  <2>2. Own = {} /\ ~Ended
    BY <2>1 DEF Own, Ended
  <2> QED
    BY <2>1, <2>2 DEF UndoInv, GoneInv
<1>2. Context /\ UndoInv /\ [Next]_vars => (Context /\ UndoInv)'
  BY TypeStep, AgreeStep, ShapeStep, RowsStep, UndoStep DEF Context
<1>3. Context /\ UndoInv => UndoesRolledBack
  <2> SUFFICES ASSUME Context, UndoInv, Undoing PROVE Undone
    BY DEF UndoesRolledBack, Undoing
  <2>1. \A p \in Page : undone \cap (view[p] \cup disk[p]) = {}
    BY DEF UndoInv, GoneInv
  <2> QED
    BY <2>1 DEF Undone, Rows
<1> QED
  BY <1>1, <1>2, <1>3, PTL DEF Spec

=============================================================================
