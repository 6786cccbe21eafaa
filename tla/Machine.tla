------------------------------ MODULE Machine ------------------------------
(***************************************************************************)
(* VM (pysqlite/vm.py) executing the program of one statement: the loop of *)
(* VM.run, one action for each opcode or group of opcodes, and the sorting,*)
(* the aggregation and the removal of duplicates that follow the loop.     *)
(*                                                                         *)
(* A table is one leaf of its B-tree: a sequence of rows [id, vals] in the *)
(* order of id, where vals is the record stored (module BTree has trees of *)
(* several pages, module Page the bytes of one).  An INTEGER PRIMARY KEY is*)
(* the id, and is not in vals as INSERT writes it.                         *)
(*                                                                         *)
(* A value is NULL, an integer, or a REAL, which is the integer it equals   *)
(* shifted by RealBase: fractions do not occur without division.           *)
(*                                                                         *)
(* A statement here begins outside a transaction; the pass over the foreign*)
(* keys when it commits is included.  Module Session has the transactions  *)
(* of several statements.                                                  *)
(***************************************************************************)
EXTENDS Program

CONSTANTS Statements,   \* the statements that may be executed
          Starts,       \* the tables they may find
          Programs      \* the program of each statement, for given tables

\* A statement is compiled anew each time it is executed.  What the compiler makes
\* of it depends on the tables' sizes only, so the programs are a constant.
Compiled ==
  LET Sizes(db) == [t \in DOMAIN db |-> Len(db[t])]
  IN  [s \in Statements, db \in Starts |-> Compile(s, Sizes(db))]

ASSUME ProgramsAssumption == Programs = Compiled

VARIABLES
  given,        \* history: the tables before the statement
  stmt, prog,   \* the statement, and its program
  status,       \* "idle", "running", "ended" (of VM.run), "done", or "error"
  tx,           \* whether TransactionManager.state is not NONE
  pc, regs,     \* registers that were set; all others hold NULL
  cursors,      \* the open cursors
  tables,       \* the rows of each table, temporary ones included
  results,      \* result_rows
  after         \* sort_spec, agg_spec and distinct: what follows the loop

vars == <<given, stmt, prog, status, tx, pc, regs, cursors, tables, results, after>>

Init ==
  /\ tables \in Starts /\ given = tables
  /\ stmt = NULL /\ prog = <<>> /\ status = "idle" /\ tx = FALSE
  /\ pc = 0 /\ regs = <<>> /\ cursors = <<>> /\ results = <<>>
  /\ after = [sort |-> NULL, agg |-> NULL, distinct |-> FALSE]

\* Database.execute: compile, then run.
Prepare ==
  /\ status = "idle"
  /\ \E s \in Statements :
       LET c == Programs[s, tables]
       IN  /\ stmt' = s /\ prog' = c.prog
           /\ status' = IF c.ok THEN "running" ELSE "error"
  /\ UNCHANGED <<given, tx, pc, regs, cursors, tables, results, after>>

----------------------------------------------------------------------------
(* step: fetch, and what the handlers share.                               *)

At(ops) == status = "running" /\ pc < Len(prog) /\ prog[pc + 1].op \in ops

I == prog[pc + 1]

\* Unset registers read as NULL.
Reg(r) == IF r \in DOMAIN regs THEN regs[r] ELSE NULL

Put(f, x, v) == [y \in DOMAIN f \cup {x} |-> IF y = x THEN v ELSE f[y]]

SetReg(r, v) == regs' = Put(regs, r, v)

Advance == pc' = pc + 1 /\ status' = status

\* A target of 0 is no target.
JumpIf(cond, target) ==
  pc' = (IF cond /\ target > 0 THEN target ELSE pc + 1) /\ status' = status

fixed == <<given, stmt, prog, tx>>

\* A handler raises: VM.run stops with the error.
Raise == status' = "error" /\ UNCHANGED <<fixed, pc, regs, cursors, tables, results, after>>

\* Bound: every number of a run is between -500 and 500.
RealBase   == 1000
Real(n)    == n + RealBase
IsReal(v)  == v # NULL /\ v > RealBase \div 2
Number(v)  == IF IsReal(v) THEN v - RealBase ELSE v
Numbers(s) == [i \in DOMAIN s |-> Number(s[i])]

\* Python and _compare alike compare 2 and 2.0 as numbers.
IsTrue(v) == v # NULL /\ Number(v) # 0

\* _compare: NULL is equal to itself and smaller than every number.
Below(a, b) == b # NULL /\ (a = NULL \/ Number(a) < Number(b))

Compares(op, a, b) ==
  CASE op = "Eq" -> Number(a) = Number(b)
    [] op = "Ne" -> Number(a) # Number(b)
    [] op = "Lt" -> Below(a, b)
    [] op = "Le" -> ~Below(b, a)
    [] op = "Gt" -> Below(b, a)
    [] op = "Ge" -> ~Below(a, b)

----------------------------------------------------------------------------
(* Registers and control.                                                  *)

DoLoad ==
  /\ At({"Integer", "Null", "MemCopy"})
  /\ CASE I.op = "Integer" -> SetReg(I.p2, I.p1)
       [] I.op = "Null"    -> SetReg(I.p1, NULL)
       [] I.op = "MemCopy" -> SetReg(I.p2, Reg(I.p1))
  /\ Advance
  /\ UNCHANGED <<fixed, cursors, tables, results, after>>

\* Only Subtract makes an integer of two integers.
Arithmetic(op, a, b) ==
  LET m == Number(a)
      n == Number(b)
  IN  CASE NULL \in {a, b}                      -> NULL
        [] NULL \notin {a, b} /\ op = "Add"      -> Real(m + n)
        [] NULL \notin {a, b} /\ op = "Multiply" -> Real(m * n)
        [] NULL \notin {a, b} /\ op = "Subtract" -> IF IsReal(a) \/ IsReal(b) THEN Real(m - n) ELSE m - n

DoArith ==
  /\ At({"Add", "Subtract", "Multiply"})
  /\ SetReg(I.p2, Arithmetic(I.op, Reg(I.p1), Reg(I.p3)))
  /\ Advance
  /\ UNCHANGED <<fixed, cursors, tables, results, after>>

DoCompare ==
  /\ At({"Eq", "Ne", "Lt", "Le", "Gt", "Ge"})
  /\ JumpIf(Compares(I.op, Reg(I.p1), Reg(I.p3)), I.p2)
  /\ UNCHANGED <<fixed, regs, cursors, tables, results, after>>

DoBranch ==
  /\ At({"If", "IfNot", "IsNull", "NotNull"})
  /\ LET v == Reg(I.p1)
     IN  JumpIf(CASE I.op = "If"      -> IsTrue(v)
                  [] I.op = "IfNot"   -> ~IsTrue(v)
                  [] I.op = "IsNull"  -> v = NULL
                  [] I.op = "NotNull" -> v # NULL, I.p2)
  /\ UNCHANGED <<fixed, regs, cursors, tables, results, after>>

DoIfNotZero ==
  /\ At({"IfNotZero"})
  /\ LET v == Reg(I.p1)
     IN  /\ JumpIf(IsTrue(v), I.p2)
         /\ IF IsTrue(v) /\ I.p3 > 0 THEN SetReg(I.p1, v - I.p3) ELSE UNCHANGED regs
  /\ UNCHANGED <<fixed, cursors, tables, results, after>>

DoGoto ==
  /\ At({"Goto"})
  /\ JumpIf(TRUE, IF I.p1 > 0 THEN I.p1 ELSE I.p2)
  /\ UNCHANGED <<fixed, regs, cursors, tables, results, after>>

\* Mutant of DoHalt: one step too far.
DoHaltPast ==
  /\ At({"Halt"})
  /\ pc' = Len(prog) + 1
  /\ UNCHANGED <<fixed, status, regs, cursors, tables, results, after>>

DoHalt ==
  /\ At({"Halt"})
  /\ IF I.p1 # 0 THEN Raise
     ELSE /\ pc' = Len(prog)
          /\ UNCHANGED <<fixed, status, regs, cursors, tables, results, after>>

----------------------------------------------------------------------------
(* Cursors.  pos is the place on the leaf, 0 when the cursor's stack is    *)
(* empty; beof is BTreeCursor.eof, and eof is the copy of it that the      *)
(* handlers of Rewind, Next and SeekRowid take.                            *)

Cur       == cursors[I.p1]
Rows      == tables[Cur.tab]
OnRow     == Cur.pos \in DOMAIN Rows
SetCur(c) == cursors' = [cursors EXCEPT ![I.p1] = c]

Closed(t) == [tab |-> t, pos |-> 0, eof |-> FALSE, beof |-> FALSE]

Temporary(cur) == "temp" \o ToString(cur)

DoOpen ==
  /\ At({"OpenRead", "OpenWrite", "OpenEphemeral"})
  /\ IF I.op = "OpenEphemeral"
     THEN /\ cursors' = Put(cursors, I.p1, Closed(Temporary(I.p1)))
          /\ tables' = Put(tables, Temporary(I.p1), <<>>)
     ELSE cursors' = Put(cursors, I.p1, Closed(I.p4)) /\ UNCHANGED tables
  /\ Advance
  /\ UNCHANGED <<fixed, regs, results, after>>

\* Mutant of First: the end of the table is set, the cursor is not moved.
FirstUnmoved == [Cur EXCEPT !.eof = Rows = <<>>, !.beof = Rows = <<>>]

\* The cursor after first, next and seek.
First == [Cur EXCEPT !.pos = IF Rows = <<>> THEN 0 ELSE 1,
                     !.eof = Rows = <<>>, !.beof = Rows = <<>>]

Moved == IF Cur.beof THEN [Cur EXCEPT !.eof = TRUE]
         ELSE IF Cur.pos < Len(Rows) THEN [Cur EXCEPT !.pos = @ + 1, !.eof = FALSE]
         ELSE [Cur EXCEPT !.pos = 0, !.eof = TRUE, !.beof = TRUE]

Found(key) == \E i \in DOMAIN Rows : Rows[i].id = Number(key)

\* The place of the first row not before the key.
Place(key) == Cardinality({i \in DOMAIN Rows : Rows[i].id < Number(key)}) + 1

Sought(key) == [Cur EXCEPT !.pos = IF Place(key) > Len(Rows) THEN 0 ELSE Place(key),
                           !.beof = Place(key) > Len(Rows)]

DoRewind ==
  /\ At({"Rewind"})
  /\ SetCur(First)
  /\ JumpIf(First.eof, I.p2)
  /\ UNCHANGED <<fixed, regs, tables, results, after>>

DoNext ==
  /\ At({"Next"})
  /\ IF Cur.pos = 0 /\ ~Cur.beof THEN Raise
     ELSE /\ SetCur(Moved)
          /\ JumpIf(~Moved.eof, I.p2)
          /\ UNCHANGED <<fixed, regs, tables, results, after>>

\* A key that is NULL cannot be compared with the keys of a row.
DoSeekRowid ==
  /\ At({"SeekRowid"})
  /\ LET key == Reg(I.p3)
     IN  IF key = NULL /\ Rows # <<>> THEN Raise
         ELSE /\ SetCur([Sought(key) EXCEPT !.eof = ~Found(key)])
              /\ JumpIf(~Found(key), I.p2)
              /\ UNCHANGED <<fixed, regs, tables, results, after>>

\* The columns after the alias of the rowid are one place earlier in a record.
Stored(t, row, i) ==
  LET j == IF t \in Alias /\ i > Key[t] THEN i - 1 ELSE i
  IN  IF t \in Alias /\ i = Key[t] THEN row.id
      ELSE IF j \in DOMAIN row.vals THEN row.vals[j] ELSE NULL

DoColumn ==
  /\ At({"Column"})
  /\ IF ~Cur.eof /\ ~OnRow THEN Raise
     ELSE /\ SetReg(I.p3, IF Cur.eof THEN NULL ELSE Stored(Cur.tab, Rows[Cur.pos], I.p2 + 1))
          /\ Advance
          /\ UNCHANGED <<fixed, cursors, tables, results, after>>

DoRowid ==
  /\ At({"Rowid"})
  /\ SetReg(I.p2, IF ~Cur.eof /\ OnRow THEN Rows[Cur.pos].id ELSE NULL)
  /\ Advance
  /\ UNCHANGED <<fixed, cursors, tables, results, after>>

\* The next rowid is found by moving the cursor to the last row.
DoNewRowid ==
  /\ At({"NewRowid"})
  /\ SetCur([Cur EXCEPT !.pos = Len(Rows), !.beof = Rows = <<>>])
  /\ SetReg(I.p3, IF Rows = <<>> THEN 1 ELSE Max({Rows[Len(Rows)].id + 1, 1}))
  /\ Advance
  /\ UNCHANGED <<fixed, tables, results, after>>

DoMakeRecord ==
  /\ At({"MakeRecord"})
  /\ SetReg(I.p3, [i \in 1..I.p2 |-> Reg(I.p1 + i - 1)])
  /\ Advance
  /\ UNCHANGED <<fixed, cursors, tables, results, after>>

\* _do_insert; a rowid that is not an integer is taken for 0.
IdOf(r) == IF Reg(r) = NULL \/ IsReal(Reg(r)) THEN 0 ELSE Reg(r)

\* Mutant of Inserted: the row goes behind the others.
AppendedRow(id, vals) == Append(Rows, [id |-> id, vals |-> vals])

Inserted(id, vals) == InsertAt(Rows, Place(id), [id |-> id, vals |-> vals])

DoInsert ==
  /\ At({"Insert", "NoConflictInsert"})
  /\ LET id       == IdOf(I.p3)
         conflict == I.op = "NoConflictInsert" /\ Found(id)
     IN  IF Reg(I.p2) = NULL /\ ~conflict THEN Raise
         ELSE /\ tables' = IF conflict THEN tables
                           ELSE [tables EXCEPT ![Cur.tab] = Inserted(id, Reg(I.p2))]
              /\ IF I.op = "Insert" THEN UNCHANGED cursors ELSE SetCur(Sought(id))
              /\ Advance
              /\ UNCHANGED <<fixed, regs, results, after>>

\* The cursor stays where it was, on what was the next row.
DoDelete ==
  /\ At({"Delete"})
  /\ IF Cur.eof \/ Cur.pos = 0 \/ Cur.beof
     THEN Advance /\ UNCHANGED <<fixed, regs, cursors, tables, results, after>>
     ELSE IF ~OnRow THEN Raise
     ELSE /\ tables' = [tables EXCEPT ![Cur.tab] = RemoveAt(@, Cur.pos)]
          /\ SetCur(IF Len(Rows) = 1 THEN [Cur EXCEPT !.pos = 0, !.beof = TRUE] ELSE Cur)
          /\ Advance
          /\ UNCHANGED <<fixed, regs, results, after>>

----------------------------------------------------------------------------
(* Results, and what is done to them after the loop.                       *)

DoResultRow ==
  /\ At({"ResultRow"})
  /\ results' = Append(results, [i \in 1..I.p2 |-> Reg(I.p1 + i - 1)])
  /\ Advance
  /\ UNCHANGED <<fixed, regs, cursors, tables, after>>

DoSpecify ==
  /\ At({"Sort", "Aggregate", "Distinct"})
  /\ after' = CASE I.op = "Sort"      -> [after EXCEPT !.sort = [visible |-> I.p1, keys |-> I.p4]]
                [] I.op = "Aggregate" -> [after EXCEPT !.agg = I.p4]
                [] I.op = "Distinct"  -> [after EXCEPT !.distinct = TRUE]
  /\ Advance
  /\ UNCHANGED <<fixed, regs, cursors, tables, results>>

\* sort_key: NULL last, whatever the direction.
KeyBefore(a, b, desc) ==
  IF a = NULL \/ b = NULL THEN a # NULL
  ELSE IF desc THEN Number(a) > Number(b) ELSE Number(a) < Number(b)

RowBefore(r, s, keys) ==
  \E i \in DOMAIN keys :
    /\ Number(r[keys[i].at]) # Number(s[keys[i].at])
    /\ KeyBefore(r[keys[i].at], s[keys[i].at], keys[i].desc)
    /\ \A j \in 1..i - 1 : Number(r[keys[j].at]) = Number(s[keys[j].at])

StableSort(rows, Before(_, _)) ==
  LET Ahead(i) == {j \in DOMAIN rows : \/ Before(rows[j], rows[i])
                                       \/ ~Before(rows[i], rows[j]) /\ j < i}
  IN  [p \in DOMAIN rows |-> rows[CHOOSE i \in DOMAIN rows : Cardinality(Ahead(i)) = p - 1]]

SortResults(rows) ==
  LET sorted == StableSort(rows, LAMBDA r, s : RowBefore(r, s, after.sort.keys))
  IN  IF after.sort = NULL THEN rows
      ELSE [i \in DOMAIN sorted |-> SubSeq(sorted[i], 1, after.sort.visible)]

\* The first of those of one value, as a Python set and dict tell them apart.
Distinct(s, values) ==
  LET firsts == SelectSeq([i \in DOMAIN s |-> i], LAMBDA i : \A j \in 1..i - 1 : values[j] # values[i])
  IN  [n \in DOMAIN firsts |-> s[firsts[n]]]
RowNumbers(rows) == [i \in DOMAIN rows |-> Numbers(rows[i])]

\* compute_aggregate: the total of nothing is 0.
Total(s) ==
  LET n == FoldLeft(LAMBDA acc, x : acc + Number(x), 0, s)
  IN  IF \E x \in Range(s) : IsReal(x) THEN Real(n) ELSE n

Smallest(s) == s[Min({i \in DOMAIN s : \A x \in Range(s) : ~Below(x, s[i])})]
Largest(s)  == s[Min({i \in DOMAIN s : \A x \in Range(s) : ~Below(s[i], x)})]

ComputeAggregate(name, vals) ==
  LET nums == SelectSeq(vals, LAMBDA v : v # NULL)
  IN  CASE name = "COUNT" -> Len(nums)
        [] name = "SUM"   -> Total(nums)
        [] name = "MIN"   -> IF nums = <<>> THEN NULL ELSE Smallest(nums)
        [] name = "MAX"   -> IF nums = <<>> THEN NULL ELSE Largest(nums)

\* _eval_having
HavingValue(h, got) ==
  CASE h.k = "lit" -> h.v [] h.k = "result" -> got[h.at] [] OTHER -> NULL

RECURSIVE Holds(_, _)
Holds(h, got) ==
  CASE h.k = "and" -> Holds(h.l, got) /\ Holds(h.r, got)
    [] h.k = "or"  -> Holds(h.l, got) \/ Holds(h.r, got)
    [] h.k = "not" -> ~Holds(h.e, got)
    [] h.k = "col" -> TRUE
    [] h.k = "cmp" -> LET a == HavingValue(h.l, got)
                          b == HavingValue(h.r, got)
                      IN  Compares(h.op, a, b) /\ (h.op \notin {"Eq", "Ne"} => NULL \notin {a, b})
    [] OTHER -> IsTrue(HavingValue(h, got))

Aggregated(rows) ==
  LET spec      == after.agg
      KeyOf(r)  == [i \in DOMAIN spec.group |-> r[spec.group[i]]]
      all       == [i \in DOMAIN rows |-> KeyOf(rows[i])]
      keys      == Distinct(all, RowNumbers(all))
      Group(k)  == SelectSeq(rows, LAMBDA r : Numbers(KeyOf(r)) = Numbers(k))
      Vals(a,g) == LET v == [i \in DOMAIN g |-> IF a.star THEN 0 ELSE g[i][a.at]]
                   IN  IF a.distinct THEN Distinct(v, Numbers(v)) ELSE v
      Got(k)    == [i \in DOMAIN spec.aggs |->
                      ComputeAggregate(spec.aggs[i].name, Vals(spec.aggs[i], Group(k)))]
      kept      == SelectSeq(keys, LAMBDA k : spec.having = NULL \/ Holds(spec.having, Got(k)))
      Out(k)    == LET out == k \o Got(k)
                   IN  IF k # <<>> /\ Len(out) > spec.visible THEN SubSeq(out, 1, spec.visible) ELSE out
  IN  IF spec = NULL THEN rows ELSE [i \in DOMAIN kept |-> Out(kept[i])]

----------------------------------------------------------------------------
(* Foreign keys.  Values are taken from the records by the places of the   *)
(* columns, which in a table with an alias of the rowid are not theirs.    *)

InRecord(t, row, cols) ==
  [i \in DOMAIN cols |-> Number(row.vals[ColumnIndex(Columns[t], cols[i]) + 1])]

\* The action on one row of the child.
Repaired(row, f, action, new) ==
  LET Column(i) == ColumnIndex(Columns[f.child], f.cols[i]) + 1
      Value(i) == CASE action = "CASCADE"     -> new[i]
                    [] action = "SET NULL"    -> NULL
                    [] action = "SET DEFAULT" -> f.default[i]
  IN  [row EXCEPT !.vals = FoldLeft(LAMBDA v, i : [v EXCEPT ![Column(i)] = Value(i)],
                                    @, [i \in DOMAIN f.cols |-> i])]

\* NULL finds NULL here.
DoFkUpdate ==
  /\ At({"FkUpdate"})
  /\ LET f      == I.p4.key
         old    == [i \in DOMAIN I.p4.old |-> Reg(I.p4.old[i])]
         new    == [i \in DOMAIN I.p4.new |-> Reg(I.p4.new[i])]
         Hit(r) == Numbers(old) # Numbers(new) /\ InRecord(f.child, r, f.cols) = Numbers(old)
     IN  IF f.onUpdate = "RESTRICT" /\ \E r \in Range(tables[f.child]) : Hit(r) THEN Raise
         ELSE /\ tables' = [tables EXCEPT ![f.child] =
                              [i \in DOMAIN @ |-> IF Hit(@[i]) THEN Repaired(@[i], f, f.onUpdate, new) ELSE @[i]]]
              /\ Advance
              /\ UNCHANGED <<fixed, regs, cursors, results, after>>

\* Mutant of HasParent: one column of the key is enough.
HasHalfParent(f, row) ==
  LET key == InRecord(f.child, row, f.cols)
  IN  \/ NULL \in Range(key)
      \/ \E p \in Range(tables[f.parent]) :
           InRecord(f.parent, p, f.parentCols)[1] = key[1]

HasParent(f, row) ==
  LET key == InRecord(f.child, row, f.cols)
  IN  \/ NULL \in Range(key)
      \/ \E p \in Range(tables[f.parent]) : InRecord(f.parent, p, f.parentCols) = key

\* _check_deferred_fk: the first key of a row that has no parent decides, by its
\* action on DELETE whatever the statement did; rows are repaired only if
\* none is refused, and not looked at again.
Broken(t, row) == SelectSeq(ForeignKeys, LAMBDA f : f.child = t /\ ~HasParent(f, row))

Refused ==
  \E t \in {f.child : f \in Range(ForeignKeys)} : \E r \in Range(tables[t]) :
    Broken(t, r) # <<>> /\ Broken(t, r)[1].onDelete \notin Repairs

Checked ==
  [t \in DOMAIN tables |->
     LET Key1(r)  == Broken(t, r)[1]
         Stays(r) == Broken(t, r) = <<>> \/ Key1(r).onDelete # "CASCADE"
         kept     == SelectSeq(tables[t], Stays)
     IN  [i \in DOMAIN kept |->
            IF Broken(t, kept[i]) = <<>> THEN kept[i]
            ELSE Repaired(kept[i], Key1(kept[i]), Key1(kept[i]).onDelete, <<>>)]]

\* TransactionManager.commit, if there is a transaction.
Commit(next) ==
  IF tx /\ Refused THEN status' = "error" /\ UNCHANGED <<tx, pc, tables>>
  ELSE /\ tables' = IF tx THEN Checked ELSE tables
       /\ tx' = FALSE
       /\ next

\* Opening a table for reading carries P1 = 0, which commits.
DoTransaction ==
  /\ At({"Transaction"})
  /\ IF I.p1 = 0 THEN Commit(Advance) ELSE tx' = TRUE /\ Advance /\ UNCHANGED tables
  /\ UNCHANGED <<given, stmt, prog, regs, cursors, results, after>>

\* The end of VM.run.
Finish ==
  /\ status = "running" /\ pc >= Len(prog)
  /\ status' = "ended"
  /\ results' = LET r == Aggregated(SortResults(results))
                IN  IF after.distinct THEN Distinct(r, RowNumbers(r)) ELSE r
  /\ UNCHANGED <<fixed, pc, regs, cursors, tables, after>>

\* The end of Database.execute_params: every transaction was begun by the statement.
AutoCommit ==
  /\ status = "ended"
  /\ Commit(status' = "done" /\ UNCHANGED pc)
  /\ UNCHANGED <<given, stmt, prog, regs, cursors, results, after>>

Step ==
  \/ DoLoad \/ DoArith \/ DoCompare \/ DoBranch \/ DoIfNotZero \/ DoGoto
  \/ DoTransaction \/ DoHalt \/ DoOpen \/ DoRewind \/ DoNext \/ DoSeekRowid
  \/ DoColumn \/ DoRowid \/ DoNewRowid \/ DoMakeRecord \/ DoInsert \/ DoDelete
  \/ DoResultRow \/ DoSpecify \/ DoFkUpdate \/ Finish \/ AutoCommit

Next == Prepare \/ Step

\* VM.run is a loop: it takes a step as long as it can.
Spec == Init /\ [][Next]_vars /\ WF_vars(Step)

============================================================================
