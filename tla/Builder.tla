------------------------------ MODULE Builder ------------------------------
(***************************************************************************)
(* Compiler (pysqlite/compile.py): instructions, labels, expressions and   *)
(* result rows; module Program has the statements.  A builder b is the     *)
(* compiler's state; an operator that emits instructions returns the       *)
(* builder after it.                                                       *)
(*                                                                         *)
(* Values are integers and NULL.  Instructions are numbered from 0, as in  *)
(* the code: prog[i] is instruction i - 1.  Left out are parameters, other *)
(* types of value, generated columns, functions and subqueries in          *)
(* expressions.                                                            *)
(***************************************************************************)
EXTENDS Integers, Sequences, FiniteSets, SequencesExt, FiniteSetsExt, Functions

CONSTANTS NULL,      \* SQL's null, and "no clause here" in a statement
          Columns,   \* for each table, the names of its columns
          Key,       \* for each table, the place of its PRIMARY KEY, 0 if none
          Alias      \* tables whose key is of the type INTEGER: it is the rowid

----------------------------------------------------------------------------
(* Registers, labels and instructions.                                     *)

Instr(op, p1, p2, p3, p4) ==
  [op |-> op, p1 |-> p1, p2 |-> p2, p3 |-> p3, p4 |-> p4]

Emit4(b, op, p1, p2, p3, p4) ==
  [b EXCEPT !.prog = Append(@, Instr(op, p1, p2, p3, p4))]

Emit(b, op, p1, p2, p3) == Emit4(b, op, p1, p2, p3, NULL)

Alloc(b, n) == [b EXCEPT !.reg = @ + n]

AllocCursor(b, columns) ==
  [b EXCEPT !.cur = @ + 1, !.columns = Append(@, columns)]

Here(b) == Len(b.prog)

\* Names made by _label_name carry the number of labels known when they were
\* asked for, which is not the number of names made.
Fresh(b, prefix) ==
  <<prefix, Cardinality(DOMAIN b.labels \cup {p[1] : p \in b.pending})>>

\* Names made from id(expr) are distinct.
Unique(b, prefix) == <<prefix, Here(b)>>

Define(b, label) ==
  [b EXCEPT
    !.labels  = [l \in DOMAIN @ \cup {label} |-> IF l = label THEN Here(b) ELSE @[l]],
    !.pending = {p \in @ : p[1] # label},
    !.prog    = [i \in DOMAIN @ |-> IF <<label, i>> \in b.pending
                                    THEN [@[i] EXCEPT !.p2 = Here(b)]
                                    ELSE @[i]]]

PatchJump(b, label) ==
  IF label \in DOMAIN b.labels
  THEN [b EXCEPT !.prog[Here(b)].p2 = b.labels[label]]
  ELSE [b EXCEPT !.pending = @ \cup {<<label, Here(b)>>}]

EmitJump(b, op, p1, p3, label) == PatchJump(Emit(b, op, p1, 0, p3), label)
EmitGoto(b, label)             == EmitJump(b, "Goto", 0, 0, label)

ZeroReg == 0
OneReg  == 1
NullReg == 2

Prologue ==
  LET b == [prog |-> <<>>, labels |-> <<>>, pending |-> {}, reg |-> 3,
            cur |-> 0, columns |-> <<>>]
  IN  Emit(Emit(Emit(b, "Integer", 0, ZeroReg, 0),
                "Integer", 1, OneReg, 0),
           "Null", NullReg, 0, 0)

----------------------------------------------------------------------------
(* Expressions.  An expression is a record with a field k for its kind.    *)

\* The index of a column, counted from 0; an unknown name is taken for the first.
ColumnIndex(columns, name) ==
  IF name \in Range(columns)
  THEN (CHOOSE i \in DOMAIN columns : columns[i] = name) - 1
  ELSE 0

\* The cursor a name belongs to: the given one, else the first that has it.
CursorOf(b, name, cur) ==
  LET Having == {c \in DOMAIN b.columns : name \in Range(b.columns[c])}
  IN  IF Having = {} \/ cur + 1 \in Having THEN cur ELSE Min(Having) - 1

EmitConst(b, v, reg) ==
  IF v = NULL THEN Emit(b, "Null", reg, 0, 0) ELSE Emit(b, "Integer", v, reg, 0)

Fold(op, l, r) ==
  CASE op = "Add" -> l + r [] op = "Subtract" -> l - r [] op = "Multiply" -> l * r

RECURSIVE CompileTo(_, _, _, _)

\* compile_expr: the value goes to a new register, which is b.reg.
CompileExpr(b, e, cur) == CompileTo(Alloc(b, 1), e, b.reg, cur)

CompileColumn(b, e, reg, cur) ==
  LET c == CursorOf(b, e.name, cur)
  IN  Emit(b, "Column", c, ColumnIndex(b.columns[c + 1], e.name), reg)

CompileNegative(b, e, reg, cur) ==
  LET b1 == CompileExpr(b, e.e, cur)
  IN  Emit(b1, "Subtract", ZeroReg, reg, b.reg)

\* The Goto is patched by hand.
CompileNot(b, e, reg, cur) ==
  LET b1    == CompileExpr(b, e.e, cur)
      false == b1.reg
      b2    == Emit(Alloc(b1, 1), "Integer", 0, false, 0)
      true  == Unique(b2, "not_true")
      b3    == Emit(EmitJump(b2, "Eq", b.reg, false, true), "Integer", 0, reg, 0)
      b4    == Emit(b3, "Goto", 0, Here(b3) + 2, 0)
  IN  Emit(Define(b4, true), "Integer", 1, reg, 0)

\* AND and OR: both labels are asked for before the left operand is compiled.
CompileShort(b, e, reg, cur, jump, short, shortLabel, endLabel) ==
  LET end   == Fresh(b, endLabel)
      done  == Fresh(b, shortLabel)
      b1    == EmitJump(CompileExpr(b, e.l, cur), jump, b.reg, 0, done)
      b2    == CompileExpr(b1, e.r, cur)
      b3    == EmitGoto(Emit(b2, "MemCopy", b1.reg, reg, 0), end)
      b4    == Emit(Define(b3, done), "Integer", short, reg, 0)
  IN  Define(b4, end)

CompileArith(b, e, reg, cur) ==
  IF e.l.k = "lit" /\ e.r.k = "lit" /\ NULL \notin {e.l.v, e.r.v}
  THEN EmitConst(b, Fold(e.op, e.l.v, e.r.v), reg)
  ELSE LET b1 == CompileExpr(b, e.l, cur)
           b2 == CompileExpr(b1, e.r, cur)
       IN  Emit(b2, e.op, b.reg, reg, b1.reg)

\* The comparison is emitted twice, the first time without a target.
CompileCompare(b, e, reg, cur) ==
  LET b1    == CompileExpr(b, e.l, cur)
      b2    == CompileExpr(b1, e.r, cur)
      true  == Fresh(b2, "cmp_true")
      end   == Fresh(b2, "cmp_end")
      b3    == Emit(b2, e.op, b.reg, 0, b1.reg)
      b4    == EmitJump(b3, e.op, b.reg, b1.reg, true)
      b5    == EmitGoto(Emit(b4, "Integer", 0, reg, 0), end)
      b6    == Emit(Define(b5, true), "Integer", 1, reg, 0)
  IN  Define(b6, end)

CompileWhen(b, w, reg, cur, base, end) ==
  LET next == Fresh(b, "case_when")
      b1   == CompileExpr(b, w[1], cur)
      b2   == IF base = NULL
              THEN EmitJump(b1, "IfNot", b.reg, 0, next)
              ELSE \* the equality's target is the number of a register
                   EmitJump(Emit(Alloc(b1, 1), "Eq", base, b1.reg, b.reg),
                            "IfNot", b1.reg, 0, next)
      b3   == EmitGoto(CompileTo(b2, w[2], reg, cur), end)
  IN  Define(b3, next)

CompileCase(b, e, reg, cur) ==
  LET end  == Fresh(b, "case_end")
      b1   == IF e.base = NULL THEN b ELSE CompileExpr(b, e.base, cur)
      base == IF e.base = NULL THEN NULL ELSE b.reg
      b2   == FoldLeft(LAMBDA acc, w : CompileWhen(acc, w, reg, cur, base, end),
                       b1, e.whens)
      b3   == IF e.else = NULL THEN Emit(b2, "Null", reg, 0, 0)
                               ELSE CompileTo(b2, e.else, reg, cur)
  IN  Define(b3, end)

CompileIsNull(b, e, reg, cur) ==
  LET b1   == CompileExpr(b, e.e, cur)
      skip == Unique(b1, "isnull_skip")
      end  == Unique(b1, "isnull_end")
      b2   == EmitJump(b1, IF e.neg THEN "Eq" ELSE "Ne", b.reg, NullReg, skip)
      b3   == EmitGoto(Emit(b2, "Integer", 1, reg, 0), end)
      b4   == Emit(Define(b3, skip), "Integer", 0, reg, 0)
  IN  Define(b4, end)

Bit(p) == IF p THEN 1 ELSE 0

CompileBetween(b, e, reg, cur) ==
  LET b1   == CompileExpr(b, e.lo, cur)
      b2   == CompileExpr(b1, e.hi, cur)
      b3   == CompileExpr(b2, e.e, cur)
      fail == Fresh(b3, "between_fail")
      end  == Fresh(b3, "between_end")
      b4   == EmitJump(b3, "Lt", b2.reg, b.reg, fail)
      b5   == EmitJump(b4, "Gt", b2.reg, b1.reg, fail)
      b6   == EmitGoto(Emit(b5, "Integer", Bit(~e.neg), reg, 0), end)
      b7   == Emit(Define(b6, fail), "Integer", Bit(e.neg), reg, 0)
  IN  Define(b7, end)

CompileIn(b, e, reg, cur) ==
  LET b1    == CompileExpr(b, e.e, cur)
      found == Fresh(b1, "in_found")
      end   == Fresh(b1, "in_end")
      b2    == FoldLeft(LAMBDA acc, v :
                          EmitJump(CompileExpr(acc, v, cur), "Eq", b.reg, acc.reg, found),
                        b1, e.list)
      b3    == EmitGoto(Emit(b2, "Integer", Bit(e.neg), reg, 0), end)
      b4    == Emit(Define(b3, found), "Integer", Bit(~e.neg), reg, 0)
  IN  Define(b4, end)

\* Nothing defines the label of an IS.
CompileIs(b, e, reg, cur) ==
  LET b1 == CompileExpr(b, e.l, cur)
      b2 == CompileExpr(b1, e.r, cur)
      b3 == EmitJump(b2, IF e.neg THEN "Ne" ELSE "Eq", b.reg, b1.reg, Unique(b2, "is"))
  IN  Emit(b3, "Integer", Bit(~e.neg), reg, 0)

CompileTo(b, e, reg, cur) ==
  CASE e.k = "lit"     -> EmitConst(b, e.v, reg)
    [] e.k = "col"     -> CompileColumn(b, e, reg, cur)
    [] e.k = "neg"     -> CompileNegative(b, e, reg, cur)
    [] e.k = "not"     -> CompileNot(b, e, reg, cur)
    [] e.k = "and"     -> CompileShort(b, e, reg, cur, "IfNot", 0, "and_false", "and_end")
    [] e.k = "or"      -> CompileShort(b, e, reg, cur, "If", 1, "or_true", "or_end")
    [] e.k = "arith"   -> CompileArith(b, e, reg, cur)
    [] e.k = "cmp"     -> CompileCompare(b, e, reg, cur)
    [] e.k = "case"    -> CompileCase(b, e, reg, cur)
    [] e.k = "isnull"  -> CompileIsNull(b, e, reg, cur)
    [] e.k = "between" -> CompileBetween(b, e, reg, cur)
    [] e.k = "in"      -> CompileIn(b, e, reg, cur)
    [] e.k = "is"      -> CompileIs(b, e, reg, cur)

----------------------------------------------------------------------------
(* Result rows.                                                            *)

\* The registers of a list of expressions, and the builder after them.
CompileList(b, es, cur) ==
  FoldLeft(LAMBDA acc, e : [b |-> CompileExpr(acc.b, e, cur),
                            regs |-> Append(acc.regs, acc.b.reg)],
           [b |-> b, regs |-> <<>>], es)

ReadColumns(b, cur) ==
  LET n == Len(b.columns[cur + 1])
  IN  [b |-> FoldLeft(LAMBDA acc, i : Emit(Alloc(acc, 1), "Column", cur, i - 1, acc.reg),
                      b, [i \in 1..n |-> i]),
       regs |-> [i \in 1..n |-> b.reg + i - 1]]

IsStar(cols) == cols[1].k = "star"

\* The columns of a select list; * stands for those of the given cursors.
CompileColumns(b, cols, cur, cursors) ==
  IF IsStar(cols)
  THEN FoldLeft(LAMBDA acc, c : LET r == ReadColumns(acc.b, c)
                                IN  [b |-> r.b, regs |-> acc.regs \o r.regs],
                [b |-> b, regs |-> <<>>], cursors)
  ELSE CompileList(b, cols, cur)

\* The registers of a row are moved together, from the first of them.
Compact(b, regs) ==
  FoldLeft(LAMBDA acc, i : IF regs[i] = regs[1] + i - 1 THEN acc
                           ELSE Emit(acc, "MemCopy", regs[i], regs[1] + i - 1, 0),
           b, [i \in DOMAIN regs |-> i])

\* _compile_order_by: a key and its copy for each term; the row is the visible
\* columns and as many of the registers after them as there are terms.
CompileOrder(b, terms, n, cur) ==
  LET keyed == FoldLeft(LAMBDA acc, t :
                          LET k == CompileExpr(acc, t.e, cur)
                          IN  Emit(Alloc(k, 1), "MemCopy", acc.reg, k.reg, 0),
                        b, terms)
  IN  Emit4(keyed, "Sort", n, 0, 0,
            [i \in DOMAIN terms |-> [at |-> n + i, desc |-> terms[i].desc]])

EmitRow(b, cols, order, cur, cursors) ==
  LET r  == CompileColumns(b, cols, cur, cursors)
      b1 == Compact(r.b, r.regs)
      n  == Len(r.regs)
  IN  IF order = <<>> THEN Emit(b1, "ResultRow", r.regs[1], n, 0)
      ELSE Emit(CompileOrder(b1, order, n, cur),
                "ResultRow", r.regs[1], n + Len(order), 0)

============================================================================
