------------------------------ MODULE Program ------------------------------
(***************************************************************************)
(* The programs of SELECT, INSERT, UPDATE and DELETE: Compiler.compile and *)
(* what it calls for them (pysqlite/compile.py), over the builder of       *)
(* module Builder.                                                         *)
(*                                                                         *)
(* A statement is a record; NULL in a field says the clause is not there.  *)
(* Left out are views, CTEs, window functions, UNION (which compiles to    *)
(* nothing), STRICT and WITHOUT ROWID tables, generated columns, DEFAULT   *)
(* VALUES, and triggers.                                                   *)
(***************************************************************************)
EXTENDS Builder

CONSTANTS NotNull,      \* for each table, its columns declared NOT NULL
          ForeignKeys   \* the foreign keys, in the order of their tables: records
                        \* [child, cols, parent, parentCols, onUpdate, onDelete, default]

\* What may be done to a row whose parent goes; RESTRICT and NO ACTION refuse.
Repairs == {"CASCADE", "SET NULL", "SET DEFAULT"}

\* No table refers to itself, and of a table whose key is the rowid only the key
\* is referred to.
ASSUME ForeignKeysAssumption ==
  \A f \in Range(ForeignKeys) :
    /\ f.parent # f.child /\ Len(f.cols) = Len(f.parentCols)
    /\ f.child \notin Alias
    /\ f.parent \in Alias => f.parentCols = <<Columns[f.parent][Key[f.parent]]>>

\* A join is compiled for tables of known sizes: BTreePage.cell_count of their
\* roots, and at least 1.
SizeOf(size, t) == IF size[t] = 0 THEN 1 ELSE size[t]

----------------------------------------------------------------------------
(* Parts that several statements share.                                    *)

Open(b, op, cur, t) == Emit4(b, op, cur, 0, 0, t)

\* The subquery of a FROM, or the source of an INSERT, is opened and rewound; an
\* empty table is to be skipped by a jump four instructions ahead.
OpenSource(b, cur, node) ==
  IF node.from = <<>> THEN Emit(b, "OpenEphemeral", cur, 1, 0)
  ELSE LET b1 == Open(Emit(b, "Transaction", 0, 0, 0), "OpenRead", cur, node.from[1].tab)
       IN  Emit(b1, "Rewind", cur, Here(b1) + 4, 0)

SourceColumns(node) == IF node.from = <<>> THEN <<>> ELSE Columns[node.from[1].tab]

\* The names of a subquery's columns.
SubColumns(node) ==
  IF IsStar(node.cols) THEN SourceColumns(node)
  ELSE [i \in DOMAIN node.cols |-> IF node.cols[i].k = "col" THEN node.cols[i].name ELSE ""]

InsertRecord(b, first, n, target) ==
  LET rowid  == b.reg
      record == b.reg + 1
      b1     == Emit(Alloc(b, 1), "NewRowid", target, 0, rowid)
      b2     == Emit(Alloc(b1, 1), "MakeRecord", first, n, record)
  IN  Emit(b2, "Insert", target, record, rowid)

\* _compile_subquery_fill
Fill(b, node, target) ==
  LET src   == b.cur
      b1    == OpenSource(AllocCursor(b, SourceColumns(node)), src, node)
      start == Here(b1)
      skip  == Fresh(CompileExpr(b1, node.where, src), "subq_where_skip")
      b2    == IF node.where = NULL THEN b1
               ELSE EmitJump(CompileExpr(b1, node.where, src), "IfNot", b1.reg, 0, skip)
      r     == CompileColumns(b2, node.cols, src, <<src>>)
      b3    == InsertRecord(r.b, r.regs[1], Len(r.regs), target)
      b4    == IF node.where = NULL THEN b3 ELSE Define(b3, skip)
  IN  IF node.from = <<>> THEN b4 ELSE Emit(b4, "Next", src, start, 0)

Returning(b, cols, cur) ==
  IF cols = <<>> THEN b ELSE EmitRow(b, cols, <<>>, cur, <<cur>>)

\* RETURNING of an INSERT or UPDATE seeks the row it wrote.
SeekReturning(b, cols, cur, rowid) ==
  IF cols = <<>> THEN b ELSE Returning(Emit(b, "SeekRowid", cur, 0, rowid), cols, cur)

----------------------------------------------------------------------------
(* SELECT                                                                  *)

HasAggregates(node) == node.group # <<>> \/ \E i \in DOMAIN node.cols : node.cols[i].k = "agg"

\* _serialize_having: an aggregate is found again by its name alone.
RECURSIVE Having(_, _)
Having(e, aggs) ==
  CASE e.k = "lit" -> [k |-> "lit", v |-> e.v]
    [] e.k = "agg" ->
         LET Same == {i \in DOMAIN aggs : aggs[i].name = e.name /\ aggs[i].star = e.star}
         IN  IF Same = {} THEN [k |-> "lit", v |-> NULL] ELSE [k |-> "result", at |-> Min(Same)]
    [] e.k = "col" -> [k |-> "col"]
    [] e.k \in {"cmp", "and", "or"} ->
         [k |-> e.k, op |-> IF e.k = "cmp" THEN e.op ELSE e.k,
          l |-> Having(e.l, aggs), r |-> Having(e.r, aggs)]
    [] e.k = "not" -> [k |-> "not", e |-> Having(e.e, aggs)]

\* The select list of an aggregation: aggregates leave a specification.
AggregateColumns(b, cols, cur) ==
  FoldLeft(LAMBDA acc, e :
             CASE e.k # "agg" ->
                    [acc EXCEPT !.b = CompileExpr(acc.b, e, cur), !.regs = Append(@, acc.b.reg)]
               [] e.k = "agg" /\ e.star ->
                    [b    |-> Emit(Alloc(acc.b, 1), "Integer", 0, acc.b.reg, 0),
                     regs |-> Append(acc.regs, acc.b.reg),
                     aggs |-> Append(acc.aggs, [name |-> e.name, star |-> TRUE,
                                                distinct |-> e.distinct, at |-> Len(acc.regs) + 1])]
               [] OTHER ->
                    [b    |-> CompileExpr(acc.b, e.arg, cur),
                     regs |-> Append(acc.regs, acc.b.reg),
                     aggs |-> Append(acc.aggs, [name |-> e.name, star |-> FALSE,
                                                distinct |-> e.distinct, at |-> Len(acc.regs) + 1])],
           [b |-> b, regs |-> <<>>, aggs |-> <<>>], cols)

OpenSubquery(b, node, cur) ==
  Emit(Fill(Emit(b, "OpenEphemeral", cur, 1, 0), node.sub, cur), "Rewind", cur, 0, 0)

CompileAggregation(b, node, cur) ==
  LET b1    == IF node.sub # NULL THEN OpenSubquery(b, node, cur) ELSE OpenSource(b, cur, node)
      start == Here(b1)
      loop  == node.from # <<>> \/ node.sub # NULL
      skip  == Fresh(CompileExpr(b1, node.where, cur), "agg_where_skip")
      b2    == IF node.where = NULL THEN b1
               ELSE EmitJump(CompileExpr(b1, node.where, cur), "IfNot", b1.reg, 0, skip)
      vis   == AggregateColumns(b2, node.cols, cur)
      hid   == CompileList(vis.b, node.group, cur)
      regs  == vis.regs \o hid.regs
      spec  == [visible |-> Len(node.cols),
                group   |-> [i \in DOMAIN node.group |-> Len(vis.regs) + i],
                aggs    |-> vis.aggs,
                having  |-> IF node.having = NULL THEN NULL ELSE Having(node.having, vis.aggs)]
      b3    == Emit4(hid.b, "Aggregate", 0, 0, 0, spec)
      b4    == Emit(Compact(b3, regs), "ResultRow", regs[1], Len(regs), 0)
      b5    == IF node.where = NULL THEN b4 ELSE Define(b4, skip)
  IN  IF loop THEN Emit(b5, "Next", cur, start, 0) ELSE b5

\* _order_join_entries: all but the first by size.
JoinOrder(from, size) ==
  LET Smaller(i, j) == \/ SizeOf(size, from[i].tab) < SizeOf(size, from[j].tab)
                       \/ SizeOf(size, from[i].tab) = SizeOf(size, from[j].tab) /\ i < j
      rest == SetToSortSeq(2..Len(from), Smaller)
  IN  <<from[1]>> \o [i \in DOMAIN rest |-> from[rest[i]]]

\* The row of a LEFT JOIN that found no match: the columns of the tables up to
\* the depth, and NULL.
NullRow(b, node, entries, base, depth) ==
  LET Tab(d)    == Columns[entries[d].tab]
      all       == FlattenSeq([d \in DOMAIN entries |->
                     [i \in DOMAIN Tab(d) |-> [d |-> d, name |-> Tab(d)[i]]]])
      Owner(e)  == LET D == {d \in DOMAIN entries : e.name \in Range(Tab(d))}
                   IN  IF e.k = "col" /\ D # {} THEN Min(D) ELSE Len(entries) + 1
      wanted    == IF IsStar(node.cols) THEN all
                   ELSE [i \in DOMAIN node.cols |->
                          [d |-> Owner(node.cols[i]),
                           name |-> IF node.cols[i].k = "col" THEN node.cols[i].name ELSE ""]]
      read      == FoldLeft(LAMBDA acc, w :
                     IF w.d < depth
                     THEN Emit(Alloc(acc, 1), "Column", base + w.d - 1, ColumnIndex(Tab(w.d), w.name), acc.reg)
                     ELSE Emit(Alloc(acc, 1), "Null", acc.reg, 0, 0), b, wanted)
  IN  Emit(read, "ResultRow", b.reg, Len(wanted), 0)

CompileJoin(b, node, size) ==
  LET entries   == JoinOrder(node.from, size)
      n         == Len(entries)
      base      == b.cur
      Cur(d)    == base + d - 1
      IsLeft(d) == entries[d].type = "LEFT"
      b1    == FoldLeft(LAMBDA acc, e : AllocCursor(acc, Columns[e.tab]), b, entries)
      b2    == Open(Emit(b1, "Transaction", 0, 0, 0), "OpenRead", base, entries[1].tab)
      b3    == Emit(b2, "Rewind", base, 0, 0)
      outer == Here(b3)
      \* every inner table is opened and rewound inside the loop of the first
      opened == FoldLeft(LAMBDA acc, d :
                  LET o == Open(acc.b, "OpenRead", Cur(d), entries[d].tab)
                      f == IF IsLeft(d) THEN Emit(Alloc(o, 1), "Integer", 0, o.reg, 0) ELSE o
                  IN  [b |-> Emit(f, "Rewind", Cur(d), 0, 0), flags |-> Append(acc.flags, o.reg)],
                  [b |-> b3, flags |-> <<0>>], [i \in 1..n - 1 |-> i + 1])
      b4    == opened.b
      body  == Here(b4)
      skipW == Fresh(CompileExpr(b4, node.where, base), "join_where_skip")
      b5    == IF node.where = NULL THEN b4
               ELSE EmitJump(CompileExpr(b4, node.where, base), "IfNot", b4.reg, 0, skipW)
      on    == FoldLeft(LAMBDA acc, d :
                  LET c == CompileExpr(acc.b, entries[d].on, base)
                      l == Fresh(c, "join_on_skip_" \o ToString(d - 1))
                      t == IF entries[d].on = NULL THEN acc.b ELSE EmitJump(c, "IfNot", acc.b.reg, 0, l)
                  IN  [b |-> IF IsLeft(d) THEN Emit(t, "Integer", 1, opened.flags[d], 0) ELSE t,
                       skips |-> IF entries[d].on = NULL THEN acc.skips ELSE Append(acc.skips, l)],
                  [b |-> b5, skips |-> <<>>], [i \in 1..n - 1 |-> i + 1])
      b6    == EmitRow(on.b, node.cols, node.order, base, [d \in 1..n |-> Cur(d)])
      b7    == FoldLeft(Define, b6, on.skips)
      b8    == IF node.where = NULL THEN b7 ELSE Define(b7, skipW)
      b9    == IF node.limit = NULL THEN b8 ELSE CompileExpr(b8, node.limit, base)
      b10   == IF node.offset = NULL THEN b9
               ELSE Emit(CompileExpr(b9, node.offset, base), "IfNotZero", b9.reg, 0, 1)
      \* from the innermost table out, each goes back to the same loop body
      looped == FoldLeft(LAMBDA acc, d :
                  LET x == Emit(acc, "Next", Cur(d), body, 0)
                      l == Fresh(x, "left_join_skip_" \o ToString(d - 1))
                  IN  IF ~IsLeft(d) THEN x
                      ELSE Define(NullRow(EmitJump(x, "If", opened.flags[d], 0, l),
                                          node, entries, base, d), l),
                  b10, [i \in 1..n - 1 |-> n + 1 - i])
  IN  Emit(looped, "Next", base, outer, 0)

\* _try_optimize_select: WHERE key = literal.  A key of any type is taken for
\* the rowid.
SeeksKey(node, t) ==
  /\ node.where # NULL
  /\ node.where.k = "cmp" /\ node.where.op = "Eq"
  /\ {node.where.l.k, node.where.r.k} = {"col", "lit"}
  /\ Key[t] # 0
  /\ LET c == IF node.where.l.k = "col" THEN node.where.l ELSE node.where.r
     IN  c.name = Columns[t][Key[t]]

CompileSeek(b, node, cur) ==
  LET val  == IF node.where.l.k = "lit" THEN node.where.l ELSE node.where.r
      b1   == CompileExpr(b, val, cur)
      none == Fresh(b1, "opt_nf")
      b2   == EmitJump(b1, "SeekRowid", cur, b.reg, none)
      b3   == EmitRow(b2, node.cols, node.order, cur, <<cur>>)
      end  == Fresh(b3, "opt_end")
  IN  Define(Define(EmitGoto(b3, end), none), end)

\* Mutant of SkipOffset: the rows skipped are not counted.
SkipUncounted(b, reg, result, cont) ==
  LET nn == Fresh(b, "off_nn")
      b1 == EmitGoto(EmitJump(b, "NotNull", reg, 0, nn), result)
  IN  EmitJump(Define(b1, nn), "IfNotZero", reg, 0, cont)

\* OFFSET and LIMIT count in registers set before the loop; a row is emitted
\* when control reaches the label result_label.
SkipOffset(b, reg, result, cont) ==
  LET nn == Fresh(b, "off_nn")
      b1 == EmitGoto(EmitJump(b, "NotNull", reg, 0, nn), result)
  IN  EmitJump(Define(b1, nn), "IfNotZero", reg, 1, cont)

StopAtLimit(b, reg, result, end) ==
  LET nn == Fresh(b, "lim_nn")
      b1 == EmitGoto(EmitJump(b, "NotNull", reg, 0, nn), result)
  IN  EmitGoto(EmitJump(Define(b1, nn), "IfNotZero", reg, 1, result), end)

\* The loop over one table; b is after the cursor's Rewind.
CompileLoop(b, node, cur) ==
  LET bounded == node.limit # NULL \/ node.offset # NULL
      b1    == IF node.limit = NULL THEN b ELSE CompileExpr(b, node.limit, cur)
      b2    == IF node.offset = NULL THEN b1 ELSE CompileExpr(b1, node.offset, cur)
      start == Here(b2)
      cont  == Fresh(b2, "loop_cont")
      result == Fresh(b2, "result_label")
      end   == Fresh(b2, "select_end")
      b3    == IF node.where = NULL THEN b2
               ELSE EmitJump(CompileExpr(b2, node.where, cur), "IfNot", b2.reg, 0, cont)
      b4    == IF node.offset = NULL THEN b3 ELSE SkipOffset(b3, b1.reg, result, cont)
      b5    == IF node.limit = NULL THEN b4 ELSE StopAtLimit(b4, b.reg, result, end)
      b6    == IF bounded THEN Define(b5, result) ELSE b5
      b7    == EmitRow(b6, node.cols, node.order, cur, <<cur>>)
      b8    == IF bounded \/ node.where # NULL THEN Define(b7, cont) ELSE b7
      b9    == IF node.from = <<>> /\ node.sub = NULL THEN b8 ELSE Emit(b8, "Next", cur, start, 0)
  IN  IF bounded THEN Define(b9, end) ELSE b9

CompileTable(b, node, cur) ==
  LET t      == node.from[1].tab
      b1     == Open(Emit(b, "Transaction", 0, 0, 0), "OpenRead", cur, t)
      target == Fresh(b1, "rewind_target")
  IN  IF SeeksKey(node, t) THEN CompileSeek(b1, node, cur)
      ELSE Define(CompileLoop(EmitJump(b1, "Rewind", cur, 0, target), node, cur), target)

CompileSelect(b, node, size) ==
  LET cur  == b.cur
      join == Len(node.from) > 1
      cols == CASE node.sub # NULL -> SubColumns(node.sub) [] join -> <<>> [] OTHER -> SourceColumns(node)
      b1   == AllocCursor(b, cols)
      b2   == IF node.distinct THEN Emit(b1, "Distinct", 0, 0, 0) ELSE b1
  IN  CASE HasAggregates(node)  -> CompileAggregation(b2, node, cur)
        [] join                 -> CompileJoin(b2, node, size)
        [] node.sub # NULL      -> CompileLoop(OpenSubquery(b2, node, cur), node, cur)
        [] node.from # <<>>     -> CompileTable(b2, node, cur)
        [] OTHER                -> CompileLoop(Emit(b2, "OpenEphemeral", cur, 1, 0), node, cur)

----------------------------------------------------------------------------
(* INSERT, UPDATE, DELETE                                                  *)

CompileInsertSelect(b, node, dest) ==
  LET src   == b.cur
      sel   == node.select
      b1    == OpenSource(AllocCursor(b, SourceColumns(sel)), src, sel)
      start == Here(b1)
      \* the WHERE of the source is not compiled
      r     == CompileColumns(b1, sel.cols, src, <<src>>)
      b2    == InsertRecord(r.b, r.regs[1], Len(r.regs), dest)
      b3    == SeekReturning(b2, node.returning, dest, r.b.reg)
  IN  IF sel.from = <<>> THEN b3 ELSE Emit(b3, "Next", src, start, 0)

\* The value a row gives a column: its place in the row, 0 if none.
Provided(node, i) ==
  IF node.cols = <<>> THEN IF i <= Len(node.rows[1]) THEN i ELSE 0
  ELSE IF Columns[node.tab][i] \in Range(node.cols)
       THEN ColumnIndex(node.cols, Columns[node.tab][i]) + 1 ELSE 0

\* The values in the order of the table's columns, but for the alias of the
\* rowid; a value given for a NOT NULL column is tested with If.
OrderValues(b, node, regs) ==
  LET t == node.tab
      Place(acc, i) ==
        IF t \in Alias /\ i = Key[t] THEN acc
        ELSE IF Provided(node, i) = 0
             THEN [b |-> Emit(Alloc(acc.b, 1), "Null", acc.b.reg, 0, 0), regs |-> Append(acc.regs, acc.b.reg)]
        ELSE LET r  == regs[Provided(node, i)]
                 ok == Fresh(acc.b, "notnull_ok")
             IN  [b |-> IF Columns[t][i] \notin NotNull[t] THEN acc.b
                        ELSE Define(Emit(EmitJump(acc.b, "If", r, 0, ok), "Halt", -1, 0, 0), ok),
                  regs |-> Append(acc.regs, r)]
  IN  FoldLeft(Place, [b |-> b, regs |-> <<>>], [i \in DOMAIN Columns[t] |-> i])

IsUpsert(node) == node.upsert # NULL \/ node.orAction # ""

\* Mutant of TakeRowid: the key given is not used.
TakeNoRowid(b, node, user, vals, rowid, cur) == Emit(b, "NewRowid", cur, 0, rowid)

\* Only an INSERT that may meet a conflict takes the rowid from the key.
TakeRowid(b, node, user, vals, rowid, cur) ==
  LET t == node.tab
      p == IF Key[t] = 0 THEN 0 ELSE Provided(node, Key[t])
  IN  IF ~IsUpsert(node) \/ p = 0 \/ (t \notin Alias /\ p > Len(vals))
      THEN Emit(b, "NewRowid", cur, 0, rowid)
      ELSE Emit(b, "MemCopy", IF t \in Alias THEN user[p] ELSE vals[p], rowid, 0)

Write(b, op, first, n, record, rowid, cur) ==
  Emit(Emit(b, "MakeRecord", first, n, record), op, cur, record, rowid)

CompileReplace(b, first, n, record, rowid, cur) ==
  LET none == Fresh(b, "replace_no_conflict")
      b1   == Emit(EmitJump(b, "SeekRowid", cur, rowid, none), "Delete", cur, 0, 0)
  IN  Write(Define(b1, none), "Insert", first, n, record, rowid, cur)

\* SET clauses overwrite the registers the row was read to.
SetColumns(b, t, sets, regs, cur) ==
  FoldLeft(LAMBDA acc, s : Emit(CompileExpr(acc, s.e, cur), "MemCopy", acc.reg,
                                regs[ColumnIndex(Columns[t], s.col) + 1], 0),
           b, sets)

CompileDoUpdate(b, node, first, n, record, rowid, cur) ==
  LET t     == node.tab
      none  == Fresh(b, "upsert_no_conflict")
      b1    == EmitJump(b, "SeekRowid", cur, rowid, none)
      excl  == b1.cur
      b2    == Emit(AllocCursor(b1, Columns[t]), "OpenEphemeral", excl, 1, 0)
      b3    == Write(Emit(Alloc(b2, 1), "Integer", 0, b2.reg, 0), "Insert", first, n, record, b2.reg, excl)
      b4    == Emit(b3, "Rewind", excl, 0, 0)
      r     == ReadColumns(Emit(Alloc(b4, 1), "Rowid", cur, b4.reg, 0), cur)
      b5    == SetColumns(r.b, t, node.upsert, r.regs, excl)
      b6    == Write(Alloc(Emit(b5, "Delete", cur, 0, 0), 1), "Insert", r.regs[1], Len(r.regs),
                     b5.reg, b4.reg, cur)
      after == Fresh(b6, "upsert_after")
      b7    == Define(EmitGoto(b6, after), none)
  IN  Define(Write(b7, "Insert", first, n, record, rowid, cur), after)

CompileRow(b, node, row, cur) ==
  LET user   == CompileList(b, row, 0)
      vals   == OrderValues(user.b, node, user.regs)
      n      == Len(vals.regs)
      first  == vals.b.reg
      b1     == Alloc(FoldLeft(LAMBDA acc, i : Emit(acc, "MemCopy", vals.regs[i], first + i - 1, 0),
                               vals.b, [i \in 1..n |-> i]), n)
      rowid  == b1.reg
      b2     == TakeRowid(Alloc(b1, 1), node, user.regs, [i \in 1..n |-> first + i - 1], rowid, cur)
      record == b2.reg
      b3     == Emit(Alloc(b2, 1), "MakeRecord", first, n, record)
      b4     == CASE node.orAction = "IGNORE"  -> Emit(b3, "NoConflictInsert", cur, record, rowid)
                  [] node.orAction = "REPLACE" -> CompileReplace(b3, first, n, record, rowid, cur)
                  [] node.upsert # NULL        -> CompileDoUpdate(b3, node, first, n, record, rowid, cur)
                  [] OTHER                     -> Emit(b3, "Insert", cur, record, rowid)
  IN  SeekReturning(b4, node.returning, cur, rowid)

OpenTarget(b, t) ==
  LET b1 == Emit(AllocCursor(b, Columns[t]), "Transaction", 1, 0, 0)
  IN  Open(b1, "OpenWrite", b.cur, t)

CompileInsert(b, node) ==
  LET b1 == OpenTarget(b, node.tab)
  IN  IF node.select # NULL THEN CompileInsertSelect(b1, node, b.cur)
      ELSE FoldLeft(LAMBDA acc, row : CompileRow(acc, node, row, b.cur), b1, node.rows)

\* The foreign keys an UPDATE looks at, those that repair the children first.
KeysInto(t) ==
  LET Into(actions) == SelectSeq(ForeignKeys, LAMBDA f : f.parent = t /\ f.onUpdate \in actions)
  IN  Into(Repairs) \o Into({"RESTRICT"})

\* The old values of their columns are copied before SET overwrites them.
SaveKeys(b, t, regs) ==
  LET Save(acc, f) ==
        [b   |-> FoldLeft(LAMBDA x, c : Emit(Alloc(x, 1), "MemCopy", regs[ColumnIndex(Columns[t], c) + 1], x.reg, 0),
                          acc.b, f.parentCols),
         fks |-> Append(acc.fks,
                   [key |-> f,
                    old |-> [i \in DOMAIN f.parentCols |-> acc.b.reg + i - 1],
                    new |-> [i \in DOMAIN f.parentCols |-> regs[ColumnIndex(Columns[t], f.parentCols[i]) + 1]]])]
  IN  FoldLeft(Save, [b |-> b, fks |-> <<>>], KeysInto(t))

EmitKeys(b, fks, actions) ==
  FoldLeft(LAMBDA acc, f : Emit4(acc, "FkUpdate", 0, 0, Len(f.old), f), b,
           SelectSeq(fks, LAMBDA f : f.key.onUpdate \in actions))

CompileUpdate(b, node) ==
  LET cur   == b.cur
      b1    == Emit(OpenTarget(b, node.tab), "Rewind", cur, 0, 0)
      start == Here(b1)
      skip  == Fresh(CompileExpr(b1, node.where, cur), "update_skip")
      b2    == IF node.where = NULL THEN b1
               ELSE EmitJump(CompileExpr(b1, node.where, cur), "IfNot", b1.reg, 0, skip)
      r     == ReadColumns(Emit(Alloc(b2, 1), "Rowid", cur, b2.reg, 0), cur)
      keys  == SaveKeys(r.b, node.tab, r.regs)
      b3    == EmitKeys(SetColumns(keys.b, node.tab, node.sets, r.regs, cur), keys.fks, {"RESTRICT"})
      b4    == Write(Alloc(Emit(b3, "Delete", cur, 0, 0), 1), "Insert", r.regs[1], Len(r.regs),
                     b3.reg, b2.reg, cur)
      b5    == SeekReturning(EmitKeys(b4, keys.fks, Repairs), node.returning, cur, b2.reg)
      b6    == IF node.where = NULL THEN b5 ELSE Define(b5, skip)
  IN  Emit(b6, "Next", cur, start, 0)

CompileDelete(b, node) ==
  LET cur   == b.cur
      b1    == OpenTarget(b, node.tab)
      end   == Fresh(b1, "delete_end")
      b2    == Emit(b1, "Rewind", cur, 0, 0)
      start == Here(b2)
      b3    == EmitJump(Emit(Alloc(b2, 1), "Rowid", cur, b2.reg, 0), "IsNull", b2.reg, 0, end)
      skip  == Fresh(CompileExpr(b3, node.where, cur), "delete_skip")
      b4    == IF node.where = NULL THEN b3
               ELSE EmitJump(CompileExpr(b3, node.where, cur), "IfNot", b3.reg, 0, skip)
      b5    == Emit(Returning(b4, node.returning, cur), "Delete", cur, 0, 0)
      b6    == Emit(b5, "Goto", start, 0, 0)
      b7    == Emit(IF node.where = NULL THEN b6 ELSE Define(b6, skip), "Next", cur, start, 0)
      b8    == Define(b7, end)
  IN  [b8 EXCEPT !.prog[Here(b2)].p2 = b8.labels[end]]

\* compile: a label nothing defined is an error.
Compile(node, size) ==
  LET b == CASE node.kind = "select" -> CompileSelect(Prologue, node, size)
             [] node.kind = "insert" -> CompileInsert(Prologue, node)
             [] node.kind = "update" -> CompileUpdate(Prologue, node)
             [] node.kind = "delete" -> CompileDelete(Prologue, node)
  IN  [prog |-> Emit(b, "Halt", 0, 0, 0).prog, ok |-> b.pending = {}]

============================================================================
