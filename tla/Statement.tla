----------------------------- MODULE Statement -----------------------------
(***************************************************************************)
(* What a statement should answer and leave in the tables: SQL by its      *)
(* meaning, row by row, with no program and no machine; and the properties *)
(* that module Machine, running what module Program compiles, does that.   *)
(* The statements for which it is known not to are the named exceptions of *)
(* Trusted, each with the line of the code that makes it one.              *)
(***************************************************************************)
EXTENDS Machine

CONSTANT Promises    \* what each statement promises, for given tables

----------------------------------------------------------------------------
(* Expressions over a row: a function from column names to values.         *)

\* Truth is 1, 0 or NULL for unknown.
Not3(v)        == IF v = NULL THEN NULL ELSE Bit(v = 0)
And3(v, w)     == IF 0 \in {v, w} THEN 0
                  ELSE IF NULL \in {v, w} THEN NULL ELSE 1
Or3(v, w)      == Not3(And3(Not3(v), Not3(w)))
Cmp3(op, v, w) == IF NULL \in {v, w} THEN NULL
                  ELSE Bit(CASE op = "Eq" -> v = w [] op = "Ne" -> v # w [] op = "Lt" -> v < w
                             [] op = "Le" -> v <= w [] op = "Gt" -> v > w [] op = "Ge" -> v >= w)
Negated(neg, v) == IF neg THEN Not3(v) ELSE v

\* Of integers SQL makes an integer.
Computed(op, v, w) ==
  IF NULL \in {v, w} THEN NULL
  ELSE CASE op = "Add" -> v + w [] op = "Subtract" -> v - w [] op = "Multiply" -> v * w

RECURSIVE Eval(_, _)
Eval(e, row) ==
  CASE e.k = "lit"     -> e.v
    [] e.k = "col"     -> row[e.name]
    [] e.k = "neg"     -> Computed("Subtract", 0, Eval(e.e, row))
    [] e.k = "arith"   -> Computed(e.op, Eval(e.l, row), Eval(e.r, row))
    [] e.k = "cmp"     -> Cmp3(e.op, Eval(e.l, row), Eval(e.r, row))
    [] e.k = "not"     -> Not3(Eval(e.e, row))
    [] e.k = "and"     -> And3(Eval(e.l, row), Eval(e.r, row))
    [] e.k = "or"      -> Or3(Eval(e.l, row), Eval(e.r, row))
    [] e.k = "isnull"  -> Bit((Eval(e.e, row) = NULL) # e.neg)
    [] e.k = "is"      -> Bit((Eval(e.l, row) = Eval(e.r, row)) # e.neg)
    [] e.k = "between" -> LET v == Eval(e.e, row)
                          IN  Negated(e.neg, And3(Cmp3("Ge", v, Eval(e.lo, row)), Cmp3("Le", v, Eval(e.hi, row))))
    [] e.k = "in"      -> LET v == Eval(e.e, row)
                          IN  Negated(e.neg, FoldLeft(LAMBDA acc, x : Or3(acc, Cmp3("Eq", v, Eval(x, row))), 0, e.list))
    [] e.k = "case"    ->
         LET Holds_(w) == IF e.base = NULL THEN IsTrue(Eval(w, row))
                          ELSE IsTrue(Cmp3("Eq", Eval(e.base, row), Eval(w, row)))
             taken     == SelectSeq(e.whens, LAMBDA w : Holds_(w[1]))
         IN  IF taken # <<>> THEN Eval(taken[1][2], row)
             ELSE IF e.else = NULL THEN NULL ELSE Eval(e.else, row)

Keeps(where, row) == where = NULL \/ IsTrue(Eval(where, row))

----------------------------------------------------------------------------
(* SELECT                                                                  *)

AsRow(t, r) ==
  [c \in Range(Columns[t]) |-> Stored(t, r, ColumnIndex(Columns[t], c) + 1)]

RowsOf(db, t) == [i \in DOMAIN db[t] |-> AsRow(t, db[t][i])]

\* The rows a FROM of one or two tables gives, in the order of nested loops.
NoRow(t) == [c \in Range(Columns[t]) |-> NULL]

Joined(db, from) ==
  LET inner(row) ==
        LET all  == [i \in DOMAIN db[from[2].tab] |-> RowsOf(db, from[2].tab)[i] @@ row]
            some == SelectSeq(all, LAMBDA r : Keeps(from[2].on, r))
        IN  IF some = <<>> /\ from[2].type = "LEFT" THEN <<NoRow(from[2].tab) @@ row>> ELSE some
      outer == RowsOf(db, from[1].tab)
  IN  FlattenSeq([i \in DOMAIN outer |-> inner(outer[i])])

RECURSIVE Select(_, _)

Source(db, node) ==
  CASE node.sub # NULL     -> LET sub == Select(db, node.sub)
                              IN  [i \in DOMAIN sub |->
                                    [c \in Range(SubColumns(node.sub)) |->
                                       sub[i][ColumnIndex(SubColumns(node.sub), c) + 1]]]
    [] node.from = <<>>    -> <<<<>>>>
    [] Len(node.from) = 1  -> RowsOf(db, node.from[1].tab)
    [] OTHER               -> Joined(db, node.from)

StarNames(node) ==
  IF node.sub # NULL THEN SubColumns(node.sub)
  ELSE FlattenSeq([i \in DOMAIN node.from |-> Columns[node.from[i].tab]])

Project(node, row) ==
  IF IsStar(node.cols) THEN [i \in DOMAIN StarNames(node) |-> row[StarNames(node)[i]]]
  ELSE [i \in DOMAIN node.cols |-> Eval(node.cols[i], row)]

\* NULL is smaller than every number: first if ascending, last if descending.
Smaller(v, w) == w # NULL /\ (v = NULL \/ v < w)

Ordered(terms, rows) ==
  LET KeyOf(r, i) == Eval(terms[i].e, r)
      Before(r, s) == \E i \in DOMAIN terms :
                        /\ IF terms[i].desc THEN Smaller(KeyOf(s, i), KeyOf(r, i))
                           ELSE Smaller(KeyOf(r, i), KeyOf(s, i))
                        /\ \A j \in 1..i - 1 : KeyOf(r, j) = KeyOf(s, j)
  IN  StableSort(rows, Before)

Cut(node, rows) ==
  LET off == IF node.offset = NULL THEN 0 ELSE node.offset.v
      lim == IF node.limit = NULL THEN Len(rows) ELSE node.limit.v
  IN  SubSeq(rows, off + 1, Min({Len(rows), off + lim}))

\* Aggregates leave NULL out; of nothing COUNT is 0, and the others are NULL.
AggregateOf(e, g) ==
  LET v    == [i \in DOMAIN g |-> IF e.star THEN 0 ELSE Eval(e.arg, g[i])]
      some == {i \in DOMAIN v : v[i] # NULL /\ (e.distinct => \A j \in 1..i - 1 : v[j] # v[i])}
      vals == {v[i] : i \in some}
  IN  IF e.name = "COUNT" THEN Cardinality(some)
      ELSE IF some = {} THEN NULL
      ELSE CASE e.name = "SUM" -> MapThenSumSet(LAMBDA i : v[i], some)
             [] e.name = "MIN" -> Min(vals)
             [] e.name = "MAX" -> Max(vals)

\* An expression over a group: its aggregates, and columns all its rows share.
RECURSIVE EvalGroup(_, _)
EvalGroup(e, g) ==
  CASE e.k = "agg" -> AggregateOf(e, g)
    [] e.k = "cmp" -> Cmp3(e.op, EvalGroup(e.l, g), EvalGroup(e.r, g))
    [] e.k = "and" -> And3(EvalGroup(e.l, g), EvalGroup(e.r, g))
    [] e.k = "or"  -> Or3(EvalGroup(e.l, g), EvalGroup(e.r, g))
    [] e.k = "not" -> Not3(EvalGroup(e.e, g))
    [] OTHER       -> Eval(e, g[1])

\* Without GROUP BY all rows are one group, also if there are none.
Groups(node, rows) ==
  LET KeyOf(r) == [i \in DOMAIN node.group |-> Eval(node.group[i], r)]
      all      == [i \in DOMAIN rows |-> KeyOf(rows[i])]
      keys     == Distinct(all, all)
  IN  IF node.group = <<>> THEN <<rows>>
      ELSE [i \in DOMAIN keys |-> SelectSeq(rows, LAMBDA r : KeyOf(r) = keys[i])]

Grouped(node, rows) ==
  LET kept == SelectSeq(Groups(node, rows), LAMBDA g : node.having = NULL \/ IsTrue(EvalGroup(node.having, g)))
  IN  [i \in DOMAIN kept |-> [c \in DOMAIN node.cols |-> EvalGroup(node.cols[c], kept[i])]]

Matching(db, node) == SelectSeq(Source(db, node), LAMBDA r : Keeps(node.where, r))

Select(db, node) ==
  LET rows == Matching(db, node)
      out  == IF HasAggregates(node) THEN Grouped(node, rows)
              ELSE LET sorted == Ordered(node.order, rows)
                   IN  [i \in DOMAIN sorted |-> Project(node, sorted[i])]
  IN  Cut(node, IF node.distinct THEN Distinct(out, out) ELSE out)

----------------------------------------------------------------------------
(* INSERT, UPDATE, DELETE: the rows of the statement's table afterwards.   *)

\* A row as INSERT stores it.
Record(t, row) ==
  LET names == IF t \in Alias THEN RemoveAt(Columns[t], Key[t]) ELSE Columns[t]
  IN  [i \in DOMAIN names |-> row[names[i]]]

NextId(rows) == IF rows = <<>> THEN 1 ELSE Max({rows[i].id : i \in DOMAIN rows} \cup {0}) + 1

WithRow(rows, new) ==
  LET below == SelectSeq(rows, LAMBDA r : r.id < new.id)
      above == SelectSeq(rows, LAMBDA r : r.id > new.id)
  IN  below \o <<new>> \o above

\* One row of VALUES, or of the source of an INSERT ... SELECT.
InsertOne(node, rows, vals) ==
  LET t     == node.tab
      user(i) == IF node.select # NULL THEN i ELSE Provided(node, i)
      row   == [c \in Range(Columns[t]) |->
                  LET i == user(ColumnIndex(Columns[t], c) + 1) IN IF i = 0 THEN NULL ELSE vals[i]]
      key   == IF Key[t] = 0 THEN NULL ELSE row[Columns[t][Key[t]]]
      id    == IF t \notin Alias \/ key = NULL THEN NextId(rows) ELSE key
      old   == SelectSeq(rows, LAMBDA r : key # NULL /\ Stored(t, r, Key[t]) = key)
      set   == IF node.upsert = NULL THEN row
               ELSE LET was == AsRow(t, old[1])
                    IN  [c \in DOMAIN was |->
                           LET S == {i \in DOMAIN node.upsert : node.upsert[i].col = c}
                           IN  IF S = {} THEN was[c] ELSE Eval(node.upsert[Max(S)].e, row)]
  IN  CASE old # <<>> /\ node.orAction = "IGNORE" -> rows
        [] old # <<>> /\ node.upsert # NULL -> WithRow(rows, [id |-> old[1].id, vals |-> Record(t, set)])
        [] OTHER -> WithRow(SelectSeq(rows, LAMBDA r : r \notin Range(old)), [id |-> id, vals |-> Record(t, row)])

Updated(node, r) ==
  LET row == AsRow(node.tab, r)
      new == [c \in DOMAIN row |->
                LET S == {i \in DOMAIN node.sets : node.sets[i].col = c}
                IN  IF S = {} THEN row[c] ELSE Eval(node.sets[Max(S)].e, row)]
  IN  IF Keeps(node.where, row) THEN [id |-> r.id, vals |-> Record(node.tab, new)] ELSE r

RowsAfter(db, node) ==
  LET rows == db[node.tab]
  IN  CASE node.kind = "insert" ->
             LET vals == IF node.select # NULL THEN Select(db, node.select)
                         ELSE [i \in DOMAIN node.rows |->
                                 [j \in DOMAIN node.rows[i] |-> Eval(node.rows[i][j], <<>>)]]
             IN  FoldLeft(LAMBDA acc, v : InsertOne(node, acc, v), rows, vals)
        [] node.kind = "update" -> [i \in DOMAIN rows |-> Updated(node, rows[i])]
        [] node.kind = "delete" -> SelectSeq(rows, LAMBDA r : ~Keeps(node.where, AsRow(node.tab, r)))

\* RETURNING shows the new rows of an INSERT or UPDATE, the old ones of a DELETE.
Touched(db, node) ==
  LET old == db[node.tab]
      new == RowsAfter(db, node)
  IN  CASE node.kind = "insert" -> SelectSeq(new, LAMBDA r : r \notin Range(old))
        [] node.kind = "update" -> LET hit == SelectSeq(old, LAMBDA r : Keeps(node.where, AsRow(node.tab, r)))
                                   IN  [i \in DOMAIN hit |-> Updated(node, hit[i])]
        [] node.kind = "delete" -> SelectSeq(old, LAMBDA r : r \notin Range(new))

Answer(db, node) ==
  IF node.kind = "select" THEN Select(db, node)
  ELSE IF node.returning = <<>> THEN <<>>
  ELSE LET rows == Touched(db, node)
           cols == IF IsStar(node.returning) THEN [i \in DOMAIN Columns[node.tab] |->
                                                     [k |-> "col", name |-> Columns[node.tab][i]]]
                   ELSE node.returning
       IN  [i \in DOMAIN rows |-> [c \in DOMAIN cols |-> Eval(cols[c], AsRow(node.tab, rows[i]))]]

----------------------------------------------------------------------------
(* Foreign keys: what becomes of the rows that refer to rows the statement *)
(* changes.                                                                *)

KeyOf(t, r, cols) == [i \in DOMAIN cols |-> Number(AsRow(t, r)[cols[i]])]

Orphan(db, f, r) ==
  LET key == KeyOf(f.child, r, f.cols)
  IN  /\ NULL \notin Range(key)
      /\ ~\E p \in Range(db[f.parent]) : KeyOf(f.parent, p, f.parentCols) = key

Orphans(db) ==
  {<<f, r>> \in UNION {{f} \X Range(db[f.child]) : f \in Range(ForeignKeys)} : Orphan(db, f, r)}

\* The row a statement finds a child's parent in, and the one it leaves there.
Parents(db, f, r) ==
  SelectSeq(db[f.parent], LAMBDA p : NULL \notin Range(KeyOf(f.child, r, f.cols))
                                     /\ KeyOf(f.parent, p, f.parentCols) = KeyOf(f.child, r, f.cols))
Successors(rows, p) == SelectSeq(rows, LAMBDA q : q.id = p.id)

\* The action that befalls a row: none, or that of its foreign key.
Befalls(db, rows, f, r) ==
  LET old == Parents(db, f, r)
      new == Successors(rows, old[1])
      Key_(p) == KeyOf(f.parent, p, f.parentCols)
  IN  IF old = <<>> THEN "none"
      ELSE IF new = <<>> THEN f.onDelete
      ELSE IF Key_(new[1]) # Key_(old[1]) THEN f.onUpdate ELSE "none"

Follow(db, rows, f, r) ==
  LET action   == Befalls(db, rows, f, r)
      old      == Parents(db, f, r)
      values   == CASE action = "CASCADE"     -> KeyOf(f.parent, Successors(rows, old[1])[1], f.parentCols)
                    [] action = "SET NULL"    -> [i \in DOMAIN f.cols |-> NULL]
                    [] action = "SET DEFAULT" -> f.default
      row      == AsRow(f.child, r)
      followed == [c \in DOMAIN row |-> LET Of == {i \in DOMAIN f.cols : f.cols[i] = c}
                                         IN  IF Of = {} THEN row[c] ELSE values[Min(Of)]]
  IN  IF action \in Repairs THEN [id |-> r.id, vals |-> Record(f.child, followed)] ELSE r

Falls(db, rows, f, r) ==
  Befalls(db, rows, f, r) = "CASCADE" /\ Successors(rows, Parents(db, f, r)[1]) = <<>>

\* A table has at most one key into the table a statement changes.
Children(db, rows, f) ==
  LET kept == SelectSeq(db[f.child], LAMBDA r : ~Falls(db, rows, f, r))
  IN  [i \in DOMAIN kept |-> Follow(db, rows, f, kept[i])]

Into(node) == SelectSeq(ForeignKeys, LAMBDA f : f.parent = node.tab)

After(db, node) ==
  LET rows == RowsAfter(db, node)
  IN  FoldLeft(LAMBDA acc, f : [acc EXCEPT ![f.child] = Children(db, rows, f)],
               [db EXCEPT ![node.tab] = rows], Into(node))

\* RESTRICT does not wait for the end of the statement.
Restricted(db, node) ==
  \E f \in Range(Into(node)) : \E r \in Range(db[f.child]) :
    Befalls(db, RowsAfter(db, node), f, r) = "RESTRICT"

----------------------------------------------------------------------------
(* What is known not to be answered so.  Each exception has the line of    *)
(* pysqlite/compile.py, or of vm.py, that makes it one.                    *)

Operands(e) ==
  CASE e.k \in {"lit", "col", "star"} -> <<>>
    [] e.k \in {"neg", "not", "isnull"} -> <<e.e>>
    [] e.k = "between" -> <<e.lo, e.hi, e.e>>
    [] e.k = "in"      -> <<e.e>> \o e.list
    [] e.k = "agg"     -> <<e.arg>>
    [] e.k = "case"    -> (IF e.base = NULL THEN <<>> ELSE <<e.base>>)
                          \o FlattenSeq(e.whens) \o (IF e.else = NULL THEN <<>> ELSE <<e.else>>)
    [] OTHER           -> <<e.l, e.r>>

RECURSIVE Within(_)
Within(e) == {e} \cup UNION {Within(x) : x \in Range(Operands(e))}

Bare(e) == \A x \in Within(e) : x.k \in {"lit", "col", "neg", "arith"}

\* What is compiled after e asked for its labels and before any other label
\* is known; an IN asks for its labels after its first operand.
RECURSIVE Opening(_)
Opening(e) ==
  LET ops  == IF e.k = "in" THEN e.list ELSE Operands(e)
      Firsts == {i \in DOMAIN ops : \A j \in 1..i - 1 : Bare(ops[j])}
  IN  UNION {{ops[i]} \cup Opening(ops[i]) : i \in Firsts}

\* 95: two labels of one name, so that a jump goes to the wrong place.
SameLabel(e) == e.k \in {"and", "or", "case", "in"} /\ \E x \in Opening(e) : x.k = e.k

\* 411: CASE with a base jumps to the register of its WHEN; 487: a label of IS
\* is never defined.
NotCompiled(e) == e.k = "is" \/ (e.k = "case" /\ e.base # NULL)

Mentioned(e) == {x.name : x \in {y \in Within(e) : y.k = "col"}}

\* vm.py 215: NULL compares as a value; IS NULL is meant to.
ComparesNull(e, nulls) ==
  /\ e.k \notin {"lit", "col", "neg", "arith", "isnull", "star", "agg"}
  /\ \E x \in Range(Operands(e)) : x.k # "isnull" /\ Mentioned(x) \cap nulls # {}

NullColumns(db) ==
  {c \in UNION {Range(Columns[t]) : t \in DOMAIN db} :
     \E t \in DOMAIN db : c \in Range(Columns[t]) /\ \E r \in Range(db[t]) : AsRow(t, r)[c] = NULL}

Opt(e) == IF e = NULL THEN {} ELSE {e}

RECURSIVE Exprs(_)
Exprs(node) ==
  CASE node.kind = "select" ->
         Range(node.cols) \cup Opt(node.where) \cup Opt(node.having) \cup Range(node.group)
         \cup {t.e : t \in Range(node.order)}
         \cup UNION {Opt(f.on) : f \in Range(node.from)}
         \cup (IF node.sub = NULL THEN {} ELSE Exprs(node.sub))
    [] node.kind = "insert" ->
         UNION {Range(r) : r \in Range(node.rows)} \cup Range(node.returning)
         \cup (IF node.upsert = NULL THEN {} ELSE {s.e : s \in Range(node.upsert)})
         \cup (IF node.select = NULL THEN {} ELSE Exprs(node.select))
    [] node.kind = "update" -> {s.e : s \in Range(node.sets)} \cup Opt(node.where) \cup Range(node.returning)
    [] node.kind = "delete" -> Opt(node.where) \cup Range(node.returning)

\* vm.py 601, 625: the sum and the product of integers are REAL, unless the compiler
\* folded two literals; a comparison does not tell, an answer and a row do.
RECURSIVE Shown(_)
Shown(node) ==
  CASE node.kind = "select" -> Range(node.cols) \cup (IF node.sub = NULL THEN {} ELSE Shown(node.sub))
    [] node.kind = "insert" ->
         UNION {Range(r) : r \in Range(node.rows)} \cup Range(node.returning)
         \cup (IF node.upsert = NULL THEN {} ELSE {s.e : s \in Range(node.upsert)})
         \cup (IF node.select = NULL THEN {} ELSE Shown(node.select))
    [] node.kind = "update" -> {s.e : s \in Range(node.sets)} \cup Range(node.returning)
    [] node.kind = "delete" -> Range(node.returning)

OddArithmetic(node) ==
  \E e \in UNION {Within(x) : x \in Shown(node)} : e.k = "arith" /\ e.op # "Subtract" /\ {e.l.k, e.r.k} # {"lit"}

OddExpression(db, node) ==
  \E e \in UNION {Within(x) : x \in Exprs(node)} :
    SameLabel(e) \/ NotCompiled(e) \/ ComparesNull(e, NullColumns(db))

Bounded(node) == node.limit # NULL \/ node.offset # NULL
Plain(node)   == /\ node.sub = NULL /\ Len(node.from) = 1 /\ node.order = <<>> /\ ~Bounded(node)
                 /\ ~node.distinct /\ ~HasAggregates(node)

\* 1004: rows are counted before they are sorted or made distinct.  1513: each
\* key has two registers and the row is read as if it had one, after the first
\* registers of the select list.  vm.py 156: NULL comes last, ascending too.
OddOrder(db, node) ==
  \/ Bounded(node) /\ node.order # <<>>
  \/ Bounded(node) /\ node.distinct
  \/ Len(node.order) > 1
  \/ \E t \in Range(node.order) : ~t.desc /\ \E r \in Range(Source(db, node)) : Eval(t.e, r) = NULL
  \/ node.order # <<>> /\ \E e \in Range(node.cols) : e.k \notin {"lit", "col", "star"}

\* 1165: the jump of an empty table leads into the loop; vm.py 1468: groups come
\* first in a row, and nothing is sorted or cut; 1476: no row, no group; 249: HAVING
\* tells aggregates apart by name.  functions/aggregate.py 23: the SUM of nothing is 0.
OddAggregation(db, node) ==
  LET Aggs(S) == {e \in S : e.k = "agg"}
  IN  /\ HasAggregates(node)
      /\ \/ Source(db, node) = <<>>
         \/ node.group = <<>> /\ Matching(db, node) = <<>>
         \/ \E e \in Aggs(Range(node.cols)) : \E g \in Range(Groups(node, Matching(db, node))) :
              e.name = "SUM" /\ AggregateOf(e, g) = NULL
         \/ node.order # <<>> \/ Bounded(node) \/ node.distinct
         \/ SubSeq(node.cols, 1, Len(node.group)) # node.group
         \/ \E i \in Len(node.group) + 1..Len(node.cols) : node.cols[i].k # "agg"
         \/ node.having # NULL /\ \E e \in Aggs(Within(node.having)) :
              \/ e \notin Aggs(Range(node.cols))
              \/ \E f \in Aggs(Range(node.cols)) : f # e /\ f.name = e.name /\ f.star = e.star

\* 722: the Rewinds of a join have no target; 827: a third table goes back to
\* the body of the second; 747: WHERE drops matches before they are noted; a
\* join has no LIMIT.
OddJoin(db, node) ==
  /\ Len(node.from) > 1
  /\ \/ \E f \in Range(node.from) : db[f.tab] = <<>>
     \/ Len(node.from) > 2 \/ Bounded(node)
     \/ node.from[2].type = "LEFT" /\ node.where # NULL

\* 1099: a key that is not the rowid is sought as if it were; a row found so is
\* not counted.
OddSeek(node) ==
  /\ Len(node.from) = 1 /\ node.sub = NULL /\ ~HasAggregates(node) /\ SeeksKey(node, node.from[1].tab)
  /\ (node.from[1].tab \notin Alias \/ Bounded(node))

\* 1878: the source of a subquery is read as if it were not empty, and only its
\* columns and WHERE are compiled.
OddSubquery(db, node) ==
  node.sub # NULL /\ ~(Plain(node.sub) /\ Select(db, node.sub) # <<>>)

OddSelect(db, node) ==
  \/ OddOrder(db, node) \/ OddAggregation(db, node) \/ OddJoin(db, node) \/ OddSeek(node)
  \/ OddSubquery(db, node)

\* 1668: a plain INSERT makes a rowid even if the key is given; conflicts are
\* looked for by rowid; 1716: the record of DO UPDATE has the alias in it; 1607:
\* zero is not NOT NULL enough.
OddValues(db, node) ==
  LET t == node.tab
      Of(i) == {node.rows[r][Provided(node, i)] : r \in DOMAIN node.rows}
  IN  \/ t \in Alias /\ ~IsUpsert(node) /\ Provided(node, Key[t]) # 0
      \/ t \notin Alias /\ IsUpsert(node)
      \/ /\ t \in Alias /\ node.upsert # NULL
         /\ \E r \in Range(db[t]) : r.id \in {Eval(e, <<>>) : e \in Of(Key[t])}
      \/ \E i \in DOMAIN Columns[t] :
           /\ Columns[t][i] \in NotNull[t]
           /\ Provided(node, i) = 0 \/ \E e \in Of(i) : ~IsTrue(Eval(e, <<>>))

\* 1765: the WHERE of the source is not compiled, and an empty source is read.
OddInsertSelect(db, node) ==
  LET s == node.select
  IN  \/ s.where # NULL \/ s.sub # NULL
      \/ s.from # <<>> /\ (~Plain(s) \/ Source(db, s) = <<>> \/ s.from[1].tab = node.tab)
      \/ node.tab \in Alias

\* 1944: the loop of an UPDATE is entered on an empty table; 2050: the record
\* written has the alias of the rowid in it.
OddUpdate(db, node) == db[node.tab] = <<>> \/ node.tab \in Alias

\* transaction.py 200: an orphan is treated as if its parent had been deleted,
\* and the rows that refer to it are looked at only by the next commit; 183: the
\* key of a parent, if it is the rowid, is looked for in a record that does not
\* have it.  vm.py 1696: rows are updated one by one, and a row that followed
\* the first may follow the second; NULL equals NULL.  compile.py 1777: INSERT
\* ... SELECT has committed before it writes.
OddKeys(db, node) ==
  LET rows == RowsAfter(db, node)
      Old(f, i)  == KeyOf(f.parent, db[node.tab][i], f.parentCols)
      New(f, i)  == KeyOf(f.parent, rows[i], f.parentCols)
      Changed(f)  == {i \in DOMAIN rows : Old(f, i) # New(f, i)}
  IN  \/ \E o \in Orphans(After(db, node)) : o[1].onDelete \in Repairs
      \/ \E f \in Range(ForeignKeys) : f.parent \in Alias /\ After(db, node)[f.child] # <<>>
      \/ /\ node.kind = "update"
         /\ \E f \in Range(Into(node)) : \E i \in Changed(f) :
              \/ NULL \in Range(Old(f, i)) /\ \E r \in Range(db[f.child]) : KeyOf(f.child, r, f.cols) = Old(f, i)
              \/ \E j \in Changed(f) : New(f, i) = Old(f, j)
      \/ /\ node.kind = "insert" /\ node.select # NULL
         /\ \E f \in Range(ForeignKeys) : f.child = node.tab

Trusted(db, node) ==
  /\ ~OddExpression(db, node) /\ ~OddArithmetic(node)
  /\ CASE node.kind = "select" -> ~OddSelect(db, node)
       [] node.kind = "insert" -> IF node.select = NULL THEN ~OddValues(db, node)
                                  ELSE ~OddInsertSelect(db, node)
       [] node.kind = "update" -> ~OddUpdate(db, node)
       [] node.kind = "delete" -> TRUE
  /\ node.kind = "select" \/ ~OddKeys(db, node)

\* What a statement answers and leaves in the tables, or that it is refused; NULL
\* for the exceptions.
Promised ==
  LET Refuses(db, node) == Restricted(db, node) \/ Orphans(After(db, node)) # {}
      Promise(db, node) ==
        IF node.kind = "select" THEN [end |-> "done", answer |-> Answer(db, node), tables |-> db]
        ELSE [end    |-> IF Refuses(db, node) THEN "error" ELSE "done",
              answer |-> Answer(db, node), tables |-> After(db, node)]
  IN  [s \in Statements, db \in Starts |-> IF Trusted(db, s) THEN Promise(db, s) ELSE NULL]

ASSUME PromisesAssumption == Promises = Promised

----------------------------------------------------------------------------
(* Properties.                                                             *)

Promise == Promises[stmt, given]

\* Registers, cursors and rows have their types: the machine never runs past the
\* end of the program, and a cursor stands on a row of its table, on the place
\* after the last (a row it stood on was deleted), or on none.
TypeOK ==
  /\ status \in {"idle", "running", "ended", "done", "error"}
  /\ tx \in BOOLEAN /\ (status = "done" => ~tx)
  /\ pc \in 0..Len(prog)
  /\ \A c \in DOMAIN cursors :
       /\ cursors[c].tab \in DOMAIN tables
       /\ cursors[c].pos \in 0..Len(tables[cursors[c].tab]) + 1
  /\ \A r \in DOMAIN regs : r \in Nat
  /\ \A i \in DOMAIN results : Len(results[i]) > 0

\* The rows of a table stay in the order of their rowids and no rowid occurs
\* twice, whatever is inserted, replaced and deleted while cursors stand on it.
RowidsUnique ==
  \A t \in DOMAIN tables : \A i \in 1..Len(tables[t]) - 1 : tables[t][i].id < tables[t][i + 1].id

\* A statement that is compiled and executed answers what SQL says: the rows, in
\* their order, of a SELECT or a RETURNING, for every expression, join, group
\* and limit that is not one of the exceptions.
AnswerRight ==
  status = "done" /\ Promise # NULL => results = Promise.answer

\* INSERT, UPDATE and DELETE leave the rows they should in their table, though
\* they move the cursor and rewrite the rows under it as they go, and in the
\* tables that refer to it; no other table changes, and a SELECT changes none.
TableRight ==
  status = "done" /\ Promise # NULL => \A t \in DOMAIN given : tables[t] = Promise.tables[t]

\* A statement that was not refused leaves no row whose foreign key has no parent.
\* The rows that can be left so are those the pass of the commit itself orphaned,
\* those given a default no parent has, those that refer to a rowid by name
\* (compared with another column), and those of an INSERT ... SELECT.
KeysHold ==
  status = "done" /\ ~(stmt.kind = "insert" /\ stmt.select # NULL) =>
    \A o \in Orphans(tables) :
      \/ o[1].parent \in Alias
      \/ \E f \in Range(ForeignKeys) : f.child = o[1].parent /\ f.onDelete \in Repairs
      \/ o[1].onDelete = "SET DEFAULT" /\ KeyOf(o[1].child, o[2], o[1].cols) = o[1].default

\* Every such statement is compiled and ends, and with an error only if it is
\* refused: no jump goes nowhere or round for ever, no cursor is read where it
\* has no row, and no foreign key is broken unseen or seen where it is not.
Completes ==
  \A end \in {"done", "error"} :
    (status # "idle" /\ pc = 0 /\ Promise # NULL /\ Promise.end = end) ~> (status = end)

\* README.md 175 lists WHERE, AND, OR and NOT among what is supported: a SELECT
\* with a WHERE of ANDs over comparisons ends.
Conjunction(e) == e.k = "and" /\ \A x \in Within(e) : x.k \in {"and", "cmp", "col", "lit"}

ConjunctionEnds ==
  (/\ status = "running" /\ pc = 0 /\ stmt.kind = "select" /\ stmt.where # NULL
   /\ Plain(stmt) /\ Conjunction(stmt.where)) ~> (status = "done")

============================================================================
