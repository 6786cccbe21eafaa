----------------------------- MODULE MCMachine -----------------------------
(***************************************************************************)
(* Tables and statements for the model checking of Statement: every WHERE  *)
(* built from a few atoms by AND, OR and NOT, and for each clause and each *)
(* form of a statement the cases the compiler distinguishes.               *)
(***************************************************************************)
EXTENDS Statement

MCColumns == [t |-> <<"a", "b">>, u |-> <<"c", "d">>, p |-> <<"id", "v">>,
              k |-> <<"x", "y">>, m |-> <<"q">>, h |-> <<"n", "w">>, cc |-> <<"f">>,
              cn |-> <<"f", "g">>, cd |-> <<"e", "f">>, cr |-> <<"f">>, ca |-> <<"f">>, g |-> <<"f">>]
MCKey     == [t |-> 0, u |-> 0, p |-> 1, k |-> 1, m |-> 0, h |-> 1,
              cc |-> 0, cn |-> 0, cd |-> 0, cr |-> 0, ca |-> 0, g |-> 0]
MCAlias   == {"p"}
MCNotNull == [t \in DOMAIN MCColumns |-> IF t = "m" THEN {"q"} ELSE {}]

\* A child for each action, one of a key of two columns, one of a rowid, and a
\* grandchild.
FK(c, cols, p, pcols, update, delete, default) ==
  [child |-> c, cols |-> cols, parent |-> p, parentCols |-> pcols,
   onUpdate |-> update, onDelete |-> delete, default |-> default]

MCForeignKeys == <<
  FK("cc", <<"f">>, "h", <<"n">>, "CASCADE", "CASCADE", <<NULL>>),
  FK("cn", <<"f", "g">>, "h", <<"n", "w">>, "SET NULL", "SET NULL", <<NULL, NULL>>),
  FK("cd", <<"f">>, "h", <<"n">>, "SET DEFAULT", "SET DEFAULT", <<3>>),
  FK("cr", <<"f">>, "h", <<"n">>, "RESTRICT", "RESTRICT", <<NULL>>),
  FK("ca", <<"f">>, "p", <<"id">>, "NO ACTION", "NO ACTION", <<NULL>>),
  FK("g", <<"f">>, "cc", <<"f">>, "CASCADE", "CASCADE", <<NULL>>) >>

R(id, vals) == [id |-> id, vals |-> vals]

MCStarts == {
  [t |-> <<R(1, <<1, 2>>), R(2, <<1, 1>>), R(3, <<2, 3>>)>>,
   u |-> <<R(1, <<1, 5>>), R(4, <<2, 6>>), R(5, <<1, 7>>), R(6, <<3, 8>>)>>,
   p |-> <<R(2, <<7>>), R(5, <<6>>)>>, k |-> <<R(1, <<4, 4>>)>>, m |-> <<R(1, <<1>>)>>,
   h |-> <<R(1, <<1, 5>>), R(2, <<2, 6>>), R(4, <<3, 7>>)>>,
   cc |-> <<R(1, <<2>>), R(2, <<NULL>>), R(5, <<2>>)>>, cn |-> <<R(1, <<2, 6>>), R(2, <<2, 6>>), R(3, <<3, NULL>>)>>,
   cd |-> <<R(1, <<8, 2>>)>>, cr |-> <<R(1, <<1>>)>>, ca |-> <<>>, g |-> <<>>],
  [t |-> <<R(1, <<2, NULL>>), R(2, <<1, 1>>), R(7, <<2, 2>>)>>,
   u |-> <<R(1, <<2, 0>>)>>,
   p |-> <<R(1, <<0>>)>>, k |-> <<R(4, <<1, 9>>)>>, m |-> <<>>,
   h |-> <<R(1, <<1, 2>>), R(2, <<NULL, 4>>)>>,
   cc |-> <<R(1, <<1>>), R(2, <<NULL>>)>>, cn |-> <<>>, cd |-> <<R(1, <<8, 1>>)>>, cr |-> <<R(1, <<NULL>>)>>,
   ca |-> <<>>, g |-> <<R(1, <<1>>)>>],
  [t \in DOMAIN MCColumns |-> <<>>] }

\* Expressions.
Lit(v)          == [k |-> "lit", v |-> v]
Col(c)          == [k |-> "col", name |-> c]
Cmp(op, l, r)   == [k |-> "cmp", op |-> op, l |-> l, r |-> r]
And(l, r)       == [k |-> "and", l |-> l, r |-> r]
Or(l, r)        == [k |-> "or", l |-> l, r |-> r]
Not(e)          == [k |-> "not", e |-> e]
Neg(e)          == [k |-> "neg", e |-> e]
Arith(op, l, r) == [k |-> "arith", op |-> op, l |-> l, r |-> r]
IsNull(e, neg)  == [k |-> "isnull", e |-> e, neg |-> neg]
Between(e, lo, hi, neg) == [k |-> "between", e |-> e, lo |-> lo, hi |-> hi, neg |-> neg]
In(e, list, neg) == [k |-> "in", e |-> e, list |-> list, neg |-> neg]
Is(l, r)        == [k |-> "is", l |-> l, r |-> r, neg |-> FALSE]
Case(base, whens, other) == [k |-> "case", base |-> base, whens |-> whens, else |-> other]
Agg(name, arg, distinct) == [k |-> "agg", name |-> name, star |-> FALSE, arg |-> arg, distinct |-> distinct]
CountAll        == [k |-> "agg", name |-> "COUNT", star |-> TRUE, arg |-> Lit(0), distinct |-> FALSE]
Star            == <<[k |-> "star"]>>

\* Statements.
Tab(t)  == [tab |-> t, type |-> "", on |-> NULL]
Sel     == [kind |-> "select", distinct |-> FALSE, from |-> <<>>, sub |-> NULL, where |-> NULL,
            cols |-> Star, order |-> <<>>, limit |-> NULL, offset |-> NULL, group |-> <<>>, having |-> NULL]
From(t) == [Sel EXCEPT !.from = <<Tab(t)>>]
Where(s, e)  == [s EXCEPT !.where = e]
Cols(s, es)  == [s EXCEPT !.cols = es]
OrderBy(s, ts) == [s EXCEPT !.order = ts]
Group(s, gs, cs, h) == [s EXCEPT !.group = gs, !.cols = cs, !.having = h]
Limit(s, l, o) == [s EXCEPT !.limit = l, !.offset = o]
Join2(l, r, type, on) == [Sel EXCEPT !.from = <<Tab(l), [tab |-> r, type |-> type, on |-> on]>>]
SubSelect(s) == [Sel EXCEPT !.sub = s]
Asc(e)  == [e |-> e, desc |-> FALSE]
Desc(e) == [e |-> e, desc |-> TRUE]
Ins(t, cols, rows) == [kind |-> "insert", tab |-> t, cols |-> cols, rows |-> rows, select |-> NULL,
                       orAction |-> "", upsert |-> NULL, returning |-> <<>>]
InsSel(t, s)       == [Ins(t, <<>>, <<>>) EXCEPT !.select = s]
Upd(t, sets, w, r) == [kind |-> "update", tab |-> t, sets |-> sets, where |-> w, returning |-> r]
Del(t, w, r)       == [kind |-> "delete", tab |-> t, where |-> w, returning |-> r]

a == Col("a")
b == Col("b")
c == Col("c")
d == Col("d")

Atoms == { Cmp("Eq", a, Lit(1)), Cmp("Gt", b, a), IsNull(b, FALSE) }
Pairs == {And(x, y) : x, y \in Atoms} \cup {Or(x, y) : x, y \in Atoms} \cup {Not(x) : x \in Atoms}
Trees == {And(x, y) : x \in Pairs, y \in Atoms} \cup {Or(x, y) : x \in Atoms, y \in Pairs}
         \cup {Or(x, y) : x \in Pairs, y \in Atoms} \cup {Not(x) : x \in Pairs}

Others == {
  Cmp("Ne", a, b), Cmp("Le", Arith("Add", a, b), Lit(3)), Cmp("Lt", Neg(a), Lit(-1)), Cmp("Ge", a, Lit(2)),
  Between(b, Lit(1), Lit(2), FALSE), Between(a, Lit(2), b, TRUE),
  In(a, <<Lit(2), b>>, FALSE), In(a, <<Lit(2), Lit(9)>>, TRUE), IsNull(b, TRUE),
  And(Between(a, Lit(1), Lit(2), FALSE), Between(b, Lit(2), Lit(3), FALSE)),
  Cmp("Eq", Case(NULL, <<<<Cmp("Gt", a, Lit(1)), Lit(8)>>, <<Cmp("Gt", b, Lit(1)), Lit(9)>>>>, Lit(7)), Lit(9)),
  Cmp("Eq", Case(a, <<<<Lit(1), Lit(8)>>>>, NULL), Lit(8)), Is(a, Lit(1)) }

Selects ==
  {Where(From("t"), e) : e \in Atoms \cup Pairs \cup Trees \cup Others}
  \cup {Cols(Where(From("t"), e), <<b>>) : e \in Atoms}
  \cup {Cols(From("t"), cs) : cs \in {<<b, a>>, <<Arith("Multiply", a, b), b>>,
                                     <<Arith("Subtract", a, b), b, Arith("Subtract", Lit(5), Lit(3))>>}}
  \cup {OrderBy(Cols(From("t"), cs), o) :
          cs \in {Star, <<b>>, <<Arith("Add", a, b), b>>},
          o \in {<<Asc(b)>>, <<Desc(b)>>, <<Asc(a), Desc(b)>>}}
  \cup {Limit(Cols(From("t"), <<a>>), l, o) : l \in {Lit(0), Lit(2), Lit(9)}, o \in {NULL, Lit(1), Lit(5)}}
  \cup {Limit(Where(From("t"), Cmp("Eq", a, Lit(2))), Lit(1), NULL), Limit(From("t"), NULL, Lit(2)),
        Limit(OrderBy(From("t"), <<Asc(b)>>), Lit(1), NULL), [Cols(From("t"), <<a>>) EXCEPT !.distinct = TRUE],
        Limit([Cols(From("t"), <<a>>) EXCEPT !.distinct = TRUE], Lit(2), NULL)}
  \cup {Where(From("p"), Cmp("Eq", Col("id"), Lit(v))) : v \in {1, 2, 3}}
  \cup {Where(From("k"), Cmp("Eq", Lit(v), Col("x"))) : v \in {1, 4}}
  \cup {OrderBy(Where(From("p"), Cmp("Eq", Col("id"), Lit(2))), <<Asc(Col("v"))>>), From("p")}
  \cup {Cols(Sel, <<Lit(3)>>), Limit(Cols(Sel, <<Lit(3)>>), Lit(0), NULL)}
  \cup {Join2("t", "u", "", on) : on \in {NULL, Cmp("Eq", a, c), Cmp("Lt", b, d)}}
  \cup {Join2("t", "u", "LEFT", on) : on \in {Cmp("Eq", a, c), And(Cmp("Eq", a, c), Cmp("Gt", d, Lit(5)))}}
  \cup {Cols(Join2("t", "u", "LEFT", Cmp("Eq", b, c)), <<a, d>>),
        OrderBy(Join2("t", "u", "", Cmp("Eq", a, c)), <<Desc(d)>>),
        Where(Join2("t", "u", "", Cmp("Eq", a, c)), Cmp("Gt", d, Lit(5))),
        Where(Join2("t", "u", "LEFT", Cmp("Eq", a, c)), Cmp("Eq", b, Lit(2))),
        Limit(Join2("t", "u", "", NULL), Lit(2), Lit(1)),
        [Join2("t", "u", "", NULL) EXCEPT !.from = @ \o <<Tab("p")>>]}
  \cup {Group(From("t"), <<a>>, <<a, CountAll>>, NULL),
        Group(Where(From("u"), Cmp("Gt", d, Lit(5))), <<c>>, <<c, Agg("SUM", d, FALSE), Agg("MIN", d, FALSE)>>, NULL),
        Group(From("u"), <<c>>, <<c, CountAll, Agg("MAX", d, FALSE)>>, And(Cmp("Gt", CountAll, Lit(1)), Not(Cmp("Eq", Agg("MAX", d, FALSE), Lit(0))))),
        Group(From("u"), <<c>>, <<c, Agg("SUM", c, FALSE), Agg("SUM", d, FALSE)>>, Or(Cmp("Gt", Agg("SUM", d, FALSE), Lit(9)), Cmp("Eq", Agg("MIN", d, FALSE), Lit(0)))),
        Group(From("u"), <<>>, <<CountAll, Agg("COUNT", c, TRUE), Agg("SUM", d, FALSE)>>, NULL),
        Group(From("t"), <<a>>, <<CountAll, a>>, NULL),
        Group(From("t"), <<a>>, <<a, Agg("COUNT", b, FALSE), Agg("SUM", b, FALSE), Agg("MIN", b, FALSE)>>, NULL),
        Group(From("cn"), <<Col("f")>>, <<Col("f"), Agg("MAX", Col("g"), FALSE), Agg("SUM", Col("g"), FALSE)>>, NULL),
        Group(From("cn"), <<Col("f")>>, <<Col("f"), Agg("COUNT", Col("g"), FALSE), Agg("MAX", Col("g"), FALSE)>>, NULL),
        Group(Where(From("u"), Cmp("Gt", d, Lit(9))), <<>>, <<CountAll>>, NULL),
        Group(From("t"), <<>>, <<Agg("SUM", Arith("Add", a, b), FALSE), Agg("COUNT", Arith("Multiply", a, b), TRUE)>>, NULL),
        OrderBy(Group(From("t"), <<a>>, <<a, CountAll>>, NULL), <<Desc(a)>>)}
  \cup {Cols(SubSelect(Where(From("u"), Cmp("Gt", d, Lit(5)))), <<d>>),
        Where(SubSelect(Cols(From("u"), <<d, c>>)), Cmp("Eq", c, Lit(1))),
        SubSelect(Cols(Sel, <<Lit(3)>>)),
        Group(SubSelect(From("u")), <<c>>, <<c, CountAll>>, NULL)}

Inserts ==
  {Ins("t", <<>>, <<<<Lit(3), Lit(4)>>, <<Arith("Add", Lit(1), Lit(1)), Lit(NULL)>>>>),
   [Ins("t", <<"b">>, <<<<Lit(3)>>>>) EXCEPT !.returning = <<a, b>>],
   [Ins("t", <<"b", "a">>, <<<<Lit(3), Lit(4)>>>>) EXCEPT !.returning = Star],
   Ins("p", <<"v">>, <<<<Lit(3)>>>>), Ins("p", <<>>, <<<<Lit(9), Lit(3)>>>>),
   Ins("m", <<>>, <<<<Lit(2)>>>>), Ins("m", <<>>, <<<<Lit(0)>>>>),
   InsSel("t", From("u")), InsSel("t", Cols(Where(From("u"), Cmp("Gt", d, Lit(5))), <<d, c>>)),
   InsSel("t", Cols(Sel, <<Lit(1), Lit(2)>>))}
  \cup {[Ins(t, <<>>, <<<<Lit(5), Lit(v)>>, <<Lit(1), Lit(8)>>>>) EXCEPT !.orAction = o] :
          t \in {"p"}, v \in {4}, o \in {"IGNORE", "REPLACE"}}
  \cup {[Ins("k", <<>>, <<<<Lit(4), Lit(8)>>>>) EXCEPT !.orAction = "IGNORE"],
        [Ins("p", <<>>, <<<<Lit(2), Lit(8)>>>>) EXCEPT !.upsert = <<[col |-> "v", e |-> Col("v")]>>],
        [Ins("k", <<>>, <<<<Lit(4), Lit(8)>>>>) EXCEPT !.upsert = <<[col |-> "y", e |-> Col("y")]>>]}

Updates ==
  {Upd("t", <<[col |-> "a", e |-> b], [col |-> "b", e |-> Arith(op, a, Lit(1))]>>, w, r) :
     op \in {"Add", "Subtract"}, w \in {NULL, Cmp("Eq", a, Lit(1)), Cmp("Eq", a, Lit(9))}, r \in {<<>>, <<b, a>>}}
  \cup {Upd("p", <<[col |-> "v", e |-> Lit(4)]>>, Cmp("Eq", Col("id"), Lit(2)), <<>>)}

Deletes ==
  {Del("t", w, r) : w \in {NULL, Cmp("Eq", a, Lit(1)), Cmp("Eq", a, Lit(2)), Cmp("Gt", b, a)}, r \in {<<>>, <<a>>}}
  \cup {Del("p", Cmp("Eq", Col("id"), Lit(2)), <<>>)}

\* Statements on tables with foreign keys.
Is_(col, v)  == Cmp("Eq", Col(col), Lit(v))
Set(col, e) == <<[col |-> col, e |-> e]>>

Keyed ==
  {Upd("h", Set("n", Lit(9)), Is_("w", v), <<>>) : v \in {2, 4, 5, 6, 7}}
  \cup {Upd("h", Set("w", Lit(9)), Is_("w", v), <<Col("n")>>) : v \in {2, 6}}
  \cup {Upd("h", Set("n", Arith("Add", Col("n"), Lit(1))), w, <<>>) : w \in {NULL, Is_("w", 7)}}
  \cup {Upd("h", Set("n", Arith("Subtract", Col("n"), Neg(Lit(1)))), w, <<>>) : w \in {NULL, Is_("w", 7)}}
  \cup {Upd("h", Set("n", Col("n")), NULL, <<>>), Upd("h", Set("n", Lit(2)), Is_("n", 2), <<>>)}
  \cup {Del("h", w, <<>>) : w \in {NULL} \cup {Is_("w", v) : v \in {2, 4, 5, 6, 7}}}
  \cup {Ins(t, <<>>, <<<<Lit(v)>>>>) : t \in {"cc", "cr", "ca"}, v \in {NULL, 2, 7}}
  \cup {Ins("cn", <<>>, <<<<Lit(2), Lit(v)>>>>) : v \in {NULL, 6, 7}}
  \cup {Upd("cr", Set("f", Lit(v)), NULL, <<>>) : v \in {NULL, 1, 8}}
  \cup {Upd("cc", Set("f", Lit(v)), NULL, <<>>) : v \in {1, 3}}
  \cup {Del("cc", NULL, <<>>), InsSel("cr", Cols(From("u"), <<c>>))}

MCStatements == Keyed \cup Selects \cup Inserts \cup Updates \cup Deletes

============================================================================
