------------------------------ MODULE Meaning ------------------------------
(***************************************************************************)
(* What a query means, said of the graph and the statements alone: no plan,*)
(* no iterators, no joins.  The executions of QueryRun are compared with   *)
(* it.  A relation has columns, rows and a mode: the rows are a bag, a     *)
(* sequence (they are ordered), or some of a bag (LIMIT on rows without an *)
(* order), of which offset are skipped and count taken.                    *)
(***************************************************************************)
EXTENDS Executors, Statements

CONSTANT Graph

Relation(cols, rows) ==
    [cols |-> cols, rows |-> rows, mode |-> "bag", offset |-> 0, count |-> 0]

\* An expression with the values of what it names.
RECURSIVE Bind(_, _)
Alias(name) == <<"Label", "", name>>
Bind(e, b) ==
    CASE e.k = "LabelAttribute" /\ Alias(e.s) \in DOMAIN b ->
            Const(AttributeOf(b[Alias(e.s)], NameV(e.op)))
      [] e.k \in PropKinds \cup {"Label", "LabelAttribute"} ->
            Const(IF Key(e) \in DOMAIN b THEN b[Key(e)] ELSE Empty)
      [] OTHER -> [e EXCEPT !.a = [i \in DOMAIN @ |-> Bind(@[i], b)]]
ValueOf(e, b) == Eval(Bind(e, b), NoRow)
RowOf(cols, b) == [i \in DOMAIN cols |-> ValueOf(cols[i].e, b)]
Passes(where, b) == \A i \in DOMAIN where : ValueOf(where[i], b) = True
BindRow(kind, s, rel, i) ==
    [k \in {<<kind, s, rel.cols[j]>> : j \in DOMAIN rel.cols} |->
        rel.rows[i][ColIndex(rel.cols, k[3])]]
RECURSIVE Concat(_)
Concat(ss) == IF ss = <<>> THEN <<>> ELSE Head(ss) \o Concat(Tail(ss))

(***************************************************************************)
(* The rows a statement reads: one binding per row of the pipe, or of the  *)
(* variable it names, or one empty binding.                                *)
(***************************************************************************)
Source(s, env) ==
    LET vars == VarsRead(s) \cap DOMAIN env.vars
        v == CHOOSE v \in vars : TRUE
        rel == env.vars[v]
    IN IF env.piped THEN [i \in DOMAIN env.in.rows |-> BindRow("InputProp", "$-", env.in, i)]
       ELSE IF vars # {} THEN [i \in DOMAIN rel.rows |-> BindRow("VarProp", v, rel, i)]
       ELSE <<<<>>>>

(***************************************************************************)
(* GO: the vertices k - 1 steps away from the start are a set; every edge  *)
(* that leaves one of them is a row.                                       *)
(***************************************************************************)
EdgesAt(v, over, dir) == StorageEdges(Graph, IntV(v), over, dir)
Neighbors(S, over, dir) ==
    {e.p["_dst"].n : e \in UNION {Elems(EdgesAt(v, over, dir)) : v \in S}}
RECURSIVE Away(_, _, _, _)
Away(S, k, over, dir) == IF k = 0 THEN S ELSE Away(Neighbors(S, over, dir), k - 1, over, dir)
TagBinding(kind, v) ==
    IF v \notin DOMAIN Graph.verts THEN <<>>
    ELSE [k \in {<<kind, p[1], p[2]>> : p \in DOMAIN Graph.verts[v]} |->
            Graph.verts[v][<<k[2], k[3]>>]]
EdgeBinding(v, e) ==
    [k \in {<<"EdgeProp", e.name, p>> : p \in DOMAIN e.p} |-> e.p[k[3]]]
    @@ TagBinding("SrcProp", v) @@ TagBinding("DstProp", e.p["_dst"].n)
StepRows(go, S, b) ==
    LET vs == SetToSeq(S)
        at(v) == LET es == EdgesAt(v, go.over, go.dir)
                     bs == [i \in DOMAIN es |-> EdgeBinding(v, es[i]) @@ b]
                     kept == SelectSeq(bs, LAMBDA c : Passes(go.where, c))
                 IN [i \in DOMAIN kept |-> RowOf(go.cols, kept[i])]
    IN Concat([i \in DOMAIN vs |-> at(vs[i])])
GoRows(go, S, b) ==
    LET m == IF go.step.mToN THEN (IF go.step.m = 0 THEN 1 ELSE go.step.m) ELSE go.step.n
        ks == [i \in 1..(go.step.n - m + 1) |-> m + i - 1]
    IN IF go.step.n = 0 THEN <<>>
       ELSE Concat([i \in DOMAIN ks |->
                      StepRows(go, Away(S, ks[i] - 1, go.over, go.dir), b)])
Distinct(rows, distinct) == IF distinct THEN KeepFirst(rows, {}, 1) ELSE rows
Vids(from) == {Eval(from.vids[i], NoRow).n : i \in DOMAIN from.vids}
GoMeaning(go, env) ==
    LET src == Source(go, env)
        from(b) == {ValueOf(go.from.src, b).n}
        rows == IF Runtime(go.from)
                THEN Concat([i \in DOMAIN src |-> GoRows(go, from(src[i]), src[i])])
                ELSE GoRows(go, Vids(go.from), <<>>)
    IN Relation(Names(go.cols), Distinct(rows, go.distinct))

(***************************************************************************)
(* FETCH and LOOKUP.                                                       *)
(***************************************************************************)
FetchVerticesMeaning(f, env) ==
    LET src == Source(f, env)
        vids == IF Runtime(f.from) THEN [i \in DOMAIN src |-> ValueOf(f.from.src, src[i])]
                ELSE [i \in DOMAIN f.from.vids |-> Eval(f.from.vids[i], NoRow)]
        real == SelectSeq(vids, LAMBDA v : v.n \in DOMAIN Graph.verts)
        labels(v) == LET t == TagBinding("TagProp", v.n)
                     IN t @@ [k \in {<<"EdgeProp", q[2], q[3]>> : q \in DOMAIN t} |->
                                t[<<"TagProp", k[2], k[3]>>]]
        tagged(v) == [k \in {k \in DOMAIN Graph.verts[v.n] : f.tag \in {k[1], "*"}} |->
                        Graph.verts[v.n][k]]
    IN IF f.yield
       THEN Relation(<<"VertexID">> \o Names(f.cols),
                     Distinct([i \in DOMAIN real |-> <<real[i]>> \o RowOf(f.cols, labels(real[i]))],
                              f.distinct))
       ELSE Relation(<<"vertices_">>, [i \in DOMAIN real |-> <<VertexV(real[i], tagged(real[i]))>>])
VertexValue(v) == VertexV(IntV(v), Graph.verts[v])
EdgeValue(e) == EdgeV(IntV(e.src), IntV(e.dst), IntV(e.type), IntV(e.rank), <<e.name, "w">> :> e.w)
FetchEdgesMeaning(f, env) ==
    LET src == Source(f, env)
        keys == IF f.keys.t = "const" THEN f.keys.rows
                ELSE [i \in DOMAIN src |-> [j \in 1..3 |-> ValueOf(f.keys.key[j], src[i])]]
        hits(k) == SelectSeq(Graph.edges, LAMBDA e : e.name = f.edge /\ e.src = k[1].n
                                                     /\ e.rank = k[2].n /\ e.dst = k[3].n)
        row(k, e) == IF f.yield THEN <<k[1], k[3], k[2]>> \o
                                     RowOf(f.cols, EdgeBinding(e.src, EdgeFrom(e, TRUE)))
                     ELSE <<EdgeValue(e)>>
        rows(k) == [i \in DOMAIN hits(k) |-> row(k, hits(k)[i])]
    IN Relation(IF f.yield THEN Names(FetchEdgesCols(f)) ELSE <<"edges_">>,
                Distinct(Concat([i \in DOMAIN keys |-> rows(keys[i])]), f.yield /\ f.distinct))
LookupMeaning(lk) ==
    LET ents == SetToSeq(Entities(Graph, lk.schema))
        b(f) == [k \in {<<"EdgeProp", lk.schema, p>> : p \in DOMAIN f} |-> f[k[3]]]
        keys == KeyCols(lk)
        wanted == Elems(Searched(lk).rows)
        pass(f) == IF NeedTextSearch(lk) THEN f[lk.where[1].op] \in wanted
                   ELSE Passes(lk.where, b(f))
        hit == SelectSeq(ents, pass)
    IN Relation([i \in DOMAIN keys |-> keys[i][2]] \o Names(lk.cols),
                Distinct([i \in DOMAIN hit |-> [j \in DOMAIN keys |-> hit[i][keys[j][1]]]
                                               \o RowOf(lk.cols, b(hit[i]))], lk.distinct))

(***************************************************************************)
(* GET SUBGRAPH in both directions: the vertices at most n steps away, and *)
(* the edges between them.                                                 *)
(***************************************************************************)
RECURSIVE Within(_, _, _)
Within(S, n, over) ==
    IF n = 0 THEN S ELSE Within(S \cup Neighbors(S, over, "both"), n - 1, over)
SubgraphVertices(sg) == {VertexValue(v) : v \in Within(Vids(sg.from), sg.n, sg.over)}
SubgraphEdges(sg) ==
    LET V == Within(Vids(sg.from), sg.n, sg.over)
    IN {EdgeValue(e) :
          e \in {e \in Elems(Graph.edges) : e.name \in sg.over /\ {e.src, e.dst} \subseteq V}}
Listed(rows, col) == UNION {Elems(rows[i][col].l) : i \in DOMAIN rows}
IsSubgraph(sg, rows) ==
    /\ Listed(rows, 1) = SubgraphVertices(sg)
    /\ sg.n > 0 => Listed(rows, 2) = SubgraphEdges(sg)

(***************************************************************************)
(* YIELD, GROUP BY, ORDER BY, LIMIT.                                       *)
(***************************************************************************)
RECURSIVE WithAggregates(_, _)
\* An expression in which every aggregate is the constant it is over a group.
WithAggregates(e, bs) ==
    IF e.k = "Aggregate" THEN Const(AggValue(e.op, [i \in DOMAIN bs |-> ValueOf(e.a[1], bs[i])]))
    ELSE [e EXCEPT !.a = [i \in DOMAIN @ |-> WithAggregates(@[i], bs)]]
GroupMeaning(keys, cols, bs) ==
    LET key(b) == [i \in DOMAIN keys |-> ValueOf(keys[i], b)]
        ks == KeepFirst([i \in DOMAIN bs |-> key(bs[i])], {}, 1)
        of(k) == SelectSeq(bs, LAMBDA b : key(b) = k)
        row(k) == [i \in DOMAIN cols |-> ValueOf(WithAggregates(cols[i].e, of(k)), Last(of(k)))]
    IN Relation(Names(cols), [i \in DOMAIN ks |-> row(ks[i])])
YieldMeaning(y, env) ==
    LET bs == SelectSeq(Source(y, env), LAMBDA b : Passes(y.where, b))
        scope == [in |-> [i \in DOMAIN env.in.cols |-> [n |-> env.in.cols[i]]],
                  vars |-> [v \in DOMAIN env.vars |->
                              [i \in DOMAIN env.vars[v].cols |-> [n |-> env.vars[v].cols[i]]]]]
        cols == ExpandStars(y.cols, scope)
        plain == SelectSeq(y.cols, LAMBDA c : ~HasAny(c.e, {"Aggregate"}))
        grouped == GroupMeaning(ColExprs(plain), y.cols, bs)
    IN IF HasAggCol(y) THEN [grouped EXCEPT !.rows = Distinct(@, y.distinct)]
       ELSE Relation(Names(cols),
                     Distinct([i \in DOMAIN bs |-> RowOf(cols, bs[i])], y.distinct))
OrderMeaning(o, in) ==
    LET factors == [i \in DOMAIN o.factors |-> [i |-> ColIndex(in.cols, o.factors[i].e.op),
                                                desc |-> o.factors[i].desc]]
    IN [in EXCEPT !.mode = "seq", !.rows = SortSeq(@, LAMBDA r, s : Before(factors, r, s))]
Least(a, b) == IF a < b THEN a ELSE b
LimitMeaning(l, in) ==
    IF in.mode = "seq"
    THEN [in EXCEPT !.rows = SubSeq(@, l.offset + 1, Least(l.offset + l.count, Len(@)))]
    ELSE [in EXCEPT !.mode = "some", !.offset = l.offset, !.count = l.count]

(***************************************************************************)
(* MATCH: every way to lay the pattern on the graph without using an edge  *)
(* twice binds the aliases; the clauses that follow work on the bindings.  *)
(* A walk is where it has got to, the edges used, and the vertices and     *)
(* edges passed, for each part of the pattern.                             *)
(***************************************************************************)
HasProps(value, props) ==
    \A i \in DOMAIN props : AttributeOf(value, NameV(props[i][1])) = Eval(props[i][2], NoRow)
HasLabel(v, label) ==
    /\ \E k \in DOMAIN Graph.verts[v] : k[1] = label.label
    /\ \A i \in DOMAIN label.props :
          Graph.verts[v][<<label.label, label.props[i][1]>>] = Eval(label.props[i][2], NoRow)
NodeFits(node, v) == /\ \A i \in DOMAIN node.labels : HasLabel(v, node.labels[i])
                     /\ HasProps(VertexValue(v), node.props)
\* The edges that can be followed next, and where they lead.
Onward(edge, v, used) ==
    LET fits(i) == LET e == Graph.edges[i]
                   IN e.name \in TypesOf(edge) /\ HasProps(EdgeValue(e), edge.props)
        E == {i \in DOMAIN Graph.edges \ used : fits(i)}
    IN (IF edge.dir = "in" THEN {} ELSE {<<i, Graph.edges[i].dst>> : i \in {i \in E : Graph.edges[i].src = v}})
       \cup (IF edge.dir = "out" THEN {} ELSE {<<i, Graph.edges[i].src>> : i \in {i \in E : Graph.edges[i].dst = v}})
RECURSIVE Trails(_, _, _, _), Walks(_, _, _)
Trails(edge, v, n, used) ==
    IF n = 0 THEN {<<>>}
    ELSE UNION {{<<s>> \o t : t \in Trails(edge, s[2], n - 1, used \cup {s[1]})} :
                   s \in Onward(edge, v, used)}
Walks(path, i, w) ==
    IF i > Len(path.edges) THEN {w}
    ELSE LET edge == path.edges[i]
             ts == UNION {Trails(edge, w.at, n, w.used) : n \in MinHop(edge)..MaxHop(edge)}
             end(t) == IF t = <<>> THEN w.at ELSE Last(t)[2]
             next(t) == [at |-> end(t), used |-> w.used \cup {t[j][1] : j \in DOMAIN t},
                         nodes |-> Append(w.nodes, end(t)), trails |-> Append(w.trails, t)]
         IN UNION {Walks(path, i + 1, next(t)) : t \in {t \in ts : NodeFits(path.nodes[i + 1], end(t))}}
WalkBinding(path, w) ==
    LET edges(t) == [j \in DOMAIN t |-> EdgeValue(Graph.edges[t[j][1]])]
        rel(i) == IF path.edges[i].range = <<>> THEN edges(w.trails[i])[1] ELSE ListV(edges(w.trails[i]))
        steps == Concat(w.trails)
        line == <<VertexValue(w.nodes[1])>>
                \o Concat([j \in DOMAIN steps |-> <<EdgeValue(Graph.edges[steps[j][1]]),
                                                   VertexValue(steps[j][2])>>])
        N == {i \in DOMAIN path.nodes : path.nodes[i].alias # ""}
        R == {i \in DOMAIN path.edges : path.edges[i].alias # ""}
        node(a) == CHOOSE i \in N : path.nodes[i].alias = a
        edge(a) == CHOOSE i \in R : path.edges[i].alias = a
    IN [k \in {Alias(path.nodes[i].alias) : i \in N} |-> VertexValue(w.nodes[node(k[3])])]
       @@ [k \in {Alias(path.edges[i].alias) : i \in R} |-> rel(edge(k[3]))]
       @@ (Alias(path.alias) :> PathV(line))
PatternMeaning(c, b) ==
    LET path == c.path
        from == {v \in DOMAIN Graph.verts : NodeFits(path.nodes[1], v)}
        start(v) == [at |-> v, used |-> {}, nodes |-> <<v>>, trails |-> <<>>]
        ws == SetToSeq(UNION {Walks(path, 1, start(v)) : v \in from})
    IN SelectSeq([i \in DOMAIN ws |-> WalkBinding(path, ws[i]) @@ b], LAMBDA x : Passes(c.where, x))
ReturnMeaning(ret, cols, bs) ==
    LET plain == SelectSeq(cols, LAMBDA c : ~HasAny(c.e, {"Aggregate"}))
        rel == IF HasAggIn(cols) THEN GroupMeaning(ColExprs(plain), cols, bs)
               ELSE Relation(Names(cols), [i \in DOMAIN bs |-> RowOf(cols, bs[i])])
        once == [rel EXCEPT !.rows = Distinct(@, ret.distinct)]
        sorted == IF ret.order = <<>> THEN once ELSE OrderMeaning([factors |-> ret.order], once)
        skip == Eval(ret.skip, NoRow).n
        count == IF ret.limit = <<>> THEN NoLimit ELSE Eval(ret.limit[1], NoRow).n
    IN IF skip = 0 /\ ret.limit = <<>> THEN sorted
       ELSE LimitMeaning([offset |-> skip, count |-> count], sorted)
ClauseMeaning(c, b) ==
    LET list == ExtractList(ValueOf(c.e, b))
    IN IF c.k = "Match" THEN PatternMeaning(c, b)
       ELSE [i \in DOMAIN list |-> (Alias(c.alias) :> list[i]) @@ b]
RECURSIVE ClausesMeaning(_, _)
ClausesMeaning(clauses, bs) ==
    LET c == Head(clauses)
        rel == ReturnMeaning(c.ret, c.ret.cols, bs)
        out == [i \in DOMAIN rel.rows |-> BindRow("Label", "", rel, i)]
    IN CASE clauses = <<>> -> bs
         [] clauses # <<>> /\ c.k = "With" ->
                ClausesMeaning(Tail(clauses), SelectSeq(out, LAMBDA b : Passes(c.where, b)))
         [] OTHER -> ClausesMeaning(Tail(clauses),
                                    Concat([i \in DOMAIN bs |-> ClauseMeaning(c, bs[i])]))
MatchMeaning(m) == ReturnMeaning(m.ret, ReturnColumns(m), ClausesMeaning(m.clauses, <<<<>>>>))

(***************************************************************************)
(* Whole queries.                                                          *)
(***************************************************************************)
InBoth(l, r, sign) ==
    [l EXCEPT !.rows = SelectSeq(@, LAMBDA x : (x \in Elems(r.rows)) = sign)]
RECURSIVE MeaningOf(_, _)
MeaningOf(s, env) ==
    CASE s.k = "Go" -> GoMeaning(s, env)
      [] s.k = "FetchVertices" -> FetchVerticesMeaning(s, env)
      [] s.k = "FetchEdges" -> FetchEdgesMeaning(s, env)
      [] s.k = "Lookup" -> LookupMeaning(s)
      [] s.k = "Match" -> MatchMeaning(s)
      [] s.k = "Yield" -> YieldMeaning(s, env)
      [] s.k = "GroupBy" -> GroupMeaning(s.keys, s.cols, Source(s, env))
      [] s.k = "OrderBy" -> OrderMeaning(s, env.in)
      [] s.k = "Limit" -> LimitMeaning(s, env.in)
      [] s.k = "Assign" -> MeaningOf(s.s, env)
      [] s.k = "Pipe" -> MeaningOf(s.r, [env EXCEPT !.in = MeaningOf(s.l, env), !.piped = TRUE])
      [] s.k = "Set" ->
            LET l == MeaningOf(s.l, env)
                r == MeaningOf(s.r, env)
            IN CASE s.op = "UNION" -> Relation(l.cols, Distinct(l.rows \o r.rows, s.distinct))
                 [] s.op = "INTERSECT" -> InBoth(l, r, TRUE)
                 [] OTHER -> InBoth(l, r, FALSE)
      [] OTHER -> Relation(<<>>, <<>>)
RECURSIVE QueryMeaning(_, _, _)
QueryMeaning(query, i, vars) ==
    LET s == query[i]
        rel == MeaningOf(s, [piped |-> FALSE, in |-> Relation(<<>>, <<>>), vars |-> vars])
    IN IF i = Len(query) THEN rel
       ELSE QueryMeaning(query, i + 1, IF s.k = "Assign" THEN (s.var :> rel) @@ vars ELSE vars)

(***************************************************************************)
(* An answer that has this meaning.                                        *)
(***************************************************************************)
Occurs(rows, x) == Cardinality({i \in DOMAIN rows : rows[i] = x})
SubBag(rows, of) == \A x \in Elems(rows) : Occurs(rows, x) <= Occurs(of, x)
Answers(cols, rows, rel) ==
    /\ cols = rel.cols
    /\ CASE rel.mode = "seq" -> rows = rel.rows
         [] rel.mode = "bag" -> Len(rows) = Len(rel.rows) /\ SubBag(rows, rel.rows)
         [] OTHER -> /\ SubBag(rows, rel.rows)
                     /\ LET left == Len(rel.rows) - rel.offset
                        IN Len(rows) = IF left < 0 THEN 0 ELSE Least(left, rel.count)
=============================================================================
