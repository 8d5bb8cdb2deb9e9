------------------------------ MODULE MCQuery ------------------------------
(***************************************************************************)
(* Queries on a small graph with a cycle, parallel edges, three edge types,*)
(* two tags and vertices nothing leaves.                                   *)
(***************************************************************************)
EXTENDS QueryRun

MCEdgeTypes == ("e" :> 1) @@ ("f" :> 2) @@ ("g" :> 3)
Vertex(a, b) == (<<"t", "a">> :> IntV(a)) @@ (<<"t", "b">> :> IntV(b))
EdgeOf(name, src, dst, rank, w) ==
    [name |-> name, type |-> MCEdgeTypes[name], src |-> src, dst |-> dst,
     rank |-> rank, w |-> IntV(w)]
MCGraph ==
    [verts |-> <<Vertex(1, 3), Vertex(2, 2), Vertex(2, 1), Vertex(3, 1), <<"u", "c">> :> IntV(1)>>,
     edges |-> <<EdgeOf("e", 1, 2, 0, 1), EdgeOf("e", 1, 2, 1, 2), EdgeOf("e", 1, 3, 0, 2),
                 EdgeOf("e", 2, 3, 0, 1), EdgeOf("e", 3, 1, 0, 3), EdgeOf("f", 2, 4, 0, 1),
                 EdgeOf("g", 3, 5, 0, 1)>>]
MCSchema ==
    [k \in {<<x, "t", p>> : x \in {"TagProp", "SrcProp", "DstProp"}, p \in {"a", "b"}}
           \cup {<<x, "u", "c">> : x \in {"TagProp", "SrcProp", "DstProp"}}
           \cup {<<"EdgeProp", x, "w">> : x \in {"e", "f", "g"}} |-> "INT"]
MCIndexes == <<[schema |-> "t", fields |-> <<"a">>], [schema |-> "t", fields |-> <<"b", "a">>],
               [schema |-> "t", fields |-> <<"a", "b">>], [schema |-> "e", fields |-> <<"w">>]>>
MCLimits == "INT" :> <<7>>
MCSearch == ("a" :> <<[sent |-> FALSE, good |-> FALSE, rows |-> <<>>],
                      [sent |-> TRUE, good |-> TRUE, rows |-> <<IntV(2), IntV(3)>>]>>)
            @@ ("b" :> <<[sent |-> TRUE, good |-> TRUE, rows |-> <<>>]>>)
QueryRules == {"PushFilterDownGetNbrsRule", "LimitPushDownRule", "TopNRule"}
\* Without the optimizer only the index rule runs; with it the other rules
\* follow in the order of their static initialization.
MCRuleOrders ==
    {<<"IndexScanRule">>}
    \cup {<<"IndexScanRule">> \o p : p \in {p \in [1..3 -> QueryRules] : Elems(p) = QueryRules}}

(***************************************************************************)
(* Expressions of the queries.                                             *)
(***************************************************************************)
C(n) == Const(IntV(n))
L(s, p) == Prop("LabelAttribute", s, p)
Dst(e) == Prop("EdgeDst", e, "_dst")
SrcP(p) == Prop("SrcProp", "t", p)
DstP(p) == Prop("DstProp", "t", p)
V(v, c) == Prop("VarProp", v, c)
Rel(op, x, y) == Mk("Relational", op, <<x, y>>)
And(x, y) == Mk("And", "", <<x, y>>)
Or(x, y) == Mk("Or", "", <<x, y>>)
Plus(x, y) == Mk("Arithmetic", "+", <<x, y>>)
Agg(f, e) == Mk("Aggregate", f, <<e>>)
In1 == VertexIDList(<<C(1)>>)
In12 == VertexIDList(<<C(1), C(2)>>)
FromPipe(c) == VertexRef(InputProp(c))
FromVar(v, c) == VertexRef(V(v, c))
E == {"e"}
EF == {"e", "f"}
Cols1 == <<<<Dst("e"), "id">>, <<L("e", "w"), "w">>>>
Go(n, from) == GoSentence(Steps(n), from, E, "out", <<>>, Cols1, FALSE)
Pipe(l, r) == PipedSentence(l, r)

\* GO in one step: a filter, properties of both ends, two edge types, a
\* direction, DISTINCT.
Filtered(where, cols) == GoSentence(Steps(1), In12, EF, "out", <<where>>, cols, FALSE)
OneStepQueries == {
    <<Go(0, In12)>>,
    <<Go(1, In12)>>,
    <<GoSentence(Steps(1), In12, EF, "both", <<>>, <<<<Dst("e"), "id">>, <<Dst("f"), "fd">>>>, TRUE)>>,
    <<Filtered(Rel(">", L("e", "w"), C(1)), Cols1)>>,
    <<Filtered(And(Rel(">", L("e", "w"), C(1)), Rel("==", SrcP("a"), C(1))), Cols1)>>,
    <<Filtered(And(Rel("==", DstP("a"), C(2)), Rel(">", L("e", "w"), C(0))),
               <<<<DstP("b"), "b">>, <<SrcP("b"), "c">>>>)>>,
    <<Filtered(Or(Rel("==", L("f", "w"), C(1)), Rel("==", L("e", "w"), C(2))), Cols1)>>,
    <<Filtered(Rel("==", Plus(SrcP("a"), DstP("a")), C(4)), Cols1)>> }
\* Several steps, from constants, the pipe and a variable.
Piped(go) == <<Pipe(Go(1, In12), go)>>
Assigned(go) == <<AssignmentSentence("v", Go(1, In12)), go>>
Carry == <<<<InputProp("w"), "in">>, <<L("e", "w"), "w">>, <<DstP("a"), "a">>>>
CarryV == <<<<V("v", "w"), "in">>, <<L("e", "w"), "w">>>>
StepQueries == {
    <<Go(2, In1)>>, <<Go(3, In12)>>,
    <<GoSentence(Steps(2), In12, E, "in", <<Rel(">=", L("e", "w"), C(2))>>,
                 <<<<SrcP("a"), "a">>, <<DstP("b"), "b">>>>, TRUE)>>,
    <<GoSentence(Steps(4), VertexIDList(<<C(2)>>), {"f"}, "out", <<>>, <<<<Dst("f"), "id">>>>, FALSE)>>,
    <<GoSentence(MToNSteps(1, 3), In1, E, "out", <<>>, Cols1, FALSE)>>,
    <<GoSentence(MToNSteps(0, 2), In12, EF, "out", <<Rel("==", DstP("a"), C(2))>>,
                 <<<<Dst("e"), "id">>, <<DstP("b"), "b">>>>, TRUE)>>,
    <<GoSentence(MToNSteps(2, 3), VertexIDList(<<C(2)>>), {"f"}, "out", <<>>, <<<<Dst("f"), "id">>>>, FALSE)>>,
    Piped(Go(1, FromPipe("id"))),
    Piped(GoSentence(Steps(1), FromPipe("id"), EF, "out", <<Rel("<", InputProp("w"), L("e", "w"))>>,
                     Carry, FALSE)),
    Piped(GoSentence(Steps(2), FromPipe("id"), E, "out", <<>>, Carry, FALSE)),
    Piped(GoSentence(MToNSteps(1, 2), FromPipe("id"), E, "out", <<>>, Carry, FALSE)),
    Assigned(GoSentence(Steps(1), FromVar("v", "id"), E, "out", <<>>, CarryV, FALSE)),
    Assigned(GoSentence(Steps(2), FromVar("v", "id"), E, "both", <<>>, CarryV, TRUE)),
    Assigned(GoSentence(MToNSteps(1, 3), FromVar("v", "id"), E, "out", <<>>, CarryV, FALSE)) }
SubgraphQueries == {
    <<GetSubgraphSentence(n, from, over, "both")>> : n \in 0..2, from \in {In1, VertexIDList(<<C(4)>>)},
                                                    over \in {E, EF} }
FetchQueries == {
    <<FetchVerticesSentence(In12, "t", FALSE, <<>>, FALSE)>>,
    <<FetchVerticesSentence(In12, "t", TRUE, <<<<L("t", "a"), "a">>>>, FALSE)>>,
    Piped(FetchVerticesSentence(FromPipe("id"), "t", TRUE, <<<<L("t", "a"), "a">>>>, TRUE)),
    Piped(FetchVerticesSentence(FromPipe("id"), "*", FALSE, <<>>, FALSE)),
    <<FetchEdgesSentence(EdgeKeys(<<<<IntV(1), IntV(1), IntV(2)>>, <<IntV(2), IntV(5), IntV(3)>>>>),
                         "e", TRUE, <<<<L("e", "w"), "w">>>>, FALSE)>>,
    <<FetchEdgesSentence(EdgeKeys(<<<<IntV(1), IntV(0), IntV(2)>>>>), "e", FALSE, <<>>, FALSE)>>,
    <<Pipe(GoSentence(Steps(1), In12, E, "out", <<>>,
                      <<<<Prop("EdgeSrc", "e", "_src"), "s">>, <<Dst("e"), "d">>>>, FALSE),
           FetchEdgesSentence(EdgeKeyRef(InputProp("s"), C(0), InputProp("d")), "e", TRUE,
                              <<<<L("e", "w"), "w">>>>, TRUE))>> }
A(op, n) == Rel(op, L("t", "a"), C(n))
B(op, n) == Rel(op, L("t", "b"), C(n))
Lookup(where) == <<LookupSentence("t", where, TRUE, <<<<L("t", "b"), "b">>>>, FALSE)>>
LookupQueries == {
    Lookup(<<>>), <<LookupSentence("t", <<>>, FALSE, <<>>, FALSE)>>,
    Lookup(<<Prop("TextSearch", "t", "a")>>), Lookup(<<Prop("TextSearch", "t", "b")>>),
    Lookup(<<And(A("==", 2), B("<", 2))>>), Lookup(<<Or(A("==", 1), B("==", 1))>>),
    Lookup(<<And(A(">", 1), A("<=", 2))>>), Lookup(<<And(A("!=", 2), B("==", 1))>>),
    Lookup(<<And(Rel("<", C(1), L("t", "b")), A(">=", 1))>>),
    <<LookupSentence("e", <<Rel(">=", L("e", "w"), C(2))>>, TRUE, <<<<L("e", "w"), "w">>>>, TRUE)>> }
Cnt(e) == <<<<InputProp("id"), "id">>, <<Agg("count", e), "n">>>>
RelationalQueries == {
    <<YieldSentence(<<<<Plus(C(1), C(2)), "x">>>>, <<>>, FALSE)>>,
    Piped(YieldSentence(<<<<InputProp("*"), "">>>>, <<Rel(">", InputProp("w"), C(1))>>, FALSE)),
    Piped(YieldSentence(Cnt(InputProp("w")), <<>>, FALSE)),
    Piped(YieldSentence(<<<<Plus(Agg("sum", InputProp("w")), C(1)), "s">>>>, <<>>, FALSE)),
    Piped(GroupBySentence(<<InputProp("id")>>, Cnt(InputProp("w")))),
    Piped(OrderBySentence(<<OrderFactor(InputProp("id"), TRUE), OrderFactor(InputProp("w"), FALSE)>>)),
    <<Pipe(Pipe(Go(1, In12), OrderBySentence(<<OrderFactor(InputProp("w"), TRUE),
                                               OrderFactor(InputProp("id"), FALSE)>>)),
           LimitSentence(0, 2))>>,
    Piped(LimitSentence(1, 2)),
    <<Pipe(Go(2, In12), LimitSentence(0, 1))>>,
    Assigned(YieldSentence(<<<<V("v", "id"), "id">>>>, <<Rel("<", V("v", "w"), C(2))>>, TRUE)) }
SetQueries ==
    {<<SetSentence(Go(1, In1), op, FALSE, Go(1, VertexIDList(<<C(3)>>)))>> :
        op \in {"UNION", "INTERSECT", "MINUS"}}
    \cup {<<SetSentence(Go(1, In12), "UNION", TRUE, Pipe(Go(1, In1), LimitSentence(0, 9)))>>,
          <<SetSentence(Go(1, In12), "MINUS", FALSE, Go(1, In1))>>,
          <<Pipe(SetSentence(Go(1, In1), "UNION", FALSE, Go(1, In1)), Go(1, FromPipe("id")))>>}
\* What a statement gives the next one, through the pipe and through a
\* variable, in two and three statements.
Lefts == {
    Go(1, In12), Go(2, In12), GoSentence(MToNSteps(1, 2), In1, E, "out", <<>>, Cols1, TRUE),
    SetSentence(Go(1, In1), "UNION", FALSE, Go(1, VertexIDList(<<C(3)>>))),
    Pipe(Go(1, In12), Go(1, FromPipe("id"))) }
Sames == {
    LimitSentence(1, 2), OrderBySentence(<<OrderFactor(InputProp("w"), FALSE)>>),
    YieldSentence(<<<<InputProp("id"), "id">>, <<InputProp("w"), "w">>>>, <<>>, TRUE),
    GroupBySentence(<<InputProp("id")>>, <<<<InputProp("id"), "id">>, <<Agg("max", InputProp("w")), "w">>>>) }
Rights == {
    Go(1, FromPipe("id")), Go(2, FromPipe("id")), YieldSentence(Cnt(InputProp("w")), <<>>, FALSE),
    FetchVerticesSentence(FromPipe("id"), "t", TRUE, <<<<L("t", "a"), "a">>>>, FALSE) }
ChainQueries ==
    {<<Pipe(l, r)>> : l \in Lefts, r \in Sames \cup Rights}
    \cup {<<Pipe(Pipe(l, m), r)>> : l \in {Go(1, In12), Go(2, In12)}, r \in Rights,
                                   m \in Sames \ {LimitSentence(1, 2)}}
    \cup {<<AssignmentSentence("v", l), r>> : l \in Lefts,
            r \in {YieldSentence(<<<<V("v", "id"), "id">>>>, <<>>, FALSE), Go(1, FromVar("v", "id"))}}
    \cup {<<AssignmentSentence("v", Go(1, In12)), AssignmentSentence("u", Go(1, FromVar("v", "id"))),
            SetSentence(Go(1, FromVar("v", "id")), op, FALSE, Go(1, FromVar("u", "id")))>> :
              op \in {"UNION", "INTERSECT", "MINUS"}}
\* MATCH: the pattern is entered at its left end, in the middle and at its
\* right end, by id, by an indexed property and by label.
Nv == MatchNode("v", <<>>, <<>>)
Nx == MatchNode("x", <<>>, <<>>)
Anon == MatchNode("", <<>>, <<>>)
Labelled(alias, label) == MatchNode(alias, <<MatchLabel(label, <<>>)>>, <<>>)
Tagged(alias, p, n) == MatchNode(alias, <<MatchLabel("t", <<<<p, C(n)>>>>)>>, <<>>)
R(alias, types, dir) == MatchEdge(alias, types, <<>>, <<>>, dir)
Hops(alias, types, m, n, dir) == MatchEdge(alias, types, <<m, n>>, <<>>, dir)
A1(a) == Prop("Label", "", a)
Id(a) == Mk("Function", "id", <<A1(a)>>)
Is(a, n) == <<Rel("==", Id(a), C(n))>>
NoPage(cols, distinct) == ReturnItems(FALSE, cols, distinct, <<>>, C(0), <<>>)
All == ReturnItems(TRUE, <<>>, FALSE, <<>>, C(0), <<>>)
Match(nodes, edges, where, cols) ==
    MatchSentence(<<MatchClause(MatchPath("", nodes, edges), where, FALSE)>>, NoPage(cols, FALSE))
MatchAll(alias, nodes, edges, where) ==
    MatchSentence(<<MatchClause(MatchPath(alias, nodes, edges), where, FALSE)>>, All)
Ids(as) == [i \in DOMAIN as |-> <<Id(as[i]), as[i]>>]
Vx == Ids(<<"v", "x">>)
PatternQueries == {
    <<MatchAll("", <<Nv>>, <<>>, Is("v", 1))>>,
    <<MatchAll("p", <<Nv, Nx>>, <<R("r", E, "out")>>, Is("v", 1))>>,
    <<MatchAll("p", <<Nv, Nx>>, <<R("r", EF, "both")>>, Is("x", 2))>>,
    <<MatchAll("p", <<Nv, Nx, MatchNode("y", <<>>, <<>>)>>, <<R("r", E, "out"), R("s", {}, "out")>>,
               Is("x", 2))>>,
    <<MatchAll("p", <<Nv, Anon, Nx, MatchNode("y", <<>>, <<>>)>>,
               <<R("", E, "in"), R("s", E, "both"), R("", {}, "out")>>, Is("x", 3))>>,
    <<MatchAll("p", <<Nv, Nx>>, <<Hops("r", E, 1, 3, "out")>>, Is("v", 1))>>,
    <<MatchAll("p", <<Nv, Nx>>, <<Hops("", E, 0, 2, "out")>>, Is("x", 3))>>,
    <<MatchAll("p", <<Nv, Nx, Labelled("y", "u")>>, <<Hops("", EF, 2, 2, "both"), R("s", {}, "out")>>,
               Is("v", 1))>>,
    <<MatchAll("p", <<Tagged("v", "a", 2), Nx>>, <<R("r", {}, "out")>>, <<>>)>>,
    <<Match(<<Labelled("v", "t"), Nx>>, <<R("r", E, "out")>>,
            <<And(Rel(">", L("v", "a"), C(1)), Rel("<", L("x", "b"), L("v", "b")))>>,
            Append(Vx, <<L("r", "w"), "w">>))>>,
    <<Match(<<Nv, Labelled("x", "t")>>, <<MatchEdge("r", E, <<>>, <<<<"w", C(2)>>>>, "out")>>, <<>>, Vx)>>,
    <<Match(<<Nv, MatchNode("x", <<MatchLabel("u", <<>>)>>, <<>>)>>, <<R("r", {}, "out")>>,
            <<Mk("Relational", "IN", <<Id("v"), Const(ListV(<<IntV(1), IntV(3), IntV(9)>>))>>)>>, Vx)>>,
    <<Match(<<Nv, MatchNode("x", <<>>, <<<<"a", C(2)>>>>)>>, <<R("", E, "out")>>, Is("v", 1), Vx)>> }
\* The clauses around a pattern.
From1 == MatchClause(MatchPath("", <<Nv, Nx>>, <<R("r", E, "out")>>), Is("v", 1), FALSE)
Returning(ret) == MatchSentence(<<From1>>, ret)
W == <<<<Id("x"), "id">>, <<L("r", "w"), "w">>>>
ByW == <<OrderFactor(A1("w"), TRUE), OrderFactor(A1("id"), FALSE)>>
With(ret, where, cols) == MatchSentence(<<From1, WithClause(ret, where)>>, NoPage(cols, FALSE))
Listing == UnwindClause(Const(ListV(<<IntV(1), IntV(2)>>)), "i")
ClauseQueries == {
    <<Returning(NoPage(<<<<Id("x"), "id">>>>, TRUE))>>,
    <<Returning(ReturnItems(FALSE, W, FALSE, ByW, C(1), <<C(1)>>))>>,
    <<Returning(ReturnItems(FALSE, W, FALSE, ByW, C(0), <<C(2)>>))>>,
    <<Returning(ReturnItems(FALSE, W, FALSE, <<>>, C(1), <<>>))>>,
    <<Returning(NoPage(<<<<Id("x"), "id">>, <<Agg("count", L("r", "w")), "n">>>>, FALSE))>>,
    <<Returning(NoPage(<<<<Plus(Agg("sum", L("r", "w")), C(1)), "s">>>>, FALSE))>>,
    <<With(NoPage(W, TRUE), <<Rel(">", A1("w"), C(1))>>, <<<<Plus(A1("id"), A1("w")), "s">>>>)>>,
    <<With(ReturnItems(FALSE, W, FALSE, ByW, C(0), <<C(1)>>), <<>>, <<<<A1("id"), "id">>>>)>>,
    <<MatchSentence(<<From1, WithClause(NoPage(W, FALSE), <<>>), Listing>>,
                    NoPage(<<<<A1("i"), "i">>, <<A1("id"), "id">>>>, FALSE))>>,
    <<MatchSentence(<<Listing>>, NoPage(<<<<Plus(A1("i"), C(1)), "j">>>>, FALSE))>>,
    <<Pipe(Returning(NoPage(W, FALSE)), Go(1, FromPipe("id")))>>,
    <<AssignmentSentence("v", Returning(NoPage(W, FALSE))), Go(2, FromVar("v", "id"))>>,
    <<SetSentence(Returning(NoPage(W, FALSE)), "UNION", TRUE, Go(1, In12))>> }
RefusedMatches ==
    LET one(c) == <<MatchSentence(<<c>>, NoPage(<<<<Id("x"), "id">>>>, FALSE))>>
        clause(nodes, edges, where) == MatchClause(MatchPath("", nodes, edges), where, FALSE)
    IN {one([From1 EXCEPT !.optional = TRUE]),
        one(clause(<<Nv, Labelled("x", "none")>>, <<R("r", E, "out")>>, Is("v", 1))),
        one(clause(<<Nv, Nx>>, <<R("r", {"none"}, "out")>>, Is("v", 1))),
        one(clause(<<Nv, Nx>>, <<R("v", E, "out")>>, Is("v", 1))),
        one(clause(<<Nv, Nx>>, <<Hops("r", E, 2, 1, "out")>>, Is("v", 1))),
        one(clause(<<Nv, Nx>>, <<R("r", E, "out")>>, <<>>)),
        one(clause(<<Nv, Nx>>, <<R("r", E, "out")>>, Is("y", 1))),
        one(clause(<<Nv, Nx>>, <<R("r", E, "out")>>, <<Id("v")>>)),
        <<Returning(NoPage(<<<<Id("y"), "id">>>>, FALSE))>>,
        <<Returning(ReturnItems(FALSE, W, FALSE, <<OrderFactor(L("r", "w"), TRUE)>>, C(0), <<>>))>>,
        <<Returning(ReturnItems(FALSE, W, FALSE, <<>>, C(-1), <<>>))>>,
        <<MatchAll("", <<Anon>>, <<>>, <<>>)>>,
        <<With(NoPage(W, FALSE), <<>>, <<<<A1("x"), "x">>>>)>>}
\* What the validators refuse.
RefusedQueries == {
    <<Go(1, FromPipe("id"))>>, <<Go(1, FromVar("v", "id"))>>, Piped(Go(1, FromPipe("none"))),
    Piped(Go(1, FromPipe("*"))),
    <<Filtered(L("e", "w"), Cols1)>>, <<Filtered(Rel(">", L("e", "none"), C(1)), Cols1)>>,
    Piped(OrderBySentence(<<OrderFactor(InputProp("none"), FALSE)>>)),
    <<SetSentence(Go(1, In1), "UNION", FALSE, GoSentence(Steps(1), In1, E, "out", <<>>,
                                                         <<<<Dst("e"), "id">>>>, FALSE))>>,
    Piped(GroupBySentence(<<InputProp("w")>>, Cnt(InputProp("w")))),
    <<FetchVerticesSentence(In12, "none", FALSE, <<>>, FALSE)>>,
    <<FetchVerticesSentence(In12, "t", TRUE, <<<<L("t", "none"), "a">>>>, FALSE)>>,
    Lookup(<<Rel("==", L("t", "a"), L("t", "b"))>>),
    [i \in 1..4 |-> Go(1, In1)] }
MCQueries == PatternQueries \cup ClauseQueries \cup RefusedMatches \cup ChainQueries \cup RefusedQueries \cup OneStepQueries \cup StepQueries \cup SubgraphQueries \cup FetchQueries
             \cup LookupQueries \cup RelationalQueries \cup SetQueries

=============================================================================
