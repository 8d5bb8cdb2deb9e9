----------------------------- MODULE FetchPlan -----------------------------
(***************************************************************************)
(* FETCH PROP ON a tag or an edge (validator/FetchVerticesValidator,       *)
(* FetchEdgesValidator).  A statement is a record: from as in GoPlan for   *)
(* vertices, keys = [t, rows, key] for edges with the keys given (source,  *)
(* rank, destination) or the expressions that read them from an input;     *)
(* tag or edge; yield tells whether there is a YIELD clause, cols and      *)
(* distinct what it says.                                                  *)
(***************************************************************************)
EXTENDS GoPlan

\* checkRef: a column of the pipe or of one variable, of the right type.
CheckRef(e, t, ctx) == e.k \in {"InputProp", "VarProp"} /\ TypeIn(e, ctx) = t
RefVar(e, ctx) == IF e.k = "InputProp" THEN ctx.inVar ELSE UserVar(e.s)

\* A column of the schema, by the kind of its key.
SchemaProps(kind, name) == {k[3] : k \in {s \in DOMAIN Schema : s[1] = kind /\ s[2] = name}}
Tags == {k[2] : k \in {s \in DOMAIN Schema : s[1] = "TagProp"}}

(***************************************************************************)
(* Vertices.                                                               *)
(***************************************************************************)
TagLabels(e) == IF e.k = "LabelAttribute" THEN CreateExpr(e, "TagProp")
                ELSE RewriteLabelAttr(e, "TagProp")
FetchTags(f) == IF f.tag = "*" THEN Tags ELSE {f.tag}
PrepareVertices(f, ctx) ==
    IF Runtime(f.from) THEN CheckRef(f.from.src, VidType, ctx)
    ELSE \A i \in DOMAIN f.from.vids : Eval(f.from.vids[i], NoRow).t = VidType
\* The properties are collected column by column, those of the columns
\* before included.
FetchVerticesYield(f, ctx) ==
    LET es == [i \in DOMAIN f.cols |-> TagLabels(f.cols[i].e)]
        props == PropsOf(es)
    IN /\ \A i \in DOMAIN es : /\ ~HasAny(es[i], {"Label"})
                               /\ DeduceProps(es[i]).ok
                               /\ TypeIn(es[i], ctx) # "ERROR"
       /\ ~HasInputVarProperty(props) /\ EdgePropsOf(props) = {} /\ ~HasSrcDstTagProperty(props)
       /\ OfKind(props, {"TagProp"}) # {}
       /\ \A k \in props : k[2] \in FetchTags(f)
FetchVerticesValidate(f, ctx) ==
    /\ FetchTags(f) \subseteq Tags
    /\ PrepareVertices(f, ctx)
    /\ f.yield => FetchVerticesYield(f, ctx)

FetchVerticesProps(f) ==
    IF f.yield
    THEN {<<k[2], k[3]>> : k \in PropsOf([i \in DOMAIN f.cols |-> TagLabels(f.cols[i].e)])}
    ELSE UNION {{<<t, q>> : q \in SchemaProps("TagProp", t)} : t \in FetchTags(f)}
\* GetVertices, a projection, and a dedup if the columns are to be distinct.
FetchVerticesToPlan(f, ctx) ==
    LET input == IF Runtime(f.from) THEN RefVar(f.from.src, ctx) ELSE ConstantVids(ctx.p)
        src == IF Runtime(f.from) THEN f.from.src ELSE VarCol("_vid")
        props == SetToSeq(FetchVerticesProps(f))
        get == SetColNames(SetInputVar(GetVertices(<<ctx.p, "get">>, NullNode, src, props,
                                                   f.yield /\ f.distinct), input),
                           <<"_vid">> \o [i \in DOMAIN props |-> PropCol(props[i])])
        columns == IF f.yield
                   THEN <<Col(InputProp("_vid"), "VertexID")>>
                        \o [i \in DOMAIN f.cols |-> Col(TagLabels(f.cols[i].e), f.cols[i].n)]
                   ELSE <<Col(Prop("Vertex", "", ""), "vertices_")>>
        project == SetColNames(Project(<<ctx.p, "yield">>, get, columns), Names(columns))
        dedup == SetColNames(Dedup(<<ctx.p, "distinct">>, project), project.cols)
        types == [i \in DOMAIN columns |->
                    [n |-> columns[i].n,
                     t |-> IF columns[i].e.k = "InputProp" THEN VidType
                           ELSE TypeIn(columns[i].e, ctx)]]
    IN IF f.yield /\ f.distinct
       THEN Accept({get, project, dedup}, dedup, get, types,
                   IF Runtime(f.from) THEN <<>> ELSE BuildConstantInput(ctx.p, f.from))
       ELSE Accept({get, project}, project, get, types,
                   IF Runtime(f.from) THEN <<>> ELSE BuildConstantInput(ctx.p, f.from))

(***************************************************************************)
(* Edges.  The reserved properties are always fetched, and a row without   *)
(* the key of an edge is dropped.                                          *)
(***************************************************************************)
PrepareEdges(f, ctx) ==
    IF f.keys.t = "const"
    THEN \A i \in DOMAIN f.keys.rows : /\ f.keys.rows[i][1].t = VidType
                                       /\ f.keys.rows[i][3].t = VidType
    ELSE LET key == f.keys.key
             rank == IF IsConst(key[2]) THEN {} ELSE {2}
         IN /\ \A i \in {1, 3} \cup rank : CheckRef(key[i], "INT", ctx)
            /\ \A i, j \in {1, 3} \cup rank : RefVar(key[i], ctx) = RefVar(key[j], ctx)
FetchEdgesCols(f) ==
    <<Col(Prop("EdgeSrc", f.edge, "_src"), f.edge \o "._src"),
      Col(Prop("EdgeDst", f.edge, "_dst"), f.edge \o "._dst"),
      Col(Prop("EdgeRank", f.edge, "_rank"), f.edge \o "._rank")>>
    \o [i \in DOMAIN f.cols |-> Col(RewriteLabels(f.cols[i].e), f.cols[i].n)]
FindInvalidYieldExpression(e) == HasAny(e, {"InputProp", "VarProp", "SrcProp", "DstProp"})
Reserved == {"_src", "_dst", "_rank", "_type"}
FetchEdgesYield(f, ctx) ==
    LET cols == FetchEdgesCols(f)
    IN \A i \in DOMAIN cols :
          /\ ~HasAny(cols[i].e, {"Label"})
          /\ ~FindInvalidYieldExpression(cols[i].e)
          /\ \A d \in FindAllStorage(cols[i].e) :
                d.s = f.edge /\ d.op \in SchemaProps("EdgeProp", f.edge) \cup Reserved
          /\ TypeIn(cols[i].e, ctx) # "ERROR"
FetchEdgesValidate(f, ctx) ==
    /\ f.edge \in Edges
    /\ PrepareEdges(f, ctx)
    /\ f.yield => FetchEdgesYield(f, ctx)

FetchEdgesProps(f) ==
    LET cols == FetchEdgesCols(f)
    IN IF f.yield
       THEN {<<d.s, d.op>> : d \in UNION {FindAllStorage(cols[i].e) : i \in DOMAIN cols}}
       ELSE {<<f.edge, q>> : q \in SchemaProps("EdgeProp", f.edge) \cup Reserved}
NotEmpty(e) == Mk("Relational", "!=", <<e, Const(Empty)>>)
EmptyEdgeKeyFilter(f) ==
    LET key == FetchEdgesCols(f)
    IN Mk("And", "", <<NotEmpty(key[1].e),
                       Mk("And", "", <<NotEmpty(key[2].e), NotEmpty(key[3].e)>>)>>)
FetchEdgesToPlan(f, ctx, types) ==
    LET const == f.keys.t = "const"
        type == Const(IntV(types[f.edge]))
        key == IF const THEN <<VarCol("_src"), type, VarCol("_rank"), VarCol("_dst")>>
               ELSE <<f.keys.key[1], type, f.keys.key[2], f.keys.key[3]>>
        var == <<ctx.p, "keys">>
        props == SetToSeq(FetchEdgesProps(f))
        get == SetColNames(SetInputVar(GetEdges(<<ctx.p, "get">>, NullNode, key, props,
                                                f.yield /\ f.distinct),
                                       IF const THEN var ELSE RefVar(f.keys.key[1], ctx)),
                           [i \in DOMAIN props |-> PropCol(props[i])])
        filter == SetColNames(Filter(<<ctx.p, "exists">>, get, EmptyEdgeKeyFilter(f)), get.cols)
        columns == IF f.yield THEN FetchEdgesCols(f)
                   ELSE <<Col(Prop("Edge", "", ""), "edges_")>>
        project == SetColNames(Project(<<ctx.p, "yield">>, filter, columns), Names(columns))
        dedup == SetColNames(Dedup(<<ctx.p, "distinct">>, project), project.cols)
        last == IF f.yield /\ f.distinct THEN dedup ELSE project
        outs == [i \in DOMAIN columns |-> [n |-> columns[i].n, t |-> TypeIn(columns[i].e, ctx)]]
        init == IF const THEN var :> SeqRes({<<var, 1>>}, <<"_src", "_rank", "_dst">>, f.keys.rows)
                ELSE <<>>
    IN Accept({get, filter, project, last}, last, get, outs, init)
=============================================================================
