------------------------------- MODULE GoPlan -------------------------------
(***************************************************************************)
(* The validation of GO and GET SUBGRAPH and the plans made for them       *)
(* (validator/TraversalValidator, GoValidator, GetSubgraphValidator).      *)
(*                                                                         *)
(* A GO statement is a record: step = [mToN, m, n] (n is the number of     *)
(* steps when mToN is FALSE), from = [t, vids, src] with t in const, pipe  *)
(* and var, over (a set of edge types), dir (out, in or both), where (at   *)
(* most one expression), cols (yield columns) and distinct.                *)
(* ctx is what the statements before have left: p, the number of this      *)
(* statement in its query; in and inVar, the columns and the variable of   *)
(* the pipe; vars, the columns of the user's variables.  A column is       *)
(* [n, t], its name and type.                                              *)
(***************************************************************************)
EXTENDS PlanNodes, DeduceType

CONSTANTS Edges,    \* the edge types of the space
          Schema    \* the keys of the properties that exist -> their types
VidType == "INT"

Reject == [ok |-> FALSE]
Accept(nodes, root, tail, outs, init) ==
    [ok |-> TRUE, plan |-> [nodes |-> NodeMap(nodes), root |-> root.id, tail |-> tail.id],
     outs |-> outs, init |-> init]
\* The types of everything an expression may name: the schema, the columns of
\* the input and those of the variables.
Scope(ctx) ==
    Schema
    @@ [k \in {<<"InputProp", "$-", ctx.in[i].n>> : i \in DOMAIN ctx.in} |->
            ctx.in[ColIndex(Names(ctx.in), k[3])].t]
    @@ [k \in UNION {{<<"VarProp", v, ctx.vars[v][i].n>> : i \in DOMAIN ctx.vars[v]}
                       : v \in DOMAIN ctx.vars} |->
            ctx.vars[k[2]][ColIndex(Names(ctx.vars[k[2]]), k[3])].t]
TypeIn(e, ctx) == TypeOf(e, Scope(ctx), VidType)

(***************************************************************************)
(* TraversalValidator.                                                     *)
(***************************************************************************)
\* 0 TO 0 STEPS is 0 STEPS, 0 TO n is 1 TO n, n TO n is n STEPS.
ValidateStep(step) ==
    CASE ~step.mToN -> [ok |-> TRUE, mToN |-> FALSE, m |-> 0, n |-> step.n]
      [] step.n < step.m -> [ok |-> FALSE, mToN |-> FALSE, m |-> 0, n |-> 0]
      [] step.m = 0 /\ step.n = 0 -> [ok |-> TRUE, mToN |-> FALSE, m |-> 0, n |-> 0]
      [] OTHER -> LET m == IF step.m = 0 THEN 1 ELSE step.m
                  IN [ok |-> TRUE, mToN |-> m # step.n, m |-> m, n |-> step.n]
Runtime(from) == from.t # "const"
ValidateStarts(from, ctx) ==
    IF Runtime(from)
    THEN from.src.k \in {"InputProp", "VarProp"} /\ TypeIn(from.src, ctx) = VidType
    ELSE \A i \in DOMAIN from.vids : IsEvaluable(from.vids[i])
                                     /\ Eval(from.vids[i], NoRow).t = VidType
ValidateOver(over) == over \subseteq Edges

\* The start vertices given in the statement are put in a variable.
ConstantVids(p) == <<p, "vids">>
BuildConstantInput(p, from) ==
    ConstantVids(p) :> SeqRes({<<ConstantVids(p), 1>>}, <<"_vid">>,
                              [i \in DOMAIN from.vids |-> <<Eval(from.vids[i], NoRow)>>])
\* Those of the input or of a variable are projected and made distinct.
BuildRuntimeInput(p, from) ==
    LET project == Project(<<p, "startVid">>, NullNode, <<Col(from.src, "_vid")>>)
        input == IF from.t = "var" THEN SetInputVar(project, UserVar(from.src.s)) ELSE project
        start == SetColNames(input, <<"_vid">>)
    IN [start |-> start, dedup |-> SetColNames(Dedup(<<p, "startDedup">>, start), <<"_vid">>)]
StartVids(p, from) ==
    IF Runtime(from) THEN BuildRuntimeInput(p, from).dedup.out ELSE ConstantVids(p)
StartSrc(from) == IF Runtime(from) THEN InputProp("_vid") ELSE Prop("VarProp", "vids", "_vid")

AnyDst == Prop("EdgeProp", "*", "_dst")
ProjectDstVidsFromGN(p, gn, out) ==
    LET project == SetColNames(Project(<<p, "dst">>, gn, <<Col(AnyDst, "_vid")>>), <<"_vid">>)
    IN <<project,
         SetColNames(SetOutputVar(Dedup(<<p, "dstDedup">>, project), out), <<"_vid">>)>>

(***************************************************************************)
(* GoValidator: what a statement must satisfy.                             *)
(***************************************************************************)
RewriteLabels(e) == IF e.k = "LabelAttribute" THEN CreateExpr(e, "EdgeProp")
                    ELSE RewriteLabelAttr(e, "EdgeProp")
ValidateWhere(where, ctx) ==
    \A i \in DOMAIN where :
        LET e == RewriteLabelAttr(where[i], "EdgeProp")
        IN /\ ~HasAny(where[i], {"Aggregate"})
           /\ TypeIn(e, ctx) \in {"BOOL", "NULL", "EMPTY"}
           /\ DeduceProps(e).ok
ValidateYield(cols, ctx) ==
    \A i \in DOMAIN cols :
        LET e == RewriteLabels(cols[i].e)
        IN ~HasAny(e, {"Aggregate", "Label"}) /\ TypeIn(e, ctx) # "ERROR" /\ DeduceProps(e).ok
ExprsOf(go) == [i \in DOMAIN go.where |-> RewriteLabelAttr(go.where[i], "EdgeProp")]
               \o [i \in DOMAIN go.cols |-> RewriteLabels(go.cols[i].e)]
PropsOf(exprs) == UNION {DeduceProps(exprs[i]).props : i \in DOMAIN exprs}
OfKind(props, kinds) == {k \in props : k[1] \in kinds}
EdgePropsOf(props) == OfKind(props, {"EdgeProp"})
DstPropsOf(props) == OfKind(props, {"DstProp"})
InputPropsOf(props) == OfKind(props, {"InputProp"})
VarPropsOf(props) == OfKind(props, {"VarProp"})
VariablesOf(props) == {k[2] : k \in VarPropsOf(props)}

GoValidate(go, ctx) ==
    LET props == PropsOf(ExprsOf(go))
    IN /\ ValidateStep(go.step).ok
       /\ ValidateStarts(go.from, ctx)
       /\ ValidateOver(go.over)
       /\ ValidateWhere(go.where, ctx)
       /\ ValidateYield(go.cols, ctx)
       /\ \A k \in EdgePropsOf(props) : k[2] \in go.over
       /\ InputPropsOf(props) # {} => go.from.t = "pipe"
       /\ VarPropsOf(props) # {} => go.from.t = "var"
       /\ InputPropsOf(props) = {} \/ VarPropsOf(props) = {}
       /\ Cardinality(VariablesOf(props)) <= 1

(***************************************************************************)
(* buildColumns: the columns that carry the properties from one node to    *)
(* the next, and the filter and the yield columns that read them.  g is    *)
(* what the methods of the validator share.                                *)
(***************************************************************************)
RECURSIVE ExtractPropExprs(_, _)
ExtractPropExprs(exprs, st) ==
    IF exprs = <<>> THEN st ELSE ExtractPropExprs(Tail(exprs), ExtractProp(Head(exprs), st))
JoinsInput(props) == HasInputVarProperty(props)
NeedsColumns(go, props) == DstPropsOf(props) # {} \/ JoinsInput(props) \/ Runtime(go.from)
GoContext(go, ctx) ==
    LET exprs == ExprsOf(go)
        props == PropsOf(exprs)
        ext == ExtractPropExprs(exprs, NoProps)
        new == IF NeedsColumns(go, props)
               THEN [i \in DOMAIN exprs |-> RewriteInputProp(exprs[i], ext.map)] ELSE exprs
        nf == Len(go.where)
    IN [p |-> ctx.p, from |-> go.from, over |-> go.over, dir |-> go.dir,
        step |-> ValidateStep(go.step), props |-> props, ext |-> ext,
        filter |-> SubSeq(new, 1, nf),
        cols |-> [i \in DOMAIN go.cols |-> Col(new[nf + i], go.cols[i].n)],
        distinct |-> go.distinct,
        inVar |-> IF go.from.t = "pipe" THEN ctx.inVar ELSE UserVar(go.from.src.s),
        inCols |-> CASE go.from.t = "pipe" -> Names(ctx.in)
                     [] go.from.t = "var" -> Names(ctx.vars[go.from.src.s])
                     [] OTHER -> <<>>]

\* What is asked of the storage.  _dst comes with every edge type, and no edge
\* at all when the statement uses neither edges nor their destinations.
BuildSrcVertexProps(g) == {<<k[2], k[3]>> : k \in OfKind(g.props, {"SrcProp"})}
BuildDstVertexProps(g) == {<<k[2], k[3]>> : k \in DstPropsOf(g.props)}
UsesEdges(g) == EdgePropsOf(g.props) # {} \/ DstPropsOf(g.props) # {}
BuildEdgeDst(g) == IF UsesEdges(g) THEN {<<e, "_dst">> : e \in g.over} ELSE {}
BuildEdgeProps(g) == BuildEdgeDst(g) \cup {<<k[2], k[3]>> : k \in EdgePropsOf(g.props)}

(***************************************************************************)
(* GoValidator: the pieces of a plan.                                      *)
(***************************************************************************)
GoNeighbors(g, label, dep, vprops, eprops, input) ==
    SetInputVar(GetNeighbors(<<g.p, label>>, dep, StartSrc(g.from),
                             IF eprops = {} THEN {} ELSE g.over, g.dir, vprops, eprops), input)

DstVidCol == "__dst"          \* dstVidColName_
SrcVidCol == "__src"          \* srcVidColName_
JoinDstVidCol == "__join"     \* joinDstVidColName_
VidCol == "__vid"
VarCol(col) == Prop("VarProp", "", col)

BuildProjectSrcEdgeProps(g, gn, dep) ==
    LET columns == g.ext.srcEdge
                   \o (IF Runtime(g.from) THEN <<Col(VarCol("_vid"), "_vid")>> ELSE <<>>)
                   \o (IF DstPropsOf(g.props) # {} THEN <<Col(AnyDst, JoinDstVidCol)>> ELSE <<>>)
    IN SetColNames(SetInputVar(Project(<<g.p, "srcEdge">>, dep, columns), gn.out),
                   Names(columns))

BuildJoinDstProps(g, src) ==
    LET dsts == SetColNames(Project(<<g.p, "dsts">>, src,
                                    <<Col(InputProp(JoinDstVidCol), JoinDstVidCol)>>),
                            <<JoinDstVidCol>>)
        vids == SetColNames(Dedup(<<g.p, "dstVids">>, dsts), <<JoinDstVidCol>>)
        get == GetVertices(<<g.p, "dstProps">>, vids, VarCol(JoinDstVidCol),
                           SetToSeq(BuildDstVertexProps(g)), FALSE)
        columns == Append(g.ext.dst, Col(VarCol("_vid"), VidCol))
        project == SetColNames(Project(<<g.p, "dstCols">>, get, columns), Names(columns))
        join == DataJoin(<<g.p, "joinDst">>, project, src.out, LatestVersion,
                         project.out, LatestVersion, VarCol(JoinDstVidCol), VarCol(VidCol))
    IN <<dsts, vids, get, project, SetColNames(join, src.cols \o project.cols)>>

ManySteps(g) == g.step.mToN \/ g.step.n > 1
FirstCol(g) == g.from.src.op
\* The rows of the last step are joined with the trace from the start vertices
\* and then with the rows the start vertices came from.
BuildJoinInput(g, trace, dep) ==
    LET traced == SetColNames(
            DataJoin(<<g.p, "joinTrace">>, dep, dep.out, LatestVersion, trace.out,
                     IF g.step.mToN THEN PreviousOneVersion ELSE LatestVersion,
                     VarCol("_vid"), VarCol(DstVidCol)),
            dep.cols \o trace.cols)
        left == IF ManySteps(g) THEN traced ELSE dep
        join == DataJoin(<<g.p, "joinInput">>, left, left.out, LatestVersion,
                         g.inVar, LatestVersion,
                         VarCol(IF ManySteps(g) THEN FirstCol(g) ELSE "_vid"), g.from.src)
    IN (IF ManySteps(g) THEN <<traced>> ELSE <<>>)
       \o <<SetColNames(join, left.cols \o g.inCols)>>

ProjectSrcDstVidsFromGN(g, dep, gn) ==
    LET columns == <<Col(AnyDst, "_vid"), Col(InputProp("_vid"), SrcVidCol)>>
        project == SetColNames(SetInputVar(Project(<<g.p, "srcDst">>, dep, columns), gn.out),
                               Names(columns))
    IN <<project, SetColNames(Dedup(<<g.p, "srcDstDedup">>, project), project.cols)>>

BuildLeftVarForTraceJoin(g, dep) ==
    LET columns == <<Col(g.from.src, FirstCol(g)), Col(g.from.src, DstVidCol)>>
        project == SetColNames(SetInputVar(Project(<<g.p, "left">>, dep, columns), g.inVar),
                               Names(columns))
    IN <<project, SetColNames(Dedup(<<g.p, "leftDedup">>, project), project.cols)>>

\* One step of the trace: it replaces the variable it starts from.
TraceToStartVid(g, left, srcDst) ==
    LET join == SetColNames(
            DataJoin(<<g.p, "trace">>, srcDst, left.out, LatestVersion, srcDst.out,
                     LatestVersion, VarCol(DstVidCol), VarCol(SrcVidCol)),
            left.cols \o srcDst.cols)
        columns == <<Col(InputProp(FirstCol(g)), FirstCol(g)), Col(InputProp("_vid"), DstVidCol)>>
        project == SetColNames(Project(<<g.p, "traceCols">>, join, columns), Names(columns))
    IN <<join, project,
         SetColNames(SetOutputVar(Dedup(<<g.p, "traceDedup">>, project), left.out),
                     project.cols)>>
Last(s) == s[Len(s)]

(***************************************************************************)
(* oneStep: the last step of GO n STEPS, on the vertices in the variable   *)
(* input.  nodes is what it adds, tail what it depends on from below.      *)
(***************************************************************************)
OneStep(g, dep, input, trace) ==
    LET gn == GoNeighbors(g, "gn", dep, BuildSrcVertexProps(g), BuildEdgeProps(g), input)
        carried == NeedsColumns(g, g.props)
        src == BuildProjectSrcEdgeProps(g, gn, gn)
        dst == IF DstPropsOf(g.props) # {} THEN BuildJoinDstProps(g, src) ELSE <<>>
        wide == IF dst = <<>> THEN src ELSE Last(dst)
        joined == IF Runtime(g.from) THEN BuildJoinInput(g, trace, wide) ELSE <<>>
        rows == IF joined # <<>> THEN Last(joined) ELSE IF carried THEN wide ELSE gn
        filter == [i \in DOMAIN g.filter |->
                      SetColNames(Filter(<<g.p, "filter">>, rows, g.filter[i]), rows.cols)]
        kept == IF filter = <<>> THEN rows ELSE filter[1]
        project == SetColNames(Project(<<g.p, "yield">>, kept, g.cols), Names(g.cols))
        dedup == SetColNames(Dedup(<<g.p, "distinct">>, project), project.cols)
    IN [nodes |-> {gn, project} \cup (IF carried THEN {src} ELSE {}) \cup Elems(dst)
                  \cup Elems(joined) \cup Elems(filter)
                  \cup (IF g.distinct THEN {dedup} ELSE {}),
        root |-> IF g.distinct THEN dedup ELSE project, tail |-> gn]

\* The nodes of the start vertices, and the variables set when planning.
StartNodes(g) ==
    IF Runtime(g.from)
    THEN {BuildRuntimeInput(g.p, g.from).start, BuildRuntimeInput(g.p, g.from).dedup} ELSE {}
StartDedup(g) == IF Runtime(g.from) THEN BuildRuntimeInput(g.p, g.from).dedup ELSE NullNode
StartInit(g) == IF Runtime(g.from) THEN <<>> ELSE BuildConstantInput(g.p, g.from)
TailOf(g, otherwise) ==
    IF Runtime(g.from) THEN BuildRuntimeInput(g.p, g.from).start ELSE otherwise

BuildOneStepPlan(g, outs) ==
    LET one == OneStep(g, StartDedup(g), StartVids(g.p, g.from), NullNode)
    IN Accept(StartNodes(g) \cup one.nodes, one.root, TailOf(g, one.tail), outs, StartInit(g))

\* All steps but the last are a loop whose body moves the variable of the
\* start vertices one step on.
BuildNStepsPlan(g, outs) ==
    LET vids == StartVids(g.p, g.from)
        start == StartNode(<<g.p, "bodyStart">>)
        left == IF Runtime(g.from) THEN BuildLeftVarForTraceJoin(g, StartDedup(g)) ELSE <<>>
        gn == GoNeighbors(g, "gnBody", start, {}, BuildEdgeDst(g), vids)
        dst == ProjectDstVidsFromGN(g.p, gn, vids)
        srcDst == IF Runtime(g.from) THEN ProjectSrcDstVidsFromGN(g, Last(dst), gn) ELSE <<>>
        trace == IF Runtime(g.from) THEN TraceToStartVid(g, Last(left), Last(srcDst)) ELSE <<>>
        body == IF Runtime(g.from) THEN Last(trace) ELSE Last(dst)
        loop == Loop(<<g.p, "loop">>, IF left = <<>> THEN StartDedup(g) ELSE Last(left),
                     body, g.step.n - 1)
        one == OneStep(g, loop, Last(dst).out, IF trace = <<>> THEN NullNode ELSE Last(trace))
    IN Accept(StartNodes(g) \cup {start, gn, loop} \cup Elems(left) \cup Elems(dst)
              \cup Elems(srcDst) \cup Elems(trace) \cup one.nodes,
              one.root, TailOf(g, loop), outs, StartInit(g))

\* GO m TO n STEPS: every round of the loop makes the rows of its step; the
\* versions m to n are collected.
BuildMToNPlan(g, outs) ==
    LET vids == StartVids(g.p, g.from)
        start == StartNode(<<g.p, "bodyStart">>)
        left == IF JoinsInput(g.props) THEN BuildLeftVarForTraceJoin(g, StartDedup(g)) ELSE <<>>
        gn == GoNeighbors(g, "gn", start, BuildSrcVertexProps(g), BuildEdgeProps(g), vids)
        dst == ProjectDstVidsFromGN(g.p, gn, vids)
        srcDst == IF Runtime(g.from) THEN ProjectSrcDstVidsFromGN(g, Last(dst), gn) ELSE <<>>
        trace == IF Runtime(g.from) /\ left # <<>>
                 THEN TraceToStartVid(g, Last(left), Last(srcDst)) ELSE <<>>
        \* depForProject: the trace, even when there is none.
        below == IF srcDst = <<>> THEN Last(dst)
                 ELSE IF trace = <<>> THEN NullNode ELSE Last(trace)
        src == IF JoinsInput(g.props) \/ DstPropsOf(g.props) # {}
               THEN <<BuildProjectSrcEdgeProps(g, gn, below)>> ELSE <<>>
        joinDst == IF DstPropsOf(g.props) # {} THEN BuildJoinDstProps(g, src[1]) ELSE <<>>
        wide == src \o joinDst
        joined == IF JoinsInput(g.props) THEN BuildJoinInput(g, Last(trace), Last(wide)) ELSE <<>>
        made == joinDst \o joined
        \* The rows are those of the neighbors when nothing was joined to them.
        rows == IF made # <<>> THEN Last(made)
                ELSE [(IF srcDst = <<>> THEN Last(dst) ELSE Last(srcDst)) EXCEPT !.out = gn.out]
        filter == [i \in DOMAIN g.filter |->
                      SetColNames(Filter(<<g.p, "filter">>, rows, g.filter[i]), rows.cols)]
        project == SetColNames(
            Project(<<g.p, "yield">>, IF filter = <<>> THEN rows ELSE filter[1], g.cols),
            Names(g.cols))
        dedup == SetColNames(Dedup(<<g.p, "distinct">>, project), project.cols)
        body == IF g.distinct THEN dedup ELSE project
        loop == Loop(<<g.p, "loop">>, IF left = <<>> THEN StartDedup(g) ELSE Last(left),
                     body, g.step.n)
        collect == SetColNames(
            DataCollect(<<g.p, "collect">>, loop, "MToN", <<body.out>>, g.step.m, g.step.n,
                        g.distinct), project.cols)
    IN Accept(StartNodes(g) \cup {start, gn, loop, project, body, collect} \cup Elems(left)
              \cup Elems(dst) \cup Elems(srcDst) \cup Elems(trace) \cup Elems(wide)
              \cup Elems(joined) \cup Elems(filter),
              collect, TailOf(g, loop), outs, StartInit(g))

\* Mutant: a column is declared under the name of its property, not its alias.
ColTypesOfProps(cols, ctx) ==
    [i \in DOMAIN cols |-> [n |-> cols[i].e.s, t |-> TypeIn(cols[i].e, ctx)]]
ColTypes(cols, ctx) ==
    [i \in DOMAIN cols |-> [n |-> cols[i].n, t |-> TypeIn(RewriteLabels(cols[i].e), ctx)]]
GoToPlan(go, ctx) ==
    LET g == GoContext(go, ctx)
        outs == ColTypes(go.cols, ctx)
        pass == SetColNames(PassThroughNode(<<ctx.p, "pass">>, NullNode), Names(go.cols))
    IN CASE g.step.mToN -> BuildMToNPlan(g, outs)
         [] ~g.step.mToN /\ g.step.n = 0 -> Accept({pass}, pass, pass, outs, <<>>)
         [] ~g.step.mToN /\ g.step.n = 1 -> BuildOneStepPlan(g, outs)
         [] OTHER -> BuildNStepsPlan(g, outs)

(***************************************************************************)
(* GET SUBGRAPH n STEPS FROM ... over edge types in one direction: n + 1   *)
(* rounds, the last of which finds the edges inside; zero steps only fetch *)
(* the vertices.  The columns of the result are not outputs of the         *)
(* statement: nothing can be piped from it.                                *)
(***************************************************************************)
SubgraphEdgeProps(edges) ==
    {<<e, q>> : e \in edges, q \in {"w", "_src", "_type", "_rank", "_dst"}}
AllVertexProps == {<<k[2], k[3]>> : k \in {s \in DOMAIN Schema : s[1] = "TagProp"}}
SubgraphValidate(sg, ctx) == ValidateStarts(sg.from, ctx) /\ ValidateOver(sg.over)
ZeroStep(g) ==
    LET get == SetInputVar(
            GetVertices(<<g.p, "get">>, IF Runtime(g.from) THEN StartDedup(g)
                                        ELSE StartNode(<<g.p, "bodyStart">>),
                        StartSrc(g.from), SetToSeq(AllVertexProps), TRUE), StartVids(g.p, g.from))
        collect == SetColNames(
            Aggregate(<<g.p, "collect">>, get, <<>>,
                      <<Mk("Aggregate", "collect", <<Prop("Vertex", "", "")>>)>>), <<"_vertices">>)
    IN Accept(StartNodes(g) \cup {get, collect}
              \cup (IF Runtime(g.from) THEN {} ELSE {StartNode(<<g.p, "bodyStart">>)}),
              collect, TailOf(g, get), <<>>, StartInit(g))
SubgraphToPlan(sg, ctx) ==
    LET g == [p |-> ctx.p, from |-> sg.from]
        vids == StartVids(g.p, g.from)
        start == StartNode(<<g.p, "bodyStart">>)
        gn == SetInputVar(GetNeighbors(<<g.p, "gn">>, start, StartSrc(g.from), sg.over, sg.dir,
                                       AllVertexProps, SubgraphEdgeProps(sg.over)), vids)
        more == <<g.p, "oneMoreStep">>
        sub == SetColNames(SetOutputVar(Subgraph(<<g.p, "subgraph">>, gn, more, sg.n + 1), vids),
                           <<"_vid">>)
        loop == Loop(<<g.p, "loop">>, StartDedup(g), sub, sg.n + 1)
        collect == SetColNames(DataCollect(<<g.p, "collect">>, loop, "Subgraph",
                                           <<gn.out, more>>, 0, 0, FALSE),
                               <<"_vertices", "_edges">>)
    IN IF sg.n = 0 THEN ZeroStep(g)
       ELSE Accept(StartNodes(g) \cup {start, gn, sub, loop, collect}, collect,
                   TailOf(g, loop), <<>>, StartInit(g))
=============================================================================
