----------------------------- MODULE MatchPlan -----------------------------
(***************************************************************************)
(* MATCH: the validator of its clauses (validator/MatchValidator) and the  *)
(* planners that make a plan of them (planner/match).                      *)
(*                                                                         *)
(* A path pattern is [alias, nodes, edges]; a node [alias, labels, props], *)
(* where labels is a sequence of a label and its own properties; an edge   *)
(* [alias, types, range, props, dir], where range is <<>> for one step or  *)
(* <<min, max>>.  Properties are pairs of a name and an expression.  The   *)
(* alias "" stands for one that was not given.  Nodes are counted from 0,  *)
(* as in the code: node i of a pattern is nodes[i + 1].                    *)
(***************************************************************************)
EXTENDS PipePlan, LookupPlan

(***************************************************************************)
(* The sentence and its clauses (parser/MatchSentence.h).                  *)
(***************************************************************************)
MatchLabel(label, props) == [label |-> label, props |-> props]
MatchNode(alias, labels, props) == [alias |-> alias, labels |-> labels, props |-> props]
MatchEdge(alias, types, range, props, dir) ==
    [alias |-> alias, types |-> types, range |-> range, props |-> props, dir |-> dir]
MatchPath(alias, nodes, edges) == [alias |-> alias, nodes |-> nodes, edges |-> edges]
MatchClause(path, where, optional) ==
    [k |-> "Match", path |-> path, where |-> where, optional |-> optional]
UnwindClause(e, alias) == [k |-> "Unwind", e |-> e, alias |-> alias]
\* A body of RETURN or WITH; no limit is <<>>.
ReturnItems(all, cols, distinct, order, skip, limit) ==
    [all |-> all, cols |-> [i \in DOMAIN cols |-> Col(cols[i][1], cols[i][2])],
     distinct |-> distinct, order |-> order, skip |-> skip, limit |-> limit]
WithClause(ret, where) == [k |-> "With", ret |-> ret, where |-> where]
MatchSentence(clauses, ret) == [k |-> "Match", clauses |-> clauses, ret |-> ret]

(***************************************************************************)
(* MatchValidator: patterns.                                               *)
(***************************************************************************)
Given(aliases) == SelectSeq(aliases, LAMBDA a : a # "")
PatternAliases(path) ==
    Given([i \in DOMAIN path.nodes |-> path.nodes[i].alias]
          \o [i \in DOMAIN path.edges |-> path.edges[i].alias] \o <<path.alias>>)
\* andConnect.
RECURSIVE AndConnect(_)
AndConnect(es) ==
    IF Len(es) = 1 THEN es[1]
    ELSE Mk("And", "", <<AndConnect(SubSeq(es, 1, Len(es) - 1)), Last(es)>>)
\* makeSubFilter: the properties, or, without any, the label.
MakeSubFilter(alias, props, label) ==
    IF props = <<>>
    THEN Mk("Relational", "IN", <<Const(NameV(label)),
                                  Mk("Function", "tags", <<Prop("Label", "", alias)>>)>>)
    ELSE AndConnect([i \in DOMAIN props |->
            Mk("Relational", "==", <<Prop("LabelAttribute", alias, props[i][1]), props[i][2]>>)])
\* The filter of a node: its own properties, or else what its labels ask.
NodeFilter(node) ==
    CASE node.props # <<>> -> <<MakeSubFilter(node.alias, node.props, "")>>
      [] node.props = <<>> /\ node.labels # <<>> ->
            <<AndConnect([i \in DOMAIN node.labels |->
                MakeSubFilter(node.alias, node.labels[i].props, node.labels[i].label)])>>
      [] OTHER -> <<>>
EdgeFilter(edge) ==
    IF edge.props = <<>> THEN <<>> ELSE <<MakeSubFilter(edge.alias, edge.props, "")>>
PropsEvaluable(props) == \A i \in DOMAIN props : IsEvaluable(props[i][2])
BuildNodeInfo(node) ==
    /\ \A i \in DOMAIN node.labels : node.labels[i].label \in Tags
                                     /\ PropsEvaluable(node.labels[i].props)
    /\ PropsEvaluable(node.props)
ValidateStepRange(range) == range # <<>> => 0 <= range[1] /\ range[1] <= range[2]
BuildEdgeInfo(edge) ==
    edge.types \subseteq Edges /\ ValidateStepRange(edge.range) /\ PropsEvaluable(edge.props)
ValidatePath(path) ==
    LET aliases == PatternAliases(path)
    IN /\ \A i \in DOMAIN path.nodes : BuildNodeInfo(path.nodes[i])
       /\ \A i \in DOMAIN path.edges : BuildEdgeInfo(path.edges[i])
       /\ Cardinality(Elems(aliases)) = Len(aliases)

(***************************************************************************)
(* MatchValidator: expressions and clauses.  used is the set of aliases a  *)
(* clause may name.                                                        *)
(***************************************************************************)
AliasNamed(e) == IF e.k = "Label" THEN e.op ELSE e.s
ValidateAliases(es, used) ==
    \A e \in es : \A d \in CollectAll(e, {"Label", "LabelAttribute"}) : AliasNamed(d) \in used
ValidateFilter(where, used, ctx) ==
    \A i \in DOMAIN where :
        LET e == FoldConstantExpr(where[i])
        IN TypeIn(e, ctx) \in {"BOOL", "NULL", "EMPTY"} /\ ValidateAliases({e}, used)
ValidatePagination(ret) ==
    \A e \in {ret.skip} \cup Elems(ret.limit) :
        IsEvaluable(e) /\ Eval(e, NoRow).t = "INT" /\ Eval(e, NoRow).n >= 0
\* Only the names of columns can be ordered by.
ValidateOrder(ret, cols) ==
    ret.order # <<>> =>
        /\ NoDuplicates(cols)
        /\ \A i \in DOMAIN ret.order :
              ret.order[i].e.k = "Label" /\ ret.order[i].e.op \in Elems(Names(cols))
\* A clause, the aliases after it, and the columns it hands on by name.
ValidateClause(c, used, ctx) ==
    CASE c.k = "Match" ->
            /\ ~c.optional /\ ValidatePath(c.path)
            /\ ValidateFilter(c.where, Elems(PatternAliases(c.path)), ctx)
            /\ Elems(PatternAliases(c.path)) \cap used = {}
      [] c.k = "Unwind" -> c.alias # "" /\ ValidateAliases({c.e}, used) /\ c.alias \notin used
      [] OTHER ->
            /\ NoDuplicates(c.ret.cols) /\ ValidateAliases(Elems(ColExprs(c.ret.cols)), used)
            /\ ValidatePagination(c.ret) /\ ValidateOrder(c.ret, c.ret.cols)
            /\ ValidateFilter(c.where, Elems(Names(c.ret.cols)), ctx)
AliasesAfter(c, used) ==
    CASE c.k = "Match" -> Elems(PatternAliases(c.path)) \cup used
      [] c.k = "Unwind" -> {c.alias} \cup used
      [] OTHER -> Elems(Names(c.ret.cols))
ColumnsAfter(c, cols) ==
    CASE c.k = "Match" -> cols
      [] c.k = "Unwind" -> <<c.alias>> \o cols
      [] OTHER -> Names(c.ret.cols)
RECURSIVE ValidateClauses(_, _, _), AliasesOf(_, _)
ValidateClauses(clauses, used, ctx) ==
    clauses = <<>> \/ (ValidateClause(Head(clauses), used, ctx)
                       /\ ValidateClauses(Tail(clauses), AliasesAfter(Head(clauses), used), ctx))
AliasesOf(clauses, used) ==
    IF clauses = <<>> THEN used ELSE AliasesOf(Tail(clauses), AliasesAfter(Head(clauses), used))

(***************************************************************************)
(* RETURN.  * is the nodes and edges in the order of the pattern and then  *)
(* the path; after UNWIND it is one of the aliases, after WITH all of them *)
(* in the order of a hash table.                                           *)
(***************************************************************************)
AllOf(path) ==
    LET n == Len(path.edges)
        mixed == [j \in 1..(2 * n + 1) |-> IF j % 2 = 1 THEN path.nodes[(j + 1) \div 2].alias
                                           ELSE path.edges[j \div 2].alias]
    IN Given(Append(mixed, path.alias))
AllColumns(clauses) ==
    LET c == Last(clauses)
        used == AliasesOf(clauses, {})
        names == CASE c.k = "Match" -> AllOf(c.path)
                   [] c.k = "Unwind" -> <<CHOOSE a \in used : TRUE>>
                   [] OTHER -> SetToSeq(used)
    IN [i \in DOMAIN names |-> Col(Prop("Label", "", names[i]), names[i])]
ReturnColumns(m) == IF m.ret.all THEN AllColumns(m.clauses) ELSE m.ret.cols
HasAggIn(cols) == \E i \in DOMAIN cols : HasAny(cols[i].e, {"Aggregate"})
\* validateGroup: the columns that are neither aggregates nor constants are
\* the keys.
ValidateMatchGroup(cols) ==
    \A i \in DOMAIN cols :
        LET item == RewriteInnerAgg(cols[i]).item
        IN Cardinality(InnerAggs(cols[i].e)) <= 1 /\ (item.k = "Aggregate" => CheckAggExpr(item))
MatchGroupKeys(cols) == SelectSeq(PlainCols(cols), LAMBDA e : ~IsEvaluable(e))
ValidateReturn(m, ctx) ==
    LET cols == ReturnColumns(m)
    IN /\ cols # <<>>
       /\ ValidateAliases(Elems(ColExprs(cols)), AliasesOf(m.clauses, {}))
       /\ HasAggIn(cols) => ValidateMatchGroup(cols)
       /\ ValidatePagination(m.ret)
       /\ ValidateOrder(m.ret, cols)
       /\ \A i \in DOMAIN cols : TypeIn(RewriteInnerAgg(cols[i]).item, ctx) # "ERROR"
MatchOutputs(m, ctx) ==
    LET cols == ReturnColumns(m)
    IN [i \in DOMAIN cols |-> [n |-> cols[i].n, t |-> TypeIn(RewriteInnerAgg(cols[i]).item, ctx)]]

(***************************************************************************)
(* A subplan is the sequence of its nodes, its root the last one.  at is   *)
(* the name of a part of the plan, from which the names of its nodes are   *)
(* made.                                                                   *)
(***************************************************************************)
At(at, label) == <<at[1], at[2] \o label>>
Call(f, e) == Mk("Function", f, <<e>>)
Attribute(e, name) == Mk("Attribute", "", <<e, Const(NameV(name))>>)
PathStr == "_path"
PathCol(i) == PathStr \o "_" \o ToString(i)

(***************************************************************************)
(* MatchSolver.                                                            *)
(***************************************************************************)
GetEndVidInPath(col) == Attribute(Call("endNode", InputProp(col)), "_vid")
GetStartVidInPath(col) == Attribute(Call("startNode", InputProp(col)), "_vid")
\* The vertices to go on from: those the finder gave, or the ends of the paths
\* in the last column of the input.
ExtractAndDedupVidColumn(dep, at, initial, input) ==
    LET vid == IF initial THEN VarCol("_vid") ELSE GetEndVidInPath(Last(input.cols))
        project == SetColNames(SetInputVar(Project(At(at, "Vid"), dep, <<Col(vid, "_vid")>>),
                                           input.out), <<"_vid">>)
    IN <<project, SetColNames(Dedup(At(at, "Dedup"), project), <<"_vid">>)>>
FiltPathHasSameEdge(at, input, col) ==
    SetColNames(Filter(At(at, "Same"), input,
                       Mk("Relational", "==", <<Call("hasSameEdgeInPath", InputProp(col)),
                                                Const(False)>>)), input.cols)
\* A filter on the vertex or the edge of each row.
FilterRows(sp, at, filter, to) ==
    IF filter = <<>> THEN sp
    ELSE Append(sp, SetColNames(Filter(At(at, to), Last(sp), RewriteMatchLabel(filter[1], to)),
                                Last(sp).cols))
PathRows(sp, at, parts) ==
    Append(sp, SetColNames(Project(At(at, "Path"), Last(sp),
                                   <<Col(Mk("PathBuild", "", parts), PathStr)>>), <<PathStr>>))
AppendFetchVertexPlan(dep, at, filter, initial, input) ==
    LET vids == ExtractAndDedupVidColumn(dep, at, initial, input)
        get == GetVertices(At(at, "Get"), Last(vids), InputProp("_vid"), SetToSeq(AllVertexProps),
                           FALSE)
    IN PathRows(FilterRows(Append(vids, get), at, filter, "Vertex"), at, <<Mk("Vertex", "", <<>>)>>)
\* The comparisons of a node's properties with constants that a conjunction is
\* made of, as a filter on the tag.
IndexOps == {"==", "<", "<=", ">", ">="}
IndexFilterOfWhere(label, alias, where) ==
    LET ands == CASE where = <<>> -> <<>>
                  [] where # <<>> /\ where[1].k = "And" -> PullAnds(where[1]).a
                  [] OTHER -> where
        side(e, i) == e.a[i].k = "LabelAttribute" /\ e.a[i].s = alias /\ IsConst(e.a[3 - i])
        tagged(d) == IF d.k = "LabelAttribute" THEN Prop("TagProp", label, d.op) ELSE d
        rels == SelectSeq(ands, LAMBDA e : /\ e.k = "Relational" /\ e.op \in IndexOps
                                           /\ side(e, 1) \/ side(e, 2))
    IN IF rels = <<>> THEN <<>>
       ELSE <<AndConnect([i \in DOMAIN rels |->
                [rels[i] EXCEPT !.a = <<tagged(@[1]), tagged(@[2])>>]])>>
IndexFilterOfProps(label, props) ==
    IF props = <<>> THEN <<>>
    ELSE <<AndConnect([i \in DOMAIN props |->
            Mk("Relational", "==", <<Prop("TagProp", label, props[i][1]), props[i][2]>>)])>>

(***************************************************************************)
(* The finders of start vertices: by id, by an indexed property, by label. *)
(* c is the clause with the name of its part of the plan.                  *)
(***************************************************************************)
\* id(alias) == constant or id(alias) IN constant.
ExtractVids(alias, where) ==
    LET e == where[1]
    IN IF /\ where # <<>> /\ e.k = "Relational" /\ e.op \in {"IN", "=="}
          /\ e.a[1].k = "Function" /\ e.a[1].op = "id" /\ IsConst(e.a[2])
          /\ e.a[1].a = <<Prop("Label", "", alias)>>
       THEN <<e.a[2].c>> ELSE <<>>
VidsVar(c) == At(c.at, "Vids")
VertexIdSeekNode(c) ==
    SetColNames(SetOutputVar(PassThroughNode(At(c.at, "Seek"), NullNode), VidsVar(c)), <<"_vid">>)
ListToAnnoVarVid(c, v) ==
    LET vids == IF v.t = "LIST" THEN v.l ELSE <<v>>
    IN VidsVar(c) :> SeqRes({<<VidsVar(c), 1>>}, <<"_vid">>, [i \in DOMAIN vids |-> <<vids[i]>>])
PropIndexFilter(node, where) ==
    LET label == node.labels[1].label
        ofWhere == IndexFilterOfWhere(label, node.alias, where)
    IN CASE Len(node.labels) # 1 -> <<>>
         [] Len(node.labels) = 1 /\ ofWhere # <<>> -> ofWhere
         [] Len(node.labels) = 1 /\ ofWhere = <<>> /\ node.props # <<>> ->
                IndexFilterOfProps(label, node.props)
         [] OTHER -> IndexFilterOfProps(label, node.labels[1].props)
SeekScan(c, label, context) ==
    SetColNames(IndexScan(At(c.at, "Seek"), NullNode, <<context>>, <<"_vid">>, label, FALSE),
                <<"_vid">>)
PropIndexSeekNode(c, node, where) ==
    SeekScan(c, node.labels[1].label,
             [index |-> <<>>, hints |-> <<>>, filter |-> PropIndexFilter(node, where)])
PickTagIndex(node) == IF Len(node.labels) = 1 THEN FindLightestIndex(node.labels[1].label) ELSE <<>>
LabelIndexSeekNode(c, node) ==
    SeekScan(c, node.labels[1].label,
             [index |-> PickTagIndex(node)[1].fields, hints |-> <<>>, filter |-> <<>>])
\* The first finder that fits a node, and the first node it fits.
FindStarts(c) ==
    LET nodes == c.nodes
        byId == {i \in DOMAIN nodes : ExtractVids(nodes[i].alias, c.where) # <<>>}
        byProp == {i \in DOMAIN nodes : PropIndexFilter(nodes[i], c.where) # <<>>}
        byLabel == {i \in DOMAIN nodes : PickTagIndex(nodes[i]) # <<>>}
        first(S) == CHOOSE i \in S : \A j \in S : i <= j
        found(i, node, init) == <<[start |-> i - 1, node |-> node, init |-> init]>>
    IN CASE byId # {} ->
                LET i == first(byId)
                IN found(i, VertexIdSeekNode(c),
                         ListToAnnoVarVid(c, ExtractVids(nodes[i].alias, c.where)[1]))
         [] byId = {} /\ byProp # {} ->
                LET i == first(byProp) IN found(i, PropIndexSeekNode(c, nodes[i], c.where), <<>>)
         [] byId = {} /\ byProp = {} /\ byLabel # {} ->
                LET i == first(byLabel) IN found(i, LabelIndexSeekNode(c, nodes[i]), <<>>)
         [] OTHER -> <<>>

(***************************************************************************)
(* Joins of paths: where one ends, or starts, the other starts.            *)
(***************************************************************************)
InnerJoin(at, left, right, leftPos, cols) ==
    LET key == IF leftPos = "start" THEN GetStartVidInPath(left.cols[1])
               ELSE GetEndVidInPath(Last(left.cols))
    IN SetColNames(DataJoin(At(at, "Join"), right, left.out, LatestVersion, right.out,
                            LatestVersion, key, GetStartVidInPath(right.cols[1])), cols)

(***************************************************************************)
(* Expand: the paths along one edge of the pattern.                        *)
(***************************************************************************)
MinHop(edge) == IF edge.range = <<>> THEN 1 ELSE edge.range[1]
MaxHop(edge) == IF edge.range = <<>> THEN 1 ELSE edge.range[2]
TypesOf(edge) == IF edge.types = {} THEN Edges ELSE edge.types
EdgeDirection(dir, reversely) ==
    CASE dir = "out" /\ reversely -> "in"
      [] dir = "in" /\ reversely -> "out"
      [] OTHER -> dir
ExpandOneStep(dep, at, edge, filter, initial, input, reversely) ==
    LET vids == ExtractAndDedupVidColumn(dep, at, initial, input)
        gn == GetNeighbors(At(at, "Gn"), Last(vids), InputProp("_vid"), TypesOf(edge),
                           EdgeDirection(edge.dir, reversely), AllVertexProps,
                           SubgraphEdgeProps(TypesOf(edge)))
        kept == FilterRows(FilterRows(Append(vids, gn), at, filter, "Vertex"), at,
                           EdgeFilter(edge), "Edge")
    IN PathRows(kept, at, <<Mk("Vertex", "", <<>>), Mk("Edge", "", <<>>)>>)
\* The body of the loop ends by writing the variable of the first step again.
CollectData(at, left, right, first) ==
    LET join == InnerJoin(at, left, right, "end", <<PathCol(0), PathCol(1)>>)
        path == Mk("PathBuild", "", <<InputProp(PathCol(0)), InputProp(PathCol(1))>>)
        project == SetColNames(Project(At(at, "Merge"), join, <<Col(path, PathStr)>>), <<PathStr>>)
    IN <<join, project, SetOutputVar(FiltPathHasSameEdge(at, project, PathStr), first.out)>>
\* Every round of the loop makes the paths one edge longer: all its versions
\* together are the paths of all lengths.
ExpandSteps(dep, at, node, edge, initial, input, reversely) ==
    LET startIndex == IF MinHop(edge) = 0 THEN 0 ELSE 1
        first == IF MinHop(edge) = 0
                 THEN AppendFetchVertexPlan(dep, at, NodeFilter(node), initial, input)
                 ELSE ExpandOneStep(dep, at, edge, NodeFilter(node), initial, input, reversely)
        root == Last(first)
        start == SetColNames(SetOutputVar(StartNode(At(at, "Start")), root.out), root.cols)
        step == ExpandOneStep(start, At(at, "Body"), edge, <<>>, FALSE, start, reversely)
        body == <<start>> \o step \o CollectData(At(at, "Body"), start, Last(step), root)
        loop == Loop(At(at, "Loop"), root, Last(body), MaxHop(edge) - startIndex)
        union == SetColNames(SetInputVar(UnionAllVersionVar(At(at, "Union"), loop), root.out),
                             <<PathStr>>)
    IN IF MaxHop(edge) = startIndex THEN first ELSE first \o body \o <<loop, union>>
DoExpand(dep, at, node, edge, initial, input, reversely) ==
    LET paths == ExpandSteps(dep, at, node, edge, initial, input, reversely)
        long == Mk("Relational", ">=", <<Call("length", InputProp(PathStr)),
                                         Const(IntV(MinHop(edge)))>>)
    IN Append(paths, SetColNames(Filter(At(at, "Hops"), Last(paths), long), Last(paths).cols))

(***************************************************************************)
(* MatchClausePlanner: the pattern is expanded to the right of the start   *)
(* and then to its left, a column for every edge and one for the last node *)
(* on each side.                                                           *)
(***************************************************************************)
\* The properties of the node at the far end, joined to the paths that reach it.
FetchEnd(c, sp, at, node, cols) ==
    LET end == AppendFetchVertexPlan(Last(sp), at, NodeFilter(node), c.edges = <<>>, Last(sp))
    IN sp \o end \o (IF c.edges = <<>> THEN <<>>
                     ELSE <<InnerJoin(at, Last(sp), Last(end), "end", cols)>>)
RECURSIVE RightSteps(_, _, _, _), LeftSteps(_, _, _, _, _)
RightSteps(c, sp, i, cols) ==
    LET at == At(c.at, "R" \o ToString(i))
        longer == sp \o DoExpand(Last(sp), at, c.nodes[i + 1], c.edges[i + 1], i = c.start,
                                 Last(sp), FALSE)
        more == Append(cols, PathCol(i))
        join == InnerJoin(at, Last(sp), Last(longer), "end", more)
    IN CASE i >= Len(c.edges) -> [sp |-> sp, cols |-> cols]
         [] i < Len(c.edges) /\ i = c.start -> RightSteps(c, longer, i + 1, cols)
         [] OTHER -> RightSteps(c, Append(longer, join), i + 1, more)
RightExpandFromNode(c, sp) ==
    LET r == RightSteps(c, sp, c.start, <<PathCol(c.start)>>)
    IN FetchEnd(c, r.sp, At(c.at, "Rend"), Last(c.nodes), Append(r.cols, PathCol(Len(c.edges))))
LeftSteps(c, sp, i, input, cols) ==
    LET at == At(c.at, "L" \o ToString(i))
        longer == sp \o DoExpand(Last(sp), at, c.nodes[i + 1], c.edges[i], i = c.start, input,
                                 TRUE)
        more == Append(cols, PathCol(Len(c.nodes) + i))
        join == InnerJoin(at, Last(sp), Last(longer), "end", more)
    IN CASE i = 0 -> [sp |-> sp, cols |-> cols]
         [] i > 0 /\ i = c.start -> LeftSteps(c, longer, i - 1, Last(longer), cols)
         [] OTHER -> LeftSteps(c, Append(longer, join), i - 1, join, more)
LeftExpandFromNode(c, sp, input) ==
    LET l == LeftSteps(c, sp, c.start, input, <<PathCol(Len(c.nodes))>>)
    IN FetchEnd(c, l.sp, At(c.at, "Lend"), c.nodes[1],
                Append(l.cols, PathCol(Len(c.nodes) + c.start)))
ExpandFromNode(c, seek) ==
    LET right == RightExpandFromNode(c, <<seek>>)
        left == LeftExpandFromNode(c, right, seek)
    IN CASE c.start = 0 -> right
         [] c.start > 0 /\ c.start = Len(c.nodes) - 1 -> left
         [] OTHER -> Append(left, InnerJoin(At(c.at, "Both"), Last(right), Last(left), "start",
                                            Last(right).cols \o Last(left).cols))

(***************************************************************************)
(* The columns of the clause: its nodes, its edges and its path, each read *)
(* from the column of a path that starts with it.                          *)
(***************************************************************************)
ColumnAt(c, cols, i, mid) ==
    CASE i >= c.start -> cols[i - c.start + 1]
      [] i < c.start /\ c.start = Len(c.nodes) - 1 -> cols[c.start - i - mid + 1]
      [] OTHER -> cols[Len(c.nodes) - i - mid + 1]
BuildVertexColumn(c, cols, i) ==
    Col(Call("startNode", InputProp(ColumnAt(c, cols, i, 0))), c.nodes[i + 1].alias)
BuildEdgeColumn(c, cols, i) ==
    LET edges == Call("relationships", InputProp(ColumnAt(c, cols, i, 1)))
    IN Col(IF c.edges[i + 1].range # <<>> THEN edges
           ELSE Mk("Subscript", "", <<edges, Const(IntV(0))>>), c.edges[i + 1].alias)
BuildPathColumn(c, cols, alias) ==
    LET size == Len(cols)
        bound == CASE size > Len(c.nodes) -> size - c.start - 1
                   [] size <= Len(c.nodes) /\ c.start = Len(c.nodes) - 1 -> 0
                   [] OTHER -> size - c.start
        merged(s) == Mk("PathBuild", "", [i \in DOMAIN s |-> InputProp(s[i])])
        right == SubSeq(cols, 1, bound)
        left == SubSeq(cols, bound + 1, size)
        back == Call("reversePath", merged(left))
    IN Col(CASE right = <<>> -> back
             [] left = <<>> -> Mk("PathBuild", "", <<merged(right)>>)
             [] OTHER -> Mk("PathBuild", "", <<back, merged(right)>>), alias)
ProjectColumnsBySymbols(c, sp) ==
    LET cols == Last(sp).cols
        n == Len(c.edges)
        mixed == [j \in 1..(2 * n + 1) |-> IF j % 2 = 1 THEN BuildVertexColumn(c, cols, (j - 1) \div 2)
                                           ELSE BuildEdgeColumn(c, cols, j \div 2 - 1)]
        alias == IF c.alias = "" THEN "__path" ELSE c.alias
        columns == Append(SelectSeq(mixed, LAMBDA x : x.n # ""), BuildPathColumn(c, cols, alias))
        project == SetColNames(Project(At(c.at, "Cols"), Last(sp), columns), Names(columns))
    IN sp \o <<project, FiltPathHasSameEdge(At(c.at, "Cols"), project, alias)>>
\* addInput.
AddInput(n, input) == SetColNames(SetInputVar(DependsOn(n, input.id), input.out), input.cols)
BuildWhere(sp, at, where) ==
    IF where = <<>> THEN sp
    ELSE Append(sp, AddInput(Filter(At(at, "Where"), NullNode,
                                    RewriteMatchLabel(FoldConstantExpr(where[1]), "column")),
                             Last(sp)))
\* A clause planned, from its tail to its root, and the variables set.
Planned(sp, init) == <<[sp |-> sp, init |-> init]>>
MatchClausePlan(clause, at) ==
    LET where == [i \in DOMAIN clause.where |-> FoldConstantExpr(clause.where[i])]
        c == [at |-> at, nodes |-> clause.path.nodes, edges |-> clause.path.edges,
              alias |-> clause.path.alias, where |-> where, start |-> 0]
        found == FindStarts(c)
        from == [c EXCEPT !.start = found[1].start]
        rows == ProjectColumnsBySymbols(from, ExpandFromNode(from, found[1].node))
    IN IF found = <<>> THEN <<>>
       ELSE Planned(BuildWhere(rows, at, clause.where), found[1].init)

(***************************************************************************)
(* UNWIND, WITH and RETURN.                                                *)
(***************************************************************************)
RewriteColumn(e) == IF IsLabel(e) THEN MatchRewriter(e, "column") ELSE RewriteMatchLabel(e, "column")
RewriteColumns(cols) == [i \in DOMAIN cols |-> Col(RewriteColumn(cols[i].e), cols[i].n)]
BuildUnwind(c, at, before) ==
    LET columns == <<Col(RewriteColumn(c.e), c.alias)>>
                   \o [i \in DOMAIN before |-> Col(VarCol(before[i]), before[i])]
    IN Planned(<<SetColNames(Unwind(At(at, "Unwind"), NullNode, columns), Names(columns))>>, <<>>)
BuildSort(sp, at, ret) ==
    LET factors == [i \in DOMAIN ret.order |->
                      [i |-> ColIndex(Last(sp).cols, ret.order[i].e.op), desc |-> ret.order[i].desc]]
    IN IF ret.order = <<>> THEN sp
       ELSE Append(sp, AddInput(Sort(At(at, "Sort"), NullNode, factors), Last(sp)))
\* Without LIMIT the count is the largest integer: more than any rows.
NoLimit == 1000
BuildLimit(sp, at, ret) ==
    LET skip == Eval(ret.skip, NoRow).n
        limit == IF ret.limit = <<>> THEN NoLimit ELSE Eval(ret.limit[1], NoRow).n
    IN IF skip = 0 /\ ret.limit = <<>> THEN sp
       ELSE Append(sp, AddInput(Limit(At(at, "Limit"), NullNode, skip, limit), Last(sp)))
BuildDistinct(sp, at, distinct) ==
    IF ~distinct THEN sp
    ELSE Append(sp, SetColNames(Dedup(At(at, "Distinct"), Last(sp)), Last(sp).cols))
BuildWith(c, at) ==
    LET columns == RewriteColumns(c.ret.cols)
        project == SetColNames(Project(At(at, "With"), NullNode, columns), Names(columns))
        rows == BuildDistinct(<<project>>, at, c.ret.distinct)
    IN Planned(BuildWhere(BuildLimit(BuildSort(rows, at, c.ret), at, c.ret), at, c.where), <<>>)
BuildYield(cols, at) ==
    LET items == GroupItems(cols)
        project == SetColNames(Project(At(at, "Yield"), NullNode, RewriteColumns(cols)), Names(cols))
        keys == MatchGroupKeys(cols)
        agg == SetColNames(Aggregate(At(at, "Agg"), NullNode,
                                     [i \in DOMAIN keys |-> RewriteColumn(keys[i])],
                                     [i \in DOMAIN items |-> RewriteColumn(items[i].item)]),
                           Names(items))
        more == SetColNames(Project(At(at, "AggCols"), agg,
                                    RewriteColumns([i \in DOMAIN items |-> items[i].col])),
                            Names(cols))
    IN CASE ~HasAggIn(cols) -> <<project>>
         [] \E i \in DOMAIN cols : IsInner(cols[i].e) -> <<agg, more>>
         [] OTHER -> <<agg>>
BuildReturn(m, at) ==
    LET rows == BuildDistinct(BuildYield(ReturnColumns(m), at), at, m.ret.distinct)
    IN Planned(BuildLimit(BuildSort(rows, at, m.ret), at, m.ret), <<>>)

(***************************************************************************)
(* The plan of the sentence: each clause reads the rows of the one before. *)
(***************************************************************************)
ConnectSegments(l, r) ==
    LET tail == SetInputVar(DependsOn(Head(r.sp), Last(l.sp).id), Last(l.sp).out)
    IN [sp |-> l.sp \o <<tail>> \o Tail(r.sp), init |-> l.init @@ r.init]
ClausePlan(c, at, before) ==
    CASE c.k = "Match" -> MatchClausePlan(c, at)
      [] c.k = "Unwind" -> BuildUnwind(c, at, before)
      [] OTHER -> BuildWith(c, at)
RECURSIVE PlanFrom(_, _, _, _)
\* The clauses from number i on, before being the columns handed on by name.
PlanFrom(m, p, i, before) ==
    LET at == <<p, "c" \o ToString(i)>>
        first == ClausePlan(m.clauses[i], at, before)
        rest == PlanFrom(m, p, i + 1, ColumnsAfter(m.clauses[i], before))
    IN IF i > Len(m.clauses) THEN BuildReturn(m, at)
       ELSE IF first = <<>> \/ rest = <<>> THEN <<>>
       ELSE <<ConnectSegments(first[1], rest[1])>>
MatchValidate(m, ctx) == ValidateClauses(m.clauses, {}, ctx) /\ ValidateReturn(m, ctx)
MatchToPlan(m, ctx) ==
    LET plan == PlanFrom(m, ctx.p, 1, <<>>)
        sp == plan[1].sp
    IN IF plan = <<>> THEN Reject
       ELSE Accept(Elems(sp), Last(sp), Head(sp), MatchOutputs(m, ctx), plan[1].init)
=============================================================================
