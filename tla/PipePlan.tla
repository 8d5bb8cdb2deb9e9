------------------------------ MODULE PipePlan ------------------------------
(***************************************************************************)
(* YIELD, GROUP BY, ORDER BY, LIMIT, the set operators, pipes and          *)
(* assignments: their validators and the plans they build.                 *)
(***************************************************************************)
EXTENDS FetchPlan

CONSTANT EdgeTypes      \* the type ids of the edges, Edges -> Nat

NoDuplicates(cols) == \A i, j \in DOMAIN cols : cols[i].n = cols[j].n => i = j
ColsOk(cols, ctx) == \A i \in DOMAIN cols : TypeIn(cols[i].e, ctx) # "ERROR"
                                            /\ DeduceProps(cols[i].e).ok
OutputsOf(cols, ctx) == [i \in DOMAIN cols |-> [n |-> cols[i].n, t |-> TypeIn(cols[i].e, ctx)]]
NamesOf(outs) == [i \in DOMAIN outs |-> outs[i].n]
ColExprs(cols) == [i \in DOMAIN cols |-> cols[i].e]

(***************************************************************************)
(* GROUP BY.  A column with an aggregate inside is computed in two steps:  *)
(* the aggregate, and a projection that reads it by its text.              *)
(***************************************************************************)
InnerAggs(e) == CollectAll(e, {"Aggregate"})
IsInner(e) == e.k # "Aggregate" /\ InnerAggs(e) # {}
AggText(e) == ToString(<<e.op, e.a[1].k, e.a[1].op>>)
RewriteInnerAgg(c) ==
    IF ~IsInner(c.e) THEN [item |-> c.e, n |-> c.n, col |-> Col(VarCol(c.n), c.n)]
    ELSE LET agg == CHOOSE d \in InnerAggs(c.e) : TRUE
         IN [item |-> agg, n |-> AggText(agg), col |-> Col(RewriteAgg(c.e, AggText(agg)), c.n)]
GroupItems(cols) == [i \in DOMAIN cols |-> RewriteInnerAgg(cols[i])]
GroupKinds == {"Arithmetic", "Cast", "Function", "InputProp", "VarProp", "Case"}
ValidateGroup(keys, ctx) ==
    \A i \in DOMAIN keys : /\ ~HasAny(keys[i], {"Aggregate"})
                           /\ HasAny(keys[i], {"InputProp", "VarProp"})
                           /\ keys[i].k \in GroupKinds
                           /\ TypeIn(keys[i], ctx) # "ERROR" /\ DeduceProps(keys[i]).ok
ValidateGroupYield(cols, ctx) ==
    /\ cols # <<>>
    /\ \A i \in DOMAIN cols :
          LET item == RewriteInnerAgg(cols[i]).item
          IN /\ Cardinality(InnerAggs(cols[i].e)) <= 1
             /\ item.k = "Aggregate" => CheckAggExpr(item)
             /\ TypeIn(item, ctx) # "ERROR" /\ DeduceProps(item).ok
PlainCols(cols) == SelectSeq([i \in DOMAIN cols |-> RewriteInnerAgg(cols[i]).item],
                             LAMBDA e : e.k # "Aggregate")
OneSource(props) == /\ ~HasSrcDstTagProperty(props)
                    /\ InputPropsOf(props) = {} \/ VarPropsOf(props) = {}
                    /\ Cardinality(VariablesOf(props)) <= 1
GroupClauseSemanticCheck(gb) ==
    LET plain == PlainCols(gb.cols)
    IN /\ OneSource(PropsOf(gb.keys \o ColExprs(gb.cols)))
       /\ gb.keys # <<>> =>
             \A i \in DOMAIN plain : IsEvaluable(plain[i]) \/ HasAnySub(plain[i], Elems(gb.keys), TRUE)
GroupByValidate(gb, ctx) ==
    ValidateGroup(gb.keys, ctx) /\ ValidateGroupYield(gb.cols, ctx) /\ GroupClauseSemanticCheck(gb)
GroupByOutputs(gb, ctx) ==
    LET items == GroupItems(gb.cols)
    IN [i \in DOMAIN items |-> [n |-> items[i].n, t |-> TypeIn(items[i].item, ctx)]]
\* The nodes, from the tail to the root.
GroupByNodes(gb, p) ==
    LET items == GroupItems(gb.cols)
        keys == IF gb.keys = <<>> THEN PlainCols(gb.cols) ELSE gb.keys
        agg == SetColNames(Aggregate(<<p, "agg">>, NullNode, keys,
                                     [i \in DOMAIN items |-> items[i].item]), Names(items))
        project == SetColNames(Project(<<p, "aggCols">>, agg, [i \in DOMAIN items |-> items[i].col]),
                               Names(gb.cols))
    IN IF \E i \in DOMAIN gb.cols : IsInner(gb.cols[i].e) THEN <<agg, project>> ELSE <<agg>>
GroupByToPlan(gb, ctx) ==
    LET nodes == GroupByNodes(gb, ctx.p)
    IN Accept(Elems(nodes), Last(nodes), nodes[1], GroupByOutputs(gb, ctx), <<>>)

(***************************************************************************)
(* YIELD: constants, or columns of the pipe or of a variable, perhaps      *)
(* aggregated; the filter comes first.                                     *)
(***************************************************************************)
HasAggCol(y) == \E i \in DOMAIN y.cols : HasAny(y.cols[i].e, {"Aggregate"})
AsGroupBy(y) == [k |-> "GroupBy", keys |-> <<>>, cols |-> y.cols]
RECURSIVE ExpandStars(_, _)
ExpandStars(cols, ctx) ==
    IF cols = <<>> THEN <<>>
    ELSE LET e == Head(cols).e
             all == IF e.k = "InputProp" THEN NamesOf(ctx.in) ELSE NamesOf(ctx.vars[e.s])
         IN (IF e.k \in {"InputProp", "VarProp"} /\ e.op = "*"
             THEN [i \in DOMAIN all |-> Col(Prop(e.k, e.s, all[i]), all[i])] ELSE <<Head(cols)>>)
            \o ExpandStars(Tail(cols), ctx)
\* makeOutputColumn folds the constants of a column.
MakeOutputColumns(y, ctx) ==
    LET cols == ExpandStars(y.cols, ctx)
    IN [i \in DOMAIN cols |-> Col(FoldConstantExpr(cols[i].e), cols[i].n)]
YieldProps(y, ctx) ==
    PropsOf(y.where) \cup (IF HasAggCol(y) THEN PropsOf(ColExprs(y.cols))
                           ELSE PropsOf(ColExprs(ExpandStars(y.cols, ctx))))
YieldValidate(y, ctx) ==
    /\ \A i \in DOMAIN y.where : DeduceProps(y.where[i]).ok
    /\ IF HasAggCol(y) THEN GroupByValidate(AsGroupBy(y), ctx)
       ELSE /\ \A i \in DOMAIN y.cols : ~HasAny(y.cols[i].e, {"Label"})
            /\ \A i \in DOMAIN y.cols :
                  y.cols[i].e.k = "VarProp" => y.cols[i].e.s \in DOMAIN ctx.vars
            /\ ColsOk(ExpandStars(y.cols, ctx), ctx)
    /\ EdgePropsOf(YieldProps(y, ctx)) = {}
    /\ OneSource(YieldProps(y, ctx))
\* The variable the plan reads when the pipe does not set it.
ConstantVar(p) == <<p, "constant">>
YieldsConstants(y, ctx) == /\ ~HasAggCol(y) /\ ~HasInputVarProperty(YieldProps(y, ctx))
                           /\ ctx.inVar = Nil
YieldInputVar(y, ctx) ==
    IF VariablesOf(YieldProps(y, ctx)) # {}
    THEN UserVar(CHOOSE v \in VariablesOf(YieldProps(y, ctx)) : TRUE)
    ELSE IF YieldsConstants(y, ctx) THEN ConstantVar(ctx.p) ELSE Nil
GenConstantExprValues(y, ctx) ==
    LET cols == MakeOutputColumns(y, ctx)
    IN ConstantVar(ctx.p) :> SeqRes({<<ConstantVar(ctx.p), 1>>}, Names(cols),
                                    <<[i \in DOMAIN cols |-> Eval(cols[i].e, NoRow)]>>)
YieldToPlan(y, ctx) ==
    LET var == YieldInputVar(y, ctx)
        bound(n) == IF var = Nil THEN n ELSE SetInputVar(n, var)
        cols == MakeOutputColumns(y, ctx)
        filter == [i \in DOMAIN y.where |->
                     bound(SetColNames(Filter(<<ctx.p, "where">>, NullNode,
                                              FoldConstantExpr(y.where[i])), NamesOf(ctx.in)))]
        first == IF HasAggCol(y) THEN GroupByNodes(AsGroupBy(y), ctx.p)
                 ELSE <<SetColNames(Project(<<ctx.p, "yield">>, NullNode, cols), Names(cols))>>
        below(n) == IF filter = <<>> THEN bound(n)
                    ELSE SetInputVar(DependsOn(n, filter[1].id), filter[1].out)
        nodes == [first EXCEPT ![1] = below(@)]
        dedup == SetColNames(Dedup(<<ctx.p, "distinct">>, Last(nodes)), Last(nodes).cols)
    IN Accept(Elems(filter) \cup Elems(nodes) \cup (IF y.distinct THEN {dedup} ELSE {}),
              IF y.distinct THEN dedup ELSE Last(nodes),
              IF filter = <<>> THEN nodes[1] ELSE filter[1],
              IF HasAggCol(y) THEN GroupByOutputs(AsGroupBy(y), ctx)
              ELSE OutputsOf(ExpandStars(y.cols, ctx), ctx),
              IF YieldsConstants(y, ctx) THEN GenConstantExprValues(y, ctx) ELSE <<>>)

(***************************************************************************)
(* ORDER BY and LIMIT: on the rows of the pipe, which become the output.   *)
(***************************************************************************)
OrderByValidate(o, ctx) ==
    \A i \in DOMAIN o.factors : o.factors[i].e.k \in {"Label", "InputProp"}
        /\ TypeIn(InputProp(o.factors[i].e.op), ctx) # "ERROR"
OrderByToPlan(o, ctx) ==
    LET factors == [i \in DOMAIN o.factors |->
                      [i |-> ColIndex(NamesOf(ctx.in), o.factors[i].e.op),
                       desc |-> o.factors[i].desc]]
        sort == SetColNames(Sort(<<ctx.p, "sort">>, NullNode, factors), NamesOf(ctx.in))
    IN Accept({sort}, sort, sort, ctx.in, <<>>)
LimitValidate(l) == l.offset >= 0 /\ l.count >= 0
LimitToPlan(l, ctx) ==
    LET limit == SetColNames(Limit(<<ctx.p, "limit">>, NullNode, l.offset, l.count),
                             NamesOf(ctx.in))
    IN Accept({limit}, limit, limit, ctx.in, <<>>)

(***************************************************************************)
(* The statements made of statements.                                      *)
(***************************************************************************)
RootOf(r) == r.plan.nodes[r.plan.root]
TailNodeOf(r) == r.plan.nodes[r.plan.tail]
Whole(nodes, root, tail, outs, init) ==
    [ok |-> TRUE, plan |-> [nodes |-> nodes, root |-> root, tail |-> tail],
     outs |-> outs, init |-> init]
\* The right side of a pipe reads the left one unless it has an input already.
PipeToPlan(l, r) ==
    LET plan == AppendPlan(r.plan, l.plan.root)
        nodes == IF plan.nodes[plan.tail].in # <<Nil>> THEN plan.nodes
                 ELSE [plan.nodes EXCEPT ![plan.tail] = SetInputVar(@, RootOf(l).out)]
    IN Whole(nodes @@ l.plan.nodes, r.plan.root, l.plan.tail, r.outs, l.init @@ r.init)
\* Mutant: the columns of the two sides are not compared.
SetValidateAny(l, r) == TRUE
SetValidate(l, r) == NamesOf(l.outs) = NamesOf(r.outs)
\* Mutant: the two sides share the plan node they start from.
SetToPlanShared(s, p, l, r) ==
    LET node == SetColNames(Minus(<<p, "set">>, RootOf(l), RootOf(r)), RootOf(l).cols)
        tail == [PassThroughNode(<<p, "both">>, NullNode) EXCEPT !.kind = "Start"]
        below(plan) == AppendPlan(plan, tail.id).nodes
    IN Whole(NodeMap({node, tail}) @@ below(l.plan) @@ below(r.plan), node.id, tail.id,
             l.outs, l.init @@ r.init)
\* Mutant: the two sides write the same variable.
SetToPlanOneVar(s, p, l, r) ==
    LET other == [r EXCEPT !.plan.nodes[r.plan.root] = SetOutputVar(@, RootOf(l).out)]
        node == SetColNames(Minus(<<p, "set">>, RootOf(l), RootOf(other)), RootOf(l).cols)
        tail == PassThroughNode(<<p, "both">>, NullNode)
        below(plan) == AppendPlan(plan, tail.id).nodes
    IN Whole(NodeMap({node, tail}) @@ below(l.plan) @@ below(other.plan), node.id, tail.id,
             l.outs, l.init @@ r.init)
SetToPlan(s, p, l, r) ==
    LET lr == RootOf(l)
        rr == RootOf(r)
        node == CASE s.op = "UNION" -> Union(<<p, "set">>, lr, rr)
                  [] s.op = "INTERSECT" -> Intersect(<<p, "set">>, lr, rr)
                  [] OTHER -> Minus(<<p, "set">>, lr, rr)
        both == SetColNames(node, lr.cols)
        dedup == SetColNames(Dedup(<<p, "setDedup">>, both), both.cols)
        root == IF s.op = "UNION" /\ s.distinct THEN dedup ELSE both
        tail == PassThroughNode(<<p, "both">>, NullNode)
        below(plan) == AppendPlan(plan, tail.id).nodes
    IN Whole(NodeMap({both, root, tail}) @@ below(l.plan) @@ below(r.plan), root.id, tail.id,
             l.outs, l.init @@ r.init)
\* A variable keeps the columns of its first assignment: the symbol table and
\* the validation context both leave an existing entry as it is.
RegisterVariable(vars, var, outs) == IF var \in DOMAIN vars THEN vars ELSE (var :> outs) @@ vars
AssignmentToPlan(s, ctx, r) ==
    LET cols == NamesOf(RegisterVariable(ctx.vars, s.var, r.outs)[s.var])
    IN [r EXCEPT !.plan.nodes[r.plan.root] =
                    SetColNames(SetOutputVar(@, UserVar(s.var)), cols)]
=============================================================================
