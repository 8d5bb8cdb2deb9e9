----------------------------- MODULE Statements -----------------------------
(***************************************************************************)
(* The statements of a query as the parser hands them over (parser/        *)
(* TraverseSentences.h, Clauses.h), the validator of each                  *)
(* (validator/Validator, PipeValidator, SetValidator, AssignmentValidator, *)
(* SequentialValidator) and the planner that chains the plans of a         *)
(* sequence (planner/SequentialPlanner).                                   *)
(***************************************************************************)
EXTENDS MatchPlan, Optimizer

CONSTANT MaxAllowedStatements   \* max_allowed_statements

(***************************************************************************)
(* Sentences and clauses.                                                  *)
(***************************************************************************)
Steps(n) == [mToN |-> FALSE, m |-> 0, n |-> n]
MToNSteps(m, n) == [mToN |-> TRUE, m |-> m, n |-> n]
VertexIDList(vids) == [t |-> "const", vids |-> vids, src |-> Const(Null)]
VertexRef(e) == [t |-> IF e.k = "InputProp" THEN "pipe" ELSE "var", vids |-> <<>>, src |-> e]
YieldColumns(cols) == [i \in DOMAIN cols |-> Col(cols[i][1], cols[i][2])]
GoSentence(step, from, over, dir, where, cols, distinct) ==
    [k |-> "Go", step |-> step, from |-> from, over |-> over, dir |-> dir, where |-> where,
     cols |-> YieldColumns(cols), distinct |-> distinct]
GetSubgraphSentence(n, from, over, dir) ==
    [k |-> "Subgraph", n |-> n, from |-> from, over |-> over, dir |-> dir]
FetchVerticesSentence(from, tag, yield, cols, distinct) ==
    [k |-> "FetchVertices", from |-> from, tag |-> tag, yield |-> yield,
     cols |-> YieldColumns(cols), distinct |-> distinct]
EdgeKeys(rows) == [t |-> "const", rows |-> rows, key |-> <<>>]
EdgeKeyRef(src, rank, dst) == [t |-> "ref", rows |-> <<>>, key |-> <<src, rank, dst>>]
FetchEdgesSentence(keys, edge, yield, cols, distinct) ==
    [k |-> "FetchEdges", keys |-> keys, edge |-> edge, yield |-> yield,
     cols |-> YieldColumns(cols), distinct |-> distinct]
LookupSentence(schema, where, yield, cols, distinct) ==
    [k |-> "Lookup", schema |-> schema, where |-> where, yield |-> yield,
     cols |-> YieldColumns(cols), distinct |-> distinct]
YieldSentence(cols, where, distinct) ==
    [k |-> "Yield", cols |-> YieldColumns(cols), where |-> where, distinct |-> distinct]
GroupBySentence(keys, cols) == [k |-> "GroupBy", keys |-> keys, cols |-> YieldColumns(cols)]
OrderFactor(e, desc) == [e |-> e, desc |-> desc]
OrderBySentence(factors) == [k |-> "OrderBy", factors |-> factors]
LimitSentence(offset, count) == [k |-> "Limit", offset |-> offset, count |-> count]
SetSentence(l, op, distinct, r) ==
    [k |-> "Set", op |-> op, distinct |-> distinct, l |-> l, r |-> r]
PipedSentence(l, r) == [k |-> "Pipe", l |-> l, r |-> r]
AssignmentSentence(var, s) == [k |-> "Assign", var |-> var, s |-> s]

(***************************************************************************)
(* checkDuplicateColName: the columns of the pipe, or else those of the    *)
(* variables the statement reads, have different names.                    *)
(***************************************************************************)
ExprsIn(s) ==
    CASE s.k \in {"Go", "Yield"} -> Elems(s.where) \cup Elems(ColExprs(s.cols))
      [] s.k = "GroupBy" -> Elems(s.keys) \cup Elems(ColExprs(s.cols))
      [] s.k \in {"FetchVertices", "FetchEdges", "Lookup"} -> Elems(ColExprs(s.cols))
      [] OTHER -> {}
VarsRead(s) ==
    {d.s : d \in {d \in UNION {Nodes(e) : e \in ExprsIn(s)} : d.k = "VarProp"}}
    \cup (IF s.k \in {"Go", "Subgraph", "FetchVertices"} /\ s.from.t = "var"
          THEN {s.from.src.s} ELSE {})
CheckDuplicateColName(s, ctx) ==
    IF ctx.in # <<>> THEN NoDuplicates(ctx.in)
    ELSE \A v \in VarsRead(s) \cap DOMAIN ctx.vars : NoDuplicates(ctx.vars[v])

(***************************************************************************)
(* The validation of one statement that is not made of others.             *)
(***************************************************************************)
ValidateImpl(s, ctx) ==
    CASE s.k = "Go" -> GoValidate(s, ctx)
      [] s.k = "Subgraph" -> SubgraphValidate(s, ctx)
      [] s.k = "FetchVertices" -> FetchVerticesValidate(s, ctx)
      [] s.k = "FetchEdges" -> FetchEdgesValidate(s, ctx)
      [] s.k = "Lookup" -> LookupValidate(s)
      [] s.k = "Match" -> MatchValidate(s, ctx)
      [] s.k = "Yield" -> YieldValidate(s, ctx)
      [] s.k = "GroupBy" -> GroupByValidate(s, ctx)
      [] s.k = "OrderBy" -> OrderByValidate(s, ctx)
      [] OTHER -> LimitValidate(s)
ToPlan(s, ctx) ==
    CASE s.k = "Go" -> GoToPlan(s, ctx)
      [] s.k = "Subgraph" -> SubgraphToPlan(s, ctx)
      [] s.k = "FetchVertices" -> FetchVerticesToPlan(s, ctx)
      [] s.k = "FetchEdges" -> FetchEdgesToPlan(s, ctx, EdgeTypes)
      [] s.k = "Lookup" -> LookupToPlan(s, ctx)
      [] s.k = "Match" -> MatchToPlan(s, ctx)
      [] s.k = "Yield" -> YieldToPlan(s, ctx)
      [] s.k = "GroupBy" -> GroupByToPlan(s, ctx)
      [] s.k = "OrderBy" -> OrderByToPlan(s, ctx)
      [] OTHER -> LimitToPlan(s, ctx)

(***************************************************************************)
(* Validator::validate.  The two halves of a statement number p are        *)
(* numbered 2p and 2p + 1.  The left half of a pipe has its input, the     *)
(* right half the output of the left; those of a set operator have none.   *)
(***************************************************************************)
Half(ctx, h) == [ctx EXCEPT !.p = 2 * @ + h]
NoInput(ctx) == [ctx EXCEPT !.in = <<>>, !.inVar = Nil]
PipedFrom(ctx, l) == [ctx EXCEPT !.in = l.outs, !.inVar = RootOf(l).out]
RECURSIVE Validate(_, _)
Validate(s, ctx) ==
    CASE s.k = "Pipe" ->
            LET l == Validate(s.l, Half(ctx, 0))
                r == Validate(s.r, PipedFrom(Half(ctx, 1), l))
            IN IF ~l.ok \/ ~r.ok THEN Reject
               ELSE IF CanAppend(r.plan) THEN PipeToPlan(l, r) ELSE Reject
      [] s.k = "Set" ->
            LET l == Validate(s.l, NoInput(Half(ctx, 0)))
                r == Validate(s.r, NoInput(Half(ctx, 1)))
            IN IF ~l.ok \/ ~r.ok THEN Reject
               ELSE IF SetValidate(l, r) /\ CanAppend(l.plan) /\ CanAppend(r.plan)
                    THEN SetToPlan(s, ctx.p, l, r) ELSE Reject
      [] s.k = "Assign" ->
            LET r == Validate(s.s, NoInput(ctx))
            IN IF r.ok THEN AssignmentToPlan(s, ctx, r) ELSE Reject
      [] OTHER -> IF ValidateImpl(s, ctx) /\ CheckDuplicateColName(s, ctx)
                  THEN ToPlan(s, ctx) ELSE Reject

(***************************************************************************)
(* A sequence.                                                             *)
(***************************************************************************)
RECURSIVE GetFirstSentence(_), ValidateAll(_, _, _)
GetFirstSentence(s) == IF s.k = "Pipe" THEN GetFirstSentence(s.l) ELSE s
\* The results of the statements from number i on.
ValidateAll(query, i, vars) ==
    IF i > Len(query) THEN <<>>
    ELSE LET s == query[i]
             r == Validate(s, [p |-> 32 * i + 1, in |-> <<>>, inVar |-> Nil, vars |-> vars])
         IN IF ~r.ok THEN <<r>>
            ELSE <<r>> \o ValidateAll(query, i + 1,
                             IF s.k = "Assign" THEN RegisterVariable(vars, s.var, r.outs) ELSE vars)

\* The rows of these nodes are those their iterator has left, not those of
\* the Value that is sent to the client: they are collected into a new one.
\* Mutant: the rows of a Dedup are not collected.
CollectedKindsFew == {"Sort", "Limit", "Union", "UnionAllVersionVar", "Intersect",
                      "CartesianProduct", "Minus", "Filter"}
CollectedKinds == {"Sort", "Limit", "Dedup", "Union", "UnionAllVersionVar", "Intersect",
                   "CartesianProduct", "Minus", "Filter"}
IfBuildDataCollect(root) ==
    IF root.kind \in CollectedKinds
    THEN <<SetColNames(DataCollect(<<0, "dataCollect">>, root, "RowBasedMove", <<root.out>>,
                                   0, 0, FALSE), root.cols)>>
    ELSE <<>>
\* Mutant: the rows of every statement are collected, those of a variable too.
SequentialPlanCollected(rs) ==
    LET start == StartNode(<<0, "start">>)
        collect(i) == SetColNames(DataCollect(<<i, "dataCollect">>, RootOf(rs[i]), "RowBasedMove",
                                              <<RootOf(rs[i]).out>>, 0, 0, FALSE),
                                  RootOf(rs[i]).cols)
        below(i) == IF i = 1 THEN start.id ELSE collect(i - 1).id
        RECURSIVE chain(_)
        chain(i) == IF i = 0 THEN NodeMap({start})
                    ELSE NodeMap({collect(i)}) @@ AppendPlan(rs[i].plan, below(i)).nodes
                         @@ chain(i - 1)
        RECURSIVE inits(_)
        inits(i) == IF i = 0 THEN <<>> ELSE rs[i].init @@ inits(i - 1)
    IN Whole(chain(Len(rs)), collect(Len(rs)).id, start.id, Last(rs).outs, inits(Len(rs)))
SequentialPlan(rs) ==
    LET start == StartNode(<<0, "start">>)
        below(i) == IF i = 1 THEN start.id ELSE rs[i - 1].plan.root
        RECURSIVE chain(_)
        chain(i) == IF i = 0 THEN NodeMap({start})
                    ELSE AppendPlan(rs[i].plan, below(i)).nodes @@ chain(i - 1)
        RECURSIVE inits(_)
        inits(i) == IF i = 0 THEN <<>> ELSE rs[i].init @@ inits(i - 1)
        root == RootOf(Last(rs))
        collect == IfBuildDataCollect(root)
    IN Whole(NodeMap(Elems(collect)) @@ chain(Len(rs)),
             IF collect = <<>> THEN root.id ELSE collect[1].id, start.id,
             Last(rs).outs, inits(Len(rs)))
ValidateQuery(query) ==
    LET rs == ValidateAll(query, 1, <<>>)
    IN IF \/ Len(query) > MaxAllowedStatements
          \/ GetFirstSentence(query[1]).k \in {"Limit", "OrderBy", "GroupBy"}
          \/ Len(rs) < Len(query)
          \/ \E i \in DOMAIN rs : ~rs[i].ok \/ ~CanAppend(rs[i].plan)
       THEN Reject ELSE SequentialPlan(rs)
=============================================================================
