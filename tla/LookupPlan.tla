----------------------------- MODULE LookupPlan -----------------------------
(***************************************************************************)
(* LOOKUP (validator/LookupValidator) and the rule that turns its filter   *)
(* into index scans (optimizer/rule/IndexScanRule).  A statement is a      *)
(* record: schema (a tag or an edge type), where (at most one expression), *)
(* yield, cols and distinct as in FetchPlan.  Its columns are properties   *)
(* of type INT.                                                            *)
(***************************************************************************)
EXTENDS GoPlan, Bounds

CONSTANTS Indexes,      \* the indexes of the space, a sequence of [schema, fields]
          SearchTries,  \* ft_request_retry_times
          SearchAnswers \* the answers of the full text service on a field, try by try

(***************************************************************************)
(* LookupValidator.                                                        *)
(***************************************************************************)
IsEdgeSchema(lk) == lk.schema \in Edges
PropKind(lk) == IF IsEdgeSchema(lk) THEN "EdgeProp" ELSE "TagProp"
FieldKey(lk, prop) == <<PropKind(lk), lk.schema, prop>>
PrepareFrom(lk) == \E k \in DOMAIN Schema : k[1] \in {"TagProp", "EdgeProp"} /\ k[2] = lk.schema

\* What always comes back: the vertex, or the ends and the rank of the edge.
KeyCols(lk) == IF IsEdgeSchema(lk)
               THEN <<<<"_src", "SrcVID">>, <<"_dst", "DstVID">>, <<"_rank", "Ranking">>>>
               ELSE <<<<"_vid", "VertexID">>>>
PrepareYield(lk) ==
    \A i \in DOMAIN lk.cols : /\ lk.cols[i].e.k = "LabelAttribute"
                              /\ lk.cols[i].e.s = lk.schema
                              /\ FieldKey(lk, lk.cols[i].e.op) \in DOMAIN Schema

\* checkFilter: comparisons of a property with a constant, under AND and OR of
\* which the first two operands are looked at.
CheckConstExpr(e, lk, prop) ==
    /\ IsEvaluable(e)
    /\ FieldKey(lk, prop) \in DOMAIN Schema
    /\ Eval(e, NoRow).t = Schema[FieldKey(lk, prop)]
RewriteRelExpr(e, lk) ==
    LET side == IF e.a[1].k = "LabelAttribute" THEN 1 ELSE 2
    IN [e EXCEPT !.a[side] = CreateExpr(@, PropKind(lk)),
                 !.a[3 - side] = Const(Eval(@, NoRow))]
CheckRelExpr(e, lk) ==
    LET labels == {i \in {1, 2} : e.a[i].k = "LabelAttribute"}
    IN \E i \in {1, 2} : /\ labels = {i}
                         /\ e.a[i].s = lk.schema
                         /\ CheckConstExpr(e.a[3 - i], lk, e.a[i].op)
RECURSIVE CheckFilter(_, _), RewriteFilter(_, _)
CheckFilter(e, lk) ==
    CASE e.k \in {"And", "Or"} -> CheckFilter(e.a[1], lk) /\ CheckFilter(e.a[2], lk)
      [] e.k = "Relational" -> CheckRelExpr(e, lk)
      [] OTHER -> FALSE
RewriteFilter(e, lk) ==
    IF e.k = "Relational" THEN RewriteRelExpr(e, lk)
    ELSE [e EXCEPT !.a = [i \in DOMAIN @ |-> IF i <= 2 THEN RewriteFilter(@[i], lk) ELSE @[i]]]

\* A text search asks the full text service for the values that match, again
\* after a failure, and looks those up; no value, no rows.
NeedTextSearch(lk) == \E i \in DOMAIN lk.where : lk.where[i].k = "TextSearch"
RECURSIVE TextSearch(_, _)
TextSearch(tries, answers) ==
    IF tries - 1 <= 0 THEN [ok |-> FALSE, rows |-> <<>>]
    ELSE IF ~Head(answers).sent THEN TextSearch(tries - 1, Tail(answers))
    ELSE [ok |-> Head(answers).good, rows |-> Head(answers).rows]
RewriteTSFilter(e, lk, rows) ==
    LET rel(v) == Mk("Relational", "==", <<Prop(PropKind(lk), e.s, e.op), Const(v)>>)
        rels == [i \in DOMAIN rows |-> rel(rows[i])]
    IN IF Len(rels) = 1 THEN rels[1] ELSE PushOrs(rels)
Searched(lk) == TextSearch(SearchTries, SearchAnswers[lk.where[1].op])
IsEmptyResultSet(lk) == NeedTextSearch(lk) /\ Searched(lk).rows = <<>>
PrepareFilter(lk) ==
    \A i \in DOMAIN lk.where :
        IF NeedTextSearch(lk) THEN lk.where[i].s = lk.schema /\ Searched(lk).ok
        ELSE CheckFilter(lk.where[i], lk)
Contexts(lk) ==
    IF lk.where = <<>> \/ IsEmptyResultSet(lk) THEN <<>>
    ELSE <<[index |-> <<>>, hints |-> <<>>,
            filter |-> <<IF NeedTextSearch(lk)
                         THEN RewriteTSFilter(lk.where[1], lk, Searched(lk).rows)
                         ELSE RewriteFilter(lk.where[1], lk)>>]>>

LookupValidate(lk) == PrepareFrom(lk) /\ PrepareYield(lk) /\ PrepareFilter(lk)
LookupToPlan(lk, ctx) ==
    LET keys == KeyCols(lk)
        fields == [i \in DOMAIN lk.cols |-> lk.cols[i].e.op]
        scan == SetColNames(
            IndexScan(<<ctx.p, "scan">>, NullNode, Contexts(lk),
                      [i \in DOMAIN keys |-> keys[i][1]] \o fields, lk.schema, IsEmptyResultSet(lk)),
            [i \in DOMAIN keys |-> keys[i][2]]
            \o [i \in DOMAIN fields |-> PropCol(<<lk.schema, fields[i]>>)])
        columns == [i \in DOMAIN keys |-> Col(InputProp(keys[i][2]), keys[i][2])]
                   \o [i \in DOMAIN lk.cols |->
                         Col(CreateExpr(lk.cols[i].e, PropKind(lk)), lk.cols[i].n)]
        project == SetColNames(Project(<<ctx.p, "yield">>, scan, columns), Names(columns))
        dedup == SetColNames(Dedup(<<ctx.p, "distinct">>, project), project.cols)
        last == IF ~lk.yield THEN scan ELSE IF lk.distinct THEN dedup ELSE project
        outs == [i \in DOMAIN columns |-> [n |-> columns[i].n, t |-> "INT"]]
    IN Accept({scan, last} \cup (IF lk.yield THEN {project} ELSE {}), last, scan, outs, <<>>)

(***************************************************************************)
(* IndexScanRule: the items of a filter.  A conjunction is one scan, a     *)
(* disjunction one scan per item; != under a disjunction makes it one scan *)
(* from there on.                                                          *)
(***************************************************************************)
ReverseRelationalExprKind(op) ==
    CASE op = ">=" -> "<=" [] op = ">" -> "<" [] op = "<=" -> ">=" [] op = "<" -> ">"
      [] OTHER -> op
AddFilterItem(e) ==
    IF e.a[2].k = "Constant"
    THEN [col |-> e.a[1].op, op |-> e.op, v |-> e.a[2].c]
    ELSE [col |-> e.a[2].op, op |-> ReverseRelationalExprKind(e.op), v |-> e.a[1].c]
RECURSIVE AnalyzeExpression(_, _)
AnalyzeExpression(e, st) ==
    LET k == IF e.k = "And" THEN "single" ELSE "multiple"
        first == AnalyzeExpression(e.a[1], [st EXCEPT !.kind = k])
    IN CASE e.k \in {"And", "Or"} ->
                IF st.kind \notin {"unknown", k} THEN [st EXCEPT !.ok = FALSE]
                ELSE IF ~first.ok THEN first ELSE AnalyzeExpression(e.a[2], first)
         [] e.k = "Relational" ->
                [st EXCEPT !.items = Append(@, AddFilterItem(e)),
                           !.kind = IF @ = "multiple" /\ e.op = "!=" THEN "single" ELSE @]
         [] OTHER -> [st EXCEPT !.ok = FALSE]

(***************************************************************************)
(* The index that serves the items: it has all their columns and starts    *)
(* with one of them; most equalities first, then most ranges.  Indexes     *)
(* that are equal in both are left in an order that std::sort does not     *)
(* fix: tie tells whether the last or the first of them is taken.          *)
(***************************************************************************)
AllIndexesBySchema(schema) == SelectSeq(Indexes, LAMBDA x : x.schema = schema)
FindValidIndex(schema, items) ==
    LET cols == {items[i].col : i \in DOMAIN items}
    IN SelectSeq(AllIndexesBySchema(schema),
                 LAMBDA x : cols \subseteq Elems(x.fields) /\ x.fields[1] \in cols)
FirstItem(items, col) == CHOOSE i \in DOMAIN items :
                            items[i].col = col /\ \A j \in 1..(i - 1) : items[j].col # col
OpOf(items, col) == IF \E i \in DOMAIN items : items[i].col = col
                    THEN items[FirstItem(items, col)].op ELSE ""
\* The fields from the first on whose items are equalities.
EqualHints(x, items) ==
    LET ops == [i \in DOMAIN x.fields |-> OpOf(items, x.fields[i])]
    IN Cardinality({i \in DOMAIN ops : \A j \in 1..i : ops[j] = "=="})
RangeHints(x, items) ==
    LET ops == [i \in DOMAIN x.fields |-> OpOf(items, x.fields[i])]
        ranges == {"<", "<=", ">", ">="}
    IN Cardinality({i \in DOMAIN ops : ops[i] \in ranges
                                       /\ \A j \in 1..i : ops[j] \in ranges \cup {"=="}})
FindIndexForEqualScan(indexes, items) ==
    SelectSeq(indexes, LAMBDA x : \A y \in Elems(indexes) :
                                     EqualHints(y, items) <= EqualHints(x, items))
FindIndexForRangeScan(indexes, items) ==
    SelectSeq(indexes, LAMBDA x : \A y \in Elems(indexes) :
                                     RangeHints(y, items) <= RangeHints(x, items))
FindOptimalIndex(schema, items, tie) ==
    LET best == FindIndexForRangeScan(
                    FindIndexForEqualScan(FindValidIndex(schema, items), items), items)
    IN IF best = <<>> THEN <<>> ELSE <<IF tie = "last" THEN Last(best) ELSE best[1]>>
FindLightestIndex(schema) ==
    LET all == AllIndexesBySchema(schema)
        light == SelectSeq(all, LAMBDA x : \A y \in Elems(all) : Len(x.fields) <= Len(y.fields))
    IN IF all = <<>> THEN <<>> ELSE <<light[1]>>

(***************************************************************************)
(* The hints of a scan, field by field.                                    *)
(***************************************************************************)
\* One more item on the range of a column; <<>> is a bound not set.
\* Mutant: the end of a range, which is not part of it, is the last value itself.
IndexBoundShort(item, b) ==
    IF item.op \in {"<", "<="} THEN [b EXCEPT !.end = <<item.v.n>>]
    ELSE [b EXCEPT !.begin = IF item.op = ">=" THEN <<item.v.n>> ELSE <<item.v.n + 1>>]
IndexBound(item, b) ==
    LET v == <<item.v.n>>
        gt == BoundValue("INT", "GREATER_THAN", v)
        low(x) == IF b.begin = <<>> \/ ~Less(x, b.begin) THEN x ELSE b.begin
        high(x) == IF b.end = <<>> \/ Less(x, b.end) THEN x ELSE b.end
    IN CASE item.op = "<=" -> [b EXCEPT !.end = high(gt)]
         [] item.op = ">=" -> [b EXCEPT !.begin = low(v)]
         [] item.op = "<" -> [b EXCEPT !.end = high(v)]
         [] OTHER -> [b EXCEPT !.begin = low(gt)]
RECURSIVE IndexBounds(_, _)
IndexBounds(items, b) ==
    IF items = <<>> THEN b ELSE IndexBounds(Tail(items), IndexBound(Head(items), b))
\* An equality allows no other item on its column.
ColHintOk(items) == "==" \in {items[i].op : i \in DOMAIN items} => Len(items) = 1
AppendColHint(col, items) ==
    IF items[1].op = "=="
    THEN [col |-> col, scan |-> "PREFIX", begin |-> NormalizeValue("INT", <<items[1].v.n>>),
          end |-> <<>>]
    ELSE LET b == IndexBounds(items, [begin |-> <<>>, end |-> <<>>])
         IN [col |-> col, scan |-> "RANGE",
             begin |-> IF b.begin = <<>> THEN BoundValue("INT", "MIN", <<>>) ELSE b.begin,
             end |-> IF b.end = <<>> THEN BoundValue("INT", "MAX", <<>>) ELSE b.end]
HintCount(items) == Cardinality({items[i].col : i \in DOMAIN items})
\* The fields that get a hint: up to the first without items or with !=, and
\* no further than the first that is not an equality.
RECURSIVE AppendIQCtx(_, _, _, _)
AppendIQCtx(fields, items, filter, st) ==
    LET mine == SelectSeq(items, LAMBDA i : i.col = fields[1])
        end == [st EXCEPT !.filter = IF st.left > 0 THEN filter ELSE @]
        more == [st EXCEPT !.hints = Append(@, AppendColHint(fields[1], mine)), !.left = @ - 1]
    IN CASE fields = <<>> -> end
         [] fields # <<>> /\ mine = <<>> -> end
         [] fields # <<>> /\ mine # <<>> /\ "!=" \in {mine[i].op : i \in DOMAIN mine} ->
                [end EXCEPT !.filter = filter]
         [] fields # <<>> /\ mine # <<>> /\ ~ColHintOk(mine) -> [st EXCEPT !.ok = FALSE]
         [] OTHER -> AppendIQCtx(IF mine[1].op = "==" THEN Tail(fields) ELSE <<>>,
                                 items, filter, more)

\* One scan for all items, or one for each.
CreateSingleIQC(schema, items, filter, tie) ==
    LET index == FindOptimalIndex(schema, items, tie)
        st == AppendIQCtx(index[1].fields, items, filter,
                          [ok |-> TRUE, hints |-> <<>>, left |-> HintCount(items), filter |-> <<>>])
    IN IF index = <<>> \/ ~st.ok THEN [ok |-> FALSE, contexts |-> <<>>]
       ELSE [ok |-> TRUE, contexts |-> <<[index |-> index[1].fields, hints |-> st.hints,
                                          filter |-> st.filter]>>]
CreateMultipleIQC(schema, items, filter, tie) ==
    LET each == [i \in DOMAIN items |-> CreateSingleIQC(schema, <<items[i]>>, filter, tie)]
    IN IF \E i \in DOMAIN each : ~each[i].ok THEN [ok |-> FALSE, contexts |-> <<>>]
       ELSE [ok |-> TRUE, contexts |-> [i \in DOMAIN each |-> each[i].contexts[1]]]
CreateIndexQueryCtx(x, tie) ==
    LET filter == x.contexts[1].filter
        st == AnalyzeExpression(filter[1], [ok |-> TRUE, kind |-> "unknown", items |-> <<>>])
        light == FindLightestIndex(x.schema)
    IN CASE x.contexts = <<>> \/ filter = <<>> ->
                IF light = <<>> THEN [ok |-> FALSE, contexts |-> <<>>]
                ELSE [ok |-> TRUE, contexts |-> <<[index |-> light[1].fields, hints |-> <<>>,
                                                   filter |-> <<>>]>>]
         [] x.contexts # <<>> /\ filter # <<>> /\ ~st.ok -> [ok |-> FALSE, contexts |-> <<>>]
         [] OTHER -> IF st.kind = "single" THEN CreateSingleIQC(x.schema, st.items, filter, tie)
                     ELSE CreateMultipleIQC(x.schema, st.items, filter, tie)
=============================================================================
