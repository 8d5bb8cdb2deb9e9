------------------------------ MODULE Visitors ------------------------------
(***************************************************************************)
(* The visitors of src/visitor that transform an expression or deduce      *)
(* something from it, and the transformations of util/ExpressionUtils.     *)
(* A visitor that keeps a flag between visits is an operator that takes    *)
(* the flag and returns it with the new expression, so that a flag left    *)
(* over from an earlier operand is seen by the next one, as in the code.   *)
(***************************************************************************)
EXTENDS Expressions

(***************************************************************************)
(* FoldConstantExprVisitor: f is canBeFolded_.                             *)
(***************************************************************************)
Fold(e) == Const(Eval(e, NoRow))
\* The operand after its visit r, folded if it can be.
Folded(r) == IF r.f THEN Fold(r.e) ELSE r.e

RECURSIVE FoldVisit(_, _), FoldOperands(_, _, _, _)
\* Visit the operands after the first n, skip the constants (unless every
\* operand is visited, as for a logical expression), fold what can be folded;
\* the flag is left to the conjunction.
FoldOperands(e, n, f, all) ==
    IF n = Len(e.a) THEN [e |-> e, f |-> all]
    ELSE IF IsConst(e.a[n + 1]) /\ e.k \notin LogicalKinds THEN FoldOperands(e, n + 1, f, all)
    ELSE LET after(r) == FoldOperands([e EXCEPT !.a[n + 1] = Folded(r)], n + 1, r.f, all /\ r.f)
         IN after(FoldVisit(e.a[n + 1], f))

FoldLogical(e, f) == FoldOperands(e, 0, f, TRUE)
FoldContainer(e, f) == FoldOperands(e, 0, f, TRUE)
FoldBinary(e, f) == FoldOperands(e, 0, f, TRUE)
FoldScoped(e, f) == FoldOperands(e, 0, f, TRUE)
\* Mutant: a function that is not pure is folded.
FoldFunctionAny(e, f) == FoldOperands(e, 0, f, TRUE)
FoldFunction(e, f) == FoldOperands(e, 0, f, IsPure(e.op))
\* With a constant operand the flag is left as it was.
FoldUnary(e, f) ==
    IF IsConst(e.a[1]) THEN [e |-> e, f |-> f]
    ELSE LET after(r) == [e |-> [e EXCEPT !.a[1] = Folded(r)], f |-> r.f]
         IN after(FoldVisit(e.a[1], f))
\* Labels, variables, attributes and everything read from a row.
FoldNever(e) == [e |-> e, f |-> FALSE]

FoldVisit(e, f) ==
    CASE e.k = "Constant" -> [e |-> e, f |-> TRUE]
      [] e.k \in {"Unary", "Cast", "Aggregate"} -> FoldUnary(e, f)
      [] e.k \in {"Arithmetic", "Relational", "Subscript"} -> FoldBinary(e, f)
      [] e.k \in LogicalKinds -> FoldLogical(e, f)
      [] e.k = "Function" -> FoldFunction(e, f)
      [] e.k \in {"List", "Set", "Map", "Case"} -> FoldContainer(e, f)
      [] e.k \in {"PathBuild", "ListComp", "Predicate", "Reduce"} -> FoldScoped(e, f)
      [] OTHER -> FoldNever(e)

FoldConstantExpr(e) == Folded(FoldVisit(e, FALSE))

(***************************************************************************)
(* ExpressionUtils: flattening, left-deep rebuilding and distribution of   *)
(* the logical operators.                                                  *)
(***************************************************************************)
RECURSIVE PullImpl(_, _), PushImpl(_, _), ExpandExpr(_), ExpandImplAnd(_)
PullImpl(kind, ops) ==
    IF ops = <<>> THEN <<>>
    ELSE (IF Head(ops).k = kind THEN PullImpl(kind, Head(ops).a) ELSE <<Head(ops)>>)
         \o PullImpl(kind, Tail(ops))
PullAnds(e) == [e EXCEPT !.a = PullImpl("And", @)]
PullOrs(e) == [e EXCEPT !.a = PullImpl("Or", @)]

PushImpl(kind, rels) ==
    IF Len(rels) = 2 THEN Mk(kind, "", rels)
    ELSE Mk(kind, "", <<PushImpl(kind, SubSeq(rels, 1, Len(rels) - 1)), rels[Len(rels)]>>)
PushOrs(rels) == PushImpl("Or", rels)
PushAnds(rels) == PushImpl("And", rels)

ExpandImplOr(e) == PullImpl("Or", e.a)
ExpandImplAnd(e) ==
    LET side(i) == IF e.a[i].k = "Or" THEN ExpandImplOr(e.a[i]) ELSE <<ExpandExpr(e.a[i])>>
        l == side(1)
        r == side(2)
        target == [n \in 1..(Len(l) * Len(r)) |->
                      Mk("And", "", <<l[((n - 1) \div Len(r)) + 1], r[((n - 1) % Len(r)) + 1]>>)]
    IN IF Len(target) = 1 THEN target[1] ELSE PushOrs(target)
ExpandExpr(e) ==
    LET branch(d) == IF d.k = "And" THEN ExpandImplAnd(d) ELSE ExpandExpr(d)
    IN CASE e.k = "Or" -> PushOrs([i \in DOMAIN e.a |-> branch(e.a[i])])
         [] e.k = "And" -> LET t == ExpandImplAnd(e)
                           IN IF t.k = "And" /\ "Or" \in {t.a[1].k, t.a[2].k}
                              THEN ExpandExpr(t) ELSE t
         [] OTHER -> e

(***************************************************************************)
(* RewriteLabelAttrVisitor.  A label attribute is replaced where it is an  *)
(* operand of a kind the visitor overrides; the inherited visits of the    *)
(* others reach the no-op visit of the label attribute.  The visit of a    *)
(* reduction stores a rewritten initial value as the collection.           *)
(***************************************************************************)
LabelAttrInherited == LogicalKinds \cup {"Aggregate", "PathBuild"}
CreateExpr(e, to) == Prop(to, e.s, e.op)

RECURSIVE RewriteLabelAttr(_, _)
RewriteLabelAttr(e, to) ==
    LET sub(d) == IF d.k = "LabelAttribute" /\ e.k \notin LabelAttrInherited
                  THEN CreateExpr(d, to) ELSE RewriteLabelAttr(d, to)
    IN IF e.k = "Reduce" /\ e.a[1].k = "LabelAttribute"
       THEN [e EXCEPT !.a = <<@[1], CreateExpr(@[1], to), sub(@[3])>>]
       ELSE [e EXCEPT !.a = [i \in DOMAIN @ |-> sub(@[i])]]

(***************************************************************************)
(* RewriteMatchLabelVisitor, with the rewriters the planners of MATCH pass:*)
(* a label is the column of that name, or, in a filter on the neighbors,   *)
(* the vertex or the edge of the row; a label attribute is an attribute of *)
(* it.                                                                     *)
(***************************************************************************)
IsLabel(e) == e.k \in {"Label", "LabelAttribute"}
MatchRewriter(e, to) ==
    LET it(alias) == IF to = "column" THEN Prop("VarProp", "", alias) ELSE Mk(to, "", <<>>)
    IN IF e.k = "Label" THEN it(e.op)
       ELSE Mk("Attribute", "", <<it(e.s), Const(NameV(e.op))>>)

RECURSIVE RewriteMatchLabel(_, _)
RewriteMatchLabel(e, to) ==
    LET sub(d) == IF IsLabel(d) THEN MatchRewriter(d, to) ELSE RewriteMatchLabel(d, to)
    IN CASE e.k \in LogicalKinds \cup {"PathBuild"} ->
                [e EXCEPT !.a = [i \in DOMAIN @ |-> RewriteMatchLabel(@[i], to)]]
         [] e.k = "Attribute" -> [e EXCEPT !.a[1] = sub(@)]
         [] e.k = "Map" /\ \A i \in DOMAIN e.a : ~IsLabel(e.a[i]) -> e
         [] OTHER -> [e EXCEPT !.a = [i \in DOMAIN @ |-> sub(@[i])]]

(***************************************************************************)
(* RewriteAggExprVisitor replaces one aggregate by the column it is        *)
(* computed in; a binary expression stops at the first one.                *)
(***************************************************************************)
RECURSIVE RewriteAgg(_, _)
RewriteAgg(e, col) ==
    LET sub(d) == IF d.k = "Aggregate" THEN Prop("VarProp", "", col) ELSE RewriteAgg(d, col)
    IN CASE e.k \in {"Arithmetic", "Relational", "Subscript", "Attribute"} ->
                IF e.a[1].k = "Aggregate" THEN [e EXCEPT !.a[1] = sub(@)]
                ELSE [e EXCEPT !.a = <<sub(@[1]), sub(@[2])>>]
         [] e.k \in {"Cast", "Function"} -> [e EXCEPT !.a = [i \in DOMAIN @ |-> sub(@[i])]]
         [] OTHER -> e

(***************************************************************************)
(* RewriteSymExprVisitor, for the expressions of UPDATE and UPSERT: labels *)
(* become properties of the updated edge or vertex; w is hasWrongType_.    *)
(***************************************************************************)
SymWrong == {"Subscript", "Attribute", "UUID", "Variable", "VersionedVar", "TagProp",
             "InputProp", "VarProp", "DstProp", "EdgeSrc", "EdgeType", "EdgeRank", "EdgeDst"}

RECURSIVE RewriteSym(_, _, _, _), RewriteSymAll(_, _, _, _, _)
RewriteSymAll(e, n, sym, isEdge, w) ==
    IF n = Len(e.a) THEN [e |-> e, w |-> w]
    ELSE LET r == RewriteSym(e.a[n + 1], sym, isEdge, w)
         IN RewriteSymAll([e EXCEPT !.a[n + 1] = r.e], n + 1, sym, isEdge, r.w)
RewriteSym(e, sym, isEdge, w) ==
    CASE e.k = "Label" ->
            [e |-> Prop(IF isEdge THEN "EdgeProp" ELSE "SrcProp", sym, e.op), w |-> w]
      [] e.k = "LabelAttribute" ->
            IF isEdge THEN [e |-> Prop("EdgeProp", e.s, e.op), w |-> FALSE]
            ELSE [e |-> e, w |-> TRUE]
      [] e.k \in SymWrong -> [e |-> e, w |-> TRUE]
      [] e.k = "EdgeProp" -> [e |-> e, w |-> w \/ ~isEdge]
      [] e.k = "SrcProp" -> [e |-> e, w |-> w \/ isEdge]
      [] OTHER -> RewriteSymAll(e, 0, sym, isEdge, w)

(***************************************************************************)
(* ExtractPropExprVisitor collects one column per property expression, and *)
(* RewriteInputPropVisitor replaces every property by its column.  A       *)
(* column is an expression e and its name n.  map is propExprColMap_ (a    *)
(* property to the name of its column); the columns go to srcEdge, dst or  *)
(* input, and all but those of the input get a name of their own.          *)
(***************************************************************************)
Col(e, n) == [e |-> e, n |-> n]
NoProps == [map |-> <<>>, srcEdge |-> <<>>, dst |-> <<>>, input |-> <<>>, ok |-> TRUE]
ColGroup(e) == CASE e.k \in {"InputProp", "VarProp"} -> "input"
                 [] e.k = "DstProp" -> "dst"
                 [] OTHER -> "srcEdge"
ColAlias(e) == IF ColGroup(e) = "input" THEN e.op ELSE ToString(Key(e))
ExtractErrors == {"Subscript", "Label", "LabelAttribute", "VersionedVar", "UUID", "Column"}

RECURSIVE ExtractProp(_, _), ExtractPropAll(_, _, _)
ExtractPropAll(e, n, st) ==
    IF n = Len(e.a) \/ ~st.ok THEN st
    ELSE ExtractPropAll(e, n + 1, ExtractProp(e.a[n + 1], st))
ExtractProp(e, st) ==
    CASE e.k \in ExtractErrors \/ (e.k = "Unary" /\ e.op \in {"++", "--"}) ->
            [st EXCEPT !.ok = FALSE]
      [] e.k \in PropKinds ->
            IF Key(e) \in DOMAIN st.map THEN st
            ELSE [st EXCEPT !.map = @ @@ (Key(e) :> ColAlias(e)),
                            ![ColGroup(e)] = Append(@, Col(e, ColAlias(e)))]
      [] OTHER -> ExtractPropAll(e, 0, st)

InputPropErrors == {"UUID", "Variable", "VersionedVar", "LabelAttribute", "Label", "Attribute",
                    "Subscript", "Column"}
\* The lookup that a DCHECK says always succeeds.
ColumnOf(e, cols) == IF Key(e) \in DOMAIN cols THEN InputProp(cols[Key(e)])
                     ELSE Prop("Undefined", "", "")

RECURSIVE RewriteInputProp(_, _)
RewriteInputProp(e, cols) ==
    CASE e.k \in InputPropErrors \/ (e.k = "Unary" /\ e.op \in {"++", "--"}) -> e
      [] e.k = "InputProp" -> e
      [] e.k \in PropKinds \ {"InputProp"} -> ColumnOf(e, cols)
      [] OTHER -> [e EXCEPT !.a = [i \in DOMAIN @ |-> RewriteInputProp(@[i], cols)]]

(***************************************************************************)
(* DeducePropsVisitor: the properties an expression reads.  An attribute   *)
(* expression is not searched.                                             *)
(***************************************************************************)
PropsErrors == {"UUID", "VersionedVar", "Label", "LabelAttribute"}
RECURSIVE DeduceProps(_)
DeduceProps(e) ==
    CASE e.k \in PropsErrors -> [ok |-> FALSE, props |-> {}]
      [] e.k \in PropKinds -> [ok |-> TRUE, props |-> {Key(e)}]
      [] e.k = "Attribute" -> [ok |-> TRUE, props |-> {}]
      [] OTHER -> LET subs == {DeduceProps(e.a[i]) : i \in DOMAIN e.a}
                  IN [ok |-> \A r \in subs : r.ok, props |-> UNION {r.props : r \in subs}]

\* ExpressionProps, as sets of keys.
UnionProps(p, q) == p \cup q
IsSubsetOfInput(p, q) == {x \in q : x[1] = "InputProp"} \subseteq p
IsSubsetOfVar(p, q) == {x \in q : x[1] = "VarProp"} \subseteq p
HasInputVarProperty(p) == \E x \in p : x[1] \in {"InputProp", "VarProp"}
HasSrcDstTagProperty(p) == \E x \in p : x[1] \in {"SrcProp", "DstProp"}

(***************************************************************************)
(* ExtractFilterExprVisitor: ok is canBePushed_, rem is remainedExpr_ as a *)
(* sequence of at most one expression.                                     *)
(***************************************************************************)
PushYes == {"Constant", "EdgeProp", "SrcProp", "EdgeSrc", "EdgeType", "EdgeRank", "EdgeDst"}
PushNo == {"Label", "UUID", "Variable", "VersionedVar", "TagProp", "InputProp", "VarProp",
           "DstProp", "Vertex", "Edge", "Column"}

RECURSIVE FilterVisit(_, _), FilterAnd(_, _, _, _), FilterAll(_, _, _)
\* The AND: every operand is visited; flags records which can be pushed.
FilterAnd(e, n, st, flags) ==
    IF n < Len(e.a)
    THEN LET r == FilterVisit(e.a[n + 1], st)
         IN FilterAnd([e EXCEPT !.a[n + 1] = r.e], n + 1, r, Append(flags, r.ok))
    ELSE IF \A i \in DOMAIN flags : ~flags[i] THEN [st EXCEPT !.e = e]
    ELSE LET stay == SelectSeq([i \in DOMAIN flags |-> i], LAMBDA i : ~flags[i])
         IN [e |-> [e EXCEPT !.a = [i \in DOMAIN @ |-> IF flags[i] THEN @[i] ELSE Const(True)]],
             ok |-> st.ok,
             rem |-> <<Mk("And", "", [i \in DOMAIN stay |-> e.a[stay[i]]])>>]
\* The inherited visits stop at the first operand that cannot be pushed.
FilterAll(e, n, st) ==
    IF n = Len(e.a) \/ (n > 0 /\ ~st.ok) THEN [st EXCEPT !.e = e]
    ELSE LET r == FilterVisit(e.a[n + 1], st)
         IN FilterAll([e EXCEPT !.a[n + 1] = r.e], n + 1, r)
FilterVisit(e, st) ==
    CASE e.k \in PushYes -> [st EXCEPT !.e = e, !.ok = TRUE]
      [] e.k \in PushNo -> [st EXCEPT !.e = e, !.ok = FALSE]
      [] e.k = "And" -> FilterAnd(e, 0, st, <<>>)
      [] e.k = "LabelAttribute" -> [st EXCEPT !.e = e, !.ok = FALSE]
      [] OTHER -> FilterAll(e, 0, st)
ExtractFilter(e) == FilterVisit(e, [e |-> e, ok |-> TRUE, rem |-> <<>>])
=============================================================================
