------------------------------ MODULE Rewrites ------------------------------
(***************************************************************************)
(* The pure algorithms of validation and optimization on all inputs of a   *)
(* bounded shape: an expression goes through the transformations of        *)
(* src/visitor and util/ExpressionUtils, any of them in any order; a       *)
(* filter of a LOOKUP is turned into index scans (IndexScanRule); a value  *)
(* of an indexed column is moved to its bound (OptimizerUtils); a tag, an  *)
(* index or a space is defined and altered, and shown as a sentence again. *)
(*                                                                         *)
(*    task    what is given: an expression, a filter, a value or a         *)
(*            definition, by its number;                                   *)
(*    expr    the expression as it is now;                                 *)
(*    cols    the columns a projection has computed for it, or <<>>;       *)
(*    out     the contexts of the scans, the bound, or what is stored;     *)
(*    steps   the transformations so far.                                  *)
(***************************************************************************)
EXTENDS Meaning, Schemas

CONSTANTS Exprs,        \* the expressions
          Bindings,     \* the values of the properties they name
          Types,        \* the types of these properties
          Scans,        \* the filters of LOOKUP
          BoundTypes,   \* the types of the bounds
          Definitions,  \* the sentences that create something
          Alters,       \* the sentences that alter a tag or an edge type
          Ties,         \* how equal indexes may be sorted
          MaxSteps      \* the bound on steps

VARIABLES task, expr, cols, out, steps
vars == <<task, expr, cols, out, steps>>

Tasks == [kind : {"expr"}, e : Exprs]
         \cup [kind : {"scan"}, where : Scans]
         \cup UNION {[kind : {"bound"}, type : {t}, d : ValuesOf(t)] : t \in BoundTypes}
         \cup [kind : {"define"}, i : DOMAIN Definitions]
Init == /\ task \in Tasks
        /\ expr = IF task.kind = "expr" THEN task.e ELSE Const(Null)
        /\ cols = <<>> /\ out = <<>> /\ steps = 0

Rewritten(e) == expr' = e /\ UNCHANGED cols
Step(kind) == task.kind = kind /\ steps < MaxSteps /\ steps' = steps + 1 /\ UNCHANGED task
OnExpr == Step("expr") /\ cols = <<>> /\ UNCHANGED out

FoldStep == OnExpr /\ Rewritten(FoldConstantExpr(expr))
PullStep == /\ OnExpr /\ expr.k \in {"And", "Or"}
            /\ Rewritten(IF expr.k = "And" THEN PullAnds(expr) ELSE PullOrs(expr))
PushStep == /\ OnExpr /\ expr.k \in {"And", "Or"} /\ Len(expr.a) > 1
            /\ Rewritten(IF expr.k = "And" THEN PushAnds(expr.a) ELSE PushOrs(expr.a))
\* expandExpr is given binary logical expressions, as the parser builds them.
ExpandStep == /\ OnExpr
              /\ \A d \in Nodes(expr) : d.k \in LogicalKinds => Len(d.a) = 2
              /\ Rewritten(ExpandExpr(expr))
\* A filter is split into the part that is pushed down and the one that stays:
\* a row has to pass both.
Flat(e) == \A i \in DOMAIN e.a : \A d \in Nodes(e.a[i]) : d.k \notin LogicalKinds
SplitStep == /\ OnExpr /\ Flat(expr)
             /\ LET r == ExtractFilter(expr)
                IN /\ r.ok /\ r.rem # <<>>
                   /\ Rewritten(Mk("And", "", <<r.e, r.rem[1]>>))
\* The properties are projected to columns and the expression reads those.
ColumnsStep == /\ OnExpr
               /\ LET props == ExtractProp(expr, NoProps)
                  IN /\ props.ok
                     /\ cols' = props.srcEdge \o props.dst \o props.input
                     /\ expr' = RewriteInputProp(expr, props.map)

ScanStep == /\ Step("scan") /\ UNCHANGED <<expr, cols>>
            /\ LET lk == LookupSentence("t", <<task.where>>, FALSE, <<>>, FALSE)
                   x == [contexts |-> Contexts(lk), schema |-> "t"]
               IN \E r \in {CreateIndexQueryCtx(x, tie) : tie \in Ties} :
                    r.ok /\ out' = r.contexts
BoundStep == /\ Step("bound") /\ UNCHANGED <<expr, cols>>
             /\ \E op \in {"GREATER_THAN", "LESS_THAN"} :
                   out' = <<op, BoundValue(task.type, op, task.d)>>
CreateStep == /\ Step("define") /\ out = <<>> /\ UNCHANGED <<expr, cols>>
              /\ \E x \in {Create(Definitions[task.i])} : x.ok /\ out' = <<x>>
AlterStep == /\ Step("define") /\ out # <<>> /\ UNCHANGED <<expr, cols>>
             /\ out[1].k = "schema"
             /\ \E a \in {AlterSchemaValidate(Alters[i]) : i \in DOMAIN Alters} :
                  \E x \in {MetaAlterSchema(out[1], a)} : a.ok /\ x.ok /\ out' = <<x>>
Ended == UNCHANGED vars
Next == \/ FoldStep \/ PullStep \/ PushStep \/ ExpandStep \/ SplitStep \/ ColumnsStep
        \/ ScanStep \/ BoundStep \/ CreateStep \/ AlterStep \/ Ended
Spec == Init /\ [][Next]_vars

(***************************************************************************)
(* Properties.                                                             *)
(***************************************************************************)
ValueAt(e, b) == Eval(Bind(e, b), SetVar(NoRow, "rand32", IntV(5)))
Projected(b) == IF cols = <<>> THEN b
                ELSE [k \in {<<"InputProp", "$-", cols[i].n>> : i \in DOMAIN cols} |->
                        LET i == CHOOSE i \in DOMAIN cols : cols[i].n = k[3]
                        IN ValueAt(cols[i].e, b)]
\* Whatever was folded, flattened, rebuilt, distributed, split or projected,
\* the expression has the value it was written to have, on every row.
ValueKept ==
    task.kind = "expr" => \A b \in Bindings : ValueAt(expr, Projected(b)) = ValueAt(task.e, b)

\* The type the validator deduces for an expression is that of its value on
\* every row, unless the value is null (DeduceTypeVisitor).
TypeIsSound ==
    task.kind = "expr" =>
        LET t == TypeOf(task.e, Types, VidType)
        IN t \notin {"ERROR", "EMPTY", "NULL"} =>
               \A b \in Bindings : ValueAt(task.e, b).t \in {t, "NULL"}

\* The scans find the rows that pass the filter and no others, whichever index
\* is chosen (IndexScanRule).
ScanIsExact ==
    task.kind = "scan" /\ out # <<>> =>
        \A f \in Entities(Graph, "t") :
            (\E i \in DOMAIN out : ContextFinds(out[i], "t", f))
            <=> Passes(<<task.where>>, [k \in {<<"EdgeProp", "t", p>> : p \in DOMAIN f} |-> f[k[3]]])

\* The next value of a type is greater, and for integers, strings and dates
\* no value is between the two, so that a scan that starts or ends there leaves
\* out what it should and no more.  So it is for times, unless the microseconds
\* are at the limit of their type, far above those of a real time: the carry
\* leaves out the zeros.  A float next to a coarse one is rounded back to it.
\* The value before is the last one below for integers and strings; the other
\* types may stay where they are, and the float below zero that is closest to
\* it has zero before it (OptimizerUtils, which no scan asks for).
BoundIsTight ==
    task.kind = "bound" /\ out # <<>> =>
        LET up == out[1] = "GREATER_THAN"
            after(x, y) == IF up THEN Less(x, y) ELSE Less(y, x)
            last == \A y \in ValuesOf(task.type) : ~after(task.d, y)
            adjacent == \/ task.type \in {"INT", "STRING"}
                        \/ up /\ task.type = "DATE"
                        \/ /\ up /\ task.type \in {"TIME", "DATETIME"}
                           /\ Last(task.d) < Last(Limits[task.type])
        IN IF last THEN out[2] = task.d
           ELSE /\ (up \/ task.type # "FLOAT") => ~after(out[2], task.d)
                /\ (task.type \in {"INT", "STRING"} \/ (up /\ task.type # "FLOAT")) =>
                      after(task.d, out[2])
                /\ adjacent => \A y \in ValuesOf(task.type) : after(task.d, y) => ~after(y, out[2])

\* The two tell no client apart: the same columns, the same defaults by value,
\* the same expiry.
Same(x, y) ==
    CASE x.k = "schema" ->
            /\ x.name = y.name /\ Len(x.cols) = Len(y.cols)
            /\ \A i \in DOMAIN x.cols :
                 /\ SubSeq(ToDescSchema(x)[i], 1, 3) = SubSeq(ToDescSchema(y)[i], 1, 3)
                 /\ Len(x.cols[i].default) = Len(y.cols[i].default)
                 /\ \A n \in DOMAIN x.cols[i].default :
                      ValueAt(x.cols[i].default[n], <<>>) = ValueAt(y.cols[i].default[n], <<>>)
            /\ Or(x.ttl.duration, 0) = Or(y.ttl.duration, 0)
            /\ Or(x.ttl.col, "") = Or(y.ttl.col, "")
      [] x.k = "index" -> x = y
      [] x.k = "space" -> /\ [x EXCEPT !.desc.isolation = <<>>] = [y EXCEPT !.desc.isolation = <<>>]
                          /\ (x.desc.isolation = <<"TOSS">>) = (y.desc.isolation = <<"TOSS">>)
\* What SHOW CREATE prints of a tag, an edge type, an index or a space, however
\* it was altered, is a sentence that is accepted and creates the same again
\* (SchemaUtil, IndexUtil, SpaceExecutor; the tests of the indexes run it).
ShowCreateRecreates ==
    task.kind = "define" /\ out # <<>> =>
        \E t \in {Parse(ShowCreate(out[1]))} :
            t.ok /\ \E y \in {Create(t.s)} : y.ok /\ Same(out[1], y)
=============================================================================
