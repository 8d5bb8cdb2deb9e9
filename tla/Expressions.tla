---------------------------- MODULE Expressions ----------------------------
(***************************************************************************)
(* Expression trees and the visitors that the validators and the optimizer *)
(* run over them (src/visitor, src/util/ExpressionUtils).                  *)
(*                                                                         *)
(* An expression is a record                                               *)
(*    k   its kind,                                                        *)
(*    s   the symbol of a property (an edge, a tag, a variable),           *)
(*    op  the property, the operator, the function or the target type,     *)
(*    c   the value of a constant,                                         *)
(*    a   its operands in the order ExprVisitorImpl visits them.           *)
(* The expression classes and the values belong to nebula-common: their    *)
(* evaluation is modelled from how the visitors use it.                    *)
(***************************************************************************)
EXTENDS Iterators

\* Arithmetic, and the logical operators: false and true absorb a null.
Arith(op, x, y) ==
    CASE IsNull(x) -> x
      [] ~IsNull(x) /\ IsNull(y) -> y
      [] x.t = "INT" /\ y.t = "INT" /\ op = "+" -> IntV(x.n + y.n)
      [] x.t = "INT" /\ y.t = "INT" /\ op = "-" -> IntV(x.n - y.n)
      [] x.t = "INT" /\ y.t = "INT" /\ op = "*" -> IntV(x.n * y.n)
      [] x.t = "INT" /\ y.t = "INT" /\ op \in {"/", "%"} ->
            IF y.n = 0 THEN BadNull ELSE IF op = "/" THEN IntV(x.n \div y.n) ELSE IntV(x.n % y.n)
      [] x.t = "LIST" /\ op = "+" ->
            ListV(x.l \o IF y.t = "LIST" THEN y.l ELSE <<y>>)
      [] OTHER -> BadNull

Logic(kind, x, y) ==
    IF BadNull \in {x, y} \/ ~({x.t, y.t} \subseteq {"BOOL", "NULL", "EMPTY"})
    THEN BadNull
    ELSE CASE kind = "And" -> IF False \in {x, y} THEN False
                              ELSE IF {x, y} = {True} THEN True ELSE Null
           [] kind = "Or"  -> IF True \in {x, y} THEN True
                              ELSE IF {x, y} = {False} THEN False ELSE Null
           [] OTHER        -> IF IsBool(x) /\ IsBool(y) THEN BoolV(x # y) ELSE Null

Negate(op, x) ==
    CASE IsNull(x) -> x
      [] op = "+" -> x
      [] op = "-" /\ x.t = "INT" -> IntV(-x.n)
      [] op = "!" /\ IsBool(x) -> BoolV(x = False)
      [] OTHER -> BadNull

Relate(op, x, y) ==
    CASE op \in {"IN", "NOT IN"} ->
            IF y.t # "LIST" \/ IsNull(x) THEN Null
            ELSE BoolV((\E i \in DOMAIN y.l : y.l[i] = x) = (op = "IN"))
      [] op \notin {"IN", "NOT IN"} /\ "NULL" \in {x.t, y.t} -> Null
      [] op = "==" -> BoolV(x = y)
      [] op = "!=" -> BoolV(x # y)
      [] op \in {"<", "<=", ">", ">="} /\ "EMPTY" \in {x.t, y.t} -> Null
      [] op = "<" /\ x.t = y.t -> BoolV(x.n < y.n)
      [] op = "<=" /\ x.t = y.t -> BoolV(x.n <= y.n)
      [] op = ">" /\ x.t = y.t -> BoolV(x.n > y.n)
      [] op = ">=" /\ x.t = y.t -> BoolV(x.n >= y.n)
      [] OTHER -> BadNull

CastTo(type, x) == IF IsNull(x) THEN x
                   ELSE IF x.t = type THEN x
                   ELSE IF type = "STRING" /\ x.t # "LIST" THEN Val("STRING", x.n)
                   ELSE IF type = "INT" /\ x.t = "STRING" THEN IntV(x.n) ELSE BadNull
ValidateTypeCast(from, to) ==
    \/ from \in {"NULL", "EMPTY", to}
    \/ from \notin {"LIST", "SET", "MAP"} /\ to = "STRING"
    \/ from = "STRING" /\ to \in {"INT", "BOOL"}

\* The function manager: the functions used below.
IsPure(f) == f # "rand32"
Unaries == {"abs", "tags", "startNode", "endNode", "relationships", "length", "reversePath",
            "hasSameEdgeInPath"}
ReturnType(f, types) ==
    CASE f = "rand32" /\ types = <<>> -> "INT"
      [] f = "abs" /\ types = <<"INT">> -> "INT"
      [] f \in Unaries /\ types \in {<<"NULL">>, <<"EMPTY">>} -> "NULL"
      [] OTHER -> "ERROR"
\* A path is the sequence of its vertices and, between them, its edges, each
\* of which points forward.
PathV(l) == [Val("PATH", 0) EXCEPT !.l = l]
EdgesOfPath(v) == SelectSeq(v.l, LAMBDA x : x.t = "EDGE")
Reversed(s) == [i \in DOMAIN s |-> s[Len(s) + 1 - i]]
FunctionValue(f, v) ==
    CASE IsNull(v) -> Null
      [] f = "abs" /\ v.t = "INT" -> IntV(IF v.n < 0 THEN -v.n ELSE v.n)
      [] f = "id" /\ v.t = "VERTEX" -> IntV(v.n)
      [] f = "tags" /\ v.t = "VERTEX" ->
            LET names == SetToSeq({k[1] : k \in DOMAIN v.p})
            IN ListV([i \in DOMAIN names |-> NameV(names[i])])
      [] f = "startNode" /\ v.t = "PATH" -> v.l[1]
      [] f = "endNode" /\ v.t = "PATH" -> v.l[Len(v.l)]
      [] f = "relationships" /\ v.t = "PATH" -> ListV(EdgesOfPath(v))
      [] f = "length" /\ v.t = "PATH" -> IntV(Len(EdgesOfPath(v)))
      [] f = "reversePath" /\ v.t = "PATH" -> PathV(Reversed(v.l))
      [] f = "hasSameEdgeInPath" /\ v.t = "PATH" ->
            LET es == EdgesOfPath(v)
            IN BoolV(\E i, j \in DOMAIN es : i # j /\ [es[i] EXCEPT !.p = <<>>]
                                                      = [es[j] EXCEPT !.p = <<>>])
      [] OTHER -> BadNull
\* A vertex has the properties of all its tags.
AttributeOf(v, name) ==
    LET hits == {k \in DOMAIN v.p : <<k[2], "">> \in DOMAIN name.p}
    IN CASE IsNull(v) -> v
         [] v.t = "VERTEX" /\ name = NameV("_vid") -> IntV(v.n)
         [] v.t \in {"VERTEX", "EDGE"} -> IF hits = {} THEN Null ELSE v.p[CHOOSE k \in hits : TRUE]
         [] OTHER -> BadNull
\* A path is built from vertices, edges and paths: an edge leads to its end,
\* of which a vertex or a path that follows knows the properties.
RECURSIVE BuildPath(_, _)
BuildPath(l, vs) ==
    IF vs = <<>> THEN PathV(l)
    ELSE LET v == Head(vs)
             before == SubSeq(l, 1, Len(l) - 1)
             from == l[Len(l)].n
             edge == Format(v)
             to == IF edge.l[1].n = from THEN edge.l[2] ELSE edge.l[1]
         IN CASE v.t = "VERTEX" -> BuildPath(before \o <<v>>, Tail(vs))
              [] v.t = "PATH" -> BuildPath(before \o v.l, Tail(vs))
              [] v.t = "EDGE" -> BuildPath(l \o <<edge, VertexV(to, <<>>)>>, Tail(vs))
              [] OTHER -> BadNull
PathOf(vs) == CASE vs = <<>> -> Null
                [] vs # <<>> /\ vs[1].t = "VERTEX" -> BuildPath(<<vs[1]>>, Tail(vs))
                [] vs # <<>> /\ vs[1].t = "PATH" -> BuildPath(vs[1].l, Tail(vs))
                [] OTHER -> BadNull

(***************************************************************************)
(* Constructors.                                                           *)
(***************************************************************************)
Mk(k, op, args) == [k |-> k, s |-> "", op |-> op, c |-> Empty, a |-> args]
Const(v) == [k |-> "Constant", s |-> "", op |-> "", c |-> v, a |-> <<>>]
Prop(k, s, op) == [k |-> k, s |-> s, op |-> op, c |-> Empty, a |-> <<>>]
InputProp(col) == Prop("InputProp", "$-", col)
IsConst(e) == e.k = "Constant"
LogicalKinds == {"And", "Or", "Xor"}
PropKinds == {"TagProp", "EdgeProp", "InputProp", "VarProp", "DstProp", "SrcProp",
              "EdgeSrc", "EdgeType", "EdgeRank", "EdgeDst"}
EdgeKinds == {"EdgeProp", "EdgeSrc", "EdgeType", "EdgeRank", "EdgeDst", "LabelAttribute"}
\* What a property or a variable names: e._dst and the destination of e are
\* written alike, and a label attribute e.p of a GO statement is the property
\* p of the edge e.
Key(e) == <<IF e.k \in EdgeKinds THEN "EdgeProp" ELSE e.k, e.s, e.op>>

(***************************************************************************)
(* QueryExpressionContext: what a leaf reads from the current row.  The    *)
(* name of the variable does not matter, the iterator does; the source and *)
(* the destination of an edge are looked up as one and the same tag.       *)
(***************************************************************************)
GetVarProp(env, e) == GetColumn(env, e.op)
GetInputProp(env, e) == GetColumn(env, e.op)
GetSrcProp(env, e) == GetTagProp(env, e.s, e.op)
GetDstProp(env, e) == GetTagProp(env, e.s, e.op)
GetVar(env, e) == IF e.op \in DOMAIN env.vars THEN env.vars[e.op] ELSE Empty
SetVar(env, var, v) == [env EXCEPT !.vars = (var :> v) @@ @]
Read(env, e) ==
    CASE e.k = "InputProp" -> GetInputProp(env, e)
      [] e.k \in {"VarProp", "Column"} -> GetVarProp(env, e)
      [] e.k = "TagProp" -> GetTagProp(env, e.s, e.op)
      [] e.k = "SrcProp" -> GetSrcProp(env, e)
      [] e.k = "DstProp" -> GetDstProp(env, e)
      [] e.k \in EdgeKinds -> GetEdgeProp(env, e.s, e.op)
      [] e.k = "Vertex" -> GetVertex(env)
      [] e.k = "Edge" -> GetEdge(env)
      [] e.k \in {"Variable", "Function"} -> GetVar(env, e)
      [] OTHER -> Empty

(***************************************************************************)
(* Expression::eval.  The inner variable of a comprehension, a predicate   *)
(* or a reduction is x, the accumulator of a reduction acc.  The value of  *)
(* a function that is not pure is that of a variable of its name.          *)
(***************************************************************************)
RECURSIVE Eval(_, _), EvalLogic(_, _, _), EvalReduce(_, _, _, _)
EvalLogic(kind, acc, vs) ==
    IF vs = <<>> THEN acc ELSE EvalLogic(kind, Logic(kind, acc, Head(vs)), Tail(vs))
EvalReduce(acc, vs, mapping, env) ==
    IF vs = <<>> THEN acc
    ELSE EvalReduce(Eval(mapping, SetVar(SetVar(env, "x", Head(vs)), "acc", acc)),
                    Tail(vs), mapping, env)
Eval(e, env) ==
    LET v(i) == Eval(e.a[i], env)
        vs == [i \in DOMAIN e.a |-> v(i)]
        in(f, x) == Eval(f, SetVar(env, "x", x))
    IN CASE e.k = "Constant" -> e.c
         [] e.k = "Unary" -> IF e.op \in {"++", "--"}
                             THEN Arith(IF e.op = "++" THEN "+" ELSE "-", v(1), IntV(1))
                             ELSE Negate(e.op, v(1))
         [] e.k = "Cast" -> CastTo(e.op, v(1))
         [] e.k = "Arithmetic" -> Arith(e.op, v(1), v(2))
         [] e.k = "Relational" -> Relate(e.op, v(1), v(2))
         [] e.k = "Subscript" ->
                IF v(1).t # "LIST" \/ v(2).t # "INT" THEN Null
                ELSE IF v(2).n + 1 \in DOMAIN v(1).l THEN v(1).l[v(2).n + 1] ELSE BadNull
         [] e.k \in LogicalKinds ->
                IF e.a = <<>> THEN BoolV(e.k = "And")
                ELSE EvalLogic(e.k, Logic(e.k, v(1), v(1)), SubSeq(vs, 2, Len(vs)))
         [] e.k = "Function" /\ IsPure(e.op) ->
                FunctionValue(e.op, v(1))
         [] e.k = "Attribute" -> AttributeOf(v(1), v(2))
         [] e.k = "PathBuild" -> PathOf(vs)
         [] e.k = "List" -> ListV(vs)
         [] e.k = "Case" -> IF v(2) = True THEN v(3) ELSE v(1)
         [] e.k = "ListComp" ->
                IF v(1).t # "LIST" THEN Null
                ELSE LET kept == SelectSeq(v(1).l, LAMBDA x : in(e.a[2], x) = True)
                     IN ListV([i \in DOMAIN kept |-> in(e.a[3], kept[i])])
         [] e.k = "Predicate" ->
                IF v(1).t # "LIST" THEN Null
                ELSE BoolV(\A i \in DOMAIN v(1).l : in(e.a[2], v(1).l[i]) = True)
         [] e.k = "Reduce" ->
                IF v(2).t # "LIST" THEN Null ELSE EvalReduce(v(1), v(2).l, e.a[3], env)
         [] OTHER -> Read(env, e)

(***************************************************************************)
(* ExprVisitorImpl visits the operands from left to right and stops as     *)
(* soon as the visitor is not ok.  A visitor that only looks for some      *)
(* kinds therefore sees a node iff none before it stopped it: Any is the   *)
(* outcome of such a search, All that of one that never stops.             *)
(***************************************************************************)
RECURSIVE Nodes(_)
Nodes(e) == {e} \cup UNION {Nodes(e.a[i]) : i \in DOMAIN e.a}

\* EvaluableExprVisitor: no leaf that needs a row.
RowKinds == {"Label", "LabelAttribute", "UUID", "Variable", "VersionedVar", "Vertex", "Edge",
             "Column"} \cup PropKinds
IsEvaluable(e) == \A d \in Nodes(e) : d.k \notin RowKinds

\* FindAnyExprVisitor: the inherited visits of a logical expression, of a path
\* and of a label attribute do not compare the node itself, and the last one
\* goes on to its label and to the constant after the dot.
FindUnseen == LogicalKinds \cup {"PathBuild", "LabelAttribute"}
HasAny(e, kinds) ==
    \E d \in Nodes(e) : \/ d.k \in kinds \ FindUnseen
                        \/ d.k = "LabelAttribute" /\ kinds \cap {"Label", "Constant"} # {}

\* CollectAllExprsVisitor compares a label attribute as well.
CollectAll(e, kinds) == {d \in Nodes(e) : d.k \in kinds \ (LogicalKinds \cup {"PathBuild"})}

\* FindAnySubExprVisitor: one of the given expressions occurs in e.  Without
\* the recursive search only e is compared; but a kind whose visit is
\* inherited is never compared itself and always searched.
SubInherited == FindUnseen \cup {"ListComp", "Predicate", "Reduce"}
RECURSIVE SubNodes(_, _)
SubNodes(e, recursive) ==
    {d \in {e} : d.k \notin SubInherited} \cup
    IF recursive \/ e.k \in SubInherited
    THEN UNION {SubNodes(e.a[i], recursive) : i \in DOMAIN e.a} ELSE {}
HasAnySub(e, subs, recursive) == SubNodes(e, recursive) \cap subs # {}

IsConstExpr(e) == ~HasAny(e, {"InputProp", "VarProp", "Variable", "VersionedVar",
                              "LabelAttribute", "TagProp", "EdgeProp", "DstProp", "SrcProp",
                              "EdgeSrc", "EdgeType", "EdgeRank", "EdgeDst", "Vertex", "Edge"})
FindAllStorage(e) == CollectAll(e, {"TagProp", "EdgeProp", "DstProp", "SrcProp", "EdgeSrc",
                                    "EdgeType", "EdgeRank", "EdgeDst", "Vertex", "Edge"})
FindAllInputVariableProp(e) == CollectAll(e, {"InputProp", "VarProp"})

AggFunctions == {"count", "sum", "avg", "max", "min", "stdev", "bit_and", "bit_or", "bit_xor",
                 "collect", "collect_set"}
CheckAggExpr(e) ==
    /\ e.op \in AggFunctions
    /\ ~HasAny(e.a[1], {"Aggregate"})
    /\ e.op # "count" =>
          ~(e.a[1].k \in {"Constant", "InputProp", "VarProp"} /\ e.a[1].op = "*")
=============================================================================
