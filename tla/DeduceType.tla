----------------------------- MODULE DeduceType -----------------------------
(***************************************************************************)
(* DeduceTypeVisitor: the type of an expression, or "ERROR".  An operator  *)
(* of this module takes the types its operands were given, in the order of *)
(* the operands; the visitor stops at the first error, whichever operand   *)
(* reports it.                                                             *)
(***************************************************************************)
EXTENDS Visitors

\* kConstantValues: a sample of each type, to which the operator is applied.
\* The table has no entry for TIME: its lookup throws.
Sample(t) ==
    CASE t = "BOOL" -> True [] t = "INT" -> IntV(1) [] t = "STRING" -> Val("STRING", 123)
      [] t = "NULL" -> Null [] t = "EMPTY" -> Empty [] t = "LIST" -> ListV(<<>>)
      [] OTHER -> Val(t, 0)
\* DETECT_UNARYEXPR_TYPE, DETECT_BIEXPR_TYPE and DETECT_NARYEXPR_TYPE.
Detected(v) == IF v = BadNull THEN "ERROR" ELSE v.t
RECURSIVE DetectNary(_, _)
DetectNary(kind, ts) ==
    IF Len(ts) = 1 \/ ts[1] = "ERROR" THEN ts[1]
    ELSE DetectNary(kind, <<Detected(Logic(kind, Sample(ts[1]), Sample(ts[2])))>>
                          \o SubSeq(ts, 3, Len(ts)))

\* isSuperiorType: a type that is only known when the expression runs.
IsSuperior(t) == t \in {"NULL", "EMPTY"}

TypeOfUnary(e, ts) ==
    CASE e.op = "+" -> ts[1]
      [] e.op \in {"-", "!"} -> Detected(Negate(e.op, Sample(ts[1])))
      [] e.op = "++" -> Detected(Arith("+", Sample(ts[1]), IntV(1)))
      [] OTHER -> Detected(Arith("-", Sample(ts[1]), IntV(1)))

\* An operand that needs no row is cast at once.
TypeOfCast(e, ts) ==
    IF ~IsEvaluable(e.a[1])
    THEN IF ValidateTypeCast(ts[1], e.op) THEN e.op ELSE "ERROR"
    ELSE LET v == Eval(e, NoRow) IN IF v.t = "NULL" THEN "ERROR" ELSE v.t

TypeOfArithmetic(e, ts) == Detected(Arith(e.op, Sample(ts[1]), Sample(ts[2])))
TypeOfRelational(e, ts) ==
    IF e.op \in {"IN", "NOT IN"} /\ ts[2] \notin {"LIST", "SET", "MAP"} THEN "ERROR" ELSE "BOOL"
TypeOfSubscript(ts) ==
    IF \/ ts[1] \notin {"LIST", "MAP", "NULL", "EMPTY"}
       \/ ts[1] = "LIST" /\ ts[2] \notin {"INT", "NULL", "EMPTY"}
       \/ ts[1] = "MAP" /\ ts[2] \notin {"STRING", "NULL", "EMPTY"}
    THEN "ERROR" ELSE "EMPTY"
TypeOfAttribute(ts) ==
    IF /\ ts[1] \in {"MAP", "VERTEX", "EDGE"} \/ IsSuperior(ts[1])
       /\ ts[2] = "STRING" \/ IsSuperior(ts[2])
    THEN "EMPTY" ELSE "ERROR"
\* XOR is deduced with the operator of OR.
TypeOfLogical(e, ts) == DetectNary(IF e.k = "And" THEN "And" ELSE "Or", ts)
TypeOfFunction(e, ts, vidType) ==
    IF e.op \in {"id", "src", "dst"} THEN vidType ELSE ReturnType(e.op, ts)
TypeOfAggregate(e, ts) ==
    CASE e.op \in {"count", "bit_and", "bit_or", "bit_xor"} -> "INT"
      [] e.op \in {"sum", "max", "min"} -> ts[1]
      [] e.op \in {"avg", "stdev"} -> "FLOAT"
      [] e.op = "collect" -> "LIST"
      [] OTHER -> "SET"
\* Mutant: a case has the type of its default.
TypeOfCaseDefault(e, ts) == ts[1]
\* Without a condition, every WHEN is a boolean; the operands of a case are
\* its condition, its default and then each WHEN with its THEN.
TypeOfCase(e, ts) ==
    LET skip == IF e.op = "condition" THEN 2 ELSE 1
    IN IF e.op # "condition" /\ \E i \in DOMAIN ts : i > skip /\ (i - skip) % 2 = 1 /\ ts[i] # "BOOL"
       THEN "ERROR" ELSE "EMPTY"
\* A predicate, a comprehension and a reduction want a list.
TypeOfScoped(e, ts) ==
    LET coll == IF e.k = "Reduce" THEN ts[2] ELSE ts[1]
    IN CASE IsSuperior(coll) -> coll
         [] coll = "LIST" -> (CASE e.k = "Predicate" -> "BOOL" [] e.k = "ListComp" -> "LIST"
                                [] OTHER -> "EMPTY")
         [] OTHER -> "ERROR"
\* The schema, the columns of the input and those of the variables: sch gives
\* the types of the properties that exist.
TypeOfVertexProperty(e, sch) == IF Key(e) \in DOMAIN sch THEN sch[Key(e)] ELSE "ERROR"
TypeOfEdgeProperty(e, sch) == IF Key(e) \in DOMAIN sch THEN sch[Key(e)] ELSE "ERROR"
TypeOfColumn(e, sch) == IF Key(e) \in DOMAIN sch THEN sch[Key(e)] ELSE "ERROR"
\* Labels and variables are not deduced, and a container is not searched.
TypeOfLeaf(e, vidType) ==
    CASE e.k = "Constant" -> e.c.t
      [] e.k = "List" -> "LIST" [] e.k = "Set" -> "SET" [] e.k = "Map" -> "MAP"
      [] e.k = "UUID" -> "STRING" [] e.k = "PathBuild" -> "PATH"
      [] e.k \in {"EdgeSrc", "EdgeDst"} -> vidType
      [] e.k \in {"EdgeType", "EdgeRank"} -> "INT"
      [] e.k = "Vertex" -> "VERTEX" [] e.k = "Edge" -> "EDGE"
      [] OTHER -> "EMPTY"

RECURSIVE TypeOf(_, _, _)
TypeOf(e, sch, vidType) ==
    LET ts == [i \in DOMAIN e.a |-> TypeOf(e.a[i], sch, vidType)]
        visited == e.k \notin {"List", "Set", "Map", "PathBuild"}
    IN CASE visited /\ \E i \in DOMAIN ts : ts[i] = "ERROR" -> "ERROR"
         [] OTHER ->
            CASE e.k = "Unary" -> TypeOfUnary(e, ts)
              [] e.k = "Cast" -> TypeOfCast(e, ts)
              [] e.k = "Arithmetic" -> TypeOfArithmetic(e, ts)
              [] e.k = "Relational" -> TypeOfRelational(e, ts)
              [] e.k = "Subscript" -> TypeOfSubscript(ts)
              [] e.k = "Attribute" -> TypeOfAttribute(ts)
              [] e.k \in LogicalKinds -> TypeOfLogical(e, ts)
              [] e.k = "Function" -> TypeOfFunction(e, ts, vidType)
              [] e.k = "Aggregate" -> TypeOfAggregate(e, ts)
              [] e.k = "Case" -> TypeOfCase(e, ts)
              [] e.k \in {"Predicate", "ListComp", "Reduce"} -> TypeOfScoped(e, ts)
              [] e.k \in {"TagProp", "SrcProp", "DstProp"} -> TypeOfVertexProperty(e, sch)
              [] e.k = "EdgeProp" -> TypeOfEdgeProperty(e, sch)
              [] e.k \in {"InputProp", "VarProp"} -> TypeOfColumn(e, sch)
              [] OTHER -> TypeOfLeaf(e, vidType)
=============================================================================
