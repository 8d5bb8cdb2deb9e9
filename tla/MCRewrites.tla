----------------------------- MODULE MCRewrites -----------------------------
(***************************************************************************)
(* Expressions over two properties and an input column, filters over the   *)
(* columns of three indexes, and all values of small types.                *)
(***************************************************************************)
EXTENDS Rewrites

C(n) == Const(IntV(n))
L(p) == Prop("LabelAttribute", "t", p)
Rel(op, x, y) == Mk("Relational", op, <<x, y>>)
Bin(k, x, y) == Mk(k, "", <<x, y>>)
Plus(x, y) == Mk("Arithmetic", "+", <<x, y>>)
MCEdgeTypes == "e" :> 1
MCSchema == [k \in {<<"TagProp", "t", p>> : p \in {"a", "b"}} |-> "INT"]
MCIndexes == <<[schema |-> "t", fields |-> <<"a">>], [schema |-> "t", fields |-> <<"b", "a">>],
               [schema |-> "t", fields |-> <<"a", "b">>]>>
MCSearch == <<>>
MCGraph == [edges |-> <<>>,
            verts |-> [v \in 1..9 |-> (<<"t", "a">> :> IntV((v - 1) \div 3)) @@
                                      (<<"t", "b">> :> IntV((v - 1) % 3))]]
MCLimits == ("INT" :> <<3>>) @@ ("FLOAT" :> <<24>>) @@ ("STRING" :> <<2, 2, 2>>)
            @@ ("DATE" :> <<2, 2, 3>>) @@ ("TIME" :> <<2, 2, 2, 2>>)
            @@ ("DATETIME" :> <<1, 2, 2, 1, 1, 1, 1>>)

(***************************************************************************)
(* Expressions.                                                            *)
(***************************************************************************)
In == InputProp("x")
Src == Prop("SrcProp", "t", "a")
Dst == Prop("DstProp", "t", "a")
MCBindings == {(Key(In) :> x) @@ (Key(Src) :> y) @@ (Key(Dst) :> z) :
                 x \in {IntV(0), IntV(1), Null}, y \in {IntV(1), IntV(2)}, z \in {IntV(0), IntV(2)}}
MCTypes == [k \in {Key(In), Key(Src), Key(Dst)} |-> "INT"]
Leaves == {In, Src, Dst, C(0), C(1), Const(Null), Const(True)}
Terms == {Mk("Arithmetic", op, <<x, y>>) : op \in {"+", "/"}, x \in Leaves, y \in Leaves}
         \cup {Mk("Unary", op, <<x>>) : op \in {"-", "!", "+"}, x \in Leaves}
         \cup {Mk("Cast", t, <<x>>) : t \in {"INT", "STRING"}, x \in Leaves}
         \cup {Mk("Function", "abs", <<x>>) : x \in Leaves}
         \cup {Mk("Function", "rand32", <<>>)}
         \cup {Mk("List", "", <<x, y>>) : x \in Leaves, y \in {C(1), In}}
Nested == {Mk("Subscript", "", <<Mk("List", "", <<x, C(1)>>), y>>) : x \in Leaves, y \in {C(0), C(2), In}}
          \cup {Mk("Case", "", <<x, Rel("==", y, C(1)), C(2)>>) : x \in Leaves, y \in Leaves}
          \cup {Rel(op, t, x) : op \in {"<", "=="}, t \in Terms, x \in {C(1), Dst}}
          \cup {Rel("IN", x, Mk("List", "", <<y, C(1)>>)) : x \in Leaves, y \in Leaves}
          \cup {Plus(Mk("Unary", "-", <<C(1)>>), t) : t \in Terms}
X == Prop("Variable", "", "x")
Acc == Prop("Variable", "", "acc")
List2(x) == Mk("List", "", <<x, C(1)>>)
Scoped == {Mk("ListComp", "", <<List2(x), Rel("<", X, C(1)), Plus(X, y)>>) : x \in Leaves, y \in Leaves}
          \cup {Mk("Predicate", "", <<List2(x), Rel("<", X, y)>>) : x \in Leaves, y \in Leaves}
          \cup {Mk("Reduce", "", <<y, List2(x), Plus(Acc, X)>>) : x \in Leaves, y \in Leaves}
Atoms == {Rel(">", Src, C(1)), Rel("==", In, C(1)), Rel("<", Dst, C(1)), Const(True), Const(Null)}
Logic1 == {Bin(k, x, y) : k \in {"And", "Or"}, x \in Atoms, y \in Atoms}
Logic2 == {Bin(k, x, y) : k \in {"And", "Or"}, x \in Logic1, y \in Atoms}
          \cup {Bin(k, x, y) : k \in {"And", "Or"}, x \in {Rel(">", Src, C(1))}, y \in Logic1}
Logic3 == {Bin(k, x, y) : k \in {"And", "Or"},
                          x \in {Bin(j, Rel(">", Src, C(1)), Rel("==", In, C(1))) : j \in {"And", "Or"}},
                          y \in Logic1}
MCExprs == Terms \cup Nested \cup Scoped \cup Logic1 \cup Logic2 \cup Logic3

(***************************************************************************)
(* Filters.  A disjunction with != is left to the index that is chosen for *)
(* a conjunction, which loses rows: such filters are left out.             *)
(***************************************************************************)
Items == {Rel(op, L(p), C(n)) : op \in {"==", "!=", "<", "<=", ">", ">="}, p \in {"a", "b"}, n \in 0..2}
         \cup {Rel("<", C(1), L("b"))}
MCScans == Items \cup {Bin("And", x, y) : x \in Items, y \in Items}
           \cup {Bin("Or", x, y) : x \in {i \in Items : i.op # "!="}, y \in {i \in Items : i.op # "!="}}
           \cup {Bin("And", Bin("And", x, Rel("==", L("b"), C(1))), y) : x \in Items, y \in Items}

(***************************************************************************)
(* Definitions.  Left out, for their text is not what was stored: defaults *)
(* that are null or a date (shown as strings), fields of an index with a   *)
(* length (not shown), durations that do not fit into an int.              *)
(***************************************************************************)
Neg(x) == Mk("Unary", "-", <<x>>)
Spec1(name, type, isNull, default) == ColumnSpecification(name, type, 4, isNull, default)
Defaults == <<<<>>, <<C(3)>>, <<Neg(C(3))>>, <<Neg(Plus(C(1), C(2)))>>, <<Plus(C(1), C(2))>>,
             <<Const(True)>>, <<Const(Val("STRING", 1))>>, <<Mk("Function", "rand32", <<>>)>>>>
Ttl(duration) == SchemaPropItem("TTL_DURATION", duration)
TtlCol(name) == SchemaPropItem("TTL_COL", name)
Creates == [n \in 0..95 |->
               CreateSchemaSentence("t",
                   <<Spec1("a", <<"INT64", "FIXED_STRING", "STRING">>[1 + (n % 3)], (n \div 3) % 2 = 0,
                           Defaults[1 + ((n \div 6) % 8)]),
                     Spec1("b", "TIMESTAMP", TRUE, <<>>)>>,
                   IF n < 48 THEN <<>> ELSE <<TtlCol("")>>)]
MCDefinitions ==
    [n \in 1..96 |-> Creates[n - 1]]
    \o [i \in 1..6 |->
          CreateSchemaSentence("t", <<Spec1("a", "INT64", TRUE, <<>>), Spec1("b", "STRING", FALSE, <<>>)>>,
              CASE i = 1 -> <<TtlCol("a")>>
                [] i = 2 -> <<Ttl(100), TtlCol("a")>>
                [] i = 3 -> <<TtlCol("a"), Ttl(7)>>
                [] i = 4 -> <<Ttl(7)>>
                [] i = 5 -> <<Ttl(7), TtlCol("b")>>
                [] i = 6 -> <<Ttl(0)>>)]
    \o <<CreateSchemaSentence("t", <<>>, <<>>),
         CreateSchemaSentence("t", <<Spec1("a", "INT64", TRUE, <<>>), Spec1("a", "BOOL", TRUE, <<>>)>>, <<>>),
         CreateSchemaSentence("t", <<Spec1("a", "INT64", TRUE, <<L("b")>>)>>, <<>>),
         CreateIndexSentence("i", "t", <<[name |-> "a", len |-> <<>>], [name |-> "b", len |-> <<>>]>>),
         CreateIndexSentence("i", "t", <<>>)>>
    \o LET opts == <<SpaceOptItem("PARTITION_NUM", 3), SpaceOptItem("REPLICA_FACTOR", 2),
                     SpaceOptItem("VID_TYPE", [type |-> "INT64", len |-> 0]),
                     SpaceOptItem("VID_TYPE", [type |-> "FIXED_STRING", len |-> 5]),
                     SpaceOptItem("CHARSET", "utf8"), SpaceOptItem("COLLATE", "utf8_bin"),
                     SpaceOptItem("ATOMIC_EDGE", TRUE), SpaceOptItem("ATOMIC_EDGE", FALSE),
                     SpaceOptItem("GROUP_NAME", "g"), SpaceOptItem("PARTITION_NUM", 0)>>
       IN [n \in 1..100 |->
             CreateSpaceSentence("s", <<opts[1 + ((n - 1) \div 10)], opts[1 + ((n - 1) % 10)]>>)]
MCAlters ==
    <<AlterSchemaSentence(<<AlterSchemaOptItem("ADD", <<Spec1("c", "INT64", FALSE, <<C(1)>>)>>)>>, <<>>),
      AlterSchemaSentence(<<AlterSchemaOptItem("ADD", <<Spec1("c", "FIXED_STRING", TRUE, <<>>)>>)>>, <<TtlCol("a")>>),
      AlterSchemaSentence(<<AlterSchemaOptItem("DROP", <<"a">>)>>, <<>>),
      AlterSchemaSentence(<<AlterSchemaOptItem("CHANGE", <<Spec1("a", "BOOL", TRUE, <<>>)>>)>>, <<>>),
      AlterSchemaSentence(<<AlterSchemaOptItem("DROP", <<"b">>), AlterSchemaOptItem("ADD", <<Spec1("b", "INT64", TRUE, <<>>)>>)>>,
                          <<TtlCol("b"), Ttl(9)>>),
      AlterSchemaSentence(<<>>, <<TtlCol("")>>), AlterSchemaSentence(<<>>, <<Ttl(5)>>),
      AlterSchemaSentence(<<>>, <<Ttl(0)>>)>>
=============================================================================
