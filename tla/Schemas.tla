------------------------------ MODULE Schemas ------------------------------
(***************************************************************************)
(* The definitions of tags, edge types, indexes and spaces: how a sentence *)
(* becomes what is stored (parser/MaintainSentences.h, AdminSentences.h,   *)
(* validator/MaintainValidator, AdminValidator, util/SchemaUtil), and how  *)
(* what is stored is described and shown as the text of a sentence again   *)
(* (util/SchemaUtil, IndexUtil, executor/admin/SpaceExecutor).  The meta   *)
(* service that stores them is external.                                   *)
(*                                                                         *)
(* An optional value is a sequence of at most one.  A text is the sequence *)
(* of what is printed, not its characters; `parser.yy' reads it back.      *)
(***************************************************************************)
EXTENDS Visitors

CONSTANT IntBits    \* the width of a 32 bit integer

\* A 64 bit integer stored in a 32 bit one.
ToInt(n) == LET half == 2 ^ (IntBits - 1) IN ((n + half) % (2 * half)) - half
Or(opt, default) == IF opt = <<>> THEN default ELSE opt[1]
NoSchema == [ok |-> FALSE]

(***************************************************************************)
(* CREATE TAG and CREATE EDGE.                                             *)
(***************************************************************************)
ColumnSpecification(name, type, len, isNull, default) ==
    [name |-> name, type |-> type, len |-> len, isNull |-> isNull, default |-> default]
SchemaPropItem(op, val) == [op |-> op, val |-> val]
CreateSchemaSentence(name, cols, props) ==
    [k |-> "schema", name |-> name, cols |-> cols, props |-> props]

Column(spec) ==
    [name |-> spec.name, type |-> spec.type, nullable |-> spec.isNull,
     len |-> IF spec.type = "FIXED_STRING" THEN <<spec.len>> ELSE <<>>,
     default |-> [i \in DOMAIN spec.default |-> FoldConstantExpr(spec.default[i])]]
ValidateColumns(specs) ==
    /\ \A i, j \in DOMAIN specs : i # j => specs[i].name # specs[j].name
    /\ \A i \in DOMAIN specs : \A n \in DOMAIN specs[i].default : IsEvaluable(specs[i].default[n])
Columns(specs) == [i \in DOMAIN specs |-> Column(specs[i])]

NoTtl == [duration |-> <<>>, col |-> <<>>]
TtlTypes == {"INT64", "TIMESTAMP"}
\* Only the first column of the name is looked at, and no other has it.
IsTtlCol(cols, name) == \E i \in DOMAIN cols : cols[i].name = name /\ cols[i].type \in TtlTypes
SetTTLDuration(item, ttl) == [ttl EXCEPT !.duration = <<item.val>>]
\* Mutant: the empty name that turns it off is looked for in the columns.
SetTTLColNamed(item, ttl, cols) ==
    IF IsTtlCol(cols, item.val) THEN <<[ttl EXCEPT !.col = <<item.val>>]>> ELSE <<>>
SetTTLCol(item, ttl, cols) ==
    IF item.val = "" \/ IsTtlCol(cols, item.val) THEN <<[ttl EXCEPT !.col = <<item.val>>]>> ELSE <<>>
RECURSIVE SetProps(_, _, _)
SetProps(props, ttl, cols) ==
    IF props = <<>> THEN <<ttl>>
    ELSE LET t == IF Head(props).op = "TTL_DURATION" THEN <<SetTTLDuration(Head(props), ttl)>>
                  ELSE SetTTLCol(Head(props), ttl, cols)
         IN IF t = <<>> THEN <<>> ELSE SetProps(Tail(props), t[1], cols)
\* A duration needs a column: there is no implicit one.
Implicit(ttl) == Or(ttl.duration, 0) # 0 /\ Or(ttl.col, "") = ""
ValidateProps(props, cols) ==
    LET t == SetProps(props, NoTtl, cols)
    IN IF t # <<>> /\ Implicit(t[1]) THEN <<>> ELSE t

\* CreateTagValidator and CreateEdgeValidator.  `declared' are the schemas that
\* the statements before it in the request create.
CreateSchemaValidate(s, declared) ==
    LET schema(cols, t) == IF t = <<>> THEN NoSchema
                           ELSE [ok |-> TRUE, k |-> "schema", name |-> s.name, cols |-> cols, ttl |-> t[1]]
        with(cols) == schema(cols, ValidateProps(s.props, cols))
    IN IF s.name \in declared \/ ~ValidateColumns(s.cols) THEN NoSchema ELSE with(Columns(s.cols))

(***************************************************************************)
(* ALTER TAG and ALTER EDGE.  The meta service applies the changes.        *)
(***************************************************************************)
AlterSchemaOptItem(op, cols) == [op |-> op, cols |-> cols]
AlterSchemaSentence(opts, props) == [opts |-> opts, props |-> props]
AlterItem(opt) == IF opt.op = "DROP" THEN opt ELSE [opt EXCEPT !.cols = Columns(@)]
\* The duration goes through an int; the column is checked by the meta service.
RECURSIVE AlterProps(_, _)
AlterProps(props, ttl) ==
    IF props = <<>> THEN ttl
    ELSE LET p == Head(props)
         IN AlterProps(Tail(props), IF p.op = "TTL_DURATION"
                                    THEN [ttl EXCEPT !.duration = <<ToInt(p.val)>>]
                                    ELSE [ttl EXCEPT !.col = <<p.val>>])
AlterSchemaValidate(s) ==
    [ok |-> \A i \in DOMAIN s.opts : s.opts[i].op = "DROP" \/ ValidateColumns(s.opts[i].cols),
     items |-> [i \in DOMAIN s.opts |-> AlterItem(s.opts[i])],
     ttl |-> AlterProps(s.props, NoTtl)]

ColumnNames(cols) == {cols[i].name : i \in DOMAIN cols}
ItemNames(item) == IF item.op = "DROP" THEN Elems(item.cols) ELSE ColumnNames(item.cols)
MetaAlterItem(x, item) ==
    LET names == ItemNames(item)
        changed(c) == item.cols[CHOOSE i \in DOMAIN item.cols : item.cols[i].name = c.name]
    IN IF \/ ~x.ok
          \/ item.op = "ADD" /\ names \cap ColumnNames(x.cols) # {}
          \/ item.op # "ADD" /\ ~(names \subseteq ColumnNames(x.cols))
          \/ item.op = "CHANGE" /\ Or(x.ttl.col, "") \in names
       THEN NoSchema
       ELSE CASE item.op = "ADD" -> [x EXCEPT !.cols = @ \o item.cols]
              [] item.op = "CHANGE" ->
                    [x EXCEPT !.cols = [i \in DOMAIN @ |-> IF @[i].name \in names THEN changed(@[i])
                                                           ELSE @[i]]]
              [] item.op = "DROP" ->
                    [x EXCEPT !.cols = SelectSeq(@, LAMBDA c : c.name \notin names),
                              !.ttl = IF Or(@.col, "") \in names THEN NoTtl ELSE @]
RECURSIVE MetaAlterItems(_, _)
MetaAlterItems(x, items) ==
    IF items = <<>> THEN x ELSE MetaAlterItems(MetaAlterItem(x, Head(items)), Tail(items))
MetaAlterSchema(x, alter) ==
    LET y == MetaAlterItems(x, alter.items)
        col == Or(alter.ttl.col, Or(y.ttl.col, ""))
        ttl == [duration |-> IF alter.ttl.col = <<"">> THEN <<0>>
                             ELSE <<Or(alter.ttl.duration, Or(y.ttl.duration, 0))>>,
                col |-> <<col>>]
    IN IF ~y.ok THEN NoSchema
       ELSE IF Implicit(ttl) \/ (col # "" /\ ~IsTtlCol(y.cols, col)) THEN NoSchema
       ELSE [y EXCEPT !.ttl = ttl]

(***************************************************************************)
(* DESCRIBE and SHOW CREATE.  The text of a value stands for itself; in    *)
(* quotes it is read back as a string.                                     *)
(***************************************************************************)
TypeToString(type, len) == IF type = "FIXED_STRING" THEN <<type>> \o len ELSE <<type>>
TextOf(v) == IF v.t = "STRING" THEN v ELSE [Val("STRING", 0) EXCEPT !.l = <<v>>]
DefaultText(e) ==
    IF ~IsConst(e) THEN <<"expr", e>>
    ELSE IF e.c.t \in {"INT", "FLOAT", "BOOL"} THEN <<"literal", e.c>> ELSE <<"quoted", TextOf(e.c)>>
ToDescSchema(x) ==
    [i \in DOMAIN x.cols |->
        <<x.cols[i].name, TypeToString(x.cols[i].type, x.cols[i].len),
          IF x.cols[i].nullable THEN "YES" ELSE "NO",
          IF x.cols[i].default = <<>> THEN <<"empty">>
          ELSE IF IsConst(x.cols[i].default[1]) THEN <<"value", x.cols[i].default[1].c>>
          ELSE <<"text", x.cols[i].default[1]>> >>]
ToShowCreateSchema(x) ==
    [k |-> "schema", name |-> x.name,
     cols |-> [i \in DOMAIN x.cols |->
                 [name |-> x.cols[i].name, type |-> TypeToString(x.cols[i].type, x.cols[i].len),
                  null |-> IF x.cols[i].nullable THEN "NULL" ELSE "NOT NULL",
                  default |-> [n \in DOMAIN x.cols[i].default |-> DefaultText(x.cols[i].default[n])]]],
     duration |-> Or(x.ttl.duration, 0), col |-> Or(x.ttl.col, "")]

\* The grammar: type_spec, column_spec and schema_prop_item.  There are no
\* negative literals; a minus is an operator.
ParseDefault(t) ==
    CASE t[1] = "literal" /\ t[2].t # "BOOL" /\ t[2].n < 0 ->
            Mk("Unary", "-", <<Const([t[2] EXCEPT !.n = -@])>>)
      [] t[1] = "expr" -> t[2]
      [] OTHER -> Const(t[2])
ParseType(t) == [type |-> t[1], len |-> IF Len(t) = 2 THEN t[2] ELSE 0]
ParseColumn(c) ==
    LET type == ParseType(c.type)
    IN ColumnSpecification(c.name, type.type, type.len, c.null = "NULL",
                           [i \in DOMAIN c.default |-> ParseDefault(c.default[i])])
ParseSchema(t) ==
    IF t.duration < 0 THEN NoSchema
    ELSE [ok |-> TRUE,
          s |-> CreateSchemaSentence(t.name, [i \in DOMAIN t.cols |-> ParseColumn(t.cols[i])],
                    <<SchemaPropItem("TTL_DURATION", t.duration), SchemaPropItem("TTL_COL", t.col)>>)]

(***************************************************************************)
(* Indexes.  A field is a name and, for the prefix of a string, a length,  *)
(* which is not shown.                                                     *)
(***************************************************************************)
CreateIndexSentence(name, on, fields) == [k |-> "index", name |-> name, on |-> on, fields |-> fields]
MetaCreateIndex(s) ==
    IF s.fields = <<>> \/ \E i, j \in DOMAIN s.fields : i # j /\ s.fields[i].name = s.fields[j].name
    THEN NoSchema
    ELSE [ok |-> TRUE, k |-> "index", name |-> s.name, on |-> s.on, fields |-> s.fields]
ToShowCreateIndex(x) ==
    [k |-> "index", name |-> x.name, on |-> x.on,
     fields |-> [i \in DOMAIN x.fields |-> x.fields[i].name]]
ParseIndex(t) ==
    [ok |-> TRUE, s |-> CreateIndexSentence(t.name, t.on,
                            [i \in DOMAIN t.fields |-> [name |-> t.fields[i], len |-> <<>>]])]

(***************************************************************************)
(* Spaces.                                                                 *)
(***************************************************************************)
SpaceOptItem(op, val) == [op |-> op, val |-> val]
CreateSpaceSentence(name, opts) == [k |-> "space", name |-> name, opts |-> opts]
\* nebula-common's CharsetInfo and the flags.
CharsetOf == [utf8_bin |-> "utf8"]
DefaultCollation == [utf8 |-> "utf8_bin"]
DefaultCharset == "utf8"

NoSpaceDesc == [partition_num |-> <<>>, replica_factor |-> <<>>, vid_type |-> <<>>,
                charset |-> <<>>, collate |-> <<>>, isolation |-> <<>>]
VidTypeOk(type) == type.type = "INT64" \/ (type.type = "FIXED_STRING" /\ type.len > 0)
VidTypeDef(type) == [type EXCEPT !.len = IF type.type = "INT64" THEN 8 ELSE @]
\* One option: the group is read by the parser and never used.
SpaceOpt(d, o) ==
    CASE o.op = "PARTITION_NUM" ->
            IF ToInt(o.val) > 0 THEN <<[d EXCEPT !.partition_num = <<ToInt(o.val)>>]>> ELSE <<>>
      [] o.op = "REPLICA_FACTOR" ->
            IF ToInt(o.val) > 0 THEN <<[d EXCEPT !.replica_factor = <<ToInt(o.val)>>]>> ELSE <<>>
      [] o.op = "VID_TYPE" ->
            IF VidTypeOk(o.val) THEN <<[d EXCEPT !.vid_type = <<VidTypeDef(o.val)>>]>> ELSE <<>>
      [] o.op = "CHARSET" ->
            IF o.val \in DOMAIN DefaultCollation THEN <<[d EXCEPT !.charset = <<o.val>>]>> ELSE <<>>
      [] o.op = "COLLATE" ->
            IF o.val \in DOMAIN CharsetOf THEN <<[d EXCEPT !.collate = <<o.val>>]>> ELSE <<>>
      [] o.op = "ATOMIC_EDGE" ->
            <<[d EXCEPT !.isolation = <<IF o.val THEN "TOSS" ELSE "DEFAULT">>]>>
      [] o.op = "GROUP_NAME" -> <<d>>
RECURSIVE SpaceOpts(_, _)
SpaceOpts(d, opts) ==
    IF opts = <<>> THEN <<d>>
    ELSE LET e == SpaceOpt(d, Head(opts)) IN IF e = <<>> THEN <<>> ELSE SpaceOpts(e[1], Tail(opts))
\* What is missing of charset and collation follows from the other, or from the
\* flags; both given have to match.
WithCharset(d) ==
    LET cs == Or(d.charset, IF d.collate = <<>> THEN DefaultCharset ELSE CharsetOf[d.collate[1]])
        co == Or(d.collate, DefaultCollation[cs])
    IN IF CharsetOf[co] = cs THEN <<[d EXCEPT !.charset = <<cs>>, !.collate = <<co>>]>> ELSE <<>>
CreateSpaceValidate(s) ==
    LET d == SpaceOpts(NoSpaceDesc, s.opts)
        e == IF d = <<>> THEN <<>> ELSE WithCharset(d[1])
    IN IF e = <<>> THEN NoSchema ELSE [ok |-> TRUE, k |-> "space", name |-> s.name, desc |-> e[1]]
\* The meta service has a default for what is not given.
MetaCreateSpace(x) ==
    [x EXCEPT !.desc = [@ EXCEPT !.partition_num = <<Or(@, 2)>>, !.replica_factor = <<Or(@, 1)>>,
                                 !.vid_type = <<Or(@, [type |-> "FIXED_STRING", len |-> 8])>>]]
ShowCreateSpace(x) ==
    LET d == x.desc
    IN [k |-> "space", name |-> x.name, partition_num |-> d.partition_num[1],
        replica_factor |-> d.replica_factor[1], charset |-> d.charset[1], collate |-> d.collate[1],
        vid_type |-> TypeToString(d.vid_type[1].type, <<d.vid_type[1].len>>),
        atomic_edge |-> d.isolation = <<"TOSS">>, on |-> "default"]
ParseSpace(t) ==
    [ok |-> TRUE, s |-> CreateSpaceSentence(t.name,
        <<SpaceOptItem("PARTITION_NUM", t.partition_num),
          SpaceOptItem("REPLICA_FACTOR", t.replica_factor), SpaceOptItem("CHARSET", t.charset),
          SpaceOptItem("COLLATE", t.collate), SpaceOptItem("VID_TYPE", ParseType(t.vid_type)),
          SpaceOptItem("ATOMIC_EDGE", t.atomic_edge), SpaceOptItem("GROUP_NAME", t.on)>>)]

(***************************************************************************)
(* What a sentence stores, what is shown of it, and what the text stores.  *)
(***************************************************************************)
Create(s) ==
    CASE s.k = "schema" -> CreateSchemaValidate(s, {})
      [] s.k = "index" -> MetaCreateIndex(s)
      [] s.k = "space" -> LET x == CreateSpaceValidate(s) IN IF x.ok THEN MetaCreateSpace(x) ELSE x
ShowCreate(x) == CASE x.k = "schema" -> ToShowCreateSchema(x)
                   [] x.k = "index" -> ToShowCreateIndex(x)
                   [] x.k = "space" -> ShowCreateSpace(x)
Parse(t) == CASE t.k = "schema" -> ParseSchema(t)
              [] t.k = "index" -> ParseIndex(t)
              [] t.k = "space" -> ParseSpace(t)
=============================================================================
