----------------------------- MODULE Mutations ------------------------------
(***************************************************************************)
(* The statements that write data: INSERT, UPDATE, UPSERT and DELETE, for  *)
(* vertices and for edges (src/src/parser/MutateSentences.h,               *)
(* src/src/validator/MutateValidator, src/src/planner/Mutate.h,            *)
(* src/src/executor/mutate).                                               *)
(*                                                                         *)
(* An edge is stored twice: under its source with its type, and under its  *)
(* destination with the negated type.  The storage service splits the data *)
(* into parts by vertex id, so the two copies may be in two parts, and     *)
(* nothing but the order of the requests sent from here ties them          *)
(* together, unless the isolation level of the space is TOSS: then the     *)
(* storage service writes the second copy itself.                          *)
(*                                                                         *)
(* A sentence becomes a plan, a chain of nodes; the executor of a node     *)
(* turns its input into a call: for every part, the operations that are    *)
(* sent to it.  Schemas do not change here.                                *)
(***************************************************************************)
EXTENDS Integers, SequencesExt, FiniteSetsExt, Functions

CONSTANTS
    Vids,         \* values of the type that vertex ids have in the space
    PartOf,       \* the part that holds a vertex
    TagSchema,    \* the properties of every tag
    EdgeSchema,   \* the properties of every edge type, by its name
    EdgeTypeOf,   \* the number of every edge type, positive
    Numbers,      \* property values
    Null,         \* the value NULL
    BadValue,     \* an expression whose value is NULL by an error
    NotConstant,  \* an expression that needs a row to be evaluated
    WrongVid,     \* a value of another type than vertex ids have
    NoName        \* a name that was not given

ASSUME PartAssumption == DOMAIN PartOf = Vids
ASSUME TypeAssumption ==
    /\ DOMAIN EdgeTypeOf = DOMAIN EdgeSchema
    /\ \A n \in DOMAIN EdgeTypeOf : EdgeTypeOf[n] \in Nat \ {0}
    /\ \A n, m \in DOMAIN EdgeTypeOf : EdgeTypeOf[n] = EdgeTypeOf[m] => n = m

Values == Numbers \cup {Null, BadValue, NotConstant}
VidValues == Vids \cup {Null, WrongVid, NotConstant}
Ranks == {0, 1}
Names == DOMAIN TagSchema \cup DOMAIN EdgeSchema \cup {NoName, "unknown"}
Props == UNION Range(TagSchema) \cup UNION Range(EdgeSchema) \cup {"unknown"}

-----------------------------------------------------------------------------
(* Sentences, as the parser builds them *)

VertexTagItem == [tag : Names, props : Seq(Props)]
VertexRowItem == [id : VidValues, values : Seq(Values)]
InsertVerticesSentence ==
    [op : {"INSERT VERTEX"}, tags : Seq(VertexTagItem), rows : Seq(VertexRowItem),
     overwritable : BOOLEAN]

EdgeRowItem == [src : VidValues, dst : VidValues, rank : Ranks, values : Seq(Values)]
InsertEdgesSentence ==
    [op : {"INSERT EDGE"}, edge : Names, props : Seq(Props), rows : Seq(EdgeRowItem),
     overwritable : BOOLEAN]

\* The expressions of an update: a constant, a property plus a constant, and
\* one that reads what an update cannot read.
UpdateExpression ==
    [k : {"constant"}, n : Numbers] \cup [k : {"plus"}, prop : Props, n : Numbers] \cup [k : {"wrong"}]

\* SET field = value, SET sym.field = value
UpdateItem == [sym : Names, field : Props, value : UpdateExpression]

\* WHEN prop == n
WhenClause == [k : {"none", "wrong"}] \cup [k : {"equal"}, prop : Props, n : Numbers]

UpdateVertexSentence ==
    [op : {"UPDATE VERTEX"}, id : VidValues, name : Names, items : Seq(UpdateItem),
     when : WhenClause, yield : Seq(Props), insertable : BOOLEAN]
UpdateEdgeSentence ==
    [op : {"UPDATE EDGE"}, src : VidValues, dst : VidValues, rank : Ranks, name : Names,
     items : Seq(UpdateItem), when : WhenClause, yield : Seq(Props), insertable : BOOLEAN]

\* A list of ids, or a reference to a column: the values that the column has
\* when the statement is executed, and the type that was deduced for it.
DeleteVerticesSentence ==
    [op : {"DELETE VERTEX"}, isRef : BOOLEAN, vids : Seq(VidValues), type : {"STRING", "INT"}]

EdgeKeyItem == [src : VidValues, dst : VidValues, rank : Ranks \cup {Null}]
DeleteEdgesSentence ==
    [op : {"DELETE EDGE"}, edge : Names, isRef : BOOLEAN, keys : Seq(EdgeKeyItem)]

-----------------------------------------------------------------------------
(* Validation *)

Accept(plan) == [ok |-> TRUE, plan |-> plan]
Reject == [ok |-> FALSE, plan |-> <<>>]

\* InsertVerticesValidator::check
InsertVerticesCheck(s) ==
    /\ s.rows # <<>>
    /\ \A item \in Range(s.tags) :
          /\ item.tag \in DOMAIN TagSchema
          /\ Range(item.props) \subseteq TagSchema[item.tag]

PropSize(s) == FoldLeft(LAMBDA n, item : n + Len(item.props), 0, s.tags)

\* prepareVertices: the conditions on a row.
VertexRowOk(s, row) ==
    /\ Len(row.values) = PropSize(s)
    /\ row.id \in Vids
    /\ \A v \in Range(row.values) : v \notin {NotConstant, BadValue}

\* Mutant: the values of every tag are taken from the start of the row.
NewTagsFromStart(s, row) ==
    [k \in DOMAIN s.tags |->
        [tag |-> s.tags[k].tag, names |-> s.tags[k].props,
         props |-> SubSeq(row.values, 1, Len(s.tags[k].props))]]

\* prepareVertices: the values of a row are dealt out to the tags in turn.
NewTags(s, row) ==
    LET Before(k) == PropSize([tags |-> SubSeq(s.tags, 1, k - 1)])
    IN  [k \in DOMAIN s.tags |->
            [tag |-> s.tags[k].tag, names |-> s.tags[k].props,
             props |-> SubSeq(row.values, Before(k) + 1, Before(k) + Len(s.tags[k].props))]]

InsertVertices(s) ==
    [kind |-> "InsertVertices", overwritable |-> s.overwritable,
     vertices |-> [i \in DOMAIN s.rows |-> [id |-> s.rows[i].id, tags |-> NewTags(s, s.rows[i])]]]

InsertVerticesValidator(s) ==
    IF InsertVerticesCheck(s) /\ \A row \in Range(s.rows) : VertexRowOk(s, row)
    THEN Accept(<<InsertVertices(s)>>) ELSE Reject

\* InsertEdgesValidator::check
InsertEdgesCheck(s) ==
    /\ s.edge \in DOMAIN EdgeSchema
    /\ Range(s.props) \subseteq EdgeSchema[s.edge]

EdgeKey(src, type, rank, dst) == [src |-> src, type |-> type, rank |-> rank, dst |-> dst]

\* The key of the other copy of an edge.
Twin(key) == EdgeKey(key.dst, -key.type, key.rank, key.src)

EdgeRowOk(s, row) ==
    /\ Len(row.values) = Len(s.props)
    /\ row.src \in Vids /\ row.dst \in Vids
    /\ \A v \in Range(row.values) : v \notin {NotConstant, BadValue}

\* prepareEdges: the outbound edge, and the inbound one unless TOSS adds it.
NewEdges(s, row, toss) ==
    LET out == [key |-> EdgeKey(row.src, EdgeTypeOf[s.edge], row.rank, row.dst),
                props |-> row.values]
    IN  IF toss THEN <<out>> ELSE <<out, [out EXCEPT !.key = Twin(out.key)]>>

InsertEdges(s, toss) ==
    [kind |-> "InsertEdges", overwritable |-> s.overwritable, names |-> s.props,
     useChainInsert |-> toss, name |-> s.edge,
     edges |-> FlattenSeq([i \in DOMAIN s.rows |-> NewEdges(s, s.rows[i], toss)])]

InsertEdgesValidator(s, toss) ==
    IF InsertEdgesCheck(s) /\ \A row \in Range(s.rows) : EdgeRowOk(s, row)
    THEN Accept(<<InsertEdges(s, toss)>>) ELSE Reject

\* getUpdateProps: the tag or edge type that an item sets a property of.
SymOf(s, item) == IF item.sym = NoName THEN s.name ELSE item.sym

\* UpdateValidator::initProps with checkAndResetSymExpr: one tag or edge type,
\* and no expression that an update cannot evaluate.
InitProps(s) ==
    /\ Cardinality({SymOf(s, item) : item \in Range(s.items)}) = 1
    /\ \A item \in Range(s.items) : item.value.k # "wrong"
    /\ s.when.k # "wrong"

\* name_ after getUpdateProps
UpdatedName(s) == SymOf(s, Last(s.items))

Update(s) ==
    [name |-> UpdatedName(s), insertable |-> s.insertable,
     items |-> [i \in DOMAIN s.items |-> [field |-> s.items[i].field, value |-> s.items[i].value]],
     when |-> s.when]

UpdateVertex(s) == [kind |-> "UpdateVertex", id |-> s.id, update |-> Update(s), yield |-> s.yield]

UpdateVertexValidator(s) ==
    IF s.id \in Vids /\ InitProps(s) /\ UpdatedName(s) \in DOMAIN TagSchema
    THEN Accept(<<UpdateVertex(s)>>) ELSE Reject

UpdateEdge(s, key, yield) ==
    [kind |-> "UpdateEdge", key |-> key, update |-> Update(s), yield |-> yield]

\* UpdateEdgeValidator::toPlan: the edge, then its reversed copy, whose node
\* returns the properties.  With TOSS there is no second node, and nothing is
\* returned.
UpdateEdgeToPlan(s, toss) ==
    LET key == EdgeKey(s.src, EdgeTypeOf[UpdatedName(s)], s.rank, s.dst)
        out == UpdateEdge(s, key, <<>>)
    IN  IF toss THEN <<out>> ELSE <<out, UpdateEdge(s, Twin(key), s.yield)>>

UpdateEdgeValidator(s, toss) ==
    IF s.src \in Vids /\ s.dst \in Vids /\ InitProps(s) /\ UpdatedName(s) \in DOMAIN EdgeSchema
    THEN Accept(UpdateEdgeToPlan(s, toss)) ELSE Reject

\* A reference must have been deduced to be a string, whatever the type of
\* vertex ids in the space is.
DeleteVerticesValidate(s) ==
    IF s.isRef THEN s.type = "STRING" ELSE Range(s.vids) \subseteq Vids

\* Mutant: only the outbound edges are read.
GetNeighborsOut(s) ==
    [kind |-> "GetNeighbors", input |-> s.vids, types |-> Range(EdgeTypeOf)]

\* The nodes that DELETE VERTEX is planned with: the edges at the vertices are
\* read, of every type and in both directions, and deleted, then the vertices.
GetNeighbors(s) ==
    [kind |-> "GetNeighbors", input |-> s.vids,
     types |-> UNION {{t, -t} : t \in Range(EdgeTypeOf)}]
DeleteNeighborEdges ==
    [kind |-> "DeleteEdges", refs |-> DOMAIN EdgeTypeOf, ofNeighbors |-> TRUE, rows |-> {}]
DeleteVertices(s) == [kind |-> "DeleteVertices", input |-> s.vids]

DeleteVerticesToPlan(s) == <<GetNeighbors(s), DeleteNeighborEdges, DeleteVertices(s)>>

DeleteVerticesValidator(s) ==
    IF DeleteVerticesValidate(s) THEN Accept(DeleteVerticesToPlan(s)) ELSE Reject

\* buildEdgeKeyRef, and the rows that a reference stands for.
EdgeKeyRows(s) ==
    {[name |-> s.edge, key |-> EdgeKey(k.src, EdgeTypeOf[s.edge], k.rank, k.dst)] : k \in Range(s.keys)}

DeleteEdges(s) ==
    [kind |-> "DeleteEdges", refs |-> {s.edge}, ofNeighbors |-> FALSE, rows |-> EdgeKeyRows(s)]

DeleteEdgesValidator(s) ==
    IF /\ s.edge \in DOMAIN EdgeSchema
       /\ s.isRef \/ \A k \in Range(s.keys) : k.src \in Vids /\ k.dst \in Vids
    THEN Accept(<<DeleteEdges(s)>>) ELSE Reject

\* Validator::makeValidator, validate and toPlan of the sentences that write.
MutateValidator(s, toss) ==
    CASE s.op = "INSERT VERTEX" -> InsertVerticesValidator(s)
      [] s.op = "INSERT EDGE" -> InsertEdgesValidator(s, toss)
      [] s.op = "UPDATE VERTEX" -> UpdateVertexValidator(s)
      [] s.op = "UPDATE EDGE" -> UpdateEdgeValidator(s, toss)
      [] s.op = "DELETE VERTEX" -> DeleteVerticesValidator(s)
      [] s.op = "DELETE EDGE" -> DeleteEdgesValidator(s)

-----------------------------------------------------------------------------
(* Executors: the call that a node makes.  A call is a sequence of           *)
(* operations; those on a vertex, or on an edge stored under it, go to the   *)
(* part of the vertex.                                                       *)

Call(ops) == [ok |-> TRUE, ops |-> ops]
CallError == [ok |-> FALSE, ops |-> <<>>]

PartOfOp(op) ==
    IF op.on = "edge" THEN PartOf[op.key.src] ELSE PartOf[op.id]

Named(names, values) == [p \in Range(names) |-> values[CHOOSE i \in DOMAIN names : names[i] = p]]

\* InsertVerticesExecutor: addVertices
InsertVerticesCall(node) ==
    LET PutTags(v) ==
            [k \in DOMAIN v.tags |->
                [do |-> "put", on |-> "vertex", id |-> v.id, name |-> v.tags[k].tag,
                 props |-> Named(v.tags[k].names, v.tags[k].props),
                 overwritable |-> node.overwritable]]
    IN  Call(FlattenSeq([i \in DOMAIN node.vertices |-> PutTags(node.vertices[i])]))

\* InsertEdgesExecutor: addEdges
InsertEdgesCall(node) ==
    Call([i \in DOMAIN node.edges |->
            [do |-> "put", on |-> "edge", key |-> node.edges[i].key, name |-> node.name,
             props |-> Named(node.names, node.edges[i].props), overwritable |-> node.overwritable,
             chain |-> node.useChainInsert]])

\* UpdateVertexExecutor: updateVertex
UpdateVertexCall(node) ==
    Call(<<[do |-> "update", on |-> "vertex", id |-> node.id, update |-> node.update,
            yield |-> node.yield]>>)

\* UpdateEdgeExecutor: updateEdge
UpdateEdgeCall(node) ==
    Call(<<[do |-> "update", on |-> "edge", key |-> node.key, update |-> node.update,
            yield |-> node.yield]>>)

\* GetNeighborsExecutor::buildRequestDataSet: values that are no vertex ids are
\* passed over.
GetNeighborsCall(node) ==
    Call(SetToSeq({[do |-> "read", on |-> "vertex", id |-> v, types |-> node.types] :
                     v \in Range(node.input) \cap Vids}))

\* Mutant: only the keys of the rows are deleted.
DeletedKeysOneWay(node, rows) ==
    {row.key : row \in {r \in rows : r.name \in node.refs /\ r.key.src # Null}}

\* DeleteEdgesExecutor: the keys of the rows, and those of their reversed
\* copies.  A row is an edge of one type: the references to the other types
\* have no value in it.  Rows without a source are passed over.
DeletedKeys(node, rows) ==
    LET keys == {row.key : row \in {r \in rows : r.name \in node.refs /\ r.key.src # Null}}
    IN  keys \cup {Twin(k) : k \in keys}

DeleteEdgesCall(node, neighbors) ==
    LET rows == IF node.ofNeighbors THEN neighbors ELSE node.rows
        keys == DeletedKeys(node, rows)
    IN  IF \E k \in keys : k.src \notin Vids \/ k.dst \notin Vids \/ k.rank = Null
        THEN CallError
        ELSE Call(SetToSeq({[do |-> "delete", on |-> "edge", key |-> k] : k \in keys}))

\* DeleteVerticesExecutor: a value that is no vertex id is an error here.
DeleteVerticesCall(node) ==
    LET vids == Range(node.input) \ {Null}
    IN  IF vids \subseteq Vids
        THEN Call(SetToSeq({[do |-> "delete", on |-> "vertex", id |-> v] : v \in vids}))
        ELSE CallError

\* Executor::makeExecutor and execute() of the nodes of a mutation.
Execute(node, neighbors) ==
    CASE node.kind = "InsertVertices" -> InsertVerticesCall(node)
      [] node.kind = "InsertEdges" -> InsertEdgesCall(node)
      [] node.kind = "UpdateVertex" -> UpdateVertexCall(node)
      [] node.kind = "UpdateEdge" -> UpdateEdgeCall(node)
      [] node.kind = "GetNeighbors" -> GetNeighborsCall(node)
      [] node.kind = "DeleteEdges" -> DeleteEdgesCall(node, neighbors)
      [] node.kind = "DeleteVertices" -> DeleteVerticesCall(node)

\* The node accepts that some parts have failed (FLAGS_accept_partial_success).
PartialAccepted(node, accept) == node.kind = "GetNeighbors" /\ accept

\* StorageAccessExecutor::handleCompleteness: whether the call failed.
HandleCompleteness(parts, failed, partial) == failed # {} /\ (failed = parts \/ ~partial)

\* handleErrorCode, as an update uses it: whether the code is an error.
HandleErrorCode(code) == code \notin {"SUCCEEDED", "E_FILTER_OUT"}

\* UpdateBaseExecutor::handleResult: whether the values that came back are not
\* as many as were asked for.
HandleResult(node, values) ==
    node.kind \in {"UpdateVertex", "UpdateEdge"} /\ Len(values) # Len(node.yield)
=============================================================================
