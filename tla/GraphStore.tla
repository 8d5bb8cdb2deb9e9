----------------------------- MODULE GraphStore -----------------------------
(***************************************************************************)
(* The storage service, as the executors of src/src/executor/mutate use    *)
(* it, and what the statements that write are meant to do to a graph.      *)
(*                                                                         *)
(* The storage service is not part of this repository.  It keeps rows of   *)
(* properties under the id of a vertex and the name of a tag, and under    *)
(* the key of an edge; the operations of a call that go to one part take   *)
(* effect together.                                                        *)
(***************************************************************************)
EXTENDS Mutations, TLC

CONSTANT Default   \* what a property that is not given a value gets

ASSUME DefaultAssumption == Default \in Numbers

NoData == [vertices |-> <<>>, edges |-> <<>>]

Schema(on, name) == IF on = "edge" THEN EdgeSchema[name] ELSE TagSchema[name]
TypeName(type) == CHOOSE n \in DOMAIN EdgeTypeOf : EdgeTypeOf[n] \in {type, -type}

FullRow(on, name, props) ==
    [p \in Schema(on, name) |-> IF p \in DOMAIN props THEN props[p] ELSE Default]

Put(rows, k, row, overwritable) ==
    IF k \in DOMAIN rows /\ ~overwritable THEN rows ELSE k :> row @@ rows

Without(rows, keys) == Restrict(rows, DOMAIN rows \ keys)

-----------------------------------------------------------------------------
(* Updates *)

ReadProps(e) == IF e.k = "plus" THEN {e.prop} ELSE {}

UsedProps(u) ==
    UNION {{item.field} \cup ReadProps(item.value) : item \in Range(u.items)}
        \cup (IF u.when.k = "equal" THEN {u.when.prop} ELSE {})

EvalUpdate(e, row) ==
    IF e.k = "constant" THEN e.n ELSE IF row[e.prop] = Null THEN Null ELSE row[e.prop] + e.n

\* The row that an update starts from, and what becomes of it.
OldRow(rows, k, on, u) == IF k \in DOMAIN rows THEN rows[k] ELSE FullRow(on, u.name, <<>>)
NewRow(row, u) ==
    FoldLeft(LAMBDA r, item : [r EXCEPT ![item.field] = EvalUpdate(item.value, r)], row, u.items)

UpdateCode(rows, k, on, u, yield) ==
    IF k \notin DOMAIN rows /\ ~u.insertable THEN "E_KEY_NOT_FOUND"
    ELSE IF ~(UsedProps(u) \cup Range(yield) \subseteq Schema(on, u.name)) THEN "E_INVALID_UPDATER"
    ELSE IF u.when.k = "equal" /\ OldRow(rows, k, on, u)[u.when.prop] # u.when.n THEN "E_FILTER_OUT"
    ELSE "SUCCEEDED"

Updated(rows, k, on, u, yield) ==
    IF UpdateCode(rows, k, on, u, yield) = "SUCCEEDED"
    THEN k :> NewRow(OldRow(rows, k, on, u), u) @@ rows ELSE rows

\* The values that an update returns: those the row has after it.
Returned(after, k, on, u, yield) ==
    LET row == OldRow(after, k, on, u)
    IN  IF Range(yield) \subseteq DOMAIN row THEN [i \in DOMAIN yield |-> row[yield[i]]] ELSE <<>>

-----------------------------------------------------------------------------
(* Operations *)

\* In a space with TOSS the storage service writes the reversed copy of an
\* edge together with the edge.
ApplyToEdges(edges, op, toss) ==
    CASE op.do = "put" ->
            LET row == FullRow("edge", op.name, op.props)
                e == Put(edges, op.key, row, op.overwritable)
            IN  IF op.chain THEN Put(e, Twin(op.key), row, op.overwritable) ELSE e
      [] op.do = "update" ->
            LET e == Updated(edges, op.key, "edge", op.update, op.yield)
            IN  IF toss /\ e # edges THEN Twin(op.key) :> e[op.key] @@ e ELSE e
      [] op.do = "delete" -> Without(edges, {op.key})

ApplyToVertices(vertices, op) ==
    CASE op.do = "put" ->
            Put(vertices, [id |-> op.id, name |-> op.name],
                FullRow("vertex", op.name, op.props), op.overwritable)
      [] op.do = "update" ->
            Updated(vertices, [id |-> op.id, name |-> op.update.name], "vertex", op.update, op.yield)
      [] op.do = "delete" -> Without(vertices, {k \in DOMAIN vertices : k.id = op.id})
      [] op.do = "read" -> vertices

Apply(store, op, toss) ==
    IF op.on = "edge" THEN [store EXCEPT !.edges = ApplyToEdges(@, op, toss)]
    ELSE [store EXCEPT !.vertices = ApplyToVertices(@, op)]

\* All operations of a call on one part.
ApplyAll(store, ops, toss) == FoldLeft(LAMBDA st, op : Apply(st, op, toss), store, ops)

\* What a part answers: the edges that were read there, the code and the values
\* of an update.
ReadRows(store, ops) ==
    {[name |-> TypeName(k.type), key |-> k] :
        k \in {x \in DOMAIN store.edges :
                 \E op \in Range(ops) : op.do = "read" /\ x.src = op.id /\ x.type \in op.types}}

UpdatedRows(store, op) == IF op.on = "edge" THEN store.edges ELSE store.vertices
UpdatedKey(op) == IF op.on = "edge" THEN op.key ELSE [id |-> op.id, name |-> op.update.name]

AnswerCode(store, ops) ==
    LET op == Head(ops)
    IN  IF op.do # "update" THEN "SUCCEEDED"
        ELSE UpdateCode(UpdatedRows(store, op), UpdatedKey(op), op.on, op.update, op.yield)

AnswerValues(after, ops) ==
    LET op == Head(ops)
    IN  IF op.do # "update" THEN <<>>
        ELSE Returned(UpdatedRows(after, op), UpdatedKey(op), op.on, op.update, op.yield)

-----------------------------------------------------------------------------
(* What the statements mean.  A graph has every edge once. *)

Outbound(store) ==
    [store EXCEPT !.edges = Restrict(@, {k \in DOMAIN @ : k.type > 0})]

\* The data of a graph.
Stored(g) ==
    LET reversed == [k \in {Twin(x) : x \in DOMAIN g.edges} |-> g.edges[Twin(k)]]
    IN  [g EXCEPT !.edges = @ @@ reversed]

\* The two copies of every edge are the same.
Agree(edges, key) ==
    /\ key \in DOMAIN edges <=> Twin(key) \in DOMAIN edges
    /\ key \in DOMAIN edges => edges[key] = edges[Twin(key)]
Symmetric(store) == \A k \in DOMAIN store.edges : Agree(store.edges, k)

Incident(key, vids) == key.src \in vids \/ key.dst \in vids

Done(g) == [ok |-> TRUE, graph |-> g, yield |-> <<>>]

\* A value belongs to the property that is written at its place.
MeaningOfInsertVertex(s, g) ==
    LET columns == FlattenSeq([k \in DOMAIN s.tags |->
                        [j \in DOMAIN s.tags[k].props |-> <<s.tags[k].tag, s.tags[k].props[j]>>]])
        Given(row, tag) ==
            [p \in {columns[i][2] : i \in {j \in DOMAIN columns : columns[j][1] = tag}} |->
                row.values[CHOOSE i \in DOMAIN columns : columns[i] = <<tag, p>>]]
        Insert(vertices, row) ==
            FoldLeft(LAMBDA v, item :
                        Put(v, [id |-> row.id, name |-> item.tag],
                            FullRow("vertex", item.tag, Given(row, item.tag)), s.overwritable),
                     vertices, s.tags)
    IN  Done([g EXCEPT !.vertices = FoldLeft(Insert, @, s.rows)])

MeaningOfInsertEdge(s, g) ==
    LET Insert(edges, row) ==
            Put(edges, EdgeKey(row.src, EdgeTypeOf[s.edge], row.rank, row.dst),
                FullRow("edge", s.edge, Named(s.props, row.values)), s.overwritable)
    IN  Done([g EXCEPT !.edges = FoldLeft(Insert, @, s.rows)])

MeaningOfUpdate(s, g) ==
    LET on == IF s.op = "UPDATE EDGE" THEN "edge" ELSE "vertex"
        u == Update(s)
        k == IF on = "edge" THEN EdgeKey(s.src, EdgeTypeOf[u.name], s.rank, s.dst)
             ELSE [id |-> s.id, name |-> u.name]
        rows == IF on = "edge" THEN g.edges ELSE g.vertices
        new == Updated(rows, k, on, u, s.yield)
    IN  [ok |-> UpdateCode(rows, k, on, u, s.yield) \in {"SUCCEEDED", "E_FILTER_OUT"},
         graph |-> IF on = "edge" THEN [g EXCEPT !.edges = new] ELSE [g EXCEPT !.vertices = new],
         yield |-> Returned(new, k, on, u, s.yield)]

MeaningOfDeleteVertex(s, g) ==
    LET vids == Range(s.vids)
    IN  [ok |-> WrongVid \notin vids, yield |-> <<>>,
         graph |-> [vertices |-> Without(g.vertices, {k \in DOMAIN g.vertices : k.id \in vids}),
                    edges |-> Without(g.edges, {k \in DOMAIN g.edges : Incident(k, vids)})]]

MeaningOfDeleteEdge(s, g) ==
    LET keys == {k \in Range(s.keys) : k.src # Null}
    IN  [ok |-> \A k \in keys : k.src \in Vids /\ k.dst \in Vids /\ k.rank # Null, yield |-> <<>>,
         graph |-> [g EXCEPT !.edges =
                      Without(@, {EdgeKey(k.src, EdgeTypeOf[s.edge], k.rank, k.dst) : k \in keys})]]

Meaning(s, g) ==
    CASE s.op = "INSERT VERTEX" -> MeaningOfInsertVertex(s, g)
      [] s.op = "INSERT EDGE" -> MeaningOfInsertEdge(s, g)
      [] s.op \in {"UPDATE VERTEX", "UPDATE EDGE"} -> MeaningOfUpdate(s, g)
      [] s.op = "DELETE VERTEX" -> MeaningOfDeleteVertex(s, g)
      [] s.op = "DELETE EDGE" -> MeaningOfDeleteEdge(s, g)

\* The edges that a statement may write.
Touches(s, key) ==
    CASE s.op \in {"INSERT VERTEX", "UPDATE VERTEX"} -> FALSE
      [] s.op = "INSERT EDGE" ->
            key.type = EdgeTypeOf[s.edge]
              /\ \E r \in Range(s.rows) : r.src = key.src /\ r.dst = key.dst /\ r.rank = key.rank
      [] s.op = "UPDATE EDGE" ->
            key = EdgeKey(s.src, EdgeTypeOf[UpdatedName(s)], s.rank, s.dst)
      [] s.op = "DELETE VERTEX" -> Incident(key, Range(s.vids))
      [] s.op = "DELETE EDGE" ->
            key.type = EdgeTypeOf[s.edge]
              /\ \E k \in Range(s.keys) : k.src = key.src /\ k.dst = key.dst /\ k.rank = key.rank

\* The statements that may add an edge, or a copy of one.
Adds(s, toss) == s.op = "INSERT EDGE" \/ (s.op = "UPDATE EDGE" /\ (s.insertable \/ toss))
=============================================================================
