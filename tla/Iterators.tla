----------------------------- MODULE Iterators -----------------------------
(***************************************************************************)
(* Values, results and the iterators over them (context/Iterator,          *)
(* context/Result, context/QueryExpressionContext).                        *)
(*                                                                         *)
(* A result has the rows its iterator walks over, in the order of the walk:*)
(*    it    the kind of the iterator: seq, join, prop, gn or default;      *)
(*    cols  the names of the columns;                                      *)
(*    rows  for seq, join and prop the rows, each a sequence of values; for*)
(*          gn one row per edge of a vertex;                               *)
(*    ne    for gn, the vertices that have no edge;                        *)
(*    own   the Values whose rows the iterator points into, named by the   *)
(*          execution that made them;                                      *)
(*    val   the rows of the Value of the result itself, whatever its       *)
(*          iterator has left out.                                         *)
(***************************************************************************)
EXTENDS Integers, Sequences, FiniteSets, TLC

(***************************************************************************)
(* Values: type, payload, elements of a list or of a path, properties of a *)
(* vertex or of an edge, <<tag or edge, property>> -> value.               *)
(***************************************************************************)
Val(t, n) == [t |-> t, n |-> n, l |-> <<>>, p |-> <<>>]
IntV(n) == Val("INT", n)
BoolV(b) == Val("BOOL", IF b THEN 1 ELSE 0)
ListV(vs) == [Val("LIST", 0) EXCEPT !.l = vs]
\* The text of a name.
NameV(name) == [Val("STRING", 0) EXCEPT !.p = <<name, "">> :> 0]
Null == Val("NULL", 0)
BadNull == Val("NULL", 1)
Empty == Val("EMPTY", 0)
True == BoolV(TRUE)
False == BoolV(FALSE)
IsNull(v) == v.t \in {"NULL", "EMPTY"}
IsBool(v) == v.t = "BOOL"
Elems(s) == {s[i] : i \in DOMAIN s}
\* The elements of a set, in some order.
RECURSIVE SetToSeq(_)
SetToSeq(S) == IF S = {} THEN <<>>
               ELSE LET x == CHOOSE x \in S : TRUE IN <<x>> \o SetToSeq(S \ {x})

(***************************************************************************)
(* Building results.                                                       *)
(***************************************************************************)
SeqRes(own, cols, rows) ==
    [it |-> "seq", cols |-> cols, rows |-> rows, ne |-> <<>>, own |-> own, val |-> rows]
PropRes(own, cols, rows) ==
    [it |-> "prop", cols |-> cols, rows |-> rows, ne |-> <<>>, own |-> own, val |-> rows]
\* Union of sequential iterators: the columns of the first.
UnionRes(l, r) == [l EXCEPT !.rows = @ \o r.rows, !.own = @ \cup r.own]
\* JoinIter: the columns of the join node, the rows of both sides side by side.
JoinRes(l, r, cols, rows) ==
    [it |-> "join", cols |-> cols, rows |-> rows, ne |-> <<>>, own |-> l.own \cup r.own,
     val |-> <<>>]
\* GetNeighborsIter: one logical row per edge of each vertex; a vertex without
\* an edge is kept apart.
RECURSIVE EdgeRows(_)
EdgeRows(vertices) ==
    IF vertices = <<>> THEN <<>>
    ELSE LET v == Head(vertices)
         IN [i \in DOMAIN v.edges |-> [vid |-> v.vid, tags |-> v.tags, edge |-> v.edges[i]]]
            \o EdgeRows(Tail(vertices))
GnRes(own, vertices) ==
    [it |-> "gn", cols |-> <<"_vid">>, rows |-> EdgeRows(vertices),
     ne |-> SelectSeq(vertices, LAMBDA v : v.edges = <<>>), own |-> own, val |-> <<>>]
DefaultRes(v) == [it |-> "default", cols |-> <<>>, rows |-> <<<<v>>>>, ne |-> <<>>, own |-> {},
                  val |-> <<>>]
\* A variable that was never set.
EmptyResult == DefaultRes(Empty)

(***************************************************************************)
(* Reading the current row.  The first of two columns of one name is read. *)
(* env is the expression context: the iterator and its row, and the        *)
(* variables an expression binds.                                          *)
(***************************************************************************)
Env(res, row) == [it |-> res.it, cols |-> res.cols, row |-> row, vars |-> <<>>]
NoRow == [it |-> "none", cols |-> <<>>, row |-> <<>>, vars |-> <<>>]
ColIndex(cols, col) == CHOOSE i \in DOMAIN cols :
                          cols[i] = col /\ \A j \in 1..(i - 1) : cols[j] # col
HasCol(cols, col) == \E i \in DOMAIN cols : cols[i] = col
ColumnOfRow(env, col, missing) ==
    IF HasCol(env.cols, col) THEN env.row[ColIndex(env.cols, col)] ELSE missing

SeqColumn(env, col) == ColumnOfRow(env, col, Null)
JoinColumn(env, col) == ColumnOfRow(env, col, Null)
PropColumn(env, col) == ColumnOfRow(env, col, Null)
GnColumn(env, col) == IF col = "_vid" THEN env.row.vid ELSE Empty
GetColumn(env, col) ==
    CASE env.it = "seq" -> SeqColumn(env, col)
      [] env.it = "join" -> JoinColumn(env, col)
      [] env.it = "prop" -> PropColumn(env, col)
      [] env.it = "gn" -> GnColumn(env, col)
      [] OTHER -> Empty

\* The property of a tag: a sequential row has a column tag.prop.
SeqTagProp(env, tag, prop) == SeqColumn(env, tag \o "." \o prop)
TagNames == {"t", "u"}
EdgeNames == {"e", "f", "g"}
EdgeKeyProps == {"_src", "_type", "_rank", "_dst"}
PropNames == {"a", "b", "c", "w"} \cup EdgeKeyProps
PropProp(env, name, prop) ==
    ColumnOfRow(env, name \o "." \o prop,
                IF \E p \in PropNames : HasCol(env.cols, name \o "." \o p) THEN Null ELSE Empty)
\* A vertex that lacks the tag has no list of its properties.
GnTagProp(env, tag, prop) ==
    IF <<tag, prop>> \in DOMAIN env.row.tags THEN env.row.tags[<<tag, prop>>] ELSE Empty
GetTagProp(env, tag, prop) ==
    CASE env.it = "seq" -> SeqTagProp(env, tag, prop)
      [] env.it = "prop" -> PropProp(env, tag, prop)
      [] env.it = "gn" -> GnTagProp(env, tag, prop)
      [] OTHER -> Empty

\* The property of an edge; * stands for the edge of the row whatever its type.
GnEdgeProp(env, edge, prop) ==
    IF edge \in {"*", env.row.edge.name} /\ prop \in DOMAIN env.row.edge.p
    THEN env.row.edge.p[prop] ELSE Empty
GetEdgeProp(env, edge, prop) ==
    CASE env.it = "seq" -> SeqColumn(env, edge \o "." \o prop)
      [] env.it = "prop" -> PropProp(env, edge, prop)
      [] env.it = "gn" -> GnEdgeProp(env, edge, prop)
      [] OTHER -> Empty

(***************************************************************************)
(* Vertices and edges as values.  A vertex is its id; an edge its source   *)
(* and destination, its type (negative when it was read from its end) and  *)
(* its rank; both have properties.  getEdges formats an edge, that is turns*)
(* it around if its type is negative; getVertices also gives the vertices  *)
(* without an edge, unless none of their tags exists.                      *)
(***************************************************************************)
VertexV(vid, props) == [Val("VERTEX", vid.n) EXCEPT !.p = props]
EdgeV(src, dst, type, rank, props) ==
    [t |-> "EDGE", n |-> rank.n, l |-> <<src, dst, type>>, p |-> props]
Format(e) == IF e.t = "EDGE" /\ e.l[3].n < 0
             THEN EdgeV(e.l[2], e.l[1], IntV(-e.l[3].n), IntV(e.n), e.p) ELSE e
\* The properties of an edge of which prop gives the values, its key left out.
EdgeProps(name, prop) ==
    [k \in {<<name, q>> : q \in DOMAIN prop \ EdgeKeyProps} |-> prop[k[2]]]
GnVertex(row) == VertexV(row.vid, row.tags)
GnEdge(row) ==
    LET p == row.edge.p
    IN IF {"_type", "_dst", "_rank"} \subseteq DOMAIN p
       THEN EdgeV(row.vid, p["_dst"], p["_type"], p["_rank"], EdgeProps(row.edge.name, p))
       ELSE BadNull
NoEdgeVertex(v) == IF DOMAIN v.tags # {} THEN VertexV(v.vid, v.tags) ELSE BadNull
GnVertices(res) ==
    LET all == [i \in DOMAIN res.ne |-> NoEdgeVertex(res.ne[i])]
    IN [i \in DOMAIN res.rows |-> GnVertex(res.rows[i])]
       \o SelectSeq(all, LAMBDA v : v # BadNull)
GnEdges(res) == [i \in DOMAIN res.rows |-> Format(GnEdge(res.rows[i]))]
\* The properties of a tag or an edge the columns hold, none if one of them is
\* empty.
HeldProps(env, name) ==
    LET col(q) == name \o "." \o q
        held == {q \in PropNames : HasCol(env.cols, col(q))}
    IN IF \E q \in held : PropColumn(env, col(q)) = Empty THEN <<>>
       ELSE [q \in held |-> PropColumn(env, col(q))]
PropVertex(env) ==
    LET keys == {k \in TagNames \X PropNames : k[2] \in DOMAIN HeldProps(env, k[1])}
    IN IF HasCol(env.cols, "_vid")
       THEN VertexV(PropColumn(env, "_vid"), [k \in keys |-> HeldProps(env, k[1])[k[2]]]) ELSE Null
\* The edge whose key the columns hold.
PropEdge(env) ==
    LET held == {name \in EdgeNames : EdgeKeyProps \subseteq DOMAIN HeldProps(env, name)}
    IN IF held = {} THEN Null
       ELSE LET name == CHOOSE name \in held : TRUE
                p == HeldProps(env, name)
            IN EdgeV(p["_src"], p["_dst"], p["_type"], p["_rank"], EdgeProps(name, p))
GetVertex(env) == CASE env.it = "gn" -> GnVertex(env.row)
                    [] env.it = "prop" -> PropVertex(env)
                    [] OTHER -> Empty
GetEdge(env) == CASE env.it = "gn" -> GnEdge(env.row)
                  [] env.it = "prop" -> PropEdge(env)
                  [] OTHER -> Empty

(***************************************************************************)
(* Erasing.  unstableErase puts the last row in the place of the erased    *)
(* one and stays there; eraseRange removes the rows from first to last - 1 *)
(* and does nothing when the range is empty.                               *)
(***************************************************************************)
EraseBySwap(rows, i) ==
    LET n == Len(rows)
    IN SubSeq(rows, 1, i - 1) \o (IF i < n THEN <<rows[n]>> ELSE <<>>) \o SubSeq(rows, i + 1, n - 1)
EraseRange(rows, first, last) ==
    IF first >= last \/ first >= Len(rows) THEN rows
    ELSE SubSeq(rows, 1, first) \o SubSeq(rows, last + 1, Len(rows))
Clear(res) == [res EXCEPT !.rows = <<>>]

\* Keep the rows whose key is in a set, drop those whose key is in it, keep
\* the first of the rows with one key: the loops of the executors over an
\* iterator, whose keys are given in the order of the rows.
RECURSIVE KeepIf(_, _, _), KeepFirst(_, _, _)
KeepIf(rows, keep, i) ==
    IF i > Len(rows) THEN rows
    ELSE IF keep[i] THEN KeepIf(rows, keep, i + 1)
    ELSE KeepIf(EraseBySwap(rows, i), EraseBySwap(keep, i), i)
KeepFirst(rows, seen, i) ==
    IF i > Len(rows) THEN rows
    ELSE IF rows[i] \in seen THEN KeepFirst(EraseBySwap(rows, i), seen, i)
    ELSE KeepFirst(rows, seen \cup {rows[i]}, i + 1)
=============================================================================
