------------------------------- MODULE Paths -------------------------------
(***************************************************************************)
(* Paths of a property graph, and the neighbours that the storage service  *)
(* returns for FIND PATH (src/src/validator/FindPathValidator.cpp).        *)
(*                                                                         *)
(* An edge of the graph has a src and a dst; parallel edges differ in key  *)
(* (type and rank).  An arc is an edge in the direction in which a         *)
(* traversal follows it: its sign is that of the edge type.  The           *)
(* operations on paths are those of the Path type of nebula-common, as the *)
(* executors use it.                                                       *)
(***************************************************************************)
EXTENDS Integers, Sequences

\* The OVER clause: plain, REVERSELY or BIDIRECT.
Directions == {"OUT_EDGE", "IN_EDGE", "BOTH"}

Arc(e, sign) == [src |-> IF sign > 0 THEN e.src ELSE e.dst,
                 dst |-> IF sign > 0 THEN e.dst ELSE e.src,
                 edge |-> e, sign |-> sign]

\* The two sides of a search: from the FROM vertices, and from the TO vertices.
Sides == {"forward", "backward"}

\* The signs of the edge types that a GetNeighbors asks for; the side that
\* starts from the TO vertices follows the edges backwards.
BuildEdgeKey(over, side) ==
    IF over = "BOTH" THEN {1, -1}
    ELSE {IF (over = "IN_EDGE") = (side = "backward") THEN 1 ELSE -1}

\* A graph g is a record of its edges and the direction of the OVER clause.
Arcs(g, side) ==
    {Arc(e, sign) : e \in g.edges, sign \in BuildEdgeKey(g.over, side)}

GetNeighbors(g, vids, side) == {a \in Arcs(g, side) : a.src \in vids}

-----------------------------------------------------------------------------
PathOf(v) == [src |-> v, steps |-> <<>>]

VertexAt(p, i) == IF i = 0 THEN p.src ELSE p.steps[i].dst

EndOf(p) == VertexAt(p, Len(p.steps))

StepAlong(a) == [dst |-> a.dst, edge |-> a.edge, sign |-> a.sign]

AddStep(p, a) == [src |-> p.src, steps |-> Append(p.steps, StepAlong(a))]

\* The step that goes back along an arc.
StepBack(a) == [dst |-> a.src, edge |-> a.edge, sign |-> -a.sign]

ReversePath(p) ==
    LET n == Len(p.steps)
    IN  [src |-> EndOf(p),
         steps |-> [i \in 1..n |-> [dst |-> VertexAt(p, n - i),
                                    edge |-> p.steps[n + 1 - i].edge,
                                    sign |-> -p.steps[n + 1 - i].sign]]]

AppendPath(p, q) == [src |-> p.src, steps |-> p.steps \o q.steps]

HasDuplicateEdges(p) ==
    \E i, j \in 1..Len(p.steps) : i < j /\ p.steps[i].edge = p.steps[j].edge

HasDuplicateVertices(p) ==
    \E i, j \in 0..Len(p.steps) : i < j /\ VertexAt(p, i) = VertexAt(p, j)

-----------------------------------------------------------------------------
(***************************************************************************)
(* The reference: the walks of n steps from the vertices vids, and the     *)
(* vertices that at most n steps lead to.                                  *)
(***************************************************************************)
Walks(g, vids, n, side) ==
    {p \in [src : vids, steps : [1..n -> {StepAlong(a) : a \in Arcs(g, side)}]] :
        \A i \in 1..n : \E a \in GetNeighbors(g, {VertexAt(p, i - 1)}, side) :
            p.steps[i] = StepAlong(a)}

\* The walks that repeat no edge.
Trails(g, vids, n, side) == {p \in Walks(g, vids, n, side) : ~HasDuplicateEdges(p)}

Ball(g, vids, n, side) ==
    {EndOf(p) : p \in UNION {Walks(g, vids, k, side) : k \in 0..n}}

\* p is a walk with 1 to n steps from a vertex of vids to a vertex of ends.
IsWalkBetween(p, g, vids, ends, n) ==
    /\ \E k \in 1..n : p \in Walks(g, vids, k, "forward")
    /\ EndOf(p) \in ends

WalksBetween(g, vids, ends, n) ==
    {p \in UNION {Walks(g, vids, k, "forward") : k \in 1..n} : EndOf(p) \in ends}

Shortest(P) == {p \in P : \A q \in P : Len(p.steps) <= Len(q.steps)}
=============================================================================
