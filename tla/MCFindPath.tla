----------------------------- MODULE MCFindPath -----------------------------
(***************************************************************************)
(* Families of FIND PATH queries on small graphs.                          *)
(***************************************************************************)
EXTENDS FindPath, FiniteSets

E(v, w) == [src |-> v, dst |-> w, key |-> 0]
Pairs(V) == {E(v, w) : v \in V, w \in V}
Graphs(universe, least, most, overs) ==
    {[edges |-> S, over |-> d] :
        S \in {T \in SUBSET universe : Cardinality(T) \in least..most}, d \in overs}
Asked(graphs, froms, tos, bounds, shortest, noLoops, literal) ==
    {[graph |-> g, from |-> f, to |-> t, steps |-> n, shortest |-> shortest, noLoop |-> l,
      literal |-> literal] : g \in graphs, f \in froms, t \in tos, n \in bounds, l \in noLoops}

\* Every directed graph of up to three edges on three vertices, with loops and one
\* pair of parallel edges.
Dense == Pairs(1..3) \cup {[E(1, 2) EXCEPT !.key = 1]}
DenseShortest ==
    Asked(Graphs(Dense, 0, 3, {"OUT_EDGE", "IN_EDGE"}), {{1}}, {{1}, {2}, {3}}, {0, 1, 2, 3},
          TRUE, {FALSE}, TRUE)
DenseAll ==
    Asked(Graphs(Dense, 0, 3, {"OUT_EDGE", "BOTH"}), {{1}, {1, 2}}, {{2}, {1, 3}},
          {0, 2, 3, 4}, FALSE, BOOLEAN, TRUE)
    \cup Asked(Graphs(Dense, 2, 2, {"IN_EDGE"}), {{1}}, {{2}}, {3}, TRUE, {TRUE}, TRUE)

\* Longer paths: every way to step forward along a row of vertices, and a way back.
Row == {e \in Pairs(1..5) : e.dst - e.src \in {1, 2} \/ <<e.src, e.dst>> = <<4, 2>>}
RowShortest == Asked(Graphs(Row, 3, 5, {"BOTH"}), {{1}}, {{5}}, {4}, TRUE, {FALSE}, TRUE)

\* Every graph of up to four edges on four vertices (without loops, with one pair of
\* parallel edges), from one or two of them to the others.
Square == {e \in Pairs(1..4) : e.src # e.dst} \cup {[E(2, 3) EXCEPT !.key = 1]}
SquareMulti ==
    Asked(Graphs(Square, 2, 4, {"OUT_EDGE"}), {{1}, {1, 2}}, {{4}, {2, 4}}, {2, 3}, TRUE,
          {FALSE}, FALSE)

\* Three starts, two of which reach 4 in the first round and one in the second, so
\* that what 4 leads to is visited twice.
Crowd == {E(1, 4), E(2, 4), E(3, 5), E(5, 4), E(4, 6), E(6, 7), E(2, 7), E(1, 6), E(7, 4)}
CrowdMulti ==
    Asked(Graphs(Crowd, 7, 8, {"OUT_EDGE"}), {{1, 2, 3}}, {{6, 7}, {7}}, {4, 5}, TRUE,
          {FALSE}, TRUE)

\* The starts 1 and 2 compete for 6.  If 1 loses, 3 leads to a second visit of 4, and
\* the way over 6 to 8 is found in the same round as the longer one over 11.
Late == {E(1, 4), E(2, 4), E(3, 5), E(5, 4), E(4, 6), E(6, 7), E(7, 8), E(1, 9), E(9, 10),
         E(10, 11), E(11, 7)}
LateMulti ==
    Asked(Graphs(Late, 11, 11, {"OUT_EDGE"}), {{1, 2, 3}}, {{8}}, {5}, TRUE, {FALSE}, TRUE)

MCQueries ==
    DenseShortest \cup RowShortest \cup DenseAll \cup SquareMulti \cup CrowdMulti \cup LateMulti

\* The graph of ProduceSemiShortestPathTest.cpp.
TestQueries ==
    Asked(Graphs({E(0, 1), E(1, 5), E(1, 6), E(2, 6), E(3, 4), E(4, 7), E(5, 7), E(6, 7)},
                 8, 8, {"OUT_EDGE"}), {{0, 1, 2, 3}}, {{7}}, {5}, TRUE, {FALSE}, TRUE)
=============================================================================
