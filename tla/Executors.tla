----------------------------- MODULE Executors -----------------------------
(***************************************************************************)
(* The executors of executor/query and executor/algo.  An operator takes   *)
(* the plan node, the results its input variables hold, and the name of    *)
(* this execution, which owns the Value a new result is made of; it gives  *)
(* the result that finish stores, or ErrorRes for a status that is not ok. *)
(* An executor that filters or orders the rows of its input works on a     *)
(* copy of the iterator and shares the Value it points into.               *)
(*                                                                         *)
(* The storage service is external: graph is                               *)
(*    verts   vid -> (<<tag, prop>> -> value), the vertices;               *)
(*    edges   a sequence of [name, type, src, dst, rank, p].               *)
(***************************************************************************)
EXTENDS PlanNodes

ErrorRes == [EmptyResult EXCEPT !.it = "error"]
IsError(res) == res.it = "error"
IsSeqLike(res) == res.it \in {"seq", "prop"}
RowEnv(res, i) == Env(res, res.rows[i])
EvalRows(e, res) == [i \in DOMAIN res.rows |-> Eval(e, RowEnv(res, i))]
EmptySet(n, own) == SeqRes({own}, n.cols, <<>>)

(***************************************************************************)
(* Project, filter, dedup, limit, sort, aggregate.                         *)
(***************************************************************************)
ProjectExec(n, in, own) ==
    SeqRes({own}, n.cols,
           [i \in DOMAIN in.rows |->
               [j \in DOMAIN n.x.columns |-> Eval(n.x.columns[j].e, RowEnv(in, i))]])

FilterExec(n, in) ==
    LET vals == EvalRows(n.x.cond, in)
    IN IF in.it = "default" \/ \E i \in DOMAIN vals : ~IsBool(vals[i]) /\ ~IsNull(vals[i])
       THEN ErrorRes
       ELSE [in EXCEPT !.rows = KeepIf(@, [i \in DOMAIN vals |-> vals[i] = True], 1)]

DedupExec(in) ==
    IF in.it = "gn" THEN ErrorRes ELSE [in EXCEPT !.rows = KeepFirst(@, {}, 1)]

LimitExec(n, in) ==
    LET size == Len(in.rows)
        offset == n.x.offset
        count == n.x.count
        from == EraseRange(in.rows, 0, offset)
    IN CASE size <= offset -> Clear(in)
         [] size > offset + count ->
                [in EXCEPT !.rows = EraseRange(from, count, size - offset)]
         [] OTHER -> [in EXCEPT !.rows = from]

\* The order of two rows: the first factor on which they differ.
Before(factors, r, s) ==
    \E k \in DOMAIN factors :
        /\ \A j \in 1..(k - 1) : r[factors[j].i] = s[factors[j].i]
        /\ LET x == r[factors[k].i].n
               y == s[factors[k].i].n
           IN IF factors[k].desc THEN x > y ELSE x < y
\* std::sort leaves equal rows in any order; here they keep theirs.
SortExec(n, in) ==
    IF in.it \in {"default", "gn"} THEN ErrorRes
    ELSE [in EXCEPT !.rows = SortSeq(@, LAMBDA r, s : Before(n.x.factors, r, s))]

TopNExec(n, in) ==
    LET size == Len(in.rows)
        offset == n.x.offset
        heapSize == IF size > offset + n.x.count THEN offset + n.x.count ELSE size
        maxCount == IF size > offset + n.x.count THEN n.x.count ELSE size - offset
        sorted == SortExec(n, in)
    IN CASE in.it \in {"default", "gn"} -> ErrorRes
         [] size <= offset -> Clear(in)
         [] OTHER -> [in EXCEPT !.rows = SubSeq(SubSeq(sorted.rows, 1, heapSize),
                                                offset + 1, offset + maxCount)]

\* The aggregate functions: a null is not counted, summed or collected.
AggValue(f, vals) ==
    LET some == SelectSeq(vals, LAMBDA v : ~IsNull(v))
        RECURSIVE sum(_)
        sum(s) == IF s = <<>> THEN 0 ELSE Head(s).n + sum(Tail(s))
        ns == {some[i].n : i \in DOMAIN some}
    IN CASE f = "count" -> IntV(Len(some))
         [] f = "sum" -> IntV(sum(some))
         [] f = "collect" -> ListV(some)
         [] some = <<>> -> Null
         [] f = "max" -> IntV(CHOOSE x \in ns : \A y \in ns : y <= x)
         [] f = "min" -> IntV(CHOOSE x \in ns : \A y \in ns : x <= y)
         [] OTHER -> BadNull
\* One row per list of key values; an item that is not an aggregate has the
\* value of the last row of its group.
AggregateExec(n, in, own) ==
    LET key(i) == [k \in DOMAIN n.x.keys |-> Eval(n.x.keys[k], RowEnv(in, i))]
        keys == [i \in DOMAIN in.rows |-> key(i)]
        firsts == KeepFirst(keys, {}, 1)
        group(k) == SelectSeq([i \in DOMAIN keys |-> i], LAMBDA i : keys[i] = k)
        item(e, is) ==
            LET vals(d) == [j \in DOMAIN is |-> Eval(d, RowEnv(in, is[j]))]
            IN IF e.k = "Aggregate" THEN AggValue(e.op, vals(e.a[1])) ELSE vals(e)[Len(is)]
    IN SeqRes({own}, n.cols,
              [g \in DOMAIN firsts |->
                  [j \in DOMAIN n.x.items |-> item(n.x.items[j], group(firsts[g]))]])

(***************************************************************************)
(* Set operators: both inputs are data sets with the same columns.         *)
(***************************************************************************)
CheckInputDataSets(l, r) == IsSeqLike(l) /\ IsSeqLike(r) /\ l.cols = r.cols
Found(row, res) == \E i \in DOMAIN res.rows : res.rows[i] = row
UnionExec(l, r) == IF CheckInputDataSets(l, r) THEN UnionRes(l, r) ELSE ErrorRes
IntersectExec(n, l, r, own) ==
    CASE ~CheckInputDataSets(l, r) -> ErrorRes
      [] r.rows = <<>> -> SeqRes({own}, l.cols, <<>>)
      [] OTHER -> [l EXCEPT !.rows = KeepIf(@, [i \in DOMAIN @ |-> Found(@[i], r)], 1)]
MinusExec(l, r) ==
    IF ~CheckInputDataSets(l, r) THEN ErrorRes
    ELSE [l EXCEPT !.rows = KeepIf(@, [i \in DOMAIN @ |-> ~Found(@[i], r)], 1)]

(***************************************************************************)
(* Joins: the smaller side is hashed, the other probes.                    *)
(***************************************************************************)
RECURSIVE Probe(_, _, _, _, _)
Probe(probe, hash, pkeys, hkeys, i) ==
    IF i > Len(probe.rows) THEN <<>>
    ELSE LET hits == SelectSeq([j \in DOMAIN hkeys |-> j], LAMBDA j : hkeys[j] = pkeys[i])
         IN [h \in DOMAIN hits |-> <<probe.rows[i], hash.rows[hits[h]]>>]
            \o Probe(probe, hash, pkeys, hkeys, i + 1)
DataJoinExec(n, l, r) ==
    LET lk == EvalRows(n.x.hashKey, l)
        rk == EvalRows(n.x.probeKey, r)
        pairs == IF Len(l.rows) < Len(r.rows) THEN Probe(r, l, rk, lk, 1)
                 ELSE Probe(l, r, lk, rk, 1)
        left == IF Len(l.rows) < Len(r.rows) THEN 2 ELSE 1
    IN CASE l.it \in {"gn", "default"} -> ErrorRes
         [] l.rows = <<>> \/ r.rows = <<>> -> JoinRes(l, r, n.cols, <<>>)
         [] OTHER -> JoinRes(l, r, n.cols,
                        [i \in DOMAIN pairs |-> pairs[i][left] \o pairs[i][3 - left]])

(***************************************************************************)
(* DataCollect.  M TO N collects the versions m to n of its variable, the  *)
(* oldest of which is hist[1].  Like rowBasedMove it takes the rows out of *)
(* the Values they are in (TakesRows in QueryRun).                         *)
(***************************************************************************)
RowBasedMove(n, in, own) ==
    IF IsSeqLike(in) THEN SeqRes({own}, n.cols, in.rows) ELSE ErrorRes

RECURSIVE ConcatRows(_)
ConcatRows(results) ==
    IF results = <<>> THEN <<>> ELSE Head(results).rows \o ConcatRows(Tail(results))
CollectMToN(n, hist, own) ==
    LET rows == ConcatRows(SubSeq(hist, n.x.m, n.x.n))
    IN IF \E i \in n.x.m..n.x.n : hist[i].it # "seq" THEN ErrorRes
       ELSE SeqRes({own}, n.cols, IF n.x.distinct THEN KeepFirst(rows, {}, 1) ELSE rows)

UnionAllVersionVarExec(hist) ==
    IF \E i \in DOMAIN hist : ~IsSeqLike(hist[i]) THEN ErrorRes
    ELSE [hist[1] EXCEPT !.rows = ConcatRows(hist),
                         !.own = UNION {hist[i].own : i \in DOMAIN hist}]

\* A row for every element of the list; a value that is no list is one element,
\* a null none.
ExtractList(v) == CASE v.t = "LIST" -> v.l
                    [] IsNull(v) -> <<>>
                    [] OTHER -> <<v>>
RECURSIVE UnwindRows(_, _, _)
UnwindRows(n, in, i) ==
    IF i > Len(in.rows) THEN <<>>
    ELSE LET val(j) == Eval(n.x.columns[j].e, RowEnv(in, i))
             list == ExtractList(val(1))
             rest == [j \in 1..(Len(n.x.columns) - 1) |-> val(j + 1)]
         IN [k \in DOMAIN list |-> <<list[k]>> \o rest] \o UnwindRows(n, in, i + 1)
UnwindExec(n, in, own) == SeqRes({own}, n.cols, UnwindRows(n, in, 1))

\* Subgraph: one row of new vertices and new edges for every version of the
\* neighbors but the last, and one for the version SubgraphExecutor made of
\* the last (more).
NewOnes(vals, seen) == KeepFirst(SelectSeq(vals, LAMBDA v : v \notin seen), {}, 1)
RECURSIVE SubgraphRows(_, _, _)
SubgraphRows(gns, vids, edges) ==
    IF gns = <<>> THEN <<>>
    ELSE LET v == NewOnes(GnVertices(Head(gns)), vids)
             e == NewOnes(GnEdges(Head(gns)), edges)
         IN <<<<ListV(v), ListV(e)>>>>
            \o SubgraphRows(Tail(gns), vids \cup Elems(v), edges \cup Elems(e))
CollectSubgraph(n, hist, more, own) ==
    LET gns == SubSeq(hist, 1, Len(hist) - 1) \o more
    IN IF \E i \in DOMAIN gns : gns[i].it # "gn" THEN ErrorRes
       ELSE SeqRes({own}, n.cols, SubgraphRows(gns, {}, {}))

(***************************************************************************)
(* SubgraphExecutor: known is historyVids_, kept between the rounds of the *)
(* loop.  A round gives the destinations that are new; the last one keeps  *)
(* only the edges between known vertices (oneMoreStep).                    *)
(***************************************************************************)
DstOf(row) == row.edge.p["_dst"]
Known(in, step, known) ==
    IF step = 1 THEN known \cup {in.rows[i].vid : i \in DOMAIN in.rows} ELSE known
KnownAfter(n, in, step, known) ==
    IF step = n.x.steps THEN known
    ELSE Known(in, step, known) \cup {DstOf(in.rows[i]) : i \in DOMAIN in.rows}
SubgraphExec(n, in, step, known, own) ==
    LET new == NewOnes([i \in DOMAIN in.rows |-> DstOf(in.rows[i])], Known(in, step, known))
    IN SeqRes({own}, n.cols,
              IF step = n.x.steps THEN <<>> ELSE [i \in DOMAIN new |-> <<new[i]>>])
OneMoreStep(in, known) ==
    [in EXCEPT !.rows = KeepIf(@, [i \in DOMAIN @ |-> DstOf(@[i]) \in known], 1)]

(***************************************************************************)
(* Requests to the storage, and its answers.  A request lists the vertices *)
(* or edges asked for; an invalid id is left out.                          *)
(***************************************************************************)
ValidVid(v) == v.t = "INT"
NeighborsRequest(n, in) ==
    LET vids == SelectSeq(EvalRows(n.x.src, in), ValidVid)
    IN IF n.x.dedup THEN KeepFirst(vids, {}, 1) ELSE vids
VerticesRequest(n, in) ==
    LET vids == SelectSeq(EvalRows(n.x.src, in), ValidVid)
    IN IF n.x.dedup THEN KeepFirst(vids, {}, 1) ELSE vids
\* An edge key: source, type, rank, destination.
EdgesRequest(n, in) ==
    LET keys == [i \in DOMAIN in.rows |->
                    [k \in DOMAIN n.x.key |-> Eval(n.x.key[k], RowEnv(in, i))]]
        valid == SelectSeq(keys, LAMBDA k : \A i \in DOMAIN k : k[i].t = "INT")
    IN IF n.x.dedup THEN KeepFirst(valid, {}, 1) ELSE valid

\* What the storage holds of an edge, seen from one of its ends.
EdgeFrom(e, out) ==
    [name |-> e.name,
     p |-> ("w" :> e.w) @@ ("_rank" :> IntV(e.rank)) @@
           ("_type" :> IntV(IF out THEN e.type ELSE -e.type)) @@
           ("_src" :> IntV(IF out THEN e.src ELSE e.dst)) @@
           ("_dst" :> IntV(IF out THEN e.dst ELSE e.src))]
StorageEdges(graph, vid, edges, dir) ==
    LET seen(out) ==
            LET end(e) == IF out THEN e.src ELSE e.dst
                mine == SelectSeq(graph.edges, LAMBDA e : e.name \in edges /\ end(e) = vid.n)
            IN [i \in DOMAIN mine |-> EdgeFrom(mine[i], out)]
    IN (IF dir \in {"out", "both"} THEN seen(TRUE) ELSE <<>>)
       \o (IF dir \in {"in", "both"} THEN seen(FALSE) ELSE <<>>)
\* The properties of a tag the vertex lacks do not come back.
TagsOf(graph, vid, props) ==
    IF vid.n \notin DOMAIN graph.verts THEN <<>>
    ELSE [k \in props \cap DOMAIN graph.verts[vid.n] |-> graph.verts[vid.n][k]]
\* The rows of an answer: the filter and the limit are applied by the storage,
\* and only the properties asked for come back.
StorageNeighbors(graph, vid, x, allTags) ==
    LET row(e) == [vid |-> vid, tags |-> TagsOf(graph, vid, allTags), edge |-> e]
        env(e) == [it |-> "gn", cols |-> <<"_vid">>, row |-> row(e), vars |-> <<>>]
        pass == SelectSeq(StorageEdges(graph, vid, x.edges, x.dir),
                          LAMBDA e : x.filter = <<>> \/ Eval(x.filter[1], env(e)) = True)
        some == IF x.limit >= 0 /\ x.limit < Len(pass) THEN SubSeq(pass, 1, x.limit) ELSE pass
    IN [vid |-> vid, tags |-> TagsOf(graph, vid, x.vprops),
        edges |-> [i \in DOMAIN some |->
                     [some[i] EXCEPT !.p = [q \in {r[2] : r \in {s \in x.eprops :
                                                s[1] = some[i].name}} |-> some[i].p[q]]]]]
StorageVertex(graph, vid, props) ==
    <<vid>> \o [i \in DOMAIN props |-> IF props[i] \in DOMAIN graph.verts[vid.n]
                                       THEN graph.verts[vid.n][props[i]] ELSE Empty]
\* An edge that does not exist comes back as a row of empty values.
StorageEdge(graph, key, props) ==
    LET hits == {e \in Elems(graph.edges) : /\ e.src = key[1].n /\ e.type = key[2].n
                                            /\ e.rank = key[3].n /\ e.dst = key[4].n}
    IN [i \in DOMAIN props |->
          IF hits = {} THEN Empty ELSE EdgeFrom(CHOOSE e \in hits : TRUE, TRUE).p[props[i][2]]]

(***************************************************************************)
(* An index scan: every vertex with the tag, or every edge of the type,    *)
(* that one of the contexts finds.  A context finds what is in the range   *)
(* of each of its hints and passes its filter.                             *)
(***************************************************************************)
InHint(h, v) == IF h.scan = "PREFIX" THEN <<v.n>> = h.begin
                ELSE h.begin[1] <= v.n /\ v.n < h.end[1]
ContextFinds(c, schema, fields) ==
    LET key(col) == PropCol(<<schema, col>>)
        cols == SetToSeq(DOMAIN fields)
        env == [it |-> "prop", cols |-> [i \in DOMAIN cols |-> key(cols[i])],
                row |-> [i \in DOMAIN cols |-> fields[cols[i]]], vars |-> <<>>]
    IN /\ \A i \in DOMAIN c.hints : InHint(c.hints[i], fields[c.hints[i].col])
       /\ \A i \in DOMAIN c.filter : Eval(c.filter[i], env) = True
\* What the storage can return of each entity of a schema.
Entities(graph, schema) ==
    LET props(v) == {k[2] : k \in {q \in DOMAIN graph.verts[v] : q[1] = schema}}
        verts == {v \in DOMAIN graph.verts : props(v) # {}}
        edges == {e \in Elems(graph.edges) : e.name = schema}
    IN {("_vid" :> IntV(v)) @@ [q \in props(v) |-> graph.verts[v][<<schema, q>>]] : v \in verts}
       \cup {EdgeFrom(e, TRUE).p : e \in edges}
StorageLookup(graph, x) ==
    LET found == {f \in Entities(graph, x.schema) :
                    \E i \in DOMAIN x.contexts : ContextFinds(x.contexts[i], x.schema, f)}
        all == SetToSeq(found)
    IN [i \in DOMAIN all |-> [j \in DOMAIN x.ret |-> all[i][x.ret[j]]]]

(***************************************************************************)
(* What the executors make of a complete answer.                           *)
(***************************************************************************)
HandleNeighbors(n, vertices, own) == GnRes({own}, vertices)
HandleVertices(n, rows, own) ==
    PropRes({own}, <<"_vid">> \o [i \in DOMAIN n.x.props |-> PropCol(n.x.props[i])], rows)
HandleEdges(n, rows, own) ==
    PropRes({own}, [i \in DOMAIN n.x.props |-> PropCol(n.x.props[i])], rows)
HandleLookup(n, rows, own) == SeqRes({own}, n.cols, rows)
EmptyLookup(own) == SeqRes({own}, <<"dummy">>, <<>>)
=============================================================================
