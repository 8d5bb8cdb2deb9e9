--------------------------- MODULE MultiPairPath ---------------------------
(***************************************************************************)
(* FIND SHORTEST PATH between sets of vertices: the plan of                *)
(* FindPathValidator::multiPairPlan and the executors it runs.             *)
(*                                                                         *)
(* Each side keeps, for a vertex dst it has reached and a start it has     *)
(* reached it from, the cost and the paths of the best connection: a map   *)
(* from <<dst, start>> to [cost, paths].  ProduceSemiShortestPath extends  *)
(* the map in every round and outputs what is new, ConjunctPath joins the  *)
(* two sides, and a table of the pairs not yet connected ends the loop.    *)
(* Every edge has weight 1.                                                *)
(***************************************************************************)
EXTENDS PathPlan

VARIABLES
    todo,         \* for each side: the arcs of its neighbours still to be read
    current,      \* for each side: currentCostPathMap of the running execute()
    history,      \* for each side: historyCostPathMap_
    costs,        \* historyCostMap_ of ConjunctPath: the best cost for each pair
    unconnected,  \* conditionalVar: the pairs that are not yet connected
    allFound,     \* the value of conditionalVar says that all pairs are connected
    crowded       \* history variable: two starts competed for a new vertex

search == <<startVids, todo, current, history, pathVar, crowded>>
join == <<costs, unconnected, allFound, output>>

NoEntry == [k \in {} |-> [cost |-> 0, paths |-> {}]]

\* Before the loop: each start reaches itself.
FirstEntries(side) ==
    << [k \in {<<v, v>> : v \in Starts(side)} |-> [cost |-> 0, paths |-> {PathOf(k[1])}]] >>

\* The CartesianProduct of the starts of both sides is the conditional variable.
MultiPairPlan(q) ==
    /\ Plan(q)
    /\ todo = [s \in Sides |-> {}]
    /\ current = [s \in Sides |-> NoEntry]
    /\ history = [s \in Sides |-> NoEntry]
    /\ pathVar = [s \in Sides |-> FirstEntries(s)]
    /\ costs = [k \in {} |-> 0]
    /\ unconnected = from \X to
    /\ allFound = FALSE
    /\ crowded = FALSE

\* (++loopSteps{0} <= steps/2+steps%2) && size(conditionalVar) == 0
MultiLoop ==
    /\ stage = "loop"
    /\ loopSteps' = loopSteps + 1
    /\ done' = {}
    /\ IF loopSteps + 1 <= Rounds /\ ~allFound
        THEN /\ stage' = "body"
             /\ todo' = [s \in Sides |-> GetNeighbors(graph, startVids[s], s)]
             /\ current' = [s \in Sides |-> NoEntry]
        ELSE /\ stage' = "collect"
             /\ UNCHANGED <<todo, current>>
    /\ UNCHANGED <<query, startVids, history, pathVar, crowded, join, answer>>

-----------------------------------------------------------------------------
Reached(map, v) == {k[2] : k \in {x \in DOMAIN map : x[1] = v}}

\* createPaths: what is known about a start at the source, one step longer.
CreatePaths(H, a, start) ==
    [cost |-> H[<<a.src, start>>].cost + 1,
     paths |-> {AddStep(p, a) : p \in H[<<a.src, start>>].paths}]

\* Mutant: the history is not consulted.
NewsAlways(H, a, start) == CreatePaths(H, a, start)

\* What of it the history does not know: nothing if it is worse, the paths that
\* removeSamePath leaves if it is as good.
News(H, a, start) ==
    LET new == CreatePaths(H, a, start)
        key == <<a.dst, start>>
    IN  IF key \notin DOMAIN H THEN new
        ELSE [cost |-> new.cost,
              paths |-> IF new.cost > H[key].cost THEN {} ELSE new.paths \ H[key].paths]

HasNews(H, a) == {s \in Reached(H, a.src) : News(H, a, s).paths # {}}

\* Of two connections found in the same round, the shorter; both if equally short.
Better(old, new) ==
    IF new.cost < old.cost THEN new
    ELSE IF new.cost = old.cost THEN [cost |-> old.cost, paths |-> old.paths \cup new.paths]
    ELSE old

Put(map, key, entry) ==
    [k \in DOMAIN map \cup {key} |-> IF k = key THEN entry ELSE map[k]]

\* dstInCurrent: dst is already in the map of this round.
DstInCurrent(H, cur, a) ==
    LET known == {s \in Reached(H, a.src) : <<a.dst, s>> \in DOMAIN cur}
        added == HasNews(H, a) \ known
    IN  [k \in DOMAIN cur \cup {<<a.dst, s>> : s \in added} |->
            IF k \in DOMAIN cur
            THEN IF k[1] = a.dst /\ k[2] \in known
                 THEN Better(cur[k], CreatePaths(H, a, k[2])) ELSE cur[k]
            ELSE News(H, a, k[2])]

\* src is a start that nothing has reached.
FromStart(cur, a) ==
    LET key == <<a.dst, a.src>>
        path == AddStep(PathOf(a.src), a)
        old == cur[key]
    IN  IF key \notin DOMAIN cur THEN Put(cur, key, [cost |-> 1, paths |-> {path}])
        ELSE IF old.cost < 1 THEN cur
        ELSE Put(cur, key, [cost |-> old.cost,
                            paths |-> IF old.cost = 1 THEN old.paths \cup {path} ELSE {path}])

(***************************************************************************)
(* dstNotInHistory and dstInHistory, for a dst that is new in this round:  *)
(* they call currentCostPathMap.emplace(dst, ...) for every start, and the *)
(* first one in the order of the hash table wins.                          *)
(***************************************************************************)
DstNotInCurrent(H, cur, a) ==
    IF HasNews(H, a) = {} THEN {cur}
    ELSE {Put(cur, <<a.dst, s>>, News(H, a, s)) : s \in HasNews(H, a)}

Fresh(cur, a) == Reached(cur, a.dst) = {}

\* What the map of this round may become.
Follow(H, cur, a) ==
    IF Reached(H, a.src) = {} THEN {FromStart(cur, a)}
    ELSE IF Fresh(cur, a) THEN DstNotInCurrent(H, cur, a)
    ELSE {DstInCurrent(H, cur, a)}

Competing(H, cur, a) == Fresh(cur, a) /\ \E s, t \in HasNews(H, a) : s # t

\* The loop of ProduceSemiShortestPathExecutor::execute() for the next arc.
Read(side) ==
    /\ stage = "body"
    /\ \E a \in todo[side] :
        /\ todo' = [todo EXCEPT ![side] = @ \ {a}]
        /\ \E next \in Follow(history[side], current[side], a) :
            current' = [current EXCEPT ![side] = next]
        /\ crowded' = (crowded \/ Competing(history[side], current[side], a))
    /\ UNCHANGED <<query, stage, done, loopSteps, startVids, history, pathVar, join, answer>>

\* updateHistory, for an entry that is not worse than what is known.
UpdateHistory(H, cur) ==
    [k \in DOMAIN H \cup DOMAIN cur |->
        IF k \notin DOMAIN cur THEN H[k]
        ELSE IF k \notin DOMAIN H THEN cur[k]
        ELSE Better(H[k], cur[k])]

\* The end of execute(), and the Project and Dedup behind it.
ProduceSemiShortestPath(side) ==
    /\ stage = "body"
    /\ side \notin done
    /\ todo[side] = {}
    /\ done' = done \cup {side}
    /\ pathVar' = [pathVar EXCEPT ![side] = Append(@, current[side])]
    /\ history' = [history EXCEPT ![side] = UpdateHistory(@, current[side])]
    /\ startVids' = [startVids EXCEPT ![side] = {k[1] : k \in DOMAIN current[side]}]
    /\ UNCHANGED <<query, stage, loopSteps, todo, current, crowded, join, answer>>

-----------------------------------------------------------------------------
(***************************************************************************)
(* findPath joins the entries of the two sides that end in the same        *)
(* vertex.  A join <<start, end, dst>> is skipped if the pair has a better *)
(* one already; in which order the joins come is up to the hash tables, so *)
(* of those that a better one follows any may be taken as well.            *)
(***************************************************************************)
Joins(forward, level) ==
    {j \in from \X to \X {k[1] : k \in DOMAIN forward} :
        <<j[3], j[1]>> \in DOMAIN forward /\ <<j[3], j[2]>> \in DOMAIN level}

Total(forward, level, j) == forward[<<j[3], j[1]>>].cost + level[<<j[3], j[2]>>].cost

Pair(j) == <<j[1], j[2]>>

\* The joins that are not worse than what their pair has.
Open(forward, level, known) ==
    {j \in Joins(forward, level) :
        /\ j[1] # j[2]
        /\ Pair(j) \in DOMAIN known => Total(forward, level, j) <= known[Pair(j)]}

Best(forward, level, known) ==
    {j \in Open(forward, level, known) :
        \A i \in Open(forward, level, known) :
            Pair(i) = Pair(j) => Total(forward, level, j) <= Total(forward, level, i)}

JoinRows(forward, level, j) ==
    {[path |-> AppendPath(f, ReversePath(b)), cost |-> Total(forward, level, j)] :
        f \in forward[<<j[3], j[1]>>].paths, b \in level[<<j[3], j[2]>>].paths}

BestCosts(forward, level, known) ==
    LET best == Best(forward, level, known)
    IN  [p \in DOMAIN known \cup {Pair(j) : j \in best} |->
            IF \E j \in best : Pair(j) = p
            THEN Total(forward, level, CHOOSE j \in best : Pair(j) = p) ELSE known[p]]

FindPaths(forward, level, state) ==
    LET open == Open(forward, level, state.costs)
        best == Best(forward, level, state.costs)
        deletes == open # {} \/ \E j \in Joins(forward, level) : j[1] = j[2]
        left == IF ~deletes THEN state.unconnected
                ELSE {p \in state.unconnected : p[1] # p[2] /\ p \notin {Pair(j) : j \in open}}
    IN  {[costs |-> BestCosts(forward, level, state.costs),
          unconnected |-> left,
          allFound |-> IF deletes THEN left = {} ELSE state.allFound,
          rows |-> state.rows \cup UNION {JoinRows(forward, level, j) : j \in best \cup extra}] :
            extra \in SUBSET (open \ best)}

Even(n) == n * 2 < steps

\* floydShortestPath: the previous version of the backward side, then the latest.
MultiConjunct ==
    /\ stage = "body"
    /\ done = Sides
    /\ LET forward == Latest(pathVar["forward"])
           rHist == pathVar["backward"]
           before == [costs |-> costs, unconnected |-> unconnected, allFound |-> allFound, rows |-> {}]
       IN  \E odd \in FindPaths(forward, rHist[Len(rHist) - 1], before) :
           \E both \in IF Even(loopSteps) THEN FindPaths(forward, Latest(rHist), odd) ELSE {odd} :
               /\ costs' = both.costs
               /\ unconnected' = both.unconnected
               /\ allFound' = both.allFound
               /\ output' = Append(output, both.rows)
    /\ stage' = "loop"
    /\ UNCHANGED <<query, done, loopSteps, search, answer>>

(***************************************************************************)
(* collectMultiplePairShortestPath.  The costs of a pair's rows never      *)
(* increase from one to the next.  The cost kept beside the paths is that  *)
(* of the first row: each cheaper row replaces the paths, so that if there *)
(* is one the last row is left.                                            *)
(***************************************************************************)
MultiCollect ==
    /\ stage = "collect"
    /\ LET rows == UNION Range(output)
           Of(p) == {r \in rows : <<r.path.src, EndOf(r.path)>> = p}
           pairs == {<<r.path.src, EndOf(r.path)>> : r \in rows}
           Cheapest(p) == {r \in Of(p) : \A q \in Of(p) : r.cost <= q.cost}
           kept == {p \in pairs : Cheapest(p) = Of(p)}
       IN  \E last \in [pairs \ kept -> rows] :
            /\ \A p \in pairs \ kept : last[p] \in Cheapest(p)
            /\ answer' = {r.path : r \in Range(last) \cup UNION {Of(p) : p \in kept}}
    /\ stage' = "done"
    /\ UNCHANGED <<query, done, loopSteps, search, join>>

MultiNext ==
    \/ MultiLoop
    \/ \E side \in Sides : Read(side) \/ ProduceSemiShortestPath(side)
    \/ MultiConjunct
    \/ MultiCollect

-----------------------------------------------------------------------------
\* What a round produces is never worse than the history: updateHistory does
\* not get to its LOG(FATAL), which would end the process.
MultiNeverWorse ==
    \A s \in Sides : \A k \in DOMAIN current[s] \cap DOMAIN history[s] :
        current[s][k].cost <= history[s][k].cost

\* What the sentence asks for: of each pair of different vertices all the
\* shortest walks, if they have at most steps (UPTO) steps.
ShortestOfPairs ==
    LET walks == WalksBetween(graph, from, to, steps)
    IN  UNION {Shortest({w \in walks : w.src = p[1] /\ EndOf(w) = p[2]}) :
                p \in {q \in from \X to : q[1] # q[2]}}

\* What an even bound costs: in the last round floydShortestPath does not join
\* the two latest versions, as count_ * 2 < steps is false then.
AtEvenBound == {w \in ShortestOfPairs : steps % 2 = 0 /\ Len(w.steps) = steps}

(***************************************************************************)
(* For every pair of different vertices the query returns all the shortest *)
(* walks that UPTO allows and nothing else, except that with an even bound *)
(* it does not return those that are as long as the bound.  This needs     *)
(* that no two starts compete for a vertex that is new in a round.         *)
(***************************************************************************)
MultiAnswer == stage = "done" /\ ~crowded => answer = ShortestOfPairs \ AtEvenBound

\* Also if starts compete: no path is returned if a shorter one of the same pair
\* was found.
MultiCheapest ==
    \A p \in answer : \A r \in UNION Range(output) :
        p.src = r.path.src /\ EndOf(p) = EndOf(r.path) => Len(p.steps) <= Len(r.path.steps)

(***************************************************************************)
(* A vertex that is reached from several starts has an entry for each, as  *)
(* ProduceSemiShortestPathTest expects of 6->7, which continues the paths  *)
(* of two starts.                                                          *)
(***************************************************************************)
MultiStarts ==
    \A s \in Sides :
        s \in done =>
            \A start \in Starts(s) : \A k \in 1..(Len(pathVar[s]) - 1) :
                \A p \in Walks(graph, {start}, k, s) :
                    <<EndOf(p), start>> \in DOMAIN history[s]
=============================================================================
