---------------------------- MODULE ShortestPath ----------------------------
(***************************************************************************)
(* FIND SHORTEST PATH between one vertex and another: the plan of          *)
(* FindPathValidator::singlePairPlan and the executors it runs.            *)
(*                                                                         *)
(* A loop searches breadth first from both ends.  In round k each side     *)
(* finds the vertices of level k; then ConjunctPath joins level k of the   *)
(* forward side with level k - 1 of the backward side (a path of 2k - 1    *)
(* steps) or, if they do not meet, with its level k (2k steps).            *)
(***************************************************************************)
EXTENDS PathPlan

CONSTANT NoEdge   \* the empty value in the edge column of the first row

VARIABLES
    visited,      \* for each side: BFSShortestPathExecutor::visited_
    hists         \* forward_ and backward_ of ConjunctPathExecutor


Start(side) == CHOOSE v \in Starts(side) : TRUE

\* bfs() and buildConstantInput() write the first versions when they build the plan.
SinglePairPlan(q) ==
    /\ Plan(q)
    /\ visited = [s \in Sides |-> {}]
    /\ pathVar = [s \in Sides |->
                    << {[src |-> Start(s), dst |-> Start(s), edge |-> NoEdge, sign |-> 1]} >>]
    /\ hists = [s \in Sides |-> <<>>]

\* ++loopSteps{0} <= (steps/2+steps%2) && (pathVar == Empty || size(pathVar) == 0)
SingleCondition(n) ==
    /\ n <= Rounds
    /\ output = <<>> \/ Latest(output) = {}

SingleLoop ==
    /\ stage = "loop"
    /\ loopSteps' = loopSteps + 1
    /\ stage' = IF SingleCondition(loopSteps + 1) THEN "body" ELSE "collect"
    /\ done' = {}
    /\ UNCHANGED <<query, startVids, visited, pathVar, hists, output, answer>>

(***************************************************************************)
(* BFSShortestPathExecutor reads the arcs in the order of the storage's    *)
(* answer and skips one that leads to a visited vertex.  It marks the      *)
(* source of each arc it saves while it reads, the targets afterwards.     *)
(* All the sources are marked in earlier rounds, or there is a single one  *)
(* (the start), so the first arc saved decides which loops are skipped.    *)
(***************************************************************************)
Saved(fresh) ==
    IF fresh = {} THEN {{}}
    ELSE {{first} \cup {a \in fresh : a.dst # first.src} : first \in fresh}

\* Mutant: the vertices of the new level are not marked.
MarkedSources(kept) == {a.src : a \in kept}

Marked(kept) == {a.src : a \in kept} \cup {a.dst : a \in kept}

\* Mutant: a side with nothing to expand returns without a result.
ReadyIfAny(side) == stage = "body" /\ side \notin done /\ startVids[side] # {}

Ready(side) == stage = "body" /\ side \notin done

\* One side of a round: GetNeighbors, BFSShortestPath, Project and Dedup.
Expand(side) ==
    /\ Ready(side)
    /\ \E kept \in Saved({a \in GetNeighbors(graph, startVids[side], side) :
                            a.dst \notin visited[side]}) :
        /\ pathVar' = [pathVar EXCEPT ![side] = Append(@, kept)]
        /\ visited' = [visited EXCEPT ![side] = @ \cup Marked(kept)]
        /\ startVids' = [startVids EXCEPT ![side] = {a.dst : a \in kept}]
    /\ done' = done \cup {side}
    /\ UNCHANGED <<query, stage, loopSteps, hists, output, answer>>

-----------------------------------------------------------------------------
\* The paths that lead from v back to the start of a side, level by level.
BuildBfsInterimPath(v, levels) ==
    LET n == Len(levels)
    IN  {p \in [src : {v}, steps : [1..n -> {StepBack(a) : a \in UNION Range(levels)}]] :
            \A i \in 1..n : \E a \in levels[n + 1 - i] :
                a.dst = VertexAt(p, i - 1) /\ p.steps[i] = StepBack(a)}

FindBfsShortestPath(level, forward, backward) ==
    LET meets == {a.dst : a \in level} \cap {a.dst : a \in Latest(forward)}
    IN  UNION {{AppendPath(ReversePath(p), q) : p \in BuildBfsInterimPath(v, forward),
                                                q \in BuildBfsInterimPath(v, backward)} :
                v \in meets}

\* Mutant: paths of even length are looked for first.
BfsShortestPathEven(forward, rHist, backward) ==
    LET latest == Append(backward, Latest(rHist))
        even == FindBfsShortestPath(Latest(rHist), forward, latest)
        odd == FindBfsShortestPath(rHist[Len(rHist) - 1], forward, backward)
    IN  [rows |-> IF even # {} THEN even ELSE odd, backward |-> latest]

\* The rows that ConjunctPathExecutor::bfsShortestPath produces, and backward_.
BfsShortestPath(forward, rHist, backward) ==
    LET odd == IF Len(rHist) < 2 THEN {}
               ELSE FindBfsShortestPath(rHist[Len(rHist) - 1], forward, backward)
        latest == Append(backward, Latest(rHist))
    IN  IF odd # {} THEN [rows |-> odd, backward |-> backward]
        ELSE [rows |-> FindBfsShortestPath(Latest(rHist), forward, latest), backward |-> latest]

SingleConjunct ==
    /\ stage = "body"
    /\ done = Sides
    /\ LET forward == Append(hists["forward"], Latest(pathVar["forward"]))
           found == BfsShortestPath(forward, pathVar["backward"], hists["backward"])
       IN  /\ hists' = [forward |-> forward, backward |-> found.backward]
           /\ output' = Append(output, found.rows)
    /\ stage' = "loop"
    /\ UNCHANGED <<query, done, loopSteps, startVids, visited, pathVar, answer>>

\* DataCollect moves the rows of the latest version; there is none, and an
\* error, if the loop was never entered.
SingleCollect ==
    /\ stage = "collect"
    /\ IF output = <<>> THEN stage' = "error" /\ UNCHANGED answer
                        ELSE stage' = "done" /\ answer' = Latest(output)
    /\ UNCHANGED <<query, done, loopSteps, startVids, visited, pathVar, hists, output>>

SingleNext ==
    SingleLoop \/ (\E side \in Sides : Expand(side)) \/ SingleConjunct \/ SingleCollect

-----------------------------------------------------------------------------
(***************************************************************************)
(* Level k of a side holds exactly the last arcs of the shortest walks of  *)
(* k steps: those that lead out of the vertices within k - 1 steps of the  *)
(* start (BFSShortestPathExecutor).  A loop at the start vertex may be     *)
(* saved in the first round, depending on the order of the storage.        *)
(***************************************************************************)
SingleLevels ==
    \A s \in Sides : \A k \in 1..(Len(pathVar[s]) - 1) :
        LET near == Ball(graph, {Start(s)}, k - 1, s)
        IN  {a \in pathVar[s][k + 1] : a.dst # Start(s)}
                = {a \in GetNeighbors(graph, near, s) : a.dst \notin near}

(***************************************************************************)
(* What the query returns for two different vertices: all the shortest     *)
(* walks of at most steps (UPTO) steps between them and nothing else.      *)
(* There is one exception: each round looks for two more steps, so that if *)
(* the bound is odd and there is no such walk, those that are one step     *)
(* longer than the bound are returned.  From a vertex to itself the query  *)
(* returns closed walks, if anything.                                      *)
(***************************************************************************)
SingleAnswer ==
    stage = "done" =>
        LET upTo(n) == WalksBetween(graph, from, to, n)
            tooLong == upTo(steps) = {} /\ steps % 2 = 1
        IN  IF from = to THEN answer \subseteq upTo(steps + (steps % 2))
            ELSE answer = Shortest(upTo(IF tooLong THEN steps + 1 ELSE steps))
=============================================================================
