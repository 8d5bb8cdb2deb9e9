------------------------------ MODULE AllPaths ------------------------------
(***************************************************************************)
(* FIND ALL PATH and FIND NOLOOP PATH: the plan of                         *)
(* FindPathValidator::allPairPaths and the executors it runs.              *)
(*                                                                         *)
(* Both sides build all their paths without a repeated edge, one step      *)
(* longer in every round; ConjunctPath joins the paths of k steps of the   *)
(* forward side with those of k - 1 and of k steps of the backward side.   *)
(***************************************************************************)
EXTENDS PathPlan

VARIABLES
    historyPaths, \* for each side: ProduceAllPathsExecutor::historyPaths_
    count         \* for each executor: its count_


\* Before the loop, a path without a step for each start.
FirstPaths(side) == << {PathOf(v) : v \in Starts(side)} >>

AllPairPaths(q) ==
    /\ Plan(q)
    /\ historyPaths = [s \in Sides |-> {}]
    /\ count = [e \in Sides \cup {"conjunct"} |-> 0]
    /\ pathVar = [s \in Sides |-> FirstPaths(s)]

\* ++loopSteps{0} <= (steps/2+steps%2)
AllCondition(n) == n <= Rounds

AllLoop ==
    /\ stage = "loop"
    /\ loopSteps' = loopSteps + 1
    /\ stage' = IF AllCondition(loopSteps + 1) THEN "body" ELSE "collect"
    /\ done' = {}
    /\ UNCHANGED <<query, startVids, historyPaths, count, pathVar, output, answer>>

\* Mutant: paths of earlier rounds are continued again.
BuildPathsAgain(side, a) ==
    {AddStep(p, a) : p \in {q \in historyPaths[side] : EndOf(q) = a.src}}

\* The paths of the latest round, one step longer.  The plan sets noLoop for
\* ConjunctPath only.
BuildPaths(side, a) ==
    {p \in {AddStep(q, a) : q \in {h \in historyPaths[side] :
                                    EndOf(h) = a.src /\ Len(h.steps) >= count[side]}} :
        ~HasDuplicateEdges(p)}

CreatePath(a) == {AddStep(PathOf(a.src), a)}

\* What a round adds to a side.
Interims(side) ==
    LET seen == {EndOf(p) : p \in historyPaths[side]}
    IN  UNION {IF a.src \in seen THEN BuildPaths(side, a) ELSE CreatePath(a) :
                a \in GetNeighbors(graph, startVids[side], side)}

\* One side of a round: GetNeighbors, ProduceAllPaths, Project and Dedup.
ProduceAllPaths(side) ==
    /\ stage = "body"
    /\ side \notin done
    /\ historyPaths' = [historyPaths EXCEPT ![side] = @ \cup Interims(side)]
    /\ pathVar' = [pathVar EXCEPT ![side] = Append(@, Interims(side))]
    /\ startVids' = [startVids EXCEPT ![side] = {EndOf(p) : p \in Interims(side)}]
    /\ count' = [count EXCEPT ![side] = @ + 1]
    /\ done' = done \cup {side}
    /\ UNCHANGED <<query, stage, loopSteps, output, answer>>

-----------------------------------------------------------------------------
\* The pairs of paths that meet, made one.
JoinPaths(forward, backward) ==
    UNION {{AppendPath(f, ReversePath(b)) :
                b \in {r \in backward : EndOf(r) = EndOf(f) /\ r.src # f.src}} : f \in forward}

\* Mutant: NOLOOP is not looked at.
FindAllPathsLoops(forward, backward) ==
    {p \in JoinPaths(forward, backward) : ~HasDuplicateEdges(p)}

FindAllPaths(forward, backward) ==
    {p \in JoinPaths(forward, backward) :
        ~HasDuplicateEdges(p) /\ (noLoop => ~HasDuplicateVertices(p))}

\* Mutant: the latest version is counted twice.
PreviousOlder(rHist) == rHist[IF Len(rHist) = 2 THEN 1 ELSE Len(rHist) - 2]

Previous(rHist) == rHist[Len(rHist) - 1]

AllConjunct ==
    /\ stage = "body"
    /\ done = Sides
    /\ LET n == count["conjunct"] + 1
           rHist == pathVar["backward"]
           forward == Latest(pathVar["forward"])
       IN  /\ count' = [count EXCEPT !["conjunct"] = n]
           /\ output' = Append(output,
                (IF Len(rHist) >= 2 THEN FindAllPaths(forward, Previous(rHist)) ELSE {})
                \cup (IF n * 2 <= steps THEN FindAllPaths(forward, Latest(rHist)) ELSE {}))
    /\ stage' = "loop"
    /\ UNCHANGED <<query, done, loopSteps, startVids, historyPaths, pathVar, answer>>

\* DataCollect moves the rows of all versions.
AllCollect ==
    /\ stage = "collect"
    /\ answer' = UNION Range(output)
    /\ stage' = "done"
    /\ UNCHANGED <<query, done, loopSteps, startVids, historyPaths, count, pathVar, output>>

AllNext ==
    AllLoop \/ (\E side \in Sides : ProduceAllPaths(side)) \/ AllConjunct \/ AllCollect

-----------------------------------------------------------------------------
(***************************************************************************)
(* Version k of a side holds the paths of k steps from its starts that     *)
(* repeat no edge, all of them (ProduceAllPathsExecutor): none is lost     *)
(* between rounds and none is continued twice.                             *)
(***************************************************************************)
AllLevels ==
    \A s \in Sides : \A k \in 0..(Len(pathVar[s]) - 1) :
        pathVar[s][k + 1] = Trails(graph, Starts(s), k, s)

(***************************************************************************)
(* The answer is exactly the set of paths of at most UPTO steps from a     *)
(* FROM vertex to another vertex of TO, without a repeated edge (and, for  *)
(* NOLOOP, without a repeated vertex).                                     *)
(***************************************************************************)
AllAnswer ==
    stage = "done" =>
        answer = {p \in WalksBetween(graph, from, to, steps) :
                    /\ p.src # EndOf(p)
                    /\ ~HasDuplicateEdges(p)
                    /\ noLoop => ~HasDuplicateVertices(p)}

\* No row of the answer is found twice: the rounds find different paths.
AllOnce ==
    \A i, j \in DOMAIN output : i # j => output[i] \cap output[j] = {}
=============================================================================
