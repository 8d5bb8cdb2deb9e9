------------------------------ MODULE FindPath ------------------------------
(***************************************************************************)
(* FIND PATH: the choice between its three plans (FindPathValidator), each *)
(* with the executors of its own module.                                   *)
(***************************************************************************)
EXTENDS ShortestPath, AllPaths, MultiPairPath

CONSTANT
    Queries       \* records of graph, from, to, steps, shortest, noLoop and literal

\* literal: the vertices are given in the sentence, not by a pipe or a variable.
ASSUME QueryAssumption ==
    \A q \in Queries : /\ q.graph.over \in Directions
                       /\ q.steps \in Nat
                       /\ {q.shortest, q.noLoop, q.literal} \subseteq BOOLEAN

VARIABLE algo     \* the plan that was chosen

single == <<visited, hists>>
all == <<historyPaths, count>>
multi == <<todo, current, history, costs, unconnected, allFound, crowded>>
vars == <<algo, query, stage, done, loopSteps, startVids, pathVar, output, answer,
          single, all, multi>>

\* size() == 1
IsOne(vids) == \E v \in vids : vids = {v}

ToPlan(q) ==
    IF ~q.shortest \/ q.noLoop THEN "all"
    ELSE IF q.literal /\ IsOne(q.from) /\ IsOne(q.to) THEN "single"
    ELSE "multi"

NoSingle == visited = <<>> /\ hists = <<>>
NoAll == historyPaths = <<>> /\ count = <<>>
NoMulti == /\ todo = <<>> /\ current = <<>> /\ history = <<>> /\ costs = <<>>
           /\ unconnected = <<>> /\ allFound = <<>> /\ crowded = <<>>

Init ==
    \E q \in Queries :
        /\ algo = ToPlan(q)
        /\ \/ algo = "single" /\ SinglePairPlan(q) /\ NoAll /\ NoMulti
           \/ algo = "all" /\ AllPairPaths(q) /\ NoSingle /\ NoMulti
           \/ algo = "multi" /\ MultiPairPlan(q) /\ NoSingle /\ NoAll

Next ==
    /\ UNCHANGED algo
    /\ \/ algo = "single" /\ SingleNext /\ UNCHANGED <<all, multi>>
       \/ algo = "all" /\ AllNext /\ UNCHANGED <<single, multi>>
       \/ algo = "multi" /\ MultiNext /\ UNCHANGED <<single, all>>

Spec == Init /\ [][Next]_vars /\ WF_vars(Next)

-----------------------------------------------------------------------------
(***************************************************************************)
(* BFSShortestPathExecutor: level k of a side holds exactly the last arcs  *)
(* of the shortest walks of k steps from its start.                        *)
(***************************************************************************)
LevelsAreDistances == algo = "single" => SingleLevels

(***************************************************************************)
(* ProduceAllPathsExecutor: version k of a side holds all the paths of k   *)
(* steps from its starts that repeat no edge, and no others.               *)
(***************************************************************************)
LevelsAreTrails == algo = "all" => AllLevels

\* updateHistory never meets an entry worse than the known one, which would end
\* the process with LOG(FATAL).
NeverWorse == algo = "multi" => MultiNeverWorse

(***************************************************************************)
(* ConjunctPathExecutor and DataCollectExecutor: the answer of each plan   *)
(* is exactly the set of paths that the sentence asks for, UPTO steps,     *)
(* with two exceptions that the code makes.  The multi-pair plan with an   *)
(* even bound leaves out the shortest paths that are as long as the bound. *)
(* The single-pair plan with an odd bound returns paths that are one step  *)
(* longer than the bound if there are none within it.  For the multi-pair  *)
(* plan exactness needs that no two starts compete for a new vertex.       *)
(***************************************************************************)
AnswerIsExact ==
    /\ algo = "single" => SingleAnswer
    /\ algo = "all" => AllAnswer
    /\ algo = "multi" => MultiAnswer

(***************************************************************************)
(* Whatever the plan, and also when starts compete for a vertex: every row *)
(* of the answer is a path from a vertex of FROM to a vertex of TO that is *)
(* not longer than UPTO allows (the single-pair plan rounds an odd bound   *)
(* up), and a NOLOOP path has no repeated vertex.  The multi-pair plan     *)
(* returns no path of a pair that is longer than another one it found.     *)
(***************************************************************************)
AnswerIsSound ==
    /\ \A p \in answer :
        /\ IsWalkBetween(p, graph, from, to, IF algo = "single" THEN steps + (steps % 2) ELSE steps)
        /\ noLoop => ~HasDuplicateVertices(p)
    /\ algo = "multi" => MultiCheapest

\* findAllPaths: no path is found in two rounds.
FoundOnce == algo = "all" => AllOnce

\* The loop ends and the query is answered, also in a cyclic or disconnected graph.
Terminates == <>(stage \in {"done", "error"})

(***************************************************************************)
(* A vertex that is reached from several starts has an entry for each, as  *)
(* ProduceSemiShortestPathTest expects of 6->7, which continues the paths  *)
(* of two starts.                                                          *)
(***************************************************************************)
EveryStartRecorded == algo = "multi" => MultiStarts
=============================================================================
