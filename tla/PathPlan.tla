------------------------------ MODULE PathPlan ------------------------------
(***************************************************************************)
(* What the three plans of FIND PATH have in common: a query, and a loop   *)
(* whose body expands both sides, in any order, before ConjunctPath joins  *)
(* them.  ShortestPath, AllPaths and MultiPairPath add the executors.      *)
(***************************************************************************)
EXTENDS Paths, Functions

VARIABLES
    graph,        \* what the storage holds, and the OVER clause
    from, to, steps, noLoop,
    stage,        \* what runs next
    done,         \* the sides that have finished their part of the round
    loopSteps,    \* the counter of the loop condition
    startVids,    \* for each side: the vertices that GetNeighbors expands
    pathVar,      \* for each side: all versions of the output of its executor
    output,       \* all versions of the output of ConjunctPath
    answer

query == <<graph, from, to, steps, noLoop>>

Starts(side) == IF side = "forward" THEN from ELSE to

\* The plan of the query q, about to enter its loop.
Plan(q) ==
    /\ graph = q.graph
    /\ from = q.from
    /\ to = q.to
    /\ steps = q.steps
    /\ noLoop = q.noLoop
    /\ stage = "loop"
    /\ done = {}
    /\ loopSteps = 0
    /\ startVids = [s \in Sides |-> Starts(s)]
    /\ output = <<>>
    /\ answer = {}

\* The latest version of a variable of the execution context.
Latest(versions) == versions[Len(versions)]

\* steps/2+steps%2, the bound of all the loop conditions.
Rounds == (steps \div 2) + (steps % 2)
=============================================================================
