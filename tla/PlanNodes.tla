----------------------------- MODULE PlanNodes -----------------------------
(***************************************************************************)
(* The nodes of execution plans (planner/PlanNode, Query.h, Logic.h,       *)
(* Algo.h) and the symbol table that ties them to variables.               *)
(*                                                                         *)
(* A node is a record                                                      *)
(*    id    its name, a pair of a statement and a label;                   *)
(*    kind  its kind;                                                      *)
(*    dep   its dependencies, by name, Nil for a null pointer;             *)
(*    in    the variables it reads, Nil for a null pointer;                *)
(*    out   the variable it writes, at first one of its own;               *)
(*    cols  the column names of that variable;                             *)
(*    x     the parameters of its kind.                                    *)
(* A constructor takes the node it depends on, as make does.  Variables    *)
(* are pairs as well: <<0, "a">> is the variable $a of a user.             *)
(***************************************************************************)
EXTENDS Visitors

Nil == <<0, "">>
UserVar(name) == <<0, name>>

(***************************************************************************)
(* PlanNode and the kinds of inputs.                                       *)
(***************************************************************************)
PlanNode(id, kind, x) ==
    [id |-> id, kind |-> kind, dep |-> <<>>, in |-> <<>>, out |-> id, cols |-> <<>>, x |-> x]
NullNode == [id |-> Nil, kind |-> "Null", dep |-> <<>>, in |-> <<>>, out |-> Nil,
             cols |-> <<>>, x |-> <<>>]
SingleDependencyNode(id, kind, dep, x) == [PlanNode(id, kind, x) EXCEPT !.dep = <<dep.id>>]
\* The input of a node is the output of its dependency, if it has one.
SingleInputNode(id, kind, dep, x) ==
    [SingleDependencyNode(id, kind, dep, x) EXCEPT !.in = <<dep.out>>]
BiInputNode(id, kind, l, r, x) ==
    [PlanNode(id, kind, x) EXCEPT !.dep = <<l.id, r.id>>, !.in = <<l.out, r.out>>]

SetColNames(n, cols) == [n EXCEPT !.cols = cols]
SetInputVar(n, var) == [n EXCEPT !.in = <<var>>]
SetOutputVar(n, var) == [n EXCEPT !.out = var]
DependsOn(n, dep) == [n EXCEPT !.dep = <<dep>>]
PropCol(p) == p[1] \o "." \o p[2]
Names(columns) == [i \in DOMAIN columns |-> columns[i].n]

(***************************************************************************)
(* Logic nodes.                                                            *)
(***************************************************************************)
StartNode(id) == PlanNode(id, "Start", <<>>)
\* ++loopSteps <= steps
Loop(id, dep, body, steps) ==
    SingleInputNode(id, "Loop", dep, [body |-> body.id, steps |-> steps])
PassThroughNode(id, dep) == SingleInputNode(id, "PassThrough", dep, <<>>)

(***************************************************************************)
(* Nodes that ask the storage.                                             *)
(***************************************************************************)
\* No limit is -1, no filter is <<>>.
GetNeighbors(id, dep, src, edges, dir, vprops, eprops) ==
    SingleInputNode(id, "GetNeighbors", dep,
        [src |-> src, edges |-> edges, dir |-> dir, vprops |-> vprops, eprops |-> eprops,
         dedup |-> FALSE, limit |-> -1, filter |-> <<>>])
GetVertices(id, dep, src, props, dedup) ==
    SingleInputNode(id, "GetVertices", dep, [src |-> src, props |-> props, dedup |-> dedup])
GetEdges(id, dep, key, props, dedup) ==
    SingleInputNode(id, "GetEdges", dep, [key |-> key, props |-> props, dedup |-> dedup])
IndexScan(id, dep, contexts, ret, schema, empty) ==
    SingleInputNode(id, "IndexScan", dep,
        [contexts |-> contexts, ret |-> ret, schema |-> schema, empty |-> empty])

(***************************************************************************)
(* Relational nodes.                                                       *)
(***************************************************************************)
Filter(id, dep, cond) == SingleInputNode(id, "Filter", dep, [cond |-> cond])
Project(id, dep, columns) == SingleInputNode(id, "Project", dep, [columns |-> columns])
Dedup(id, dep) == SingleInputNode(id, "Dedup", dep, <<>>)
Sort(id, dep, factors) == SingleInputNode(id, "Sort", dep, [factors |-> factors])
Limit(id, dep, offset, count) ==
    SingleInputNode(id, "Limit", dep, [offset |-> offset, count |-> count])
TopN(id, dep, factors, offset, count) ==
    SingleInputNode(id, "TopN", dep, [factors |-> factors, offset |-> offset, count |-> count])
Aggregate(id, dep, keys, items) ==
    SingleInputNode(id, "Aggregate", dep, [keys |-> keys, items |-> items])
Union(id, l, r) == BiInputNode(id, "Union", l, r, <<>>)
Intersect(id, l, r) == BiInputNode(id, "Intersect", l, r, <<>>)
Minus(id, l, r) == BiInputNode(id, "Minus", l, r, <<>>)
\* The variables joined, each at the latest version (0) or the one before (-1).
DataJoin(id, dep, lvar, lver, rvar, rver, hashKey, probeKey) ==
    [SingleDependencyNode(id, "DataJoin", dep,
        [ver |-> <<lver, rver>>, hashKey |-> hashKey, probeKey |-> probeKey])
     EXCEPT !.in = <<lvar, rvar>>]
DataCollect(id, dep, ckind, vars, m, n, distinct) ==
    [SingleDependencyNode(id, "DataCollect", dep,
        [ckind |-> ckind, m |-> m, n |-> n, distinct |-> distinct])
     EXCEPT !.in = vars]
\* All versions of the variable it reads, one after the other.
UnionAllVersionVar(id, dep) == SingleInputNode(id, "UnionAllVersionVar", dep, <<>>)
\* The first column is the list, the others are carried along.
Unwind(id, dep, columns) == SingleInputNode(id, "Unwind", dep, [columns |-> columns])
Subgraph(id, dep, oneMoreStepOutput, steps) ==
    SingleInputNode(id, "Subgraph", dep, [more |-> oneMoreStepOutput, steps |-> steps])

(***************************************************************************)
(* Plans: the nodes by name, the root, and the tail to which the plan of   *)
(* the statement before is appended.                                       *)
(***************************************************************************)
NodeMap(nodes) == [id \in {n.id : n \in nodes} |-> CHOOSE n \in nodes : n.id = id]
\* Validator::appendPlan: only a node with one dependency can be appended to.
CanAppend(plan) == Len(plan.nodes[plan.tail].dep) = 1
AppendPlan(plan, dep) == [plan EXCEPT !.nodes[plan.tail] = DependsOn(@, dep)]

\* A variable that a later node reads at the version before the latest one.
LatestVersion == 0
\* Mutant: the version before the previous one.
PreviousTwoVersion == -2
PreviousOneVersion == -1
=============================================================================
