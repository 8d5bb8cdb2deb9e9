----------------------------- MODULE Optimizer -----------------------------
(***************************************************************************)
(* The optimizer (src/optimizer): the plan as groups of equivalent nodes,  *)
(* the exploration of the groups with one rule after another, the rules,   *)
(* and the plan taken out of the groups.                                   *)
(*                                                                         *)
(* A memo is [ok, spent, groups]: groups maps a name to the nodes of the   *)
(* group, in their order, and the rules it has been explored with; a group *)
(* node is a plan node with the groups it depends on and those of its      *)
(* bodies.  spent tells that an exploration ran out of rounds.             *)
(***************************************************************************)
EXTENDS LookupPlan

CONSTANT MaxExplorationRound    \* kMaxExplorationRound

GroupNode(node, deps) == [node |-> node, deps |-> deps, bodies |-> <<>>, explored |-> {}]
Group(gn) == [nodes |-> <<gn>>, explored |-> {}]
ConvertToGroup(plan) ==
    [id \in DOMAIN plan.nodes |->
        LET n == plan.nodes[id]
        IN Group([GroupNode(n, n.dep) EXCEPT
                    !.bodies = IF n.kind = "Loop" THEN <<n.x.body>> ELSE <<>>])]

(***************************************************************************)
(* Rules: a pattern, a chain of kinds from a node down its dependencies,   *)
(* and what a match is replaced by.                                        *)
(***************************************************************************)
Pattern(rule) ==
    CASE rule = "IndexScanRule" -> <<"IndexScan">>
      [] rule = "PushFilterDownGetNbrsRule" -> <<"Filter", "GetNeighbors">>
      [] rule = "LimitPushDownRule" -> <<"Limit", "Project", "GetNeighbors">>
      [] OTHER -> <<"Limit", "Sort">>
\* The first node of the group below that matches is taken.
RECURSIVE MatchPattern(_, _, _), MatchGroup(_, _, _)
MatchGroup(groups, gns, kinds) ==
    IF gns = <<>> THEN <<>>
    ELSE LET m == MatchPattern(groups, gns[1], kinds)
         IN IF m # <<>> THEN m ELSE MatchGroup(groups, Tail(gns), kinds)
MatchPattern(groups, gn, kinds) ==
    CASE gn.node.kind # kinds[1] -> <<>>
      [] gn.node.kind = kinds[1] /\ Len(kinds) = 1 -> <<gn>>
      [] gn.node.kind = kinds[1] /\ Len(kinds) > 1 /\ Len(gn.deps) # 1 -> <<>>
      [] OTHER -> LET m == MatchGroup(groups, groups[gn.deps[1]].nodes, Tail(kinds))
                  IN IF m = <<>> THEN <<>> ELSE <<gn>> \o m

Fresh(id) == <<id[1], id[2] \o "'">>
NoTransform == [ok |-> TRUE, new |-> <<>>, groups |-> <<>>, eraseCurr |-> FALSE,
                eraseAll |-> FALSE]
Replaced(gn, groups) == [NoTransform EXCEPT !.new = <<gn>>, !.groups = groups, !.eraseAll = TRUE]

\* Filter(A and B) <- GetNeighbors(C) => Filter(A) <- GetNeighbors(B and C)
PushFilterTransform(m) ==
    LET filter == m[1].node
        gn == m[2].node
        r == ExtractFilter(filter.x.cond)
        both == IF gn.x.filter = <<>> THEN r.e ELSE Mk("And", "", <<r.e, gn.x.filter[1]>>)
        new == [gn EXCEPT !.id = Fresh(@), !.x.filter = <<both>>]
        rest == [filter EXCEPT !.id = Fresh(@), !.x.cond = r.rem[1]]
    IN IF ~r.ok THEN NoTransform
       ELSE IF r.rem = <<>>
       THEN [NoTransform EXCEPT
                !.eraseCurr = TRUE,
                !.new = <<GroupNode([new EXCEPT !.out = filter.out, !.cols = filter.cols],
                                    m[2].deps)>>]
       ELSE [NoTransform EXCEPT
                !.eraseCurr = TRUE,
                !.new = <<GroupNode(rest, <<new.id>>)>>,
                !.groups = new.id :> Group(GroupNode(new, m[2].deps))]

\* The neighbors need not be more than the limit lets through.
LimitPushDownTransform(m) ==
    LET limit == m[1].node
        gn == m[3].node
        rows == limit.x.offset + limit.x.count
        new == [gn EXCEPT !.id = Fresh(@), !.x.limit = rows]
        proj == [m[2].node EXCEPT !.id = Fresh(@)]
    IN IF gn.x.limit >= 0 /\ rows >= gn.x.limit THEN NoTransform
       ELSE Replaced(GroupNode([limit EXCEPT !.id = Fresh(@)], <<proj.id>>),
                     (proj.id :> Group(GroupNode(proj, <<new.id>>)))
                     @@ (new.id :> Group(GroupNode(new, m[3].deps))))

\* Limit <- Sort => TopN, from the first row on.
TopNTransform(m) ==
    LET limit == m[1].node
        sort == m[2].node
        topn == [TopN(Fresh(limit.id), NullNode, sort.x.factors, limit.x.offset, limit.x.count)
                 EXCEPT !.out = limit.out, !.in = sort.in, !.cols = sort.cols]
    IN IF limit.x.offset # 0 THEN NoTransform ELSE Replaced(GroupNode(topn, m[2].deps), <<>>)

IndexScanTransform(m, tie) ==
    LET scan == m[1].node
        r == CreateIndexQueryCtx(scan.x, tie)
    IN IF scan.x.empty THEN NoTransform
       ELSE IF ~r.ok \/ Len(m[1].deps) # 1 THEN [NoTransform EXCEPT !.ok = FALSE]
       ELSE Replaced(GroupNode([scan EXCEPT !.id = Fresh(@), !.x.contexts = r.contexts],
                               m[1].deps), <<>>)

Transform(rule, m, tie) ==
    CASE rule = "IndexScanRule" -> IndexScanTransform(m, tie)
      [] rule = "PushFilterDownGetNbrsRule" -> PushFilterTransform(m)
      [] rule = "LimitPushDownRule" -> LimitPushDownTransform(m)
      [] OTHER -> TopNTransform(m)

(***************************************************************************)
(* Exploration, bottom up.  The nodes a rule adds to the group that is     *)
(* being walked are walked as well; a rule that added some is run again.   *)
(***************************************************************************)
RECURSIVE ExploreUntilMaxRound(_, _, _, _, _), ExploreNodes(_, _, _, _, _), ExploreAll(_, _, _, _)
ExploreAll(memo, gids, rule, tie) ==
    IF gids = <<>> \/ ~memo.ok THEN memo
    ELSE ExploreAll(ExploreUntilMaxRound(memo, Head(gids), rule, tie, MaxExplorationRound),
                    Tail(gids), rule, tie)
\* Mutant: a rule that matched and changed nothing is tried again.
ExploreNodesAgain(memo, gid, rule, tie, i) ==
    LET gn == memo.groups[gid].nodes[i]
        m == MatchPattern(memo.groups, gn, Pattern(rule))
        t == Transform(rule, m, tie)
        new == [nodes |-> t.new, explored |-> {rule}]
    IN IF i > Len(memo.groups[gid].nodes) THEN memo
       ELSE IF m = <<>> THEN ExploreNodes(memo, gid, rule, tie, i + 1)
       ELSE IF t.new # <<>> THEN [memo EXCEPT !.groups = (gid :> new) @@ t.groups @@ @]
       ELSE [memo EXCEPT !.ok = t.ok, !.groups[gid].explored = @ \ {rule}]
ExploreNodes(memo, gid, rule, tie, i) ==
    LET gn == memo.groups[gid].nodes[i]
        below == ExploreAll([memo EXCEPT !.groups[gid].nodes[i].explored = @ \cup {rule}],
                            gn.deps \o gn.bodies, rule, tie)
        m == MatchPattern(below.groups, gn, Pattern(rule))
        t == Transform(rule, m, tie)
        groups == t.groups @@ below.groups
        nodes == groups[gid].nodes
        without == SubSeq(nodes, 1, i - 1) \o SubSeq(nodes, i + 1, Len(nodes))
    IN CASE i > Len(memo.groups[gid].nodes) -> memo
         [] i <= Len(memo.groups[gid].nodes) /\ rule \in gn.explored ->
                ExploreNodes(memo, gid, rule, tie, i + 1)
         [] OTHER ->
            CASE ~below.ok -> below
              [] below.ok /\ m = <<>> -> ExploreNodes(below, gid, rule, tie, i + 1)
              [] below.ok /\ m # <<>> /\ ~t.ok -> [below EXCEPT !.ok = FALSE]
              [] below.ok /\ m # <<>> /\ t.ok /\ t.eraseAll ->
                    [below EXCEPT !.groups = [groups EXCEPT ![gid].nodes = t.new]]
              [] OTHER ->
                    ExploreNodes(
                        [below EXCEPT !.groups =
                            [groups EXCEPT
                                ![gid].nodes = (IF t.eraseCurr THEN without ELSE @) \o t.new,
                                ![gid].explored = IF t.new = <<>> THEN @ ELSE @ \ {rule}]],
                        gid, rule, tie, IF t.eraseCurr THEN i ELSE i + 1)
ExploreUntilMaxRound(memo, gid, rule, tie, rounds) ==
    CASE ~memo.ok \/ rule \in memo.groups[gid].explored -> memo
      [] memo.ok /\ rule \notin memo.groups[gid].explored /\ rounds = 0 ->
            [memo EXCEPT !.spent = TRUE, !.groups[gid].explored = @ \cup {rule}]
      [] OTHER ->
            ExploreUntilMaxRound(
                ExploreNodes([memo EXCEPT !.groups[gid].explored = @ \cup {rule}],
                             gid, rule, tie, 1),
                gid, rule, tie, rounds - 1)

\* The recursion of explore reaches the groups from the bottom up; here they
\* are put in such an order first.
RECURSIVE BottomUp(_, _), DoExploration(_, _, _, _)
BottomUp(groups, order) ==
    LET next == {g \in DOMAIN groups \ Elems(order) :
                    \A i \in DOMAIN groups[g].nodes :
                        LET gn == groups[g].nodes[i]
                        IN Elems(gn.deps \o gn.bodies) \ {Nil} \subseteq Elems(order)}
    IN IF next = {} THEN order ELSE BottomUp(groups, order \o SetToSeq(next))
DoExploration(memo, root, rules, tie) ==
    IF rules = <<>> \/ ~memo.ok THEN memo
    ELSE DoExploration(ExploreAll(memo, BottomUp(memo.groups, <<>>), Head(rules), tie),
                       root, Tail(rules), tie)

\* Every cost is zero: the first node of a group is the cheapest.
FindMinCostGroupNode(group) == group.nodes[1]
GetPlan(groups, root) ==
    LET best == [g \in DOMAIN groups |-> FindMinCostGroupNode(groups[g])]
        id(g) == best[g].node.id
        node(b) == LET n == [b.node EXCEPT !.dep = [i \in DOMAIN b.deps |-> id(b.deps[i])]]
                   IN IF n.kind = "Loop" THEN [n EXCEPT !.x.body = id(b.bodies[1])] ELSE n
    IN [nodes |-> NodeMap({node(best[g]) : g \in DOMAIN groups}), root |-> id(root),
        tail |-> id(root)]
FindBestPlan(plan, rules, tie) ==
    LET memo == DoExploration([ok |-> TRUE, spent |-> FALSE, groups |-> ConvertToGroup(plan)],
                              plan.root, rules, tie)
    IN [ok |-> memo.ok, spent |-> memo.spent,
        plan |-> IF memo.ok THEN GetPlan(memo.groups, plan.root) ELSE plan]
=============================================================================
