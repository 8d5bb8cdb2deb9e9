------------------------------ MODULE QueryRun ------------------------------
(***************************************************************************)
(* One query from the parser to the response (service/QueryInstance): it   *)
(* is validated and planned, the plan is optimized, and its nodes are      *)
(* executed, each when those it depends on are done, several at once where *)
(* the plan allows it.  A node that asks the storage takes two steps: the  *)
(* request and the answer, which may be partial or fail.                   *)
(*                                                                         *)
(*    query     the statements;                                            *)
(*    stage     parsed, planned, running, answered, failed or rejected;    *)
(*    plan      the plan; plan.area maps the nodes to be executed to the   *)
(*              loop whose body they are in;                               *)
(*    outs      the columns the last statement declares;                   *)
(*    spent     the optimizer ran out of rounds;                           *)
(*    vals      the history of every variable, oldest first;               *)
(*    done      the nodes executed, in this round of their loop;           *)
(*    sent      the nodes that wait for the storage;                       *)
(*    rounds    how often each loop has evaluated its condition;           *)
(*    active    the loops whose body is being executed;                    *)
(*    known     historyVids_ of each SubgraphExecutor;                     *)
(*    moved     the Values whose rows have been moved out of them;         *)
(*    faulty    an answer of the storage was not complete;                 *)
(*    response  the columns and rows sent to the client.                   *)
(***************************************************************************)
EXTENDS Meaning

CONSTANTS Queries,          \* the queries
          RuleOrders,       \* the orders in which the rules may be tried
          Ties,             \* how equal indexes may be sorted
          AcceptPartial     \* accept_partial_success

(***************************************************************************)
(* Validation, optimization and the meaning of a query are parameters,     *)
(* which a configuration gives as ValidateQuery of Statements,             *)
(* FindBestPlan of Optimizer and QueryMeaning of Meaning: the coverage     *)
(* statistics of TLC have an entry for every path of nested calls, and     *)
(* there are too many paths through these three.                           *)
(***************************************************************************)
CONSTANTS Validated(_), BestPlan(_, _, _), Means(_, _, _)

VARIABLES query, stage, plan, outs, spent, vals, done, sent, rounds, active, known, moved,
          faulty, response
context == <<vals, done, sent, rounds, active, known, moved, faulty, response>>
vars == <<query, stage, plan, outs, spent, context>>

NoPlan == [nodes |-> <<>>, root |-> Nil, tail |-> Nil, area |-> <<>>]
NoResponse == [cols |-> <<>>, rows |-> <<>>]
Init ==
    /\ query \in Queries
    /\ stage = "parsed"
    /\ plan = NoPlan /\ outs = <<>> /\ spent = FALSE
    /\ vals = <<>> /\ done = {} /\ sent = {} /\ rounds = <<>> /\ active = {}
    /\ known = {} /\ moved = {} /\ faulty = FALSE /\ response = NoResponse

(***************************************************************************)
(* validateAndOptimize.                                                    *)
(***************************************************************************)
\* The nodes below some nodes, they included.
RECURSIVE Below(_, _)
Below(nodes, ids) ==
    LET more == ids \cup UNION {Elems(nodes[id].dep) : id \in ids}
    IN IF more = ids THEN ids ELSE Below(nodes, more)
Area(nodes, root) ==
    LET main == Below(nodes, {root})
        loops == {id \in main : nodes[id].kind = "Loop"}
        body(l) == Below(nodes, {nodes[l].x.body})
    IN [id \in main \cup UNION {body(l) : l \in loops} |->
          IF id \in main THEN Nil ELSE CHOOSE l \in loops : id \in body(l)]

ValidateStage ==
    /\ stage = "parsed"
    /\ \E r \in {Validated(query)} :
          IF r.ok
          THEN /\ stage' = "planned"
               /\ plan' = [area |-> <<>>] @@ r.plan
               /\ outs' = r.outs
               /\ vals' = [v \in DOMAIN r.init |-> <<r.init[v]>>]
          ELSE stage' = "rejected" /\ UNCHANGED <<plan, outs, vals>>
    /\ UNCHANGED <<query, spent, done, sent, rounds, active, known, moved, faulty, response>>

Optimize ==
    /\ stage = "planned"
    /\ LET old == [nodes |-> plan.nodes, root |-> plan.root, tail |-> plan.tail]
       IN \E best \in {BestPlan(old, rules, tie) : rules \in RuleOrders, tie \in Ties} :
             /\ spent' = best.spent
             /\ IF best.ok
                THEN /\ plan' = [area |-> Area(best.plan.nodes, best.plan.root)] @@ best.plan
                     /\ stage' = "running"
                ELSE stage' = "rejected" /\ UNCHANGED plan
    /\ UNCHANGED <<query, outs, context>>

(***************************************************************************)
(* Execution.                                                              *)
(***************************************************************************)
Hist(var) == IF var \in DOMAIN vals THEN vals[var] ELSE <<>>
Latest(var) == IF Hist(var) = <<>> THEN EmptyResult ELSE Last(Hist(var))
GetVersioned(var, ver) ==
    LET i == Len(Hist(var)) + ver IN IF i \in DOMAIN Hist(var) THEN Hist(var)[i] ELSE EmptyResult
SetResult(var, res) == (var :> Append(Hist(var), res)) @@ vals

Runs(id) == stage = "running" /\ id \in DOMAIN plan.area
DepsDone(id) == Elems(plan.nodes[id].dep) \ {Nil} \subseteq done
Ready(id) ==
    /\ Runs(id) /\ id \notin done \cup sent /\ DepsDone(id)
    /\ plan.area[id] # Nil => plan.area[id] \in active
StorageKinds == {"GetNeighbors", "GetVertices", "GetEdges", "IndexScan"}
Node(id) == plan.nodes[id]
Own(n) == <<n.id, Len(Hist(n.out)) + 1>>
In(n, i) == Latest(n.in[i])
Round(id) == IF id \in DOMAIN rounds THEN rounds[id] ELSE 0

\* A PassThrough whose variable has rows already writes nothing.
PassesThrough(n) ==
    n.kind = "PassThrough" /\ Latest(n.out).it # "default" /\ Latest(n.out).rows # <<>>
PassThroughExec(n, own) == SeqRes({own}, n.cols, <<>>)
\* What an executor that needs no storage finishes with.
Execute(n, own) ==
    CASE n.kind = "Start" -> EmptyResult
      [] n.kind = "PassThrough" -> PassThroughExec(n, own)
      [] n.kind = "Project" -> ProjectExec(n, In(n, 1), own)
      [] n.kind = "Filter" -> FilterExec(n, In(n, 1))
      [] n.kind = "Dedup" -> DedupExec(In(n, 1))
      [] n.kind = "Limit" -> LimitExec(n, In(n, 1))
      [] n.kind = "Sort" -> SortExec(n, In(n, 1))
      [] n.kind = "TopN" -> TopNExec(n, In(n, 1))
      [] n.kind = "Aggregate" -> AggregateExec(n, In(n, 1), own)
      [] n.kind = "Union" -> UnionExec(In(n, 1), In(n, 2))
      [] n.kind = "Intersect" -> IntersectExec(n, In(n, 1), In(n, 2), own)
      [] n.kind = "Minus" -> MinusExec(In(n, 1), In(n, 2))
      [] n.kind = "DataJoin" -> DataJoinExec(n, GetVersioned(n.in[1], n.x.ver[1]),
                                             GetVersioned(n.in[2], n.x.ver[2]))
      [] n.kind = "UnionAllVersionVar" -> UnionAllVersionVarExec(Hist(n.in[1]))
      [] n.kind = "Unwind" -> UnwindExec(n, In(n, 1), own)
      [] n.kind = "Subgraph" -> SubgraphExec(n, In(n, 1), Round(plan.area[n.id]), known, own)
      [] n.kind = "DataCollect" /\ n.x.ckind = "RowBasedMove" -> RowBasedMove(n, In(n, 1), own)
      [] n.kind = "DataCollect" /\ n.x.ckind = "MToN" -> CollectMToN(n, Hist(n.in[1]), own)
      [] OTHER -> CollectSubgraph(n, Hist(n.in[1]), Hist(n.in[2]), own)

Fail == stage' = "failed" /\ UNCHANGED <<query, plan, outs, spent, vals, done, sent, rounds,
                                        active, known, moved, response>>
Finish(n, res) ==
    /\ done' = done \cup {n.id}
    /\ vals' = IF n.kind = "Start" \/ PassesThrough(n) THEN vals ELSE SetResult(n.out, res)
    /\ UNCHANGED <<query, stage, plan, outs, spent, rounds, active, response>>

\* The Values that a node reads: those of the latest version of its variables,
\* unless it asks for another version or for the history.
ValuesRead(n) ==
    UNION CASE n.kind = "DataJoin" -> {GetVersioned(n.in[i], n.x.ver[i]).own : i \in DOMAIN n.in}
            [] n.kind = "DataCollect" /\ n.x.ckind = "MToN" ->
                   {Hist(n.in[1])[k].own : k \in DOMAIN Hist(n.in[1]) \cap n.x.m..n.x.n}
            [] n.kind = "UnionAllVersionVar" \/ (n.kind = "DataCollect" /\ n.x.ckind = "Subgraph") ->
                   UNION {{Hist(v)[k].own : k \in DOMAIN Hist(v)} : v \in Elems(n.in)}
            [] OTHER -> {Latest(n.in[i]).own : i \in DOMAIN n.in}
\* It empties them: moveRow.
TakesRows(n) == n.kind = "DataCollect" /\ n.x.ckind \in {"RowBasedMove", "MToN"}

\* The last round of a subgraph also writes the variable of the rows inside.
LastRound(n) == Round(plan.area[n.id]) = n.x.steps
ExecuteNode(id) ==
    /\ Ready(id) /\ Node(id).kind \notin StorageKinds \cup {"Loop", "Subgraph"}
    /\ LET n == Node(id)
       IN \E res \in {Execute(n, Own(n))} :
             IF IsError(res) THEN Fail /\ UNCHANGED faulty
             ELSE /\ Finish(n, res)
                  /\ moved' = IF TakesRows(n) THEN moved \cup ValuesRead(n) ELSE moved
                  /\ UNCHANGED <<sent, known, faulty>>
ExecuteSubgraph(id) ==
    /\ Ready(id) /\ Node(id).kind = "Subgraph"
    /\ LET n == Node(id)
           in == In(n, 1)
           step == Round(plan.area[id])
           res == SubgraphExec(n, in, step, known, Own(n))
           with == SetResult(n.out, res)
       IN /\ done' = done \cup {id}
          /\ known' = KnownAfter(n, in, step, known)
          /\ vals' = IF LastRound(n) THEN (n.x.more :> <<OneMoreStep(in, known)>>) @@ with
                     ELSE with
    /\ UNCHANGED <<query, stage, plan, outs, spent, sent, rounds, active, moved, faulty, response>>

\* A loop evaluates its condition, ++loopSteps <= steps, when the node before
\* it or the body is done; the nodes of the body are then executed again.
ExecuteLoop(id) ==
    /\ Runs(id) /\ Node(id).kind = "Loop" /\ id \notin done /\ DepsDone(id)
    /\ id \in active => Node(id).x.body \in done
    /\ rounds' = (id :> Round(id) + 1) @@ rounds
    /\ IF Round(id) + 1 <= Node(id).x.steps
       THEN /\ active' = active \cup {id}
            /\ done' = done \ {b \in DOMAIN plan.area : plan.area[b] = id}
       ELSE active' = active \ {id} /\ done' = done \cup {id}
    /\ UNCHANGED <<query, stage, plan, outs, spent, vals, sent, known, moved, faulty, response>>

(***************************************************************************)
(* Requests.  A request that asks for nothing is not sent.                 *)
(***************************************************************************)
Request(n) ==
    CASE n.kind = "GetNeighbors" -> NeighborsRequest(n, In(n, 1))
      [] n.kind = "GetVertices" -> VerticesRequest(n, In(n, 1))
      [] n.kind = "GetEdges" -> EdgesRequest(n, In(n, 1))
      [] OTHER -> IF n.x.empty THEN <<>> ELSE <<1>>
\* What comes back when the things in req are answered.
Answered(n, req) ==
    LET real == SelectSeq(req, LAMBDA v : v.n \in DOMAIN Graph.verts)
        own == Own(n)
    IN CASE n.kind = "GetNeighbors" ->
                HandleNeighbors(n, [i \in DOMAIN req |->
                    StorageNeighbors(Graph, req[i], n.x, AllVertexProps)], own)
         [] n.kind = "GetVertices" ->
                HandleVertices(n, [i \in DOMAIN real |->
                    StorageVertex(Graph, real[i], n.x.props)], own)
         [] n.kind = "GetEdges" ->
                HandleEdges(n, [i \in DOMAIN req |-> StorageEdge(Graph, req[i], n.x.props)], own)
         [] n.x.empty -> EmptyLookup(own)
         [] OTHER -> HandleLookup(n, IF req = <<>> THEN <<>> ELSE StorageLookup(Graph, n.x), own)
Send(id) ==
    /\ Ready(id) /\ Node(id).kind \in StorageKinds
    /\ IF Request(Node(id)) = <<>>
       THEN Finish(Node(id), Answered(Node(id), <<>>)) /\ UNCHANGED sent
       ELSE /\ sent' = sent \cup {id}
            /\ UNCHANGED <<query, stage, plan, outs, spent, vals, done, rounds, active, response>>
    /\ UNCHANGED <<known, moved, faulty>>

\* handleCompleteness: an answer that is not complete is an error, unless
\* partial answers are accepted and it is not empty.
HandleCompleteness(answered, asked, accept) ==
    answered = asked \/ (answered # 0 /\ accept)
\* Mutant: a request that was not answered in full is sent again.
ReceiveRetry(id) ==
    /\ stage = "running" /\ id \in sent
    /\ sent' = sent \ {id}
    /\ \E req \in {Request(Node(id))} : \E k \in 0..Len(req) :
          /\ faulty' = (faulty \/ k < Len(req))
          /\ IF HandleCompleteness(k, Len(req), AcceptPartial)
             THEN Finish(Node(id), Answered(Node(id), SubSeq(req, 1, k))) /\ UNCHANGED <<known, moved>>
             ELSE UNCHANGED <<query, stage, plan, outs, spent, vals, done, rounds, active,
                              known, moved, response>>
Receive(id) ==
    /\ stage = "running" /\ id \in sent
    /\ \E req \in {Request(Node(id))} : \E k \in 0..Len(req) :
          /\ faulty' = (faulty \/ k < Len(req))
          /\ IF HandleCompleteness(k, Len(req), AcceptPartial)
             THEN /\ Finish(Node(id), Answered(Node(id), SubSeq(req, 1, k)))
                  /\ sent' = sent \ {id}
                  /\ UNCHANGED <<known, moved>>
             ELSE Fail

\* onFinish sends the Value of the variable of the root.
OnFinish ==
    /\ stage = "running" /\ plan.root \in done
    /\ stage' = "answered"
    /\ LET res == Latest(Node(plan.root).out)
       IN response' = [cols |-> res.cols, rows |-> res.val]
    /\ UNCHANGED <<query, plan, outs, spent, vals, done, sent, rounds, active, known, moved, faulty>>

Ended == stage \in {"answered", "failed", "rejected"} /\ UNCHANGED vars
Next ==
    \/ ValidateStage
    \/ Optimize
    \/ \E id \in DOMAIN plan.nodes : \/ ExecuteNode(id)
                                     \/ ExecuteSubgraph(id)
                                     \/ ExecuteLoop(id)
                                     \/ Send(id)
                                     \/ Receive(id)
    \/ OnFinish
    \/ Ended
\* Weak fairness of Next: a query that has not ended goes on.  In this form
\* it costs TLC no evaluation of Next; it is WF_vars(Next) because Next is
\* enabled in every state and stutters only when the query has ended.
Fairness == []<><<TRUE>>_vars \/ <>[](stage \in {"answered", "failed", "rejected"})
Spec == Init /\ [][Next]_vars /\ Fairness

(***************************************************************************)
(* Properties.                                                             *)
(***************************************************************************)
\* The rows sent to the client are those the query means on the graph, for
\* every plan the validators build, every rewriting of it the optimizer may
\* choose and every order in which the scheduler may run its nodes.
AnswerIsMeaning ==
    stage = "answered" =>
        LET s == Last(query)
        IN IF s.k = "Subgraph" THEN IsSubgraph(s, response.rows)
           ELSE Answers(response.cols, response.rows, Means(query, 1, <<>>))

\* A query that was accepted fails only if the storage did not answer in full:
\* no executor meets an iterator, a column or a value it cannot work with.
AcceptedRuns == stage = "failed" => faulty

\* A node that is about to run finds every variable it reads written, twice if
\* it reads the version before the latest, and n times if it collects the
\* versions up to n (collectMToN indexes the history without looking at its
\* size).
ReadsAreWritten ==
    \A id \in DOMAIN plan.nodes :
        Ready(id) /\ Node(id).kind \notin {"Start", "PassThrough", "Loop", "IndexScan"} =>
            LET n == Node(id)
                least(i) == CASE n.kind = "DataJoin" -> 1 - n.x.ver[i]
                              [] n.kind = "DataCollect" /\ n.x.ckind = "MToN" -> n.x.n
                              [] OTHER -> 1
            IN \A i \in DOMAIN n.in : n.in[i] # Nil => Len(Hist(n.in[i])) >= least(i)

\* Of two nodes that may run at the same time neither writes a variable the
\* other reads or writes.
Touched(n) == Elems(n.in) \cup {n.out}
NoConflicts ==
    \A i, j \in DOMAIN plan.nodes :
        i # j /\ (Ready(i) \/ i \in sent) /\ (Ready(j) \/ j \in sent)
              /\ {"Start", "Loop"} \cap {Node(i).kind, Node(j).kind} = {}
            => Node(i).out \notin Touched(Node(j))

\* rowBasedMove and collectMToN leave empty rows behind in the Values they take
\* them from: no node reads, in whatever version of its variables, and no
\* response sends, a Value that was emptied.
NothingMovedIsRead ==
    /\ \A id \in DOMAIN plan.nodes : Ready(id) => ValuesRead(Node(id)) \cap moved = {}
    /\ stage = "running" /\ plan.root \in done => Latest(Node(plan.root).out).own \cap moved = {}

\* The scheduler runs a node once for each node that depends on it, unless it
\* is a PassThrough: the plans it is given share nothing else, neither as a
\* dependency nor as the body of a loop.  A PassThrough is not a body, and it
\* and a loop have something to wait for (SharingAssumption of Scheduler).
OnlyPassThroughShared ==
    \A id \in DOMAIN plan.area :
        LET callers == {d \in DOMAIN plan.area : id \in Elems(Node(d).dep)}
            loops == {l \in DOMAIN plan.area : Node(l).kind = "Loop" /\ Node(l).x.body = id}
        IN  /\ Node(id).kind # "PassThrough" => Cardinality(callers \cup loops) <= 1
            /\ Node(id).kind = "PassThrough" => loops = {}
            /\ Node(id).kind \in {"PassThrough", "Loop"} => Elems(Node(id).dep) \ {Nil} # {}

\* The exploration of a plan reaches a fixed point before the bound on its
\* rounds does (exploreUntilMaxRound).
ExplorationEnds == ~spent

\* The columns a validator promises to the statement after it (outputs_) are
\* those of the rows that arrive.  GET SUBGRAPH promises none, and a column
\* with an aggregate inside an expression is promised under another name
\* (GroupByValidator).
RECURSIVE InnerAgg(_)
InnerAgg(s) == \/ s.k = "Pipe" /\ InnerAgg(s.r)
               \/ \E e \in ExprsIn(s) : e.k # "Aggregate" /\ HasAny(e, {"Aggregate"})
OutputsAreDeclared ==
    stage = "answered" /\ Last(query).k # "Subgraph" /\ ~InnerAgg(Last(query))
        => response.cols = Names(outs)

\* Every query is answered, refused or fails: under weak fairness, since the
\* executors run on a thread pool and every request of the storage client is
\* answered or times out.
QueryEnds == <>(stage \in {"answered", "failed", "rejected"})
=============================================================================
