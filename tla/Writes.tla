------------------------------- MODULE Writes -------------------------------
(***************************************************************************)
(* Statements that write data, executed at the same time against a storage *)
(* service whose parts answer one by one and may fail (src/src/executor:   *)
(* mutate, StorageAccessExecutor, query/GetNeighborsExecutor).             *)
(*                                                                         *)
(* A request is validated and planned when it arrives; its nodes then run  *)
(* one after the other.  A node makes one call, and its continuation runs  *)
(* when every part has answered or has been given up.  There is no         *)
(* transaction around a statement: what it wrote before it failed stays.   *)
(***************************************************************************)
EXTENDS GraphStore

CONSTANTS
    Requests,     \* requests that may be under way at the same time
    Sentences,    \* the statements that clients send
    Graphs,       \* the graphs that the data may start from, see Outbound
    MaxWrites     \* bound: how many statements are sent

ASSUME SentencesAssumption ==
    \A s \in Sentences :
       /\ s \in InsertVerticesSentence \cup InsertEdgesSentence \cup UpdateVertexSentence
                  \cup UpdateEdgeSentence \cup DeleteVerticesSentence \cup DeleteEdgesSentence
       \* a tag named twice leaves values without a place
       /\ s.op = "INSERT VERTEX" =>
             \A i, j \in DOMAIN s.tags : s.tags[i].tag = s.tags[j].tag => i = j

VARIABLES
    toss,      \* the isolation level of the space is TOSS
    accept,    \* FLAGS_accept_partial_success
    store,     \* the data of the storage service
    req,       \* the requests under way
    sent,      \* how many statements were sent
    spoiled    \* history: the edges whose copies may differ, see Spoils

vars == <<toss, accept, store, req, sent, spoiled>>

Idle == [phase |-> "idle"]
Active(r) == req[r].phase # "idle"

AllKeys == [src : Vids, type : Range(EdgeTypeOf), rank : Ranks, dst : Vids]

(***************************************************************************)
(* A request: the statement, its plan and the node that runs, the call of  *)
(* that node (the operations, the parts that have not answered, those that *)
(* have failed, the code of an update), the edges that were read, and the  *)
(* rows to return.  History: before is the data when the request came, as  *)
(* long as no other request was under way; faulty: some part has failed;   *)
(* disturbed: a request that may add an edge, or one that lost a part, was *)
(* under way at the same time; sound: no edge of it was spoiled before.    *)
(***************************************************************************)
New(s, plan, alone, disturbed) ==
    [phase |-> "execute", stmt |-> s, plan |-> plan, at |-> 1, ops |-> <<>>, open |-> {},
     failed |-> {}, code |-> "SUCCEEDED", read |-> {}, rows |-> <<>>, ok |-> TRUE,
     alone |-> alone, before |-> IF alone THEN store ELSE NoData, faulty |-> FALSE,
     disturbed |-> disturbed, sound |-> \A k \in AllKeys : Touches(s, k) => k \notin spoiled]

Init ==
    /\ toss \in BOOLEAN
    /\ accept \in BOOLEAN
    /\ store \in {Stored(g) : g \in Graphs}
    /\ req = [r \in Requests |-> Idle]
    /\ sent = 0
    /\ spoiled = {}

Parts(ops) == {PartOfOp(op) : op \in Range(ops)}
Node(q) == q.plan[q.at]

\* The edges that statements s and t may both write.
Common(s, t) == {k \in AllKeys : Touches(s, k) /\ Touches(t, k)}

\* A statement arrives; it is validated and planned.  A statement that is not
\* valid is answered at once and leaves nothing behind.
Submit(r, s) ==
    LET v == MutateValidator(s, toss)
        others == {x \in Requests : Active(x)}
    IN  /\ ~Active(r)
        /\ sent < MaxWrites
        /\ sent' = sent + 1
        /\ IF ~v.ok THEN UNCHANGED <<req, spoiled>>
           ELSE /\ req' = [x \in Requests |->
                             IF x = r
                             THEN New(s, v.plan, others = {},
                                      \E y \in others : Adds(req[y].stmt, toss) \/ req[y].faulty)
                             ELSE IF x \in others
                             THEN [req[x] EXCEPT !.alone = FALSE, !.before = NoData,
                                                 !.disturbed = @ \/ Adds(s, toss)]
                             ELSE Idle]
                /\ spoiled' = spoiled \cup UNION {Common(s, req[x].stmt) : x \in others}
        /\ UNCHANGED <<toss, accept, store>>

\* The request has its answer; the edges of a statement that failed may have
\* been written on one side only.
Answer(q, ok) == [q EXCEPT !.phase = "answer", !.ok = ok, !.ops = <<>>, !.open = {}, !.failed = {}]
Spoils(q, ok) == IF ok THEN {} ELSE {k \in AllKeys : Touches(q.stmt, k)}

\* The node is done, and the next one may run.
Proceed(q) ==
    IF q.at = Len(q.plan) THEN Answer(q, TRUE)
    ELSE [q EXCEPT !.phase = "execute", !.at = @ + 1, !.ops = <<>>, !.open = {}, !.failed = {},
                   !.code = "SUCCEEDED"]

Becomes(r, q) ==
    /\ req' = [req EXCEPT ![r] = q]
    /\ spoiled' = spoiled \cup (IF q.phase = "answer" THEN Spoils(q, q.ok) ELSE {})

\* execute() of the executor of the node: without anything to ask for, it is
\* done already.
ExecuteNode(r) ==
    LET q == req[r]
        call == Execute(Node(q), q.read)
    IN  /\ q.phase = "execute"
        /\ IF ~call.ok THEN Becomes(r, Answer(q, FALSE))
           ELSE IF call.ops = <<>> THEN Becomes(r, Proceed(q))
           ELSE Becomes(r, [q EXCEPT !.phase = "called", !.ops = call.ops, !.open = Parts(call.ops)])
        /\ UNCHANGED <<toss, accept, store, sent>>

OpsOf(q, part) == SelectSeq(q.ops, LAMBDA op : PartOfOp(op) = part)

\* A part serves its share of the call.
ServePart(r, part) ==
    LET q == req[r]
        ops == OpsOf(q, part)
        after == ApplyAll(store, ops, toss)
    IN  /\ part \in q.open
        /\ store' = after
        /\ req' = [req EXCEPT ![r].open = @ \ {part}, ![r].read = @ \cup ReadRows(store, ops),
                              ![r].code = AnswerCode(store, ops),
                              ![r].rows = AnswerValues(after, ops)]
        /\ UNCHANGED <<toss, accept, sent, spoiled>>

\* A part of request r does not answer.
GiveUp(r, part) ==
    [x \in Requests |->
        IF x = r THEN [req[r] EXCEPT !.open = @ \ {part}, !.failed = @ \cup {part}, !.faulty = TRUE]
        ELSE IF Active(x) THEN [req[x] EXCEPT !.disturbed = TRUE] ELSE Idle]

\* A part fails: it has not seen its share of the call.
FailPart(r, part) ==
    /\ part \in req[r].open
    /\ req' = GiveUp(r, part)
    /\ UNCHANGED <<toss, accept, store, sent, spoiled>>

\* A part has done its share, but its answer does not arrive.
LosePart(r, part) ==
    /\ part \in req[r].open
    /\ store' = ApplyAll(store, OpsOf(req[r], part), toss)
    /\ req' = GiveUp(r, part)
    /\ UNCHANGED <<toss, accept, sent, spoiled>>

\* The continuation of a call, when there is nothing left to wait for.
Respond(r) ==
    LET q == req[r]
        bad == \/ HandleCompleteness(Parts(q.ops), q.failed, PartialAccepted(Node(q), accept))
               \/ HandleErrorCode(q.code)
               \/ HandleResult(Node(q), q.rows)
    IN  /\ q.phase = "called"
        /\ q.open = {}
        /\ Becomes(r, IF bad THEN Answer(q, FALSE) ELSE Proceed(q))
        /\ UNCHANGED <<toss, accept, store, sent>>

\* The client gets its answer.
Return(r) ==
    /\ req[r].phase = "answer"
    /\ req' = [req EXCEPT ![r] = Idle]
    /\ UNCHANGED <<toss, accept, store, sent, spoiled>>

Finished ==
    /\ sent = MaxWrites
    /\ \A r \in Requests : ~Active(r)
    /\ UNCHANGED vars

Next ==
    \/ \E r \in Requests :
          \/ \E s \in Sentences : Submit(r, s)
          \/ ExecuteNode(r)
          \/ \E part \in Range(PartOf) :
                Active(r) /\ (ServePart(r, part) \/ FailPart(r, part) \/ LosePart(r, part))
          \/ Respond(r)
          \/ Return(r)
    \/ Finished

Spec == Init /\ [][Next]_vars

-----------------------------------------------------------------------------
(***************************************************************************)
(* The two copies of an edge are the same whenever no statement that may   *)
(* write the edge is under way, unless a statement on it has failed, and   *)
(* its client was told so, or two statements on it overlapped              *)
(* (InsertEdgesValidator, UpdateEdgeValidator::toPlan, DeleteEdgesExecutor *)
(* and handleCompleteness).                                                *)
(***************************************************************************)
CopiesAgree ==
    \A k \in AllKeys \ spoiled :
       (\A r \in Requests : req[r].phase \in {"execute", "called"} => ~Touches(req[r].stmt, k))
         => Agree(store.edges, k)

\* The statement, without what is not looked at.
Heeded(s) == IF toss /\ s.op = "UPDATE EDGE" THEN [s EXCEPT !.yield = <<>>] ELSE s

(***************************************************************************)
(* A statement that nothing interferes with does what it says: if it       *)
(* starts from data whose copies agree and succeeds, the data is what the  *)
(* statement makes of the graph, and what it returns is what the graph     *)
(* then holds.  If no part has failed, it is an error only if it should    *)
(* be.  A read that lost a part it may lose is the exception (DELETE       *)
(* VERTEX with FLAGS_accept_partial_success).  The YIELD of an UPDATE EDGE *)
(* counts for nothing with TOSS (UpdateEdgeValidator::toPlan).             *)
(***************************************************************************)
AloneIsAtomic ==
    \A r \in Requests :
       LET q == req[r]
           m == Meaning(Heeded(q.stmt), Outbound(q.before))
       IN  (q.phase = "answer" /\ q.alone /\ Symmetric(q.before)) =>
              /\ (q.ok /\ ~(q.faulty /\ accept)) =>
                    /\ Outbound(store) = m.graph /\ Symmetric(store)
                    /\ q.rows = m.yield
              /\ ~q.faulty => q.ok = m.ok

(***************************************************************************)
(* When a DELETE VERTEX has succeeded no edge is left at the vertex, in    *)
(* either copy, except one that another statement is still writing to.      *)
(* Updates and deletions may have run at the same time, but nothing that   *)
(* adds an edge, or a copy of one (an UPDATE EDGE with TOSS), and nothing  *)
(* that lost a part                                                        *)
(* (DeleteVerticesValidator::toPlan: the edges are read, deleted, and only *)
(* then the vertex).                                                       *)
(***************************************************************************)
DeletedIsGone ==
    \A r \in Requests :
       LET q == req[r]
       IN  /\ q.phase = "answer" /\ q.ok /\ q.stmt.op = "DELETE VERTEX"
           /\ q.sound /\ ~q.disturbed /\ ~(q.faulty /\ accept)
           => \A k \in DOMAIN store.edges :
                 Incident(k, Range(q.stmt.vids)) =>
                    \E x \in Requests \ {r} : Active(x) /\ (Touches(req[x].stmt, k) \/ Touches(req[x].stmt, Twin(k)))
=============================================================================
