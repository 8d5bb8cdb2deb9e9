----------------------------- MODULE Scheduler -----------------------------
(***************************************************************************)
(* The scheduler of the query engine (src/src/scheduler/Scheduler.cpp) and *)
(* the end of a query's life (src/src/service/QueryInstance.cpp).          *)
(*                                                                         *)
(* A plan is a graph of executors.  Scheduler::doSchedule walks it from    *)
(* the root: every executor schedules the ones it depends on, waits for    *)
(* all of their futures (folly::collect) and then executes itself.  A Loop *)
(* schedules its body again while its condition holds, a Select schedules  *)
(* one of its two branches, and a PassThrough, the only executor that      *)
(* several others may depend on, is run by the last of its successors to   *)
(* arrive while the others wait on a shared promise.                       *)
(*                                                                         *)
(* A call of doSchedule is an edge <<caller, callee>> of the plan, and     *)
(* fut[edge] is the future it returns.  Executors run on a thread pool:    *)
(* every step below may interleave with every other one.                   *)
(***************************************************************************)
EXTENDS Integers, FiniteSets

CONSTANTS
    Executors,   \* the executors of one plan
    Kind,        \* what each one is: "plain", "passthrough", "loop", "select"
    Deps,        \* Executor::depends(), a set for each executor
    Bodies,      \* the body of a loop, the two branches of a select
    Root,        \* the executor of the root of the plan
    QueryInst,   \* the caller of doSchedule(root)
    Depth,       \* a numbering of the plan that shows it to be acyclic
    Block,       \* the root or the body in which an executor is scheduled
    Faulty,      \* the executors whose execute() may fail
    MaxRounds    \* bound: how often a loop evaluates its condition to true

Callers == Executors \cup {QueryInst}

\* Executor::successors(): what dependsOn() recorded, bodies not included.
Successors(e) == {c \in Executors : e \in Deps[c]}

\* Everyone who may call doSchedule(e).
CallersOf(e) == Successors(e) \cup {c \in Executors : e \in Bodies[c]}
                \cup (IF e = Root THEN {QueryInst} ELSE {})

Edges == {ce \in Callers \X Executors : ce[1] \in CallersOf(ce[2])}

Kinds == {"plain", "passthrough", "loop", "select"}

ASSUME PlanAssumption ==
    /\ QueryInst \notin Executors
    /\ Root \in Executors
    /\ IsFiniteSet(Executors)
    /\ Kind \in [Executors -> Kinds]
    /\ Deps \in [Executors -> SUBSET Executors]
    /\ Bodies \in [Executors -> SUBSET Executors]
    /\ Faulty \subseteq Executors
    /\ MaxRounds \in Nat

(***************************************************************************)
(* A plan is acyclic, and it falls into blocks: the part below the root    *)
(* and the part below each body.  Dependencies stay inside a block.        *)
(***************************************************************************)
ASSUME AcyclicAssumption ==
    /\ Depth \in [Executors -> Nat]
    /\ \A c \in Executors : \A e \in Deps[c] \cup Bodies[c] : Depth[c] < Depth[e]

ASSUME BlockAssumption ==
    /\ Block \in [Executors -> Executors]
    /\ Block[Root] = Root
    /\ \A c \in Executors : /\ \A e \in Deps[c] : Block[e] = Block[c]
                            /\ \A e \in Bodies[c] : Block[e] = e
    /\ \A e \in Executors : Block[e] = e <=> Successors(e) = {}

(***************************************************************************)
(* Only a PassThrough is scheduled by more than one executor.  An executor *)
(* that waits has something to wait for, as doScheduleParallel checks.     *)
(* QueryRun checks that the plans of the validators and the optimizer are  *)
(* of this kind (OnlyPassThroughShared).                                   *)
(***************************************************************************)
ASSUME SharingAssumption ==
    /\ \A e \in Executors :
          Kind[e] # "passthrough" => \A c1, c2 \in CallersOf(e) : c1 = c2
    /\ \A c, e \in Executors : e \in Bodies[c] => Kind[e] # "passthrough"
    /\ \A e \in Executors : Kind[e] # "plain" => Deps[e] # {}
    /\ \A e \in Executors : Bodies[e] # {} <=> Kind[e] \in {"loop", "select"}

VARIABLES
    pc,          \* where the current run of each executor is
    fut,         \* the futures returned by the calls of doSchedule
    owner,       \* whose future the current run of an executor fulfils
    numOutputs,  \* PassThroughData::numOutputs
    promise,     \* PassThroughData::promise
    round,       \* history: how many runs of each executor were started
    ver,         \* how many times each executor has executed successfully
    failed,      \* the executors whose execute() failed
    query        \* the QueryInstance: running, or released after its answer

vars == <<pc, fut, owner, numOutputs, promise, round, ver, failed, query>>

Bad == {"err", "exc"}
Resolved == {"ok"} \cup Bad
FutureStates == {"none", "called", "entered", "pending"} \cup Resolved
RunStates == {"idle", "calling", "deps", "exec", "body"}

\* Every variable has its type.
TypeOK ==
    /\ pc \in [Executors -> RunStates]
    /\ fut \in [Edges -> FutureStates]
    /\ owner \in [Executors -> Callers]
    /\ numOutputs \in [Executors -> Int]
    /\ promise \in [Executors -> {"unset", "ok", "err"}]
    /\ round \in [Executors -> Nat]
    /\ ver \in [Executors -> Nat]
    /\ failed \subseteq Executors
    /\ query \in {"running", "finished", "failed"}

-----------------------------------------------------------------------------
(***************************************************************************)
(* Scheduler::schedule: analyze() prepares one PassThroughData for every   *)
(* PassThrough, with the number of its successors, and the root is called. *)
(***************************************************************************)
Init ==
    /\ pc = [e \in Executors |-> "idle"]
    /\ fut = [ce \in Edges |-> IF ce = <<QueryInst, Root>> THEN "called" ELSE "none"]
    /\ owner = [e \in Executors |-> QueryInst]
    /\ numOutputs = [e \in Executors |-> Cardinality(Successors(e))]
    /\ promise = [e \in Executors |-> "unset"]
    /\ round = [e \in Executors |-> 0]
    /\ ver = [e \in Executors |-> 0]
    /\ failed = {}
    /\ query = "running"

\* The edge by which e waits for one of its dependencies.
IsDep(ce, e) == ce[1] = e /\ ce[2] \in Deps[e]

\* doScheduleParallel calls doSchedule for every dependency of e.
CallDeps(c, e) ==
    /\ pc' = [pc EXCEPT ![e] = "calling"]
    /\ fut' = [ce \in Edges |-> IF ce = <<c, e>> THEN "entered"
                                ELSE IF IsDep(ce, e) THEN "called" ELSE fut[ce]]

\* A run of e starts, on behalf of c.
Begin(c, e) ==
    /\ owner' = [owner EXCEPT ![e] = c]
    /\ round' = [round EXCEPT ![e] = @ + 1]

\* doSchedule of an executor that is not a PassThrough.
DoSchedule(c, e) ==
    /\ query = "running"
    /\ Kind[e] # "passthrough"
    /\ fut[<<c, e>>] = "called"
    /\ Begin(c, e)
    /\ \/ /\ Deps[e] # {}
          /\ CallDeps(c, e)
       \/ /\ Deps[e] = {}
          /\ pc' = [pc EXCEPT ![e] = "exec"]
          /\ fut' = [fut EXCEPT ![<<c, e>>] = "pending"]
    /\ UNCHANGED <<numOutputs, promise, ver, failed, query>>

\* What doSchedule finds in PassThroughData once the lock is held: a new round
\* of a loop starts with a fresh count and a fresh promise.
Remaining(p) == (IF numOutputs[p] = 0 THEN Cardinality(Successors(p)) ELSE numOutputs[p]) - 1

\* Mutant: the promise is set as soon as the last successor has arrived.
PromiseEarly(p) == IF Remaining(p) <= 0 THEN "ok" ELSE "unset"

Promise(p) == IF numOutputs[p] = 0 THEN "unset" ELSE promise[p]

\* doSchedule of a PassThrough: the last successor to arrive runs it, the
\* others are given a future of the shared promise.
DoSchedulePassThrough(c, p) ==
    /\ query = "running"
    /\ Kind[p] = "passthrough"
    /\ fut[<<c, p>>] = "called"
    /\ numOutputs' = [numOutputs EXCEPT ![p] = Remaining(p)]
    /\ promise' = [promise EXCEPT ![p] = Promise(p)]
    /\ \/ /\ Remaining(p) > 0
          /\ fut' = [fut EXCEPT ![<<c, p>>] =
                        IF Promise(p) = "unset" THEN "pending" ELSE Promise(p)]
          /\ UNCHANGED <<pc, owner, round>>
       \/ /\ Remaining(p) <= 0
          /\ Begin(c, p)
          /\ CallDeps(c, p)
    /\ UNCHANGED <<ver, failed, query>>

\* doSchedule(e) returns once every doSchedule it called has returned.
Returned(e) ==
    /\ query = "running"
    /\ pc[e] = "calling"
    /\ \A d \in Deps[e] : fut[<<e, d>>] \notin {"called", "entered"}
    /\ pc' = [pc EXCEPT ![e] = "deps"]
    /\ fut' = [fut EXCEPT ![<<owner[e], e>>] = "pending"]
    /\ UNCHANGED <<owner, numOutputs, promise, round, ver, failed, query>>

\* The run of e ends with result r.
Finish(e, r) ==
    /\ pc' = [pc EXCEPT ![e] = "idle"]
    /\ fut' = [fut EXCEPT ![<<owner[e], e>>] = r]

\* folly::collect fails as soon as one of its futures holds an exception, and
\* the continuation of e is skipped.
DependencyThrows(e) ==
    /\ query = "running"
    /\ pc[e] = "deps"
    /\ \E d \in Deps[e] : fut[<<e, d>>] = "exc"
    /\ Finish(e, "exc")
    /\ UNCHANGED <<owner, numOutputs, promise, round, ver, failed, query>>

\* Mutant: the run itself is treated as one of the waiters.
IsWaitingOrRunning(ce, e) == Kind[e] = "passthrough" /\ ce[2] = e /\ fut[ce] = "pending"

\* promise->setValue(status): the waiters of a PassThrough get the status of
\* its dependencies.
IsWaiting(ce, e) == /\ Kind[e] = "passthrough"
                    /\ ce[2] = e
                    /\ ce[1] # owner[e]
                    /\ fut[ce] = "pending"

Notify(e, s) ==
    promise' = IF Kind[e] = "passthrough" THEN [promise EXCEPT ![e] = s] ELSE promise

\* Every dependency has answered and one with a bad Status: Executor::error
\* turns it into an exception.
DependencyFails(e) ==
    /\ query = "running"
    /\ pc[e] = "deps"
    /\ \A d \in Deps[e] : fut[<<e, d>>] \in {"ok", "err"}
    /\ \E d \in Deps[e] : fut[<<e, d>>] = "err"
    /\ Notify(e, "err")
    /\ pc' = [pc EXCEPT ![e] = "idle"]
    /\ fut' = [ce \in Edges |-> IF ce = <<owner[e], e>> THEN "exc"
                                ELSE IF IsWaiting(ce, e) THEN "err" ELSE fut[ce]]
    /\ UNCHANGED <<owner, numOutputs, round, ver, failed, query>>

\* Mutants: the first dependency that answers is enough; the Status of the
\* dependencies is not looked at.
ExecuteFirst(e) ==
    /\ query = "running"
    /\ pc[e] = "deps"
    /\ \E d \in Deps[e] : fut[<<e, d>>] = "ok"
    /\ Notify(e, "ok")
    /\ pc' = [pc EXCEPT ![e] = "exec"]
    /\ fut' = [ce \in Edges |-> IF IsDep(ce, e) THEN "none"
                                ELSE IF IsWaiting(ce, e) THEN "ok" ELSE fut[ce]]
    /\ UNCHANGED <<owner, numOutputs, round, ver, failed, query>>
ExecuteAnyStatus(e) ==
    /\ query = "running"
    /\ pc[e] = "deps"
    /\ \A d \in Deps[e] : fut[<<e, d>>] \in {"ok", "err"}
    /\ Notify(e, "ok")
    /\ pc' = [pc EXCEPT ![e] = "exec"]
    /\ fut' = [ce \in Edges |-> IF IsDep(ce, e) THEN "none"
                                ELSE IF IsWaiting(ce, e) THEN "ok" ELSE fut[ce]]
    /\ UNCHANGED <<owner, numOutputs, round, ver, failed, query>>
\* All dependencies are fine: a PassThrough wakes its waiters, then execute(e).
Execute(e) ==
    /\ query = "running"
    /\ pc[e] = "deps"
    /\ \A d \in Deps[e] : fut[<<e, d>>] = "ok"
    /\ Notify(e, "ok")
    /\ pc' = [pc EXCEPT ![e] = "exec"]
    /\ fut' = [ce \in Edges |-> IF IsDep(ce, e) THEN "none"
                                ELSE IF IsWaiting(ce, e) THEN "ok" ELSE fut[ce]]
    /\ UNCHANGED <<owner, numOutputs, round, ver, failed, query>>

\* execute() of e has stored its result in the ExecutionContext.
Executed(e) ==
    /\ query = "running"
    /\ pc[e] = "exec"
    /\ ver' = [ver EXCEPT ![e] = @ + 1]
    /\ UNCHANGED <<owner, numOutputs, promise, round, failed, query>>

ExecuteOK(e) ==
    /\ Kind[e] \in {"plain", "passthrough"}
    /\ Executed(e)
    /\ Finish(e, "ok")

\* execute() of e returns a bad Status or throws.  For a Loop or a Select both
\* become an exception: the next continuation calls error().
ExecuteFails(e) ==
    /\ query = "running"
    /\ pc[e] = "exec"
    /\ e \in Faulty
    /\ \E r \in Bad :
          /\ Kind[e] \in {"loop", "select"} => r = "exc"
          /\ Finish(e, r)
    /\ failed' = failed \cup {e}
    /\ UNCHANGED <<owner, numOutputs, promise, round, ver, query>>

\* iterate(): the condition is false and the loop is done.
LoopExit(e) ==
    /\ Kind[e] = "loop"
    /\ Executed(e)
    /\ Finish(e, "ok")

\* The condition of a loop is true, or a select has chosen its branch b.
ScheduleBody(e, b) ==
    /\ b \in Bodies[e]
    /\ Kind[e] = "loop" => ver[e] < MaxRounds
    /\ Executed(e)
    /\ pc' = [pc EXCEPT ![e] = "body"]
    /\ fut' = [fut EXCEPT ![<<e, b>>] = "called"]

\* Mutants: the loop does not wait for its body; it does not give up when the
\* body failed.
LoopBodyStarted(e, b) ==
    /\ query = "running"
    /\ Kind[e] = "loop"
    /\ pc[e] = "body"
    /\ fut[<<e, b>>] = "pending"
    /\ pc' = [pc EXCEPT ![e] = "exec"]
    /\ fut' = [fut EXCEPT ![<<e, b>>] = "none"]
    /\ UNCHANGED <<owner, numOutputs, promise, round, ver, failed, query>>
LoopBodyOK(e, b) ==
    /\ query = "running"
    /\ Kind[e] = "loop"
    /\ pc[e] = "body"
    /\ fut[<<e, b>>] = "ok"
    /\ pc' = [pc EXCEPT ![e] = "exec"]
    /\ fut' = [fut EXCEPT ![<<e, b>>] = "none"]
    /\ UNCHANGED <<owner, numOutputs, promise, round, ver, failed, query>>

\* The body of a loop is done: iterate again, or give up.
LoopBodyDone(e, b) ==
    /\ query = "running"
    /\ Kind[e] = "loop"
    /\ pc[e] = "body"
    /\ b \in Bodies[e]
    /\ \/ /\ fut[<<e, b>>] = "ok"
          /\ pc' = [pc EXCEPT ![e] = "exec"]
          /\ fut' = [fut EXCEPT ![<<e, b>>] = "none"]
       \/ /\ fut[<<e, b>>] \in Bad
          /\ Finish(e, "exc")
    /\ UNCHANGED <<owner, numOutputs, promise, round, ver, failed, query>>

\* The future of the chosen branch is the future of the select.
SelectBodyDone(e, b) ==
    /\ query = "running"
    /\ Kind[e] = "select"
    /\ pc[e] = "body"
    /\ b \in Bodies[e]
    /\ fut[<<e, b>>] \in Resolved
    /\ pc' = [pc EXCEPT ![e] = "idle"]
    /\ fut' = [ce \in Edges |-> IF ce = <<owner[e], e>> THEN fut[<<e, b>>]
                                ELSE IF ce = <<e, b>> /\ fut[ce] = "ok" THEN "none"
                                ELSE fut[ce]]
    /\ UNCHANGED <<owner, numOutputs, promise, round, ver, failed, query>>

(***************************************************************************)
(* QueryInstance::onFinish and onError: the answer is sent and the object  *)
(* that owns the plan, the executors and the ExecutionContext is deleted.  *)
(* What a task that is still under way does after that is undefined, so    *)
(* every step above needs a running query.                                 *)
(***************************************************************************)
OnFinish ==
    /\ query = "running"
    /\ fut[<<QueryInst, Root>>] = "ok"
    /\ query' = "finished"
    /\ UNCHANGED <<pc, fut, owner, numOutputs, promise, round, ver, failed>>

OnError ==
    /\ query = "running"
    /\ fut[<<QueryInst, Root>>] \in Bad
    /\ query' = "failed"
    /\ UNCHANGED <<pc, fut, owner, numOutputs, promise, round, ver, failed>>

Step ==
    \/ \E e \in Executors :
          \/ \E c \in CallersOf(e) : \/ DoSchedule(c, e)
                                     \/ DoSchedulePassThrough(c, e)
          \/ Returned(e)
          \/ DependencyThrows(e)
          \/ DependencyFails(e)
          \/ Execute(e)
          \/ ExecuteOK(e)
          \/ ExecuteFails(e)
          \/ LoopExit(e)
          \/ \E b \in Bodies[e] : \/ ScheduleBody(e, b)
                                  \/ LoopBodyDone(e, b)
                                  \/ SelectBodyDone(e, b)
    \/ OnFinish
    \/ OnError

Next == Step

Spec == Init /\ [][Next]_vars

(***************************************************************************)
(* The thread pool runs every continuation that is ready and a storage or  *)
(* meta call is always answered, if only by its timeout.                   *)
(***************************************************************************)
FairSpec == Spec /\ WF_vars(Step)

-----------------------------------------------------------------------------
(***************************************************************************)
(* When onFinish releases the QueryInstance after a success, no executor   *)
(* of the plan is scheduled, waiting or executing any more: in particular  *)
(* a PassThrough, whose waiters are woken before it executes, is done too. *)
(***************************************************************************)
SuccessIsQuiescent ==
    query = "finished" => \A e \in Executors : pc[e] = "idle"

(***************************************************************************)
(* onFinish answers only a query none of whose executors failed, and       *)
(* onError only one of which some executor did: no error is lost on its    *)
(* way through collect(), error(), shared promises, loops and selects.     *)
(***************************************************************************)
ErrorsReported ==
    /\ query = "finished" => failed = {}
    /\ query = "failed" => failed # {}

\* The number of executions of d that its successors may rely on: the waiters
\* of a PassThrough are released just before it executes.
Begun(d) == IF Kind[d] = "passthrough" /\ pc[d] = "exec" THEN ver[d] + 1 ELSE ver[d]

Repeated == {e \in Executors : Kind[e] \in {"plain", "passthrough"}}

(***************************************************************************)
(* Whenever an executor executes, in any round of a loop, each of its      *)
(* dependencies has executed exactly once since its own last execution: it *)
(* reads the version of this round, never a stale or a skipped one.  Of a  *)
(* PassThrough it is enough that it is executing: its promise is set       *)
(* before, so its successors do not wait for what it writes.               *)
(***************************************************************************)
FreshInputs ==
    \A e \in Repeated : pc[e] = "exec" =>
        \A d \in Deps[e] \cap Repeated : d \notin failed => Begun(d) = ver[e] + 1

(***************************************************************************)
(* The promise of a PassThrough that waits for its dependencies has not    *)
(* been set yet: setValue, which throws the second time, is called once    *)
(* for every promise, in every round of a loop.                            *)
(***************************************************************************)
PromiseSetOnce ==
    \A e \in Executors :
        Kind[e] = "passthrough" /\ pc[e] = "deps" => promise[e] = "unset"

(***************************************************************************)
(* When a loop evaluates its condition, nothing of the round before is     *)
(* under way: the executors of the body, and the data they share, are      *)
(* never used by two rounds at a time.                                     *)
(***************************************************************************)
RoundsDoNotOverlap ==
    \A e, x \in Executors :
        Kind[e] = "loop" /\ pc[e] = "exec" /\ Block[x] \in Bodies[e] => pc[x] = "idle"

(***************************************************************************)
(* Every query is answered, whatever fails: no continuation waits for a    *)
(* future that nobody will fulfil.                                         *)
(***************************************************************************)
QueryAnswered == <>(query # "running")

(***************************************************************************)
(* QueryInstance.cpp:123-126: the QueryInstance is released only when no   *)
(* sub-task can use it any more, "EVEN on failures".                       *)
(***************************************************************************)
ReleaseIsSafe ==
    query # "running" => \A e \in Executors : pc[e] = "idle"

-----------------------------------------------------------------------------
(***************************************************************************)
(* The inductive invariant behind these properties.                        *)
(***************************************************************************)
\* The run of e has ended badly and its caller has been told so.
Broken(e) == pc[e] = "idle" /\ owner[e] \in CallersOf(e) /\ fut[<<owner[e], e>>] \in Bad

\* A run that is under way has a caller who waits for it.
OwnerWaits ==
    \A e \in Executors : pc[e] # "idle" =>
        /\ owner[e] \in CallersOf(e)
        /\ fut[<<owner[e], e>>] = IF pc[e] = "calling" THEN "entered" ELSE "pending"

\* A future is held by a caller that is waiting for it or that gave up.
FuturesHeld ==
    \A c \in Executors :
        /\ \A d \in Deps[c] :
              /\ fut[<<c, d>>] # "none" => pc[c] \in {"calling", "deps"} \/ Broken(c)
              /\ fut[<<c, d>>] \in {"called", "entered"} => pc[c] = "calling"
              /\ pc[c] \in {"calling", "deps"} => fut[<<c, d>>] # "none"
        /\ \A b \in Bodies[c] :
              /\ fut[<<c, b>>] # "none" => pc[c] = "body" \/ Broken(c)
              /\ fut[<<c, b>>] \in {"called", "entered"} => pc[c] = "body"
              /\ \A other \in Bodies[c] :
                    fut[<<c, b>>] # "none" /\ fut[<<c, other>>] # "none" => other = b

\* The last round in which c has asked for d.
Asked(c, d) == IF fut[<<c, d>>] = "called" THEN round[c] - 1 ELSE round[c]

\* The successors that the PassThrough p still waits for.
Late(p) == {c \in Successors(p) : Asked(c, p) = round[p]}

\* An executor is run once for every time it is asked for; a PassThrough is
\* run once everybody has asked.
RoundsMatch ==
    /\ \A c \in Executors : \A d \in Deps[c] :
          Kind[d] # "passthrough" => round[d] = Asked(c, d)
    /\ \A p \in Executors : Kind[p] = "passthrough" =>
          \A c \in Successors(p) :
             \/ Asked(c, p) = round[p]
             \/ Asked(c, p) = round[p] + 1 /\ fut[<<c, p>>] = "pending" /\ pc[p] = "idle"

\* What PassThroughData holds.
PassThroughOK ==
    \A p \in Executors : Kind[p] = "passthrough" =>
        /\ Successors(p) = {} =>
             /\ numOutputs[p] <= 0
             /\ fut[<<QueryInst, Root>>] = "called" => promise[p] = "unset"
        /\ Successors(p) # {} =>
             /\ Late(p) # {}
             /\ \/ numOutputs[p] = Cardinality(Late(p)) /\ promise[p] = "unset" /\ pc[p] = "idle"
                \/ numOutputs[p] = 0 /\ Late(p) = Successors(p)
        /\ pc[p] \in {"calling", "deps"} =>
             /\ promise[p] = "unset"
             /\ \A c \in Successors(p) : fut[<<c, p>>] \in {"entered", "pending"}

\* All executors of a block are in the round of the block or one behind it.
BlocksOK ==
    \A e \in Executors :
        /\ round[e] \in {round[Block[e]], round[Block[e]] - 1}
        /\ pc[e] # "idle" \/ Broken(e) => round[e] = round[Block[e]]

\* A block that is not being run is quiet, and has completed its rounds.
QuietBlocks ==
    \A b \in Executors : \A c \in CallersOf(b) :
        Block[b] = b /\ fut[<<c, b>>] \in {"none", "called", "ok"} =>
            \A e \in Executors : Block[e] = b =>
                pc[e] = "idle" /\ ~Broken(e) /\ round[e] = round[b]

FlowInv == TypeOK /\ OwnerWaits /\ FuturesHeld /\ RoundsMatch /\ PassThroughOK
           /\ BlocksOK /\ QuietBlocks

\* The query is answered with the result of the root.
AnswerOK ==
    /\ query = "finished" => fut[<<QueryInst, Root>>] = "ok"
    /\ query = "failed" => fut[<<QueryInst, Root>>] \in Bad

\* An executor executes once in every run, unless that run is not over or ended
\* badly.
Executions ==
    \A e \in Repeated :
        ver[e] = IF pc[e] # "idle" \/ Broken(e) THEN round[e] - 1 ELSE round[e]

\* A failed execute() is remembered, and nothing else makes a future bad.
Failures ==
    /\ \A e \in failed : Broken(e)
    /\ failed = {} => \A ce \in Edges : fut[ce] \notin Bad

\* A PassThrough whose dependencies failed has let none of its successors go on.
SharedFailures ==
    \A p \in Executors : Kind[p] = "passthrough" =>
        /\ pc[p] # "body"
        /\ Broken(p) /\ p \notin failed =>
             \A c \in Successors(p) : fut[<<c, p>>] \notin {"none", "ok"}

IInv == FlowInv /\ AnswerOK /\ Executions /\ Failures /\ SharedFailures

=============================================================================
