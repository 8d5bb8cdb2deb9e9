# A TLA+ model of the Nebula Graph query engine

This directory specifies, model-checks and proves properties of the query engine
(`graphd`) of Nebula Graph 2.0 whose sources are in `src/src`. TLC checks the
specifications on small instances; TLAPS proves the theorems of the `*Proofs`
modules for every value of the constants. `PROJECT.json` lists the components, the
runs, the source lines behind each definition, the hazards and the theorems.

- [The system](#the-system)
- [Modules](#modules)
- [Runs](#runs)
- [Proofs](#proofs)
- [Where code and documentation disagree](#where-code-and-documentation-disagree)
- [What the code does beside the properties](#what-the-code-does-beside-the-properties)
- [What is not modelled](#what-is-not-modelled)
- [Plan](#plan)

## The system

A client authenticates, gets a session and sends text. A request becomes a
`QueryInstance`, which parses the text, validates every statement (and so builds a
plan), optimizes the plan and hands it to the scheduler. The scheduler runs the
executors of the plan as continuations of futures on a thread pool; executors read
and write variables in an `ExecutionContext` and call the storage and the meta
service, which are other processes.

    client --> GraphService/SessionManager --> QueryInstance
                                                  |  parse, validate, optimize
                                                  v
               ExecutionContext <-- executors <-- Scheduler
                                        |
                            storage service, meta service

| Component | State | Operations | Why it is hard |
|---|---|---|---|
| Sessions (`service/`) | map from id to session, id counter, idle times | authenticate, execute, signout, scavenger | threads; shared ownership; the counter wraps; a failed authentication must be undone; the scavenger runs beside queries |
| Scheduler (`scheduler/`, `executor/logic/`, `QueryInstance`) | futures, promises and counters of shared nodes, position of loops | schedule, execute, iterate, branch, finish, fail | any interleaving of continuations; a shared node runs once for all who wait; everything is reused in each round of a loop; an error overtakes work that is still going on |
| ExecutionContext (`context/`) | a history of results per variable | init, set, truncate, delete, move, read by version | signed version numbers turned into unsigned indices |
| Results and iterators (`context/Iterator`, `Result`) | rows, and the Value they point into | walk, erase, copy, read a property | rows are shared between results and moved out of them |
| FIND PATH (`FindPathValidator`, `executor/algo/`) | frontiers, visited vertices, levels, cost tables of two searches | expand, produce, conjunct, collect | odd and even distances; which version of the other side to join; order of the storage's answer; the loop's end |
| Validation (`validator/`, `ValidateContext`, `planner/`) | columns, variables, spaces and schemas seen so far in a request | validate, build plan, connect plans | the columns promised to the next statement are fixed before the plan is built; subplans of different statements meet on shared variables |
| GO, GET SUBGRAPH, FETCH, LOOKUP, MATCH | plans of up to some twenty nodes with a loop | build, execute | which version belongs to which step; a frontier that runs dry; joins by names of columns; the start of a pattern |
| Optimizer (`optimizer/`) | groups of equivalent plan nodes | match, transform, explore, pick | lists changed while iterated; termination; filters cut in two; bounds of index scans |
| Expressions (`visitor/`, `util/ExpressionUtils`) | flags kept between visits | fold, rewrite, deduce a type, extract | a flag of one operand seen by the next |
| Mutations (`MutateValidator`, `executor/mutate`) | rows in the storage, two copies of an edge | insert, update, upsert, delete | no transaction: one call of several fails, or another session writes in between |
| Spaces (`UseValidator`, `executor/admin`, `executor/maintain`) | meta service, schema cache, current space of sessions | use, create, drop, alter, describe | stale cache; two sessions; a space dropped and created again |
| Schemas (`MaintainValidator`, `SchemaUtil`, `IndexUtil`) | columns, defaults, expiry | create, alter, describe, show create | the text of SHOW CREATE must be a sentence that means the same |

## Modules

| Module | Models | State and actions |
|---|---|---|
| `Scheduler` | `Scheduler.cpp`, `LoopExecutor`, `SelectExecutor`, `PassThroughExecutor`, the end of `QueryInstance` | The plan is a constant: a graph of executors, each plain, PassThrough, loop or select. `fut` holds the future of every call of `doSchedule`, `pc` where each run is, `numOutputs` and `promise` the `PassThroughData`. One action for each piece of code that runs without interruption: the entry of `doSchedule`, its return, each continuation, each outcome of `execute()`, `onFinish` and `onError`. |
| `SessionManager` | `SessionManager`, `Session`, `GraphService`, `RequestContext` | `active` is `activeSessions_`; session objects are numbered and may be held by requests after their removal. Each piece of a request between two lock regions or futures is an action; so are the scavenger and a second that passes. |
| `ExecutionContext` | `ExecutionContext.cpp` | `hist` is `valueMap_`. Version arithmetic is modulo `SizeT`, as in the code. |
| `VersionView` | what `ExecutionContext` promises | `view`: the readable versions of every variable, the latest first |
| `Spaces` | `UseValidator`, `SequentialValidator`, `AdminValidator`, `MaintainValidator`, `ValidateContext`, `SpaceExecutor`, `SwitchSpaceExecutor`, the executors of `executor/maintain` | A request is validated statement by statement and then executed statement by statement; an execution is a call on its way, the answer of the meta service, and the continuation. `space` is `Session::space_`, `cache` the meta client's schema cache, `nameOf` and `alive` the meta service. |
| `Paths` | `Path` of nebula-common and `getNeighbors`, as used; the reference definitions of walks | no state |
| `PathPlan` | what the plans of FIND PATH share | the query, the loop, and for each side (`"forward"` from the FROM vertices, `"backward"` from the TO vertices) the versions of its path variable |
| `ShortestPath` | `singlePairPlan`, `BFSShortestPathExecutor`, `ConjunctPathExecutor::bfsShortestPath` | `visited`, `hists`; expand a side, conjunct, collect |
| `AllPaths` | `allPairPaths`, `ProduceAllPathsExecutor`, `ConjunctPathExecutor::allPaths` | `historyPaths`, `count`; produce a side, conjunct, collect |
| `MultiPairPath` | `multiPairPlan`, `ProduceSemiShortestPathExecutor`, `ConjunctPathExecutor::floydShortestPath`, `CartesianProductExecutor` | cost tables; reads one edge at a time, in any order; conjunct, collect |
| `FindPath` | `FindPathValidator::toPlan` | chooses the plan; extends the three modules above, which share the variables of `PathPlan` |

The modules of a query build on each other, each extending the ones to its left:

    Iterators - Expressions - Visitors - PlanNodes - GoPlan - FetchPlan - PipePlan - MatchPlan
                                    |       |           |                                |
                                    |       |           +- LookupPlan - Optimizer ----- Statements
                                    |       +- Executors ---------------------------------+
                                    +- DeduceType, Schemas                                |
                                                                      QueryRun, Rewrites - Meaning

| Module | Models | Contents |
|---|---|---|
| `Iterators` | `Iterator`, `Result`, `QueryExpressionContext` | A result is the logical rows of its iterator, in order, with `own`, the Values the rows point into. |
| `Expressions` | expression trees of nebula-common as used; `ExpressionUtils`, the collecting and finding visitors | An expression is a record with its operands in the order of the visits. |
| `Visitors` | the visitors that fold, rewrite and extract | A visitor with a flag takes the flag and gives it back. |
| `DeduceType` | `DeduceTypeVisitor` | The type of an expression from the types of its operands. |
| `PlanNodes` | `PlanNode`, `Query.h`, `Logic.h`, `Algo.h`, `SymbolTable` | A node is a record; a plan maps names to nodes and has a root and a tail. |
| `GoPlan`, `FetchPlan`, `PipePlan`, `LookupPlan`, `MatchPlan` | the validators and planners of the statements | For each statement what its validator accepts, the columns it declares, and the plan it builds. |
| `Statements` | the sentences, `Validator::validate`, `SequentialPlanner` | Validates a sequence, with the columns of pipes and variables, and chains the plans. |
| `Bounds`, `Optimizer` | `OptimizerUtils`; `OptGroup`, `Optimizer`, the rules | A memo of groups; `ExploreNodes` is the exploration with one rule, in rounds. |
| `Executors` | `executor/query`, `executor/algo` used by queries | Each executor is an operator from its node and the results of its inputs to a result or an error. |
| `Meaning` | nothing: the reference | What a query means, said of the graph and the statements alone. |
| `QueryRun` | `QueryInstance`, and `Scheduler` as far as order is concerned | A query is validated, optimized (with the rules in several orders, and equal indexes sorted either way), and its nodes are executed in any order that the dependencies allow. `vals` holds the versions of the variables. A node that asks the storage takes two steps. |
| `Schemas` | `MaintainValidator`, `AdminValidator`, `SchemaUtil`, `IndexUtil`, `MaintainSentences.h`; the part of `parser.yy` that reads definitions | How a sentence becomes what is stored, and what is stored becomes a sentence. |
| `Rewrites` | the pure algorithms above as state machines | Any of the transformations in any order on an expression; a filter turned into scans; a value moved to its bound; definitions created, altered and shown. |
| `Mutations` | `MutateSentences.h`, `MutateValidator`, `Mutate.h`, `executor/mutate` | Validation, plan nodes, and the request each executor sends. |
| `GraphStore` | nothing: the storage service, as used, and the reference | Rows under vertex and edge keys in parts; what a statement makes of a graph. |
| `Writes` | the composition | Statements of several sessions under way at once; a call is sent to parts that answer, fail or lose their answer one by one. |
| `*Proofs` | theorems about the modules they extend | |
| `MC*` | constants for TLC | |

Abstractions. Strings other than names are opaque, and values are small integers,
strings, booleans, null and empty, lists, vertices, edges and paths. A plan node keeps
the fields the executors read. An executor fails in any of the two ways the code
knows: a bad `Status` (`"err"`) or an exception (`"exc"`). What a released query's
remaining tasks do is undefined in the code; the model stops there and says so as a
property (`ReleaseIsSafe`). The storage service, the meta service and the functions of
nebula-common (evaluation of expressions, the function manager, `Path`) are not in this
repository; they are modelled from how the code uses them and marked external in
`PROJECT.json`. In `Scheduler` the loop condition is an arbitrary choice; in `QueryRun`
and in FIND PATH it is evaluated. In `Spaces` the meta service knows spaces but not what
is in them: that a tag exists already, or does not, is one of the reasons for which a
call may fail. Authorization is off, as it is by default.

Definitions whose comment begins with "Mutant" are deliberately wrong variants of
the definition that follows them; `PROJECT.json` pairs each with the property that
detects it. They are not used by any specification.

## Runs

Run as `tlc -config <cfg> <module>`. "Violation" runs state what a comment or a test
of the repository says and show how the code departs from it.

| Run | Instance | What it shows |
|---|---|---|
| `scheduler` (`MCScheduler.cfg`) | 13 executors: a PassThrough at the root, a select, a loop of up to 3 rounds, a body that nests two PassThroughs | `FreshInputs`, `PromiseSetOnce`, `RoundsDoNotOverlap`, `SuccessIsQuiescent`, `ErrorsReported`; and `QueryAnswered`: whatever fails, whenever, the query is answered |
| `scheduler_release` | the same plan | violation of `ReleaseIsSafe` |
| `sessions` (`MCSessionManager.cfg`) | 2 requests at a time, 4 sessions, ids modulo 4, timeout of 2 s | `ActiveIdsSound`, `IdsDenoteOneSession`, `NoOrphans`, `NeverOverwritten`, and `AbandonedIsReclaimed` under fairness |
| `session_busy` | 1 session | violation of `BusySessionKept` |
| `context_versions` | 2 variables of up to 4 versions, `size_t` of 4 bits | `ReadsAsPromised`: counting back, `ExecutionContext` implements `VersionView`; `CountsForward` |
| `context_oldest` | 1 variable | violation of `OldestIsVersionOne` |
| `findpath` (`MCFindPath.cfg`) | every graph of up to 3 edges on 3 vertices, 2 to 4 edges on 4, rows of 5 vertices, crowded graphs of 7 and one of 11; all directions; bounds 0 to 5 | `LevelsAreDistances`, `LevelsAreTrails`, `NeverWorse`, `FoundOnce`, `AnswerIsSound`, `AnswerIsExact`, `Terminates` |
| `findpath_test` | the graph of `ProduceSemiShortestPathTest` | violation of `EveryStartRecorded` |
| `spaces` (`MCSpaces.cfg`) | 2 sessions, 2 requests at a time and any number after one another, 2 names, 2 spaces | `RightSpace`, `RunsAsValidated`, `OwnDropForgotten` |
| `queries` (`MCQuery.cfg`) | 193 queries on a graph with a cycle, parallel edges, three edge types and two tags | see below |
| `rewrites` (`MCRewrites.cfg`) | some 6,000 expressions, filters, values and definitions; up to 3 transformations | see below |
| `writes` (`MCWrites.cfg`) | 2 statements at a time out of 21, 2 storage parts, TOSS or not, `accept_partial_success` or not | see below |

`queries` runs every query from its sentences to the response.

- `AnswerIsMeaning`: the rows sent to the client are those of `Meaning`, which knows
  the graph and the statements but no plan.
- `AcceptedRuns`: a query that was accepted fails only if the storage does.
- `ReadsAreWritten`, `NoConflicts`, `NothingMovedIsRead`: an executor finds its inputs
  written, in the versions it asks for; two that may run at once do not touch the same
  variable; nobody reads a Value whose rows `rowBasedMove` or `collectMToN` moved away,
  in any version, nor is one sent to the client.
- `OnlyPassThroughShared`: the plans have the shape that `Scheduler` assumes
  (`SharingAssumption`). This is the link between the two: the scheduler's theorems are
  for plans of this shape, and `QueryRun` runs the nodes in all orders which that
  shape allows. The plans of FIND PATH and of the statements that write are modelled
  apart and are not among those checked.
- `ExplorationEnds`: the optimizer reaches a fixed point before its bound on rounds.
- `OutputsAreDeclared`: the columns of the answer are those the validator promised to
  the statement after it.
- `QueryEnds`: every query is answered, refused or fails.

`rewrites` checks the algorithms on inputs that no query of the first run has.

- `ValueKept`: folding, flattening, rebuilding, distributing, splitting and projecting an
  expression, in any order, keeps its value on every row.
- `TypeIsSound`: the value has the deduced type, or is null.
- `ScanIsExact`: the index scans of a LOOKUP find the rows of its filter and no others.
- `BoundIsTight`: the bound of an exclusive range lies beyond its value. For INT, STRING
  and DATE, and for TIME and DATETIME as long as the microseconds do not overflow, it is
  the neighbour; for FLOAT it may be the value itself. All values of the six types, of
  small width, are tried.
- `ShowCreateRecreates`: what SHOW CREATE prints is accepted by the parser and the
  validator and creates the same tag, edge type, index or space, however it was altered.

`writes` checks the statements that change data against failures and each other.

- `CopiesAgree`: the two copies of an edge are the same once everything that wrote to it
  has succeeded.
- `DeletedIsGone`: a vertex that was deleted has no edge left, in either copy.
- `AloneIsAtomic`: a statement that nothing interferes with does just what it says, and
  returns what the graph then holds.

Why the bounds are enough. The scheduler's plan has each kind of executor, a
PassThrough with no successor and with two, one below another, and a loop that
reuses both; three rounds let a round follow a round that itself followed one. The
theorems remove the bound for safety. Ids modulo 4 with 4 sessions make the counter
wrap, skip zero and skip an id in use. Four versions are more than any
version offset the executors use (0 and -1). Paths of up to
four steps need two rounds of each side, so that odd and even meetings, both
versions of the other side and a second conjunction occur; three vertices with
loops and a parallel edge give every local shape, and the rows and crowds give the
longer ones. In the crowd of 11 vertices a pair gets rows of two different costs, which
the final collection has to tell apart. In `spaces` the requests cover a space that is created and used in one
request, one that is looked up in the cache, and statements that rely on the space of
the session. Two spaces are two of different names or one that was dropped and created
again; two requests at a time share a session or belong to two, and all earlier
requests are in the state they leave behind.

The queries of `MCQuery` have every clause of every statement at least once: GO in
0 to 3 and M TO N steps, in all directions, from constants, a pipe and a
variable, with source, edge, destination and input properties, filters that
are pushed down whole, in part or not at all; every statement on both sides of a pipe,
of a set operator and of an assignment; patterns with edges of fixed and variable
length to the left and to the right of the start. The cycle makes a traversal longer than
the graph, and vertices that nothing leaves make it run dry. `MaxExplorationRound` is 8
where the code has 128, which makes `ExplorationEnds` stronger. `AcceptPartial` is off
as it is by default; `writes` has it both ways. The expressions of
`MCRewrites` are families of depth up to three over two properties and one input
column, with every pair or triple of operands from a set of leaves that has constants,
null and properties of each kind; its definitions have every option, and the alterations
are applied in every order. In `writes` two statements at a time are what it takes for
one to interfere with another, and two parts for one half to fail.

What `AnswerIsExact` says at the bound. The reference is the set of paths of up to n
steps, where the sentence says UPTO n STEPS, and the property names the two places where
the code departs from it. FIND SHORTEST PATH between sets of vertices does not look for
paths of n steps if n is even (`count_ * 2 < steps`, `ConjunctPathExecutor.cpp:208`; for
all paths line 342 has `<=`), so UPTO 2 STEPS returns paths of one step only. The tests
of the repository have it so: in `src/tests/tck/features/path/ShortestPath.feature` the query
of line 390 with UPTO 2 does not return the path of two steps from "Yao Ming" to "Lakers"
that line 402 returns with UPTO 3. FIND SHORTEST PATH between two vertices rounds an odd
bound up, so it returns paths of n + 1 steps if there are none of up to n. Both cases occur
in the run. Anything else that is lost or too long is a violation, and so is a change of
either departure.

What `Spaces` shows and what it does not. A statement on a tag, an edge type or an
index takes the space of the session when it is executed, not when it is validated.
`RightSpace` therefore holds for sessions that send one request at a time; two requests
under way on one session can send each other's statements to the wrong space, and the
property says so by leaving sessions in `shared` out. An ALTER carries the space id it was
planned with. It is right in every session, but -1 when the space is created in the
same request, so such an ALTER is refused; `RunsAsValidated` leaves ALTER out for this
reason. Statements that drop spaces are left out of it too, since validation does not
track drops.

Fairness. `Scheduler!FairSpec` has weak fairness of the whole step: the thread pool
runs a continuation that is ready, and calls to other services end by their timeout
if by nothing else. Nothing is assumed about which ready continuation goes first.
`SessionManager!FairSpec` has weak fairness of time, of the scavenger (it is a
repeating task of a `GenericWorker`) and of each request under way; clients are not
fair. `FindPath!Spec` and `QueryRun!Spec` have weak fairness of their step, which the
scheduler provides; `QueryRun` writes it in a form that is cheaper to evaluate and
that says the same because TLC finds no deadlock.
It takes the validator, the optimizer and the meaning of a query as operator
parameters, which `MCQuery.cfg` sets to `ValidateQuery`, `FindBestPlan` and
`QueryMeaning`: TLC's coverage statistics unfold every call path of a specification.

Deadlock is checked for sessions, variables, spaces, queries and writes. A run of `Scheduler`
and of `FindPath` ends, so these switch the check off; `QueryAnswered` and `Terminates`
say that the end is the right one.

## Proofs

`tlapm` checks them, module by module. The proofs about the scheduler come in two
modules: `SchedulerStepProofs` (types, what each kind of step changes, and most of the
control flow) and `SchedulerProofs`, which extends it (blocks, versions and failures, and
the theorems). Those about FIND PATH come in three, each extending the one before:
`PathProofs` (walks, the plan for all paths, the plan for a single pair),
`MultiPairProofs` (the cost tables of the plan for several pairs, and their conjunction)
and `FindPathProofs` (the plan for several pairs, and the theorems). `SpacesProofs` has
those about graph spaces, `SessionManagerProofs` those about sessions and
`ExecutionContextProofs` those about variables.

**Scheduler.** Assumptions, named in `Scheduler.tla` and evaluated by TLC on the
instance: the plan is finite and well formed (`PlanAssumption`), acyclic, as shown by
a depth (`AcyclicAssumption`), falls into blocks, one for the root and one for each
body, which dependencies do not leave (`BlockAssumption`), and only PassThroughs are
shared (`SharingAssumption`, which `queries` checks of the plans it builds as
`OnlyPassThroughShared`). For every such plan, any number of rounds and any set
of failing executors:

- `TypeCorrect`, `Quiescence` (`SuccessIsQuiescent`), `Errors` (`ErrorsReported`),
  `PromisesSetOnce`, `RoundsApart` (`RoundsDoNotOverlap`), `Freshness` (`FreshInputs`);
- `Invariance`: they follow from `IInv`, which is inductive.

None of the properties is inductive. `SuccessIsQuiescent`, for instance, needs to
know that a PassThrough whose waiters were woken early still has one successor, the
one that ran it, waiting. `IInv` is a conjunction of named parts in two layers.
`FlowInv` is about control: a run has an owner who waits for it (`OwnerWaits`);
a future is held by a caller that waits or gave up (`FuturesHeld`); an executor has
been run as often as each caller asked for it, with a PassThrough one behind the
successors that arrived early (`RoundsMatch`); the counter of a PassThrough is the
number of successors still to arrive and its promise is fresh until then
(`PassThroughOK`); executors are in the round of their block or one behind
(`BlocksOK`); and a block whose caller is not waiting is quiet and complete
(`QuietBlocks`). On top of it, `AnswerOK`, `Executions` (how often an executor has
executed), `Failures` (a failure has made its future bad, and nothing else makes one
bad) and `SharedFailures` (a PassThrough whose dependencies failed let nobody pass).
The proof has one lemma per part, which reduces the actions to a few effects
(`StepKinds`: a future is resolved, a run begins, a PassThrough is reached). That a
quiet block is quiet throughout uses the depth: `Nearest` picks an unfinished
executor nearest to the root of the block.

**Sessions.** Assumptions: more than two ids. For every width of the counter, every
number of requests and every timeout: `TypeCorrect`, `ActiveIds` (`ActiveIdsSound`),
`OneSession` (`IdsDenoteOneSession`), `Orphans` (`NoOrphans`), `Overwriting`
(`NeverOverwritten`). The inductive invariant adds that, until the counter wraps
around, the n-th session has the id n (`IdsInOrder`), and that only created sessions
are held or handed out (`HeldWasCreated`).

**Variables.** Assumptions: the versions kept are at most half of what `size_t` can
count (`ContextAssumption`). For any variables and results: `TypeCorrect`; `Refinement`,
that `ExecutionContext` implements `VersionView` under the mapping that reads
every variable with `getVersionedResult` at 0, -1, -2, ... (`ReadsAsPromised`); and
`Forward` (`CountsForward`). The argument is a lemma on `Index`: below the size of a
history, the sum of an unsigned size and a negative version, reduced twice, is the
place counted from the end. With it `View` is the history reversed, and each operation
maps to a write, to forgetting the oldest, or to taking the latest value.

**Spaces.** Assumptions: requests are non-empty sequences of statements
(`TextsAssumption`), the number of spaces is bounded (`BoundAssumption`), and no
space has the empty name (`NamesAssumption`). For any number of sessions and of requests
under way, and for requests of any length: `TypeCorrect`, `Aims` (`RightSpace`),
`Forgets` (`OwnDropForgotten`), `Runs` (`RunsAsValidated`), and `Invariance`. The
invariant follows a request through its phases. While it is validated, its context is in
the space of the last USE, or else in that of the session (`InLastUse`), and what was
planned so far is meant for the space of the USE before it (`ValidatedFor`). While it is
executed, what remains up to the next USE is meant for the space the session is in, unless
a DROP SPACE has left it in none (`MeantForSession`); the call under way and its answer
name a space that had the right name (`CalledFor`, `AnsweredFor`). Steps of other requests
leave all of this alone, except those of the same session, and then the session is shared
(`OverlapsShared`, `Undisturbed`). `GoneIsDead` (ids are not used again) is what makes it
enough that `DropSpaceExecutor` compares names. A request with which nothing interferes is
the only one under way (`CalmAlone`), and each space it still uses exists or is created by
a statement still to come (`Supplied`).

**FIND PATH.** Assumptions: only the types of a query (`QueryAssumption`: a bound in `Nat`,
a direction, flags). The graph is any set of edges, even an infinite one. For every
query, every order in which the two sides are expanded and every order of the storage's
answers: `LevelsHoldDistances` (`LevelsAreDistances`), `LevelsHoldTrails`
(`LevelsAreTrails`), `HistoryNeverWorse` (`NeverWorse`), `SoundAnswers` (`AnswerIsSound`),
`ExactAnswers` (`AnswerIsExact`, with its two exceptions at the bound) and
`PathsFoundOnce` (`FoundOnce`). All follow from
`FindPathInvariant`, whose `FindPathInv` is the invariant of the plan that was chosen.

The proof starts with walks (`PathProofs`). A walk of n + 1 steps is a walk of n steps and
an arc (`Extend`, `Shorten`); turned around it is a walk of the other side
(`ReverseWalk`); and a walk from u to w of k + j steps is one of k steps from u and one of
j steps, of the other side, from w that end in the same vertex (`JoinWalk`, `SplitWalk`).
No induction over paths is needed: the rounds of the loop are the induction, and each
round needs the walks that are longer by one step only.

- *All paths.* `AllInv`: after k rounds a side has the trails of up to k steps, its next
  sources are their ends (`AllSide`), and round k of `ConjunctPath` has found the rows of
  2k - 1 and of 2k steps (`AllOutput`). Different rounds find different lengths, so no path
  is found twice.
- *Single pair.* `SingleInv`: the versions of a side are the levels of the search, and
  what is marked are the vertices within the explored distance (`SingleSide`); forward_ and
  backward_ are these levels (`SingleHists`); as long as nothing was found there is no
  walk of up to 2k steps, and what is found are all the shortest ones (`SingleOutput`). The
  rounds cover `steps` rounded up to an even number (`TwoPerRound`), and the shortest
  walks within the larger bound are those within `steps` if there are any
  (`ShortestWithin`). A
  loop at the start vertex may be saved or not, and the invariant allows for both.
- *Several pairs.* `MultiInv` has two layers. Always: each entry of the cost tables is a
  walk from its start of the cost that it says, and what a round has found is not worse
  than the history (`MultiSide`, `MultiReading`), so every row is sound (`MultiOutput`), and
  the answer has the cheapest rows of each pair (`MultiFinal`). As
  long as no two starts have competed for a vertex (`~crowded`): the entries are all the
  shortest walks and every vertex within the explored distance has one (`ExactSide`, also
  in the middle of reading the neighbours), and the pairs with a known cost are those that
  a walk of the lengths looked at so far connects (`ExactOutput`). All rounds together look
  at the lengths up to `steps`, without `steps` itself if it is even (`ExpectedIs`).
  `EveryStartRecorded`
  shows what happens without that condition.

Only model-checked:

- Liveness (`QueryAnswered`, `AbandonedIsReclaimed`, `Terminates`, `QueryEnds`): the
  provers do not handle fairness.
- The properties of `queries` and `rewrites` (`AnswerIsMeaning`, `AcceptedRuns`,
  `ReadsAreWritten`, `NoConflicts`, `NothingMovedIsRead`, `OnlyPassThroughShared`,
  `ExplorationEnds`, `OutputsAreDeclared`; `ValueKept`, `TypeIsSound`, `ScanIsExact`,
  `BoundIsTight`, `ShowCreateRecreates`). They are about recursive operators on plans and
  expressions, which the prover cannot unfold, and would need induction over their
  structure.
- The properties of `writes` (`DeletedIsGone`, `CopiesAgree`, `AloneIsAtomic`). The
  operations of a call are made by folding over the rows of a statement, and a part applies
  its share by folding over them (`ApplyAll`). What such a fold computes for a statement of
  any length needs induction over the sequence.

## Where code and documentation disagree

- `ReleaseIsSafe`. The comment in `QueryInstance::onFinish` allows the release of the
  query only when no sub-task can still touch it, "EVEN on failures". `folly::collect`
  fails with the first exception, so `onError` deletes the query while a sibling branch
  is still executing.
- `EveryStartRecorded`. `ProduceSemiShortestPathTest` expects a vertex reached from two
  starts to have an entry for each. `dstNotInHistory` calls `emplace` for every start and
  only the first succeeds; the test passes because of the order of its rows.
- `BusySessionKept`. The flag speaks of idle sessions, but a session is charged only when
  a request starts and when it ends, so a query that runs for longer than the timeout
  loses its session.
- `OldestIsVersionOne`. The header says that version 1 is the oldest. With a single
  version it reads the empty result, and the last version cannot be reached counting
  forward. (`ExecutionContext.h:57-58` also says that the front of `getHistory` is the
  latest value; `setResult` appends, so it is the oldest, and `CountsForward` relies on
  that.)

## What the code does beside the properties

The modules model the following as the code has it; the runs leave the inputs out
or the properties except them, because the code does not do there what the properties
say in general. No document promises otherwise unless it is quoted.

FIND PATH:

- The two departures at the bound described under [Runs](#runs); `AnswerIsExact` states
  them.
- FIND SHORTEST PATH from a vertex to itself may return closed walks or nothing; the
  property only says that what it returns is a walk.

GO, GET SUBGRAPH and relational statements:

- M TO N STEPS of a GO whose start is not a constant and that uses no input, variable or
  destination property has a null dependency (`GoValidator.cpp:410`); the same with one
  or N steps yields nothing (`GoValidator.cpp:317`).
- A GO that uses neither edge properties nor the destination reads null edge
  properties. A row whose destination lacks the tag of a `$$` property is dropped.
- N steps from a column that the user named `_vid` is ambiguous.
- GET SUBGRAPH with only IN or OUT edges keeps edges that lead to vertices outside of the
  answer; `AnswerIsMeaning` is about BOTH. It declares no columns.
- An aggregate inside an expression is declared under the text of the aggregate
  (`GroupByValidator.cpp:64`). `YIELD COUNT(1)` without input reads no variable.
- A variable that is assigned twice keeps the columns of the first
  assignment (`AssignmentValidator.cpp:28`).
- The filter of YIELD is not type-checked, and a filter whose deduced type is EMPTY may fail
  as not boolean when it is run.

MATCH:

- The list of edges of a pattern of variable length that is expanded to the left is in
  reverse order.
- Several MATCH clauses in one query, or MATCH followed by UNWIND without WITH, lose the
  earlier columns. WITH does not group ("TODO: Handle grouping",
  `WithClausePlanner.cpp:101`). `RETURN *` after UNWIND returns one arbitrary alias.
- `(x)-->(v:t{a:1})` where v is not the start filters `v.a == 1` and not the tag
  (`MatchValidator.cpp:207`).
- `RETURN * ORDER BY` dereferences columns that were not given
  (`MatchValidator.cpp:392`). SKIP is added to the largest integer when there is no LIMIT.

LOOKUP and the optimizer:

- `c1 != x OR c2 == y` with an index on (c2, c1) loses rows. The end of a range that
  is the largest value of its type excludes the row with that value, and `> max` finds it.
- `OptimizerUtils`: the value above a TIME or DATETIME whose microseconds are at the limit
  of an int32 skips the zeros, since each digit starts again from 1; no real time has so
  many. The value above a FLOAT may be equal to it, the one below the
  smallest negative FLOAT is 0, and below a DATE, TIME or DATETIME
  it may stay where it is. Scans only ask for the value above.
- `ExtractFilterExprVisitor` is wrong for nested logic ("TODO(dutor) It's buggy when there
  are multi-level embedded logical expressions"), and `expandExpr` does not always reach
  a normal form; only tests use the latter.
- The text search of LOOKUP tries once less than configured, since the loop is
  `while (--retryCnt > 0)`.

Expressions:

- `GoValidator::validateWhere` uses a filter it has freed when the root is a
  `LabelAttributeExpression`, and ignores the status of two visitors.
- `kConstantValues` has no TIME (`DeduceTypeVisitor.cpp:28`). The rewriting of label
  attributes misses direct operands of logical expressions and arguments of aggregates, and
  stores the initial value of REDUCE as its collection.
- `JoinIter::copy` keeps pointers into the original. `DataJoinExecutor` checks the kind
  of the left iterator twice and never that of the right.

Statements that write:

- Two UPDATE EDGE statements on one edge at the same time may both succeed and leave
  different copies. An unknown property in its YIELD is reported after the first copy was
  updated, and with TOSS the YIELD is dropped (`MutateValidator.cpp:659`).
- DELETE VERTEX by reference deletes the edges before it finds a value that is
  not a vertex id (`DeleteExecutor.cpp:23`); with `accept_partial_success` it may leave
  edges; its reference must be deduced to be a string even where ids are integers.
- INSERT VERTEX that names a tag twice deals the values out wrongly
  (`MutateValidator.cpp:118`). DELETE uses the space of the session when it is executed,
  INSERT and UPDATE that of the plan.

Definitions:

- SHOW CREATE prints defaults that are NULL, dates or times as strings, does not escape
  quotes, and drops the length of an indexed string (`IndexUtil.cpp:53`).
- ALTER takes `ttl_duration` through an `int`, CREATE in 64 bits
  (`MaintainValidator.cpp:175`). `partition_num` and `replica_factor` are cut to 32 bits,
  and the group of CREATE SPACE is parsed and dropped (`AdminValidator.cpp:92`).

## What is not modelled

- The scanner and the grammar (a function of the text; of the grammar only the part
  that reads SHOW CREATE back is in `Schemas`), the printers of sentences, and
  EXPLAIN and PROFILE, which print a plan.
- Cluster administration (balance, hosts, zones, snapshots, jobs, listeners,
  configuration): one call to the meta service per statement and a table made of its
  answer, with no state on this side. Their plan nodes only carry the fields of the
  sentence.
- Users, roles and the access policy, a table of roles and statements, which is off by
  default.
- The daemon, its flags and counters, and the conversion of plans and values to JSON.
- Memory ownership other than that of sessions, of the released query and of the
  rows that results share.

`PROJECT.json` gives the reason for each component.

## Plan

What would add most:

1. **A proof that every plan the validators build has the shape `Scheduler` assumes.** It
   needs the plan builders without recursive operators.
2. **More of the storage.** Partial answers in the middle of a loop with
   `accept_partial_success`; a fault model for the reads of MATCH.
3. **An abstract scheduler** ("each node runs once per round, after its dependencies")
   that `Scheduler` implements and `QueryRun` uses.
