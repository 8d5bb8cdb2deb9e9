------------------------------- MODULE Spaces -------------------------------
(***************************************************************************)
(* Graph spaces and what is defined in them (src/src/validator:            *)
(* UseValidator, SequentialValidator, AdminValidator, MaintainValidator;   *)
(* src/src/executor/admin: SpaceExecutor, SwitchSpaceExecutor;             *)
(* src/src/executor/maintain; src/src/context/ValidateContext.h).          *)
(*                                                                         *)
(* A request is a sequence of statements.  All of them are validated       *)
(* before the first is executed: a USE is looked up among the spaces that  *)
(* the request creates itself and then in the schema cache, and only when  *)
(* it is executed does it change the current space of the session.  Every  *)
(* executor makes one call to the meta service, which other requests, of   *)
(* this session or of another one, change at the same time.                *)
(* Authorization is off (FLAGS_enable_authorize, the default).             *)
(***************************************************************************)
EXTENDS Integers, Sequences, FiniteSetsExt

CONSTANTS
    Names,      \* names of spaces
    Schemas,    \* names of tags and edge types
    Indexes,    \* names of indexes
    Sessions,
    Requests,   \* requests that may be under way at the same time
    Texts,      \* the requests that clients send: sequences of statements
    MaxSpaces   \* bound: how many spaces are created

SpaceOps == {"use", "create space", "drop space"}
SessionOps == {"create", "drop", "describe"}
ObjectOps == SessionOps \cup {"alter"}

\* lenient: IF NOT EXISTS, IF EXISTS
Statements ==
    [op : SpaceOps, name : Names, lenient : BOOLEAN]
        \cup [op : ObjectOps, name : Schemas \cup Indexes, lenient : BOOLEAN]

ASSUME TextsAssumption == Texts \subseteq Seq(Statements) /\ \A t \in Texts : t # <<>>
ASSUME BoundAssumption == MaxSpaces \in Nat
ASSUME NamesAssumption == "" \notin Names

kInvalidSpaceID == -1
Ids == 1 .. MaxSpaces
NoSpace == [name |-> "", id |-> kInvalidSpaceID]
SpaceInfo == [name : Names, id : Ids \cup {kInvalidSpaceID}] \cup {NoSpace}

VARIABLES
    nameOf,   \* meta service: the names of all spaces ever created, by id
    alive,    \* meta service: the spaces that were not dropped
    cache,    \* schema cache of the meta client: the spaces as last loaded
    space,    \* Session::space_
    req,      \* the requests under way
    shared,   \* history: the sessions that had two requests under way at once
    gone      \* history: the spaces each session was told it has dropped

meta == <<nameOf, alive>>
history == <<shared, gone>>
vars == <<nameOf, alive, cache, space, req, shared, gone>>

Phases == {"validate", "execute", "called", "answered", "failed"}

(***************************************************************************)
(* A request: its ValidateContext (here = whichSpace(), created =          *)
(* createSpaces_, schemas = schemas_), the space ids in its plan, and the  *)
(* call to the meta service that is under way.  wanted is history: the     *)
(* space each statement is meant for; calm: nothing has interfered.        *)
(***************************************************************************)
RequestType ==
    [phase : Phases, by : Sessions, text : Texts, at : Nat, wanted : Seq(Names \cup {""}),
     here : SpaceInfo, created : SUBSET Names, schemas : SUBSET Schemas,
     plan : Seq(Ids \cup {kInvalidSpaceID}),
     target : Ids \cup {kInvalidSpaceID}, ok : BOOLEAN, calm : BOOLEAN]

Idle == [phase |-> "idle"]

Init ==
    /\ nameOf = <<>>
    /\ alive = {}
    /\ cache = {}
    /\ space = [s \in Sessions |-> NoSpace]
    /\ req = [r \in Requests |-> Idle]
    /\ shared = {}
    /\ gone = [s \in Sessions |-> {}]

Statement(q) == q.text[q.at]
Last(q) == q.at = Len(q.text)

\* Validator::validate: a request arrives on session s and starts from the
\* space of the session, if it has one.
Submit(r, s, t) ==
    /\ req[r] = Idle
    /\ LET others == {x \in Requests : req[x] # Idle}
           q == [phase |-> "validate", by |-> s, text |-> t, at |-> 1, wanted |-> <<>>,
                 here |-> space[s], created |-> {}, schemas |-> {}, plan |-> <<>>,
                 target |-> kInvalidSpaceID, ok |-> TRUE,
                 calm |-> others = {} /\ cache = alive /\ space[s].id \in alive \cup {kInvalidSpaceID}]
       IN  /\ req' = [x \in Requests |->
                        IF x = r THEN q
                        ELSE IF x \in others THEN [req[x] EXCEPT !.calm = FALSE] ELSE Idle]
           /\ shared' = IF \E x \in others : req[x].by = s THEN shared \cup {s} ELSE shared
    /\ UNCHANGED <<nameOf, alive, cache, space, gone>>

-----------------------------------------------------------------------------
(* Validation *)

\* The space a statement is meant for, read off the request: that of the last
\* USE before it, or else the one the session was in when the request arrived.
Wanted(q) ==
    LET uses == {k \in 1 .. q.at - 1 : q.text[k].op = "use"}
    IN  IF Statement(q).op \notin ObjectOps THEN ""
        ELSE IF uses = {} THEN q.here.name ELSE q.text[Max(uses)].name

\* The statement is validated and planned; the node of an ALTER has a space id.
\* After the last statement the ValidateContext is not used any more.
Planned(q) ==
    LET id == IF Statement(q).op = "alter" THEN q.here.id ELSE kInvalidSpaceID
        p == [q EXCEPT !.plan = Append(@, id), !.wanted = Append(@, Wanted(q))]
    IN  IF Last(q) THEN [p EXCEPT !.phase = "execute", !.at = 1, !.here = NoSpace,
                                  !.created = {}, !.schemas = {}]
        ELSE [p EXCEPT !.at = @ + 1]

Validate(r, ops, result) ==
    /\ req[r].phase = "validate"
    /\ Statement(req[r]).op \in ops
    /\ req' = [req EXCEPT ![r] = result]
    /\ UNCHANGED <<nameOf, alive, cache, space, shared, gone>>

\* A statement that is not valid ends the request before anything is executed.
Rejected(q) == Idle

\* Mutant: whichSpace() is the first space of the trace.
UseResultFirst(q) ==
    LET n == Statement(q).name
        cached == {i \in cache : nameOf[i] = n}
        id == IF n \in q.created \/ cached = {} THEN kInvalidSpaceID ELSE CHOOSE i \in cached : TRUE
    IN  IF n \notin q.created /\ cached = {} THEN Rejected(q)
        ELSE Planned([q EXCEPT !.here = IF q.here = NoSpace THEN [name |-> n, id |-> id] ELSE @])

\* UseValidator: the spaces that the request creates come first.
UseResult(q) ==
    LET n == Statement(q).name
        cached == {i \in cache : nameOf[i] = n}
        SwitchToSpace(i) == Planned([q EXCEPT !.here = [name |-> n, id |-> i]])
    IN  IF n \in q.created THEN SwitchToSpace(kInvalidSpaceID)
        ELSE IF cached = {} THEN Rejected(q)
        ELSE SwitchToSpace(CHOOSE i \in cached : TRUE)

CreateSpaceResult(q) == Planned([q EXCEPT !.created = @ \cup {Statement(q).name}])

\* CreateTagValidator, CreateEdgeValidator and the validators of the other
\* statements on tags, edge types and indexes: a space must have been chosen,
\* and a request may not create two schemas of one name.
ObjectResult(q) ==
    LET st == Statement(q)
        creates == IF st.op = "create" THEN {st.name} \cap Schemas ELSE {}
    IN  IF q.here = NoSpace \/ creates \cap q.schemas # {} THEN Rejected(q)
        ELSE Planned([q EXCEPT !.schemas = @ \cup creates])

ValidateUse(r) == Validate(r, {"use"}, UseResult(req[r]))
ValidateCreateSpace(r) == Validate(r, {"create space"}, CreateSpaceResult(req[r]))
ValidateDropSpace(r) == Validate(r, {"drop space"}, Planned(req[r]))
ValidateObject(r) == Validate(r, ObjectOps, ObjectResult(req[r]))

\* Columns, options, charsets: whatever else a validator objects to.
ValidateFails(r) == Validate(r, SpaceOps \cup ObjectOps, Rejected(req[r]))

-----------------------------------------------------------------------------
(* Execution *)

\* Mutant: every statement is sent with the space it was validated in, as far
\* as the validator knew it.
TargetOfPlan(q) ==
    IF q.wanted[q.at] \in {q.text[k].name : k \in {j \in 1 .. q.at - 1 : q.text[j].op = "create space"}}
    THEN kInvalidSpaceID ELSE space[q.by].id

\* The space an executor names in its call: ALTER was planned with one, the
\* other statements take the current space of the session.
Target(q) ==
    IF Statement(q).op = "alter" THEN q.plan[q.at]
    ELSE IF Statement(q).op \in SessionOps THEN space[q.by].id
    ELSE kInvalidSpaceID

\* execute() of any of the executors: the call is on its way.
Call(r) ==
    /\ req[r].phase = "execute"
    /\ req' = [req EXCEPT ![r].phase = "called", ![r].target = Target(req[r])]
    /\ UNCHANGED <<nameOf, alive, cache, space, shared, gone>>

\* The meta service answers the call of request r.
Serve(r, op, ok, target) ==
    /\ req[r].phase = "called"
    /\ Statement(req[r]).op = op
    /\ req' = [req EXCEPT ![r].phase = "answered", ![r].ok = ok, ![r].target = target]
    /\ UNCHANGED <<cache, space, shared, gone>>

Existing(r) == {i \in alive : nameOf[i] = Statement(req[r]).name}

\* MetaClient::createSpace: ids are never used again.
MetaCreateSpace(r) ==
    \/ /\ req[r].phase = "called" /\ Existing(r) # {}
       /\ Serve(r, "create space", Statement(req[r]).lenient, kInvalidSpaceID)
       /\ UNCHANGED meta
    \/ /\ req[r].phase = "called" /\ Existing(r) = {}
       /\ Len(nameOf) < MaxSpaces
       /\ Serve(r, "create space", TRUE, kInvalidSpaceID)
       /\ nameOf' = Append(nameOf, Statement(req[r]).name)
       /\ alive' = alive \cup {Len(nameOf) + 1}

\* MetaClient::dropSpace
MetaDropSpace(r) ==
    \/ /\ req[r].phase = "called" /\ Existing(r) = {}
       /\ Serve(r, "drop space", Statement(req[r]).lenient, kInvalidSpaceID)
       /\ UNCHANGED meta
    \/ \E i \in alive :
          /\ req[r].phase = "called" /\ i \in Existing(r)
          /\ Serve(r, "drop space", TRUE, i)
          /\ alive' = alive \ {i}
          /\ UNCHANGED nameOf

\* MetaClient::getSpace
MetaGetSpace(r) ==
    /\ \/ req[r].phase = "called" /\ Existing(r) = {} /\ Serve(r, "use", FALSE, kInvalidSpaceID)
       \/ \E i \in alive : req[r].phase = "called" /\ i \in Existing(r) /\ Serve(r, "use", TRUE, i)
    /\ UNCHANGED meta

\* MetaClient::createTagSchema, dropTagSchema, getTagSchema, alterTagSchema and
\* their likes for edge types and indexes: the space must exist.
MetaObject(r) ==
    /\ \E op \in ObjectOps : Serve(r, op, req[r].target \in alive, req[r].target)
    /\ UNCHANGED meta

\* A call fails: the meta service never saw it or refuses it (a tag that exists
\* already or does not exist), or its answer is lost after it took effect.
CallFails(r) ==
    /\ req[r].phase \in {"called", "answered"}
    /\ req' = [req EXCEPT ![r].phase = "answered", ![r].ok = FALSE, ![r].calm = FALSE]
    /\ UNCHANGED <<nameOf, alive, cache, space, shared, gone>>

\* MetaClient's background load of the schema cache.
LoadCache ==
    /\ cache' = alive
    /\ UNCHANGED <<nameOf, alive, space, req, shared, gone>>

-----------------------------------------------------------------------------
(* Continuations of the calls *)

Continue(r) ==
    LET q == req[r]
        next == [q EXCEPT !.phase = "execute", !.at = q.at + 1, !.target = kInvalidSpaceID]
    IN  req' = [req EXCEPT ![r] = IF Last(q) THEN Idle ELSE next]

Answered(r, ops) ==
    /\ req[r].phase = "answered"
    /\ req[r].ok
    /\ Statement(req[r]).op \in ops

\* SwitchSpaceExecutor: the session is in the space the meta service named.
SwitchSpace(r) ==
    /\ Answered(r, {"use"})
    /\ space' = [space EXCEPT ![req[r].by] = [name |-> Statement(req[r]).name, id |-> req[r].target]]
    /\ Continue(r)
    /\ UNCHANGED <<nameOf, alive, cache, shared, gone>>

\* Mutant: the session stays in the space.
DropSpaceKeeps(r) ==
    /\ Answered(r, {"drop space"})
    /\ gone' = [gone EXCEPT ![req[r].by] = @ \cup ({req[r].target} \ {kInvalidSpaceID})]
    /\ Continue(r)
    /\ UNCHANGED <<nameOf, alive, cache, space, shared>>

\* DropSpaceExecutor: the session leaves the space if it was in it.
DropSpace(r) ==
    LET s == req[r].by
    IN  /\ Answered(r, {"drop space"})
        /\ space' = IF space[s].name = Statement(req[r]).name
                    THEN [space EXCEPT ![s] = NoSpace] ELSE space
        /\ gone' = [gone EXCEPT ![s] = @ \cup ({req[r].target} \ {kInvalidSpaceID})]
        /\ Continue(r)
        /\ UNCHANGED <<nameOf, alive, cache, shared>>

\* The other executors only look at the status.
Succeed(r) ==
    /\ Answered(r, {"create space"} \cup ObjectOps)
    /\ Continue(r)
    /\ UNCHANGED <<nameOf, alive, cache, space, shared, gone>>

\* An error ends the request; the statements after it are not executed.
Fail(r) ==
    /\ req[r].phase = "answered"
    /\ ~req[r].ok
    /\ req' = [req EXCEPT ![r].phase = "failed"]
    /\ UNCHANGED <<nameOf, alive, cache, space, shared, gone>>

\* The client is told of the error.
Report(r) ==
    /\ req[r].phase = "failed"
    /\ req' = [req EXCEPT ![r] = Idle]
    /\ UNCHANGED <<nameOf, alive, cache, space, shared, gone>>

Next ==
    \/ LoadCache
    \/ \E r \in Requests :
          \/ \E s \in Sessions, t \in Texts : Submit(r, s, t)
          \/ ValidateUse(r) \/ ValidateCreateSpace(r) \/ ValidateDropSpace(r)
          \/ ValidateObject(r) \/ ValidateFails(r)
          \/ Call(r)
          \/ MetaCreateSpace(r) \/ MetaDropSpace(r) \/ MetaGetSpace(r) \/ MetaObject(r)
          \/ CallFails(r)
          \/ SwitchSpace(r) \/ DropSpace(r) \/ Succeed(r) \/ Fail(r) \/ Report(r)

Spec == Init /\ [][Next]_vars

-----------------------------------------------------------------------------
(***************************************************************************)
(* A statement on a tag, an edge type or an index never reaches a space    *)
(* other than that of the USE before it, or else that of the session,      *)
(* whatever other requests drop, create or switch to and however old the   *)
(* schema cache is.  An ALTER is safe always, because it is planned with a *)
(* space id; the others look at the current space of the session when they *)
(* are executed, and are safe as long as the session never had two         *)
(* requests under way at once.                                             *)
(***************************************************************************)
RightSpace ==
    \A r \in Requests :
        LET q == req[r]
        IN  q.phase = "called" /\ Statement(q).op \in ObjectOps /\ q.target # kInvalidSpaceID
                /\ (Statement(q).op = "alter" \/ q.by \notin shared)
                => nameOf[q.target] = q.wanted[q.at]

(***************************************************************************)
(* What ValidateContext tracks across the statements of a request is what  *)
(* executing them brings about: a request that was validated against an up *)
(* to date cache, and with which nobody interferes, does not fail halfway, *)
(* also if it uses spaces that it creates itself.  This is about           *)
(* statements that do not depend on what exists already.                   *)
(***************************************************************************)
Dependable(st) ==
    st.op \in SessionOps \cup {"use"} \/ (st.op = "create space" /\ st.lenient)
RunsAsValidated ==
    \A r \in Requests :
        req[r].phase = "failed" /\ req[r].calm
            => \E k \in DOMAIN req[r].text : ~Dependable(req[r].text[k])

(***************************************************************************)
(* A session does not stay in a space that it has dropped itself, however  *)
(* the space was dropped, created again and entered by others, unless two  *)
(* of its requests overlapped (DropSpaceExecutor compares names, not ids). *)
(***************************************************************************)
OwnDropForgotten ==
    \A s \in Sessions \ shared : space[s].id \notin gone[s]
=============================================================================
