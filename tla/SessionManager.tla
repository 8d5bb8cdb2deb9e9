--------------------------- MODULE SessionManager ---------------------------
(***************************************************************************)
(* Client sessions (src/src/service: SessionManager, Session,              *)
(* GraphService, RequestContext).                                          *)
(*                                                                         *)
(* A session object is shared: activeSessions_ holds it under its id, and  *)
(* every request under way holds it too (std::shared_ptr), so an object    *)
(* outlives its removal from the map.  Objects are numbered in the order   *)
(* in which they are created; an id may come back once the 64-bit counter  *)
(* has wrapped around.  Requests are handled on several threads, and a     *)
(* scavenger thread removes the sessions that have expired.                *)
(***************************************************************************)
EXTENDS Integers, FiniteSets

CONSTANTS
    IdSpace,      \* how many values nextId_ has (2^64 in the code)
    MaxSessions,  \* bound: how many sessions are created
    Timeout,      \* FLAGS_session_idle_timeout_secs, 0 for never
    Requests      \* requests that may be under way at the same time

ASSUME SessionAssumption ==
    /\ IdSpace \in Nat /\ IdSpace > 2
    /\ MaxSessions \in Nat
    /\ Timeout \in Nat

Ids == 0 .. IdSpace - 1
Objects == 1 .. MaxSessions
NoObject == 0

VARIABLES
    nextId,    \* SessionManager::nextId_
    active,    \* SessionManager::activeSessions_: the object under each id
    created,   \* how many session objects there have been
    idOf,      \* Session::id_
    idle,      \* Session::idleDuration_, in seconds, no further than Timeout
    handed,    \* the sessions whose ids were sent to clients
    stage,     \* what each request is doing
    holds      \* the session each RequestContext holds

vars == <<nextId, active, created, idOf, idle, handed, stage, holds>>

\* Every variable has its type.
TypeOK ==
    /\ nextId \in Ids
    /\ active \in [Ids -> Objects \cup {NoObject}]
    /\ created \in 0 .. MaxSessions
    /\ idOf \in [Objects -> Ids]
    /\ idle \in [Objects -> 0 .. Timeout]
    /\ handed \subseteq Objects
    /\ stage \in [Requests -> {"free", "auth", "found", "execute"}]
    /\ holds \in [Requests -> Objects \cup {NoObject}]

Init ==
    /\ nextId = 0
    /\ active = [i \in Ids |-> NoObject]
    /\ created = 0
    /\ idOf = [o \in Objects |-> 0]
    /\ idle = [o \in Objects |-> 0]
    /\ handed = {}
    /\ stage = [r \in Requests |-> "free"]
    /\ holds = [r \in Requests |-> NoObject]

IsActive(o) == active[idOf[o]] = o
Active == {o \in 1 .. created : IsActive(o)}

\* Mutants: ids in use are not skipped; zero is not skipped.
IsFreeAny(i) == i # 0
IsFreeZero(i) == active[i] = NoObject

\* newSessionId skips zero, and createSession the ids that are in use.
IsFree(i) == i # 0 /\ active[i] = NoObject

\* Mutant: the lowest free id is taken.
LowestFreeId == CHOOSE i \in Ids : IsFree(i) /\ \A j \in Ids : IsFree(j) => i <= j

\* The first free id after nextId_, which wraps around.
FreshId ==
    LET After(i) == IF i > nextId THEN i - nextId ELSE i - nextId + IdSpace
    IN  CHOOSE i \in Ids : IsFree(i) /\ \A j \in Ids : IsFree(j) => After(i) <= After(j)

Enter(r, o, s) ==
    /\ stage' = [stage EXCEPT ![r] = s]
    /\ holds' = [holds EXCEPT ![r] = o]

Leave(r) == Enter(r, NoObject, "free")

\* Session::charge
Charge(o) == idle' = [idle EXCEPT ![o] = 0]

\* future_authenticate: the session exists before the user is known to be good.
\* (With every id in use createSession would search forever.)
CreateSession(r) ==
    /\ stage[r] = "free"
    /\ created < MaxSessions
    /\ \E i \in Ids : IsFree(i)
    /\ created' = created + 1
    /\ nextId' = FreshId
    /\ idOf' = [idOf EXCEPT ![created + 1] = FreshId]
    /\ active' = [active EXCEPT ![FreshId] = created + 1]
    /\ Charge(created + 1)
    /\ Enter(r, created + 1, "auth")
    /\ UNCHANGED handed

\* onHandle(SUCCEEDED): the id is sent and the RequestContext is destroyed.
Accept(r) ==
    /\ stage[r] = "auth"
    /\ handed' = handed \cup {holds[r]}
    /\ Charge(holds[r])
    /\ Leave(r)
    /\ UNCHANGED <<nextId, active, created, idOf>>

\* Mutant: the session of a refused user is kept.
RejectKeeps(r) ==
    /\ stage[r] = "auth"
    /\ Charge(holds[r])
    /\ Leave(r)
    /\ UNCHANGED <<nextId, active, created, idOf, handed>>

\* onHandle(E_BAD_USERNAME_PASSWORD): removeSession takes whatever has this id.
Reject(r) ==
    /\ stage[r] = "auth"
    /\ active' = [active EXCEPT ![idOf[holds[r]]] = NoObject]
    /\ Charge(holds[r])
    /\ Leave(r)
    /\ UNCHANGED <<nextId, created, idOf, handed>>

\* future_execute with an id that some client was given: findSession.  An id
\* that is not active is refused at once.
FindSession(r, o) ==
    /\ stage[r] = "free"
    /\ o \in handed
    /\ active[idOf[o]] # NoObject
    /\ Enter(r, active[idOf[o]], "found")
    /\ UNCHANGED <<nextId, active, created, idOf, idle, handed>>

\* RequestContext::setSession, after the lock of findSession is released.
SetSession(r) ==
    /\ stage[r] = "found"
    /\ Charge(holds[r])
    /\ Enter(r, holds[r], "execute")
    /\ UNCHANGED <<nextId, active, created, idOf, handed>>

\* The query is answered and its RequestContext destroyed.
Finish(r) ==
    /\ stage[r] = "execute"
    /\ Charge(holds[r])
    /\ Leave(r)
    /\ UNCHANGED <<nextId, active, created, idOf, handed>>

\* signout, with an id that some client was given.
Signout(o) ==
    /\ o \in handed
    /\ active' = [active EXCEPT ![idOf[o]] = NoObject]
    /\ UNCHANGED <<nextId, created, idOf, idle, handed, stage, holds>>

Expired(o) == idle[o] >= Timeout

\* Mutant: the scan stops at the first session that has not expired.
ReclaimFirst ==
    /\ Timeout # 0
    /\ active' = [i \in Ids |->
                    IF \A j \in 0 .. i : active[j] # NoObject => Expired(active[j])
                    THEN NoObject ELSE active[i]]
    /\ UNCHANGED <<nextId, created, idOf, idle, handed, stage, holds>>

\* reclaimExpiredSessions
Reclaim ==
    /\ Timeout # 0
    /\ active' = [i \in Ids |-> IF active[i] # NoObject /\ Expired(active[i])
                                THEN NoObject ELSE active[i]]
    /\ UNCHANGED <<nextId, created, idOf, idle, handed, stage, holds>>

\* A second passes.
Tick ==
    /\ idle' = [o \in Objects |-> IF o <= created /\ idle[o] < Timeout
                                  THEN idle[o] + 1 ELSE idle[o]]
    /\ UNCHANGED <<nextId, active, created, idOf, handed, stage, holds>>

Handle(r) ==
    \/ CreateSession(r)
    \/ Accept(r)
    \/ Reject(r)
    \/ \E o \in Objects : FindSession(r, o)
    \/ SetSession(r)
    \/ Finish(r)

Next ==
    \/ Reclaim
    \/ Tick
    \/ \E r \in Requests : Handle(r)
    \/ \E o \in Objects : Signout(o)

Spec == Init /\ [][Next]_vars

(***************************************************************************)
(* Time passes and the scavenger runs, as addRepeatTask arranges; a        *)
(* request that was accepted is eventually answered.                       *)
(***************************************************************************)
FairSpec ==
    /\ Spec
    /\ WF_vars(Tick)
    /\ WF_vars(Reclaim)
    /\ \A r \in Requests : WF_vars(Accept(r) \/ Reject(r) \/ SetSession(r) \/ Finish(r))

-----------------------------------------------------------------------------
(***************************************************************************)
(* The session found under an id is the one for which the id was handed    *)
(* out: nobody gets the session of somebody else, whatever expired or was  *)
(* signed out in between.  The 64-bit ids must not have been used up.      *)
(***************************************************************************)
IdsDenoteOneSession ==
    created < IdSpace => \A o \in 1 .. created : active[idOf[o]] \in {o, NoObject}

(***************************************************************************)
(* Even after the counter has wrapped around, the ids of the active        *)
(* sessions are theirs alone, and none of them is the id zero that clients *)
(* use to ping: createSession never takes the id of an active session.     *)
(***************************************************************************)
ActiveIdsSound ==
    /\ active[0] = NoObject
    /\ \A i \in Ids : active[i] # NoObject => active[i] \in 1 .. created /\ idOf[active[i]] = i

(***************************************************************************)
(* A session stays in activeSessions_ only on behalf of a client that      *)
(* knows its id or is about to learn it: onHandle leaves nothing behind of *)
(* an authentication that failed.                                          *)
(***************************************************************************)
NoOrphans ==
    created < IdSpace =>
        \A o \in Active : o \in handed \/ \E r \in Requests : stage[r] = "auth" /\ holds[r] = o

(***************************************************************************)
(* Why the above hold.  Until the counter wraps around the n-th session    *)
(* gets the id n, and only sessions that were created are handed out, held *)
(* or active.                                                              *)
(***************************************************************************)
IdsInOrder == created < IdSpace => nextId = created /\ \A o \in 1 .. created : idOf[o] = o

HeldWasCreated ==
    /\ handed \subseteq 1 .. created
    /\ \A r \in Requests : stage[r] # "free" => holds[r] \in 1 .. created

IInv == TypeOK /\ ActiveIdsSound /\ IdsInOrder /\ HeldWasCreated /\ NoOrphans

\* A step that puts a new object under an id takes a free id: a session is
\* never overwritten by another one.
NeverOverwritten ==
    [][\A i \in Ids : active[i] # NoObject => active'[i] \in {active[i], NoObject}]_vars

(***************************************************************************)
(* A session that no request uses any more is removed in the end.          *)
(***************************************************************************)
Using(o) == \E r \in Requests : holds[r] = o
AbandonedIsReclaimed ==
    Timeout # 0 => \A o \in Objects : <>[](o <= created /\ ~Using(o)) => <>[]~IsActive(o)

(***************************************************************************)
(* GraphFlags.cpp:14-16 has idle sessions expire, and RequestContext keeps *)
(* "the session active": a session whose query is under way, and which was *)
(* active when it started, is not taken away by the scavenger.             *)
(***************************************************************************)
BusySessionKept ==
    [][\A r \in Requests :
          Reclaim /\ stage[r] = "execute" /\ IsActive(holds[r])
              => active'[idOf[holds[r]]] = holds[r]]_vars
=============================================================================
