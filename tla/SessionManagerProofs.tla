------------------------ MODULE SessionManagerProofs ------------------------
(***************************************************************************)
(* Proofs about sessions, for every number of ids, sessions and requests.  *)
(***************************************************************************)
EXTENDS SessionManager, WellFoundedInduction, TLAPS

USE SessionAssumption

\* A set of numbers that is not empty has a smallest element.
LEMMA Smallest ==
    ASSUME NEW T, T \subseteq Nat, T # {}
    PROVE  \E n \in T : \A k \in T : n <= k
<1>1. \E n \in T : \A k \in T : ~(<<k, n>> \in OpToRel(<, Nat))
  BY NatLessThanWellFounded, WFMin
<1>2. PICK n \in T : \A k \in T : ~(k < n)
  BY <1>1 DEF OpToRel
<1> QED BY <1>2

\* newSessionId and the loop of createSession find the first free id after
\* nextId_; if the id after nextId_ is free, it is the one.
LEMMA FreshIdFound ==
    ASSUME nextId \in Ids, \E i \in Ids : IsFree(i)
    PROVE  /\ FreshId \in Ids /\ IsFree(FreshId)
           /\ nextId + 1 \in Ids /\ IsFree(nextId + 1) => FreshId = nextId + 1
<1> DEFINE After(i) == IF i > nextId THEN i - nextId ELSE i - nextId + IdSpace
           T == {After(i) : i \in {j \in Ids : IsFree(j)}}
<1>1. \A i \in Ids : After(i) \in Nat /\ After(i) >= 1
  BY DEF Ids
<1>2. T \subseteq Nat /\ T # {}
  BY <1>1
<1>3. PICK n \in T : \A k \in T : n <= k
  <2> HIDE DEF T
  <2> QED BY <1>2, Smallest
<1>4. \E i \in Ids : IsFree(i) /\ \A j \in Ids : IsFree(j) => After(i) <= After(j)
  BY <1>3
<1>5. FreshId \in Ids /\ IsFree(FreshId) /\ \A j \in Ids : IsFree(j) => After(FreshId) <= After(j)
  <2> HIDE DEF After
  <2>1. FreshId = CHOOSE i \in Ids : IsFree(i) /\ \A j \in Ids : IsFree(j) => After(i) <= After(j)
    BY DEF FreshId, After
  <2> QED BY <1>4, <2>1
<1>6. ASSUME nextId + 1 \in Ids, IsFree(nextId + 1) PROVE FreshId = nextId + 1
  <2>1. After(nextId + 1) = 1
    BY <1>6 DEF Ids
  <2>2. After(FreshId) <= 1
    BY <1>5, <1>6, <2>1
  <2> QED BY <1>1, <1>5, <1>6, <2>2 DEF Ids
<1> QED BY <1>5, <1>6

-----------------------------------------------------------------------------
LEMMA TypeInit == Init => TypeOK
  BY DEF Init, TypeOK, Ids, Objects, NoObject

LEMMA TypeStep == IInv /\ [Next]_vars => TypeOK'
<1> SUFFICES ASSUME IInv, [Next]_vars PROVE TypeOK'
  OBVIOUS
<1> USE DEF IInv, TypeOK, Enter, Leave, Charge
<1>a. 1 .. created \subseteq Objects
  BY DEF Objects
<1>b. \A r \in Requests : stage[r] # "free" => holds[r] \in Objects
  BY <1>a DEF HeldWasCreated
<1>1. ASSUME NEW r \in Requests, CreateSession(r) PROVE TypeOK'
  <2>1. FreshId \in Ids /\ created + 1 \in Objects /\ created + 1 \in 0 .. MaxSessions
    BY <1>1, FreshIdFound DEF CreateSession, Objects
  <2> QED BY <1>1, <2>1 DEF CreateSession
<1>2. ASSUME NEW r \in Requests, Accept(r) \/ Reject(r) \/ SetSession(r) \/ Finish(r) PROVE TypeOK'
  BY <1>2, <1>b DEF Accept, Reject, SetSession, Finish
<1>3. ASSUME NEW r \in Requests, NEW o \in Objects, FindSession(r, o) PROVE TypeOK'
  BY <1>3 DEF FindSession
<1>4. ASSUME NEW o \in Objects, Signout(o) PROVE TypeOK'
  BY <1>4 DEF Signout
<1>5. CASE Reclaim
  BY <1>5 DEF Reclaim
<1>6. CASE Tick
  BY <1>6 DEF Tick
<1>7. CASE UNCHANGED vars
  BY <1>7 DEF vars
<1> QED BY <1>1, <1>2, <1>3, <1>4, <1>5, <1>6, <1>7 DEF Next, Handle

\* The id of a new session: free, not zero, and in order as long as the counter
\* has not wrapped around.
LEMMA NewId ==
    ASSUME IInv, NEW r \in Requests, CreateSession(r)
    PROVE  /\ FreshId \in Ids /\ FreshId # 0 /\ active[FreshId] = NoObject
           /\ created + 1 < IdSpace => FreshId = created + 1
<1> USE DEF IInv, TypeOK
<1>1. FreshId \in Ids /\ IsFree(FreshId)
      /\ (nextId + 1 \in Ids /\ IsFree(nextId + 1) => FreshId = nextId + 1)
  BY FreshIdFound DEF CreateSession
<1>2. ASSUME created + 1 < IdSpace PROVE FreshId = created + 1
  <2>1. nextId = created /\ created + 1 \in Ids
    BY <1>2 DEF IdsInOrder, Ids
  <2>2. active[created + 1] = NoObject
    BY <1>2, <2>1 DEF ActiveIdsSound, IdsInOrder
  <2> QED BY <1>1, <2>1, <2>2 DEF IsFree
<1> QED BY <1>1, <1>2 DEF IsFree

LEMMA ActiveStep == IInv /\ [Next]_vars => ActiveIdsSound'
<1> SUFFICES ASSUME IInv, [Next]_vars PROVE ActiveIdsSound'
  OBVIOUS
<1> USE DEF IInv, TypeOK, ActiveIdsSound
<1>1. ASSUME NEW r \in Requests, CreateSession(r) PROVE ActiveIdsSound'
  <2>1. /\ FreshId \in Ids /\ FreshId # 0
        /\ created' = created + 1
        /\ idOf' = [idOf EXCEPT ![created + 1] = FreshId]
        /\ active' = [active EXCEPT ![FreshId] = created + 1]
        /\ created + 1 \in Objects
    BY <1>1, NewId DEF CreateSession, Objects
  <2>2. active'[0] = NoObject
    BY <2>1 DEF Ids
  <2>3. ASSUME NEW i \in Ids, active'[i] # NoObject
        PROVE  active'[i] \in 1 .. created' /\ idOf'[active'[i]] = i
    <3>1. CASE i = FreshId
      BY <2>1, <3>1
    <3>2. CASE i # FreshId
      BY <2>1, <2>3, <3>2
    <3> QED BY <3>1, <3>2
  <2> QED BY <2>2, <2>3
<1>2. ASSUME NEW r \in Requests, Reject(r) PROVE ActiveIdsSound'
  BY <1>2 DEF Reject
<1>3. ASSUME NEW o \in Objects, Signout(o) PROVE ActiveIdsSound'
  BY <1>3 DEF Signout
<1>4. CASE Reclaim
  <2>1. \A i \in Ids : active'[i] \in {active[i], NoObject}
    BY <1>4 DEF Reclaim
  <2>2. created' = created /\ idOf' = idOf /\ 0 \in Ids
    BY <1>4 DEF Reclaim, Ids
  <2> QED BY <2>1, <2>2
<1>5. ASSUME UNCHANGED <<active, created, idOf>> PROVE ActiveIdsSound'
  BY <1>5
<1> QED BY <1>1, <1>2, <1>3, <1>4, <1>5
        DEF Next, Handle, Accept, FindSession, SetSession, Finish, Tick, vars

LEMMA OrderStep == IInv /\ [Next]_vars => IdsInOrder'
<1> SUFFICES ASSUME IInv, [Next]_vars PROVE IdsInOrder'
  OBVIOUS
<1> USE DEF IInv, TypeOK, IdsInOrder
<1>1. ASSUME NEW r \in Requests, CreateSession(r) PROVE IdsInOrder'
  <2>1. /\ created + 1 < IdSpace => FreshId = created + 1
        /\ created' = created + 1 /\ nextId' = FreshId
        /\ idOf' = [idOf EXCEPT ![created + 1] = FreshId]
        /\ created + 1 \in Objects
    BY <1>1, NewId DEF CreateSession, Objects
  <2> QED BY <2>1 DEF Objects
<1>2. ASSUME UNCHANGED <<nextId, created, idOf>> PROVE IdsInOrder'
  BY <1>2
<1> QED BY <1>1, <1>2
        DEF Next, Handle, Accept, Reject, FindSession, SetSession, Finish, Signout, Reclaim, Tick, vars

LEMMA HeldStep == IInv /\ [Next]_vars => HeldWasCreated'
<1> SUFFICES ASSUME IInv, [Next]_vars PROVE HeldWasCreated'
  OBVIOUS
<1> USE DEF IInv, TypeOK, HeldWasCreated, Enter, Leave
<1>1. ASSUME NEW r \in Requests, CreateSession(r) PROVE HeldWasCreated'
  BY <1>1 DEF CreateSession
<1>2. ASSUME NEW r \in Requests, Accept(r) \/ Reject(r) \/ SetSession(r) \/ Finish(r)
      PROVE  HeldWasCreated'
  BY <1>2 DEF Accept, Reject, SetSession, Finish
<1>3. ASSUME NEW r \in Requests, NEW o \in Objects, FindSession(r, o) PROVE HeldWasCreated'
  BY <1>3 DEF FindSession, ActiveIdsSound
<1>4. ASSUME UNCHANGED <<created, handed, stage, holds>> PROVE HeldWasCreated'
  BY <1>4
<1> QED BY <1>1, <1>2, <1>3, <1>4 DEF Next, Handle, Signout, Reclaim, Tick, vars

LEMMA OrphanStep == IInv /\ [Next]_vars => NoOrphans'
<1> SUFFICES ASSUME IInv, [Next]_vars, created' < IdSpace,
                    NEW o \in 1 .. created', active'[idOf'[o]] = o
             PROVE  o \in handed' \/ \E r \in Requests : stage'[r] = "auth" /\ holds'[r] = o
  BY DEF NoOrphans, Active, IsActive
<1> DEFINE Owned == o \in handed' \/ \E r \in Requests : stage'[r] = "auth" /\ holds'[r] = o
<1> USE DEF IInv, TypeOK, Enter, Leave
<1>a. ASSUME created' = created, idOf' = idOf, \A i \in Ids : active'[i] \in {active[i], NoObject}
      PROVE  o \in handed \/ \E r \in Requests : stage[r] = "auth" /\ holds[r] = o
  <2>1. o \in Objects /\ o # NoObject
    BY <1>a DEF Objects, NoObject
  <2> QED BY <1>a, <2>1 DEF NoOrphans, Active, IsActive
<1>1. ASSUME NEW r \in Requests, CreateSession(r) PROVE Owned
  <2>1. CASE o = created + 1
    BY <1>1, <2>1 DEF CreateSession
  <2>2. CASE o # created + 1
    <3>1. o \in 1 .. created /\ created < IdSpace /\ o \in Objects
      BY <1>1, <2>2 DEF CreateSession, Objects
    <3>2. idOf'[o] = idOf[o] /\ active[idOf[o]] = o
      BY <1>1, <2>2, <3>1, NewId DEF CreateSession
    <3>3. o \in handed \/ \E q \in Requests : stage[q] = "auth" /\ holds[q] = o
      BY <3>1, <3>2 DEF NoOrphans, Active, IsActive
    <3> QED BY <1>1, <3>3 DEF CreateSession
  <2> QED BY <2>1, <2>2
<1>2. ASSUME NEW r \in Requests, Accept(r) PROVE Owned
  BY <1>2, <1>a DEF Accept
<1>3. ASSUME NEW r \in Requests, Reject(r) PROVE Owned
  <2>1. o \in handed \/ \E q \in Requests : stage[q] = "auth" /\ holds[q] = o
    BY <1>3, <1>a DEF Reject
  <2>2. o # holds[r]
    <3>1. holds[r] \in 1 .. created /\ idOf[holds[r]] \in Ids /\ holds[r] # NoObject
      BY <1>3 DEF Reject, HeldWasCreated, Objects, NoObject
    <3>2. active'[idOf[holds[r]]] = NoObject /\ idOf' = idOf
      BY <1>3, <3>1 DEF Reject
    <3> QED BY <3>1, <3>2
  <2> QED BY <1>3, <2>1, <2>2 DEF Reject
<1>4. ASSUME NEW r \in Requests, SetSession(r) \/ Finish(r) PROVE Owned
  BY <1>4, <1>a DEF SetSession, Finish
<1>5. ASSUME NEW r \in Requests, NEW q \in Objects, FindSession(r, q) PROVE Owned
  BY <1>5, <1>a DEF FindSession
<1>6. ASSUME NEW q \in Objects, Signout(q) PROVE Owned
  BY <1>6, <1>a DEF Signout
<1>7. CASE Reclaim
  BY <1>7, <1>a DEF Reclaim
<1>8. CASE Tick \/ UNCHANGED vars
  BY <1>8, <1>a DEF Tick, vars
<1> QED BY <1>1, <1>2, <1>3, <1>4, <1>5, <1>6, <1>7, <1>8 DEF Next, Handle

-----------------------------------------------------------------------------
\* The inductive invariant of the session manager, behind all that follows.
THEOREM Invariance == Spec => []IInv
<1>1. Init => IInv
  <2> SUFFICES ASSUME Init PROVE IInv
    OBVIOUS
  <2>1. TypeOK
    BY TypeInit
  <2>2. ActiveIdsSound /\ IdsInOrder /\ HeldWasCreated /\ NoOrphans
    BY DEF Init, ActiveIdsSound, IdsInOrder, HeldWasCreated, NoOrphans, Active, Ids
  <2> QED BY <2>1, <2>2 DEF IInv
<1>2. IInv /\ [Next]_vars => IInv'
  BY TypeStep, ActiveStep, OrderStep, HeldStep, OrphanStep DEF IInv
<1> QED BY <1>1, <1>2, PTL DEF Spec

\* Every variable of the session manager keeps its type.
THEOREM TypeCorrect == Spec => []TypeOK
<1>1. IInv => TypeOK
  BY DEF IInv
<1> QED BY Invariance, <1>1, PTL

\* createSession and removeSession keep the ids of the active sessions distinct
\* and different from zero, also after nextId_ has wrapped around.
THEOREM ActiveIds == Spec => []ActiveIdsSound
<1>1. IInv => ActiveIdsSound
  BY DEF IInv
<1> QED BY Invariance, <1>1, PTL

\* Until the ids are used up, findSession returns the session that its id was
\* handed out for, or nothing.
THEOREM OneSession == Spec => []IdsDenoteOneSession
<1>1. IInv => IdsDenoteOneSession
  <2> SUFFICES ASSUME IInv, created < IdSpace, NEW o \in 1 .. created
               PROVE  active[idOf[o]] \in {o, NoObject}
    BY DEF IdsDenoteOneSession
  <2>1. idOf[o] = o /\ o \in Ids
    BY DEF IInv, TypeOK, IdsInOrder, Ids
  <2>2. active[o] # NoObject => active[o] \in 1 .. created /\ idOf[active[o]] = o
    BY <2>1 DEF IInv, ActiveIdsSound
  <2> QED BY <2>1, <2>2 DEF IInv, IdsInOrder
<1> QED BY Invariance, <1>1, PTL

\* onHandle leaves no session behind that no client knows.
THEOREM Orphans == Spec => []NoOrphans
<1>1. IInv => NoOrphans
  BY DEF IInv
<1> QED BY Invariance, <1>1, PTL

\* createSession puts a session under a free id only.
THEOREM Overwriting == Spec => NeverOverwritten
<1>1. IInv /\ [Next]_vars
      => [\A i \in Ids : active[i] # NoObject => active'[i] \in {active[i], NoObject}]_vars
  <2> SUFFICES ASSUME IInv, Next, NEW i \in Ids, active[i] # NoObject
               PROVE  active'[i] \in {active[i], NoObject}
    OBVIOUS
  <2> USE DEF IInv, TypeOK
  <2>1. ASSUME NEW r \in Requests, CreateSession(r) PROVE active'[i] = active[i]
    BY <2>1, NewId DEF CreateSession
  <2>2. ASSUME NEW r \in Requests, Reject(r) PROVE active'[i] \in {active[i], NoObject}
    BY <2>2 DEF Reject
  <2>3. ASSUME NEW o \in Objects, Signout(o) PROVE active'[i] \in {active[i], NoObject}
    BY <2>3 DEF Signout
  <2>4. CASE Reclaim
    BY <2>4 DEF Reclaim
  <2> QED BY <2>1, <2>2, <2>3, <2>4 DEF Next, Handle, Accept, FindSession, SetSession, Finish, Tick
<1> QED BY Invariance, <1>1, PTL DEF Spec, NeverOverwritten
=============================================================================
