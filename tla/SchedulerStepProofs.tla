------------------------ MODULE SchedulerStepProofs -------------------------
(***************************************************************************)
(* Proofs about the scheduler, for every plan that satisfies the           *)
(* assumptions of module Scheduler: its types, facts about the plan, what  *)
(* a step does to the runs and the futures, and that futures, their        *)
(* holders and the rounds of loops stay consistent.                        *)
(***************************************************************************)
EXTENDS Scheduler, FiniteSetTheorems, WellFoundedInduction, TLAPS

USE PlanAssumption

\* Facts about the edges of a plan.
LEMMA EdgeFacts ==
    /\ \A c \in Callers : \A e \in Executors : <<c, e>> \in Edges <=> c \in CallersOf(e)
    /\ \A ce \in Edges : ce = <<ce[1], ce[2]>> /\ ce[1] \in Callers /\ ce[2] \in Executors
    /\ \A c \in Executors : \A e \in Deps[c] \cup Bodies[c] : e \in Executors /\ <<c, e>> \in Edges
    /\ <<QueryInst, Root>> \in Edges
  BY DEF Edges, Callers, CallersOf, Successors

\* A non-empty set of executors has one that is nearest to the root.
LEMMA Nearest ==
    ASSUME NEW T, T \subseteq Executors, T # {}
    PROVE  \E x \in T : \A y \in T : ~(Depth[y] < Depth[x])
<1> DEFINE D == {Depth[x] : x \in T}
<1>1. D \subseteq Nat /\ D # {}
  BY AcyclicAssumption
<1>2. \E n \in D : \A k \in D : ~(<<k, n>> \in OpToRel(<, Nat))
  <2> HIDE DEF D
  <2> QED BY <1>1, NatLessThanWellFounded, WFMin, Zenon
<1>3. PICK n \in D : \A k \in D : ~(k < n)
  BY <1>1, <1>2, Zenon DEF OpToRel
<1> QED BY <1>3

\* The states of futures and of runs.
LEMMA States ==
    /\ {"none", "called", "entered", "pending", "ok", "err", "exc"} = FutureStates
    /\ {"idle", "calling", "deps", "exec", "body"} = RunStates
    /\ Bad = {"err", "exc"} /\ Resolved = {"ok", "err", "exc"}
  BY DEF FutureStates, RunStates, Resolved, Bad

LEMMA NonEmpty == ASSUME NEW S, Cardinality(S) > 0 PROVE S # {}
<1>1. Cardinality({}) = 0
  BY FS_EmptySet
<1> QED BY <1>1

LEMMA SuccessorCount == \A e \in Executors : Cardinality(Successors(e)) \in Int
  BY FS_Subset, FS_CardinalityType DEF Successors

LEMMA Increment ==
    \A f \in [Executors -> Nat] : \A e \in Executors :
        [f EXCEPT ![e] = @ + 1] \in [Executors -> Nat]
  OBVIOUS

LEMMA TypeInit == Init => TypeOK
  BY SuccessorCount, States DEF Init, TypeOK, Callers

LEMMA TypeStep == TypeOK /\ [Next]_vars => TypeOK'
<1> SUFFICES ASSUME TypeOK, [Next]_vars PROVE TypeOK'
  OBVIOUS
<1> USE DEF TypeOK
<1>a. \A e \in Executors : CallersOf(e) \subseteq Callers
  BY DEF CallersOf, Callers, Successors
<1>b. /\ \A s \in {"none", "called", "entered", "pending", "ok", "err", "exc"} : s \in FutureStates
      /\ \A s \in {"idle", "calling", "deps", "exec", "body"} : s \in RunStates
  BY States
<1>1. ASSUME NEW e \in Executors, NEW c \in CallersOf(e), DoSchedule(c, e)
      PROVE  TypeOK'
  <2>1. pc' \in [Executors -> RunStates]
    BY <1>1, <1>b DEF DoSchedule, CallDeps
  <2>2. fut' \in [Edges -> FutureStates]
    BY <1>1, <1>b DEF DoSchedule, CallDeps
  <2>3. owner' \in [Executors -> Callers] /\ round' \in [Executors -> Nat]
    BY <1>1, <1>a, Increment DEF DoSchedule, Begin
  <2> QED BY <1>1, <2>1, <2>2, <2>3 DEF DoSchedule
<1>2. ASSUME NEW e \in Executors, NEW c \in CallersOf(e), DoSchedulePassThrough(c, e)
      PROVE  TypeOK'
  <2>1. Remaining(e) \in Int
    BY SuccessorCount DEF Remaining
  <2>2. Promise(e) \in {"unset", "ok", "err"}
    BY DEF Promise
  <2>3. pc' \in [Executors -> RunStates] /\ owner' \in [Executors -> Callers] /\ round' \in [Executors -> Nat]
    BY <1>2, <1>a, <1>b DEF DoSchedulePassThrough, Begin, CallDeps
  <2>4. fut' \in [Edges -> FutureStates]
    BY <1>2, <1>b, <2>2 DEF DoSchedulePassThrough, CallDeps
  <2> QED BY <1>2, <2>1, <2>2, <2>3, <2>4, Zenon DEF DoSchedulePassThrough
<1>3. ASSUME NEW e \in Executors, Returned(e) PROVE TypeOK'
  BY <1>3, <1>b, Zenon DEF Returned
<1>4. ASSUME NEW e \in Executors, DependencyThrows(e) PROVE TypeOK'
  BY <1>4, <1>b, Zenon DEF DependencyThrows, Finish
<1>5. ASSUME NEW e \in Executors, DependencyFails(e) PROVE TypeOK'
  BY <1>5, <1>b DEF DependencyFails, Notify
<1>6. ASSUME NEW e \in Executors, Execute(e) PROVE TypeOK'
  BY <1>6, <1>b DEF Execute, Notify
<1>7. ASSUME NEW e \in Executors, ExecuteOK(e) PROVE TypeOK'
  <2>1. ver' \in [Executors -> Nat]
    BY <1>7, Increment DEF ExecuteOK, Executed
  <2>2. /\ pc' \in [Executors -> RunStates]
        /\ fut' \in [Edges -> FutureStates]
    BY <1>7, <1>b, Zenon DEF ExecuteOK, Finish
  <2> QED BY <1>7, <2>1, <2>2 DEF ExecuteOK, Executed
<1>8. ASSUME NEW e \in Executors, ExecuteFails(e) PROVE TypeOK'
  <2>1. PICK r \in Bad : Finish(e, r)
    BY <1>8 DEF ExecuteFails
  <2>2. /\ pc' \in [Executors -> RunStates]
        /\ fut' \in [Edges -> FutureStates]
    BY <2>1, <1>b, States, Zenon DEF Finish
  <2> QED BY <1>8, <2>2 DEF ExecuteFails
<1>9. ASSUME NEW e \in Executors, LoopExit(e) PROVE TypeOK'
  <2>1. ver' \in [Executors -> Nat]
    BY <1>9, Increment DEF LoopExit, Executed
  <2>2. /\ pc' \in [Executors -> RunStates]
        /\ fut' \in [Edges -> FutureStates]
    BY <1>9, <1>b, Zenon DEF LoopExit, Finish
  <2> QED BY <1>9, <2>1, <2>2 DEF LoopExit, Executed
<1>10. ASSUME NEW e \in Executors, NEW b \in Bodies[e], ScheduleBody(e, b) PROVE TypeOK'
  <2>1. ver' \in [Executors -> Nat]
    BY <1>10, Increment DEF ScheduleBody, Executed
  <2>2. /\ pc' \in [Executors -> RunStates]
        /\ fut' \in [Edges -> FutureStates]
    BY <1>10, <1>b, Zenon DEF ScheduleBody
  <2> QED BY <1>10, <2>1, <2>2 DEF ScheduleBody, Executed
<1>11. ASSUME NEW e \in Executors, NEW b \in Bodies[e], LoopBodyDone(e, b) PROVE TypeOK'
  <2>1. pc' \in [Executors -> RunStates]
    BY <1>11, <1>b DEF LoopBodyDone, Finish
  <2>2. fut' \in [Edges -> FutureStates]
    BY <1>11, <1>b DEF LoopBodyDone, Finish
  <2> QED BY <1>11, <2>1, <2>2 DEF LoopBodyDone
<1>12. ASSUME NEW e \in Executors, NEW b \in Bodies[e], SelectBodyDone(e, b) PROVE TypeOK'
  BY <1>12, <1>b, EdgeFacts DEF SelectBodyDone
<1>13. CASE OnFinish
  BY <1>13 DEF OnFinish
<1>14. CASE OnError
  BY <1>14 DEF OnError
<1>15. CASE UNCHANGED vars
  BY <1>15 DEF vars
<1> QED
  BY <1>1, <1>2, <1>3, <1>4, <1>5, <1>6, <1>7, <1>8, <1>9, <1>10, <1>11, <1>12,
     <1>13, <1>14, <1>15 DEF Next, Step

(***************************************************************************)
(* Every variable of the scheduler keeps its type in every behaviour.      *)
(***************************************************************************)
THEOREM TypeCorrect == Spec => []TypeOK
  BY TypeInit, TypeStep, PTL DEF Spec

-----------------------------------------------------------------------------
(***************************************************************************)
(* The shape of a plan.                                                    *)
(***************************************************************************)
\* The head of a block is its executor nearest to the root.
LEMMA Heads ==
    \A x \in Executors : Block[Block[x]] = Block[x] /\ ~(Depth[x] < Depth[Block[x]])
<1> SUFFICES ASSUME NEW x \in Executors
             PROVE  Block[Block[x]] = Block[x] /\ ~(Depth[x] < Depth[Block[x]])
  OBVIOUS
<1> DEFINE T == {y \in Executors : Block[y] = Block[x]}
<1>1. PICK m \in T : \A y \in T : ~(Depth[y] < Depth[m])
  BY Nearest, Zenon
<1>2. Successors(m) = {}
  BY <1>1, AcyclicAssumption, BlockAssumption DEF Successors
<1> QED BY <1>1, <1>2, BlockAssumption

\* Who calls an executor: its successors, or the one caller of its block.
LEMMA CallersFacts ==
    ASSUME NEW e \in Executors, NEW c \in CallersOf(e)
    PROVE  /\ c # e /\ c \in Callers /\ <<c, e>> \in Edges
           /\ Block[e] # e => c \in Executors /\ e \in Deps[c] /\ Block[c] = Block[e]
           /\ Block[e] = e => /\ c = QueryInst \/ (c \in Executors /\ e \in Bodies[c])
                              /\ \A other \in CallersOf(e) : other = c
           /\ Kind[e] # "passthrough" => \A other \in CallersOf(e) : other = c
           /\ Kind[e] = "passthrough" /\ Block[e] = e => c = QueryInst /\ e = Root
<1>1. c \in Callers /\ <<c, e>> \in Edges
  BY EdgeFacts DEF CallersOf, Callers, Successors
<1>2. c # e
  BY AcyclicAssumption DEF CallersOf, Successors
<1>3. Block[e] # e => c \in Executors /\ e \in Deps[c] /\ Block[c] = Block[e]
  BY BlockAssumption DEF CallersOf, Successors
<1>4. Block[e] = e => c = QueryInst \/ (c \in Executors /\ e \in Bodies[c])
  BY BlockAssumption DEF CallersOf, Successors
<1>5. Kind[e] # "passthrough" => \A other \in CallersOf(e) : other = c
  BY SharingAssumption
<1>6. Kind[e] = "passthrough" /\ Block[e] = e =>
          c = QueryInst /\ e = Root /\ \A other \in CallersOf(e) : other = c
  BY BlockAssumption, SharingAssumption DEF CallersOf, Successors
<1> QED BY <1>1, <1>2, <1>3, <1>4, <1>5, <1>6

\* Dependencies stay inside a block, a body is the head of its own.
LEMMA CalleeFacts ==
    ASSUME NEW c \in Executors
    PROVE  /\ \A d \in Deps[c] : /\ d \in Executors /\ c \in CallersOf(d) /\ <<c, d>> \in Edges
                                 /\ d # c /\ Block[d] # d /\ Block[d] = Block[c]
                                 /\ c \in Successors(d) /\ d \notin Bodies[c]
           /\ \A b \in Bodies[c] : /\ b \in Executors /\ c \in CallersOf(b) /\ <<c, b>> \in Edges
                                   /\ b # c /\ Block[b] = b /\ Block[c] # b
                                   /\ Kind[b] # "passthrough"
<1>1. \A d \in Deps[c] : d \in Executors /\ c \in CallersOf(d) /\ <<c, d>> \in Edges /\ d # c
  BY EdgeFacts, AcyclicAssumption DEF CallersOf, Successors
<1>2. \A d \in Deps[c] : c \in Successors(d) /\ Block[d] # d /\ Block[d] = Block[c]
  BY <1>1, BlockAssumption DEF Successors
<1>3. \A b \in Bodies[c] : b \in Executors /\ c \in CallersOf(b) /\ <<c, b>> \in Edges /\ b # c
  BY EdgeFacts, AcyclicAssumption DEF CallersOf, Successors
<1>4. \A b \in Bodies[c] : Block[b] = b /\ Kind[b] # "passthrough"
  BY <1>3, BlockAssumption, SharingAssumption
<1>5. \A b \in Bodies[c] : Block[c] # b
  BY <1>3, Heads, AcyclicAssumption
<1> QED BY <1>1, <1>2, <1>3, <1>4, <1>5

-----------------------------------------------------------------------------
(***************************************************************************)
(* What the inductive invariant says of an executor that is called, and of *)
(* one that is being run.                                                  *)
(***************************************************************************)
LEMMA RunFacts ==
    ASSUME FlowInv, NEW e \in Executors
    PROVE  /\ pc[e] # "idle" => ~Broken(e)
           /\ pc[e] = "exec" => \A d \in Deps[e] \cup Bodies[e] : fut[<<e, d>>] = "none"
           /\ pc[e] \in {"calling", "deps"} => \A b \in Bodies[e] : fut[<<e, b>>] = "none"
           /\ pc[e] = "body" => \A d \in Deps[e] : fut[<<e, d>>] = "none"
           /\ pc[e] = "idle" /\ ~Broken(e) =>
                 \A d \in Deps[e] \cup Bodies[e] : fut[<<e, d>>] = "none"
  BY DEF FlowInv, FuturesHeld, Broken

LEMMA CalledFacts ==
    ASSUME FlowInv, NEW e \in Executors, NEW c \in CallersOf(e), fut[<<c, e>>] = "called"
    PROVE  /\ pc[e] = "idle" /\ ~Broken(e)
           /\ \A d \in Deps[e] \cup Bodies[e] : fut[<<e, d>>] = "none"
           /\ Block[e] # e => /\ pc[c] = "calling" /\ round[c] = round[Block[e]]
                              /\ round[e] = round[c] - 1
           /\ Block[e] = e => \A x \in Executors : Block[x] = e =>
                                 pc[x] = "idle" /\ ~Broken(x) /\ round[x] = round[e]
<1>1. Block[e] = e => \A x \in Executors : Block[x] = e =>
                         pc[x] = "idle" /\ ~Broken(x) /\ round[x] = round[e]
  BY DEF FlowInv, QuietBlocks
<1>2. ASSUME Block[e] # e
      PROVE  /\ pc[c] = "calling" /\ round[c] = round[Block[e]]
             /\ round[e] = round[c] - 1
  <2>1. c \in Executors /\ e \in Deps[c] /\ Block[c] = Block[e] /\ c \in Successors(e)
    BY <1>2, CallersFacts, CalleeFacts
  <2>2. pc[c] = "calling"
    BY <2>1 DEF FlowInv, FuturesHeld
  <2>3. round[c] = round[Block[e]]
    BY <2>1, <2>2 DEF FlowInv, BlocksOK
  <2>4. round[e] = Asked(c, e)
    BY <2>1 DEF FlowInv, RoundsMatch
  <2>5. Asked(c, e) = round[c] - 1
    BY DEF Asked
  <2> QED BY <2>2, <2>3, <2>4, <2>5
<1>3. ASSUME Block[e] # e PROVE pc[e] = "idle" /\ ~Broken(e)
  <2>1. round[Block[e]] \in Nat
    BY BlockAssumption DEF FlowInv, TypeOK
  <2> QED BY <1>2, <1>3, <2>1 DEF FlowInv, BlocksOK
<1>4. pc[e] = "idle" /\ ~Broken(e)
  BY <1>1, <1>3
<1> QED BY <1>1, <1>2, <1>4, RunFacts

\* What the first and the later successors of a PassThrough find, and the last.
LEMMA Arrival ==
    ASSUME FlowInv, NEW p \in Executors, NEW c \in CallersOf(p), DoSchedulePassThrough(c, p)
    PROVE  /\ Promise(p) = "unset"
           /\ Successors(p) = {} => Remaining(p) < 0
           /\ Successors(p) # {} => /\ c \in Late(p) /\ IsFiniteSet(Late(p))
                                    /\ Remaining(p) = Cardinality(Late(p)) - 1
                                    /\ Remaining(p) <= 0 => Late(p) = {c} /\ Remaining(p) = 0
<1>0. Kind[p] = "passthrough" /\ fut[<<c, p>>] = "called"
  BY DEF DoSchedulePassThrough
<1>1. CASE Successors(p) = {}
  <2>1. Cardinality(Successors(p)) = 0
    BY <1>1, FS_EmptySet
  <2>2. numOutputs[p] <= 0 /\ numOutputs[p] \in Int
    BY <1>0, <1>1 DEF FlowInv, PassThroughOK, TypeOK
  <2>3. Remaining(p) < 0
    BY <2>1, <2>2 DEF Remaining
  <2>4. c = QueryInst /\ p = Root
    BY <1>0, <1>1, CallersFacts, BlockAssumption
  <2>5. promise[p] = "unset"
    BY <1>0, <1>1, <2>4 DEF FlowInv, PassThroughOK
  <2> QED BY <1>1, <2>3, <2>5 DEF Promise
<1>2. CASE Successors(p) # {}
  <2>1. Block[p] # p /\ c \in Successors(p)
    BY <1>2, BlockAssumption, CallersFacts, CalleeFacts, Zenon
  <2>2. Asked(c, p) = round[p]
    BY <1>0, <2>1, CalledFacts DEF Asked
  <2>3. c \in Late(p)
    BY <2>1, <2>2 DEF Late
  <2>4. IsFiniteSet(Late(p)) /\ IsFiniteSet(Successors(p))
    BY FS_Subset DEF Late, Successors
  <2>5. Cardinality(Late(p)) \in Nat /\ Cardinality(Late(p)) # 0
    BY <2>3, <2>4, FS_CardinalityType, FS_EmptySet
  <2>6. \/ numOutputs[p] = Cardinality(Late(p)) /\ promise[p] = "unset"
        \/ numOutputs[p] = 0 /\ Late(p) = Successors(p)
    BY <1>0, <1>2 DEF FlowInv, PassThroughOK
  <2>7. Promise(p) = "unset"
    BY <2>5, <2>6 DEF Promise
  <2>8. Remaining(p) = Cardinality(Late(p)) - 1
    BY <2>5, <2>6 DEF Remaining
  <2>9. ASSUME Remaining(p) <= 0 PROVE Late(p) = {c} /\ Remaining(p) = 0
    <3>1. Cardinality(Late(p)) = 1
      BY <2>5, <2>8, <2>9
    <3>2. PICK x : Late(p) = {x}
      BY <2>4, <3>1, FS_Singleton, Zenon
    <3> QED BY <2>3, <2>8, <3>1, <3>2
  <2> QED BY <1>2, <2>3, <2>4, <2>7, <2>8, <2>9
<1> QED BY <1>1, <1>2

-----------------------------------------------------------------------------
(***************************************************************************)
(* What the steps do, edge by edge.  A step either concerns a call that    *)
(* arrives at an executor, or the run of an executor that is under way.    *)
(***************************************************************************)
RunStep(e) ==
    \/ Returned(e) \/ DependencyThrows(e) \/ DependencyFails(e) \/ Execute(e)
    \/ ExecuteOK(e) \/ ExecuteFails(e) \/ LoopExit(e)
    \/ \E b \in Bodies[e] : ScheduleBody(e, b) \/ LoopBodyDone(e, b) \/ SelectBodyDone(e, b)

LEMMA StepKinds ==
    Next => \/ \E e \in Executors : \/ RunStep(e)
                                    \/ \E c \in CallersOf(e) : DoSchedule(c, e) \/ DoSchedulePassThrough(c, e)
            \/ UNCHANGED <<pc, fut, owner, numOutputs, promise, round>>
  BY DEF Next, Step, RunStep, OnFinish, OnError

\* What a step of the run of e may do to the future that x gave c.
FutureEffect(e, c, x) ==
    \/ fut'[<<c, x>>] = fut[<<c, x>>]
    \/ x = e /\ c = owner[e]
    \/ /\ x = e /\ c # owner[e] /\ Kind[e] = "passthrough" /\ pc[e] = "deps"
       /\ fut[<<c, x>>] = "pending" /\ fut'[<<c, x>>] \in {"ok", "err"}
    \/ c = e /\ fut[<<c, x>>] = "ok" /\ fut'[<<c, x>>] = "none"
    \/ c = e /\ x \in Bodies[e] /\ fut[<<c, x>>] = "none" /\ fut'[<<c, x>>] = "called"

\* How the run of e goes on, and what becomes of the future it fulfils.
RunEffect(e, new) ==
    \/ pc[e] = "calling" /\ pc'[e] = "deps" /\ new = "pending" /\ promise'[e] = promise[e]
    \/ pc[e] = "deps" /\ pc'[e] = "idle" /\ new = "exc"
    \/ pc[e] = "deps" /\ pc'[e] = "exec" /\ new = "pending"
    \/ pc[e] \in {"exec", "body"} /\ pc'[e] = "idle" /\ new \in Resolved
    \/ pc[e] = "exec" /\ pc'[e] = "body" /\ new = "pending"
    \/ pc[e] = "body" /\ pc'[e] = "exec" /\ new = "pending"

LEMMA RunStepFacts ==
    ASSUME FlowInv, NEW e \in Executors, RunStep(e)
    PROVE  /\ pc[e] # "idle" /\ owner[e] \in CallersOf(e)
           /\ fut[<<owner[e], e>>] \in {"entered", "pending"}
           /\ UNCHANGED <<owner, numOutputs, round>>
           /\ \A x \in Executors : x # e => pc'[x] = pc[x] /\ promise'[x] = promise[x]
           /\ \A x \in Executors : \A c \in CallersOf(x) : FutureEffect(e, c, x)
           /\ RunEffect(e, fut'[<<owner[e], e>>])
<1> DEFINE Effects == /\ UNCHANGED <<owner, numOutputs, round>>
                      /\ \A x \in Executors : x # e => pc'[x] = pc[x] /\ promise'[x] = promise[x]
                      /\ \A x \in Executors : \A c \in CallersOf(x) : FutureEffect(e, c, x)
                      /\ RunEffect(e, fut'[<<owner[e], e>>])
<1>a. TypeOK
  BY DEF FlowInv
<1>b. pc[e] # "idle"
  BY Zenon DEF RunStep, Returned, DependencyThrows, DependencyFails, Execute, ExecuteOK,
         ExecuteFails, LoopExit, ScheduleBody, LoopBodyDone, SelectBodyDone, Executed
<1>c. /\ owner[e] \in CallersOf(e) /\ <<owner[e], e>> \in Edges /\ owner[e] # e
      /\ fut[<<owner[e], e>>] = IF pc[e] = "calling" THEN "entered" ELSE "pending"
  BY <1>b, CallersFacts DEF FlowInv, OwnerWaits
<1>d. \A x \in Executors : \A c \in CallersOf(x) : <<c, x>> \in Edges
  BY CallersFacts, Zenon
<1>e. \A b \in Bodies[e] : b \in Executors /\ e \in CallersOf(b) /\ <<e, b>> \in Edges /\ b # e
  BY CalleeFacts
<1> SUFFICES Effects
  BY <1>b, <1>c DEF Effects
<1> USE DEF TypeOK
<1> HIDE DEF Effects
<1>1. CASE Returned(e)
  BY <1>1, <1>a, <1>c, <1>d DEF Returned, Effects, FutureEffect, RunEffect
<1>2. CASE DependencyThrows(e)
  BY <1>2, <1>a, <1>c, <1>d DEF DependencyThrows, Finish, Effects, FutureEffect, RunEffect
<1>3. CASE DependencyFails(e)
  BY <1>3, <1>a, <1>c, <1>d DEF DependencyFails, Notify, IsWaiting, Effects, FutureEffect, RunEffect
<1>4. CASE Execute(e)
  BY <1>4, <1>a, <1>c, <1>d DEF Execute, Notify, IsWaiting, IsDep, Effects, FutureEffect, RunEffect
<1>5. CASE ExecuteOK(e) \/ LoopExit(e)
  BY <1>5, <1>a, <1>c, <1>d, States DEF ExecuteOK, LoopExit, Executed, Finish, Effects, FutureEffect, RunEffect
<1>6. CASE ExecuteFails(e)
  <2>1. PICK r \in Bad : Finish(e, r)
    BY <1>6 DEF ExecuteFails
  <2> QED BY <1>6, <2>1, <1>a, <1>c, <1>d, States DEF ExecuteFails, Finish, Effects, FutureEffect, RunEffect
<1>7. ASSUME NEW b \in Bodies[e], ScheduleBody(e, b) PROVE Effects
  <2>1. fut[<<e, b>>] = "none"
    BY <1>7, RunFacts DEF ScheduleBody, Executed
  <2> QED BY <1>7, <2>1, <1>a, <1>c, <1>d, <1>e DEF ScheduleBody, Executed, Effects, FutureEffect, RunEffect
<1>8. ASSUME NEW b \in Bodies[e], LoopBodyDone(e, b) PROVE Effects
  <2>1. CASE fut[<<e, b>>] = "ok"
    BY <1>8, <2>1, <1>a, <1>c, <1>d, <1>e, States DEF LoopBodyDone, Effects, FutureEffect, RunEffect
  <2>2. CASE fut[<<e, b>>] # "ok"
    BY <1>8, <2>2, <1>a, <1>c, <1>d, <1>e, States DEF LoopBodyDone, Finish, Effects, FutureEffect, RunEffect
  <2> QED BY <2>1, <2>2
<1>9. ASSUME NEW b \in Bodies[e], SelectBodyDone(e, b) PROVE Effects
  <2>1. RunEffect(e, fut'[<<owner[e], e>>])
    BY <1>9, <1>a, <1>c, <1>e DEF SelectBodyDone, RunEffect
  <2>2. \A x \in Executors : \A c \in CallersOf(x) : FutureEffect(e, c, x)
    BY <1>9, <1>a, <1>c, <1>d, <1>e, Zenon DEF SelectBodyDone, FutureEffect
  <2> QED BY <1>9, <1>a, <2>1, <2>2 DEF SelectBodyDone, Effects
<1> QED
  BY <1>1, <1>2, <1>3, <1>4, <1>5, <1>6, <1>7, <1>8, <1>9 DEF RunStep

\* What a step does that starts a run of e on behalf of c.
BeginEffect(c, e) ==
    /\ owner' = [owner EXCEPT ![e] = c]
    /\ round'[e] = round[e] + 1
    /\ \A x \in Executors : x # e => pc'[x] = pc[x] /\ round'[x] = round[x]
    /\ \A x \in Executors : \A d \in CallersOf(x) :
          fut'[<<d, x>>] = IF x = e /\ d = c THEN fut'[<<c, e>>]
                           ELSE IF d = e /\ x \in Deps[e] THEN "called" ELSE fut[<<d, x>>]
    /\ \/ pc'[e] = "calling" /\ fut'[<<c, e>>] = "entered"
       \/ pc'[e] = "exec" /\ fut'[<<c, e>>] = "pending" /\ Deps[e] = {}

LEMMA DoScheduleFacts ==
    ASSUME FlowInv, NEW e \in Executors, NEW c \in CallersOf(e), DoSchedule(c, e)
    PROVE  /\ Kind[e] # "passthrough" /\ fut[<<c, e>>] = "called"
           /\ UNCHANGED <<numOutputs, promise>> /\ BeginEffect(c, e)
<1>1. \A x \in Executors : \A d \in CallersOf(x) : <<d, x>> \in Edges
  BY CallersFacts, Zenon
<1>2. c # e /\ TypeOK
  BY CallersFacts, Zenon DEF FlowInv
<1>3. /\ round'[e] = round[e] + 1
      /\ \A x \in Executors : x # e => pc'[x] = pc[x] /\ round'[x] = round[x]
  BY <1>2 DEF DoSchedule, Begin, CallDeps, TypeOK
<1>4. \A x \in Executors : \A d \in CallersOf(x) :
          fut'[<<d, x>>] = IF x = e /\ d = c THEN fut'[<<c, e>>]
                           ELSE IF d = e /\ x \in Deps[e] THEN "called" ELSE fut[<<d, x>>]
  BY <1>1, <1>2, Zenon DEF DoSchedule, CallDeps, TypeOK, IsDep
<1>5. \/ pc'[e] = "calling" /\ fut'[<<c, e>>] = "entered"
      \/ pc'[e] = "exec" /\ fut'[<<c, e>>] = "pending" /\ Deps[e] = {}
  BY <1>1, <1>2 DEF DoSchedule, CallDeps, TypeOK
<1> QED BY <1>3, <1>4, <1>5 DEF DoSchedule, Begin, BeginEffect

LEMMA PassThroughFacts ==
    ASSUME FlowInv, NEW p \in Executors, NEW c \in CallersOf(p), DoSchedulePassThrough(c, p)
    PROVE  /\ Kind[p] = "passthrough" /\ fut[<<c, p>>] = "called"
           /\ numOutputs'[p] = Remaining(p) /\ promise'[p] = "unset"
           /\ \A x \in Executors : x # p => numOutputs'[x] = numOutputs[x] /\ promise'[x] = promise[x]
           /\ \/ /\ Remaining(p) > 0 /\ UNCHANGED <<pc, owner, round>>
                 /\ fut'[<<c, p>>] = "pending"
                 /\ \A x \in Executors : \A d \in CallersOf(x) :
                       ~(x = p /\ d = c) => fut'[<<d, x>>] = fut[<<d, x>>]
              \/ Remaining(p) <= 0 /\ BeginEffect(c, p)
<1>1. \A x \in Executors : \A d \in CallersOf(x) : <<d, x>> \in Edges
  BY CallersFacts, Zenon
<1>2. c # p /\ TypeOK /\ Promise(p) = "unset"
  BY CallersFacts, Arrival, Zenon DEF FlowInv
<1>3. /\ Kind[p] = "passthrough" /\ fut[<<c, p>>] = "called"
      /\ numOutputs'[p] = Remaining(p) /\ promise'[p] = "unset"
      /\ \A x \in Executors : x # p => numOutputs'[x] = numOutputs[x] /\ promise'[x] = promise[x]
  BY <1>2 DEF DoSchedulePassThrough, TypeOK
<1>4. CASE Remaining(p) > 0 /\ UNCHANGED <<pc, owner, round>> /\ fut' = [fut EXCEPT ![<<c, p>>] = "pending"]
  <2>1. /\ fut'[<<c, p>>] = "pending"
        /\ \A x \in Executors : \A d \in CallersOf(x) :
              ~(x = p /\ d = c) => fut'[<<d, x>>] = fut[<<d, x>>]
    BY <1>1, <1>2, <1>4 DEF TypeOK
  <2> QED BY <1>3, <1>4, <2>1
<1>5. CASE Remaining(p) <= 0 /\ Begin(c, p) /\ CallDeps(c, p)
  <2>1. /\ round'[p] = round[p] + 1
        /\ \A x \in Executors : x # p => pc'[x] = pc[x] /\ round'[x] = round[x]
    BY <1>2, <1>5 DEF Begin, CallDeps, TypeOK
  <2>2. \A x \in Executors : \A d \in CallersOf(x) :
            fut'[<<d, x>>] = IF x = p /\ d = c THEN fut'[<<c, p>>]
                             ELSE IF d = p /\ x \in Deps[p] THEN "called" ELSE fut[<<d, x>>]
    BY <1>1, <1>2, <1>5, Zenon DEF CallDeps, TypeOK, IsDep
  <2>3. pc'[p] = "calling" /\ fut'[<<c, p>>] = "entered"
    BY <1>1, <1>2, <1>5 DEF CallDeps, TypeOK
  <2> QED BY <1>3, <1>5, <2>1, <2>2, <2>3 DEF Begin, BeginEffect
<1> QED BY <1>2, <1>4, <1>5 DEF DoSchedulePassThrough

-----------------------------------------------------------------------------
(***************************************************************************)
(* Each part of the invariant is preserved by the three kinds of steps.    *)
(***************************************************************************)
\* A run that starts: its executor was idle and held no futures.
Began(c, e) ==
    /\ pc[e] = "idle" /\ ~Broken(e) /\ c # e
    /\ pc'[e] # "idle" /\ owner'[e] = c
    /\ \A x \in Executors : x # e => owner'[x] = owner[x]
    /\ \A d \in Deps[e] : fut[<<e, d>>] = "none" /\ fut'[<<e, d>>] = "called"
    /\ \A b \in Bodies[e] : fut[<<e, b>>] = "none" /\ fut'[<<e, b>>] = "none"
    /\ fut'[<<c, e>>] \in {"entered", "pending"}
    /\ \A x \in Executors : \A d \in CallersOf(x) :
          ~(x = e /\ d = c) /\ ~(d = e /\ x \in Deps[e]) => fut'[<<d, x>>] = fut[<<d, x>>]

LEMMA BeginFacts ==
    ASSUME FlowInv, NEW e \in Executors, NEW c \in CallersOf(e), fut[<<c, e>>] = "called",
           BeginEffect(c, e)
    PROVE  Began(c, e)
<1>1. pc[e] = "idle" /\ ~Broken(e) /\ c # e
  BY CalledFacts, CallersFacts
<1>2. owner'[e] = c /\ \A x \in Executors : x # e => owner'[x] = owner[x]
  BY DEF BeginEffect, FlowInv, TypeOK
<1>3. \A d \in Deps[e] : fut[<<e, d>>] = "none" /\ fut'[<<e, d>>] = "called"
  BY CalledFacts, CalleeFacts DEF BeginEffect
<1>4. \A b \in Bodies[e] : fut[<<e, b>>] = "none" /\ fut'[<<e, b>>] = "none"
  BY CalledFacts, CalleeFacts DEF BeginEffect
<1>5. pc'[e] # "idle" /\ fut'[<<c, e>>] \in {"entered", "pending"}
  BY DEF BeginEffect
<1>6. \A x \in Executors : \A d \in CallersOf(x) :
         ~(x = e /\ d = c) /\ ~(d = e /\ x \in Deps[e]) => fut'[<<d, x>>] = fut[<<d, x>>]
  BY DEF BeginEffect
<1> QED BY <1>1, <1>2, <1>3, <1>4, <1>5, <1>6 DEF Began

\* An executor that failed stays so; one that is idle does not fail.
LEMMA BrokenStep ==
    ASSUME FlowInv, Next, NEW x \in Executors
    PROVE  /\ Broken(x) => Broken(x)'
           /\ Broken(x)' => Broken(x) \/ pc[x] # "idle"
<1>a. \A c \in CallersOf(x) : c \in Callers
  BY CallersFacts, Zenon
<1>b. Bad = {"err", "exc"}
  BY States
<1>1. ASSUME NEW e \in Executors, RunStep(e)
      PROVE  /\ Broken(x) => Broken(x)'
             /\ Broken(x)' => Broken(x) \/ pc[x] # "idle"
  <2>1. CASE x = e
    BY <1>1, <2>1, RunStepFacts DEF Broken
  <2>2. CASE x # e
    <3>1. pc'[x] = pc[x] /\ owner'[x] = owner[x]
      BY <1>1, <2>2, RunStepFacts, Zenon
    <3>2. \A c \in CallersOf(x) : \/ fut'[<<c, x>>] = fut[<<c, x>>]
                                  \/ fut[<<c, x>>] \in {"ok", "none"} /\ fut'[<<c, x>>] \in {"none", "called"}
      <4>1. \A c \in CallersOf(x) : FutureEffect(e, c, x)
        BY <1>1, RunStepFacts, Zenon
      <4> QED BY <2>2, <4>1 DEF FutureEffect
    <3> QED BY <1>b, <3>1, <3>2 DEF Broken
  <2> QED BY <2>1, <2>2
<1>2. ASSUME NEW e \in Executors, NEW c \in CallersOf(e), fut[<<c, e>>] = "called", BeginEffect(c, e)
      PROVE  /\ Broken(x) => Broken(x)'
             /\ Broken(x)' => Broken(x) \/ pc[x] # "idle"
  <2>0. Began(c, e)
    BY <1>2, BeginFacts
  <2>a. /\ \A d \in Deps[e] : fut[<<e, d>>] = "none" /\ fut'[<<e, d>>] = "called"
        /\ \A y \in Executors : \A d \in CallersOf(y) :
              ~(y = e /\ d = c) /\ ~(d = e /\ y \in Deps[e]) => fut'[<<d, y>>] = fut[<<d, y>>]
    BY <2>0 DEF Began
  <2>1. CASE x = e
    <3>1. pc[e] = "idle" /\ ~Broken(e) /\ pc'[e] # "idle"
      BY <2>0 DEF Began
    <3> QED BY <2>1, <3>1 DEF Broken
  <2>2. CASE x # e
    <3>1. pc'[x] = pc[x] /\ owner'[x] = owner[x]
      BY <1>2, <2>0, <2>2 DEF BeginEffect, Began
    <3>2. \A d \in CallersOf(x) : \/ fut'[<<d, x>>] = fut[<<d, x>>]
                                  \/ fut[<<d, x>>] = "none" /\ fut'[<<d, x>>] = "called"
      BY <2>2, <2>a
    <3> QED BY <1>b, <3>1, <3>2 DEF Broken
  <2> QED BY <2>1, <2>2
<1>3. ASSUME NEW e \in Executors, NEW c \in CallersOf(e), DoSchedule(c, e)
      PROVE  /\ Broken(x) => Broken(x)'
             /\ Broken(x)' => Broken(x) \/ pc[x] # "idle"
  BY <1>2, <1>3, DoScheduleFacts, Zenon
<1>4. ASSUME NEW e \in Executors, NEW c \in CallersOf(e), DoSchedulePassThrough(c, e)
      PROVE  /\ Broken(x) => Broken(x)'
             /\ Broken(x)' => Broken(x) \/ pc[x] # "idle"
  <2>1. CASE BeginEffect(c, e)
    BY <1>2, <1>4, <2>1, PassThroughFacts, Zenon
  <2>2. CASE ~BeginEffect(c, e)
    <3>1. UNCHANGED <<pc, owner>> /\ fut[<<c, e>>] = "called" /\ fut'[<<c, e>>] = "pending"
      BY <1>4, <2>2, PassThroughFacts, Zenon
    <3>2. \A d \in CallersOf(x) : ~(x = e /\ d = c) => fut'[<<d, x>>] = fut[<<d, x>>]
      BY <1>4, <2>2, PassThroughFacts
    <3> QED BY <1>b, <3>1, <3>2 DEF Broken
  <2> QED BY <2>1, <2>2
<1>5. CASE UNCHANGED <<pc, fut, owner, numOutputs, promise, round>>
  BY <1>5 DEF Broken
<1> QED BY <1>1, <1>3, <1>4, <1>5, StepKinds

LEMMA OwnerStep == FlowInv /\ [Next]_vars => OwnerWaits'
<1> SUFFICES ASSUME FlowInv, [Next]_vars, NEW x \in Executors, (pc[x] # "idle")'
             PROVE  (/\ owner[x] \in CallersOf(x)
                     /\ fut[<<owner[x], x>>] = IF pc[x] = "calling" THEN "entered" ELSE "pending")'
  BY DEF OwnerWaits
<1> DEFINE Waits == /\ owner[x] \in CallersOf(x)
                    /\ fut[<<owner[x], x>>] = IF pc[x] = "calling" THEN "entered" ELSE "pending"
<1>a. pc[x] # "idle" => Waits
  BY DEF FlowInv, OwnerWaits
<1>1. ASSUME NEW e \in Executors, RunStep(e) PROVE Waits'
  <2>1. CASE x = e
    BY <1>1, <2>1, RunStepFacts, Zenon DEF RunEffect
  <2>2. CASE x # e
    <3>1. pc'[x] = pc[x] /\ owner'[x] = owner[x] /\ \A c \in CallersOf(x) : FutureEffect(e, c, x)
      BY <1>1, <2>2, RunStepFacts, Zenon
    <3> QED BY <1>a, <2>2, <3>1 DEF FutureEffect
  <2> QED BY <2>1, <2>2
<1>2. ASSUME NEW e \in Executors, NEW c \in CallersOf(e), fut[<<c, e>>] = "called", BeginEffect(c, e)
      PROVE  Waits'
  <2>0. Began(c, e)
    BY <1>2, BeginFacts
  <2>a. /\ \A d \in Deps[e] : fut[<<e, d>>] = "none" /\ fut'[<<e, d>>] = "called"
        /\ \A y \in Executors : \A d \in CallersOf(y) :
              ~(y = e /\ d = c) /\ ~(d = e /\ y \in Deps[e]) => fut'[<<d, y>>] = fut[<<d, y>>]
    BY <2>0 DEF Began
  <2>1. CASE x = e
    <3>1. owner'[e] = c
      BY <2>0 DEF Began
    <3> QED BY <1>2, <2>1, <3>1 DEF BeginEffect
  <2>2. CASE x # e
    <3>1. pc'[x] = pc[x] /\ owner'[x] = owner[x]
      BY <1>2, <2>0, <2>2 DEF BeginEffect, Began
    <3>2. fut'[<<owner[x], x>>] = fut[<<owner[x], x>>]
      BY <1>a, <2>a, <2>2, <3>1
    <3> QED BY <1>a, <3>1, <3>2
  <2> QED BY <2>1, <2>2
<1>3. ASSUME NEW e \in Executors, NEW c \in CallersOf(e), DoSchedule(c, e) PROVE Waits'
  BY <1>2, <1>3, DoScheduleFacts, Zenon
<1>4. ASSUME NEW e \in Executors, NEW c \in CallersOf(e), DoSchedulePassThrough(c, e) PROVE Waits'
  <2>1. CASE BeginEffect(c, e)
    BY <1>2, <1>4, <2>1, PassThroughFacts, Zenon
  <2>2. CASE ~BeginEffect(c, e)
    <3>1. UNCHANGED <<pc, owner>> /\ fut[<<c, e>>] = "called" /\ fut'[<<c, e>>] = "pending"
      BY <1>4, <2>2, PassThroughFacts, Zenon
    <3>2. \A d \in CallersOf(x) : ~(x = e /\ d = c) => fut'[<<d, x>>] = fut[<<d, x>>]
      BY <1>4, <2>2, PassThroughFacts
    <3> QED BY <1>a, <3>1, <3>2
  <2> QED BY <2>1, <2>2
<1>5. CASE UNCHANGED <<pc, fut, owner, numOutputs, promise, round>>
  BY <1>5, <1>a
<1> QED BY <1>1, <1>3, <1>4, <1>5, StepKinds DEF vars

\* What FuturesHeld says of one executor.
Held(c) ==
    /\ \A d \in Deps[c] :
          /\ fut[<<c, d>>] # "none" => pc[c] \in {"calling", "deps"} \/ Broken(c)
          /\ fut[<<c, d>>] \in {"called", "entered"} => pc[c] = "calling"
          /\ pc[c] \in {"calling", "deps"} => fut[<<c, d>>] # "none"
    /\ \A b \in Bodies[c] :
          /\ fut[<<c, b>>] # "none" => pc[c] = "body" \/ Broken(c)
          /\ fut[<<c, b>>] \in {"called", "entered"} => pc[c] = "body"
          /\ \A other \in Bodies[c] :
                fut[<<c, b>>] # "none" /\ fut[<<c, other>>] # "none" => other = b

\* The executor whose run takes a step holds the futures it should.
LEMMA HeldByRunner ==
    ASSUME FlowInv, NEW e \in Executors, RunStep(e)
    PROVE  Held(e)'
<1>a. TypeOK /\ Held(e)
  BY DEF FlowInv, FuturesHeld, Held
<1>b. /\ owner[e] \in CallersOf(e) /\ owner[e] # e /\ <<owner[e], e>> \in Edges /\ pc[e] # "idle"
      /\ owner' = owner
  BY RunStepFacts, CallersFacts
<1>c. \A x \in Deps[e] \cup Bodies[e] : <<e, x>> \in Edges /\ x # e
  BY CalleeFacts
<1>d. \A x \in Deps[e] : x \notin Bodies[e]
  BY CalleeFacts, Zenon
<1>e. ~Broken(e)
  BY <1>b DEF Broken
<1> USE DEF TypeOK
<1>1. CASE Returned(e)
  <2>1. pc[e] = "calling" /\ pc'[e] = "deps" /\ \A d \in Deps[e] : fut[<<e, d>>] \notin {"called", "entered"}
    BY <1>1, <1>a DEF Returned
  <2>2. \A x \in Deps[e] \cup Bodies[e] : fut'[<<e, x>>] = fut[<<e, x>>]
    BY <1>1, <1>a, <1>b, <1>c DEF Returned
  <2> QED BY <1>a, <1>e, <2>1, <2>2 DEF Held
<1>2. CASE DependencyThrows(e) \/ DependencyFails(e)
  <2>1. pc[e] = "deps" /\ pc'[e] = "idle" /\ fut'[<<owner[e], e>>] = "exc"
    BY <1>2, <1>a, <1>b DEF DependencyThrows, DependencyFails, Finish
  <2>2. \A x \in Deps[e] \cup Bodies[e] : fut'[<<e, x>>] = fut[<<e, x>>]
    BY <1>2, <1>a, <1>b, <1>c DEF DependencyThrows, DependencyFails, Finish, IsWaiting
  <2>3. Broken(e)'
    BY <1>b, <2>1, States DEF Broken
  <2> QED BY <1>a, <1>e, <2>1, <2>2, <2>3 DEF Held
<1>3. CASE Execute(e)
  <2>1. pc[e] = "deps" /\ pc'[e] = "exec"
    BY <1>3, <1>a DEF Execute
  <2>2. /\ \A d \in Deps[e] : fut'[<<e, d>>] = "none"
        /\ \A b \in Bodies[e] : fut'[<<e, b>>] = fut[<<e, b>>]
    BY <1>3, <1>a, <1>b, <1>c, <1>d DEF Execute, IsDep, IsWaiting
  <2> QED BY <1>a, <1>e, <2>1, <2>2 DEF Held
<1>4. CASE ExecuteOK(e) \/ LoopExit(e) \/ ExecuteFails(e)
  <2>1. pc[e] = "exec" /\ pc'[e] = "idle"
    BY <1>4, <1>a DEF ExecuteOK, LoopExit, ExecuteFails, Executed, Finish
  <2>2. \A x \in Deps[e] \cup Bodies[e] : fut'[<<e, x>>] = fut[<<e, x>>]
    BY <1>4, <1>a, <1>b, <1>c DEF ExecuteOK, LoopExit, ExecuteFails, Executed, Finish
  <2> QED BY <1>a, <1>e, <2>1, <2>2 DEF Held
<1>5. ASSUME NEW b \in Bodies[e], ScheduleBody(e, b) PROVE Held(e)'
  <2>1. pc[e] = "exec" /\ pc'[e] = "body"
    BY <1>5, <1>a DEF ScheduleBody, Executed
  <2>2. /\ fut'[<<e, b>>] = "called"
        /\ \A x \in Deps[e] \cup Bodies[e] : x # b => fut'[<<e, x>>] = fut[<<e, x>>]
    BY <1>5, <1>a, <1>b, <1>c DEF ScheduleBody, Executed
  <2> QED BY <1>a, <1>d, <1>e, <2>1, <2>2 DEF Held
<1>6. ASSUME NEW b \in Bodies[e], LoopBodyDone(e, b) PROVE Held(e)'
  <2>1. CASE fut[<<e, b>>] = "ok"
    <3>1. pc[e] = "body" /\ pc'[e] = "exec"
      BY <1>6, <1>a, <2>1, States DEF LoopBodyDone
    <3>2. /\ fut'[<<e, b>>] = "none"
          /\ \A x \in Deps[e] \cup Bodies[e] : x # b => fut'[<<e, x>>] = fut[<<e, x>>]
      BY <1>6, <1>a, <1>b, <1>c, <2>1, States DEF LoopBodyDone
    <3> QED BY <1>a, <1>d, <1>e, <2>1, <3>1, <3>2 DEF Held
  <2>2. CASE fut[<<e, b>>] # "ok"
    <3>1. pc[e] = "body" /\ pc'[e] = "idle" /\ fut'[<<owner[e], e>>] = "exc" /\ fut[<<e, b>>] \in Bad
      BY <1>6, <1>a, <1>b, <2>2 DEF LoopBodyDone, Finish
    <3>2. \A x \in Deps[e] \cup Bodies[e] : fut'[<<e, x>>] = fut[<<e, x>>]
      BY <1>6, <1>a, <1>b, <1>c, <2>2 DEF LoopBodyDone, Finish
    <3>3. Broken(e)'
      BY <1>b, <3>1, States DEF Broken
    <3> QED BY <1>a, <1>e, <3>1, <3>2, <3>3, States DEF Held
  <2> QED BY <2>1, <2>2
<1>7. ASSUME NEW b \in Bodies[e], SelectBodyDone(e, b) PROVE Held(e)'
  <2>1. pc[e] = "body" /\ pc'[e] = "idle" /\ fut[<<e, b>>] \in Resolved
        /\ fut'[<<owner[e], e>>] = fut[<<e, b>>]
    BY <1>7, <1>a, <1>b DEF SelectBodyDone
  <2>2. /\ fut'[<<e, b>>] = IF fut[<<e, b>>] = "ok" THEN "none" ELSE fut[<<e, b>>]
        /\ \A x \in Deps[e] \cup Bodies[e] : x # b => fut'[<<e, x>>] = fut[<<e, x>>]
    BY <1>7, <1>a, <1>b, <1>c DEF SelectBodyDone
  <2>3. fut[<<e, b>>] # "ok" => Broken(e)'
    BY <1>b, <2>1, States DEF Broken
  <2> QED BY <1>a, <1>d, <1>e, <2>1, <2>2, <2>3, States DEF Held
<1> QED BY <1>1, <1>2, <1>3, <1>4, <1>5, <1>6, <1>7 DEF RunStep

LEMMA FuturesStep == FlowInv /\ [Next]_vars => FuturesHeld'
<1> SUFFICES ASSUME FlowInv, [Next]_vars, NEW c \in Executors PROVE Held(c)'
  BY DEF FuturesHeld, Held
<1>a. Held(c)
  BY DEF FlowInv, FuturesHeld, Held
<1>b. Next => (Broken(c) => Broken(c)')
  BY BrokenStep
<1>c. \A x \in Deps[c] \cup Bodies[c] : x \in Executors /\ c \in CallersOf(x) /\ x # c
  BY CalleeFacts, Zenon
<1>1. ASSUME NEW e \in Executors, RunStep(e), Next PROVE Held(c)'
  <2>1. CASE c = e
    BY <1>1, <2>1, HeldByRunner
  <2>2. CASE c # e
    <3>1. /\ pc'[c] = pc[c] /\ fut[<<owner[e], e>>] \in {"entered", "pending"}
          /\ RunEffect(e, fut'[<<owner[e], e>>])
          /\ \A x \in Executors : \A d \in CallersOf(x) : FutureEffect(e, d, x)
      BY <1>1, <2>2, RunStepFacts, Zenon
    <3>2. \A x \in Deps[c] \cup Bodies[c] :
             \/ fut'[<<c, x>>] = fut[<<c, x>>]
             \/ fut[<<c, x>>] \in {"entered", "pending"} /\ fut'[<<c, x>>] \notin {"none", "called", "entered"}
      <4>1. fut'[<<owner[e], e>>] \notin {"none", "called", "entered"}
        BY <3>1, States DEF RunEffect
      <4> QED BY <1>c, <2>2, <3>1, <4>1 DEF FutureEffect
    <3> QED BY <1>1, <1>a, <1>b, <3>1, <3>2 DEF Held
  <2> QED BY <2>1, <2>2
<1>2. ASSUME NEW e \in Executors, NEW k \in CallersOf(e), fut[<<k, e>>] = "called",
             BeginEffect(k, e), Next
      PROVE  Held(c)'
  <2>0. Began(k, e)
    BY <1>2, BeginFacts
  <2>a. /\ k # e /\ fut'[<<k, e>>] \in {"entered", "pending"}
        /\ \A d \in Deps[e] : fut[<<e, d>>] = "none" /\ fut'[<<e, d>>] = "called"
        /\ \A b \in Bodies[e] : fut[<<e, b>>] = "none" /\ fut'[<<e, b>>] = "none"
        /\ \A y \in Executors : \A d \in CallersOf(y) :
              ~(y = e /\ d = k) /\ ~(d = e /\ y \in Deps[e]) => fut'[<<d, y>>] = fut[<<d, y>>]
    BY <2>0 DEF Began
  <2>1. CASE c = e
    <3>1. pc'[e] = "calling" \/ Deps[e] = {}
      BY <1>2 DEF BeginEffect
    <3> QED BY <2>a, <2>1, <3>1 DEF Held
  <2>2. CASE c # e
    <3>1. pc'[c] = pc[c]
      BY <1>2, <2>2 DEF BeginEffect
    <3>2. \A x \in Deps[c] \cup Bodies[c] :
             \/ fut'[<<c, x>>] = fut[<<c, x>>]
             \/ fut[<<c, x>>] = "called" /\ fut'[<<c, x>>] \in {"entered", "pending"}
      BY <1>c, <1>2, <2>a, <2>2
    <3> QED BY <1>2, <1>a, <1>b, <3>1, <3>2 DEF Held
  <2> QED BY <2>1, <2>2
<1>3. ASSUME NEW e \in Executors, NEW k \in CallersOf(e), DoSchedule(k, e), Next PROVE Held(c)'
  BY <1>2, <1>3, DoScheduleFacts, Zenon
<1>4. ASSUME NEW e \in Executors, NEW k \in CallersOf(e), DoSchedulePassThrough(k, e), Next PROVE Held(c)'
  <2>1. CASE BeginEffect(k, e)
    BY <1>2, <1>4, <2>1, PassThroughFacts, Zenon
  <2>2. CASE ~BeginEffect(k, e)
    <3>1. UNCHANGED <<pc, owner>> /\ fut[<<k, e>>] = "called" /\ fut'[<<k, e>>] = "pending"
      BY <1>4, <2>2, PassThroughFacts, Zenon
    <3>2. \A x \in Executors : \A d \in CallersOf(x) :
             ~(x = e /\ d = k) => fut'[<<d, x>>] = fut[<<d, x>>]
      BY <1>4, <2>2, PassThroughFacts
    <3>3. \A x \in Deps[c] \cup Bodies[c] :
             \/ fut'[<<c, x>>] = fut[<<c, x>>]
             \/ fut[<<c, x>>] = "called" /\ fut'[<<c, x>>] = "pending"
      BY <1>c, <3>1, <3>2
    <3> QED BY <1>4, <1>a, <1>b, <3>1, <3>3 DEF Held
  <2> QED BY <2>1, <2>2
<1>5. CASE UNCHANGED <<pc, fut, owner, numOutputs, promise, round>>
  BY <1>5, <1>a DEF Held, Broken
<1>6. CASE Next
  BY <1>1, <1>3, <1>4, <1>5, <1>6, StepKinds
<1> QED BY <1>5, <1>6 DEF vars

\* A step of a run does not change who has asked for what.
LEMMA AskedByRun ==
    ASSUME FlowInv, NEW e \in Executors, RunStep(e), NEW x \in Executors, NEW c \in Successors(x)
    PROVE  /\ Asked(c, x)' = Asked(c, x) /\ round' = round
           /\ fut[<<c, x>>] = "pending" /\ pc[x] = "idle" => fut'[<<c, x>>] = "pending" /\ pc'[x] = "idle"
<1>1. c \in Executors /\ c \in CallersOf(x) /\ x \notin Bodies[c]
  BY CalleeFacts, Zenon DEF Successors
<1>2. /\ FutureEffect(e, c, x) /\ round' = round /\ pc[e] # "idle"
      /\ x # e => pc'[x] = pc[x]
      /\ fut[<<owner[e], e>>] \in {"entered", "pending"} /\ RunEffect(e, fut'[<<owner[e], e>>])
  BY <1>1, RunStepFacts, Zenon
<1>3. fut'[<<owner[e], e>>] # "called"
  BY <1>2, States DEF RunEffect
<1>4. fut'[<<c, x>>] = "called" <=> fut[<<c, x>>] = "called"
  BY <1>1, <1>2, <1>3 DEF FutureEffect
<1> QED BY <1>1, <1>2, <1>4 DEF Asked, FutureEffect

\* Starting a run of e on behalf of k answers one question and asks the next
\* ones.
AskedEffect(k, e, c, x) ==
    /\ ~(x = e /\ c = k) => Asked(c, x)' = Asked(c, x)
    /\ x = e /\ c = k => Asked(c, x)' = round[c] /\ Asked(c, x) = round[c] - 1
    /\ x # e => round'[x] = round[x] /\ pc'[x] = pc[x]
    /\ fut[<<c, x>>] = "pending" => fut'[<<c, x>>] = "pending"

LEMMA AskedByBegin ==
    ASSUME FlowInv, NEW e \in Executors, NEW k \in CallersOf(e), fut[<<k, e>>] = "called",
           BeginEffect(k, e)
    PROVE  \A x \in Executors : \A c \in Successors(x) : AskedEffect(k, e, c, x)
<1> SUFFICES ASSUME NEW x \in Executors, NEW c \in Successors(x) PROVE AskedEffect(k, e, c, x)
  OBVIOUS
<1> USE DEF AskedEffect
<1>1. c \in Executors /\ c \in CallersOf(x) /\ c # x /\ x \in Deps[c]
  BY CalleeFacts, Zenon DEF Successors
<1>2. /\ fut'[<<k, e>>] \in {"entered", "pending"}
      /\ \A d \in Deps[e] : fut[<<e, d>>] = "none" /\ fut'[<<e, d>>] = "called"
      /\ \A y \in Executors : \A d \in CallersOf(y) :
            ~(y = e /\ d = k) /\ ~(d = e /\ y \in Deps[e]) => fut'[<<d, y>>] = fut[<<d, y>>]
  <2>1. Began(k, e)
    BY BeginFacts
  <2> QED BY <2>1 DEF Began
<1>3. /\ round'[e] = round[e] + 1 /\ round[e] \in Nat
      /\ \A y \in Executors : y # e => pc'[y] = pc[y] /\ round'[y] = round[y]
  BY DEF BeginEffect, FlowInv, TypeOK
<1>4. CASE x = e /\ c = k
  BY <1>1, <1>2, <1>3, <1>4 DEF Asked
<1>5. CASE c = e
  BY <1>1, <1>2, <1>3, <1>5 DEF Asked
<1>6. CASE ~(x = e /\ c = k) /\ c # e
  BY <1>1, <1>2, <1>3, <1>6 DEF Asked
<1> QED BY <1>4, <1>5, <1>6, Zenon

\* The last successor of a PassThrough to arrive was the only one missing.
LEMMA LastArrival ==
    ASSUME FlowInv, NEW p \in Executors, NEW k \in CallersOf(p), DoSchedulePassThrough(k, p),
           BeginEffect(k, p), NEW c \in Successors(p)
    PROVE  /\ Asked(c, p)' = round'[p]
           /\ fut'[<<c, p>>] \in {"entered", "pending"}
<1>1. c \in Executors /\ c \in CallersOf(p) /\ Successors(p) # {}
  <2>1. c \in Executors /\ p \in Deps[c]
    BY DEF Successors
  <2> QED BY <2>1, CalleeFacts, Zenon
<1>2. Kind[p] = "passthrough" /\ fut[<<k, p>>] = "called" /\ pc[p] = "idle"
  <2>1. Kind[p] = "passthrough" /\ fut[<<k, p>>] = "called"
    BY PassThroughFacts, Zenon
  <2> QED BY <2>1, CalledFacts
<1>0. AskedEffect(k, p, c, p)
  BY <1>2, AskedByBegin
<1>3. pc'[p] # "idle" /\ fut'[<<k, p>>] \in {"entered", "pending"}
  <2>1. Began(k, p)
    BY <1>2, BeginFacts
  <2> QED BY <2>1 DEF Began
<1>4. Remaining(p) <= 0
  BY <1>2, <1>3, PassThroughFacts
<1>5. Late(p) = {k}
  BY <1>1, <1>4, Arrival
<1>6. round'[p] = round[p] + 1
  BY DEF BeginEffect
<1>7. CASE c = k
  <2>1. Asked(k, p) = round[p] /\ round[k] \in Nat
    BY <1>1, <1>5, <1>7 DEF Late, FlowInv, TypeOK
  <2>2. Asked(c, p)' = round[c] /\ Asked(c, p) = round[c] - 1
    BY <1>0, <1>7 DEF AskedEffect
  <2> QED BY <1>3, <1>6, <1>7, <2>1, <2>2
<1>8. CASE c # k
  <2>1. Asked(c, p) # round[p]
    BY <1>5, <1>8 DEF Late
  <2>2. Asked(c, p) = round[p] + 1 /\ fut[<<c, p>>] = "pending"
    BY <1>2, <2>1 DEF FlowInv, RoundsMatch
  <2>3. Asked(c, p)' = Asked(c, p) /\ fut'[<<c, p>>] = "pending"
    BY <1>0, <1>8, <2>2 DEF AskedEffect
  <2> QED BY <1>6, <2>2, <2>3
<1> QED BY <1>7, <1>8

\* A successor that finds others missing asks for the next round and waits.
LEMMA EarlyArrival ==
    ASSUME FlowInv, NEW p \in Executors, NEW k \in CallersOf(p), DoSchedulePassThrough(k, p),
           ~BeginEffect(k, p)
    PROVE  /\ UNCHANGED <<pc, owner, round>> /\ fut'[<<k, p>>] = "pending"
           /\ k \in Successors(p) /\ pc[p] = "idle" /\ fut[<<k, p>>] = "called"
           /\ Asked(k, p) = round[p] /\ Asked(k, p)' = round[p] + 1
           /\ \A x \in Executors : \A d \in CallersOf(x) :
                 ~(x = p /\ d = k) => fut'[<<d, x>>] = fut[<<d, x>>]
           /\ \A x \in Executors : \A c \in Successors(x) :
                 ~(x = p /\ c = k) => Asked(c, x)' = Asked(c, x)
<1>1. /\ Remaining(p) > 0 /\ UNCHANGED <<pc, owner, round>> /\ fut[<<k, p>>] = "called"
      /\ fut'[<<k, p>>] = "pending"
  BY PassThroughFacts, Zenon
<1>2. \A x \in Executors : \A d \in CallersOf(x) :
                 ~(x = p /\ d = k) => fut'[<<d, x>>] = fut[<<d, x>>]
  BY PassThroughFacts
<1>3. Remaining(p) \in Int
  BY SuccessorCount DEF Remaining, FlowInv, TypeOK
<1>4. Successors(p) # {}
  BY <1>1, <1>3, Arrival
<1>5. k \in Late(p)
  BY <1>4, Arrival
<1>6. k \in Successors(p) /\ Asked(k, p) = round[p] /\ k \in Executors
  BY <1>5 DEF Late, Successors
<1>7. pc[p] = "idle"
  BY <1>1, CalledFacts
<1>8. Asked(k, p)' = round[p] + 1
  BY <1>1, <1>6 DEF Asked, FlowInv, TypeOK
<1>9. \A x \in Executors : \A c \in Successors(x) : c \in CallersOf(x)
  BY DEF CallersOf
<1>10. \A x \in Executors : \A c \in Successors(x) :
                 ~(x = p /\ c = k) => Asked(c, x)' = Asked(c, x)
  BY <1>1, <1>2, <1>9 DEF Asked
<1> QED BY <1>1, <1>2, <1>6, <1>7, <1>8, <1>10, Zenon

LEMMA RoundsStep == FlowInv /\ [Next]_vars => RoundsMatch'
<1> DEFINE Match(c, d) ==
      /\ Kind[d] # "passthrough" => round[d] = Asked(c, d)
      /\ Kind[d] = "passthrough" =>
            \/ Asked(c, d) = round[d]
            \/ Asked(c, d) = round[d] + 1 /\ fut[<<c, d>>] = "pending" /\ pc[d] = "idle"
<1> SUFFICES ASSUME FlowInv, [Next]_vars, NEW d \in Executors, NEW c \in Successors(d)
             PROVE  Match(c, d)'
  <2>1. \A x \in Executors : \A y \in Deps[x] : y \in Executors /\ x \in Successors(y)
    BY CalleeFacts, Zenon
  <2> QED BY <2>1, Zenon DEF RoundsMatch
<1>a. c \in Executors /\ d \in Deps[c] /\ c \in CallersOf(d)
  BY CalleeFacts, Zenon DEF Successors
<1>b. Match(c, d)
  BY <1>a DEF FlowInv, RoundsMatch
<1>1. ASSUME NEW e \in Executors, RunStep(e) PROVE Match(c, d)'
  BY <1>1, <1>b, AskedByRun
<1>2. ASSUME NEW e \in Executors, NEW k \in CallersOf(e), DoSchedule(k, e) PROVE Match(c, d)'
  <2>1. Kind[e] # "passthrough" /\ fut[<<k, e>>] = "called" /\ BeginEffect(k, e)
    BY <1>2, DoScheduleFacts
  <2>2. CASE d # e
    <3>1. /\ Asked(c, d)' = Asked(c, d) /\ round'[d] = round[d] /\ pc'[d] = pc[d]
          /\ fut[<<c, d>>] = "pending" => fut'[<<c, d>>] = "pending"
      <4>1. AskedEffect(k, e, c, d)
        BY <2>1, <2>2, AskedByBegin
      <4> QED BY <2>2, <4>1 DEF AskedEffect
    <3> QED BY <1>b, <3>1
  <2>3. CASE d = e
    <3>1. c = k
      BY <1>a, <2>1, <2>3, CallersFacts
    <3>2. Asked(c, d)' = round[c] /\ Asked(c, d) = round[c] - 1
      <4>1. AskedEffect(k, e, c, d)
        BY <2>1, AskedByBegin
      <4> QED BY <2>3, <3>1, <4>1 DEF AskedEffect
    <3>3. round'[d] = round[d] + 1 /\ round[c] \in Nat /\ round[d] \in Nat
      BY <1>a, <2>1, <2>3 DEF BeginEffect, FlowInv, TypeOK
    <3> QED BY <1>b, <2>1, <2>3, <3>2, <3>3
  <2> QED BY <2>2, <2>3
<1>3. ASSUME NEW e \in Executors, NEW k \in CallersOf(e), DoSchedulePassThrough(k, e)
      PROVE Match(c, d)'
  <2>1. Kind[e] = "passthrough" /\ fut[<<k, e>>] = "called"
    BY <1>3, PassThroughFacts, Zenon
  <2>2. CASE BeginEffect(k, e) /\ d # e
    <3>1. /\ Asked(c, d)' = Asked(c, d) /\ round'[d] = round[d] /\ pc'[d] = pc[d]
          /\ fut[<<c, d>>] = "pending" => fut'[<<c, d>>] = "pending"
      <4>1. AskedEffect(k, e, c, d)
        BY <2>1, <2>2, AskedByBegin
      <4> QED BY <2>2, <4>1 DEF AskedEffect
    <3> QED BY <1>b, <3>1
  <2>3. CASE BeginEffect(k, e) /\ d = e
    BY <1>3, <2>1, <2>3, LastArrival
  <2>4. CASE ~BeginEffect(k, e)
    <3>1. /\ UNCHANGED <<pc, owner, round>> /\ fut'[<<k, e>>] = "pending" /\ pc[e] = "idle"
          /\ Asked(k, e)' = round[e] + 1
      BY <1>3, <2>4, EarlyArrival, Zenon
    <3>2. /\ \A x \in Executors : \A y \in CallersOf(x) :
                ~(x = e /\ y = k) => fut'[<<y, x>>] = fut[<<y, x>>]
          /\ \A x \in Executors : \A y \in Successors(x) :
                ~(x = e /\ y = k) => Asked(y, x)' = Asked(y, x)
      BY <1>3, <2>4, EarlyArrival, SMTT(30), ZenonT(60)
    <3> QED BY <1>a, <1>b, <2>1, <3>1, <3>2
  <2> QED BY <2>2, <2>3, <2>4
<1>4. CASE UNCHANGED <<pc, fut, owner, numOutputs, promise, round>>
  BY <1>4, <1>b DEF Asked
<1> QED BY <1>1, <1>2, <1>3, <1>4, StepKinds, Zenon DEF vars
=============================================================================
