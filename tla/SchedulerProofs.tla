-------------------------- MODULE SchedulerProofs ---------------------------
(***************************************************************************)
(* What the scheduler guarantees, for every plan: PassThroughs, blocks and *)
(* the rest of the control flow, how runs end, and the theorems.           *)
(***************************************************************************)
EXTENDS SchedulerStepProofs

USE PlanAssumption

\* What PassThroughOK says of one PassThrough.
SharedOK(p) ==
    /\ Successors(p) = {} =>
         /\ numOutputs[p] <= 0
         /\ fut[<<QueryInst, Root>>] = "called" => promise[p] = "unset"
    /\ Successors(p) # {} =>
         /\ Late(p) # {}
         /\ \/ numOutputs[p] = Cardinality(Late(p)) /\ promise[p] = "unset" /\ pc[p] = "idle"
            \/ numOutputs[p] = 0 /\ Late(p) = Successors(p)
    /\ pc[p] \in {"calling", "deps"} =>
         /\ promise[p] = "unset"
         /\ \A c \in Successors(p) : fut[<<c, p>>] \in {"entered", "pending"}

LEMMA PassThroughStep == FlowInv /\ [Next]_vars => PassThroughOK'
<1> SUFFICES ASSUME FlowInv, [Next]_vars, NEW p \in Executors, Kind[p] = "passthrough"
             PROVE  SharedOK(p)'
  BY DEF PassThroughOK, SharedOK
<1>a. SharedOK(p)
  BY DEF FlowInv, PassThroughOK, SharedOK
<1>b. \A c \in Successors(p) : c \in Executors /\ c \in CallersOf(p) /\ c # p
  BY CalleeFacts, Zenon DEF Successors
<1>c. QueryInst \in CallersOf(Root)
  BY DEF CallersOf
\* Nothing changes for p as long as nobody arrives at it and it does not run.
<1>d. ASSUME /\ numOutputs'[p] = numOutputs[p] /\ promise'[p] = promise[p] /\ pc'[p] = pc[p]
             /\ round'[p] = round[p] /\ \A c \in Successors(p) : Asked(c, p)' = Asked(c, p)
             /\ fut'[<<QueryInst, Root>>] = "called" => fut[<<QueryInst, Root>>] = "called"
             /\ \A c \in Successors(p) :
                   fut[<<c, p>>] \in {"entered", "pending"} => fut'[<<c, p>>] \in {"entered", "pending"}
      PROVE  SharedOK(p)'
  <2>1. Late(p)' = Late(p)
    BY <1>d DEF Late
  <2> QED BY <1>a, <1>d, <2>1 DEF SharedOK
<1>1. ASSUME NEW e \in Executors, RunStep(e) PROVE SharedOK(p)'
  <2>1. /\ pc[e] # "idle" /\ owner[e] \in CallersOf(e) /\ UNCHANGED <<owner, numOutputs, round>>
        /\ \A x \in Executors : x # e => pc'[x] = pc[x] /\ promise'[x] = promise[x]
        /\ RunEffect(e, fut'[<<owner[e], e>>])
    BY <1>1, RunStepFacts
  <2>2. \A x \in Executors : \A c \in CallersOf(x) : FutureEffect(e, c, x)
    BY <1>1, RunStepFacts, Zenon
  <2>3. fut'[<<owner[e], e>>] \notin {"none", "called", "entered"}
    BY <2>1, States DEF RunEffect
  <2>4. \A c \in Successors(p) : Asked(c, p)' = Asked(c, p)
    BY <1>1, AskedByRun, Zenon
  <2>5. fut'[<<QueryInst, Root>>] = "called" => fut[<<QueryInst, Root>>] = "called"
    BY <1>c, <2>2, <2>3 DEF FutureEffect
  <2>6. CASE p # e
    <3>1. \A c \in Successors(p) :
             fut[<<c, p>>] \in {"entered", "pending"} => fut'[<<c, p>>] \in {"entered", "pending"}
      BY <1>b, <2>2, <2>6 DEF FutureEffect
    <3> QED BY <1>d, <2>1, <2>4, <2>5, <2>6, <3>1
  <2>7. CASE p = e
    <3>1. Late(p)' = Late(p)
      BY <2>1, <2>4 DEF Late
    <3>2. Successors(p) = {} => owner[e] = QueryInst /\ e = Root
      BY <2>1, <2>7, CallersFacts, BlockAssumption
    <3>3. Successors(p) = {} => fut'[<<QueryInst, Root>>] # "called"
      BY <2>3, <3>2
    <3>4. Successors(p) # {} => numOutputs[p] = 0 /\ Late(p) = Successors(p)
      BY <1>a, <2>1, <2>7 DEF SharedOK
    <3>5. pc'[p] \in {"calling", "deps"} =>
            /\ pc[p] = "calling" /\ promise'[p] = promise[p] /\ fut'[<<owner[e], e>>] = "pending"
      BY <2>1, <2>7 DEF RunEffect
    <3>6. pc'[p] \in {"calling", "deps"} =>
            \A c \in Successors(p) : fut'[<<c, p>>] \in {"entered", "pending"}
      BY <1>a, <1>b, <2>2, <2>7, <3>5 DEF SharedOK, FutureEffect
    <3> QED BY <1>a, <2>1, <3>1, <3>3, <3>4, <3>5, <3>6 DEF SharedOK
  <2> QED BY <2>6, <2>7
\* A run of another executor starts.
<1>2. ASSUME NEW e \in Executors, NEW k \in CallersOf(e), fut[<<k, e>>] = "called",
             BeginEffect(k, e), p # e,
             numOutputs'[p] = numOutputs[p], promise'[p] = promise[p]
      PROVE  SharedOK(p)'
  <2>1. \A c \in Successors(p) : AskedEffect(k, e, c, p)
    BY <1>2, AskedByBegin
  <2>2. /\ fut'[<<k, e>>] \in {"entered", "pending"}
        /\ \A d \in Deps[e] : fut[<<e, d>>] = "none" /\ fut'[<<e, d>>] = "called"
        /\ \A y \in Executors : \A d \in CallersOf(y) :
              ~(y = e /\ d = k) /\ ~(d = e /\ y \in Deps[e]) => fut'[<<d, y>>] = fut[<<d, y>>]
    <3>1. Began(k, e)
      BY <1>2, BeginFacts
    <3> QED BY <3>1 DEF Began
  <2>3. fut'[<<QueryInst, Root>>] = "called" => fut[<<QueryInst, Root>>] = "called"
    BY <1>c, <2>2
  <2>4. \A c \in Successors(p) :
           fut[<<c, p>>] \in {"entered", "pending"} => fut'[<<c, p>>] \in {"entered", "pending"}
    BY <1>b, <1>2, <2>2
  <2>5. pc'[p] = pc[p] /\ round'[p] = round[p]
    BY <1>2 DEF BeginEffect
  <2>6. \A c \in Successors(p) : Asked(c, p)' = Asked(c, p)
    BY <1>2, <2>1, Zenon DEF AskedEffect
  <2> QED BY <1>d, <1>2, <2>3, <2>4, <2>5, <2>6
<1>3. ASSUME NEW e \in Executors, NEW k \in CallersOf(e), DoSchedule(k, e) PROVE SharedOK(p)'
  <2>1. /\ Kind[e] # "passthrough" /\ fut[<<k, e>>] = "called"
        /\ UNCHANGED <<numOutputs, promise>> /\ BeginEffect(k, e)
    BY <1>3, DoScheduleFacts
  <2> QED BY <1>2, <2>1
<1>4. ASSUME NEW e \in Executors, NEW k \in CallersOf(e), DoSchedulePassThrough(k, e)
      PROVE SharedOK(p)'
  <2>1. /\ fut[<<k, e>>] = "called" /\ numOutputs'[e] = Remaining(e) /\ promise'[e] = "unset"
        /\ \A x \in Executors : x # e => numOutputs'[x] = numOutputs[x] /\ promise'[x] = promise[x]
    BY <1>4, PassThroughFacts, Zenon
  <2>2. CASE BeginEffect(k, e) /\ p # e
    BY <1>2, <2>1, <2>2
  <2>3. CASE BeginEffect(k, e) /\ p = e
    <3>1. CASE Successors(p) = {}
      <4>1. Remaining(p) < 0
        BY <1>4, <2>3, <3>1, Arrival
      <4>2. k = QueryInst /\ e = Root
        BY <2>3, <3>1, CallersFacts, BlockAssumption, Zenon
      <4>3. fut'[<<k, e>>] \in {"entered", "pending"}
        <5>1. Began(k, e)
          BY <2>1, <2>3, BeginFacts
        <5> QED BY <2>3, <5>1 DEF Began
      <4>4. Remaining(p) \in Int
        BY SuccessorCount DEF Remaining, FlowInv, TypeOK
      <4> QED BY <2>1, <2>3, <3>1, <4>1, <4>2, <4>3, <4>4 DEF SharedOK
    <3>2. CASE Successors(p) # {}
      <4>1. \A c \in Successors(p) : Asked(c, p)' = round'[p] /\ fut'[<<c, p>>] \in {"entered", "pending"}
        BY <1>4, <2>3, LastArrival
      <4>2. Late(p)' = Successors(p)
        BY <4>1, Zenon DEF Late
      <4>3. pc[p] = "idle" /\ pc'[p] # "idle"
        <5>1. Began(k, e)
          BY <2>1, <2>3, BeginFacts
        <5> QED BY <2>3, <5>1 DEF Began
      <4>4. Remaining(p) <= 0
        BY <1>4, <2>3, <4>3, PassThroughFacts
      <4>5. Remaining(p) = 0
        BY <1>4, <2>3, <3>2, <4>4, Arrival
      <4> QED BY <2>1, <2>3, <3>2, <4>1, <4>2, <4>5 DEF SharedOK
    <3> QED BY <3>1, <3>2
  <2>4. CASE ~BeginEffect(k, e)
    <3>1. /\ UNCHANGED <<pc, owner, round>> /\ pc[e] = "idle" /\ k \in Successors(e)
          /\ Asked(k, e) = round[e] /\ Asked(k, e)' = round[e] + 1
      BY <1>4, <2>4, EarlyArrival
    <3>2. /\ \A x \in Executors : \A y \in CallersOf(x) :
                ~(x = e /\ y = k) => fut'[<<y, x>>] = fut[<<y, x>>]
          /\ \A x \in Executors : \A y \in Successors(x) :
                ~(x = e /\ y = k) => Asked(y, x)' = Asked(y, x)
      BY <1>4, <2>4, EarlyArrival
    <3>3. k # QueryInst
      BY <3>1 DEF Successors
    <3>4. CASE p # e
      <4>1. fut'[<<QueryInst, Root>>] = fut[<<QueryInst, Root>>]
        BY <1>c, <3>2, <3>3
      <4> QED BY <1>b, <1>d, <2>1, <3>1, <3>2, <3>4, <4>1
    <3>5. CASE p = e
      <4>1. /\ k \in Late(p) /\ IsFiniteSet(Late(p)) /\ Remaining(p) = Cardinality(Late(p)) - 1
        BY <1>4, <3>1, <3>5, Arrival
      <4>2. round[e] \in Nat
        BY DEF FlowInv, TypeOK
      <4>3. Late(p)' = Late(p) \ {k}
        BY <3>1, <3>2, <3>5, <4>2 DEF Late
      <4>4. Cardinality(Late(p) \ {k}) = Cardinality(Late(p)) - 1
        BY <4>1, FS_RemoveElement, Zenon
      <4>5. Remaining(p) > 0
        BY <1>4, <2>4, <3>5, PassThroughFacts
      <4>6. Late(p)' # {}
        <5>1. Cardinality(Late(p) \ {k}) > 0
          BY <4>1, <4>4, <4>5
        <5>2. Late(p) \ {k} # {}
          BY <5>1, NonEmpty
        <5> QED BY <4>3, <5>2
      <4> QED BY <2>1, <3>1, <3>5, <4>1, <4>3, <4>4, <4>6 DEF SharedOK
    <3> QED BY <3>4, <3>5
  <2> QED BY <2>2, <2>3, <2>4
<1>5. CASE UNCHANGED <<pc, fut, owner, numOutputs, promise, round>>
  BY <1>5, <1>a DEF SharedOK, Late, Asked
<1> QED BY <1>1, <1>3, <1>4, <1>5, StepKinds DEF vars

\* Whatever is active or failed below the head of a block was so higher up.
LEMMA BlockDone ==
    ASSUME FlowInv, NEW b \in Executors, Block[b] = b, pc[b] \in {"exec", "body"}
    PROVE  \A x \in Executors : Block[x] = b =>
              /\ x # b => pc[x] = "idle" /\ ~Broken(x)
              /\ round[x] = round[b]
<1>a. ~Broken(b)
  BY DEF Broken
<1>b. \A x \in Executors : x # b /\ Block[x] = b => Block[x] # x
  OBVIOUS
<1>1. \A x \in Executors : Block[x] = b /\ x # b => pc[x] = "idle" /\ ~Broken(x)
  <2> DEFINE T == {x \in Executors : Block[x] = b /\ x # b /\ (pc[x] # "idle" \/ Broken(x))}
  <2> SUFFICES ASSUME T # {} PROVE FALSE
    OBVIOUS
  <2>1. PICK m \in T : \A y \in T : ~(Depth[y] < Depth[m])
    BY Nearest, Zenon
  <2>2. owner[m] \in CallersOf(m) /\ fut[<<owner[m], m>>] # "none"
    BY <2>1, States DEF FlowInv, OwnerWaits, Broken
  <2>3. /\ owner[m] \in Executors /\ m \in Deps[owner[m]] /\ Block[owner[m]] = b
    BY <1>b, <2>1, <2>2, CallersFacts
  <2>4. pc[owner[m]] \in {"calling", "deps"} \/ Broken(owner[m])
    BY <2>2, <2>3 DEF FlowInv, FuturesHeld
  <2>5. owner[m] \in T
    BY <1>a, <2>3, <2>4
  <2>6. Depth[owner[m]] < Depth[m]
    BY <2>3, AcyclicAssumption
  <2> QED BY <2>1, <2>5, <2>6
<1>2. \A x \in Executors : Block[x] = b => round[x] = round[b]
  <2> DEFINE T == {x \in Executors : Block[x] = b /\ round[x] # round[b]}
  <2> SUFFICES ASSUME T # {} PROVE FALSE
    OBVIOUS
  <2>1. PICK m \in T : \A y \in T : ~(Depth[y] < Depth[m])
    BY Nearest, Zenon
  <2>2. PICK c : c \in Successors(m)
    <3>1. m \in Executors /\ m # b /\ Block[m] = b
      BY <2>1
    <3>2. Block[m] # m
      BY <3>1
    <3> QED BY <3>1, <3>2, BlockAssumption
  <2>3. c \in Executors /\ m \in Deps[c] /\ Block[c] = b
    BY <2>1, <2>2, BlockAssumption DEF Successors
  <2>4. Depth[c] < Depth[m]
    BY <2>3, AcyclicAssumption
  <2>5. round[c] = round[b]
    BY <2>1, <2>3, <2>4
  <2>6. fut[<<c, m>>] = "none"
    BY <1>1, <1>a, <2>3 DEF FlowInv, FuturesHeld
  <2>7. round[m] = Asked(c, m)
    BY <2>1, <2>2, <2>3, <2>6 DEF FlowInv, RoundsMatch
  <2> QED BY <2>1, <2>5, <2>6, <2>7 DEF Asked
<1> QED BY <1>1, <1>2

LEMMA BlocksStep == FlowInv /\ [Next]_vars => BlocksOK'
<1> DEFINE InRound(x) ==
      /\ round[x] \in {round[Block[x]], round[Block[x]] - 1}
      /\ pc[x] # "idle" \/ Broken(x) => round[x] = round[Block[x]]
<1> SUFFICES ASSUME FlowInv, [Next]_vars, NEW x \in Executors PROVE InRound(x)'
  BY DEF BlocksOK
<1>a. InRound(x) /\ Block[x] \in Executors /\ round[x] \in Nat /\ round[Block[x]] \in Nat
  BY BlockAssumption DEF FlowInv, BlocksOK, TypeOK
<1>b. Next => (Broken(x)' => Broken(x) \/ pc[x] # "idle")
  BY BrokenStep
<1>1. ASSUME NEW e \in Executors, RunStep(e), Next PROVE InRound(x)'
  <2>1. /\ pc[e] # "idle" /\ UNCHANGED <<owner, numOutputs, round>>
        /\ \A y \in Executors : y # e => pc'[y] = pc[y] /\ promise'[y] = promise[y]
    BY <1>1, RunStepFacts, Zenon
  <2> QED BY <1>1, <1>a, <1>b, <2>1
<1>2. ASSUME NEW e \in Executors, NEW k \in CallersOf(e), fut[<<k, e>>] = "called",
             BeginEffect(k, e), Next
      PROVE  InRound(x)'
  <2>1. /\ round'[e] = round[e] + 1 /\ round[e] \in Nat
        /\ \A y \in Executors : y # e => pc'[y] = pc[y] /\ round'[y] = round[y]
    BY <1>2 DEF BeginEffect, FlowInv, TypeOK
  <2>2. CASE Block[e] = e
    <3>1. Block[x] = e => pc[x] = "idle" /\ ~Broken(x) /\ round[x] = round[e]
      BY <1>2, <2>2, CalledFacts
    <3> QED BY <1>2, <1>a, <1>b, <2>1, <2>2, <3>1
  <2>3. CASE Block[e] # e
    <3>1. Block[x] # e
      BY <2>3, Heads
    <3>2. round[e] = round[Block[e]] - 1
      BY <1>2, <2>3, CalledFacts
    <3>3. x = e => round'[x] = round'[Block[x]]
      BY <1>a, <2>1, <2>3, <3>2
    <3> QED BY <1>2, <1>a, <1>b, <2>1, <3>1, <3>3
  <2> QED BY <2>2, <2>3
<1>3. ASSUME NEW e \in Executors, NEW k \in CallersOf(e), DoSchedule(k, e), Next PROVE InRound(x)'
  BY <1>2, <1>3, DoScheduleFacts, Zenon
<1>4. ASSUME NEW e \in Executors, NEW k \in CallersOf(e), DoSchedulePassThrough(k, e), Next
      PROVE InRound(x)'
  <2>1. CASE BeginEffect(k, e)
    BY <1>2, <1>4, <2>1, PassThroughFacts, Zenon
  <2>2. CASE ~BeginEffect(k, e)
    <3>1. UNCHANGED <<pc, owner, round>>
      BY <1>4, <2>2, EarlyArrival
    <3> QED BY <1>4, <1>a, <1>b, <3>1
  <2> QED BY <2>1, <2>2
<1>5. CASE UNCHANGED <<pc, fut, owner, numOutputs, promise, round>>
  BY <1>5, <1>a DEF Broken
<1>6. CASE Next
  BY <1>1, <1>3, <1>4, <1>5, <1>6, StepKinds
<1> QED BY <1>5, <1>6 DEF vars

LEMMA QuietStep == FlowInv /\ [Next]_vars => QuietBlocks'
<1> DEFINE Rest == {"none", "called", "ok"}
<1> SUFFICES ASSUME FlowInv, [Next]_vars, NEW b \in Executors, NEW c \in CallersOf(b), Block[b] = b,
                    fut'[<<c, b>>] \in Rest, NEW x \in Executors, Block[x] = b
             PROVE  (pc[x] = "idle" /\ ~Broken(x) /\ round[x] = round[b])'
  BY DEF QuietBlocks
<1> DEFINE Quiet == pc[x] = "idle" /\ ~Broken(x) /\ round[x] = round[b]
<1>a. fut[<<c, b>>] \in Rest => \A y \in Executors : Block[y] = b =>
                                   pc[y] = "idle" /\ ~Broken(y) /\ round[y] = round[b]
  BY DEF FlowInv, QuietBlocks
<1>b. Next => (Broken(x)' => Broken(x) \/ pc[x] # "idle")
  BY BrokenStep
<1>c. c # b /\ \A other \in CallersOf(b) : other = c
  BY CallersFacts
<1>1. ASSUME NEW e \in Executors, RunStep(e), Next PROVE Quiet'
  <2>1. /\ pc[e] # "idle" /\ owner[e] \in CallersOf(e) /\ UNCHANGED <<owner, numOutputs, round>>
        /\ \A y \in Executors : y # e => pc'[y] = pc[y] /\ promise'[y] = promise[y]
        /\ RunEffect(e, fut'[<<owner[e], e>>])
    BY <1>1, RunStepFacts
  <2>2. FutureEffect(e, c, b)
    BY <1>1, RunStepFacts, Zenon
  <2>3. CASE fut[<<c, b>>] \in Rest
    BY <1>1, <1>a, <1>b, <2>1, <2>3
  <2>4. CASE fut[<<c, b>>] \notin Rest
    <3>1. b = e /\ c = owner[e]
      BY <1>c, <2>1, <2>2, <2>4 DEF FutureEffect
    <3>2. fut'[<<c, b>>] = "ok" /\ pc'[b] = "idle" /\ pc[b] \in {"exec", "body"}
      BY <2>1, <3>1, States DEF RunEffect
    <3>3. (x # b => pc[x] = "idle" /\ ~Broken(x)) /\ round[x] = round[b]
      BY <3>2, BlockDone
    <3>4. x # b => pc'[x] = "idle" /\ ~Broken(x)'
      BY <1>1, <1>b, <2>1, <3>1, <3>3
    <3>5. ~Broken(b)'
      BY <2>1, <3>1, <3>2, States DEF Broken
    <3> QED BY <2>1, <3>2, <3>3, <3>4, <3>5
  <2> QED BY <2>3, <2>4
<1>2. ASSUME NEW e \in Executors, NEW k \in CallersOf(e), fut[<<k, e>>] = "called",
             BeginEffect(k, e), Next
      PROVE  Quiet'
  <2>1. \A y \in Executors : y # e => pc'[y] = pc[y] /\ round'[y] = round[y]
    BY <1>2 DEF BeginEffect
  <2>2. fut'[<<k, e>>] \in {"entered", "pending"}
    BY <1>2 DEF BeginEffect
  <2>3. b # e
    BY <1>c, <2>2
  <2>4. fut'[<<c, b>>] = fut[<<c, b>>]
    <3>1. b \notin Deps[e]
      BY CalleeFacts, Zenon
    <3> QED BY <1>2, <2>3, <3>1 DEF BeginEffect
  <2>5. Block[e] # b
    <3> SUFFICES ASSUME Block[e] = b PROVE FALSE
      OBVIOUS
    <3>1. pc[k] = "calling"
      BY <1>2, <2>3, CalledFacts
    <3>2. k \in Executors /\ Block[k] = b
      BY <2>3, CallersFacts, Zenon
    <3> QED BY <1>a, <2>4, <3>1, <3>2
  <2> QED BY <1>2, <1>a, <1>b, <2>1, <2>3, <2>4, <2>5
<1>3. ASSUME NEW e \in Executors, NEW k \in CallersOf(e), DoSchedule(k, e), Next PROVE Quiet'
  BY <1>2, <1>3, DoScheduleFacts, Zenon
<1>4. ASSUME NEW e \in Executors, NEW k \in CallersOf(e), DoSchedulePassThrough(k, e), Next
      PROVE Quiet'
  <2>1. CASE BeginEffect(k, e)
    BY <1>2, <1>4, <2>1, PassThroughFacts, Zenon
  <2>2. CASE ~BeginEffect(k, e)
    <3>1. UNCHANGED <<pc, owner, round>> /\ k \in Successors(e)
      BY <1>4, <2>2, EarlyArrival
    <3>2. \A y \in Executors : \A d \in CallersOf(y) :
                 ~(y = e /\ d = k) => fut'[<<d, y>>] = fut[<<d, y>>]
      BY <1>4, <2>2, EarlyArrival
    <3>3. b # e
      <4>1. Successors(e) # {}
        BY <3>1
      <4>2. Block[e] # e
        BY <4>1, BlockAssumption
      <4> QED BY <4>2
    <3> QED BY <1>4, <1>a, <1>b, <3>1, <3>2, <3>3
  <2> QED BY <2>1, <2>2
<1>5. CASE UNCHANGED <<pc, fut, owner, numOutputs, promise, round>>
  BY <1>5, <1>a DEF Broken
<1>6. CASE Next
  BY <1>1, <1>3, <1>4, <1>5, <1>6, StepKinds
<1> QED BY <1>5, <1>6 DEF vars

-----------------------------------------------------------------------------
(***************************************************************************)
(* The invariant of the control flow, put together.                        *)
(***************************************************************************)
LEMMA FlowInit == Init => FlowInv
<1> SUFFICES ASSUME Init PROVE FlowInv
  OBVIOUS
<1>0. TypeOK
  BY TypeInit
<1>1. /\ \A e \in Executors : pc[e] = "idle" /\ round[e] = 0 /\ promise[e] = "unset"
      /\ \A e \in Executors : numOutputs[e] = Cardinality(Successors(e))
  BY DEF Init
<1>2. \A e \in Executors : \A c \in CallersOf(e) :
         fut[<<c, e>>] = IF c = QueryInst /\ e = Root THEN "called" ELSE "none"
  <2>1. \A e \in Executors : \A c \in CallersOf(e) : <<c, e>> \in Edges
    BY CallersFacts, Zenon
  <2> QED BY <2>1, Zenon DEF Init
<1>3. \A e \in Executors : ~Broken(e)
  BY <1>2, States DEF Broken
<1>4. \A c \in Executors : \A d \in Deps[c] \cup Bodies[c] :
         d \in Executors /\ c \in CallersOf(d) /\ fut[<<c, d>>] = "none"
  <2>1. \A c \in Executors : \A d \in Deps[c] \cup Bodies[c] : d \in Executors /\ c \in CallersOf(d)
    BY CalleeFacts, Zenon
  <2> QED BY <1>2, <2>1, PlanAssumption
<1>5. \A e \in Executors : \A c \in Successors(e) :
         c \in Executors /\ fut[<<c, e>>] = "none" /\ Asked(c, e) = 0
  BY <1>1, <1>4 DEF Successors, Asked
<1>6. OwnerWaits /\ FuturesHeld
  BY <1>1, <1>4 DEF OwnerWaits, FuturesHeld
<1>7. RoundsMatch
  <2>1. \A c \in Executors : \A d \in Deps[c] : d \in Executors /\ c \in Successors(d)
    BY CalleeFacts, Zenon
  <2> QED BY <1>1, <1>5, <2>1, Zenon DEF RoundsMatch
<1>8. PassThroughOK
  <2>1. \A p \in Executors : Late(p) = Successors(p)
    BY <1>1, <1>5, Zenon DEF Late
  <2>2. \A p \in Executors : Successors(p) = {} => Cardinality(Successors(p)) = 0
    BY FS_EmptySet
  <2> QED BY <1>1, <2>1, <2>2 DEF PassThroughOK
<1>9. BlocksOK /\ QuietBlocks
  BY <1>1, <1>3, BlockAssumption DEF BlocksOK, QuietBlocks
<1> QED BY <1>0, <1>6, <1>7, <1>8, <1>9 DEF FlowInv

LEMMA FlowStep == FlowInv /\ [Next]_vars => FlowInv'
  BY TypeStep, OwnerStep, FuturesStep, RoundsStep, PassThroughStep, BlocksStep, QuietStep
  DEF FlowInv

-----------------------------------------------------------------------------
(***************************************************************************)
(* How runs end: what was executed, what failed, what was answered.        *)
(***************************************************************************)
\* What a step of the run of e has to do with its execution.
Outcome(e) ==
    /\ query = "running" /\ query' = query
    /\ \A x \in Executors : x # e => ver'[x] = ver[x]
    /\ e \in Repeated =>
          \/ /\ ver'[e] = ver[e] + 1 /\ pc'[e] = "idle" /\ fut'[<<owner[e], e>>] = "ok"
          \/ /\ ver'[e] = ver[e]
             /\ pc'[e] # "idle" \/ (pc'[e] = "idle" /\ fut'[<<owner[e], e>>] \in Bad)
    /\ \/ failed' = failed
       \/ failed' = failed \cup {e} /\ pc'[e] = "idle" /\ fut'[<<owner[e], e>>] \in Bad
    /\ Kind[e] = "passthrough" => pc'[e] # "body"

LEMMA OutcomeFacts ==
    ASSUME FlowInv, NEW e \in Executors, RunStep(e)
    PROVE  Outcome(e)
<1>a. TypeOK /\ owner[e] \in CallersOf(e) /\ <<owner[e], e>> \in Edges /\ owner[e] # e /\ pc[e] # "idle"
  BY RunStepFacts, CallersFacts DEF FlowInv
<1>b. Bad = {"err", "exc"} /\ Resolved = {"ok", "err", "exc"}
  BY States
<1>c. Kind[e] \in {"loop", "select"} => e \notin Repeated /\ Kind[e] # "passthrough"
  BY DEF Repeated
<1>d. Bodies[e] # {} => Kind[e] \in {"loop", "select"}
  BY SharingAssumption
<1>e. \A b \in Bodies[e] : <<e, b>> \in Edges /\ <<e, b>> # <<owner[e], e>>
  BY <1>a, CalleeFacts
<1> USE DEF TypeOK
<1>1. CASE Returned(e)
  BY <1>1, <1>a DEF Returned, Outcome
<1>2. CASE DependencyThrows(e)
  BY <1>2, <1>a, <1>b DEF DependencyThrows, Finish, Outcome
<1>3. CASE DependencyFails(e)
  BY <1>3, <1>a, <1>b DEF DependencyFails, Outcome
<1>4. CASE Execute(e)
  BY <1>4, <1>a DEF Execute, Outcome
<1>5. CASE ExecuteOK(e)
  BY <1>5, <1>a DEF ExecuteOK, Executed, Finish, Outcome
<1>6. CASE ExecuteFails(e)
  BY <1>6, <1>a, <1>b DEF ExecuteFails, Finish, Outcome
<1>7. CASE LoopExit(e)
  BY <1>7, <1>a, <1>c DEF LoopExit, Executed, Finish, Outcome
<1>8. ASSUME NEW b \in Bodies[e], ScheduleBody(e, b) PROVE Outcome(e)
  BY <1>8, <1>a, <1>c, <1>d DEF ScheduleBody, Executed, Outcome
<1>9. ASSUME NEW b \in Bodies[e], LoopBodyDone(e, b) PROVE Outcome(e)
  BY <1>9, <1>a, <1>b, <1>c, <1>d DEF LoopBodyDone, Finish, Outcome
<1>10. ASSUME NEW b \in Bodies[e], SelectBodyDone(e, b) PROVE Outcome(e)
  BY <1>10, <1>a, <1>b, <1>c, <1>d DEF SelectBodyDone, Outcome
<1> QED BY <1>1, <1>2, <1>3, <1>4, <1>5, <1>6, <1>7, <1>8, <1>9, <1>10 DEF RunStep

\* As long as nothing has failed, no future turns bad.
LEMMA NoBadFuture ==
    ASSUME FlowInv, NEW e \in Executors, RunStep(e), failed' = {},
           \A ce \in Edges : fut[ce] \notin Bad
    PROVE  \A ce \in Edges : fut'[ce] \notin Bad
<1>a. TypeOK /\ Bad = {"err", "exc"} /\ Resolved = {"ok", "err", "exc"}
  BY States DEF FlowInv
<1>b. \A d \in Deps[e] \cup Bodies[e] : <<e, d>> \in Edges
  BY CalleeFacts
<1> USE DEF TypeOK
<1>1. CASE Returned(e)
  BY <1>1, <1>a DEF Returned
<1>2. ~DependencyThrows(e) /\ ~DependencyFails(e)
  BY <1>a, <1>b, Zenon DEF DependencyThrows, DependencyFails
<1>3. CASE Execute(e)
  BY <1>3, <1>a DEF Execute
<1>4. CASE ExecuteOK(e) \/ LoopExit(e)
  BY <1>4, <1>a DEF ExecuteOK, LoopExit, Executed, Finish
<1>5. ~ExecuteFails(e)
  BY DEF ExecuteFails
<1>6. ASSUME NEW b \in Bodies[e], ScheduleBody(e, b) \/ LoopBodyDone(e, b)
      PROVE  \A ce \in Edges : fut'[ce] \notin Bad
  BY <1>6, <1>a, <1>b DEF ScheduleBody, LoopBodyDone
<1>7. ASSUME NEW b \in Bodies[e], SelectBodyDone(e, b)
      PROVE  \A ce \in Edges : fut'[ce] \notin Bad
  BY <1>7, <1>a, <1>b DEF SelectBodyDone
<1> QED BY <1>1, <1>2, <1>3, <1>4, <1>5, <1>6, <1>7 DEF RunStep

\* A PassThrough that ends badly without having failed itself lets nobody go on.
LEMMA SharedFailure ==
    ASSUME FlowInv, NEW p \in Executors, Kind[p] = "passthrough", pc[p] # "body", RunStep(p),
           Broken(p)', p \notin failed'
    PROVE  \A c \in Successors(p) : fut'[<<c, p>>] \notin {"none", "ok"}
<1>a. TypeOK /\ Bad = {"err", "exc"}
  BY States DEF FlowInv
<1>b. owner[p] \in CallersOf(p) /\ <<owner[p], p>> \in Edges
  BY RunStepFacts, CallersFacts
<1>c. \A c \in Successors(p) : <<c, p>> \in Edges /\ c \notin Deps[p] /\ c # p
  BY CalleeFacts, AcyclicAssumption, EdgeFacts DEF Successors
<1>d. pc[p] = "deps" => \A c \in Successors(p) : fut[<<c, p>>] \in {"entered", "pending"}
  BY DEF FlowInv, PassThroughOK
<1>e. pc'[p] = "idle" /\ owner' = owner /\ fut'[<<owner[p], p>>] \in Bad
  BY RunStepFacts DEF Broken
<1> USE DEF TypeOK
<1>1. CASE DependencyThrows(p)
  BY <1>1, <1>a, <1>b, <1>c, <1>d DEF DependencyThrows, Finish
<1>2. CASE DependencyFails(p)
  BY <1>2, <1>a, <1>b, <1>c, <1>d DEF DependencyFails
<1>3. ~Returned(p) /\ ~Execute(p)
  BY <1>a, <1>e DEF Returned, Execute
<1>4. ~ExecuteOK(p) /\ ~ExecuteFails(p) /\ ~LoopExit(p)
  BY <1>a, <1>b, <1>e DEF ExecuteOK, ExecuteFails, LoopExit, Finish
<1>5. Bodies[p] = {}
  BY SharingAssumption
<1> QED BY <1>1, <1>2, <1>3, <1>4, <1>5 DEF RunStep

\* Every step needs a running query; only OnFinish and OnError end it.
LEMMA QueryFacts ==
    ASSUME Next
    PROVE  /\ query = "running"
           /\ query' = query \/ OnFinish \/ OnError
           /\ \/ \E e \in Executors : RunStep(e)
              \/ UNCHANGED <<ver, failed>>
<1>1. CASE OnFinish \/ OnError
  BY <1>1 DEF OnFinish, OnError
<1>2. ASSUME NEW e \in Executors, NEW c \in CallersOf(e),
             DoSchedule(c, e) \/ DoSchedulePassThrough(c, e)
      PROVE  query = "running" /\ query' = query /\ UNCHANGED <<ver, failed>>
  BY <1>2 DEF DoSchedule, DoSchedulePassThrough
<1>3. ASSUME NEW e \in Executors, RunStep(e)
      PROVE  query = "running" /\ query' = query
  BY <1>3, Zenon DEF RunStep, Returned, DependencyThrows, DependencyFails, Execute, ExecuteOK,
                     ExecuteFails,
              LoopExit, Executed, ScheduleBody, LoopBodyDone, SelectBodyDone
<1>4. \/ OnFinish \/ OnError
      \/ \E e \in Executors : RunStep(e)
      \/ \E e \in Executors : \E c \in CallersOf(e) : DoSchedule(c, e) \/ DoSchedulePassThrough(c, e)
  BY DEF Next, Step, RunStep
<1> QED BY <1>1, <1>2, <1>3, <1>4

LEMMA AnswerStep == IInv /\ [Next]_vars => AnswerOK'
<1>1. ASSUME IInv, Next PROVE AnswerOK'
  <2>1. CASE OnFinish
    BY <1>1, <2>1 DEF OnFinish, AnswerOK
  <2>2. CASE OnError
    BY <1>1, <2>2 DEF OnError, AnswerOK
  <2>3. CASE query' = query
    BY <1>1, <2>3, QueryFacts DEF AnswerOK
  <2> QED BY <1>1, <2>1, <2>2, <2>3, QueryFacts
<1>2. ASSUME IInv, UNCHANGED vars PROVE AnswerOK'
  BY <1>2 DEF IInv, AnswerOK, vars
<1> QED BY <1>1, <1>2

\* A step that starts a run of e on behalf of c, or lets c wait for e.
Arrives(c, e) == DoSchedule(c, e) \/ DoSchedulePassThrough(c, e)

LEMMA ArrivalFacts ==
    ASSUME FlowInv, NEW e \in Executors, NEW c \in CallersOf(e), Arrives(c, e)
    PROVE  /\ UNCHANGED <<ver, failed>> /\ fut[<<c, e>>] = "called" /\ pc[e] = "idle" /\ ~Broken(e)
           /\ \/ BeginEffect(c, e) /\ pc'[e] # "idle"
              \/ /\ UNCHANGED <<pc, owner, round>> /\ fut'[<<c, e>>] = "pending"
                 /\ \A x \in Executors : \A d \in CallersOf(x) :
                       ~(x = e /\ d = c) => fut'[<<d, x>>] = fut[<<d, x>>]
<1>1. UNCHANGED <<ver, failed>> /\ fut[<<c, e>>] = "called"
  BY DEF Arrives, DoSchedule, DoSchedulePassThrough
<1>2. pc[e] = "idle" /\ ~Broken(e)
  BY <1>1, CalledFacts
<1>3. BeginEffect(c, e) => pc'[e] # "idle"
  BY DEF BeginEffect
<1>4. CASE DoSchedule(c, e)
  <2>1. BeginEffect(c, e)
    BY <1>4, DoScheduleFacts, Zenon
  <2> QED BY <1>1, <1>2, <1>3, <2>1
<1>5. CASE DoSchedulePassThrough(c, e)
  <2>1. ~BeginEffect(c, e) =>
           /\ UNCHANGED <<pc, owner, round>> /\ fut'[<<c, e>>] = "pending"
           /\ \A x \in Executors : \A d \in CallersOf(x) :
                 ~(x = e /\ d = c) => fut'[<<d, x>>] = fut[<<d, x>>]
    <3> SUFFICES ASSUME ~BeginEffect(c, e)
                 PROVE  /\ UNCHANGED <<pc, owner, round>> /\ fut'[<<c, e>>] = "pending"
                        /\ \A x \in Executors : \A d \in CallersOf(x) :
                              ~(x = e /\ d = c) => fut'[<<d, x>>] = fut[<<d, x>>]
      OBVIOUS
    <3>1. UNCHANGED <<pc, owner, round>> /\ fut'[<<c, e>>] = "pending"
      BY <1>5, EarlyArrival, Zenon
    <3>2. \A x \in Executors : \A d \in CallersOf(x) :
             ~(x = e /\ d = c) => fut'[<<d, x>>] = fut[<<d, x>>]
      BY <1>5, EarlyArrival
    <3> QED BY <3>1, <3>2
  <2> QED BY <1>1, <1>2, <1>3, <2>1
<1> QED BY <1>4, <1>5 DEF Arrives

\* The steps, as the lemmas below distinguish them.
LEMMA StepCases ==
    Next => \/ \E e \in Executors : RunStep(e)
            \/ \E e \in Executors : \E c \in CallersOf(e) : Arrives(c, e)
            \/ UNCHANGED <<pc, fut, owner, round, ver, failed>>
  BY Zenon DEF Next, Step, RunStep, Arrives, OnFinish, OnError

LEMMA ExecutionsStep == IInv /\ [Next]_vars => Executions'
<1> DEFINE Counted(x) == ver[x] = IF pc[x] # "idle" \/ Broken(x) THEN round[x] - 1 ELSE round[x]
<1> SUFFICES ASSUME IInv, [Next]_vars, NEW x \in Repeated PROVE Counted(x)'
  BY DEF Executions, Repeated
<1>a. x \in Executors /\ Counted(x) /\ FlowInv /\ round[x] \in Nat
  BY DEF IInv, FlowInv, TypeOK, Executions, Repeated
<1>b. Next => (Broken(x) => Broken(x)') /\ (Broken(x)' => Broken(x) \/ pc[x] # "idle")
  BY <1>a, BrokenStep
<1>c. Next /\ ver'[x] = ver[x] /\ pc'[x] = pc[x] /\ round'[x] = round[x] => Counted(x)'
  BY <1>a, <1>b
<1>1. ASSUME Next, NEW e \in Executors, RunStep(e) PROVE Counted(x)'
  <2>1. /\ pc[e] # "idle" /\ UNCHANGED <<owner, numOutputs, round>> /\ owner[e] \in CallersOf(e)
        /\ \A y \in Executors : y # e => pc'[y] = pc[y] /\ promise'[y] = promise[y]
    BY <1>1, <1>a, RunStepFacts, Zenon
  <2>2. Outcome(e)
    BY <1>1, <1>a, OutcomeFacts
  <2>3. CASE x # e
    BY <1>1, <1>a, <1>c, <2>1, <2>2, <2>3 DEF Outcome
  <2>4. CASE x = e
    <3>1. ver[x] = round[x] - 1 /\ round'[x] = round[x]
      BY <1>a, <2>1, <2>4
    <3>2. Broken(x)' <=> pc'[x] = "idle" /\ fut'[<<owner[e], e>>] \in Bad
      BY <2>1, <2>4 DEF Broken
    <3>3. "ok" \notin Bad
      BY States
    <3>4. \/ ver'[x] = ver[x] + 1 /\ pc'[x] = "idle" /\ fut'[<<owner[e], e>>] = "ok"
          \/ /\ ver'[x] = ver[x]
             /\ pc'[x] # "idle" \/ (pc'[x] = "idle" /\ fut'[<<owner[e], e>>] \in Bad)
      BY <2>2, <2>4 DEF Outcome
    <3>5. \/ ver'[x] = ver[x] + 1 /\ pc'[x] = "idle" /\ ~Broken(x)'
          \/ ver'[x] = ver[x] /\ (pc'[x] # "idle" \/ Broken(x)')
      BY <3>2, <3>3, <3>4
    <3> QED BY <1>a, <3>1, <3>5
  <2> QED BY <2>3, <2>4
<1>2. ASSUME Next, NEW e \in Executors, NEW c \in CallersOf(e), Arrives(c, e) PROVE Counted(x)'
  <2>1. /\ UNCHANGED <<ver, failed>> /\ pc[e] = "idle" /\ ~Broken(e)
        /\ (BeginEffect(c, e) /\ pc'[e] # "idle") \/ UNCHANGED <<pc, owner, round>>
    BY <1>2, <1>a, ArrivalFacts
  <2>2. CASE UNCHANGED <<pc, owner, round>>
    BY <1>2, <1>c, <2>1, <2>2
  <2>3. CASE BeginEffect(c, e) /\ pc'[e] # "idle"
    <3>1. CASE x # e
      BY <1>2, <1>a, <1>c, <2>1, <2>3, <3>1, Zenon DEF BeginEffect
    <3>2. CASE x = e
      <4>1. ver[x] = round[x]
        BY <1>a, <2>1, <3>2
      <4>2. ver'[x] = ver[x] /\ round'[x] = round[x] + 1 /\ pc'[x] # "idle"
        BY <2>1, <2>3, <3>2 DEF BeginEffect
      <4>3. ver'[x] = round'[x] - 1
        <5>1. \A n \in Nat : n = (n + 1) - 1
          OBVIOUS
        <5> QED BY <1>a, <4>1, <4>2, <5>1
      <4> QED BY <4>2, <4>3
    <3> QED BY <3>1, <3>2
  <2> QED BY <2>1, <2>2, <2>3
<1>3. CASE UNCHANGED vars
  BY <1>3, <1>a DEF vars, Broken
<1> QED BY <1>1, <1>2, <1>3, <1>c, StepCases

LEMMA FailuresStep == IInv /\ [Next]_vars => Failures'
<1> SUFFICES ASSUME IInv, [Next]_vars PROVE Failures'
  OBVIOUS
<1>a. FlowInv /\ Failures /\ failed \subseteq Executors
  BY DEF IInv, FlowInv, TypeOK
<1>b. Next => \A x \in Executors : Broken(x) => Broken(x)'
  BY <1>a, BrokenStep
<1>c. \A ce \in Edges : ce = <<ce[1], ce[2]>> /\ ce[2] \in Executors /\ ce[1] \in CallersOf(ce[2])
  BY DEF Edges, Callers
<1>1. ASSUME Next, NEW e \in Executors, RunStep(e) PROVE Failures'
  <2>1. Outcome(e) /\ owner' = owner /\ owner[e] \in CallersOf(e)
    BY <1>1, <1>a, OutcomeFacts, RunStepFacts, Zenon
  <2>2. failed' = failed \/ (failed' = failed \cup {e} /\ Broken(e)')
    BY <2>1 DEF Outcome, Broken
  <2>3. \A x \in failed' : Broken(x)'
    BY <1>1, <1>a, <1>b, <2>2 DEF Failures
  <2>4. ASSUME failed' = {} PROVE \A ce \in Edges : fut'[ce] \notin Bad
    <3>1. \A ce \in Edges : fut[ce] \notin Bad
      BY <1>a, <2>2, <2>4 DEF Failures
    <3> QED BY <1>1, <1>a, <2>4, <3>1, NoBadFuture
  <2> QED BY <2>3, <2>4 DEF Failures
<1>2. ASSUME Next, NEW e \in Executors, NEW c \in CallersOf(e), Arrives(c, e) PROVE Failures'
  <2>1. /\ UNCHANGED <<ver, failed>> /\ fut[<<c, e>>] = "called" /\ pc[e] = "idle" /\ ~Broken(e)
        /\ \/ BeginEffect(c, e) /\ pc'[e] # "idle"
           \/ /\ UNCHANGED <<pc, owner, round>> /\ fut'[<<c, e>>] = "pending"
              /\ \A x \in Executors : \A d \in CallersOf(x) :
                    ~(x = e /\ d = c) => fut'[<<d, x>>] = fut[<<d, x>>]
    BY <1>2, <1>a, ArrivalFacts, Zenon
  <2>2. \A x \in Executors : \A d \in CallersOf(x) :
           fut'[<<d, x>>] = fut[<<d, x>>] \/ fut'[<<d, x>>] \in {"called", "entered", "pending"}
    BY <2>1, Zenon DEF BeginEffect
  <2>3. \A ce \in Edges : fut[ce] \notin Bad => fut'[ce] \notin Bad
    BY <1>c, <2>2, States
  <2> QED BY <1>2, <1>a, <1>b, <2>1, <2>3 DEF Failures
<1>3. CASE UNCHANGED <<pc, fut, owner, round, ver, failed>>
  BY <1>3, <1>a DEF Failures, Broken
<1> QED BY <1>1, <1>2, <1>3, StepCases DEF vars

LEMMA SharedFailuresStep == IInv /\ [Next]_vars => SharedFailures'
<1> DEFINE Stopped(p) == /\ pc[p] # "body"
                         /\ Broken(p) /\ p \notin failed =>
                              \A c \in Successors(p) : fut[<<c, p>>] \notin {"none", "ok"}
<1> SUFFICES ASSUME IInv, [Next]_vars, NEW p \in Executors, Kind[p] = "passthrough"
             PROVE  Stopped(p)'
  BY DEF SharedFailures
<1>a. FlowInv /\ Stopped(p)
  BY DEF IInv, SharedFailures
<1>b. Next => (Broken(p)' => Broken(p) \/ pc[p] # "idle")
  BY <1>a, BrokenStep
<1>c. \A c \in Successors(p) : c \in Executors /\ c \in CallersOf(p)
  BY CalleeFacts, Zenon DEF Successors
<1>d. Broken(p) => pc[p] = "idle"
  BY DEF Broken
<1>1. ASSUME Next, NEW e \in Executors, RunStep(e) PROVE Stopped(p)'
  <2>1. /\ pc[e] # "idle"
        /\ \A x \in Executors : x # e => pc'[x] = pc[x] /\ promise'[x] = promise[x]
        /\ \A x \in Executors : \A c \in CallersOf(x) : FutureEffect(e, c, x)
    BY <1>1, <1>a, RunStepFacts, Zenon
  <2>2. Outcome(e)
    BY <1>1, <1>a, OutcomeFacts
  <2>3. CASE p = e
    <3>1. pc'[p] # "body"
      BY <2>2, <2>3 DEF Outcome
    <3>2. (Broken(p) /\ p \notin failed)' => \A c \in Successors(p) : fut'[<<c, p>>] \notin {"none", "ok"}
      BY <1>1, <1>a, <2>3, SharedFailure
    <3> QED BY <3>1, <3>2
  <2>4. CASE p # e
    <3>1. pc'[p] = pc[p] /\ (p \notin failed' => p \notin failed)
      BY <2>1, <2>2, <2>4 DEF Outcome
    <3>2. Broken(p)' => Broken(p)
      BY <1>1, <1>b, <3>1 DEF Broken
    <3>3. \A c \in Successors(p) : fut[<<c, p>>] \notin {"none", "ok"} => fut'[<<c, p>>] \notin {"none", "ok"}
      BY <1>c, <2>1, <2>4 DEF FutureEffect
    <3> QED BY <1>a, <3>1, <3>2, <3>3
  <2> QED BY <2>3, <2>4
<1>2. ASSUME Next, NEW e \in Executors, NEW k \in CallersOf(e), Arrives(k, e) PROVE Stopped(p)'
  <2>1. /\ UNCHANGED <<ver, failed>> /\ fut[<<k, e>>] = "called" /\ pc[e] = "idle" /\ ~Broken(e)
        /\ \/ BeginEffect(k, e) /\ pc'[e] # "idle"
           \/ /\ UNCHANGED <<pc, owner, round>> /\ fut'[<<k, e>>] = "pending"
              /\ \A x \in Executors : \A d \in CallersOf(x) :
                    ~(x = e /\ d = k) => fut'[<<d, x>>] = fut[<<d, x>>]
    BY <1>2, <1>a, ArrivalFacts, Zenon
  <2>2. \A x \in Executors : \A d \in CallersOf(x) :
           fut'[<<d, x>>] = fut[<<d, x>>] \/ fut'[<<d, x>>] \in {"called", "entered", "pending"}
    BY <2>1, Zenon DEF BeginEffect
  <2>3. pc'[p] # "body"
    BY <1>a, <2>1 DEF BeginEffect
  <2>4. Broken(p)' => Broken(p)
    BY <1>2, <1>b, <1>d, <2>1 DEF BeginEffect, Broken
  <2> QED BY <1>a, <1>c, <2>1, <2>2, <2>3, <2>4, Zenon
<1>3. CASE UNCHANGED <<pc, fut, owner, round, ver, failed>>
  BY <1>3, <1>a DEF Broken
<1> QED BY <1>1, <1>2, <1>3, StepCases DEF vars

LEMMA InvInit == Init => IInv
<1> SUFFICES ASSUME Init PROVE IInv
  OBVIOUS
<1>1. FlowInv
  BY FlowInit
<1>2. \A ce \in Edges : fut[ce] \notin Bad
  BY States DEF Init
<1>3. \A e \in Executors : pc[e] = "idle" /\ ~Broken(e) /\ ver[e] = round[e]
  BY <1>2, CallersFacts DEF Init, Broken
<1>4. AnswerOK /\ Failures /\ Executions /\ SharedFailures
  BY <1>2, <1>3 DEF Init, AnswerOK, Failures, Executions, SharedFailures, Repeated
<1> QED BY <1>1, <1>4 DEF IInv

(***************************************************************************)
(* For every plan: futures, rounds, the data of PassThroughs, executions   *)
(* and failures stay consistent, however the continuations interleave.     *)
(***************************************************************************)
THEOREM Invariance == Spec => []IInv
<1>1. IInv /\ [Next]_vars => IInv'
  <2>1. IInv => FlowInv
    BY DEF IInv
  <2> QED BY <2>1, FlowStep, AnswerStep, ExecutionsStep, FailuresStep, SharedFailuresStep DEF IInv
<1> QED BY InvInit, <1>1, PTL DEF Spec

-----------------------------------------------------------------------------
(***************************************************************************)
(* What follows from the invariant, for every plan.                        *)
(***************************************************************************)
\* Whoever runs, or was stopped, has a caller that does; the chain of callers
\* ends at the query, which has got its answer.
LEMMA RootDone ==
    ASSUME FlowInv, fut[<<QueryInst, Root>>] = "ok"
    PROVE  \A x \in Executors : pc[x] = "idle" /\ ~Broken(x)
<1> DEFINE T == {x \in Executors : pc[x] # "idle" \/ Broken(x)}
<1> SUFFICES ASSUME T # {} PROVE FALSE
  OBVIOUS
<1>1. PICK m \in T : \A y \in T : ~(Depth[y] < Depth[m])
  BY Nearest, Zenon
<1>2. /\ owner[m] \in CallersOf(m)
      /\ fut[<<owner[m], m>>] \in {"entered", "pending", "err", "exc"}
  BY <1>1, States DEF FlowInv, OwnerWaits, Broken
<1>3. owner[m] # QueryInst
  <2>1. QueryInst \in CallersOf(m) => m = Root
    BY PlanAssumption DEF CallersOf, Successors
  <2> QED BY <1>2, <2>1
<1>4. owner[m] \in Executors /\ m \in Deps[owner[m]] \cup Bodies[owner[m]]
  BY <1>2, <1>3 DEF CallersOf, Successors
<1>5. owner[m] \in T
  BY <1>2, <1>4 DEF FlowInv, FuturesHeld
<1>6. Depth[owner[m]] < Depth[m]
  BY <1>4, AcyclicAssumption
<1> QED BY <1>1, <1>5, <1>6

\* onFinish releases a plan only when every executor is done, PassThroughs
\* that execute after their waiters were woken included.
THEOREM Quiescence == Spec => []SuccessIsQuiescent
<1>1. IInv => SuccessIsQuiescent
  <2> SUFFICES ASSUME IInv, query = "finished" PROVE \A e \in Executors : pc[e] = "idle"
    BY DEF SuccessIsQuiescent
  <2>1. FlowInv /\ fut[<<QueryInst, Root>>] = "ok"
    BY DEF IInv, AnswerOK
  <2> QED BY <2>1, RootDone
<1> QED BY <1>1, Invariance, PTL

\* A success hides no failed executor, and an error is never made up.
THEOREM Errors == Spec => []ErrorsReported
<1>1. IInv => ErrorsReported
  <2> SUFFICES ASSUME IInv PROVE ErrorsReported
    OBVIOUS
  <2>a. FlowInv /\ failed \subseteq Executors
    BY DEF IInv, FlowInv, TypeOK
  <2>1. ASSUME query = "finished" PROVE failed = {}
    <3>1. fut[<<QueryInst, Root>>] = "ok"
      BY <2>1 DEF IInv, AnswerOK
    <3>2. \A x \in Executors : ~Broken(x)
      BY <2>a, <3>1, RootDone
    <3> QED BY <2>a, <3>2 DEF IInv, Failures
  <2>2. ASSUME query = "failed" PROVE failed # {}
    BY <2>2, EdgeFacts DEF IInv, AnswerOK, Failures
  <2> QED BY <2>1, <2>2 DEF ErrorsReported
<1> QED BY <1>1, Invariance, PTL

\* setValue is called once on every promise of a PassThrough.
THEOREM PromisesSetOnce == Spec => []PromiseSetOnce
<1>1. IInv => PromiseSetOnce
  BY DEF IInv, FlowInv, PassThroughOK, PromiseSetOnce
<1> QED BY <1>1, Invariance, PTL

\* No part of a loop's body is under way when the loop tests its condition.
THEOREM RoundsApart == Spec => []RoundsDoNotOverlap
<1>1. IInv => RoundsDoNotOverlap
  <2> SUFFICES ASSUME IInv, NEW e \in Executors, NEW x \in Executors, pc[e] = "exec",
                      Block[x] \in Bodies[e]
               PROVE  pc[x] = "idle"
    BY DEF RoundsDoNotOverlap
  <2> DEFINE b == Block[x]
  <2>1. FlowInv
    BY DEF IInv
  <2>2. fut[<<e, b>>] = "none"
    BY <2>1, RunFacts
  <2>3. b \in Executors /\ e \in CallersOf(b) /\ Block[b] = b
    BY CalleeFacts, Zenon
  <2> QED BY <2>1, <2>2, <2>3 DEF FlowInv, QuietBlocks
<1> QED BY <1>1, Invariance, PTL

\* An executor that executes reads what its dependencies made in this round.
THEOREM Freshness == Spec => []FreshInputs
<1>1. IInv => FreshInputs
  <2> SUFFICES ASSUME IInv, NEW e \in Repeated, pc[e] = "exec",
                      NEW d \in Deps[e] \cap Repeated, d \notin failed
               PROVE  Begun(d) = ver[e] + 1
    BY DEF FreshInputs
  <2>0. FlowInv
    BY DEF IInv
  <2>a. /\ e \in Executors /\ d \in Executors /\ e \in CallersOf(d) /\ e \in Successors(d)
        /\ d \in Deps[e]
    BY CalleeFacts, Zenon DEF Repeated
  <2>b. fut[<<e, d>>] = "none"
    BY <2>0, <2>a, RunFacts
  <2>c. Asked(e, d) = round[e] /\ round[e] \in Nat
    BY <2>0, <2>a, <2>b DEF Asked, FlowInv, TypeOK
  <2>1. round[d] = round[e]
    BY <2>0, <2>a, <2>b, <2>c DEF FlowInv, RoundsMatch
  <2>2. ver[e] = round[e] - 1 /\ ver[d] = IF pc[d] # "idle" \/ Broken(d) THEN round[d] - 1 ELSE round[d]
    BY DEF IInv, Executions
  <2>3. CASE Kind[d] # "passthrough"
    <3>1. \A other \in CallersOf(d) : other = e
      BY <2>a, <2>3, CallersFacts, Zenon
    <3>2. pc[d] = "idle" /\ ~Broken(d)
      BY <2>0, <2>a, <2>b, <3>1, States DEF FlowInv, OwnerWaits, Broken
    <3> QED BY <2>c, <2>1, <2>2, <2>3, <3>2 DEF Begun
  <2>4. CASE Kind[d] = "passthrough"
    <3>1. ~Broken(d) /\ pc[d] # "body"
      BY <2>a, <2>b, <2>4 DEF IInv, SharedFailures
    <3>2. pc[d] \notin {"calling", "deps"}
      BY <2>0, <2>a, <2>b, <2>4 DEF FlowInv, PassThroughOK
    <3>3. pc[d] \in {"idle", "exec"}
      BY <2>0, <2>a, <3>1, <3>2, States DEF FlowInv, TypeOK
    <3> QED BY <2>c, <2>1, <2>2, <2>4, <3>1, <3>3 DEF Begun
  <2> QED BY <2>3, <2>4
<1> QED BY <1>1, Invariance, PTL

=============================================================================
