--------------------------- MODULE FindPathProofs ---------------------------
(***************************************************************************)
(* Proofs about FIND PATH: for every graph, all sets of vertices and every *)
(* bound, the plan for sets of vertices, and that each plan finds exactly  *)
(* what the sentence asks for.                                             *)
(***************************************************************************)
EXTENDS FindPath, MultiPairProofs

\* Zenon proves every leaf that names no other prover.
USE Zenon

-----------------------------------------------------------------------------
(***************************************************************************)
(* FIND SHORTEST PATH between sets of vertices: the rounds of the plan.    *)
(***************************************************************************)
MultiTypes ==
    /\ steps \in Nat /\ noLoop = FALSE
    /\ loopSteps \in Nat
    /\ DOMAIN startVids = Sides /\ DOMAIN todo = Sides /\ DOMAIN current = Sides
    /\ DOMAIN history = Sides /\ DOMAIN pathVar = Sides
    /\ Len(output) \in Nat /\ output = [k \in 1..Len(output) |-> output[k]]

MultiRounds ==
    /\ stage \in {"loop", "body", "collect", "done"}
    /\ done \subseteq Sides
    /\ Len(output) <= Rounds
    /\ stage = "loop" => loopSteps = Len(output)
    /\ stage = "body" => loopSteps = Len(output) + 1 /\ loopSteps <= Rounds
    /\ stage = "collect" => Len(output) = Rounds \/ allFound
    /\ stage # "done" => answer = {}

\* What a side has after n rounds.
HasMaps(g, F, r, n, versions, H, V, cur) ==
    /\ versions = [k \in 1..(n + 1) |-> versions[k]]
    /\ \A k \in 0..n : IsCostPathMap(versions[k + 1], g, F, r, IF k = 0 THEN 0 ELSE 1, k)
    /\ IsCostPathMap(H, g, F, r, 1, n)
    /\ \A v \in V : IsSource(v, H, F, n)
    /\ NotWorse(cur, H)

MultiSide(s) ==
    HasMaps(graph, Starts(s), s, Explored(s), pathVar[s], history[s], startVids[s], current[s])

\* What it has while it reads the arcs of the next one.
IsReading(g, F, r, n, V, cur, rest) ==
    /\ IsCostPathMap(cur, g, F, r, 1, n + 1)
    /\ rest \subseteq GetNeighbors(g, V, r)

MultiReading(s) ==
    stage = "body" =>
        IF s \in done THEN todo[s] = {}
        ELSE IsReading(graph, Starts(s), s, Len(output), startVids[s], current[s], todo[s])

AreRows(R, g, F, T, n) == \A x \in R : IsRow(x, g, F, T, n)

MultiOutput ==
    /\ \A k \in 1..Len(output) : AreRows(output[k], graph, from, to, steps)
    /\ \A p \in answer : IsWalkBetween(p, graph, from, to, steps)

HasLevelMaps(g, F, r, n, versions, H, V) ==
    /\ \A k \in 0..n : IsLevelMap(versions[k + 1], g, F, r, k)
    /\ IsHistory(H, g, F, r, n)
    /\ AreFirst(V, g, F, r, n)

\* What has been read of the neighbours of V.
HasReadAllBut(rest, map, g, F, r, n, V) == IsPartial(map, g, F, r, n, GetNeighbors(g, V, r) \ rest)

ExactSide(s) ==
    /\ HasLevelMaps(graph, Starts(s), s, Explored(s), pathVar[s], history[s], startVids[s])
    /\ stage = "body" /\ s \notin done =>
            HasReadAllBut(todo[s], current[s], graph, Starts(s), s, Len(output), startVids[s])

\* The longest paths that n rounds look for.
Length(n) == IF Even(n) THEN 2 * n ELSE 2 * n - 1

RowsOf(n) == FoundRows(graph, from, to, 2 * n - 1)
             \cup IF Even(n) THEN FoundRows(graph, from, to, 2 * n) ELSE {}

Table == [costs |-> costs, unconnected |-> unconnected, allFound |-> allFound]

ExactOutput ==
    /\ IsState(Table, graph, Length(Len(output)))
    /\ \A k \in 1..Len(output) : output[k] = RowsOf(k)

MultiExact == ~crowded => (\A s \in Sides : ExactSide(s)) /\ ExactOutput

\* The longest paths that all rounds look for.
MultiReach == IF steps % 2 = 1 THEN steps ELSE steps - 1

Expected == ShortestOfPairs \ AtEvenBound

MultiFinal == stage = "done" => (~crowded => answer = Expected) /\ MultiCheapest

MultiInv ==
    /\ MultiTypes
    /\ MultiRounds
    /\ \A s \in Sides : MultiSide(s) /\ MultiReading(s)
    /\ MultiOutput
    /\ MultiExact
    /\ MultiFinal

\* The entries before the loop.
LEMMA FirstMap ==
    ASSUME NEW g, NEW F, NEW r, NEW map,
           map = [k \in {<<v, v>> : v \in F} |-> [cost |-> 0, paths |-> {PathOf(k[1])}]]
    PROVE  IsCostPathMap(map, g, F, r, 0, 0) /\ IsLevelMap(map, g, F, r, 0) /\ AreFirst(F, g, F, r, 0)
  <1>1. \A v : PathOf(v).src = v /\ EndOf(PathOf(v)) = v
    BY NoElement DEF PathOf, EndOf, VertexAt
  <1>2. Walks(g, F, 0, r) = {PathOf(v) : v \in F}
    BY NoStep
  <1>3. ASSUME NEW u, NEW v PROVE WalksTo(g, F, r, u, v, 0) = IF u = v /\ u \in F THEN {PathOf(u)} ELSE {}
    BY <1>1, <1>2 DEF WalksTo
  <1>4. ASSUME NEW u, NEW v PROVE IsFirst(g, F, r, u, v, 0) <=> u = v /\ u \in F
    BY <1>3, SMTT(30) DEF IsFirst, IsNear
  <1>5. DOMAIN map = {<<v, v>> : v \in F} /\ \A v \in F : map[<<v, v>>] = [cost |-> 0, paths |-> {PathOf(v)}]
    OBVIOUS
  <1>6. IsCostPathMap(map, g, F, r, 0, 0)
    <2> SUFFICES ASSUME NEW k \in DOMAIN map
                 PROVE  /\ k = <<k[1], k[2]>> /\ k[2] \in F
                        /\ IsConnection(map[k], g, F, r, k[2], k[1], 0, 0)
      BY DEF IsCostPathMap
    <2>1. PICK v \in F : k = <<v, v>>
      BY <1>5
    <2>2. map[k].cost = 0 /\ map[k].paths = {PathOf(v)}
      BY <1>5, <2>1
    <2> QED
      BY <1>1, <1>2, <2>1, <2>2, SMTT(30) DEF IsConnection
  <1>7. IsLevelMap(map, g, F, r, 0)
    <2> SUFFICES ASSUME NEW v, NEW u
                 PROVE  /\ <<v, u>> \in DOMAIN map <=> IsFirst(g, F, r, u, v, 0)
                        /\ <<v, u>> \in DOMAIN map => HasAll(map[<<v, u>>], g, F, r, u, v, 0)
      BY DEF IsLevelMap
    <2>1. <<v, u>> \in DOMAIN map <=> u = v /\ u \in F
      BY <1>5
    <2>2. u = v /\ u \in F => map[<<v, u>>].cost = 0 /\ map[<<v, u>>].paths = {PathOf(u)}
      BY <1>5
    <2> QED
      BY <1>3, <1>4, <2>1, <2>2, SMTT(30) DEF HasAll
  <1>8. AreFirst(F, g, F, r, 0)
    BY <1>4, SMTT(30) DEF AreFirst
  <1> QED
    BY <1>6, <1>7, <1>8

\* The empty map is a history of no rounds.
LEMMA NoHistory ==
    ASSUME NEW g, NEW F, NEW r, NEW n
    PROVE  /\ IsCostPathMap(NoEntry, g, F, r, 1, n) /\ NotWorse(NoEntry, NoEntry)
           /\ IsHistory(NoEntry, g, F, r, 0)
  <1>1. DOMAIN NoEntry = {}
    BY DEF NoEntry
  <1> QED
    BY <1>1, SMTT(30) DEF IsCostPathMap, NotWorse, IsHistory, IsNear

\* The plan for sets of vertices starts with the starts.
LEMMA MultiInit ==
    ASSUME NEW q, q.steps \in Nat, q.noLoop = FALSE, MultiPairPlan(q)
    PROVE  MultiInv
  <1> USE DEF MultiPairPlan, Plan
  <1>0. steps \in Nat /\ Rounds \in Nat
    BY SMTT(30) DEF Rounds
  <1>1. output = << >> /\ Len(output) = 0
    OBVIOUS
  <1>2. MultiTypes
    <2>1. output = [k \in 1..Len(output) |-> output[k]]
      BY <1>1, EmptyFun
    <2> QED
      BY <1>0, <1>1, <2>1 DEF MultiTypes
  <1>3. MultiRounds
    BY <1>0, <1>1, SMTT(30) DEF MultiRounds
  <1>4. ASSUME NEW s \in Sides
        PROVE  MultiSide(s) /\ MultiReading(s) /\ ExactSide(s)
    <2>1. PICK map : map = [k \in {<<v, v>> : v \in Starts(s)} |-> [cost |-> 0, paths |-> {PathOf(k[1])}]]
      OBVIOUS
    <2>2. /\ Explored(s) = 0 /\ startVids[s] = Starts(s) /\ history[s] = NoEntry /\ current[s] = NoEntry
          /\ pathVar[s] = << map >>
      BY <1>1, <2>1 DEF Explored, FirstEntries
    <2>3. PICK F : F = Starts(s)
      OBVIOUS
    <2>4. IsCostPathMap(map, graph, F, s, 0, 0) /\ IsLevelMap(map, graph, F, s, 0) /\ AreFirst(F, graph, F, s, 0)
      BY <2>1, <2>3, FirstMap, ZenonT(60)
    <2>5. PICK h : h = << map >> /\ h = [k \in 1..(0 + 1) |-> h[k]] /\ h[1] = map
      BY OneVersion
    <2>6. HasMaps(graph, F, s, 0, h, NoEntry, F, NoEntry)
      <3>1. \A v \in F : IsSource(v, NoEntry, F, 0)
        BY DEF IsSource
      <3>2. /\ IsCostPathMap(NoEntry, graph, F, s, 1, 0) /\ NotWorse(NoEntry, NoEntry)
            /\ IsHistory(NoEntry, graph, F, s, 0)
        BY NoHistory
      <3> QED
        BY <2>4, <2>5, <3>1, <3>2, SMTT(30) DEF HasMaps
    <2>7. HasLevelMaps(graph, F, s, 0, h, NoEntry, F)
      <3>1. IsHistory(NoEntry, graph, F, s, 0)
        BY NoHistory
      <3> QED
        BY <2>4, <2>5, <3>1, SMTT(30) DEF HasLevelMaps
    <2> QED
      BY <2>2, <2>3, <2>5, <2>6, <2>7 DEF MultiSide, MultiReading, ExactSide
  <1>5. MultiOutput
    BY <1>1, SMTT(30) DEF MultiOutput
  <1>6. ExactOutput
    <2>1. PICK n \in Int : n = Length(Len(output)) /\ n <= 0
      BY <1>0, <1>1, SMTT(30) DEF Length
    <2>2. \A g, F, r, u, v : ~IsNear(g, F, r, u, v, n)
      BY <2>1, SMTT(30) DEF IsNear
    <2>3. Table.costs = [k \in {} |-> 0] /\ Table.unconnected = from \X to /\ Table.allFound = FALSE
      BY DEF Table
    <2>4. IsState(Table, graph, n)
      BY <2>2, <2>3 DEF IsState, IsCosts, AreConnected
    <2> QED
      BY <1>1, <2>1, <2>4, SMTT(30) DEF ExactOutput
  <1>7. MultiFinal
    BY DEF MultiFinal
  <1> QED
    BY <1>2, <1>3, <1>4, <1>5, <1>6, <1>7 DEF MultiInv, MultiExact

\* What depends on the query only.
LEMMA QueryKept ==
    ASSUME UNCHANGED query
    PROVE  /\ Rounds' = Rounds /\ UNCHANGED <<graph, from, to, steps, noLoop>>
           /\ \A s : Starts(s)' = Starts(s)
           /\ \A n : Even(n)' = Even(n) /\ Length(n)' = Length(n) /\ RowsOf(n)' = RowsOf(n)
    BY DEF query, Rounds, Starts, Even, Length, RowsOf

\* A step that leaves the output alone.
LEMMA OutputKept ==
    ASSUME MultiInv, UNCHANGED <<query, join>>
    PROVE  /\ UNCHANGED answer => MultiOutput'
           /\ ExactOutput => ExactOutput'
  <1>1. UNCHANGED <<output, costs, unconnected, allFound>>
    BY DEF join
  <1>2. /\ UNCHANGED <<graph, from, to, steps>>
        /\ \A n : Length(n)' = Length(n) /\ RowsOf(n)' = RowsOf(n)
    BY QueryKept
  <1>3. Table' = Table
    BY <1>1 DEF Table
  <1>4. UNCHANGED answer => MultiOutput'
    BY <1>1, <1>2 DEF MultiInv, MultiOutput
  <1>5. IsState(Table, graph, Length(Len(output)))' <=> IsState(Table, graph, Length(Len(output)))
    BY <1>1, <1>2, <1>3 DEF IsState
  <1>6. ExactOutput => ExactOutput'
    BY <1>1, <1>2, <1>5 DEF ExactOutput
  <1> QED
    BY <1>4, <1>6

\* The loop condition clears the maps of the round.
LEMMA MultiLoopStep ==
    ASSUME MultiInv, MultiLoop
    PROVE  MultiInv'
  <1>1. /\ MultiTypes /\ MultiRounds /\ MultiOutput /\ MultiExact
        /\ \A s \in Sides : MultiSide(s) /\ MultiReading(s)
    BY DEF MultiInv
  <1>2. /\ stage = "loop" /\ loopSteps' = loopSteps + 1 /\ done' = {}
        /\ UNCHANGED <<query, startVids, history, pathVar, crowded, join, answer>>
        /\ \/ /\ loopSteps + 1 <= Rounds /\ ~allFound /\ stage' = "body"
              /\ todo' = [s \in Sides |-> GetNeighbors(graph, startVids[s], s)]
              /\ current' = [s \in Sides |-> NoEntry]
           \/ /\ ~(loopSteps + 1 <= Rounds /\ ~allFound) /\ stage' = "collect"
              /\ UNCHANGED <<todo, current>>
    BY DEF MultiLoop
  <1>3. UNCHANGED <<output, costs, unconnected, allFound>>
    BY <1>2 DEF join
  <1>4. Rounds' = Rounds /\ UNCHANGED <<graph, from, to, steps, noLoop>> /\ \A s : Starts(s)' = Starts(s)
    BY <1>2, QueryKept
  <1>5. Rounds \in Nat
    BY <1>1, SMTT(30) DEF MultiTypes, Rounds
  <1>6. MultiTypes'
    BY <1>1, <1>2, <1>3, <1>4, SMTT(30) DEF MultiTypes
  <1>7. MultiRounds'
    <2>1. /\ loopSteps = Len(output) /\ Len(output) \in Nat /\ Len(output) <= Rounds /\ answer = {}
      BY <1>1, <1>2 DEF MultiRounds, MultiTypes
    <2> QED
      BY <1>2, <1>3, <1>4, <1>5, <2>1, SMTT(30) DEF MultiRounds
  <1>8. ASSUME NEW s \in Sides
        PROVE  MultiSide(s)' /\ MultiReading(s)' /\ (ExactSide(s) => ExactSide(s)')
    <2>1. Explored(s) = Len(output) /\ Explored(s)' = Len(output)
      BY <1>2, <1>3 DEF Explored
    <2>2. /\ startVids'[s] = startVids[s] /\ history'[s] = history[s] /\ pathVar'[s] = pathVar[s]
      BY <1>2
    <2>3. CASE stage' = "body"
      <3>1. current'[s] = NoEntry /\ todo'[s] = GetNeighbors(graph, startVids[s], s)
        BY <1>2, <2>3
      <3>2. NotWorse(NoEntry, history[s])
        BY DEF NotWorse, NoEntry
      <3>3. HasMaps(graph, Starts(s), s, Explored(s), pathVar[s], history[s], startVids[s], NoEntry)
        BY <1>1, <3>2 DEF MultiSide, HasMaps
      <3>4. IsReading(graph, Starts(s), s, Len(output), startVids[s], NoEntry, GetNeighbors(graph, startVids[s], s))
        BY DEF IsReading, IsCostPathMap, NoEntry
      <3>5. HasReadAllBut(GetNeighbors(graph, startVids[s], s), NoEntry, graph, Starts(s), s, Len(output), startVids[s])
        <4>1. PICK A : A = GetNeighbors(graph, startVids[s], s) \ GetNeighbors(graph, startVids[s], s)
          OBVIOUS
        <4>2. A = {} /\ DOMAIN NoEntry = {}
          BY <4>1 DEF NoEntry
        <4>3. IsPartial(NoEntry, graph, Starts(s), s, Len(output), A)
          BY <4>2, PartialStart
        <4> QED
          BY <4>1, <4>3 DEF HasReadAllBut
      <3>6. MultiSide(s)'
        BY <1>4, <2>1, <2>2, <3>1, <3>3, SMTT(30) DEF MultiSide
      <3>7. MultiReading(s)'
        BY <1>2, <1>3, <1>4, <2>2, <3>1, <3>4, SMTT(30) DEF MultiReading
      <3>8. ExactSide(s) => ExactSide(s)'
        BY <1>3, <1>4, <2>1, <2>2, <3>1, <3>5, SMTT(30) DEF ExactSide
      <3> QED
        BY <3>6, <3>7, <3>8
    <2>4. CASE stage' = "collect"
      <3>1. current'[s] = current[s]
        BY <1>2, <2>4
      <3>2. MultiSide(s)'
        BY <1>1, <1>4, <2>1, <2>2, <3>1, SMTT(30) DEF MultiSide
      <3>3. MultiReading(s)'
        BY <2>4 DEF MultiReading
      <3>4. ExactSide(s) => ExactSide(s)'
        BY <1>4, <2>1, <2>2, <2>4, SMTT(30) DEF ExactSide
      <3> QED
        BY <3>2, <3>3, <3>4
    <2> QED
      BY <1>2, <2>3, <2>4
  <1>9. MultiOutput' /\ (ExactOutput => ExactOutput')
    BY <1>2, OutputKept
  <1>10. MultiExact'
    BY <1>1, <1>2, <1>8, <1>9 DEF MultiExact
  <1>11. MultiFinal'
    BY <1>2 DEF MultiFinal
  <1> QED
    BY <1>6, <1>7, <1>8, <1>9, <1>10, <1>11, SMTT(30) DEF MultiInv

\* A side that another one's step leaves alone.
LEMMA SideKept ==
    ASSUME NEW s \in Sides, UNCHANGED <<query, stage, join>>, s \in done' <=> s \in done,
           startVids'[s] = startVids[s], todo'[s] = todo[s], current'[s] = current[s],
           history'[s] = history[s], pathVar'[s] = pathVar[s]
    PROVE  /\ MultiSide(s) => MultiSide(s)'
           /\ MultiReading(s) => MultiReading(s)'
           /\ ExactSide(s) => ExactSide(s)'
  <1>1. UNCHANGED graph /\ Starts(s)' = Starts(s)
    BY QueryKept
  <1>2. Len(output)' = Len(output) /\ Explored(s)' = Explored(s)
    BY DEF join, Explored
  <1> QED
    BY <1>1, <1>2 DEF MultiSide, MultiReading, ExactSide

\* An arc adds what it connects to the map of its side.
LEMMA MultiReadStep ==
    ASSUME MultiInv, NEW side \in Sides, Read(side)
    PROVE  MultiInv'
  <1>1. /\ MultiTypes /\ MultiRounds /\ MultiOutput /\ MultiExact
        /\ \A s \in Sides : MultiSide(s) /\ MultiReading(s)
    BY DEF MultiInv
  <1>a. PICK a \in todo[side] :
            /\ todo' = [todo EXCEPT ![side] = todo[side] \ {a}]
            /\ \E next \in Follow(history[side], current[side], a) :
                    current' = [current EXCEPT ![side] = next]
            /\ crowded' = (crowded \/ Competing(history[side], current[side], a))
    BY DEF Read
  <1>2. PICK next \in Follow(history[side], current[side], a) :
            /\ todo' = [todo EXCEPT ![side] = todo[side] \ {a}]
            /\ current' = [current EXCEPT ![side] = next]
            /\ crowded' = (crowded \/ Competing(history[side], current[side], a))
    BY <1>a
  <1>3. /\ stage = "body"
        /\ UNCHANGED <<query, stage, done, loopSteps, startVids, history, pathVar, join, answer>>
    BY DEF Read
  <1>4. Rounds' = Rounds /\ UNCHANGED <<graph, from, to, steps, noLoop>> /\ \A s : Starts(s)' = Starts(s)
    BY <1>3, QueryKept
  <1>5. UNCHANGED <<output, costs, unconnected, allFound>>
    BY <1>3 DEF join
  <1>6. MultiTypes'
    <2>1. DOMAIN todo' = Sides /\ DOMAIN current' = Sides
      BY <1>1, <1>2 DEF MultiTypes
    <2> QED
      BY <1>1, <1>3, <1>4, <1>5, <2>1, SMTT(30) DEF MultiTypes
  <1>7. MultiRounds'
    BY <1>1, <1>3, <1>4, <1>5, SMTT(30) DEF MultiRounds
  <1>8. PICK n \in Nat : n = Len(output)
    BY <1>1 DEF MultiTypes
  <1>9. side \notin done
    BY <1>1, <1>3 DEF MultiReading
  <1>10. PICK H, cur, V, rest, F : /\ H = history[side] /\ cur = current[side] /\ V = startVids[side]
                                   /\ rest = todo[side] /\ F = Starts(side)
    OBVIOUS
  <1>11. /\ todo'[side] = rest \ {a} /\ current'[side] = next
         /\ next \in Follow(H, cur, a)
    BY <1>1, <1>2, <1>10 DEF MultiTypes
  <1>12. Explored(side) = n /\ Explored(side)' = n
    BY <1>3, <1>5, <1>8, <1>9 DEF Explored
  <1>13. HasMaps(graph, F, side, n, pathVar[side], H, V, cur)
    BY <1>1, <1>10, <1>12 DEF MultiSide
  <1>14. IsReading(graph, F, side, n, V, cur, rest)
    BY <1>1, <1>3, <1>8, <1>9, <1>10 DEF MultiReading
  <1>15. a \in Arcs(graph, side) /\ a.src \in V
    BY <1>2, <1>10, <1>14 DEF IsReading, GetNeighbors
  <1>16. /\ IsCostPathMap(H, graph, F, side, 1, n) /\ IsSource(a.src, H, F, n) /\ NotWorse(cur, H)
         /\ IsCostPathMap(cur, graph, F, side, 1, n + 1)
    BY <1>13, <1>14, <1>15 DEF HasMaps, IsReading
  <1>17. IsCostPathMap(next, graph, F, side, 1, n + 1) /\ NotWorse(next, H)
    BY <1>11, <1>15, <1>16, FollowSound
  <1>18. HasMaps(graph, F, side, n, pathVar[side], H, V, next)
    BY <1>13, <1>17 DEF HasMaps
  <1>19. IsReading(graph, F, side, n, V, next, rest \ {a})
    BY <1>14, <1>17 DEF IsReading
  <1>20. MultiSide(side)'
    BY <1>3, <1>4, <1>10, <1>11, <1>12, <1>18, SMTT(30) DEF MultiSide
  <1>21. MultiReading(side)'
    BY <1>3, <1>4, <1>5, <1>8, <1>9, <1>10, <1>11, <1>19 DEF MultiReading
  <1>22. ASSUME ExactSide(side), ~crowded' PROVE ExactSide(side)'
    <2>1. /\ HasLevelMaps(graph, F, side, n, pathVar[side], H, V)
          /\ HasReadAllBut(rest, cur, graph, F, side, n, V)
      BY <1>3, <1>8, <1>9, <1>10, <1>12, <1>22, SMTT(30) DEF ExactSide
    <2>2. PICK A, B : A = GetNeighbors(graph, V, side) \ rest /\ B = GetNeighbors(graph, V, side) \ (rest \ {a})
      OBVIOUS
    <2>3. B = A \cup {a}
      <3>1. a \in GetNeighbors(graph, V, side) /\ a \in rest
        BY <1>2, <1>10, <1>14 DEF IsReading
      <3> QED
        BY <2>2, <3>1
    <2>4. IsPartial(cur, graph, F, side, n, A) /\ IsHistory(H, graph, F, side, n)
      BY <2>1, <2>2 DEF HasReadAllBut, HasLevelMaps
    <2>5. ~Competing(H, cur, a)
      BY <1>2, <1>10, <1>22
    <2>7. IsPartial(next, graph, F, side, n, B)
      BY <1>11, <1>15, <1>16, <2>3, <2>4, <2>5, FollowExact, SMTT(30)
    <2>8. HasReadAllBut(rest \ {a}, next, graph, F, side, n, V)
      BY <2>2, <2>7 DEF HasReadAllBut
    <2> QED
      BY <1>3, <1>4, <1>5, <1>8, <1>10, <1>11, <1>12, <2>1, <2>8, SMTT(30) DEF ExactSide
  <1>23. ASSUME NEW s \in Sides
         PROVE  MultiSide(s)' /\ MultiReading(s)' /\ (ExactSide(s) /\ ~crowded' => ExactSide(s)')
    <2>1. CASE s = side
      BY <1>20, <1>21, <1>22, <2>1, SMTT(30)
    <2>2. CASE s # side
      <3>1. todo'[s] = todo[s] /\ current'[s] = current[s]
        BY <1>1, <1>2, <2>2 DEF MultiTypes
      <3>2. /\ MultiSide(s) => MultiSide(s)'
            /\ MultiReading(s) => MultiReading(s)'
            /\ ExactSide(s) => ExactSide(s)'
        BY <1>3, <3>1, SideKept, SMTT(30)
      <3> QED
        BY <1>1, <3>2
    <2> QED
      BY <2>1, <2>2
  <1>24. MultiOutput' /\ (ExactOutput => ExactOutput')
    BY <1>3, OutputKept
  <1>25. MultiExact'
    <2>1. ~crowded' => ~crowded
      BY <1>2
    <2> QED
      BY <1>1, <1>23, <1>24, <2>1 DEF MultiExact
  <1>26. MultiFinal'
    BY <1>3 DEF MultiFinal
  <1> QED
    BY <1>6, <1>7, <1>23, <1>24, <1>25, <1>26, SMTT(30) DEF MultiInv

\* The end of a round of one side.
LEMMA MapsNext ==
    ASSUME NEW g, NEW F, NEW r, NEW n \in Nat, NEW h, NEW H, NEW V, NEW cur,
           HasMaps(g, F, r, n, h, H, V, cur), IsCostPathMap(cur, g, F, r, 1, n + 1)
    PROVE  HasMaps(g, F, r, n + 1, Append(h, cur), UpdateHistory(H, cur), {k[1] : k \in DOMAIN cur}, cur)
  <1> DEFINE W == {k[1] : k \in DOMAIN cur}
  <1>1. PICK m \in Nat : m = n + 1
    BY SMTT(30)
  <1>2. /\ h = [k \in 1..m |-> h[k]]
        /\ \A k \in 0..n : IsCostPathMap(h[k + 1], g, F, r, IF k = 0 THEN 0 ELSE 1, k)
        /\ IsCostPathMap(H, g, F, r, 1, n) /\ NotWorse(cur, H)
    BY <1>1 DEF HasMaps
  <1>3. Append(h, cur) = [k \in 1..(m + 1) |-> IF k <= m THEN h[k] ELSE cur]
    BY <1>2, AppendFun, SMTT(30)
  <1>4. IsCostPathMap(UpdateHistory(H, cur), g, F, r, 1, n + 1) /\ NotWorse(cur, UpdateHistory(H, cur))
    BY <1>2, HistorySound
  <1>5. \A v \in W : IsSource(v, UpdateHistory(H, cur), F, n + 1)
    BY NextSource
  <1> HIDE DEF W
  <1>6. PICK a : a = Append(h, cur)
    OBVIOUS
  <1>7. a = [k \in 1..(m + 1) |-> a[k]]
    BY <1>3, <1>6
  <1>8. \A k \in 0..m : IsCostPathMap(a[k + 1], g, F, r, IF k = 0 THEN 0 ELSE 1, k)
    <2> SUFFICES ASSUME NEW k \in 0..m
                 PROVE  IsCostPathMap(a[k + 1], g, F, r, IF k = 0 THEN 0 ELSE 1, k)
      OBVIOUS
    <2>1. CASE k = m
      <3>1. a[k + 1] = cur /\ k # 0
        BY <1>1, <1>3, <1>6, <2>1, SMTT(30)
      <3> QED
        BY <1>1, <2>1, <3>1
    <2>2. CASE k # m
      <3>1. k \in 0..n /\ a[k + 1] = h[k + 1]
        BY <1>1, <1>3, <1>6, <2>2, SMTT(30)
      <3> QED
        BY <1>2, <3>1
    <2> QED
      BY <2>1, <2>2
  <1>9. HasMaps(g, F, r, m, a, UpdateHistory(H, cur), W, cur)
    BY <1>1, <1>4, <1>5, <1>7, <1>8, ZenonT(60) DEF HasMaps
  <1> QED
    BY <1>1, <1>6, <1>9 DEF W

\* The end of a round in which no two starts have competed.
LEMMA LevelMapsNext ==
    ASSUME NEW g, NEW F, NEW r, NEW n \in Nat, NEW h, NEW H, NEW V, NEW cur,
           h = [k \in 1..(n + 1) |-> h[k]], HasLevelMaps(g, F, r, n, h, H, V),
           HasReadAllBut({}, cur, g, F, r, n, V), IsCostPathMap(cur, g, F, r, 1, n + 1)
    PROVE  HasLevelMaps(g, F, r, n + 1, Append(h, cur), UpdateHistory(H, cur), {k[1] : k \in DOMAIN cur})
  <1>1. PICK m \in Nat : m = n + 1
    BY SMTT(30)
  <1>2. /\ h = [k \in 1..m |-> h[k]]
        /\ \A k \in 0..n : IsLevelMap(h[k + 1], g, F, r, k)
        /\ IsHistory(H, g, F, r, n) /\ AreFirst(V, g, F, r, n)
    BY <1>1 DEF HasLevelMaps
  <1>3. Append(h, cur) = [k \in 1..(m + 1) |-> IF k <= m THEN h[k] ELSE cur]
    BY <1>2, AppendFun, SMTT(30)
  <1>4. IsPartial(cur, g, F, r, n, GetNeighbors(g, V, r))
    <2>1. GetNeighbors(g, V, r) \ {} = GetNeighbors(g, V, r)
      OBVIOUS
    <2> QED
      BY <2>1 DEF HasReadAllBut
  <1>5. IsLevelMap(cur, g, F, r, n + 1)
    BY <1>2, <1>4, PartialEnd
  <1>6. IsHistory(UpdateHistory(H, cur), g, F, r, n + 1)
    BY <1>2, <1>5, HistoryExact
  <1>7. PICK W : W = {k[1] : k \in DOMAIN cur}
    OBVIOUS
  <1>8. AreFirst(W, g, F, r, n + 1)
    BY <1>5, <1>7, NextFirst
  <1>9. PICK a : a = Append(h, cur)
    OBVIOUS
  <1>10. \A k \in 0..m : IsLevelMap(a[k + 1], g, F, r, k)
    <2> SUFFICES ASSUME NEW k \in 0..m PROVE IsLevelMap(a[k + 1], g, F, r, k)
      OBVIOUS
    <2>1. CASE k = m
      <3>1. a[k + 1] = cur
        BY <1>1, <1>3, <1>9, <2>1, SMTT(30)
      <3> QED
        BY <1>1, <1>5, <2>1, <3>1
    <2>2. CASE k # m
      <3>1. k \in 0..n /\ a[k + 1] = h[k + 1]
        BY <1>1, <1>3, <1>9, <2>2, SMTT(30)
      <3> QED
        BY <1>2, <3>1
    <2> QED
      BY <2>1, <2>2
  <1>11. HasLevelMaps(g, F, r, m, a, UpdateHistory(H, cur), W)
    BY <1>1, <1>6, <1>8, <1>10 DEF HasLevelMaps
  <1> QED
    BY <1>1, <1>7, <1>9, <1>11, SMTT(30)

\* ProduceSemiShortestPath adds the map to the history and the versions.
LEMMA MultiProduceStep ==
    ASSUME MultiInv, NEW side \in Sides, ProduceSemiShortestPath(side)
    PROVE  MultiInv'
  <1>1. /\ MultiTypes /\ MultiRounds /\ MultiOutput /\ MultiExact
        /\ \A s \in Sides : MultiSide(s) /\ MultiReading(s)
    BY DEF MultiInv
  <1>2. /\ stage = "body" /\ side \notin done /\ todo[side] = {} /\ done' = done \cup {side}
        /\ pathVar' = [pathVar EXCEPT ![side] = Append(pathVar[side], current[side])]
        /\ history' = [history EXCEPT ![side] = UpdateHistory(history[side], current[side])]
        /\ startVids' = [startVids EXCEPT ![side] = {k[1] : k \in DOMAIN current[side]}]
    BY DEF ProduceSemiShortestPath
  <1>3. UNCHANGED <<query, stage, loopSteps, todo, current, crowded, join, answer>>
    BY DEF ProduceSemiShortestPath
  <1>4. Rounds' = Rounds /\ UNCHANGED <<graph, from, to, steps, noLoop>> /\ \A s : Starts(s)' = Starts(s)
    BY <1>3, QueryKept
  <1>5. UNCHANGED <<output, costs, unconnected, allFound>>
    BY <1>3 DEF join
  <1>6. MultiTypes'
    <2>1. DOMAIN pathVar' = Sides /\ DOMAIN history' = Sides /\ DOMAIN startVids' = Sides
      BY <1>1, <1>2 DEF MultiTypes
    <2> QED
      BY <1>1, <1>3, <1>4, <1>5, <2>1 DEF MultiTypes
  <1>7. MultiRounds'
    BY <1>1, <1>2, <1>3, <1>4, <1>5 DEF MultiRounds
  <1>8. PICK n \in Nat : n = Len(output)
    BY <1>1 DEF MultiTypes
  <1>9. PICK H, cur, V, h, F : /\ H = history[side] /\ cur = current[side] /\ V = startVids[side]
                               /\ h = pathVar[side] /\ F = Starts(side)
    OBVIOUS
  <1>10. PICK W : W = {k[1] : k \in DOMAIN cur}
    OBVIOUS
  <1>11. /\ pathVar'[side] = Append(h, cur) /\ history'[side] = UpdateHistory(H, cur) /\ startVids'[side] = W
         /\ current'[side] = cur /\ todo'[side] = {}
    BY <1>1, <1>2, <1>3, <1>9, <1>10 DEF MultiTypes
  <1>12. Explored(side) = n /\ Explored(side)' = n + 1 /\ side \in done'
    BY <1>2, <1>3, <1>5, <1>8 DEF Explored
  <1>13. HasMaps(graph, F, side, n, h, H, V, cur)
    BY <1>1, <1>9, <1>12 DEF MultiSide
  <1>14. IsCostPathMap(cur, graph, F, side, 1, n + 1)
    BY <1>1, <1>2, <1>8, <1>9 DEF MultiReading, IsReading
  <1>15. HasMaps(graph, F, side, n + 1, Append(h, cur), UpdateHistory(H, cur), W, cur)
    BY <1>10, <1>13, <1>14, MapsNext
  <1>16. MultiSide(side)'
    BY <1>4, <1>9, <1>11, <1>12, <1>15 DEF MultiSide
  <1>17. MultiReading(side)'
    BY <1>11, <1>12 DEF MultiReading
  <1>18. ASSUME ExactSide(side) PROVE ExactSide(side)'
    <2>1. /\ HasLevelMaps(graph, F, side, n, h, H, V)
          /\ HasReadAllBut({}, cur, graph, F, side, n, V)
      BY <1>2, <1>8, <1>9, <1>12, <1>18 DEF ExactSide
    <2>2. h = [k \in 1..(n + 1) |-> h[k]]
      BY <1>13 DEF HasMaps
    <2>3. HasLevelMaps(graph, F, side, n + 1, Append(h, cur), UpdateHistory(H, cur), W)
      BY <1>10, <1>14, <2>1, <2>2, LevelMapsNext, SMTT(30)
    <2> QED
      BY <1>4, <1>9, <1>11, <1>12, <2>3 DEF ExactSide
  <1>19. ASSUME NEW s \in Sides
         PROVE  MultiSide(s)' /\ MultiReading(s)' /\ (ExactSide(s) => ExactSide(s)')
    <2>1. CASE s = side
      BY <1>16, <1>17, <1>18, <2>1
    <2>2. CASE s # side
      <3>1. /\ startVids'[s] = startVids[s] /\ history'[s] = history[s] /\ pathVar'[s] = pathVar[s]
            /\ todo'[s] = todo[s] /\ current'[s] = current[s] /\ (s \in done' <=> s \in done)
        BY <1>1, <1>2, <1>3, <2>2 DEF MultiTypes
      <3>2. /\ MultiSide(s) => MultiSide(s)'
            /\ MultiReading(s) => MultiReading(s)'
            /\ ExactSide(s) => ExactSide(s)'
        BY <1>3, <3>1, SideKept
      <3> QED
        BY <1>1, <3>2
    <2> QED
      BY <2>1, <2>2
  <1>20. MultiOutput' /\ (ExactOutput => ExactOutput')
    BY <1>3, OutputKept
  <1>21. MultiExact'
    BY <1>1, <1>3, <1>19, <1>20 DEF MultiExact
  <1>22. MultiFinal'
    BY <1>2, <1>3 DEF MultiFinal
  <1> QED
    BY <1>6, <1>7, <1>19, <1>20, <1>21, <1>22 DEF MultiInv

\* A map of connections that cost something is one of connections.
LEMMA MapWider ==
    ASSUME NEW g, NEW F, NEW r, NEW n \in Nat, NEW map, NEW least \in {0, 1}, IsCostPathMap(map, g, F, r, least, n)
    PROVE  IsCostPathMap(map, g, F, r, 0, n)
    BY SMTT(30) DEF IsCostPathMap, IsConnection

\* The lengths that the rounds look for.
LEMMA RoundLengths ==
    ASSUME steps \in Nat, NEW n \in Nat, n <= Rounds
    PROVE  /\ n # 0 => 2 * n - 1 <= steps
           /\ n < Rounds => Even(n) /\ Length(n) = 2 * n
           /\ Even(n) => 2 * n <= steps
           /\ n = Rounds => Length(n) = MultiReach
           /\ Length(n) \in Int /\ MultiReach \in Int /\ Length(n) <= MultiReach
  <1>1. steps = 2 * (steps \div 2) + (steps % 2) /\ steps % 2 \in {0, 1} /\ steps \div 2 \in Nat
    BY SMTT(30)
  <1>2. PICK d \in Nat, r \in {0, 1} : d = steps \div 2 /\ r = steps % 2 /\ steps = 2 * d + r
    BY <1>1
  <1>3. Rounds = d + r /\ MultiReach = 2 * d + r - (1 - r)
    BY <1>2, SMTT(30) DEF Rounds, MultiReach
  <1>4. Even(n) <=> 2 * n < 2 * d + r
    BY <1>2, SMTT(30) DEF Even
  <1>5. Length(n) = IF 2 * n < 2 * d + r THEN 2 * n ELSE 2 * n - 1
    BY <1>4 DEF Length
  <1>6. n <= d + r
    BY <1>3
  <1>7. CASE r = 0
    BY <1>2, <1>3, <1>4, <1>5, <1>6, <1>7, SMTT(30)
  <1>8. CASE r = 1
    BY <1>2, <1>3, <1>4, <1>5, <1>6, <1>8, SMTT(30)
  <1> QED
    BY <1>7, <1>8

\* The latest of n + 1 versions.
LEMMA VersionsAt ==
    ASSUME NEW n \in Nat, NEW h, h = [k \in 1..(n + 1) |-> h[k]]
    PROVE  Len(h) = n + 1 /\ Latest(h) = h[n + 1]
  <1>1. PICK m \in Nat : m = n + 1
    BY SMTT(30)
  <1>2. Len(h) = m
    BY <1>1, SeqFun
  <1> QED
    BY <1>1, <1>2 DEF Latest

\* ConjunctPath adds rows of two lengths to the output.
LEMMA MultiConjunctStep ==
    ASSUME MultiInv, MultiConjunct
    PROVE  MultiInv'
  <1>1. /\ MultiTypes /\ MultiRounds /\ MultiOutput /\ MultiExact
        /\ \A s \in Sides : MultiSide(s) /\ MultiReading(s)
    BY DEF MultiInv
  <1>2. /\ stage = "body" /\ done = Sides /\ stage' = "loop"
        /\ UNCHANGED <<query, done, loopSteps, search, answer>>
    BY DEF MultiConjunct
  <1>3. UNCHANGED <<startVids, todo, current, history, pathVar, crowded>>
    BY <1>2 DEF search
  <1>4. /\ Rounds' = Rounds /\ UNCHANGED <<graph, from, to, steps, noLoop>> /\ \A s : Starts(s)' = Starts(s)
        /\ \A n : Even(n)' = Even(n) /\ Length(n)' = Length(n) /\ RowsOf(n)' = RowsOf(n)
    BY <1>2, QueryKept
  <1>5. PICK m \in Nat, n \in Nat : m = Len(output) /\ n = m + 1
    BY <1>1, SMTT(30) DEF MultiTypes
  <1>6. loopSteps = n /\ n <= Rounds /\ n > 0 /\ m < Rounds /\ steps \in Nat /\ Rounds \in Nat
    BY <1>1, <1>2, <1>5, SMTT(30) DEF MultiRounds, MultiTypes, Rounds
  <1>7. PICK fv, bv : fv = pathVar["forward"] /\ bv = pathVar["backward"]
    OBVIOUS
  <1>8. \A s \in Sides : Explored(s) = n
    BY <1>2, <1>5 DEF Explored
  <1>9. /\ HasMaps(graph, from, "forward", n, fv, history["forward"], startVids["forward"], current["forward"])
        /\ HasMaps(graph, to, "backward", n, bv, history["backward"], startVids["backward"], current["backward"])
    BY <1>1, <1>7, <1>8 DEF MultiSide, Sides, Starts
  <1>10. /\ Latest(fv) = fv[n + 1] /\ Latest(bv) = bv[n + 1] /\ Len(bv) - 1 = n
    <2>1. fv = [k \in 1..(n + 1) |-> fv[k]] /\ bv = [k \in 1..(n + 1) |-> bv[k]]
      BY <1>9 DEF HasMaps
    <2>2. Len(fv) = n + 1 /\ Latest(fv) = fv[n + 1]
      BY <2>1, VersionsAt
    <2>3. Len(bv) = n + 1 /\ Latest(bv) = bv[n + 1]
      BY <2>1, VersionsAt
    <2> QED
      BY <2>2, <2>3, SMTT(30)
  <1>11. PICK forward, previous, level : forward = fv[n + 1] /\ previous = bv[n] /\ level = bv[n + 1]
    OBVIOUS
  <1>12. PICK before : before = [costs |-> costs, unconnected |-> unconnected, allFound |-> allFound, rows |-> {}]
    OBVIOUS
  <1>13. \E odd \in FindPaths(forward, previous, before) :
         \E both \in IF Even(n) THEN FindPaths(forward, level, odd) ELSE {odd} :
            /\ costs' = both.costs
            /\ unconnected' = both.unconnected
            /\ allFound' = both.allFound
            /\ output' = Append(output, both.rows)
    BY <1>6, <1>7, <1>10, <1>11, <1>12, ZenonT(60) DEF MultiConjunct
  <1>14. PICK odd \in FindPaths(forward, previous, before) :
         \E both \in IF Even(n) THEN FindPaths(forward, level, odd) ELSE {odd} :
            /\ costs' = both.costs
            /\ unconnected' = both.unconnected
            /\ allFound' = both.allFound
            /\ output' = Append(output, both.rows)
    BY <1>13
  <1>15. PICK both \in IF Even(n) THEN FindPaths(forward, level, odd) ELSE {odd} :
            /\ costs' = both.costs
            /\ unconnected' = both.unconnected
            /\ allFound' = both.allFound
            /\ output' = Append(output, both.rows)
    BY <1>14
  <1>16. PICK R : R = both.rows
    OBVIOUS
  <1>17. /\ output' = [k \in 1..n |-> output'[k]] /\ Len(output') = n
         /\ \A k \in 1..m : output'[k] = output[k]
         /\ output'[n] = R
    <2>1. output = [k \in 1..m |-> output[k]]
      BY <1>1, <1>5 DEF MultiTypes
    <2>2. Append(output, R) = [k \in 1..(m + 1) |-> IF k <= m THEN output[k] ELSE R]
      BY <2>1, AppendFun, SMTT(30)
    <2>3. output' = [k \in 1..n |-> IF k <= m THEN output[k] ELSE R]
      BY <1>5, <1>15, <1>16, <2>2
    <2>4. PICK h : h = output'
      OBVIOUS
    <2>5. h = [k \in 1..n |-> h[k]]
      BY <2>3, <2>4
    <2>6. Len(h) = n
      BY <2>5, SeqFun
    <2> QED
      BY <1>5, <2>3, <2>4, <2>5, <2>6, SMTT(30)
  <1>18. /\ 2 * n - 1 <= steps /\ (Even(n) => 2 * n <= steps) /\ Even(m) /\ Length(m) = 2 * m
    <2>1. n # 0 => 2 * n - 1 <= steps
      BY <1>6, RoundLengths
    <2>2. Even(n) => 2 * n <= steps
      BY <1>6, RoundLengths
    <2>3. m <= Rounds
      BY <1>6, SMTT(30)
    <2>4. m < Rounds => Even(m) /\ Length(m) = 2 * m
      BY <1>6, <2>3, RoundLengths
    <2> QED
      BY <1>6, <2>1, <2>2, <2>4, SMTT(30)
  <1>19. AreRows(R, graph, from, to, steps)
    <2>1. /\ IsCostPathMap(forward, graph, from, "forward", 1, n)
          /\ IsCostPathMap(previous, graph, to, "backward", 0, m)
          /\ IsCostPathMap(level, graph, to, "backward", 0, n)
      <3>1. n \in 0..n /\ m \in 0..n /\ n # 0 /\ m + 1 = n
        BY <1>5, <1>6, SMTT(30)
      <3>2. IsCostPathMap(forward, graph, from, "forward", 1, n)
        BY <1>9, <1>11, <3>1, ZenonT(60) DEF HasMaps
      <3>3. PICK least \in {0, 1} : least = IF m = 0 THEN 0 ELSE 1
        OBVIOUS
      <3>4. IsCostPathMap(previous, graph, to, "backward", least, m)
        BY <1>9, <1>11, <3>1, <3>3 DEF HasMaps
      <3>5. PICK one \in {0, 1} : one = 1
        OBVIOUS
      <3>6. IsCostPathMap(level, graph, to, "backward", one, n)
        BY <1>9, <1>11, <3>1, <3>5 DEF HasMaps
      <3>7. IsCostPathMap(previous, graph, to, "backward", 0, m)
        BY <3>4, MapWider
      <3>8. IsCostPathMap(level, graph, to, "backward", 0, n)
        BY <3>6, MapWider
      <3> QED
        BY <3>2, <3>7, <3>8, SMTT(30)
    <2>2. n + m <= steps /\ (Even(n) => n + n <= steps)
      BY <1>5, <1>18, SMTT(30)
    <2>3. \A x \in before.rows : IsRow(x, graph, from, to, steps)
      BY <1>12
    <2>4. \A x \in odd.rows : IsRow(x, graph, from, to, steps)
      BY <1>6, <2>1, <2>2, <2>3, FindPathsSound
    <2>5. CASE Even(n)
      <3>1. both \in FindPaths(forward, level, odd) /\ n + n <= steps
        BY <2>2, <2>5
      <3>2. \A x \in both.rows : IsRow(x, graph, from, to, steps)
        BY <1>6, <2>1, <2>4, <3>1, FindPathsSound, SMTT(30)
      <3> QED
        BY <1>16, <3>2 DEF AreRows
    <2>6. CASE ~Even(n)
      BY <1>16, <2>4, <2>6 DEF AreRows
    <2> QED
      BY <2>5, <2>6
  <1>20. ASSUME \A s \in Sides : ExactSide(s), ExactOutput
         PROVE  IsState(both, graph, Length(n)) /\ R = RowsOf(n)
    <2>1. /\ HasLevelMaps(graph, from, "forward", n, fv, history["forward"], startVids["forward"])
          /\ HasLevelMaps(graph, to, "backward", n, bv, history["backward"], startVids["backward"])
      BY <1>7, <1>8, <1>20 DEF ExactSide, Sides, Starts
    <2>2. /\ IsLevelMap(forward, graph, from, "forward", n)
          /\ IsLevelMap(previous, graph, to, "backward", m)
          /\ IsLevelMap(level, graph, to, "backward", n)
      <3>1. n \in 0..n /\ m \in 0..n /\ m + 1 = n
        BY <1>5, SMTT(30)
      <3> QED
        BY <1>11, <2>1, <3>1 DEF HasLevelMaps
    <2>3. PICK N \in Nat, M \in Nat : N = n + m /\ M = n + n
      BY SMTT(30)
    <2>4. N = 2 * n - 1 /\ N - 1 = 2 * m /\ M = 2 * n /\ M - 1 = N
      BY <1>5, <2>3, SMTT(30)
    <2>5. IsState(before, graph, N - 1)
      <3>1. IsState(Table, graph, 2 * m)
        BY <1>5, <1>18, <1>20 DEF ExactOutput
      <3>2. /\ before.costs = Table.costs /\ before.unconnected = Table.unconnected
            /\ before.allFound = Table.allFound
        BY <1>12 DEF Table
      <3> QED
        BY <2>4, <3>1, <3>2 DEF IsState
    <2>a. HasFound(odd, before, graph, N)
      BY <1>6, <2>2, <2>3, <2>5, FindPathsExact
    <2>6. IsState(odd, graph, N) /\ odd.rows = before.rows \cup FoundRows(graph, from, to, N)
      BY <2>a DEF HasFound
    <2>7. odd.rows = FoundRows(graph, from, to, 2 * n - 1)
      BY <1>12, <2>4, <2>6
    <2>8. CASE Even(n)
      <3>1. both \in FindPaths(forward, level, odd)
        BY <2>8
      <3>2. IsState(odd, graph, M - 1)
        BY <2>4, <2>6
      <3>a. HasFound(both, odd, graph, M)
        BY <1>6, <2>2, <2>3, <3>1, <3>2, FindPathsExact, ZenonT(60)
      <3>3. IsState(both, graph, M) /\ both.rows = odd.rows \cup FoundRows(graph, from, to, M)
        BY <3>a DEF HasFound
      <3>4. Length(n) = M
        BY <2>4, <2>8 DEF Length
      <3>5. RowsOf(n) = FoundRows(graph, from, to, 2 * n - 1) \cup FoundRows(graph, from, to, M)
        BY <2>4, <2>8 DEF RowsOf
      <3> QED
        BY <1>16, <2>7, <3>3, <3>4, <3>5
    <2>9. CASE ~Even(n)
      <3>1. both = odd
        BY <2>9
      <3>2. Length(n) = N
        BY <2>4, <2>9 DEF Length
      <3>3. RowsOf(n) = FoundRows(graph, from, to, 2 * n - 1)
        BY <2>9 DEF RowsOf
      <3> QED
        BY <1>16, <2>6, <2>7, <3>1, <3>2, <3>3
    <2> QED
      BY <2>8, <2>9
  <1>21. MultiTypes'
    BY <1>1, <1>2, <1>3, <1>4, <1>17 DEF MultiTypes
  <1>22. MultiRounds'
    BY <1>1, <1>2, <1>4, <1>6, <1>17 DEF MultiRounds
  <1>23. ASSUME NEW s \in Sides
         PROVE  MultiSide(s)' /\ MultiReading(s)' /\ (ExactSide(s) => ExactSide(s)')
    <2>1. Explored(s) = n /\ Explored(s)' = n
      BY <1>2, <1>8, <1>17 DEF Explored
    <2>2. MultiSide(s)'
      BY <1>1, <1>3, <1>4, <2>1 DEF MultiSide
    <2>3. MultiReading(s)'
      BY <1>2 DEF MultiReading
    <2>4. ExactSide(s) => ExactSide(s)'
      BY <1>2, <1>3, <1>4, <2>1 DEF ExactSide
    <2> QED
      BY <2>2, <2>3, <2>4
  <1>24. MultiOutput'
    <2>1. \A k \in 1..n : AreRows(output'[k], graph, from, to, steps)
      <3> SUFFICES ASSUME NEW k \in 1..n PROVE AreRows(output'[k], graph, from, to, steps)
        OBVIOUS
      <3>1. CASE k = n
        BY <1>17, <1>19, <3>1
      <3>2. CASE k # n
        <4>1. k \in 1..m /\ k \in 1..Len(output)
          BY <1>5, <3>2, SMTT(30)
        <4> QED
          BY <1>1, <1>17, <4>1 DEF MultiOutput
      <3> QED
        BY <3>1, <3>2
    <2>2. answer' = answer
      BY <1>2
    <2> QED
      BY <1>1, <1>4, <1>17, <2>1, <2>2 DEF MultiOutput
  <1>25. ASSUME \A s \in Sides : ExactSide(s), ExactOutput PROVE ExactOutput'
    <2>1. IsState(both, graph, Length(n)) /\ R = RowsOf(n)
      BY <1>20, <1>25
    <2>2. /\ Table'.costs = both.costs /\ Table'.unconnected = both.unconnected
          /\ Table'.allFound = both.allFound
      BY <1>15 DEF Table
    <2>3. PICK t : t = Table'
      OBVIOUS
    <2>4. IsState(t, graph, Length(n))
      BY <2>1, <2>2, <2>3 DEF IsState
    <2>5. IsState(Table, graph, Length(Len(output)))'
      <3>1. Length(Len(output))' = Length(n)
        BY <1>4, <1>17 DEF Length, Even
      <3> QED
        BY <1>4, <2>3, <2>4, <3>1 DEF IsState
    <2>6. \A k \in 1..n : output'[k] = RowsOf(k)
      <3> SUFFICES ASSUME NEW k \in 1..n PROVE output'[k] = RowsOf(k)
        OBVIOUS
      <3>1. CASE k = n
        BY <1>17, <2>1, <3>1
      <3>2. CASE k # n
        <4>1. k \in 1..m /\ k \in 1..Len(output)
          BY <1>5, <3>2, SMTT(30)
        <4> QED
          BY <1>17, <1>25, <4>1, SMTT(30) DEF ExactOutput
      <3> QED
        BY <3>1, <3>2
    <2> QED
      BY <1>4, <1>17, <2>5, <2>6 DEF ExactOutput
  <1>26. MultiExact'
    BY <1>1, <1>3, <1>23, <1>25 DEF MultiExact
  <1>27. MultiFinal'
    BY <1>2 DEF MultiFinal
  <1> QED
    BY <1>21, <1>22, <1>23, <1>24, <1>26, <1>27, SMTT(30) DEF MultiInv

\* The rows of all rounds, by their lengths.
LEMMA AllRowsFound ==
    ASSUME steps \in Nat, NEW n \in Nat, n <= Rounds, NEW x
    PROVE  (\E k \in 1..n : x \in RowsOf(k)) <=> (\E N \in 1..Length(n) : x \in FoundRows(graph, from, to, N))
  <1>0. Rounds \in Nat
    BY SMTT(30) DEF Rounds
  <1>1. ASSUME NEW k \in 1..n, k # n PROVE Even(k)
    <2>1. k \in Nat /\ k <= Rounds /\ k < Rounds
      BY <1>0, <1>1, SMTT(30)
    <2>2. k < Rounds => Even(k) /\ Length(k) = 2 * k
      BY <2>1, RoundLengths
    <2> QED
      BY <2>1, <2>2
  <1>2. ASSUME NEW k \in 1..n, x \in RowsOf(k)
        PROVE  \E N \in 1..Length(n) : x \in FoundRows(graph, from, to, N)
    <2>1. CASE x \in FoundRows(graph, from, to, 2 * k - 1)
      <3>1. 2 * k - 1 \in 1..Length(n)
        BY SMTT(30) DEF Length
      <3> QED
        BY <2>1, <3>1
    <2>2. CASE Even(k) /\ x \in FoundRows(graph, from, to, 2 * k)
      <3>1. 2 * k \in 1..Length(n)
        <4>1. CASE k = n
          BY <2>2, <4>1, SMTT(30) DEF Length
        <4>2. CASE k # n
          BY <4>2, SMTT(30) DEF Length
        <4> QED
          BY <4>1, <4>2
      <3> QED
        BY <2>2, <3>1
    <2> QED
      BY <1>2, <2>1, <2>2 DEF RowsOf
  <1>3. ASSUME NEW N \in 1..Length(n), x \in FoundRows(graph, from, to, N)
        PROVE  \E k \in 1..n : x \in RowsOf(k)
    <2>0. N \in Nat /\ N >= 1 /\ N <= 2 * n
      BY SMTT(30) DEF Length
    <2>1. PICK k \in Nat : N = 2 * k - 1 \/ N = 2 * k
      <3>1. N = 2 * (N \div 2) + (N % 2) /\ N % 2 \in {0, 1} /\ N \div 2 \in Nat
        BY <2>0, SMTT(30)
      <3>2. CASE N % 2 = 0
        BY <3>1, <3>2, SMTT(30)
      <3>3. CASE N % 2 = 1
        <4>1. N \div 2 + 1 \in Nat /\ N = 2 * (N \div 2 + 1) - 1
          BY <3>1, <3>3, SMTT(30)
        <4> QED
          BY <4>1
      <3> QED
        BY <3>1, <3>2, <3>3
    <2>2. k \in 1..n
      BY <2>0, <2>1, SMTT(30)
    <2>3. CASE N = 2 * k - 1
      BY <1>3, <2>2, <2>3 DEF RowsOf
    <2>4. CASE N = 2 * k
      <3>1. Even(k)
        <4>1. CASE k = n
          <5>1. Length(n) # 2 * n - 1
            BY <2>4, <4>1, SMTT(30)
          <5> QED
            BY <4>1, <5>1 DEF Length
        <4> QED
          BY <1>1, <2>2, <4>1
      <3> QED
        BY <1>3, <2>2, <2>4, <3>1 DEF RowsOf
    <2> QED
      BY <2>1, <2>3, <2>4
  <1> QED
    BY <1>2, <1>3

\* What the sentence asks for, by the lengths.
LEMMA PairsByLength ==
    ASSUME steps \in Nat, NEW p
    PROVE  p \in ShortestOfPairs <=> \E N \in 1..steps : p \in FirstWalks(graph, from, to, N)
  <1> DEFINE walks == WalksBetween(graph, from, to, steps)
             Of(u, w) == {x \in walks : x.src = u /\ EndOf(x) = w}
  <1>1. steps \in Int
    BY SMTT(30)
  <1>2. ASSUME NEW x \in walks PROVE \E k \in 1..steps : x \in Walks(graph, from, k, "forward") /\ Len(x.steps) = k
    <2>1. PICK k \in 1..steps : x \in Walks(graph, from, k, "forward")
      BY DEF WalksBetween
    <2>2. k \in Nat
      BY <1>1, SMTT(30)
    <2>3. Len(x.steps) = k
      BY <2>1, <2>2, WalkShape, SMTT(30)
    <2> QED
      BY <2>1, <2>3
  <1>3. p \in ShortestOfPairs <=> \E u \in from, w \in to : u # w /\ p \in Shortest(Of(u, w))
    <2>1. p \in ShortestOfPairs <=> \E z \in {q \in from \X to : q[1] # q[2]} : p \in Shortest(Of(z[1], z[2]))
      BY DEF ShortestOfPairs
    <2>2. ASSUME NEW z \in {q \in from \X to : q[1] # q[2]}, p \in Shortest(Of(z[1], z[2]))
          PROVE  \E u \in from, w \in to : u # w /\ p \in Shortest(Of(u, w))
      <3>1. z[1] \in from /\ z[2] \in to /\ z[1] # z[2]
        OBVIOUS
      <3> QED
        BY ONLY <2>2, <3>1, Zenon
    <2>3. ASSUME NEW u \in from, NEW w \in to, u # w, p \in Shortest(Of(u, w))
          PROVE  \E z \in {q \in from \X to : q[1] # q[2]} : p \in Shortest(Of(z[1], z[2]))
      <3>1. PICK z : z = <<u, w>>
        OBVIOUS
      <3>2. z \in {q \in from \X to : q[1] # q[2]} /\ z[1] = u /\ z[2] = w
        BY <2>3, <3>1
      <3>3. p \in Shortest(Of(z[1], z[2]))
        BY <2>3, <3>2
      <3> QED
        BY <3>2, <3>3
    <2> QED
      BY <2>1, <2>2, <2>3
  <1>4. ASSUME NEW u \in from, NEW w \in to, u # w, p \in Shortest(Of(u, w))
        PROVE  \E N \in 1..steps : p \in FirstWalks(graph, from, to, N)
    <2>1. p \in walks /\ p.src = u /\ EndOf(p) = w /\ \A q \in Of(u, w) : Len(p.steps) <= Len(q.steps)
      BY <1>4 DEF Shortest
    <2>2. PICK N \in 1..steps : p \in Walks(graph, from, N, "forward") /\ Len(p.steps) = N
      BY <1>2, <2>1
    <2>3. ASSUME IsNear(graph, from, "forward", u, w, N - 1) PROVE FALSE
      <3>1. PICK k \in 1..(N - 1) : WalksTo(graph, from, "forward", u, w, k) # {}
        BY <2>3 DEF IsNear
      <3>2. PICK q : q \in WalksTo(graph, from, "forward", u, w, k)
        BY <3>1
      <3>3. q \in Walks(graph, from, k, "forward") /\ q.src = u /\ EndOf(q) = w
        BY <3>2 DEF WalksTo
      <3>4. k \in 1..steps /\ k \in Nat /\ k < N
        BY <1>1, SMTT(30)
      <3>5. Len(q.steps) = k
        BY <3>3, <3>4, WalkShape, SMTT(30)
      <3>6. q \in Of(u, w)
        BY <3>3, <3>4 DEF WalksBetween
      <3>7. Len(p.steps) <= Len(q.steps)
        BY <2>1, <3>6, SMTT(30)
      <3> QED
        BY <2>2, <3>4, <3>5, <3>7, SMTT(30)
    <2>4. p \in FirstWalks(graph, from, to, N)
      BY <1>4, <2>1, <2>2, <2>3 DEF FirstWalks
    <2> QED
      BY <2>4
  <1>5. ASSUME NEW N \in 1..steps, p \in FirstWalks(graph, from, to, N)
        PROVE  \E u \in from, w \in to : u # w /\ p \in Shortest(Of(u, w))
    <2>0. N \in Nat
      BY <1>1, SMTT(30)
    <2>1. PICK u : u = p.src
      OBVIOUS
    <2>2. PICK w : w = EndOf(p)
      OBVIOUS
    <2>3. /\ p \in Walks(graph, from, N, "forward") /\ w \in to /\ u # w
          /\ ~IsNear(graph, from, "forward", u, w, N - 1)
      BY <1>5, <2>1, <2>2 DEF FirstWalks
    <2>4. u \in from /\ Len(p.steps) = N
      BY <2>0, <2>1, <2>3, WalkType, WalkShape, SMTT(30)
    <2>5. p \in Of(u, w)
      BY <2>1, <2>2, <2>3 DEF WalksBetween
    <2>6. ASSUME NEW q \in Of(u, w) PROVE Len(p.steps) <= Len(q.steps)
      <3>1. PICK k \in 1..steps : q \in Walks(graph, from, k, "forward") /\ Len(q.steps) = k
        BY <1>2
      <3>2. q \in WalksTo(graph, from, "forward", u, w, k)
        BY <3>1 DEF WalksTo
      <3>3. k \notin 1..(N - 1)
        BY <2>3, <3>2 DEF IsNear
      <3> QED
        BY <1>1, <2>0, <2>4, <3>1, <3>3, SMTT(30)
    <2>7. p \in Shortest(Of(u, w))
      BY <2>5, <2>6 DEF Shortest
    <2> QED
      BY <2>3, <2>4, <2>7, ZenonT(60)
  <1> QED
    BY <1>3, <1>4, <1>5

\* What the query returns of it, by the lengths.
LEMMA ExpectedIs ==
    ASSUME steps \in Nat, NEW p
    PROVE  p \in Expected <=> \E N \in 1..MultiReach : p \in FirstWalks(graph, from, to, N)
  <1>1. \A N \in Nat : p \in FirstWalks(graph, from, to, N) => Len(p.steps) = N
    BY WalkShape, SMTT(30) DEF FirstWalks
  <1>2. p \in ShortestOfPairs <=> \E N \in 1..steps : p \in FirstWalks(graph, from, to, N)
    BY PairsByLength
  <1>3. \A N : N \in 1..MultiReach <=> N \in 1..steps /\ ~(steps % 2 = 0 /\ N = steps)
    BY SMTT(30) DEF MultiReach
  <1>4. 1..steps \subseteq Nat
    BY SMTT(30)
  <1>5. p \in Expected <=> p \in ShortestOfPairs /\ ~(steps % 2 = 0 /\ Len(p.steps) = steps)
    BY DEF Expected, AtEvenBound
  <1>6. ASSUME p \in Expected PROVE \E N \in 1..MultiReach : p \in FirstWalks(graph, from, to, N)
    <2>1. PICK N \in 1..steps : p \in FirstWalks(graph, from, to, N)
      BY <1>2, <1>5, <1>6
    <2>2. Len(p.steps) = N
      BY <1>1, <1>4, <2>1
    <2>3. N \in 1..MultiReach
      BY <1>3, <1>5, <1>6, <2>2
    <2> QED
      BY <2>1, <2>3
  <1>7. ASSUME NEW N \in 1..MultiReach, p \in FirstWalks(graph, from, to, N) PROVE p \in Expected
    <2>1. N \in 1..steps /\ ~(steps % 2 = 0 /\ N = steps)
      BY <1>3
    <2>2. Len(p.steps) = N
      BY <1>1, <1>4, <1>7, <2>1
    <2> QED
      BY <1>2, <1>5, <1>7, <2>1, <2>2
  <1> QED
    BY <1>6, <1>7

\* When the loop has ended, no longer walk is the shortest of its pair.
LEMMA LoopEnd ==
    ASSUME steps \in Nat, NEW n \in Nat, n <= Rounds, NEW state, IsState(state, graph, Length(n)),
           n = Rounds \/ state.allFound, NEW N \in 1..MultiReach, NEW p \in FirstWalks(graph, from, to, N)
    PROVE  N \in 1..Length(n)
  <1>1. /\ n = Rounds => Length(n) = MultiReach
        /\ Length(n) \in Int /\ MultiReach \in Int
    <2>1. n = Rounds => Length(n) = MultiReach
      BY RoundLengths
    <2>2. Length(n) \in Int /\ MultiReach \in Int /\ Length(n) <= MultiReach
      BY RoundLengths
    <2> QED
      BY <2>1, <2>2
  <1>2. CASE n = Rounds
    BY <1>1, <1>2
  <1>3. CASE state.allFound
    <2>1. state.unconnected = {} /\ AreConnected(state.unconnected, graph, from, to, Length(n))
      BY <1>3 DEF IsState
    <2>2. PICK u : u = p.src
      OBVIOUS
    <2>3. PICK w : w = EndOf(p)
      OBVIOUS
    <2>4. /\ p \in Walks(graph, from, N, "forward") /\ w \in to /\ u # w
          /\ ~IsNear(graph, from, "forward", u, w, N - 1)
      BY <2>2, <2>3 DEF FirstWalks
    <2>5. u \in from
      BY <2>2, <2>4, WalkType
    <2>6. IsNear(graph, from, "forward", u, w, Length(n))
      BY <2>1, <2>4, <2>5 DEF AreConnected
    <2>7. PICK k \in 1..Length(n) : WalksTo(graph, from, "forward", u, w, k) # {}
      BY <2>6 DEF IsNear
    <2>8. k \notin 1..(N - 1)
      BY <2>4, <2>7 DEF IsNear
    <2> QED
      BY <1>1, <2>8, SMTT(30)
  <1> QED
    BY <1>2, <1>3

\* Two rows for the same pair cost the same.
LEMMA OneCost ==
    ASSUME NEW g, NEW F, NEW T, NEW N \in Nat, NEW M \in Nat, N > 0, M > 0,
           NEW x \in FoundRows(g, F, T, N), NEW y \in FoundRows(g, F, T, M),
           x.path.src = y.path.src, EndOf(x.path) = EndOf(y.path)
    PROVE  x.cost = y.cost
  <1>1. PICK p \in FirstWalks(g, F, T, N) : x = [path |-> p, cost |-> N]
    BY DEF FoundRows
  <1>2. PICK q \in FirstWalks(g, F, T, M) : y = [path |-> q, cost |-> M]
    BY DEF FoundRows
  <1>3. PICK u : u = p.src
    OBVIOUS
  <1>4. PICK w : w = EndOf(p)
    OBVIOUS
  <1>5. u = q.src /\ w = EndOf(q)
    BY <1>1, <1>2, <1>3, <1>4
  <1>6. p \in WalksTo(g, F, "forward", u, w, N) /\ ~IsNear(g, F, "forward", u, w, N - 1)
    BY <1>3, <1>4 DEF FirstWalks, WalksTo
  <1>7. q \in WalksTo(g, F, "forward", u, w, M) /\ ~IsNear(g, F, "forward", u, w, M - 1)
    BY <1>5 DEF FirstWalks, WalksTo
  <1>8. N \notin 1..(M - 1) /\ M \notin 1..(N - 1)
    BY <1>6, <1>7 DEF IsNear
  <1>9. N = M
    BY <1>8, SMTT(30)
  <1> QED
    BY <1>1, <1>2, <1>9

\* The rows that collectMultiplePairShortestPath reads.
LEMMA CollectedRows ==
    ASSUME MultiTypes, NEW x
    PROVE  x \in UNION Range(output) <=> \E k \in 1..Len(output) : x \in output[k]
  <1>1. DOMAIN output = 1..Len(output)
    BY DEF MultiTypes
  <1> QED
    BY <1>1 DEF Range

\* DataCollect keeps all rows of every pair.
LEMMA MultiCollectStep ==
    ASSUME MultiInv, MultiCollect
    PROVE  MultiInv'
  <1> DEFINE rows == UNION Range(output)
             Of(p) == {r \in rows : <<r.path.src, EndOf(r.path)>> = p}
             pairs == {<<r.path.src, EndOf(r.path)>> : r \in rows}
             Cheapest(p) == {r \in Of(p) : \A q \in Of(p) : r.cost <= q.cost}
             kept == {p \in pairs : Cheapest(p) = Of(p)}
  <1>1. /\ MultiTypes /\ MultiRounds /\ MultiOutput /\ MultiExact
        /\ \A s \in Sides : MultiSide(s) /\ MultiReading(s)
    BY DEF MultiInv
  <1>2. /\ stage = "collect" /\ stage' = "done"
        /\ UNCHANGED <<query, done, loopSteps, search, join>>
    BY DEF MultiCollect
  <1>3. PICK last \in [pairs \ kept -> rows] :
            /\ \A p \in pairs \ kept : last[p] \in Cheapest(p)
            /\ answer' = {r.path : r \in Range(last) \cup UNION {Of(p) : p \in kept}}
    BY DEF MultiCollect
  <1>4. /\ UNCHANGED <<output, costs, unconnected, allFound>>
        /\ UNCHANGED <<startVids, todo, current, history, pathVar, crowded>>
        /\ UNCHANGED <<done, loopSteps>>
    BY <1>2 DEF join, search
  <1>5. Rounds' = Rounds /\ UNCHANGED <<graph, from, to, steps, noLoop>> /\ \A s : Starts(s)' = Starts(s)
    BY <1>2, QueryKept
  <1>6. MultiTypes'
    BY <1>1, <1>4, <1>5 DEF MultiTypes
  <1>7. MultiRounds'
    BY <1>1, <1>2, <1>4, <1>5 DEF MultiRounds
  <1>8. ASSUME NEW s \in Sides
        PROVE  MultiSide(s)' /\ MultiReading(s)' /\ (ExactSide(s) => ExactSide(s)')
    <2>1. Explored(s) = Len(output) /\ Explored(s)' = Len(output)
      BY <1>2, <1>4 DEF Explored
    <2>2. MultiSide(s)'
      BY <1>1, <1>4, <1>5, <2>1 DEF MultiSide
    <2>3. MultiReading(s)'
      BY <1>2 DEF MultiReading
    <2>4. ExactSide(s) => ExactSide(s)'
      BY <1>2, <1>4, <1>5, <2>1 DEF ExactSide
    <2> QED
      BY <2>2, <2>3, <2>4
  <1>9. ASSUME NEW p \in answer' PROVE \E x \in rows : p = x.path
    <2>1. PICK x : x \in Range(last) \cup UNION {Of(z) : z \in kept} /\ p = x.path
      BY <1>3
    <2>2. CASE x \in UNION {Of(z) : z \in kept}
      BY <2>1, <2>2
    <2>3. CASE x \in Range(last)
      BY <2>1, <2>3, SMTT(30) DEF Range
    <2> QED
      BY <2>1, <2>2, <2>3
  <1>10. MultiOutput'
    <2>1. ASSUME NEW p \in answer' PROVE IsWalkBetween(p, graph, from, to, steps)
      <3>1. PICK x \in rows : p = x.path
        BY <1>9
      <3>2. PICK k \in 1..Len(output) : x \in output[k]
        BY <1>1, CollectedRows
      <3>3. IsRow(x, graph, from, to, steps)
        BY <1>1, <3>2 DEF MultiOutput, AreRows
      <3> QED
        BY <3>1, <3>3 DEF IsRow, IsWalkBetween
    <2> QED
      BY <1>1, <1>4, <1>5, <2>1 DEF MultiOutput
  <1>11. ExactOutput => ExactOutput'
    BY <1>2, OutputKept
  <1>12. MultiExact'
    BY <1>1, <1>4, <1>8, <1>11 DEF MultiExact
  <1>13. ASSUME ~crowded PROVE answer' = Expected
    <2>0. /\ Len(output) \in Nat /\ Len(output) <= Rounds /\ steps \in Nat
          /\ Len(output) = Rounds \/ allFound
      BY <1>1, <1>2 DEF MultiTypes, MultiRounds
    <2>1. /\ IsState(Table, graph, Length(Len(output)))
          /\ \A k \in 1..Len(output) : output[k] = RowsOf(k)
      BY <1>1, <1>13 DEF MultiExact, ExactOutput
    <2>2. PICK n \in Nat : n = Len(output)
      BY <2>0
    <2>3. Length(n) \in Int /\ MultiReach \in Int /\ Length(n) <= MultiReach
      BY <2>0, <2>2, RoundLengths
    <2>4. ASSUME NEW x
          PROVE  x \in rows <=> \E N \in 1..Length(n) : x \in FoundRows(graph, from, to, N)
      <3>1. x \in rows <=> \E k \in 1..n : x \in output[k]
        BY <1>1, <2>2, CollectedRows
      <3>2. (\E k \in 1..n : x \in output[k]) <=> (\E k \in 1..n : x \in RowsOf(k))
        BY <2>1, <2>2
      <3>3. (\E k \in 1..n : x \in RowsOf(k)) <=> (\E N \in 1..Length(n) : x \in FoundRows(graph, from, to, N))
        BY <2>0, <2>2, AllRowsFound
      <3> QED
        BY <3>1, <3>2, <3>3
    <2>5. ASSUME NEW x \in rows, NEW y \in rows, x.path.src = y.path.src, EndOf(x.path) = EndOf(y.path)
          PROVE  x.cost <= y.cost
      <3>1. PICK N \in 1..Length(n) : x \in FoundRows(graph, from, to, N)
        BY <2>4
      <3>2. PICK M \in 1..Length(n) : y \in FoundRows(graph, from, to, M)
        BY <2>4
      <3>3. N \in Nat /\ M \in Nat /\ N > 0 /\ M > 0
        BY <2>3, SMTT(30)
      <3>4. x.cost = y.cost
        BY <2>5, <3>1, <3>2, <3>3, OneCost, SMTT(30)
      <3>5. x.cost = N
        BY <3>1, SMTT(30) DEF FoundRows
      <3> QED
        BY <3>3, <3>4, <3>5, SMTT(30)
    <2>6. ASSUME NEW z \in pairs PROVE Cheapest(z) = Of(z)
      <3>1. ASSUME NEW x \in Of(z), NEW y \in Of(z) PROVE x.cost <= y.cost
        <4>1. x \in rows /\ y \in rows /\ <<x.path.src, EndOf(x.path)>> = <<y.path.src, EndOf(y.path)>>
          OBVIOUS
        <4>2. x.path.src = y.path.src /\ EndOf(x.path) = EndOf(y.path)
          BY <4>1
        <4> QED
          BY <2>5, <4>1, <4>2
      <3> HIDE DEF Of
      <3> QED
        BY <3>1
    <2>7. kept = pairs
      BY <2>6
    <2>8. ASSUME NEW p PROVE p \in answer' <=> \E x \in rows : p = x.path
      <3>1. ASSUME NEW x \in rows, p = x.path PROVE p \in answer'
        <4>1. PICK z : z = <<x.path.src, EndOf(x.path)>>
          OBVIOUS
        <4>2. z \in kept /\ x \in Of(z)
          BY <2>7, <4>1
        <4>3. x \in Range(last) \cup UNION {Of(y) : y \in kept}
          BY <4>2, SMTT(30)
        <4> QED
          BY <1>3, <3>1, <4>3
      <3> QED
        BY <1>9, <3>1
    <2>9. ASSUME NEW p PROVE p \in answer' <=> p \in Expected
      <3>1. ASSUME NEW x \in rows, p = x.path PROVE p \in Expected
        <4>1. PICK N \in 1..Length(n) : x \in FoundRows(graph, from, to, N)
          BY <2>4
        <4>2. p \in FirstWalks(graph, from, to, N)
          BY <3>1, <4>1, SMTT(30) DEF FoundRows
        <4>3. N \in 1..MultiReach
          BY <2>3, SMTT(30)
        <4> QED
          BY <2>0, <4>2, <4>3, ExpectedIs
      <3>2. ASSUME p \in Expected PROVE \E x \in rows : p = x.path
        <4>1. PICK N \in 1..MultiReach : p \in FirstWalks(graph, from, to, N)
          BY <2>0, <3>2, ExpectedIs
        <4>2. n <= Rounds /\ (n = Rounds \/ Table.allFound) /\ IsState(Table, graph, Length(n))
          BY <2>0, <2>1, <2>2 DEF Table
        <4>3. N \in 1..Length(n)
          BY <2>0, <4>1, <4>2, LoopEnd
        <4>4. PICK x : x = [path |-> p, cost |-> N]
          OBVIOUS
        <4>5. x \in FoundRows(graph, from, to, N)
          BY <4>1, <4>4 DEF FoundRows
        <4> QED
          BY <2>4, <4>3, <4>4, <4>5, SMTT(30)
      <3> QED
        BY <2>8, <3>1, <3>2
    <2> QED
      BY <2>9
  <1>14. Expected' = Expected
    BY <1>5, SMTT(30) DEF Expected, ShortestOfPairs, AtEvenBound
  <1>15. ASSUME NEW p \in answer', NEW y \in rows, p.src = y.path.src, EndOf(p) = EndOf(y.path)
         PROVE  Len(p.steps) <= Len(y.path.steps)
    <2>1. ASSUME NEW z \in pairs, NEW x \in Cheapest(z), p = x.path
          PROVE  x \in rows /\ x.cost <= y.cost
      <3>1. x \in rows /\ <<x.path.src, EndOf(x.path)>> = z
        OBVIOUS
      <3>2. y \in Of(z)
        BY <1>15, <2>1, <3>1
      <3> QED
        BY <3>1, <3>2
    <2>2. \E z \in pairs : \E x \in Cheapest(z) : p = x.path
      <3>1. PICK x : x \in Range(last) \cup UNION {Of(z) : z \in kept} /\ p = x.path
        BY <1>3
      <3>2. CASE x \in Range(last)
        <4>1. PICK z \in pairs \ kept : x = last[z]
          BY <3>2, SMTT(30) DEF Range
        <4> QED
          BY <1>3, <3>1, <4>1
      <3>3. ASSUME NEW z \in kept, x \in Of(z) PROVE x \in Cheapest(z) /\ z \in pairs
        BY <3>3
      <3> HIDE DEF Of, Cheapest, kept, pairs
      <3> QED
        BY <3>1, <3>2, <3>3
    <2>3. PICK x \in rows : p = x.path /\ x.cost <= y.cost
      BY <2>1, <2>2
    <2>4. ASSUME NEW x1 \in rows PROVE x1.cost = Len(x1.path.steps)
      <3>1. PICK k \in 1..Len(output) : x1 \in output[k]
        BY <1>1, CollectedRows
      <3>2. IsRow(x1, graph, from, to, steps)
        BY <1>1, <3>1 DEF MultiOutput, AreRows
      <3>3. x1.cost \in Nat
        BY <3>2, SMTT(30) DEF IsRow
      <3> QED
        BY <3>2, <3>3, WalkShape, SMTT(30) DEF IsRow
    <2> QED
      BY <2>3, <2>4
  <1>16. MultiCheapest'
    BY <1>4, <1>15 DEF MultiCheapest
  <1>17. MultiFinal'
    BY <1>4, <1>13, <1>14, <1>16 DEF MultiFinal
  <1> QED
    BY <1>6, <1>7, <1>8, <1>10, <1>12, <1>17 DEF MultiInv

\* Every step of the plan for sets of vertices keeps the invariant.
LEMMA MultiStep ==
    ASSUME MultiInv, MultiNext
    PROVE  MultiInv'
  BY MultiLoopStep, MultiReadStep, MultiProduceStep, MultiConjunctStep, MultiCollectStep DEF MultiNext

\* updateHistory does not get to its LOG(FATAL).
LEMMA MultiNeverWorseHolds ==
    ASSUME MultiInv
    PROVE  MultiNeverWorse
  <1>1. \A s \in Sides : NotWorse(current[s], history[s])
    BY DEF MultiInv, MultiSide, HasMaps
  <1> QED
    BY <1>1 DEF MultiNeverWorse, NotWorse

-----------------------------------------------------------------------------
(***************************************************************************)
(* FIND PATH.                                                              *)
(***************************************************************************)
\* The invariant of the plan that the validator has chosen.
FindPathInv ==
    /\ algo \in {"all", "single", "multi"}
    /\ algo = "all" => AllInv
    /\ algo = "single" => SingleInv
    /\ algo = "multi" => MultiInv

\* Each plan starts in its invariant: FindPathValidator chooses the plan for one pair
\* only if there is one, and a NOLOOP query is never a shortest-path query.
LEMMA FindPathInit ==
    ASSUME Init
    PROVE  FindPathInv
  <1>1. PICK q \in Queries :
            /\ algo = ToPlan(q)
            /\ \/ algo = "single" /\ SinglePairPlan(q)
               \/ algo = "all" /\ AllPairPaths(q)
               \/ algo = "multi" /\ MultiPairPlan(q)
    BY DEF Init
  <1>2. q.steps \in Nat /\ q.noLoop \in BOOLEAN
    BY QueryAssumption
  <1>3. CASE algo = "single" /\ SinglePairPlan(q)
    <2>1. q.noLoop = FALSE /\ IsOne(q.from) /\ IsOne(q.to)
      BY <1>1, <1>2, <1>3 DEF ToPlan
    <2>2. PICK u : q.from = {u}
      BY <2>1 DEF IsOne
    <2>3. PICK v : q.to = {v}
      BY <2>1 DEF IsOne
    <2>4. SingleInv
      BY <1>2, <1>3, <2>1, <2>2, <2>3, SingleInit
    <2> QED
      BY <1>3, <2>4 DEF FindPathInv
  <1>4. CASE algo = "all" /\ AllPairPaths(q)
    <2>1. AllInv
      BY <1>2, <1>4, AllInit
    <2> QED
      BY <1>4, <2>1 DEF FindPathInv
  <1>5. CASE algo = "multi" /\ MultiPairPlan(q)
    <2>1. q.noLoop = FALSE
      BY <1>1, <1>2, <1>5 DEF ToPlan
    <2>2. MultiInv
      BY <1>2, <1>5, <2>1, MultiInit
    <2> QED
      BY <1>5, <2>2 DEF FindPathInv
  <1> QED
    BY <1>1, <1>3, <1>4, <1>5

\* A stuttering step.
LEMMA FindPathStutter ==
    ASSUME FindPathInv, UNCHANGED vars
    PROVE  FindPathInv'
  <1>1. /\ UNCHANGED <<algo, graph, from, to, steps, noLoop, stage, done, loopSteps, startVids, pathVar>>
        /\ UNCHANGED <<output, answer, visited, hists, historyPaths, count>>
        /\ UNCHANGED <<todo, current, history, costs, unconnected, allFound, crowded>>
    BY DEF vars, query, single, all, multi
  <1>2. Rounds' = Rounds /\ Missed' = Missed /\ \A s : Starts(s)' = Starts(s) /\ Start(s)' = Start(s)
    BY <1>1 DEF Rounds, Missed, Starts, Start
  <1>3. AllInv => AllInv'
    <2>1. AllTypes' = AllTypes /\ AllRounds' = AllRounds /\ \A s : AllSide(s)' = AllSide(s)
      BY <1>1, <1>2 DEF AllTypes, AllRounds, AllSide
    <2>2. AllOutput' = AllOutput
      BY <1>1 DEF AllOutput, RowsOfRound, AllRows
    <2> QED
      BY <1>1, <2>1, <2>2 DEF AllInv
  <1>4. SingleInv => SingleInv'
    <2>1. SingleTypes' = SingleTypes /\ SingleRounds' = SingleRounds
      BY <1>1, <1>2 DEF SingleTypes, SingleRounds
    <2>2. \A s : SingleSide(s)' = SingleSide(s)
      BY <1>1, <1>2 DEF SingleSide, Explored
    <2>3. SingleHists' = SingleHists /\ SingleOutput' = SingleOutput
      BY <1>1, <1>2 DEF SingleHists, SingleOutput
    <2> QED
      BY <1>1, <2>1, <2>2, <2>3 DEF SingleInv
  <1>5. MultiInv => MultiInv'
    <2>1. MultiTypes' = MultiTypes /\ MultiRounds' = MultiRounds /\ MultiOutput' = MultiOutput
      BY <1>1, <1>2 DEF MultiTypes, MultiRounds, MultiOutput
    <2>2. \A s : Explored(s)' = Explored(s)
      BY <1>1 DEF Explored
    <2>3. \A s : MultiSide(s)' = MultiSide(s) /\ MultiReading(s)' = MultiReading(s) /\ ExactSide(s)' = ExactSide(s)
      BY <1>1, <1>2, <2>2 DEF MultiSide, MultiReading, ExactSide
    <2>4. ExactOutput' = ExactOutput
      BY <1>1 DEF ExactOutput, Table, IsState, RowsOf, Length, Even
    <2>5. MultiExact' = MultiExact
      BY <1>1, <2>3, <2>4 DEF MultiExact
    <2>6. Expected' = Expected
      BY <1>1, SMTT(30) DEF Expected, ShortestOfPairs, AtEvenBound
    <2>7. MultiFinal' = MultiFinal
      BY <1>1, <2>6, SMTT(30) DEF MultiFinal, MultiCheapest
    <2> QED
      BY <2>1, <2>3, <2>5, <2>7 DEF MultiInv
  <1> QED
    BY <1>1, <1>3, <1>4, <1>5 DEF FindPathInv

(***************************************************************************)
(* Whatever the graph, the query and the order in which the two sides are  *)
(* expanded, every state satisfies the invariant of the chosen plan.       *)
(***************************************************************************)
THEOREM FindPathInvariant == Spec => []FindPathInv
  <1>1. Init => FindPathInv
    BY FindPathInit
  <1>2. FindPathInv /\ [Next]_vars => FindPathInv'
    <2> SUFFICES ASSUME FindPathInv, [Next]_vars
                 PROVE  FindPathInv'
      OBVIOUS
    <2>1. CASE Next
      <3>1. /\ algo' = algo
            /\ \/ algo = "single" /\ SingleNext
               \/ algo = "all" /\ AllNext
               \/ algo = "multi" /\ MultiNext
        BY <2>1 DEF Next
      <3>2. CASE algo = "single" /\ SingleNext
        BY <3>1, <3>2, SingleStep DEF FindPathInv
      <3>3. CASE algo = "all" /\ AllNext
        BY <3>1, <3>3, AllStep DEF FindPathInv
      <3>4. CASE algo = "multi" /\ MultiNext
        BY <3>1, <3>4, MultiStep DEF FindPathInv
      <3> QED
        BY <3>1, <3>2, <3>3, <3>4
    <2>2. CASE UNCHANGED vars
      BY <2>2, FindPathStutter
    <2> QED
      BY <2>1, <2>2
  <1> QED
    BY <1>1, <1>2, PTL DEF Spec

(***************************************************************************)
(* BFSShortestPathExecutor: level k of a side holds exactly the last arcs  *)
(* of the shortest walks of k steps from its start.                        *)
(***************************************************************************)
THEOREM LevelsHoldDistances == Spec => []LevelsAreDistances
  <1>1. FindPathInv => LevelsAreDistances
    BY SingleLevelsHold DEF FindPathInv, LevelsAreDistances
  <1> QED
    BY <1>1, FindPathInvariant, PTL

(***************************************************************************)
(* ProduceAllPathsExecutor: version k of a side holds all the paths of k   *)
(* steps from its starts that repeat no edge, and no others.               *)
(***************************************************************************)
THEOREM LevelsHoldTrails == Spec => []LevelsAreTrails
  <1>1. FindPathInv => LevelsAreTrails
    BY AllLevelsHold DEF FindPathInv, LevelsAreTrails
  <1> QED
    BY <1>1, FindPathInvariant, PTL

(***************************************************************************)
(* ProduceSemiShortestPathExecutor: the LOG(FATAL) of updateHistory for an *)
(* entry worse than the known one is never reached.                        *)
(***************************************************************************)
THEOREM HistoryNeverWorse == Spec => []NeverWorse
  <1>1. FindPathInv => NeverWorse
    BY MultiNeverWorseHolds DEF FindPathInv, NeverWorse
  <1> QED
    BY <1>1, FindPathInvariant, PTL

(***************************************************************************)
(* ConjunctPathExecutor and DataCollectExecutor: every row of the answer   *)
(* of each plan is a path that the sentence asks for, and the multi-pair   *)
(* plan returns no path of a pair that is longer than another it found.    *)
(***************************************************************************)
THEOREM SoundAnswers == Spec => []AnswerIsSound
  <1>1. ASSUME FindPathInv, NEW p \in answer
        PROVE  /\ IsWalkBetween(p, graph, from, to, IF algo = "single" THEN steps + (steps % 2) ELSE steps)
               /\ noLoop => ~HasDuplicateVertices(p)
    <2>1. CASE algo = "all"
      BY <1>1, <2>1, AllSound DEF FindPathInv
    <2>2. CASE algo = "single"
      BY <1>1, <2>2, SingleSound DEF FindPathInv
    <2>3. CASE algo = "multi"
      BY <1>1, <2>3 DEF FindPathInv, MultiInv, MultiOutput, MultiTypes
    <2> QED
      BY <1>1, <2>1, <2>2, <2>3 DEF FindPathInv
  <1>2. ASSUME FindPathInv, algo = "multi" PROVE MultiCheapest
    <2>1. MultiInv
      BY <1>2 DEF FindPathInv
    <2>2. CASE stage = "done"
      BY <2>1, <2>2 DEF MultiInv, MultiFinal
    <2>3. CASE stage # "done"
      BY <2>1, <2>3 DEF MultiInv, MultiRounds, MultiCheapest
    <2> QED
      BY <2>2, <2>3
  <1>3. FindPathInv => AnswerIsSound
    BY <1>1, <1>2 DEF AnswerIsSound
  <1> QED
    BY <1>3, FindPathInvariant, PTL

(***************************************************************************)
(* The same executors: the answer is the set of paths that the sentence    *)
(* asks for, UPTO steps, in the multi-pair plan as long as no two starts   *)
(* compete for a vertex that is new in a round.  The theorem also says how *)
(* far the code departs from this.  The multi-pair plan misses exactly the *)
(* shortest paths that are as long as an even bound.  The single-pair plan *)
(* with an odd bound, if there is no path within it, returns those that    *)
(* are one step longer.                                                    *)
(***************************************************************************)
THEOREM ExactAnswers == Spec => []AnswerIsExact
  <1>1. ASSUME FindPathInv PROVE AnswerIsExact
    <2>1. MultiInv => MultiAnswer
      BY DEF MultiInv, MultiFinal, MultiAnswer, Expected
    <2> QED
      BY <1>1, <2>1, AllAnswerHolds, SingleAnswerHolds DEF FindPathInv, AnswerIsExact
  <1> QED
    BY <1>1, FindPathInvariant, PTL

(***************************************************************************)
(* ConjunctPathExecutor::findAllPaths: no path is found in two rounds.     *)
(***************************************************************************)
THEOREM PathsFoundOnce == Spec => []FoundOnce
  <1>1. FindPathInv => FoundOnce
    BY AllOnceHolds DEF FindPathInv, FoundOnce
  <1> QED
    BY <1>1, FindPathInvariant, PTL
=============================================================================
