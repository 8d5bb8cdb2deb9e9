--------------------------- MODULE MultiPairProofs --------------------------
(***************************************************************************)
(* Proofs about FIND SHORTEST PATH between sets of vertices, for every     *)
(* graph: what the executors of the plan make of their cost path maps.     *)
(***************************************************************************)
EXTENDS MultiPairPath, PathProofs

\* Zenon proves every leaf that names no other prover.
USE Zenon

-----------------------------------------------------------------------------
(***************************************************************************)
(* The cost path maps of ProduceSemiShortestPath and the rows that         *)
(* findPath makes of them.                                                 *)
(***************************************************************************)
\* A connection from u to v: walks of as many steps as it costs.
IsConnection(e, g, F, r, u, v, least, most) ==
    /\ e.cost \in least..most
    /\ \A p \in e.paths : p \in Walks(g, F, e.cost, r) /\ p.src = u /\ EndOf(p) = v

IsCostPathMap(map, g, F, r, least, most) ==
    \A k \in DOMAIN map :
        /\ k = <<k[1], k[2]>> /\ k[2] \in F
        /\ IsConnection(map[k], g, F, r, k[2], k[1], least, most)

NotWorse(cur, H) == \A k \in DOMAIN cur \cap DOMAIN H : cur[k].cost <= H[k].cost

\* A connection that costs at most n costs at most m.
LEMMA ConnectionGrows ==
    ASSUME NEW e, NEW g, NEW F, NEW r, NEW u, NEW v, NEW least \in Nat, NEW n \in Nat, NEW m \in Nat, n <= m,
           IsConnection(e, g, F, r, u, v, least, n)
    PROVE  IsConnection(e, g, F, r, u, v, least, m)
    BY SMTT(30) DEF IsConnection

\* createPaths continues a connection.
LEMMA Created ==
    ASSUME NEW g, NEW F, NEW r, NEW n \in Nat, NEW H, IsCostPathMap(H, g, F, r, 1, n),
           NEW a \in Arcs(g, r), NEW u, <<a.src, u>> \in DOMAIN H
    PROVE  u \in F /\ IsConnection(CreatePaths(H, a, u), g, F, r, u, a.dst, 1, n + 1)
  <1> DEFINE k == <<a.src, u>>
             e == H[k]
  <1>1. u \in F /\ IsConnection(e, g, F, r, u, a.src, 1, n)
    BY DEF IsCostPathMap
  <1>2. PICK c \in Nat : c = e.cost /\ c <= n
    BY <1>1, SMTT(30) DEF IsConnection
  <1> HIDE DEF e
  <1>3. /\ CreatePaths(H, a, u).cost = c + 1
        /\ CreatePaths(H, a, u).paths = {AddStep(p, a) : p \in e.paths}
    BY <1>2 DEF CreatePaths, e
  <1>4. ASSUME NEW p \in e.paths
        PROVE  AddStep(p, a) \in Walks(g, F, c + 1, r) /\ AddStep(p, a).src = u /\ EndOf(AddStep(p, a)) = a.dst
    <2>1. p \in Walks(g, F, c, r) /\ p.src = u /\ a.src = EndOf(p)
      BY <1>1, <1>2 DEF IsConnection
    <2>2. AddStep(p, a) \in Walks(g, F, c + 1, r) /\ IsExtension(AddStep(p, a), p, c, a)
      BY <2>1, Extend
    <2> QED
      BY <2>1, <2>2 DEF IsExtension
  <1>5. \A p \in CreatePaths(H, a, u).paths : p \in Walks(g, F, c + 1, r) /\ p.src = u /\ EndOf(p) = a.dst
    BY <1>3, <1>4
  <1> QED
    BY <1>1, <1>2, <1>3, <1>5, SMTT(30) DEF IsConnection

\* What the history does not know is part of it, and not worse than what it knows.
LEMMA NewsSound ==
    ASSUME NEW g, NEW F, NEW r, NEW n \in Nat, NEW H, IsCostPathMap(H, g, F, r, 1, n),
           NEW a \in Arcs(g, r), NEW u, <<a.src, u>> \in DOMAIN H
    PROVE  /\ u \in F /\ IsConnection(News(H, a, u), g, F, r, u, a.dst, 1, n + 1)
           /\ News(H, a, u).paths # {} /\ <<a.dst, u>> \in DOMAIN H
                => News(H, a, u).cost <= H[<<a.dst, u>>].cost
  <1>1. u \in F /\ IsConnection(CreatePaths(H, a, u), g, F, r, u, a.dst, 1, n + 1)
    BY Created
  <1>2. PICK new : new = CreatePaths(H, a, u)
    OBVIOUS
  <1>3. News(H, a, u).cost = new.cost /\ News(H, a, u).paths \subseteq new.paths
    BY <1>2 DEF News
  <1>4. IsConnection(News(H, a, u), g, F, r, u, a.dst, 1, n + 1)
    BY <1>1, <1>2, <1>3 DEF IsConnection
  <1>5. ASSUME News(H, a, u).paths # {}, <<a.dst, u>> \in DOMAIN H
        PROVE  News(H, a, u).cost <= H[<<a.dst, u>>].cost
    <2>1. ~(new.cost > H[<<a.dst, u>>].cost)
      BY <1>2, <1>5 DEF News
    <2>2. H[<<a.dst, u>>].cost \in 1..n /\ new.cost \in 1..(n + 1)
      BY <1>1, <1>2, <1>5 DEF IsCostPathMap, IsConnection
    <2> QED
      BY <1>3, <2>1, <2>2, SMTT(30)
  <1> QED
    BY <1>1, <1>4, <1>5

\* The better of two connections is one, and not worse than either.
LEMMA BetterSound ==
    ASSUME NEW g, NEW F, NEW r, NEW u, NEW v, NEW n \in Nat,
           NEW e, IsConnection(e, g, F, r, u, v, 1, n), NEW d, IsConnection(d, g, F, r, u, v, 1, n)
    PROVE  /\ IsConnection(Better(e, d), g, F, r, u, v, 1, n)
           /\ Better(e, d).cost <= e.cost /\ Better(e, d).cost <= d.cost
  <1>1. e.cost \in 1..n /\ d.cost \in 1..n
    BY DEF IsConnection
  <1>2. CASE d.cost < e.cost
    BY <1>1, <1>2, SMTT(30) DEF Better
  <1>3. CASE d.cost = e.cost
    <2>1. Better(e, d).cost = e.cost /\ Better(e, d).paths = e.paths \cup d.paths
      BY <1>1, <1>3, SMTT(30) DEF Better
    <2> QED
      BY <1>1, <1>3, <2>1, SMTT(30) DEF IsConnection
  <1>4. CASE e.cost < d.cost
    BY <1>1, <1>4, SMTT(30) DEF Better
  <1> QED
    BY <1>1, <1>2, <1>3, <1>4, SMTT(30)

\* The starts from which a map reaches a vertex.
LEMMA ReachedIs ==
    ASSUME NEW g, NEW F, NEW r, NEW least, NEW most, NEW map, IsCostPathMap(map, g, F, r, least, most), NEW v, NEW u
    PROVE  u \in Reached(map, v) <=> <<v, u>> \in DOMAIN map
  <1>1. ASSUME u \in Reached(map, v) PROVE <<v, u>> \in DOMAIN map
    <2>1. PICK k \in DOMAIN map : k[1] = v /\ k[2] = u
      BY <1>1 DEF Reached
    <2>2. k = <<k[1], k[2]>>
      BY DEF IsCostPathMap
    <2> QED
      BY <2>1, <2>2
  <1>2. ASSUME <<v, u>> \in DOMAIN map PROVE u \in Reached(map, v)
    BY <1>2, SMTT(30) DEF Reached
  <1> QED
    BY <1>1, <1>2

\* An entry that is put into a map.
LEMMA PutSound ==
    ASSUME NEW g, NEW F, NEW r, NEW n \in Nat, NEW H, NEW cur,
           IsCostPathMap(cur, g, F, r, 1, n), NotWorse(cur, H),
           NEW u \in F, NEW v, NEW e, IsConnection(e, g, F, r, u, v, 1, n),
           <<v, u>> \in DOMAIN H => e.cost <= H[<<v, u>>].cost
    PROVE  IsCostPathMap(Put(cur, <<v, u>>, e), g, F, r, 1, n) /\ NotWorse(Put(cur, <<v, u>>, e), H)
  <1> DEFINE key == <<v, u>>
             map == Put(cur, key, e)
  <1>1. /\ DOMAIN map = DOMAIN cur \cup {key}
        /\ map[key] = e
        /\ \A k \in DOMAIN cur : k # key => map[k] = cur[k]
    BY DEF Put
  <1>2. key = <<key[1], key[2]>> /\ key[1] = v /\ key[2] = u
    OBVIOUS
  <1> HIDE DEF map, key
  <1>3. IsCostPathMap(map, g, F, r, 1, n)
    BY <1>1, <1>2 DEF IsCostPathMap
  <1>4. NotWorse(map, H)
    BY <1>1 DEF NotWorse, key
  <1> QED
    BY <1>3, <1>4 DEF map, key

\* The arc of a start, in the first round.
LEMMA FromStartSound ==
    ASSUME NEW g, NEW F, NEW r, NEW n \in Nat, NEW H, NEW cur, IsCostPathMap(H, g, F, r, 1, n),
           IsCostPathMap(cur, g, F, r, 1, n + 1), NotWorse(cur, H),
           NEW a \in Arcs(g, r), a.src \in F, n = 0
    PROVE  /\ IsCostPathMap(FromStart(cur, a), g, F, r, 1, n + 1) /\ NotWorse(FromStart(cur, a), H)
  <1> DEFINE key == <<a.dst, a.src>>
             path == AddStep(PathOf(a.src), a)
  <1>1. path \in Walks(g, F, 1, r) /\ path.src = a.src /\ EndOf(path) = a.dst
    <2>1. PICK p : p = PathOf(a.src)
      OBVIOUS
    <2>2. p \in Walks(g, F, 0, r) /\ EndOf(p) = a.src /\ p.src = a.src
      BY <2>1, NoStep, NoElement, SMTT(30) DEF PathOf, EndOf, VertexAt
    <2>3. AddStep(p, a) \in Walks(g, F, 0 + 1, r) /\ IsExtension(AddStep(p, a), p, 0, a)
      BY <2>2, Extend
    <2> QED
      BY <2>1, <2>2, <2>3, SMTT(30) DEF IsExtension
  <1> HIDE DEF path
  <1>2. \A k \in DOMAIN H : H[k].cost \in 1..n
    BY DEF IsCostPathMap, IsConnection
  <1>n. n + 1 \in Nat
    BY SMTT(30)
  <1>3. CASE key \notin DOMAIN cur
    <2>1. PICK e : e = [cost |-> 1, paths |-> {path}]
      OBVIOUS
    <2>2. IsConnection(e, g, F, r, a.src, a.dst, 1, n + 1)
      BY <1>1, <2>1, SMTT(30) DEF IsConnection
    <2>3. <<a.dst, a.src>> \in DOMAIN H => e.cost <= H[<<a.dst, a.src>>].cost
      BY <1>2, <2>1, SMTT(30)
    <2>4. FromStart(cur, a) = Put(cur, <<a.dst, a.src>>, e)
      BY <1>3, <2>1 DEF FromStart, path
    <2> QED
      BY <2>2, <2>3, <2>4, <1>n, PutSound
  <1>4. CASE key \in DOMAIN cur
    <2>1. IsConnection(cur[key], g, F, r, a.src, a.dst, 1, n + 1)
      BY <1>4 DEF IsCostPathMap
    <2>2. PICK c \in 1..(n + 1) : c = cur[key].cost
      BY <2>1 DEF IsConnection
    <2>3. key \in DOMAIN H => c <= H[key].cost
      BY <1>4, <2>2 DEF NotWorse
    <2>4. PICK e : e = [cost |-> c, paths |-> IF c = 1 THEN cur[key].paths \cup {path} ELSE {path}]
      OBVIOUS
    <2>5. FromStart(cur, a) = Put(cur, <<a.dst, a.src>>, e)
      BY <1>4, <2>2, <2>4, SMTT(30) DEF FromStart, path
    <2>6. CASE c = 1
      <3>1. IsConnection(e, g, F, r, a.src, a.dst, 1, n + 1)
        BY <1>1, <2>1, <2>2, <2>4, <2>6 DEF IsConnection
      <3>2. <<a.dst, a.src>> \in DOMAIN H => e.cost <= H[<<a.dst, a.src>>].cost
        BY <2>3, <2>4
      <3>3. /\ IsCostPathMap(Put(cur, <<a.dst, a.src>>, e), g, F, r, 1, n + 1)
            /\ NotWorse(Put(cur, <<a.dst, a.src>>, e), H)
        BY <3>1, <3>2, <1>n, PutSound
      <3> QED
        BY <2>5, <3>3
    <2> QED
      BY <2>2, <2>6, SMTT(30)
  <1> QED
    BY <1>3, <1>4

\* dstNotInHistory and dstInHistory add a connection not worse than the history.
LEMMA DstNotInCurrentSound ==
    ASSUME NEW g, NEW F, NEW r, NEW n \in Nat, NEW H, NEW cur, IsCostPathMap(H, g, F, r, 1, n),
           IsCostPathMap(cur, g, F, r, 1, n + 1), NotWorse(cur, H), NEW a \in Arcs(g, r),
           NEW next \in DstNotInCurrent(H, cur, a)
    PROVE  IsCostPathMap(next, g, F, r, 1, n + 1) /\ NotWorse(next, H)
  <1>1. CASE next = cur
    BY <1>1
  <1>2. CASE next # cur
    <2>1. PICK u \in HasNews(H, a) : next = Put(cur, <<a.dst, u>>, News(H, a, u))
      BY <1>2 DEF DstNotInCurrent
    <2>2. <<a.src, u>> \in DOMAIN H /\ News(H, a, u).paths # {}
      BY ReachedIs DEF HasNews
    <2>3. /\ u \in F /\ IsConnection(News(H, a, u), g, F, r, u, a.dst, 1, n + 1)
          /\ News(H, a, u).paths # {} /\ <<a.dst, u>> \in DOMAIN H
                => News(H, a, u).cost <= H[<<a.dst, u>>].cost
      BY <2>2, NewsSound
    <2>4. PICK e : e = News(H, a, u)
      OBVIOUS
    <2>5. n + 1 \in Nat
      BY SMTT(30)
    <2>6. /\ IsCostPathMap(Put(cur, <<a.dst, u>>, e), g, F, r, 1, n + 1)
          /\ NotWorse(Put(cur, <<a.dst, u>>, e), H)
      BY <2>2, <2>3, <2>4, <2>5, PutSound
    <2> QED
      BY <2>1, <2>4, <2>6
  <1> QED
    BY <1>1, <1>2

\* The entries that dstInCurrent leaves alone, improves and adds.
DstKnown(H, cur, a) == {s \in Reached(H, a.src) : <<a.dst, s>> \in DOMAIN cur}

\* So does dstInCurrent.
LEMMA DstInCurrentSound ==
    ASSUME NEW g, NEW F, NEW r, NEW n \in Nat, NEW H, NEW cur, IsCostPathMap(H, g, F, r, 1, n),
           IsCostPathMap(cur, g, F, r, 1, n + 1), NotWorse(cur, H), NEW a \in Arcs(g, r)
    PROVE  IsCostPathMap(DstInCurrent(H, cur, a), g, F, r, 1, n + 1) /\ NotWorse(DstInCurrent(H, cur, a), H)
  <1> DEFINE next == DstInCurrent(H, cur, a)
  <1>n. n + 1 \in Nat
    BY SMTT(30)
  <1>1. /\ DOMAIN next = DOMAIN cur \cup {<<a.dst, s>> : s \in HasNews(H, a) \ DstKnown(H, cur, a)}
        /\ \A k \in DOMAIN next : next[k] =
                IF k \in DOMAIN cur
                THEN IF k[1] = a.dst /\ k[2] \in DstKnown(H, cur, a)
                     THEN Better(cur[k], CreatePaths(H, a, k[2])) ELSE cur[k]
                ELSE News(H, a, k[2])
    BY DEF DstInCurrent, DstKnown
  <1> HIDE DEF next
  <1>2. ASSUME NEW k \in DOMAIN next
        PROVE  /\ k = <<k[1], k[2]>> /\ k[2] \in F
               /\ IsConnection(next[k], g, F, r, k[2], k[1], 1, n + 1)
               /\ k \in DOMAIN H => next[k].cost <= H[k].cost
    <2>1. CASE k \in DOMAIN cur
      <3>1. /\ k = <<k[1], k[2]>> /\ k[2] \in F
            /\ IsConnection(cur[k], g, F, r, k[2], k[1], 1, n + 1)
            /\ k \in DOMAIN H => cur[k].cost <= H[k].cost
        BY <2>1 DEF IsCostPathMap, NotWorse
      <3>2. CASE next[k] = cur[k]
        BY <3>1, <3>2
      <3>3. CASE next[k] # cur[k]
        <4>1. k[1] = a.dst /\ k[2] \in DstKnown(H, cur, a) /\ next[k] = Better(cur[k], CreatePaths(H, a, k[2]))
          BY <1>1, <2>1, <3>3
        <4>2. PICK u : u = k[2]
          OBVIOUS
        <4>3. <<a.src, u>> \in DOMAIN H
          BY <4>1, <4>2, ReachedIs DEF DstKnown
        <4>4. IsConnection(CreatePaths(H, a, u), g, F, r, u, a.dst, 1, n + 1)
          BY <4>3, Created
        <4>5. PICK d : d = CreatePaths(H, a, u)
          OBVIOUS
        <4>6. PICK e : e = cur[k]
          OBVIOUS
        <4>7. IsConnection(e, g, F, r, u, a.dst, 1, n + 1) /\ IsConnection(d, g, F, r, u, a.dst, 1, n + 1)
          BY <3>1, <4>1, <4>2, <4>4, <4>5, <4>6
        <4>8. /\ IsConnection(Better(e, d), g, F, r, u, a.dst, 1, n + 1)
              /\ Better(e, d).cost <= e.cost /\ Better(e, d).cost <= d.cost
          BY <4>7, <1>n, BetterSound
        <4>9. next[k] = Better(e, d)
          BY <4>1, <4>2, <4>5, <4>6
        <4>10. PICK x : x = Better(e, d)
          OBVIOUS
        <4>11. x.cost \in Int /\ e.cost \in Int /\ (k \in DOMAIN H => H[k].cost \in Int)
          BY <4>7, <4>8, <4>10, SMTT(30) DEF IsConnection, IsCostPathMap
        <4>12. k \in DOMAIN H => x.cost <= H[k].cost
          BY <3>1, <4>6, <4>8, <4>10, <4>11, SMTT(30)
        <4> QED
          BY <3>1, <4>1, <4>2, <4>8, <4>9, <4>10, <4>12
      <3> QED
        BY <3>2, <3>3
    <2>2. CASE k \notin DOMAIN cur
      <3>1. PICK u \in HasNews(H, a) : k = <<a.dst, u>>
        BY <1>1, <2>2
      <3>2. <<a.src, u>> \in DOMAIN H /\ News(H, a, u).paths # {}
        BY ReachedIs DEF HasNews
      <3>3. /\ u \in F /\ IsConnection(News(H, a, u), g, F, r, u, a.dst, 1, n + 1)
            /\ News(H, a, u).paths # {} /\ <<a.dst, u>> \in DOMAIN H
                => News(H, a, u).cost <= H[<<a.dst, u>>].cost
        BY <3>2, NewsSound
      <3>4. next[k] = News(H, a, u)
        BY <1>1, <2>2, <3>1
      <3> QED
        BY <3>1, <3>2, <3>3, <3>4
    <2> QED
      BY <2>1, <2>2
  <1>3. IsCostPathMap(next, g, F, r, 1, n + 1)
    BY <1>2 DEF IsCostPathMap
  <1>4. NotWorse(next, H)
    BY <1>2 DEF NotWorse
  <1> QED
    BY <1>3, <1>4 DEF next

\* A vertex that can be expanded: it has been reached, or it is a start of the first round.
IsSource(v, H, F, n) == Reached(H, v) # {} \/ (n = 0 /\ v \in F)

\* So does whatever is done with an arc.
LEMMA FollowSound ==
    ASSUME NEW g, NEW F, NEW r, NEW n \in Nat, NEW H, NEW cur, IsCostPathMap(H, g, F, r, 1, n),
           IsCostPathMap(cur, g, F, r, 1, n + 1), NotWorse(cur, H), NEW a \in Arcs(g, r),
           IsSource(a.src, H, F, n), NEW next \in Follow(H, cur, a)
    PROVE  IsCostPathMap(next, g, F, r, 1, n + 1) /\ NotWorse(next, H)
  <1>1. CASE Reached(H, a.src) = {}
    <2>1. n = 0 /\ a.src \in F /\ next = FromStart(cur, a)
      BY <1>1 DEF IsSource, Follow
    <2> QED
      BY <2>1, FromStartSound
  <1>2. CASE next \in DstNotInCurrent(H, cur, a)
    BY <1>2, DstNotInCurrentSound
  <1>3. CASE next = DstInCurrent(H, cur, a)
    BY <1>3, DstInCurrentSound
  <1> QED
    BY <1>1, <1>2, <1>3 DEF Follow

(***************************************************************************)
(* As long as no two starts compete for a vertex, a map has everything.    *)
(***************************************************************************)
WalksTo(g, F, r, u, v, n) == {p \in Walks(g, F, n, r) : p.src = u /\ EndOf(p) = v}

\* v can be reached from u in one to n steps ...
IsNear(g, F, r, u, v, n) == \E k \in 1..n : WalksTo(g, F, r, u, v, k) # {}

\* ... and n steps are the fewest.
IsFirst(g, F, r, u, v, n) == WalksTo(g, F, r, u, v, n) # {} /\ ~IsNear(g, F, r, u, v, n - 1)

HasAll(e, g, F, r, u, v, n) == e.cost = n /\ e.paths = WalksTo(g, F, r, u, v, n)

\* The output of round n.
IsLevelMap(map, g, F, r, n) ==
    \A v, u : /\ <<v, u>> \in DOMAIN map <=> IsFirst(g, F, r, u, v, n)
              /\ <<v, u>> \in DOMAIN map => HasAll(map[<<v, u>>], g, F, r, u, v, n)

\* The history after round n.
IsHistory(H, g, F, r, n) ==
    \A v, u : /\ <<v, u>> \in DOMAIN H <=> IsNear(g, F, r, u, v, n)
              /\ <<v, u>> \in DOMAIN H =>
                    \E k \in 1..n : IsFirst(g, F, r, u, v, k) /\ HasAll(H[<<v, u>>], g, F, r, u, v, k)

\* The walks that continue those of n steps from u by the arc a, or by one of A to v.
Onward(g, F, r, u, n, a) == {AddStep(q, a) : q \in WalksTo(g, F, r, u, a.src, n)}

Via(g, F, r, u, v, n, A) == UNION {Onward(g, F, r, u, n, a) : a \in {b \in A : b.dst = v}}

\* The map of round n + 1 when the arcs A have been read.
IsPartialFor(map, g, F, r, u, v, n, A) ==
    /\ <<v, u>> \in DOMAIN map <=> ~IsNear(g, F, r, u, v, n) /\ Via(g, F, r, u, v, n, A) # {}
    /\ <<v, u>> \in DOMAIN map => /\ map[<<v, u>>].cost = n + 1
                                  /\ map[<<v, u>>].paths = Via(g, F, r, u, v, n, A)

IsPartial(map, g, F, r, n, A) == \A v, u : IsPartialFor(map, g, F, r, u, v, n, A)

\* The vertices that round n has reached first.
AreFirst(V, g, F, r, n) == \A v : v \in V <=> \E u \in F : IsFirst(g, F, r, u, v, n)

IsCosts(known, g, F, T, n) ==
    \A u, w : /\ <<u, w>> \in DOMAIN known <=>
                    u \in F /\ w \in T /\ u # w /\ IsNear(g, F, "forward", u, w, n)
              /\ <<u, w>> \in DOMAIN known =>
                    \E k \in 1..n : IsFirst(g, F, "forward", u, w, k) /\ known[<<u, w>>] = k

\* The pairs of different vertices that are not in the table are connected.
AreConnected(table, g, F, T, n) ==
    \A u \in F, w \in T : u # w /\ <<u, w>> \notin table => IsNear(g, F, "forward", u, w, n)

\* The shortest walks of n steps between different vertices.
FirstWalks(g, F, T, n) ==
    {p \in Walks(g, F, n, "forward") :
        EndOf(p) \in T /\ p.src # EndOf(p) /\ ~IsNear(g, F, "forward", p.src, EndOf(p), n - 1)}

FoundRows(g, F, T, n) == {[path |-> p, cost |-> n] : p \in FirstWalks(g, F, T, n)}

\* WalksTo, written out.
LEMMA WalksToIs ==
    ASSUME NEW g, NEW F, NEW r, NEW u, NEW v, NEW n, NEW p
    PROVE  p \in WalksTo(g, F, r, u, v, n) <=> p \in Walks(g, F, n, r) /\ p.src = u /\ EndOf(p) = v
    BY DEF WalksTo

\* One arc further.
LEMMA OnwardWalks ==
    ASSUME NEW g, NEW F, NEW r, NEW u, NEW n \in Nat, NEW a \in Arcs(g, r)
    PROVE  /\ Onward(g, F, r, u, n, a) \subseteq WalksTo(g, F, r, u, a.dst, n + 1)
           /\ Onward(g, F, r, u, n, a) # {} <=> WalksTo(g, F, r, u, a.src, n) # {}
  <1>1. ASSUME NEW q \in WalksTo(g, F, r, u, a.src, n)
        PROVE  AddStep(q, a) \in WalksTo(g, F, r, u, a.dst, n + 1)
    <2>1. q \in Walks(g, F, n, r) /\ q.src = u /\ a.src = EndOf(q)
      BY DEF WalksTo
    <2>2. AddStep(q, a) \in Walks(g, F, n + 1, r) /\ IsExtension(AddStep(q, a), q, n, a)
      BY <2>1, Extend
    <2>3. AddStep(q, a).src = u /\ EndOf(AddStep(q, a)) = a.dst
      BY <2>1, <2>2 DEF IsExtension
    <2> QED
      BY <2>2, <2>3, WalksToIs
  <1> QED
    BY <1>1 DEF Onward

\* An arc leads one step further.
LEMMA NearOnward ==
    ASSUME NEW g, NEW F, NEW r, NEW u, NEW n \in Int, NEW a \in Arcs(g, r), IsNear(g, F, r, u, a.src, n)
    PROVE  IsNear(g, F, r, u, a.dst, n + 1)
  <1>1. PICK k \in 1..n : WalksTo(g, F, r, u, a.src, k) # {}
    BY DEF IsNear
  <1>2. k \in Nat /\ k + 1 \in 1..(n + 1)
    BY SMTT(30)
  <1>3. Onward(g, F, r, u, k, a) # {} /\ Onward(g, F, r, u, k, a) \subseteq WalksTo(g, F, r, u, a.dst, k + 1)
    BY <1>1, <1>2, OnwardWalks
  <1> QED
    BY <1>2, <1>3 DEF IsNear

\* A walk of n + 1 steps continues one of n steps.
LEMMA LastArc ==
    ASSUME NEW g, NEW F, NEW r, NEW u, NEW v, NEW n \in Nat, NEW p \in WalksTo(g, F, r, u, v, n + 1)
    PROVE  \E a \in Arcs(g, r) : a.dst = v /\ p \in Onward(g, F, r, u, n, a)
  <1>1. p \in Walks(g, F, n + 1, r) /\ p.src = u /\ EndOf(p) = v
    BY DEF WalksTo
  <1>2. PICK a \in Arcs(g, r) : /\ a.src = EndOf(Prefix(p, n)) /\ p = AddStep(Prefix(p, n), a)
                                /\ EndOf(p) = a.dst
    BY <1>1, Shorten, SMTT(30)
  <1>3. Prefix(p, n) \in Walks(g, F, n, r) /\ IsPrefixOf(Prefix(p, n), p, n)
    <2>1. n + 1 \in Nat /\ n \in 0..(n + 1)
      BY SMTT(30)
    <2> QED
      BY <1>1, <2>1, PrefixWalk
  <1>4. Prefix(p, n).src = u
    BY <1>1, <1>3 DEF IsPrefixOf
  <1>5. Prefix(p, n) \in WalksTo(g, F, r, u, a.src, n)
    BY <1>2, <1>3, <1>4, WalksToIs
  <1> QED
    BY <1>1, <1>2, <1>5 DEF Onward

\* If n steps do not lead to its end, then n steps are the fewest to its source.
LEMMA FirstSource ==
    ASSUME NEW g, NEW F, NEW r, NEW u, NEW n \in Nat, NEW a \in Arcs(g, r),
           ~IsNear(g, F, r, u, a.dst, n), WalksTo(g, F, r, u, a.src, n) # {}
    PROVE  IsFirst(g, F, r, u, a.src, n)
  <1>1. ASSUME IsNear(g, F, r, u, a.src, n - 1) PROVE FALSE
    <2>1. PICK m \in Int : m = n - 1
      BY SMTT(30)
    <2>2. IsNear(g, F, r, u, a.dst, m + 1)
      BY <1>1, <2>1, NearOnward
    <2> QED
      BY <2>1, <2>2, SMTT(30)
  <1> QED
    BY <1>1 DEF IsFirst

\* What createPaths makes of a history, for an end that n steps do not lead to.
LEMMA CreatedExact ==
    ASSUME NEW g, NEW F, NEW r, NEW n \in Nat, NEW H, IsHistory(H, g, F, r, n), NEW a \in Arcs(g, r), NEW u,
           <<a.src, u>> \in DOMAIN H, ~IsNear(g, F, r, u, a.dst, n)
    PROVE  /\ CreatePaths(H, a, u).cost = n + 1
           /\ CreatePaths(H, a, u).paths = Onward(g, F, r, u, n, a)
           /\ Onward(g, F, r, u, n, a) # {}
           /\ WalksTo(g, F, r, u, a.src, n) # {}
  <1>1. PICK k \in 1..n : IsFirst(g, F, r, u, a.src, k) /\ HasAll(H[<<a.src, u>>], g, F, r, u, a.src, k)
    BY DEF IsHistory
  <1>2. k \in Nat /\ WalksTo(g, F, r, u, a.src, k) # {}
    BY <1>1, SMTT(30) DEF IsFirst
  <1>3. Onward(g, F, r, u, k, a) \subseteq WalksTo(g, F, r, u, a.dst, k + 1) /\ Onward(g, F, r, u, k, a) # {}
    BY <1>2, OnwardWalks
  <1>4. k = n
    <2>1. ASSUME k # n PROVE FALSE
      <3>1. k + 1 \in 1..n
        BY <2>1, SMTT(30)
      <3> QED
        BY <1>3, <3>1 DEF IsNear
    <2> QED
      BY <2>1
  <1>5. H[<<a.src, u>>].cost = n /\ H[<<a.src, u>>].paths = WalksTo(g, F, r, u, a.src, n)
    BY <1>1, <1>4 DEF HasAll
  <1>6. CreatePaths(H, a, u).cost = n + 1 /\ CreatePaths(H, a, u).paths = Onward(g, F, r, u, n, a)
    BY <1>5 DEF CreatePaths, Onward
  <1> QED
    BY <1>2, <1>3, <1>4, <1>6

\* Nothing is news about an end that n steps lead to.
LEMMA NoNews ==
    ASSUME NEW g, NEW F, NEW r, NEW n \in Nat, NEW H, IsHistory(H, g, F, r, n), NEW a \in Arcs(g, r), NEW u,
           <<a.src, u>> \in DOMAIN H, IsNear(g, F, r, u, a.dst, n)
    PROVE  News(H, a, u).paths = {}
  <1> DEFINE key == <<a.dst, u>>
             new == CreatePaths(H, a, u)
  <1>1. PICK k \in 1..n : IsFirst(g, F, r, u, a.src, k) /\ HasAll(H[<<a.src, u>>], g, F, r, u, a.src, k)
    BY DEF IsHistory
  <1>2. key \in DOMAIN H
    BY DEF IsHistory
  <1>3. PICK m \in 1..n : IsFirst(g, F, r, u, a.dst, m) /\ HasAll(H[key], g, F, r, u, a.dst, m)
    BY <1>2 DEF IsHistory
  <1>4. new.cost = k + 1 /\ new.paths = Onward(g, F, r, u, k, a)
    BY <1>1 DEF CreatePaths, HasAll, Onward
  <1>5. H[key].cost = m /\ H[key].paths = WalksTo(g, F, r, u, a.dst, m)
    BY <1>3 DEF HasAll
  <1>6. Onward(g, F, r, u, k, a) \subseteq WalksTo(g, F, r, u, a.dst, k + 1) /\ Onward(g, F, r, u, k, a) # {}
    <2>1. k \in Nat /\ WalksTo(g, F, r, u, a.src, k) # {}
      BY <1>1, SMTT(30) DEF IsFirst
    <2> QED
      BY <2>1, OnwardWalks
  <1>7. k + 1 >= m
    <2>1. ASSUME k + 1 < m PROVE FALSE
      <3>1. k + 1 \in 1..(m - 1)
        BY <2>1, SMTT(30)
      <3> QED
        BY <1>3, <1>6, <3>1 DEF IsFirst, IsNear
    <2> QED
      BY <2>1, SMTT(30)
  <1>8. News(H, a, u).paths = IF new.cost > H[key].cost THEN {} ELSE new.paths \ H[key].paths
    BY <1>2 DEF News
  <1> HIDE DEF new, key
  <1>9. CASE k + 1 > m
    BY <1>4, <1>5, <1>8, <1>9
  <1>10. CASE k + 1 = m
    BY <1>4, <1>5, <1>6, <1>8, <1>10
  <1> QED
    BY <1>7, <1>9, <1>10, SMTT(30)

IsNews(g, F, r, u, n, a) == WalksTo(g, F, r, u, a.src, n) # {} /\ ~IsNear(g, F, r, u, a.dst, n)

\* What News says of the start u when the arc a is read.
AreNews(H, g, F, r, u, n, a) ==
    /\ u \in HasNews(H, a) <=> IsNews(g, F, r, u, n, a)
    /\ u \in HasNews(H, a) => /\ News(H, a, u).cost = n + 1
                              /\ News(H, a, u).paths = Onward(g, F, r, u, n, a)
                              /\ Onward(g, F, r, u, n, a) # {}

\* The news of an arc are the walks of n + 1 steps that it ends, if n do not lead there.
LEMMA NewsExact ==
    ASSUME NEW g, NEW F, NEW r, NEW n \in Nat, n > 0, NEW H, IsHistory(H, g, F, r, n), IsCostPathMap(H, g, F, r, 1, n),
           NEW a \in Arcs(g, r), NEW u
    PROVE  AreNews(H, g, F, r, u, n, a)
  <1>1. u \in HasNews(H, a) <=> <<a.src, u>> \in DOMAIN H /\ News(H, a, u).paths # {}
    BY ReachedIs DEF HasNews
  <1>2. ASSUME <<a.src, u>> \in DOMAIN H, ~IsNear(g, F, r, u, a.dst, n)
        PROVE  /\ News(H, a, u).cost = n + 1
               /\ News(H, a, u).paths = Onward(g, F, r, u, n, a)
               /\ Onward(g, F, r, u, n, a) # {}
               /\ WalksTo(g, F, r, u, a.src, n) # {}
    <2>1. <<a.dst, u>> \notin DOMAIN H
      BY <1>2 DEF IsHistory
    <2>2. News(H, a, u) = CreatePaths(H, a, u)
      BY <2>1 DEF News
    <2> QED
      BY <1>2, <2>2, CreatedExact, SMTT(30)
  <1>3. ASSUME <<a.src, u>> \in DOMAIN H, IsNear(g, F, r, u, a.dst, n) PROVE News(H, a, u).paths = {}
    BY <1>3, NoNews
  <1>4. ASSUME WalksTo(g, F, r, u, a.src, n) # {} PROVE <<a.src, u>> \in DOMAIN H
    <2>1. IsNear(g, F, r, u, a.src, n)
      BY <1>4, SMTT(30) DEF IsNear
    <2> QED
      BY <2>1 DEF IsHistory
  <1> QED
    BY <1>1, <1>2, <1>3, <1>4 DEF IsNews, AreNews

\* Another arc is read.
LEMMA ViaOther ==
    ASSUME NEW g, NEW F, NEW r, NEW u, NEW v, NEW n, NEW A, NEW B, NEW a, B = A \cup {a}
    PROVE  /\ v # a.dst => Via(g, F, r, u, v, n, B) = Via(g, F, r, u, v, n, A)
           /\ v = a.dst => Via(g, F, r, u, v, n, B) = Via(g, F, r, u, v, n, A) \cup Onward(g, F, r, u, n, a)
    BY DEF Via

\* A pair about which the new arc says nothing.
LEMMA PartialSame ==
    ASSUME NEW g, NEW F, NEW r, NEW u, NEW v, NEW n, NEW A, NEW a, NEW B, B = A \cup {a}, NEW cur, NEW next,
           IsPartialFor(cur, g, F, r, u, v, n, A),
           v # a.dst \/ Onward(g, F, r, u, n, a) = {} \/ IsNear(g, F, r, u, v, n),
           <<v, u>> \in DOMAIN next <=> <<v, u>> \in DOMAIN cur,
           <<v, u>> \in DOMAIN cur => next[<<v, u>>] = cur[<<v, u>>]
    PROVE  IsPartialFor(next, g, F, r, u, v, n, B)
  <1>1. CASE IsNear(g, F, r, u, v, n)
    BY <1>1 DEF IsPartialFor
  <1>2. CASE v # a.dst \/ Onward(g, F, r, u, n, a) = {}
    <2>1. Via(g, F, r, u, v, n, B) = Via(g, F, r, u, v, n, A)
      <3>1. /\ v # a.dst => Via(g, F, r, u, v, n, B) = Via(g, F, r, u, v, n, A)
            /\ v = a.dst => Via(g, F, r, u, v, n, B)
                                = Via(g, F, r, u, v, n, A) \cup Onward(g, F, r, u, n, a)
        BY ViaOther, SMTT(30)
      <3> QED
        BY <1>2, <3>1
    <2> QED
      BY <2>1 DEF IsPartialFor
  <1> QED
    BY <1>1, <1>2

\* A pair that the new arc connects.
LEMMA PartialMore ==
    ASSUME NEW g, NEW F, NEW r, NEW u, NEW n \in Nat, NEW A, NEW a, NEW B, B = A \cup {a}, NEW cur, NEW next,
           IsPartialFor(cur, g, F, r, u, a.dst, n, A), ~IsNear(g, F, r, u, a.dst, n),
           NEW S, S = Onward(g, F, r, u, n, a), S # {},
           <<a.dst, u>> \in DOMAIN next, next[<<a.dst, u>>].cost = n + 1,
           next[<<a.dst, u>>].paths =
                IF <<a.dst, u>> \in DOMAIN cur THEN cur[<<a.dst, u>>].paths \cup S ELSE S
    PROVE  IsPartialFor(next, g, F, r, u, a.dst, n, B)
  <1>1. Via(g, F, r, u, a.dst, n, B) = Via(g, F, r, u, a.dst, n, A) \cup S
    BY ViaOther, SMTT(30)
  <1>2. next[<<a.dst, u>>].paths = Via(g, F, r, u, a.dst, n, B)
    BY <1>1 DEF IsPartialFor
  <1> QED
    BY <1>1, <1>2 DEF IsPartialFor

\* The arc of a start, in the first round.
LEMMA FromStartExact ==
    ASSUME NEW g, NEW F, NEW r, NEW A, NEW a \in Arcs(g, r), NEW B, B = A \cup {a}, NEW cur,
           IsPartial(cur, g, F, r, 0, A), a.src \in F
    PROVE  IsPartial(FromStart(cur, a), g, F, r, 0, B)
  <1> DEFINE key == <<a.dst, a.src>>
             path == AddStep(PathOf(a.src), a)
             next == FromStart(cur, a)
  <1>1. \A u, v : ~IsNear(g, F, r, u, v, 0)
    BY SMTT(30) DEF IsNear
  <1>2. ASSUME NEW u PROVE Onward(g, F, r, u, 0, a) = IF u = a.src THEN {path} ELSE {}
    <2>1. WalksTo(g, F, r, u, a.src, 0) = IF u = a.src THEN {PathOf(a.src)} ELSE {}
      <3>1. \A w : PathOf(w).src = w /\ EndOf(PathOf(w)) = w
        BY NoElement DEF PathOf, EndOf, VertexAt
      <3>2. Walks(g, F, 0, r) = {PathOf(w) : w \in F}
        BY NoStep
      <3> QED
        BY <3>1, <3>2, SMTT(30) DEF WalksTo
    <2> QED
      BY <2>1 DEF Onward
  <1>3. /\ key \in DOMAIN next
        /\ \A k : k # key => (k \in DOMAIN next <=> k \in DOMAIN cur)
        /\ \A k \in DOMAIN cur : k # key => next[k] = cur[k]
        /\ next[key].cost = 1
        /\ next[key].paths = IF key \in DOMAIN cur THEN cur[key].paths \cup {path} ELSE {path}
    <2>1. CASE key \notin DOMAIN cur
      BY <2>1 DEF FromStart, Put
    <2>2. CASE key \in DOMAIN cur
      <3>1. cur[key].cost = 1
        <4>1. IsPartialFor(cur, g, F, r, a.src, a.dst, 0, A)
          BY DEF IsPartial
        <4> QED
          BY <2>2, <4>1, SMTT(30) DEF IsPartialFor
      <3>2. PICK e : e = [cost |-> 1, paths |-> cur[key].paths \cup {path}]
        OBVIOUS
      <3>3. next = Put(cur, key, e)
        BY <2>2, <3>1, <3>2, SMTT(30) DEF FromStart
      <3>4. /\ DOMAIN next = DOMAIN cur \cup {key} /\ next[key] = e
            /\ \A k \in DOMAIN cur : k # key => next[k] = cur[k]
        BY <3>3 DEF Put
      <3> QED
        BY <2>2, <3>2, <3>4, SMTT(30)
    <2> QED
      BY <2>1, <2>2
  <1> HIDE DEF next, path
  <1>4. ASSUME NEW v, NEW u PROVE IsPartialFor(next, g, F, r, u, v, 0, B)
    <2>1. IsPartialFor(cur, g, F, r, u, v, 0, A)
      BY DEF IsPartial
    <2>2. CASE u = a.src /\ v = a.dst
      <3>1. PICK S : S = Onward(g, F, r, u, 0, a)
        OBVIOUS
      <3>2. S = {path} /\ S # {} /\ 0 \in Nat /\ next[<<a.dst, u>>].cost = 0 + 1
        BY <1>2, <1>3, <2>2, <3>1, SMTT(30)
      <3>3. /\ <<a.dst, u>> \in DOMAIN next
            /\ next[<<a.dst, u>>].paths =
                IF <<a.dst, u>> \in DOMAIN cur THEN cur[<<a.dst, u>>].paths \cup S ELSE S
        BY <1>3, <2>2, <3>2
      <3> QED
        BY <1>1, <2>1, <2>2, <3>1, <3>2, <3>3, PartialMore, ZenonT(60)
    <2>3. CASE ~(u = a.src /\ v = a.dst)
      <3>1. <<v, u>> # key
        BY <2>3
      <3>2. v # a.dst \/ Onward(g, F, r, u, 0, a) = {}
        BY <1>2, <2>3
      <3> QED
        BY <1>3, <2>1, <3>1, <3>2, PartialSame
    <2> QED
      BY <2>2, <2>3
  <1>5. IsPartial(next, g, F, r, 0, B)
    BY <1>4 DEF IsPartial
  <1> QED
    BY <1>5 DEF next

\* The arc a, read into a map that has no entry for its end.
LEMMA DstNotInCurrentExact ==
    ASSUME NEW g, NEW F, NEW r, NEW n \in Nat, n > 0,
           NEW H, IsHistory(H, g, F, r, n), IsCostPathMap(H, g, F, r, 1, n),
           NEW A, NEW a \in Arcs(g, r), NEW B, B = A \cup {a},
           NEW cur, IsPartial(cur, g, F, r, n, A), IsCostPathMap(cur, g, F, r, 1, n + 1),
           Fresh(cur, a), ~Competing(H, cur, a), NEW next \in DstNotInCurrent(H, cur, a)
    PROVE  IsPartial(next, g, F, r, n, B)
  <1>1. ASSUME NEW u
        PROVE  /\ u \in HasNews(H, a) <=> IsNews(g, F, r, u, n, a)
               /\ u \in HasNews(H, a) => /\ News(H, a, u).cost = n + 1
                                         /\ News(H, a, u).paths = Onward(g, F, r, u, n, a)
                                         /\ Onward(g, F, r, u, n, a) # {}
    <2>1. AreNews(H, g, F, r, u, n, a)
      BY NewsExact
    <2> QED
      BY <2>1 DEF AreNews
  <1>2. \A u : <<a.dst, u>> \notin DOMAIN cur
    <2> SUFFICES ASSUME NEW u PROVE <<a.dst, u>> \notin DOMAIN cur
      OBVIOUS
    <2>1. u \in Reached(cur, a.dst) <=> <<a.dst, u>> \in DOMAIN cur
      BY ReachedIs
    <2> QED
      BY <2>1 DEF Fresh
  <1>3. ASSUME NEW u PROVE (Onward(g, F, r, u, n, a) # {} /\ ~IsNear(g, F, r, u, a.dst, n)) <=> IsNews(g, F, r, u, n, a)
    BY OnwardWalks DEF IsNews
  <1>4. ASSUME HasNews(H, a) = {}
        PROVE  IsPartial(next, g, F, r, n, B)
    <2>1. next = cur
      BY <1>4 DEF DstNotInCurrent
    <2>2. ASSUME NEW v, NEW u PROVE IsPartialFor(next, g, F, r, u, v, n, B)
      <3>1. IsPartialFor(cur, g, F, r, u, v, n, A)
        BY DEF IsPartial
      <3>2. v # a.dst \/ Onward(g, F, r, u, n, a) = {} \/ IsNear(g, F, r, u, v, n)
        BY <1>1, <1>3, <1>4
      <3> QED
        BY <2>1, <3>1, <3>2, PartialSame
    <2> QED
      BY <2>2 DEF IsPartial
  <1>5. ASSUME NEW x \in HasNews(H, a)
        PROVE  IsPartial(next, g, F, r, n, B)
    <2>3. \A y \in HasNews(H, a) : y = x
      BY DEF Competing
    <2>4. next = Put(cur, <<a.dst, x>>, News(H, a, x))
      <3>1. PICK y \in HasNews(H, a) : next = Put(cur, <<a.dst, y>>, News(H, a, y))
        BY <1>5 DEF DstNotInCurrent
      <3> QED
        BY <2>3, <3>1
    <2>5. /\ DOMAIN next = DOMAIN cur \cup {<<a.dst, x>>}
          /\ next[<<a.dst, x>>] = News(H, a, x)
          /\ \A k \in DOMAIN cur : k # <<a.dst, x>> => next[k] = cur[k]
      BY <2>4 DEF Put
    <2>6. ASSUME NEW v, NEW u PROVE IsPartialFor(next, g, F, r, u, v, n, B)
      <3>1. IsPartialFor(cur, g, F, r, u, v, n, A)
        BY DEF IsPartial
      <3>2. CASE u = x /\ v = a.dst
        <4>1. PICK S : S = Onward(g, F, r, u, n, a)
          OBVIOUS
        <4>2. /\ S # {} /\ ~IsNear(g, F, r, u, a.dst, n)
              /\ next[<<a.dst, u>>].cost = n + 1 /\ next[<<a.dst, u>>].paths = S
          BY <1>1, <1>5, <2>5, <3>2, <4>1, ZenonT(60) DEF IsNews
        <4>3. /\ <<a.dst, u>> \in DOMAIN next
              /\ next[<<a.dst, u>>].paths =
                    IF <<a.dst, u>> \in DOMAIN cur THEN cur[<<a.dst, u>>].paths \cup S ELSE S
          BY <1>2, <2>5, <3>2, <4>2
        <4> QED
          BY <3>1, <3>2, <4>1, <4>2, <4>3, PartialMore
      <3>3. CASE ~(u = x /\ v = a.dst)
        <4>1. <<v, u>> # <<a.dst, x>>
          BY <3>3
        <4>2. v # a.dst \/ Onward(g, F, r, u, n, a) = {} \/ IsNear(g, F, r, u, v, n)
          <5>1. CASE v = a.dst
            <6>1. u \notin HasNews(H, a)
              BY <2>3, <3>3, <5>1
            <6> QED
              BY <1>1, <1>3, <5>1, <6>1
          <5> QED
            BY <5>1
        <4>3. /\ <<v, u>> \in DOMAIN next <=> <<v, u>> \in DOMAIN cur
              /\ <<v, u>> \in DOMAIN cur => next[<<v, u>>] = cur[<<v, u>>]
          BY <2>5, <4>1
        <4> QED
          BY <3>1, <4>2, <4>3, PartialSame
      <3> QED
        BY <3>2, <3>3
    <2> QED
      BY <2>6 DEF IsPartial
  <1> QED
    BY <1>4, <1>5

\* The arc a, read into a map that has an entry for its end.
LEMMA DstInCurrentExact ==
    ASSUME NEW g, NEW F, NEW r, NEW n \in Nat, n > 0,
           NEW H, IsHistory(H, g, F, r, n), IsCostPathMap(H, g, F, r, 1, n),
           NEW A, NEW a \in Arcs(g, r), NEW B, B = A \cup {a},
           NEW cur, IsPartial(cur, g, F, r, n, A)
    PROVE  IsPartial(DstInCurrent(H, cur, a), g, F, r, n, B)
  <1> DEFINE next == DstInCurrent(H, cur, a)
  <1>1. /\ DOMAIN next = DOMAIN cur \cup {<<a.dst, s>> : s \in HasNews(H, a) \ DstKnown(H, cur, a)}
        /\ \A k \in DOMAIN next : next[k] =
                IF k \in DOMAIN cur
                THEN IF k[1] = a.dst /\ k[2] \in DstKnown(H, cur, a)
                     THEN Better(cur[k], CreatePaths(H, a, k[2])) ELSE cur[k]
                ELSE News(H, a, k[2])
    BY DEF DstInCurrent, DstKnown
  <1> HIDE DEF next
  <1>2. ASSUME NEW v, NEW u PROVE IsPartialFor(next, g, F, r, u, v, n, B)
    <2> DEFINE key == <<v, u>>
    <2>1. IsPartialFor(cur, g, F, r, u, v, n, A)
      BY DEF IsPartial
    <2>2. /\ u \in HasNews(H, a) <=> IsNews(g, F, r, u, n, a)
          /\ u \in HasNews(H, a) => /\ News(H, a, u).cost = n + 1
                                    /\ News(H, a, u).paths = Onward(g, F, r, u, n, a)
                                    /\ Onward(g, F, r, u, n, a) # {}
      <3>1. AreNews(H, g, F, r, u, n, a)
        BY NewsExact
      <3> QED
        BY <3>1 DEF AreNews
    <2>3. (Onward(g, F, r, u, n, a) # {} /\ ~IsNear(g, F, r, u, a.dst, n)) <=> IsNews(g, F, r, u, n, a)
      BY OnwardWalks DEF IsNews
    <2>4. u \in Reached(H, a.src) <=> <<a.src, u>> \in DOMAIN H
      BY ReachedIs
    <2>5. CASE v # a.dst
      <3>1. /\ key \in DOMAIN next <=> key \in DOMAIN cur
            /\ key \in DOMAIN cur => next[key] = cur[key]
        BY <1>1, <2>5
      <3> QED
        BY <2>1, <2>5, <3>1, PartialSame
    <2>6. CASE v = a.dst /\ ~IsNews(g, F, r, u, n, a)
      <3>1. Onward(g, F, r, u, n, a) = {} \/ IsNear(g, F, r, u, v, n)
        BY <2>3, <2>6
      <3>2. key \in DOMAIN next <=> key \in DOMAIN cur
        BY <1>1, <2>2, <2>6
      <3>3. ASSUME key \in DOMAIN cur PROVE u \notin DstKnown(H, cur, a)
        <4>1. ~IsNear(g, F, r, u, a.dst, n)
          BY <2>1, <2>6, <3>3 DEF IsPartialFor
        <4>2. ASSUME <<a.src, u>> \in DOMAIN H PROVE FALSE
          <5>1. Onward(g, F, r, u, n, a) # {}
            BY <4>1, <4>2, CreatedExact, SMTT(30)
          <5> QED
            BY <2>3, <2>6, <4>1, <5>1
        <4> QED
          BY <2>4, <4>2 DEF DstKnown
      <3>4. key \in DOMAIN cur => next[key] = cur[key]
        BY <1>1, <3>2, <3>3
      <3> QED
        BY <2>1, <3>1, <3>2, <3>4, PartialSame
    <2>7. CASE v = a.dst /\ IsNews(g, F, r, u, n, a)
      <3>1. PICK S : S = Onward(g, F, r, u, n, a)
        OBVIOUS
      <3>2. S # {} /\ ~IsNear(g, F, r, u, a.dst, n) /\ u \in HasNews(H, a)
        BY <2>2, <2>7, <3>1 DEF IsNews
      <3>3. <<a.src, u>> \in DOMAIN H
        BY <2>4, <3>2 DEF HasNews
      <3>4. CASE key \in DOMAIN cur
        <4>1. u \in DstKnown(H, cur, a)
          BY <2>4, <2>7, <3>3, <3>4 DEF DstKnown
        <4>2. next[key] = Better(cur[key], CreatePaths(H, a, u)) /\ key \in DOMAIN next
          BY <1>1, <2>7, <3>4, <4>1
        <4>3. cur[key].cost = n + 1
          BY <2>1, <3>4 DEF IsPartialFor
        <4>4. CreatePaths(H, a, u).cost = n + 1 /\ CreatePaths(H, a, u).paths = S
          <5>1. /\ CreatePaths(H, a, u).cost = n + 1
                /\ CreatePaths(H, a, u).paths = Onward(g, F, r, u, n, a)
                /\ Onward(g, F, r, u, n, a) # {}
                /\ WalksTo(g, F, r, u, a.src, n) # {}
            BY <3>2, <3>3, CreatedExact, ZenonT(60)
          <5> QED
            BY <3>1, <5>1
        <4>5. next[key].cost = n + 1 /\ next[key].paths = cur[key].paths \cup S
          <5>1. PICK old, new : old = cur[key] /\ new = CreatePaths(H, a, u)
            OBVIOUS
          <5>2. old.cost = n + 1 /\ new.cost = n + 1 /\ new.paths = S /\ next[key] = Better(old, new)
            BY <4>2, <4>3, <4>4, <5>1
          <5>3. Better(old, new) = [cost |-> old.cost, paths |-> old.paths \cup new.paths]
            BY <5>2, SMTT(30) DEF Better
          <5> QED
            BY <5>1, <5>2, <5>3, SMTT(30)
        <4>6. next[<<a.dst, u>>].paths =
                    IF <<a.dst, u>> \in DOMAIN cur THEN cur[<<a.dst, u>>].paths \cup S ELSE S
          BY <2>7, <3>4, <4>5
        <4> QED
          BY <2>1, <2>7, <3>1, <3>2, <4>2, <4>5, <4>6, PartialMore, ZenonT(60)
      <3>5. CASE key \notin DOMAIN cur
        <4>1. u \notin DstKnown(H, cur, a)
          BY <2>7, <3>5 DEF DstKnown
        <4>2. key \in DOMAIN next /\ next[key] = News(H, a, u)
          BY <1>1, <2>7, <3>2, <3>5, <4>1, SMTT(30)
        <4>3. next[key].cost = n + 1 /\ next[key].paths = S
          BY <2>2, <3>1, <3>2, <4>2
        <4>4. next[<<a.dst, u>>].paths =
                    IF <<a.dst, u>> \in DOMAIN cur THEN cur[<<a.dst, u>>].paths \cup S ELSE S
          BY <2>7, <3>5, <4>3
        <4> QED
          BY <2>1, <2>7, <3>1, <3>2, <4>2, <4>3, <4>4, PartialMore, ZenonT(60)
      <3> QED
        BY <3>4, <3>5
    <2> QED
      BY <2>5, <2>6, <2>7
  <1>3. IsPartial(next, g, F, r, n, B)
    BY <1>2 DEF IsPartial
  <1> QED
    BY <1>3 DEF next

\* Whatever is done with an arc for which no two starts compete.
LEMMA FollowExact ==
    ASSUME NEW g, NEW F, NEW r, NEW n \in Nat,
           NEW H, IsHistory(H, g, F, r, n), IsCostPathMap(H, g, F, r, 1, n),
           NEW A, NEW a \in Arcs(g, r), IsSource(a.src, H, F, n), NEW B, B = A \cup {a},
           NEW cur, IsPartial(cur, g, F, r, n, A), IsCostPathMap(cur, g, F, r, 1, n + 1),
           ~Competing(H, cur, a), NEW next \in Follow(H, cur, a)
    PROVE  IsPartial(next, g, F, r, n, B)
  <1>1. CASE n = 0
    <2>1. Reached(H, a.src) = {}
      <3>1. \A u : <<a.src, u>> \notin DOMAIN H
        BY <1>1, SMTT(30) DEF IsHistory, IsNear
      <3>2. \A u : u \in Reached(H, a.src) <=> <<a.src, u>> \in DOMAIN H
        BY ReachedIs
      <3> QED
        BY <3>1, <3>2
    <2>2. next = FromStart(cur, a) /\ a.src \in F
      BY <2>1 DEF Follow, IsSource
    <2>3. IsPartial(cur, g, F, r, 0, A)
      BY <1>1
    <2>4. IsPartial(FromStart(cur, a), g, F, r, 0, B)
      BY <2>2, <2>3, FromStartExact
    <2> QED
      BY <1>1, <2>2, <2>4
  <1>2. CASE n > 0
    <2>1. Reached(H, a.src) # {}
      BY <1>2, SMTT(30) DEF IsSource
    <2>2. CASE Fresh(cur, a)
      <3>1. next \in DstNotInCurrent(H, cur, a)
        BY <2>1, <2>2 DEF Follow
      <3> QED
        BY <1>2, <2>2, <3>1, DstNotInCurrentExact
    <2>3. CASE ~Fresh(cur, a)
      <3>1. next = DstInCurrent(H, cur, a)
        BY <2>1, <2>3 DEF Follow
      <3>2. IsPartial(DstInCurrent(H, cur, a), g, F, r, n, B)
        BY <1>2, DstInCurrentExact
      <3> QED
        BY <3>1, <3>2
    <2> QED
      BY <2>2, <2>3
  <1> QED
    BY <1>1, <1>2, SMTT(30)

\* Before the first arc.
LEMMA PartialStart ==
    ASSUME NEW g, NEW F, NEW r, NEW n, NEW map, DOMAIN map = {}, NEW A, A = {}
    PROVE  IsPartial(map, g, F, r, n, A)
    BY DEF IsPartial, IsPartialFor, Via

\* After the last one.
LEMMA PartialEnd ==
    ASSUME NEW g, NEW F, NEW r, NEW n \in Nat, NEW V, AreFirst(V, g, F, r, n),
           NEW cur, IsPartial(cur, g, F, r, n, GetNeighbors(g, V, r))
    PROVE  IsLevelMap(cur, g, F, r, n + 1)
  <1> DEFINE A == GetNeighbors(g, V, r)
  <1>1. ASSUME NEW v, NEW u, ~IsNear(g, F, r, u, v, n)
        PROVE  Via(g, F, r, u, v, n, A) = WalksTo(g, F, r, u, v, n + 1)
    <2>1. ASSUME NEW p \in Via(g, F, r, u, v, n, A) PROVE p \in WalksTo(g, F, r, u, v, n + 1)
      <3>1. PICK a \in A : a.dst = v /\ p \in Onward(g, F, r, u, n, a)
        BY DEF Via
      <3>2. a \in Arcs(g, r)
        BY DEF GetNeighbors
      <3>3. Onward(g, F, r, u, n, a) \subseteq WalksTo(g, F, r, u, a.dst, n + 1)
        BY <3>2, OnwardWalks
      <3> QED
        BY <3>1, <3>3
    <2>2. ASSUME NEW p \in WalksTo(g, F, r, u, v, n + 1) PROVE p \in Via(g, F, r, u, v, n, A)
      <3>1. PICK a \in Arcs(g, r) : a.dst = v /\ p \in Onward(g, F, r, u, n, a)
        BY LastArc
      <3>2. WalksTo(g, F, r, u, a.src, n) # {}
        BY <3>1 DEF Onward
      <3>3. IsFirst(g, F, r, u, a.src, n)
        BY <1>1, <3>1, <3>2, FirstSource
      <3>4. u \in F
        BY <3>2, WalkType, SMTT(30) DEF WalksTo
      <3>5. a \in A
        BY <3>3, <3>4 DEF AreFirst, GetNeighbors
      <3> QED
        BY <3>1, <3>5 DEF Via
    <2> QED
      BY <2>1, <2>2
  <1> SUFFICES ASSUME NEW v, NEW u
               PROVE  /\ <<v, u>> \in DOMAIN cur <=> IsFirst(g, F, r, u, v, n + 1)
                      /\ <<v, u>> \in DOMAIN cur => HasAll(cur[<<v, u>>], g, F, r, u, v, n + 1)
    BY DEF IsLevelMap
  <1>2. IsPartialFor(cur, g, F, r, u, v, n, A)
    BY DEF IsPartial
  <1>3. IsFirst(g, F, r, u, v, n + 1) <=> WalksTo(g, F, r, u, v, n + 1) # {} /\ ~IsNear(g, F, r, u, v, n)
    BY SMTT(30) DEF IsFirst
  <1> HIDE DEF A
  <1> QED
    BY <1>1, <1>2, <1>3 DEF IsPartialFor, HasAll

\* updateHistory keeps connections, and never meets a worse one.
LEMMA HistorySound ==
    ASSUME NEW g, NEW F, NEW r, NEW n \in Nat, NEW H, NEW cur, IsCostPathMap(H, g, F, r, 1, n),
           IsCostPathMap(cur, g, F, r, 1, n + 1), NotWorse(cur, H)
    PROVE  IsCostPathMap(UpdateHistory(H, cur), g, F, r, 1, n + 1) /\ NotWorse(cur, UpdateHistory(H, cur))
  <1> DEFINE U == UpdateHistory(H, cur)
  <1>1. /\ DOMAIN U = DOMAIN H \cup DOMAIN cur
        /\ \A k \in DOMAIN U : U[k] = IF k \notin DOMAIN cur THEN H[k]
                                      ELSE IF k \notin DOMAIN H THEN cur[k] ELSE Better(H[k], cur[k])
    BY DEF UpdateHistory
  <1> HIDE DEF U
  <1>n. n + 1 \in Nat /\ n <= n + 1 /\ 1 \in Nat
    BY SMTT(30)
  <1>2. ASSUME NEW k \in DOMAIN U
        PROVE  /\ k = <<k[1], k[2]>> /\ k[2] \in F
               /\ IsConnection(U[k], g, F, r, k[2], k[1], 1, n + 1)
               /\ k \in DOMAIN cur => cur[k].cost <= U[k].cost
    <2>1. k = <<k[1], k[2]>> /\ k[2] \in F
      BY <1>1 DEF IsCostPathMap
    <2>2. ASSUME k \in DOMAIN H PROVE IsConnection(H[k], g, F, r, k[2], k[1], 1, n + 1)
      <3>1. PICK e : e = H[k]
        OBVIOUS
      <3>2. PICK v : v = k[1]
        OBVIOUS
      <3>3. PICK u : u = k[2]
        OBVIOUS
      <3>4. IsConnection(e, g, F, r, u, v, 1, n)
        BY <2>2, <3>1, <3>2, <3>3 DEF IsCostPathMap
      <3>5. IsConnection(e, g, F, r, u, v, 1, n + 1)
        BY <3>4, <1>n, ConnectionGrows
      <3> QED
        BY <3>1, <3>2, <3>3, <3>5
    <2>3. ASSUME k \in DOMAIN cur
          PROVE  IsConnection(cur[k], g, F, r, k[2], k[1], 1, n + 1) /\ cur[k].cost \in Int
      BY <2>3, SMTT(30) DEF IsCostPathMap, IsConnection
    <2>4. CASE k \notin DOMAIN cur
      BY <1>1, <2>1, <2>2, <2>4
    <2>5. CASE k \in DOMAIN cur /\ k \notin DOMAIN H
      BY <1>1, <2>1, <2>3, <2>5, SMTT(30)
    <2>6. CASE k \in DOMAIN cur /\ k \in DOMAIN H
      <3>1. PICK e : e = H[k]
        OBVIOUS
      <3>2. PICK d : d = cur[k]
        OBVIOUS
      <3>3. PICK v : v = k[1]
        OBVIOUS
      <3>4. PICK u : u = k[2]
        OBVIOUS
      <3>5. IsConnection(e, g, F, r, u, v, 1, n + 1) /\ IsConnection(d, g, F, r, u, v, 1, n + 1)
        BY <2>2, <2>3, <2>6, <3>1, <3>2, <3>3, <3>4
      <3>6. IsConnection(Better(e, d), g, F, r, u, v, 1, n + 1)
        BY <3>5, <1>n, BetterSound
      <3>7. d.cost <= e.cost /\ d.cost \in Int /\ e.cost \in Int
        BY <2>6, <3>1, <3>2, <3>5, SMTT(30) DEF NotWorse, IsConnection
      <3>8. Better(e, d).cost = d.cost
        BY <3>7, SMTT(30) DEF Better
      <3>9. U[k] = Better(e, d)
        BY <1>1, <2>6, <3>1, <3>2
      <3> QED
        BY <2>1, <3>2, <3>3, <3>4, <3>6, <3>7, <3>8, <3>9, SMTT(30)
    <2> QED
      BY <2>4, <2>5, <2>6
  <1>3. IsCostPathMap(U, g, F, r, 1, n + 1)
    BY <1>2 DEF IsCostPathMap
  <1>4. NotWorse(cur, U)
    BY <1>2 DEF NotWorse
  <1> QED
    BY <1>3, <1>4 DEF U

\* updateHistory adds the vertices that a round has reached first.
LEMMA HistoryExact ==
    ASSUME NEW g, NEW F, NEW r, NEW n \in Nat, NEW H, NEW cur, IsHistory(H, g, F, r, n),
           IsLevelMap(cur, g, F, r, n + 1)
    PROVE  IsHistory(UpdateHistory(H, cur), g, F, r, n + 1)
  <1> DEFINE U == UpdateHistory(H, cur)
  <1>1. /\ DOMAIN U = DOMAIN H \cup DOMAIN cur
        /\ \A k \in DOMAIN U : U[k] = IF k \notin DOMAIN cur THEN H[k]
                                      ELSE IF k \notin DOMAIN H THEN cur[k] ELSE Better(H[k], cur[k])
    BY DEF UpdateHistory
  <1> HIDE DEF U
  <1>2. ASSUME NEW v, NEW u
        PROVE  /\ <<v, u>> \in DOMAIN U <=> IsNear(g, F, r, u, v, n + 1)
               /\ <<v, u>> \in DOMAIN U =>
                     \E k \in 1..(n + 1) : IsFirst(g, F, r, u, v, k) /\ HasAll(U[<<v, u>>], g, F, r, u, v, k)
    <2> DEFINE key == <<v, u>>
    <2>1. /\ key \in DOMAIN H <=> IsNear(g, F, r, u, v, n)
          /\ key \in DOMAIN H =>
                \E k \in 1..n : IsFirst(g, F, r, u, v, k) /\ HasAll(H[key], g, F, r, u, v, k)
      BY DEF IsHistory
    <2>2. /\ key \in DOMAIN cur <=> IsFirst(g, F, r, u, v, n + 1)
          /\ key \in DOMAIN cur => HasAll(cur[key], g, F, r, u, v, n + 1)
      BY DEF IsLevelMap
    <2> HIDE DEF key
    <2>3. IsFirst(g, F, r, u, v, n + 1) <=> WalksTo(g, F, r, u, v, n + 1) # {} /\ ~IsNear(g, F, r, u, v, n)
      BY SMTT(30) DEF IsFirst
    <2>4. IsNear(g, F, r, u, v, n + 1) <=> IsNear(g, F, r, u, v, n) \/ WalksTo(g, F, r, u, v, n + 1) # {}
      BY SMTT(30) DEF IsNear
    <2>5. key \in DOMAIN U <=> IsNear(g, F, r, u, v, n + 1)
      BY <1>1, <2>1, <2>2, <2>3, <2>4
    <2>6. CASE key \in DOMAIN H
      <3>1. U[key] = H[key]
        BY <1>1, <2>1, <2>2, <2>3, <2>6
      <3>2. PICK k \in 1..n : IsFirst(g, F, r, u, v, k) /\ HasAll(H[key], g, F, r, u, v, k)
        BY <2>1, <2>6
      <3>3. k \in 1..(n + 1)
        BY SMTT(30)
      <3> QED
        BY <2>5, <3>1, <3>2, <3>3 DEF key
    <2>7. CASE key \in DOMAIN cur
      <3>1. U[key] = cur[key]
        BY <1>1, <2>1, <2>2, <2>3, <2>7
      <3>2. n + 1 \in 1..(n + 1)
        BY SMTT(30)
      <3> QED
        BY <2>2, <2>5, <2>7, <3>1, <3>2 DEF key
    <2> QED
      BY <1>1, <2>5, <2>6, <2>7 DEF key
  <1>3. IsHistory(U, g, F, r, n + 1)
    BY <1>2 DEF IsHistory
  <1> QED
    BY <1>3 DEF U

\* The vertices to expand next.
LEMMA NextFirst ==
    ASSUME NEW g, NEW F, NEW r, NEW n \in Nat, NEW cur, IsLevelMap(cur, g, F, r, n + 1),
           IsCostPathMap(cur, g, F, r, 1, n + 1), NEW V, V = {k[1] : k \in DOMAIN cur}
    PROVE  AreFirst(V, g, F, r, n + 1)
  <1>1. ASSUME NEW v \in V PROVE \E u \in F : IsFirst(g, F, r, u, v, n + 1)
    <2>1. PICK k \in DOMAIN cur : v = k[1]
      OBVIOUS
    <2>2. k = <<v, k[2]>> /\ k[2] \in F
      BY <2>1 DEF IsCostPathMap
    <2> QED
      BY <2>2 DEF IsLevelMap
  <1>2. ASSUME NEW v, NEW u \in F, IsFirst(g, F, r, u, v, n + 1) PROVE v \in V
    <2>1. <<v, u>> \in DOMAIN cur /\ <<v, u>>[1] = v
      BY <1>2 DEF IsLevelMap
    <2> QED
      BY <2>1
  <1> QED
    BY <1>1, <1>2 DEF AreFirst

\* What a round has reached can be expanded in the next one.
LEMMA NextSource ==
    ASSUME NEW g, NEW F, NEW r, NEW n \in Nat, NEW cur, NEW H,
           IsCostPathMap(cur, g, F, r, 1, n + 1), NEW k \in DOMAIN cur
    PROVE  IsSource(k[1], UpdateHistory(H, cur), F, n + 1)
  <1>1. k \in DOMAIN UpdateHistory(H, cur)
    BY DEF UpdateHistory
  <1>2. k[2] \in Reached(UpdateHistory(H, cur), k[1])
    BY <1>1 DEF Reached
  <1> QED
    BY <1>2 DEF IsSource

\* Joins, written out.
LEMMA JoinIs ==
    ASSUME NEW forward, NEW level, NEW j \in Joins(forward, level)
    PROVE  /\ j = <<j[1], j[2], j[3]>> /\ j[1] \in from /\ j[2] \in to
           /\ <<j[3], j[1]>> \in DOMAIN forward /\ <<j[3], j[2]>> \in DOMAIN level
    BY SMTT(30) DEF Joins

\* Entries of the two sides for the same vertex are a join.
LEMMA IsAJoin ==
    ASSUME NEW forward, NEW level, NEW u \in from, NEW w \in to, NEW v,
           <<v, u>> \in DOMAIN forward, <<v, w>> \in DOMAIN level
    PROVE  <<u, w, v>> \in Joins(forward, level)
  <1>1. v \in {k[1] : k \in DOMAIN forward}
    <2>1. <<v, u>>[1] = v
      OBVIOUS
    <2> QED
      BY <2>1
  <1>2. <<u, w, v>> \in from \X to \X {k[1] : k \in DOMAIN forward}
    BY <1>1
  <1> QED
    BY <1>2 DEF Joins

\* A row of a join is a walk between the two sides, as long as it costs.
IsRow(x, g, F, T, n) ==
    /\ x.cost \in 1..n
    /\ x.path \in Walks(g, F, x.cost, "forward")
    /\ EndOf(x.path) \in T

\* The rows of a join are walks.
LEMMA JoinSound ==
    ASSUME NEW g, NEW n \in Nat, NEW m \in Nat,
           NEW forward, IsCostPathMap(forward, g, from, "forward", 1, n),
           NEW level, IsCostPathMap(level, g, to, "backward", 0, m),
           NEW j \in Joins(forward, level), NEW x \in JoinRows(forward, level, j)
    PROVE  IsRow(x, g, from, to, n + m)
  <1>1. PICK u : u = j[1]
    OBVIOUS
  <1>2. PICK w : w = j[2]
    OBVIOUS
  <1>3. PICK v : v = j[3]
    OBVIOUS
  <1>4. u \in from /\ w \in to /\ <<v, u>> \in DOMAIN forward /\ <<v, w>> \in DOMAIN level
    BY <1>1, <1>2, <1>3, JoinIs
  <1>5. PICK d : d = forward[<<v, u>>]
    OBVIOUS
  <1>6. PICK e : e = level[<<v, w>>]
    OBVIOUS
  <1>7. IsConnection(d, g, from, "forward", u, v, 1, n) /\ IsConnection(e, g, to, "backward", w, v, 0, m)
    BY <1>4, <1>5, <1>6 DEF IsCostPathMap
  <1>8. PICK k \in 1..n : k = d.cost
    BY <1>7 DEF IsConnection
  <1>9. PICK i \in 0..m : i = e.cost
    BY <1>7, SMTT(30) DEF IsConnection
  <1>10. PICK f \in d.paths, b \in e.paths : x = [path |-> AppendPath(f, ReversePath(b)), cost |-> k + i]
    BY <1>1, <1>2, <1>3, <1>5, <1>6, <1>8, <1>9, SMTT(30) DEF JoinRows, Total
  <1>11. /\ f \in Walks(g, from, k, "forward") /\ EndOf(f) = v
         /\ b \in Walks(g, to, i, "backward") /\ EndOf(b) = v
    BY <1>7, <1>8, <1>9 DEF IsConnection
  <1>12. k \in Nat /\ i \in Nat /\ k + i \in 1..(n + m) /\ EndOf(f) = EndOf(b)
    BY <1>11, SMTT(30)
  <1>13. /\ AppendPath(f, ReversePath(b)) \in Walks(g, from, k + i, "forward")
         /\ Connects(AppendPath(f, ReversePath(b)), f, b)
         /\ b.src \in to
    BY <1>11, <1>12, JoinWalk
  <1>14. EndOf(AppendPath(f, ReversePath(b))) = b.src
    BY <1>13 DEF Connects
  <1> QED
    BY <1>10, <1>12, <1>13, <1>14 DEF IsRow

\* findPath adds only walks from FROM to TO.
LEMMA FindPathsSound ==
    ASSUME NEW g, NEW n \in Nat, NEW m \in Nat, NEW N \in Nat, n + m <= N,
           NEW forward, IsCostPathMap(forward, g, from, "forward", 1, n),
           NEW level, IsCostPathMap(level, g, to, "backward", 0, m),
           NEW state, \A x \in state.rows : IsRow(x, g, from, to, N),
           NEW next \in FindPaths(forward, level, state)
    PROVE  \A x \in next.rows : IsRow(x, g, from, to, N)
  <1>1. PICK S : /\ S \subseteq Joins(forward, level)
                 /\ next.rows = state.rows \cup UNION {JoinRows(forward, level, j) : j \in S}
    <2>1. PICK extra \in SUBSET (Open(forward, level, state.costs) \ Best(forward, level, state.costs)) :
            next.rows = state.rows \cup UNION {JoinRows(forward, level, j) :
                                               j \in Best(forward, level, state.costs) \cup extra}
      BY SMTT(30) DEF FindPaths
    <2>2. Best(forward, level, state.costs) \cup extra \subseteq Joins(forward, level)
      BY DEF Best, Open
    <2> QED
      BY <2>1, <2>2
  <1> SUFFICES ASSUME NEW x \in next.rows PROVE IsRow(x, g, from, to, N)
    OBVIOUS
  <1>2. CASE x \in state.rows
    BY <1>2
  <1>3. CASE x \notin state.rows
    <2>1. PICK j \in S : x \in JoinRows(forward, level, j)
      BY <1>1, <1>3
    <2>2. j \in Joins(forward, level)
      BY <1>1
    <2>3. IsRow(x, g, from, to, n + m)
      BY <2>1, <2>2, JoinSound
    <2> QED
      BY <2>3, SMTT(30) DEF IsRow
  <1> QED
    BY <1>2, <1>3

\* Walks of the two sides that meet.
LEMMA Meet ==
    ASSUME NEW g, NEW F, NEW T, NEW n \in Nat, NEW m \in Nat, NEW u, NEW w, NEW v,
           NEW f \in WalksTo(g, F, "forward", u, v, n), NEW b \in WalksTo(g, T, "backward", w, v, m)
    PROVE  AppendPath(f, ReversePath(b)) \in WalksTo(g, F, "forward", u, w, n + m) /\ u \in F /\ w \in T
  <1>1. f \in Walks(g, F, n, "forward") /\ f.src = u /\ EndOf(f) = v
    BY DEF WalksTo
  <1>2. b \in Walks(g, T, m, "backward") /\ b.src = w /\ EndOf(b) = EndOf(f)
    BY <1>1 DEF WalksTo
  <1>3. /\ AppendPath(f, ReversePath(b)) \in Walks(g, F, n + m, "forward")
        /\ Connects(AppendPath(f, ReversePath(b)), f, b)
        /\ b.src \in T
    BY <1>1, <1>2, JoinWalk
  <1>4. AppendPath(f, ReversePath(b)).src = u /\ EndOf(AppendPath(f, ReversePath(b))) = w
    BY <1>1, <1>2, <1>3 DEF Connects
  <1>5. u \in F
    BY <1>1, WalkType
  <1> QED
    BY <1>2, <1>3, <1>4, <1>5, WalksToIs, SMTT(30)

\* The shortest walks meet where each side is for the first time.
MeetsAt(p, g, F, T, u, w, v, n, m) ==
    /\ IsFirst(g, F, "forward", u, v, n)
    /\ IsFirst(g, T, "backward", w, v, m)
    /\ \E f \in WalksTo(g, F, "forward", u, v, n), b \in WalksTo(g, T, "backward", w, v, m) :
            p = AppendPath(f, ReversePath(b))

\* Every shortest walk is cut by the levels of the two sides.
LEMMA MeetFirst ==
    ASSUME NEW g, NEW F, NEW T, NEW n \in Nat, n > 0, NEW m \in Nat, NEW u, NEW w \in T,
           NEW p \in WalksTo(g, F, "forward", u, w, n + m), ~IsNear(g, F, "forward", u, w, n + m - 1)
    PROVE  \E v : MeetsAt(p, g, F, T, u, w, v, n, m)
  <1> DEFINE f == Prefix(p, n)
             b == ReversePath(Suffix(p, n, m))
             v == EndOf(f)
  <1>1. p \in Walks(g, F, n + m, "forward") /\ p.src = u /\ EndOf(p) = w /\ EndOf(p) \in T
    BY DEF WalksTo
  <1>2. /\ f \in Walks(g, F, n, "forward")
        /\ b \in Walks(g, T, m, "backward")
        /\ p = AppendPath(f, ReversePath(b))
        /\ EndOf(f) = EndOf(b)
        /\ f.src = p.src
        /\ b.src = EndOf(p)
    BY <1>1, SplitWalk, SMTT(30)
  <1> HIDE DEF f, b
  <1>5. f \in WalksTo(g, F, "forward", u, v, n) /\ b \in WalksTo(g, T, "backward", w, v, m)
    BY <1>1, <1>2 DEF WalksTo
  <1> HIDE DEF v
  <1>6. ASSUME IsNear(g, F, "forward", u, v, n - 1) PROVE FALSE
    <2>1. PICK k \in 1..(n - 1) : WalksTo(g, F, "forward", u, v, k) # {}
      BY <1>6 DEF IsNear
    <2>2. PICK x : x \in WalksTo(g, F, "forward", u, v, k)
      BY <2>1
    <2>3. k \in Nat /\ k + m \in 1..(n + m - 1)
      BY SMTT(30)
    <2>4. AppendPath(x, ReversePath(b)) \in WalksTo(g, F, "forward", u, w, k + m)
      BY <1>5, <2>2, <2>3, Meet
    <2> QED
      BY <2>3, <2>4 DEF IsNear
  <1>7. ASSUME IsNear(g, T, "backward", w, v, m - 1) PROVE FALSE
    <2>1. PICK k \in 1..(m - 1) : WalksTo(g, T, "backward", w, v, k) # {}
      BY <1>7 DEF IsNear
    <2>2. PICK x : x \in WalksTo(g, T, "backward", w, v, k)
      BY <2>1
    <2>3. k \in Nat /\ n + k \in 1..(n + m - 1)
      BY SMTT(30)
    <2>4. AppendPath(f, ReversePath(x)) \in WalksTo(g, F, "forward", u, w, n + k)
      BY <1>5, <2>2, <2>3, Meet
    <2> QED
      BY <2>3, <2>4 DEF IsNear
  <1>8. IsFirst(g, F, "forward", u, v, n) /\ IsFirst(g, T, "backward", w, v, m)
    BY <1>5, <1>6, <1>7 DEF IsFirst
  <1>9. MeetsAt(p, g, F, T, u, w, v, n, m)
    BY <1>2, <1>5, <1>8 DEF MeetsAt
  <1> QED
    BY <1>9

\* What joins of the maps of round n and round m are open, if all shorter walks are known.
AreNewJoins(open, forward, level, g, n) ==
    /\ \A j \in open : /\ j \in Joins(forward, level)
                       /\ j = <<j[1], j[2], j[3]>> /\ j[1] # j[2]
                       /\ ~IsNear(g, from, "forward", j[1], j[2], n - 1)
                       /\ WalksTo(g, from, "forward", j[1], j[2], n) # {}
                       /\ Total(forward, level, j) = n
                       /\ \A x : x \in JoinRows(forward, level, j) <=>
                            \E f \in forward[<<j[3], j[1]>>].paths, b \in level[<<j[3], j[2]>>].paths :
                                x = [path |-> AppendPath(f, ReversePath(b)), cost |-> n]
    /\ \A j \in Joins(forward, level) :
            j[1] # j[2] /\ ~IsNear(g, from, "forward", j[1], j[2], n - 1) => j \in open

\* The open joins are those that connect a pair for the first time.
LEMMA OpenJoins ==
    ASSUME NEW g, NEW n \in Nat, n > 0, NEW m \in Nat, NEW N \in Nat, N = n + m,
           NEW forward, IsLevelMap(forward, g, from, "forward", n),
           NEW level, IsLevelMap(level, g, to, "backward", m),
           NEW known, IsCosts(known, g, from, to, N - 1)
    PROVE  AreNewJoins(Open(forward, level, known), forward, level, g, N)
  <1> DEFINE open == Open(forward, level, known)
  <1>1. ASSUME NEW j \in Joins(forward, level)
        PROVE  /\ Total(forward, level, j) = N
               /\ WalksTo(g, from, "forward", j[1], j[2], N) # {}
    <2>1. PICK u : u = j[1]
      OBVIOUS
    <2>2. PICK w : w = j[2]
      OBVIOUS
    <2>3. PICK v : v = j[3]
      OBVIOUS
    <2>4. <<v, u>> \in DOMAIN forward /\ <<v, w>> \in DOMAIN level
      BY <2>1, <2>2, <2>3, JoinIs
    <2>5. /\ HasAll(forward[<<v, u>>], g, from, "forward", u, v, n)
          /\ HasAll(level[<<v, w>>], g, to, "backward", w, v, m)
      BY <2>4 DEF IsLevelMap
    <2>6. Total(forward, level, j) = N
      BY <2>1, <2>2, <2>3, <2>5 DEF Total, HasAll
    <2>7. WalksTo(g, from, "forward", u, v, n) # {} /\ WalksTo(g, to, "backward", w, v, m) # {}
      BY <2>4 DEF IsLevelMap, IsFirst
    <2>8. PICK f : f \in WalksTo(g, from, "forward", u, v, n)
      BY <2>7
    <2>9. PICK b : b \in WalksTo(g, to, "backward", w, v, m)
      BY <2>7
    <2>10. AppendPath(f, ReversePath(b)) \in WalksTo(g, from, "forward", u, w, n + m)
      BY <2>8, <2>9, Meet, ZenonT(60)
    <2> QED
      BY <2>1, <2>2, <2>6, <2>10
  <1>2. ASSUME NEW j \in Joins(forward, level), j[1] # j[2]
        PROVE  j \in open <=> ~IsNear(g, from, "forward", j[1], j[2], N - 1)
    <2>1. PICK u : u = j[1]
      OBVIOUS
    <2>2. PICK w : w = j[2]
      OBVIOUS
    <2>3. u \in from /\ w \in to /\ u # w /\ Pair(j) = <<u, w>>
      BY <1>2, <2>1, <2>2, JoinIs, ZenonT(60) DEF Pair
    <2>4. <<u, w>> \in DOMAIN known <=> IsNear(g, from, "forward", u, w, N - 1)
      BY <2>3 DEF IsCosts
    <2>5. <<u, w>> \in DOMAIN known => known[<<u, w>>] \in 1..(N - 1)
      BY DEF IsCosts
    <2>6. Total(forward, level, j) = N
      BY <1>1
    <2>7. j \in open <=> (<<u, w>> \in DOMAIN known => N <= known[<<u, w>>])
      BY <1>2, <2>3, <2>6 DEF Open
    <2> QED
      BY <2>1, <2>2, <2>4, <2>5, <2>7, SMTT(30)
  <1>3. open \subseteq Joins(forward, level) /\ \A j \in open : j[1] # j[2]
    BY DEF Open
  <1> HIDE DEF open
  <1>4. ASSUME NEW j \in open
        PROVE  /\ j \in Joins(forward, level)
               /\ j = <<j[1], j[2], j[3]>> /\ j[1] # j[2]
               /\ ~IsNear(g, from, "forward", j[1], j[2], N - 1)
               /\ WalksTo(g, from, "forward", j[1], j[2], N) # {}
               /\ Total(forward, level, j) = N
    <2>1. j \in Joins(forward, level)
      BY <1>3
    <2>2. j = <<j[1], j[2], j[3]>>
      BY <2>1, JoinIs
    <2> QED
      BY <1>1, <1>2, <1>3, <2>1, <2>2
  <1>5. ASSUME NEW j \in open, NEW x
        PROVE  x \in JoinRows(forward, level, j) <=>
                    \E f \in forward[<<j[3], j[1]>>].paths, b \in level[<<j[3], j[2]>>].paths :
                        x = [path |-> AppendPath(f, ReversePath(b)), cost |-> N]
    BY <1>4, SMTT(30) DEF JoinRows
  <1>6. AreNewJoins(open, forward, level, g, N)
    BY <1>2, <1>4, <1>5 DEF AreNewJoins
  <1> QED
    BY <1>6 DEF open

\* The joins that connect a pair for the first time.
HasJoin(open, forward, level, u, w, x) ==
    \E j \in open : j[1] = u /\ j[2] = w /\ x \in JoinRows(forward, level, j)

\* There is one for every pair that n steps connect first.
LEMMA NewJoins ==
    ASSUME NEW g, NEW n \in Nat, n > 0, NEW m \in Nat, NEW N \in Nat, N = n + m,
           NEW forward, IsLevelMap(forward, g, from, "forward", n),
           NEW level, IsLevelMap(level, g, to, "backward", m),
           NEW open, AreNewJoins(open, forward, level, g, N),
           NEW u \in from, NEW w \in to, u # w, ~IsNear(g, from, "forward", u, w, N - 1),
           NEW p \in WalksTo(g, from, "forward", u, w, N), NEW x, x = [path |-> p, cost |-> N]
    PROVE  HasJoin(open, forward, level, u, w, x)
  <1>1. p \in WalksTo(g, from, "forward", u, w, n + m) /\ ~IsNear(g, from, "forward", u, w, n + m - 1)
    BY SMTT(30)
  <1>2. PICK v : MeetsAt(p, g, from, to, u, w, v, n, m)
    BY <1>1, MeetFirst
  <1>3. IsFirst(g, from, "forward", u, v, n) /\ IsFirst(g, to, "backward", w, v, m)
    BY <1>2 DEF MeetsAt
  <1>4. PICK f \in WalksTo(g, from, "forward", u, v, n), b \in WalksTo(g, to, "backward", w, v, m) :
            p = AppendPath(f, ReversePath(b))
    BY <1>2 DEF MeetsAt
  <1>5. /\ <<v, u>> \in DOMAIN forward /\ forward[<<v, u>>].paths = WalksTo(g, from, "forward", u, v, n)
        /\ <<v, w>> \in DOMAIN level /\ level[<<v, w>>].paths = WalksTo(g, to, "backward", w, v, m)
    BY <1>3 DEF IsLevelMap, HasAll
  <1>6. PICK j : j = <<u, w, v>>
    OBVIOUS
  <1>7. j \in Joins(forward, level) /\ j[1] = u /\ j[2] = w /\ j[3] = v
    BY <1>5, <1>6, IsAJoin
  <1>8. j \in open
    BY <1>7 DEF AreNewJoins
  <1>9. x \in JoinRows(forward, level, j)
    BY <1>4, <1>5, <1>7, <1>8 DEF AreNewJoins
  <1> QED
    BY <1>7, <1>8, <1>9 DEF HasJoin

FindAll(open, forward, level, g, n) ==
    UNION {JoinRows(forward, level, j) : j \in open} = FoundRows(g, from, to, n)

\* Their rows are all the shortest walks of n steps.
LEMMA NewRows ==
    ASSUME NEW g, NEW n \in Nat, n > 0, NEW m \in Nat, NEW N \in Nat, N = n + m,
           NEW forward, IsLevelMap(forward, g, from, "forward", n),
           NEW level, IsLevelMap(level, g, to, "backward", m),
           NEW open, AreNewJoins(open, forward, level, g, N)
    PROVE  FindAll(open, forward, level, g, N)
  <1>1. ASSUME NEW j \in open, NEW x \in JoinRows(forward, level, j) PROVE x \in FoundRows(g, from, to, N)
    <2>1. PICK u : u = j[1]
      OBVIOUS
    <2>2. PICK w : w = j[2]
      OBVIOUS
    <2>3. PICK v : v = j[3]
      OBVIOUS
    <2>4. PICK f \in forward[<<v, u>>].paths, b \in level[<<v, w>>].paths :
            x = [path |-> AppendPath(f, ReversePath(b)), cost |-> N]
      BY <2>1, <2>2, <2>3, SMTT(30) DEF AreNewJoins
    <2>5. j \in Joins(forward, level) /\ u # w /\ ~IsNear(g, from, "forward", u, w, N - 1)
      BY <2>1, <2>2 DEF AreNewJoins
    <2>6. <<v, u>> \in DOMAIN forward /\ <<v, w>> \in DOMAIN level
      BY <2>1, <2>2, <2>3, <2>5, JoinIs
    <2>7. f \in WalksTo(g, from, "forward", u, v, n) /\ b \in WalksTo(g, to, "backward", w, v, m)
      BY <2>6 DEF IsLevelMap, HasAll
    <2>8. PICK p : p = AppendPath(f, ReversePath(b))
      OBVIOUS
    <2>9. p \in WalksTo(g, from, "forward", u, w, n + m) /\ u \in from /\ w \in to
      BY <2>7, <2>8, Meet
    <2>10. p \in Walks(g, from, N, "forward") /\ p.src = u /\ EndOf(p) = w
      BY <2>9 DEF WalksTo
    <2>11. p \in FirstWalks(g, from, to, N)
      BY <2>5, <2>9, <2>10 DEF FirstWalks
    <2> QED
      BY <2>4, <2>8, <2>11 DEF FoundRows
  <1>2. ASSUME NEW x \in FoundRows(g, from, to, N)
        PROVE  \E j \in open : x \in JoinRows(forward, level, j)
    <2>1. PICK p \in FirstWalks(g, from, to, N) : x = [path |-> p, cost |-> N]
      BY DEF FoundRows
    <2>2. PICK u : u = p.src
      OBVIOUS
    <2>3. PICK w : w = EndOf(p)
      OBVIOUS
    <2>4. /\ p \in Walks(g, from, N, "forward") /\ w \in to /\ u # w
          /\ ~IsNear(g, from, "forward", u, w, N - 1)
      BY <2>2, <2>3 DEF FirstWalks
    <2>5. u \in from
      BY <2>2, <2>4, WalkType
    <2>6. p \in WalksTo(g, from, "forward", u, w, N)
      BY <2>2, <2>3, <2>4 DEF WalksTo
    <2>7. HasJoin(open, forward, level, u, w, x)
      BY <2>1, <2>4, <2>5, <2>6, NewJoins
    <2> QED
      BY <2>7 DEF HasJoin
  <1> QED
    BY <1>1, <1>2 DEF FindAll

\* All open joins are equally good.
LEMMA BestIsOpen ==
    ASSUME NEW g, NEW N \in Nat, NEW forward, NEW level, NEW known,
           AreNewJoins(Open(forward, level, known), forward, level, g, N)
    PROVE  Best(forward, level, known) = Open(forward, level, known)
  <1>1. \A j \in Open(forward, level, known) : Total(forward, level, j) = N
    BY DEF AreNewJoins
  <1> QED
    BY <1>1, SMTT(30) DEF Best

\* Afterwards the table of costs knows those pairs as well.
LEMMA CostsExact ==
    ASSUME NEW g, NEW n \in Nat, n > 0, NEW m \in Nat, NEW N \in Nat, N = n + m,
           NEW forward, IsLevelMap(forward, g, from, "forward", n),
           NEW level, IsLevelMap(level, g, to, "backward", m),
           NEW known, IsCosts(known, g, from, to, N - 1),
           AreNewJoins(Open(forward, level, known), forward, level, g, N)
    PROVE  IsCosts(BestCosts(forward, level, known), g, from, to, N)
  <1> DEFINE open == Open(forward, level, known)
             next == BestCosts(forward, level, known)
  <1>1. Best(forward, level, known) = open
    BY BestIsOpen, SMTT(30)
  <1>2. /\ DOMAIN next = DOMAIN known \cup {Pair(j) : j \in open}
        /\ \A p \in DOMAIN next :
                /\ (\E j \in open : Pair(j) = p)
                        => next[p] = Total(forward, level, CHOOSE j \in open : Pair(j) = p)
                /\ ~(\E j \in open : Pair(j) = p) => next[p] = known[p]
    BY <1>1 DEF BestCosts
  <1>o. AreNewJoins(open, forward, level, g, N)
    OBVIOUS
  <1> HIDE DEF next, open
  <1>3. ASSUME NEW u, NEW w
        PROVE  /\ <<u, w>> \in DOMAIN next <=>
                    u \in from /\ w \in to /\ u # w /\ IsNear(g, from, "forward", u, w, N)
               /\ <<u, w>> \in DOMAIN next =>
                    \E k \in 1..N : IsFirst(g, from, "forward", u, w, k) /\ next[<<u, w>>] = k
    <2> DEFINE p == <<u, w>>
    <2>1. /\ p \in DOMAIN known <=>
                u \in from /\ w \in to /\ u # w /\ IsNear(g, from, "forward", u, w, N - 1)
          /\ p \in DOMAIN known =>
                \E k \in 1..(N - 1) : IsFirst(g, from, "forward", u, w, k) /\ known[p] = k
      BY DEF IsCosts
    <2>2. (\E j \in open : Pair(j) = p) <=>
            /\ u \in from /\ w \in to /\ u # w /\ ~IsNear(g, from, "forward", u, w, N - 1)
            /\ WalksTo(g, from, "forward", u, w, N) # {}
      <3>1. ASSUME NEW j \in open, Pair(j) = p
            PROVE  /\ u \in from /\ w \in to /\ u # w /\ ~IsNear(g, from, "forward", u, w, N - 1)
                   /\ WalksTo(g, from, "forward", u, w, N) # {}
        <4>1. j[1] = u /\ j[2] = w
          BY <3>1 DEF Pair
        <4>2. j \in Joins(forward, level)
          BY <1>o DEF AreNewJoins
        <4>3. j[1] \in from /\ j[2] \in to
          BY <4>2, JoinIs
        <4> QED
          BY <1>o, <4>1, <4>3 DEF AreNewJoins
      <3>2. ASSUME u \in from, w \in to, u # w, ~IsNear(g, from, "forward", u, w, N - 1),
                   WalksTo(g, from, "forward", u, w, N) # {}
            PROVE  \E j \in open : Pair(j) = p
        <4>1. PICK walk : walk \in WalksTo(g, from, "forward", u, w, N)
          BY <3>2
        <4>2. PICK x : x = [path |-> walk, cost |-> N]
          OBVIOUS
        <4>3. HasJoin(open, forward, level, u, w, x)
          BY <1>o, <3>2, <4>1, <4>2, NewJoins
        <4> QED
          BY <4>3 DEF HasJoin, Pair
      <3> QED
        BY <3>1, <3>2
    <2>3. IsNear(g, from, "forward", u, w, N)
            <=> IsNear(g, from, "forward", u, w, N - 1) \/ WalksTo(g, from, "forward", u, w, N) # {}
      BY SMTT(30) DEF IsNear
    <2> HIDE DEF p
    <2>4. p \in DOMAIN next <=> u \in from /\ w \in to /\ u # w /\ IsNear(g, from, "forward", u, w, N)
      BY <1>2, <2>1, <2>2, <2>3
    <2>5. CASE \E j \in open : Pair(j) = p
      <3>1. p \in DOMAIN next
        BY <1>2, <2>5
      <3>2. (CHOOSE j \in open : Pair(j) = p) \in open
        BY <2>5
      <3>3. next[p] = N
        BY <1>2, <1>o, <2>5, <3>1, <3>2 DEF AreNewJoins
      <3>4. IsFirst(g, from, "forward", u, w, N) /\ N \in 1..N
        BY <2>2, <2>5, SMTT(30) DEF IsFirst
      <3> QED
        BY <2>4, <3>1, <3>3, <3>4 DEF p
    <2>6. CASE ~(\E j \in open : Pair(j) = p)
      <3>1. ASSUME p \in DOMAIN next
            PROVE  \E k \in 1..N : IsFirst(g, from, "forward", u, w, k) /\ next[p] = k
        <4>1. p \in DOMAIN known /\ next[p] = known[p]
          BY <1>2, <2>6, <3>1, SMTT(30)
        <4>2. PICK k \in 1..(N - 1) : IsFirst(g, from, "forward", u, w, k) /\ known[p] = k
          BY <2>1, <4>1
        <4>3. k \in 1..N
          BY SMTT(30)
        <4> QED
          BY <4>1, <4>2, <4>3
      <3> QED
        BY <2>4, <3>1 DEF p
    <2> QED
      BY <2>5, <2>6
  <1>4. IsCosts(next, g, from, to, N)
    BY <1>3 DEF IsCosts
  <1> QED
    BY <1>4 DEF next

\* What a state of findPath has, when all walks of up to n steps have been found.
IsState(state, g, n) ==
    /\ IsCosts(state.costs, g, from, to, n)
    /\ AreConnected(state.unconnected, g, from, to, n)
    /\ state.allFound => state.unconnected = {}

\* The next one, with the walks of n steps.
HasFound(next, state, g, n) == IsState(next, g, n) /\ next.rows = state.rows \cup FoundRows(g, from, to, n)

\* findPath finds exactly the shortest walks of n steps.
LEMMA FindPathsExact ==
    ASSUME NEW g, NEW n \in Nat, n > 0, NEW m \in Nat, NEW N \in Nat, N = n + m,
           NEW forward, IsLevelMap(forward, g, from, "forward", n),
           NEW level, IsLevelMap(level, g, to, "backward", m),
           NEW state, IsState(state, g, N - 1), NEW next \in FindPaths(forward, level, state)
    PROVE  HasFound(next, state, g, N)
  <1> DEFINE open == Open(forward, level, state.costs)
             deletes == open # {} \/ \E j \in Joins(forward, level) : j[1] = j[2]
             left == IF ~deletes THEN state.unconnected
                     ELSE {p \in state.unconnected : p[1] # p[2] /\ p \notin {Pair(j) : j \in open}}
  <1>1. PICK known : known = state.costs
    OBVIOUS
  <1>2. IsCosts(known, g, from, to, N - 1)
    BY <1>1 DEF IsState
  <1>3. AreNewJoins(Open(forward, level, known), forward, level, g, N)
    BY <1>2, OpenJoins
  <1>4. IsCosts(BestCosts(forward, level, known), g, from, to, N)
    BY <1>2, <1>3, CostsExact
  <1>5. Best(forward, level, known) = Open(forward, level, known)
    BY <1>3, BestIsOpen, SMTT(30)
  <1>6. /\ next.costs = BestCosts(forward, level, known)
        /\ next.unconnected = left
        /\ next.allFound = IF deletes THEN left = {} ELSE state.allFound
        /\ next.rows = state.rows \cup UNION {JoinRows(forward, level, j) : j \in open}
    <2>1. PICK extra \in SUBSET (open \ Best(forward, level, state.costs)) :
            next = [costs |-> BestCosts(forward, level, state.costs),
                    unconnected |-> left,
                    allFound |-> IF deletes THEN left = {} ELSE state.allFound,
                    rows |-> state.rows \cup UNION {JoinRows(forward, level, j) :
                                                    j \in Best(forward, level, state.costs) \cup extra}]
      BY DEF FindPaths
    <2>2. Best(forward, level, state.costs) \cup extra = open
      BY <1>1, <1>5
    <2> HIDE DEF open, left, deletes
    <2> QED
      BY <1>1, <2>1, <2>2
  <1>7. UNION {JoinRows(forward, level, j) : j \in open} = FoundRows(g, from, to, N)
    <2>1. PICK S : S = open
      OBVIOUS
    <2>2. AreNewJoins(S, forward, level, g, N)
      BY <1>1, <1>3, <2>1
    <2>3. FindAll(S, forward, level, g, N)
      BY <2>2, NewRows
    <2> QED
      BY <2>1, <2>3 DEF FindAll
  <1>8. AreConnected(left, g, from, to, N)
    <2>1. AreConnected(state.unconnected, g, from, to, N - 1)
      BY DEF IsState
    <2> SUFFICES ASSUME NEW u \in from, NEW w \in to, u # w, <<u, w>> \notin left
                 PROVE  IsNear(g, from, "forward", u, w, N)
      BY DEF AreConnected
    <2>2. CASE <<u, w>> \notin state.unconnected
      <3>1. IsNear(g, from, "forward", u, w, N - 1)
        BY <2>1, <2>2 DEF AreConnected
      <3> QED
        BY <3>1, SMTT(30) DEF IsNear
    <2>3. CASE <<u, w>> \in state.unconnected
      <3>1. PICK j \in open : Pair(j) = <<u, w>>
        BY <2>3
      <3>2. j[1] = u /\ j[2] = w
        BY <3>1 DEF Pair
      <3>3. WalksTo(g, from, "forward", u, w, N) # {}
        BY <1>1, <1>3, <3>1, <3>2 DEF AreNewJoins
      <3> QED
        BY <3>3, SMTT(30) DEF IsNear
    <2> QED
      BY <2>2, <2>3
  <1>9. next.allFound => left = {}
    <2>1. state.allFound => state.unconnected = {}
      BY DEF IsState
    <2>2. CASE deletes
      BY <1>6, <2>2
    <2>3. CASE ~deletes
      BY <1>6, <2>1, <2>3
    <2> QED
      BY <2>2, <2>3
  <1> HIDE DEF open, left, deletes
  <1> QED
    BY <1>4, <1>6, <1>7, <1>8, <1>9 DEF IsState, HasFound
=============================================================================
