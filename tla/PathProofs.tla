----------------------------- MODULE PathProofs -----------------------------
(***************************************************************************)
(* Proofs about FIND PATH, for every graph: walks, the ways to extend,     *)
(* cut, reverse and join them, the plan of FIND ALL PATH, and the plan of  *)
(* FIND SHORTEST PATH between two vertices.                                *)
(***************************************************************************)
EXTENDS ShortestPath, AllPaths, TLAPS

\* Zenon proves every leaf that names no other prover.
USE Zenon

(***************************************************************************)
(* Facts about walks: they can be extended, shortened, cut in two, joined  *)
(* and walked back.                                                        *)
(***************************************************************************)

\* A function on 1..n is a sequence.
LEMMA SeqOf ==
    ASSUME NEW S, NEW n \in Nat, NEW h \in [1..n -> S]
    PROVE  h \in Seq(S)
    BY SMTT(30)

\* A sequence is a function on 1..Len.
LEMMA FunOf ==
    ASSUME NEW S, NEW h \in Seq(S)
    PROVE  Len(h) \in Nat /\ h \in [1..Len(h) -> S] /\ DOMAIN h = 1..Len(h)
    BY SMTT(30)

\* The empty sequence, and when a sequence is empty.
LEMMA NoElement ==
    ASSUME NEW S
    PROVE  << >> \in Seq(S) /\ Len(<< >>) = 0 /\ \A h \in Seq(S) : Len(h) = 0 => h = << >>
    BY SMTT(30)

\* The elements of Append.
LEMMA AppendIs ==
    ASSUME NEW S, NEW h \in Seq(S), NEW x \in S
    PROVE  /\ Append(h, x) \in Seq(S) /\ Len(Append(h, x)) = Len(h) + 1
           /\ \A k \in 1..Len(h) : Append(h, x)[k] = h[k]
           /\ Append(h, x)[Len(h) + 1] = x
    BY SMTT(30)

\* The elements of a concatenation.
LEMMA ConcatIs ==
    ASSUME NEW S, NEW h \in Seq(S), NEW i \in Seq(S)
    PROVE  /\ h \o i \in Seq(S) /\ Len(h \o i) = Len(h) + Len(i)
           /\ \A k \in 1..(Len(h) + Len(i)) :
                    (h \o i)[k] = IF k <= Len(h) THEN h[k] ELSE i[k - Len(h)]
    BY SMTT(30)

\* The elements of a part of a sequence.
LEMMA SubSeqIs ==
    ASSUME NEW S, NEW h, NEW m \in Int, NEW n \in Int, \A k \in m..n : h[k] \in S
    PROVE  /\ SubSeq(h, m, n) \in Seq(S)
           /\ Len(SubSeq(h, m, n)) = IF m <= n THEN n - m + 1 ELSE 0
           /\ \A k \in 1..(n - m + 1) : SubSeq(h, m, n)[k] = h[m + k - 1]
    BY SMTT(30)

\* Functions on 1..n as sequences.
LEMMA SeqFun ==
    ASSUME NEW h, NEW n \in Nat, h = [k \in 1..n |-> h[k]]
    PROVE  h \in Seq({h[k] : k \in 1..n}) /\ Len(h) = n /\ DOMAIN h = 1..n
  <1> DEFINE S == {h[k] : k \in 1..n}
  <1>1. h \in [1..n -> S]
    OBVIOUS
  <1>2. h \in Seq(S)
    BY <1>1, SeqOf
  <1> HIDE DEF S
  <1>3. DOMAIN h = 1..Len(h) /\ Len(h) \in Nat
    BY <1>2, FunOf
  <1>4. DOMAIN h = 1..n
    BY <1>1
  <1>5. Len(h) = n
    BY <1>3, <1>4, SMTT(30)
  <1> QED
    BY <1>2, <1>4, <1>5 DEF S

\* Append, for a sequence that is written as a function.
LEMMA AppendFun ==
    ASSUME NEW h, NEW n \in Nat, h = [k \in 1..n |-> h[k]], NEW x
    PROVE  Append(h, x) = [k \in 1..(n + 1) |-> IF k <= n THEN h[k] ELSE x]
  <1> DEFINE S == {h[k] : k \in 1..n} \cup {x}
  <1>1. h \in Seq(S) /\ Len(h) = n
    <2>1. h \in Seq({h[k] : k \in 1..n}) /\ Len(h) = n
      BY SeqFun
    <2> QED
      BY <2>1, SMTT(30)
  <1>2. x \in S
    OBVIOUS
  <1> HIDE DEF S
  <1>3. /\ Append(h, x) \in Seq(S) /\ Len(Append(h, x)) = n + 1
        /\ \A k \in 1..n : Append(h, x)[k] = h[k]
        /\ Append(h, x)[n + 1] = x
    BY <1>1, <1>2, AppendIs, SMTT(30)
  <1>4. Append(h, x) \in [1..(n + 1) -> S]
    BY <1>3, FunOf
  <1>5. \A k \in 1..(n + 1) : Append(h, x)[k] = IF k <= n THEN h[k] ELSE x
    BY <1>3, SMTT(30)
  <1> QED
    BY <1>4, <1>5

StepsOf(g, r) == {StepAlong(a) : a \in Arcs(g, r)}

(***************************************************************************)
(* Walks.                                                                  *)
(***************************************************************************)
\* Arcs are records, and following one the other way is an arc of the other side.
LEMMA ArcShape ==
    ASSUME NEW g, NEW r, NEW a \in Arcs(g, r)
    PROVE  /\ a = [src |-> a.src, dst |-> a.dst, edge |-> a.edge, sign |-> a.sign]
           /\ a.sign \in {1, -1}
  <1>1. PICK e \in g.edges, sign \in BuildEdgeKey(g.over, r) : a = Arc(e, sign)
    BY SMTT(30) DEF Arcs
  <1>2. sign \in {1, -1}
    BY DEF BuildEdgeKey
  <1> QED
    BY <1>1, <1>2 DEF Arc

Back(a) == [src |-> a.dst, dst |-> a.src, edge |-> a.edge, sign |-> -a.sign]

Opposite(r) == IF r = "forward" THEN "backward" ELSE "forward"

\* The two sides of a query are opposite to each other.
LEMMA OppositeSide ==
    /\ \A r \in Sides : Opposite(r) \in Sides /\ Opposite(Opposite(r)) = r
    /\ Opposite("forward") = "backward" /\ Opposite("backward") = "forward"
    BY DEF Sides, Opposite

\* GetNeighbors of one side finds the arcs of the other side, turned round.
LEMMA ArcBack ==
    ASSUME NEW g, NEW r \in Sides, NEW a \in Arcs(g, r)
    PROVE  /\ Back(a) \in Arcs(g, Opposite(r))
           /\ StepAlong(Back(a)) = StepBack(a)
           /\ StepBack(Back(a)) = StepAlong(a)
           /\ Back(Back(a)) = a
  <1>1. PICK e \in g.edges, sign \in BuildEdgeKey(g.over, r) : a = Arc(e, sign)
    BY SMTT(30) DEF Arcs
  <1>2. sign \in {1, -1}
    BY DEF BuildEdgeKey
  <1>3. -sign \in BuildEdgeKey(g.over, Opposite(r))
    BY <1>2, SMTT(30) DEF BuildEdgeKey, Opposite, Sides
  <1>4. Back(a) = Arc(e, -sign)
    BY <1>1, <1>2, SMTT(30) DEF Arc, Back
  <1>5. Back(a) \in Arcs(g, Opposite(r))
    BY <1>3, <1>4, SMTT(30) DEF Arcs
  <1>6. a = [src |-> a.src, dst |-> a.dst, edge |-> a.edge, sign |-> a.sign] /\ a.sign \in {1, -1}
    BY ArcShape
  <1>7. -(-a.sign) = a.sign
    BY <1>6, SMTT(30)
  <1> QED
    BY <1>5, <1>6, <1>7 DEF Back, StepAlong, StepBack

\* A walk of n steps is a vertex and a sequence of n steps.
LEMMA WalkRecord ==
    ASSUME NEW g, NEW F, NEW n, NEW r, NEW p \in Walks(g, F, n, r)
    PROVE  p = [src |-> p.src, steps |-> p.steps]
    BY DEF Walks

\* A walk starts in one of its vertices and takes steps along arcs.
LEMMA WalkType ==
    ASSUME NEW g, NEW F, NEW n, NEW r, NEW p \in Walks(g, F, n, r)
    PROVE  p.src \in F /\ p.steps \in [1..n -> StepsOf(g, r)]
    BY DEF Walks, StepsOf

\* A walk of n steps has n steps, and ends where the n-th leads.
LEMMA WalkShape ==
    ASSUME NEW g, NEW F, NEW n \in Nat, NEW r, NEW p \in Walks(g, F, n, r)
    PROVE  /\ p.steps \in Seq(StepsOf(g, r))
           /\ Len(p.steps) = n
           /\ EndOf(p) = VertexAt(p, n)
  <1>1. p.steps \in [1..n -> StepsOf(g, r)]
    BY WalkType
  <1>2. p.steps \in Seq(StepsOf(g, r))
    BY <1>1, SeqOf
  <1>3. Len(p.steps) = n
    BY <1>1, <1>2, FunOf, SMTT(30)
  <1> QED
    BY <1>1, <1>2, <1>3 DEF EndOf

\* Every step of a walk follows an arc from the vertex before it.
LEMMA WalkSteps ==
    ASSUME NEW g, NEW F, NEW n \in Nat, NEW r, NEW p \in Walks(g, F, n, r)
    PROVE  \A x \in 1..n : \E a \in Arcs(g, r) :
                a.src = VertexAt(p, x - 1) /\ p.steps[x] = StepAlong(a)
    BY DEF Walks, GetNeighbors

\* ... and a sequence of such steps is a walk.
LEMMA WalkIntro ==
    ASSUME NEW g, NEW F, NEW n \in Nat, NEW r, NEW p,
           p = [src |-> p.src, steps |-> p.steps], p.src \in F,
           p.steps \in Seq(StepsOf(g, r)), Len(p.steps) = n,
           \A i \in 1..n : \E a \in Arcs(g, r) :
                a.src = VertexAt(p, i - 1) /\ p.steps[i] = StepAlong(a)
    PROVE  p \in Walks(g, F, n, r)
  <1>1. p.steps \in [1..n -> StepsOf(g, r)]
    BY FunOf
  <1>2. p \in [src : F, steps : [1..n -> StepsOf(g, r)]]
    BY <1>1
  <1> QED
    BY <1>2 DEF Walks, GetNeighbors, StepsOf

\* Walks that start in the same vertex and take the same steps are equal.
LEMMA WalkEqual ==
    ASSUME NEW g, NEW F, NEW n \in Nat, NEW r, NEW p \in Walks(g, F, n, r),
           NEW h, NEW G, NEW s, NEW q \in Walks(h, G, n, s),
           p.src = q.src, \A i \in 1..n : p.steps[i] = q.steps[i]
    PROVE  p = q
  <1>1. p.steps \in [1..n -> StepsOf(g, r)] /\ q.steps \in [1..n -> StepsOf(h, s)]
    BY WalkType
  <1>2. p.steps = q.steps
    BY <1>1, SMTT(30)
  <1> QED
    BY <1>2, WalkRecord

\* A walk without a step is a vertex.
LEMMA NoStep ==
    ASSUME NEW g, NEW F, NEW r
    PROVE  Walks(g, F, 0, r) = {PathOf(v) : v \in F}
  <1>1. ASSUME NEW p \in Walks(g, F, 0, r) PROVE p = PathOf(p.src) /\ p.src \in F
    <2>1. p.steps = <<>>
      BY WalkShape, NoElement, SMTT(30)
    <2> QED
      BY <2>1, WalkType, WalkRecord DEF PathOf
  <1>2. ASSUME NEW v \in F PROVE PathOf(v) \in Walks(g, F, 0, r)
    <2>1. PathOf(v).src = v /\ PathOf(v).steps = <<>>
          /\ PathOf(v) = [src |-> PathOf(v).src, steps |-> PathOf(v).steps]
      BY DEF PathOf
    <2>2. <<>> \in Seq(StepsOf(g, r)) /\ Len(<<>>) = 0 /\ 1..0 = {}
      BY NoElement, SMTT(30)
    <2> QED
      BY <2>1, <2>2, WalkIntro
  <1> QED
    BY <1>1, <1>2

\* A walk that follows one more arc.
IsExtension(q, p, n, a) ==
    /\ q.src = p.src
    /\ EndOf(q) = a.dst
    /\ \A x \in 1..n : q.steps[x] = p.steps[x]
    /\ q.steps[n + 1] = StepAlong(a)
    /\ \A x \in 0..n : VertexAt(q, x) = VertexAt(p, x)

\* AddStep makes a walk one step longer.
LEMMA Extend ==
    ASSUME NEW g, NEW F, NEW n \in Nat, NEW r, NEW p \in Walks(g, F, n, r),
           NEW a \in Arcs(g, r), a.src = EndOf(p)
    PROVE  AddStep(p, a) \in Walks(g, F, n + 1, r) /\ IsExtension(AddStep(p, a), p, n, a)
  <1> DEFINE q == AddStep(p, a)
  <1>1. a \in Arcs(g, r) /\ a.src = VertexAt(p, n)
    BY WalkShape, SMTT(30)
  <1>2. StepAlong(a) \in StepsOf(g, r)
    BY <1>1 DEF StepsOf
  <1>3. p.steps \in Seq(StepsOf(g, r)) /\ Len(p.steps) = n /\ p.src \in F
    BY WalkShape, WalkType, SMTT(30)
  <1>4. q = [src |-> p.src, steps |-> Append(p.steps, StepAlong(a))]
    BY <1>3 DEF AddStep
  <1>5. /\ q.steps \in Seq(StepsOf(g, r)) /\ Len(q.steps) = n + 1
        /\ \A i \in 1..n : q.steps[i] = p.steps[i]
        /\ q.steps[n + 1] = StepAlong(a)
    BY <1>2, <1>3, <1>4, AppendIs, SMTT(30)
  <1>6. \A i \in 0..n : VertexAt(q, i) = VertexAt(p, i)
    BY <1>4, <1>5, SMTT(30) DEF VertexAt
  <1>7. \A i \in 1..(n + 1) : \E b \in Arcs(g, r) :
            b.src = VertexAt(q, i - 1) /\ q.steps[i] = StepAlong(b)
    <2> SUFFICES ASSUME NEW i \in 1..(n + 1)
                 PROVE  \E b \in Arcs(g, r) : b.src = VertexAt(q, i - 1) /\ q.steps[i] = StepAlong(b)
      OBVIOUS
    <2>1. VertexAt(q, i - 1) = VertexAt(p, i - 1)
      BY <1>6, SMTT(30)
    <2>2. CASE i = n + 1
      BY <2>1, <2>2, <1>1, <1>5, SMTT(30)
    <2>3. CASE i # n + 1
      <3>1. i \in 1..n
        BY <2>3, SMTT(30)
      <3>2. PICK b \in Arcs(g, r) : b.src = VertexAt(p, i - 1) /\ p.steps[i] = StepAlong(b)
        <4>1. \A j \in 1..n : \E b \in Arcs(g, r) :
                    b.src = VertexAt(p, j - 1) /\ p.steps[j] = StepAlong(b)
          BY WalkSteps, SMTT(30)
        <4> QED
          BY <3>1, <4>1
      <3>3. q.steps[i] = p.steps[i]
        BY <3>1, <1>5
      <3>4. b.src = VertexAt(q, i - 1) /\ q.steps[i] = StepAlong(b)
        BY <3>2, <3>3, <2>1
      <3> QED
        BY <3>4
    <2> QED
      BY <2>2, <2>3
  <1>8. q \in Walks(g, F, n + 1, r)
    <2>1. n + 1 \in Nat /\ q.src \in F /\ q = [src |-> q.src, steps |-> q.steps]
      BY <1>3, <1>4, SMTT(30)
    <2> HIDE DEF q
    <2> QED
      BY <2>1, <1>5, <1>7, WalkIntro
  <1>9. EndOf(q) = a.dst
    BY <1>5, SMTT(30) DEF EndOf, VertexAt, StepAlong
  <1>10. q.src = p.src
    BY <1>4, SMTT(30)
  <1> QED
    BY <1>5, <1>6, <1>8, <1>9, <1>10 DEF IsExtension

\* What a walk does up to step k is a walk.
Prefix(p, k) == [src |-> p.src, steps |-> SubSeq(p.steps, 1, k)]

IsPrefixOf(q, p, k) ==
    /\ q.src = p.src
    /\ EndOf(q) = VertexAt(p, k)
    /\ \A x \in 1..k : q.steps[x] = p.steps[x]
    /\ \A x \in 0..k : VertexAt(q, x) = VertexAt(p, x)

\* The first k steps of a walk are a walk.
LEMMA PrefixWalk ==
    ASSUME NEW g, NEW F, NEW n \in Nat, NEW r, NEW p \in Walks(g, F, n, r), NEW k \in 0..n
    PROVE  Prefix(p, k) \in Walks(g, F, k, r) /\ IsPrefixOf(Prefix(p, k), p, k)
  <1> DEFINE q == Prefix(p, k)
  <1>1. p.steps \in [1..n -> StepsOf(g, r)] /\ p.src \in F
    BY WalkType
  <1>2. \A i \in 1..k : p.steps[i] \in StepsOf(g, r)
    BY <1>1, SMTT(30)
  <1>3. /\ q.steps \in Seq(StepsOf(g, r)) /\ Len(q.steps) = k
        /\ \A i \in 1..k : q.steps[i] = p.steps[i]
    BY <1>2, SubSeqIs, SMTT(30) DEF Prefix
  <1>4. q.src = p.src /\ q = [src |-> q.src, steps |-> q.steps]
    BY DEF Prefix
  <1>5. \A i \in 0..k : VertexAt(q, i) = VertexAt(p, i)
    BY <1>3, <1>4, SMTT(30) DEF VertexAt
  <1>6. \A i \in 1..k : \E b \in Arcs(g, r) :
            b.src = VertexAt(q, i - 1) /\ q.steps[i] = StepAlong(b)
    <2> SUFFICES ASSUME NEW i \in 1..k
                 PROVE  \E b \in Arcs(g, r) : b.src = VertexAt(q, i - 1) /\ q.steps[i] = StepAlong(b)
      OBVIOUS
    <2>1. i \in 1..n /\ VertexAt(q, i - 1) = VertexAt(p, i - 1)
      BY <1>5, SMTT(30)
    <2> QED
      BY <2>1, <1>3, WalkSteps, SMTT(30)
  <1>7. q \in Walks(g, F, k, r)
    BY <1>1, <1>3, <1>4, <1>6, WalkIntro, SMTT(30)
  <1> QED
    BY <1>3, <1>4, <1>5, <1>7, SMTT(30) DEF EndOf, IsPrefixOf

\* A walk of n + 1 steps is a walk of n steps that follows one more arc.
LEMMA Shorten ==
    ASSUME NEW g, NEW F, NEW n \in Nat, NEW r, NEW p \in Walks(g, F, n + 1, r)
    PROVE  \E a \in Arcs(g, r) : /\ a.src = EndOf(Prefix(p, n))
                                 /\ p = AddStep(Prefix(p, n), a)
                                 /\ EndOf(p) = a.dst
  <1> DEFINE q == Prefix(p, n)
  <1>1. /\ q \in Walks(g, F, n, r) /\ EndOf(q) = VertexAt(p, n) /\ q.src = p.src
        /\ \A i \in 1..n : q.steps[i] = p.steps[i]
    <2>1. n + 1 \in Nat /\ n \in 0..(n + 1)
      BY SMTT(30)
    <2>2. q \in Walks(g, F, n, r) /\ IsPrefixOf(q, p, n)
      BY <2>1, PrefixWalk
    <2> HIDE DEF q
    <2> QED
      BY <2>2 DEF IsPrefixOf
  <1> HIDE DEF q
  <1>2. PICK a \in Arcs(g, r) : a.src = VertexAt(p, n) /\ p.steps[n + 1] = StepAlong(a)
    <2>1. n + 1 \in Nat /\ n + 1 \in 1..(n + 1) /\ (n + 1) - 1 = n
      BY SMTT(30)
    <2>2. \E a \in Arcs(g, r) : a.src = VertexAt(p, (n + 1) - 1) /\ p.steps[n + 1] = StepAlong(a)
      BY <2>1, WalkSteps, SMTT(30)
    <2> QED
      BY <2>1, <2>2
  <1>3. a.src = EndOf(q)
    BY <1>1, <1>2
  <1>4. /\ AddStep(q, a) \in Walks(g, F, n + 1, r) /\ AddStep(q, a).src = q.src
        /\ EndOf(AddStep(q, a)) = a.dst
        /\ \A i \in 1..n : AddStep(q, a).steps[i] = q.steps[i]
        /\ AddStep(q, a).steps[n + 1] = StepAlong(a)
    <2>1. AddStep(q, a) \in Walks(g, F, n + 1, r) /\ IsExtension(AddStep(q, a), q, n, a)
      BY <1>1, <1>3, Extend
    <2> QED
      BY <2>1 DEF IsExtension
  <1>5. \A i \in 1..(n + 1) : p.steps[i] = AddStep(q, a).steps[i]
    BY <1>1, <1>2, <1>4, SMTT(30)
  <1>6. p = AddStep(q, a)
    <2>1. n + 1 \in Nat
      BY SMTT(30)
    <2> QED
      BY <2>1, <1>1, <1>4, <1>5, WalkEqual, SMTT(30)
  <1> QED
    BY <1>3, <1>4, <1>6 DEF q

\* The steps of a reversed walk, and its vertices, which are those of the walk from its end.
LEMMA ReverseIs ==
    ASSUME NEW g, NEW F, NEW n \in Nat, NEW r \in Sides, NEW b \in Walks(g, F, n, r)
    PROVE  /\ ReversePath(b) = [src |-> ReversePath(b).src, steps |-> ReversePath(b).steps]
           /\ ReversePath(b).src = EndOf(b)
           /\ ReversePath(b).steps = [x \in 1..n |-> [dst |-> VertexAt(b, n - x),
                                                     edge |-> b.steps[n + 1 - x].edge,
                                                     sign |-> -b.steps[n + 1 - x].sign]]
  <1>1. Len(b.steps) = n
    BY WalkShape, SMTT(30)
  <1>2. ReversePath(b) = [src |-> EndOf(b),
             steps |-> [i \in 1..n |-> [dst |-> VertexAt(b, n - i),
                                       edge |-> b.steps[n + 1 - i].edge,
                                       sign |-> -b.steps[n + 1 - i].sign]]]
    BY <1>1 DEF ReversePath
  <1> QED
    BY <1>2, SMTT(30)

\* The steps of a reversed walk: those of the walk, backwards.
LEMMA ReverseSteps ==
    ASSUME NEW g, NEW F, NEW n \in Nat, NEW r \in Sides, NEW b \in Walks(g, F, n, r)
    PROVE  \A x \in 1..n : ReversePath(b).steps[x] = [dst |-> VertexAt(b, n - x),
                                                    edge |-> b.steps[n + 1 - x].edge,
                                                    sign |-> -b.steps[n + 1 - x].sign]
  <1> DEFINE q == ReversePath(b)
  <1>1. q.steps = [x \in 1..n |-> [dst |-> VertexAt(b, n - x),
                                  edge |-> b.steps[n + 1 - x].edge,
                                  sign |-> -b.steps[n + 1 - x].sign]]
    BY ReverseIs, SMTT(30)
  <1> QED
    BY <1>1

\* A reversed walk visits the same vertices, backwards.
LEMMA ReverseVertices ==
    ASSUME NEW g, NEW F, NEW n \in Nat, NEW r \in Sides, NEW b \in Walks(g, F, n, r)
    PROVE  \A x \in 0..n : VertexAt(ReversePath(b), x) = VertexAt(b, n - x)
  <1> DEFINE q == ReversePath(b)
  <1>1. q.src = EndOf(b) /\ EndOf(b) = VertexAt(b, n)
    <2>1. EndOf(b) = VertexAt(b, n)
      BY WalkShape, SMTT(30)
    <2>2. q.src = EndOf(b)
      BY DEF ReversePath
    <2> QED
      BY <2>1, <2>2
  <1>2. \A x \in 1..n : q.steps[x] = [dst |-> VertexAt(b, n - x),
                                    edge |-> b.steps[n + 1 - x].edge,
                                    sign |-> -b.steps[n + 1 - x].sign]
    BY ReverseSteps, ZenonT(60)
  <1> HIDE DEF q
  <1>3. SUFFICES ASSUME NEW x \in 0..n PROVE VertexAt(q, x) = VertexAt(b, n - x)
    BY DEF q
  <1>4. CASE x = 0
    BY <1>4, <1>1, SMTT(30) DEF VertexAt
  <1>5. CASE x # 0
    <2>1. VertexAt(q, x) = q.steps[x].dst /\ x \in 1..n
      BY <1>5, SMTT(30) DEF VertexAt
    <2>2. q.steps[x] = [dst |-> VertexAt(b, n - x), edge |-> b.steps[n + 1 - x].edge,
                        sign |-> -b.steps[n + 1 - x].sign]
      BY <2>1, <1>2
    <2> QED
      BY <2>1, <2>2, SMTT(30)
  <1> QED
    BY <1>4, <1>5

\* Step i of a reversed walk goes back along the arc a of step n + 1 - i.
GoesBack(b, n, i, a) ==
    /\ a.src = VertexAt(b, n - i) /\ a.dst = VertexAt(b, n + 1 - i)
    /\ b.steps[n + 1 - i] = StepAlong(a)
    /\ ReversePath(b).steps[i] = StepBack(a)

\* Each of its steps goes back along an arc.
LEMMA ReverseStep ==
    ASSUME NEW g, NEW F, NEW n \in Nat, NEW r \in Sides, NEW b \in Walks(g, F, n, r)
    PROVE  \A x \in 1..n : \E a \in Arcs(g, r) : GoesBack(b, n, x, a)
  <1>0. \A j \in 1..n : ReversePath(b).steps[j] = [dst |-> VertexAt(b, n - j),
                                                edge |-> b.steps[n + 1 - j].edge,
                                                sign |-> -b.steps[n + 1 - j].sign]
    BY ReverseSteps, SMTT(30)
  <1> TAKE i \in 1..n
  <1>1. n + 1 - i \in 1..n /\ (n + 1 - i) - 1 = n - i
    BY SMTT(30)
  <1>2. \A j \in 1..n : \E a \in Arcs(g, r) :
            a.src = VertexAt(b, j - 1) /\ b.steps[j] = StepAlong(a)
    BY WalkSteps, SMTT(30)
  <1>3. PICK a \in Arcs(g, r) : a.src = VertexAt(b, (n + 1 - i) - 1) /\ b.steps[n + 1 - i] = StepAlong(a)
    BY <1>1, <1>2
  <1>4. ReversePath(b).steps[i] = [dst |-> VertexAt(b, n - i),
                                   edge |-> b.steps[n + 1 - i].edge,
                                   sign |-> -b.steps[n + 1 - i].sign]
    BY <1>0
  <1>5. b.steps[n + 1 - i].edge = a.edge /\ b.steps[n + 1 - i].sign = a.sign
        /\ b.steps[n + 1 - i].dst = a.dst
    BY <1>3, SMTT(30) DEF StepAlong
  <1>6. a.src = VertexAt(b, n - i)
    BY <1>1, <1>3
  <1>7. ReversePath(b).steps[i] = StepBack(a)
    BY <1>4, <1>5, <1>6 DEF StepBack
  <1>8. a.dst = VertexAt(b, n + 1 - i)
    BY <1>1, <1>5, SMTT(30) DEF VertexAt
  <1> QED
    BY <1>3, <1>6, <1>7, <1>8 DEF GoesBack

\* A walk can be walked back, in the other direction.
LEMMA ReverseWalk ==
    ASSUME NEW g, NEW F, NEW n \in Nat, NEW r \in Sides, NEW b \in Walks(g, F, n, r),
           NEW G, EndOf(b) \in G
    PROVE  /\ ReversePath(b) \in Walks(g, G, n, Opposite(r))
           /\ ReversePath(b).src = EndOf(b)
           /\ EndOf(ReversePath(b)) = b.src
  <1> DEFINE q == ReversePath(b)
  <1>1. /\ q = [src |-> q.src, steps |-> q.steps] /\ q.src = EndOf(b)
        /\ q.steps = [i \in 1..n |-> [dst |-> VertexAt(b, n - i),
                                     edge |-> b.steps[n + 1 - i].edge,
                                     sign |-> -b.steps[n + 1 - i].sign]]
        /\ \A i \in 0..n : VertexAt(q, i) = VertexAt(b, n - i)
    BY ReverseIs, ReverseVertices, SMTT(30)
  <1>0. \A j \in 1..n : \E a \in Arcs(g, r) : GoesBack(b, n, j, a)
    BY ReverseStep
  <1>2. ASSUME NEW i \in 1..n
        PROVE  \E c \in Arcs(g, Opposite(r)) : c.src = VertexAt(q, i - 1) /\ q.steps[i] = StepAlong(c)
    <2>1. PICK a \in Arcs(g, r) : a.dst = VertexAt(b, n + 1 - i) /\ q.steps[i] = StepBack(a)
      BY <1>0 DEF GoesBack
    <2>2. Back(a) \in Arcs(g, Opposite(r)) /\ StepAlong(Back(a)) = StepBack(a)
      BY ArcBack
    <2>3. Back(a).src = a.dst
      BY DEF Back
    <2>4. VertexAt(q, i - 1) = VertexAt(b, n - (i - 1)) /\ n - (i - 1) = n + 1 - i
      BY <1>1, SMTT(30)
    <2>5. Back(a).src = VertexAt(q, i - 1) /\ q.steps[i] = StepAlong(Back(a))
      BY <2>1, <2>2, <2>3, <2>4
    <2> QED
      BY <2>2, <2>5
  <1> HIDE DEF q
  <1>3. \A i \in 1..n : q.steps[i] \in StepsOf(g, Opposite(r))
    BY <1>2 DEF StepsOf
  <1>5. q.steps \in [1..n -> StepsOf(g, Opposite(r))]
    BY <1>1, <1>3
  <1>6. q.steps \in Seq(StepsOf(g, Opposite(r)))
    BY <1>5, SeqOf
  <1>7. Len(q.steps) = n
    BY <1>1, <1>6, FunOf, SMTT(30)
  <1>8. q \in Walks(g, G, n, Opposite(r))
    <2>1. q.src \in G
      BY <1>1
    <2> QED
      BY <2>1, <1>1, <1>2, <1>6, <1>7, WalkIntro
  <1>9. EndOf(q) = b.src
    <2>1. EndOf(q) = VertexAt(q, n)
      BY <1>7 DEF EndOf
    <2>2. VertexAt(q, n) = VertexAt(b, n - n) /\ n - n = 0
      BY <1>1, SMTT(30)
    <2> QED
      BY <2>1, <2>2, SMTT(30) DEF VertexAt
  <1> QED
    BY <1>1, <1>8, <1>9 DEF q

\* Walking there and back again is the walk itself.
LEMMA ReverseTwice ==
    ASSUME NEW g, NEW F, NEW n \in Nat, NEW r \in Sides, NEW b \in Walks(g, F, n, r)
    PROVE  ReversePath(ReversePath(b)) = b
  <1> DEFINE q == ReversePath(b)
             t == ReversePath(q)
  <1>0. PICK G : EndOf(b) \in G /\ b.src \in G
    <2>1. EndOf(b) \in {EndOf(b), b.src} /\ b.src \in {EndOf(b), b.src}
      OBVIOUS
    <2> QED
      BY <2>1
  <1>1. q \in Walks(g, G, n, Opposite(r)) /\ EndOf(q) = b.src /\ Opposite(r) \in Sides
    BY <1>0, ReverseWalk, OppositeSide, SMTT(30)
  <1>2. t \in Walks(g, G, n, Opposite(Opposite(r))) /\ t.src = EndOf(q)
    BY <1>0, <1>1, ReverseWalk, SMTT(30)
  <1>3. t.src = b.src
    BY <1>1, <1>2
  <1>5. \A j \in 1..n : \E a \in Arcs(g, r) : GoesBack(b, n, j, a)
    BY ReverseStep
  <1>6. \A j \in 1..n : t.steps[j] = [dst |-> VertexAt(q, n - j),
                                    edge |-> q.steps[n + 1 - j].edge,
                                    sign |-> -q.steps[n + 1 - j].sign]
    BY <1>1, ReverseSteps, SMTT(30)
  <1>7. \A j \in 0..n : VertexAt(q, j) = VertexAt(b, n - j)
    BY ReverseVertices, SMTT(30)
  <1>4. ASSUME NEW i \in 1..n PROVE t.steps[i] = b.steps[i]
    <2> HIDE DEF q, t
    <2>4. n + 1 - i \in 1..n /\ n + 1 - (n + 1 - i) = i /\ n - i \in 0..n /\ n - (n - i) = i
      BY SMTT(30)
    <2>5. PICK a \in Arcs(g, r) : /\ a.dst = VertexAt(b, n + 1 - (n + 1 - i))
                                   /\ b.steps[n + 1 - (n + 1 - i)] = StepAlong(a)
                                   /\ q.steps[n + 1 - i] = StepBack(a)
      BY <1>5, <2>4 DEF GoesBack, q
    <2>6. a.dst = VertexAt(b, i) /\ b.steps[i] = StepAlong(a)
      BY <2>4, <2>5
    <2>7. t.steps[i] = [dst |-> a.dst, edge |-> q.steps[n + 1 - i].edge, sign |-> -q.steps[n + 1 - i].sign]
      BY <1>6, <1>7, <2>4, <2>6
    <2>8. q.steps[n + 1 - i].edge = a.edge /\ q.steps[n + 1 - i].sign = -a.sign
      BY <2>5, SMTT(30) DEF StepBack
    <2>9. -(-a.sign) = a.sign
      BY ArcShape, SMTT(30)
    <2> QED
      BY <2>6, <2>7, <2>8, <2>9 DEF StepAlong
  <1> HIDE DEF q, t
  <1>8. t = b
    BY <1>2, <1>3, <1>4, WalkEqual, SMTT(30)
  <1> QED
    BY <1>8 DEF q, t

\* A walk that goes on where another one ends.
IsJoin(p, f, k, q, j) ==
    /\ p.src = f.src
    /\ EndOf(p) = EndOf(q)
    /\ \A x \in 1..k : p.steps[x] = f.steps[x]
    /\ \A x \in 1..j : p.steps[k + x] = q.steps[x]

\* Path::append makes one walk of two that meet.
LEMMA AppendWalk ==
    ASSUME NEW g, NEW F, NEW k \in Nat, NEW r, NEW f \in Walks(g, F, k, r),
           NEW j \in Nat, NEW G, NEW q \in Walks(g, G, j, r), q.src = EndOf(f)
    PROVE  AppendPath(f, q) \in Walks(g, F, k + j, r) /\ IsJoin(AppendPath(f, q), f, k, q, j)
  <1> DEFINE p == AppendPath(f, q)
  <1>1. /\ f.steps \in Seq(StepsOf(g, r)) /\ Len(f.steps) = k /\ f.src \in F
        /\ EndOf(f) = VertexAt(f, k)
    BY WalkShape, WalkType, SMTT(30)
  <1>2. /\ q.steps \in Seq(StepsOf(g, r)) /\ Len(q.steps) = j /\ q.src = EndOf(f)
        /\ EndOf(q) = VertexAt(q, j)
    BY WalkShape, WalkType, SMTT(30)
  <1>3. p = [src |-> p.src, steps |-> p.steps] /\ p.src = f.src /\ p.steps = f.steps \o q.steps
    BY DEF AppendPath
  <1> HIDE DEF p
  <1>4. /\ p.steps \in Seq(StepsOf(g, r)) /\ Len(p.steps) = k + j
        /\ \A i \in 1..(k + j) : p.steps[i] = IF i <= k THEN f.steps[i] ELSE q.steps[i - k]
    <2>1. LET c == f.steps \o q.steps
          IN  /\ c \in Seq(StepsOf(g, r)) /\ Len(c) = Len(f.steps) + Len(q.steps)
              /\ \A i \in 1..(Len(f.steps) + Len(q.steps)) :
                    c[i] = IF i <= Len(f.steps) THEN f.steps[i] ELSE q.steps[i - Len(f.steps)]
      BY <1>1, <1>2, ConcatIs
    <2> QED
      BY <2>1, <1>1, <1>2, <1>3
  <1>5. \A i \in 1..k : p.steps[i] = f.steps[i]
    BY <1>4, SMTT(30)
  <1>6. ASSUME NEW i \in 1..j PROVE p.steps[k + i] = q.steps[i]
    <2>1. k + i \in 1..(k + j) /\ ~(k + i <= k) /\ (k + i) - k = i
      BY SMTT(30)
    <2> QED
      BY <2>1, <1>4
  <1>7. ASSUME NEW i \in 0..k PROVE VertexAt(p, i) = VertexAt(f, i)
    <2>1. CASE i = 0
      BY <1>3, <2>1 DEF VertexAt
    <2>2. CASE i # 0
      <3>1. i \in 1..k
        BY <2>2, SMTT(30)
      <3> QED
        BY <1>5, <2>2, <3>1 DEF VertexAt
    <2> QED
      BY <2>1, <2>2
  <1>8. ASSUME NEW i \in 0..j PROVE VertexAt(p, k + i) = VertexAt(q, i)
    <2>1. CASE i = 0
      <3>1. VertexAt(p, k) = VertexAt(f, k) /\ k + i = k
        BY <1>7, <2>1, SMTT(30)
      <3>2. VertexAt(q, i) = q.src
        BY <2>1 DEF VertexAt
      <3> QED
        BY <3>1, <3>2, <1>1, <1>2
    <2>2. CASE i # 0
      <3>1. VertexAt(p, k + i) = p.steps[k + i].dst /\ VertexAt(q, i) = q.steps[i].dst /\ i \in 1..j
        BY <2>2, SMTT(30) DEF VertexAt
      <3> QED
        BY <3>1, <1>6
    <2> QED
      BY <2>1, <2>2
  <1>12. \A h \in 1..k : \E a \in Arcs(g, r) : a.src = VertexAt(f, h - 1) /\ f.steps[h] = StepAlong(a)
    BY WalkSteps, SMTT(30)
  <1>13. \A h \in 1..j : \E a \in Arcs(g, r) : a.src = VertexAt(q, h - 1) /\ q.steps[h] = StepAlong(a)
    BY WalkSteps, SMTT(30)
  <1>9. ASSUME NEW i \in 1..(k + j)
        PROVE  \E a \in Arcs(g, r) : a.src = VertexAt(p, i - 1) /\ p.steps[i] = StepAlong(a)
    <2>1. CASE i <= k
      <3>1. i \in 1..k /\ i - 1 \in 0..k
        BY <2>1, SMTT(30)
      <3>3. p.steps[i] = f.steps[i] /\ VertexAt(p, i - 1) = VertexAt(f, i - 1)
        BY <3>1, <1>5, <1>7
      <3> QED
        BY <3>1, <1>12, <3>3
    <2>2. CASE i > k
      <3> DEFINE m == i - k
      <3>1. m \in 1..j /\ k + m = i /\ m - 1 \in 0..j /\ k + (m - 1) = i - 1
        BY <2>2, SMTT(30)
      <3> HIDE DEF m
      <3>3. p.steps[k + m] = q.steps[m] /\ VertexAt(p, k + (m - 1)) = VertexAt(q, m - 1)
        BY <3>1, <1>6, <1>8
      <3>4. p.steps[i] = q.steps[m] /\ VertexAt(p, i - 1) = VertexAt(q, m - 1)
        BY <3>1, <3>3
      <3> QED
        BY <3>1, <1>13, <3>4
    <2> QED
      BY <2>1, <2>2, SMTT(30)
  <1>10. p \in Walks(g, F, k + j, r)
    <2>1. k + j \in Nat /\ p.src \in F
      BY <1>1, <1>3, SMTT(30)
    <2> QED
      BY <2>1, <1>3, <1>4, <1>9, WalkIntro
  <1>11. EndOf(p) = EndOf(q)
    <2>1. EndOf(p) = VertexAt(p, k + j)
      BY <1>4 DEF EndOf
    <2> QED
      BY <2>1, <1>2, <1>8, SMTT(30)
  <1> QED
    BY <1>3, <1>5, <1>6, <1>10, <1>11 DEF p, IsJoin

\* What a walk of k + j steps does from step k on.
Suffix(p, k, j) == [src |-> VertexAt(p, k), steps |-> SubSeq(p.steps, k + 1, k + j)]

IsSuffixOf(q, p, k, j) ==
    /\ q.src = VertexAt(p, k)
    /\ EndOf(q) = EndOf(p)
    /\ \A x \in 1..j : q.steps[x] = p.steps[k + x]
    /\ \A x \in 0..j : VertexAt(q, x) = VertexAt(p, k + x)

\* The steps of a walk after the first k are a walk.
LEMMA SuffixWalk ==
    ASSUME NEW g, NEW F, NEW k \in Nat, NEW j \in Nat, NEW r, NEW p \in Walks(g, F, k + j, r),
           NEW G, VertexAt(p, k) \in G
    PROVE  Suffix(p, k, j) \in Walks(g, G, j, r) /\ IsSuffixOf(Suffix(p, k, j), p, k, j)
  <1> DEFINE q == Suffix(p, k, j)
  <1>0. k + j \in Nat
    BY SMTT(30)
  <1>1. p.steps \in [1..(k + j) -> StepsOf(g, r)] /\ EndOf(p) = VertexAt(p, k + j)
    BY <1>0, WalkType, WalkShape, SMTT(30)
  <1>2. \A i \in (k + 1)..(k + j) : p.steps[i] \in StepsOf(g, r)
    BY <1>1, SMTT(30)
  <1>3. /\ q.steps \in Seq(StepsOf(g, r))
        /\ Len(q.steps) = IF k + 1 <= k + j THEN (k + j) - (k + 1) + 1 ELSE 0
        /\ \A i \in 1..((k + j) - (k + 1) + 1) : q.steps[i] = p.steps[(k + 1) + i - 1]
    BY <1>2, SubSeqIs, SMTT(30) DEF Suffix
  <1>4. q.src = VertexAt(p, k) /\ q = [src |-> q.src, steps |-> q.steps]
    BY DEF Suffix
  <1>12. \A i \in 1..(k + j) : \E a \in Arcs(g, r) :
            a.src = VertexAt(p, i - 1) /\ p.steps[i] = StepAlong(a)
    BY <1>0, WalkSteps, SMTT(30)
  <1> HIDE DEF q
  <1>5. Len(q.steps) = j
    BY <1>3, SMTT(30)
  <1>6. ASSUME NEW i \in 1..j PROVE q.steps[i] = p.steps[k + i]
    <2>1. i \in 1..((k + j) - (k + 1) + 1) /\ (k + 1) + i - 1 = k + i
      BY SMTT(30)
    <2> QED
      BY <2>1, <1>3
  <1>7. ASSUME NEW i \in 0..j PROVE VertexAt(q, i) = VertexAt(p, k + i)
    <2>1. CASE i = 0
      BY <2>1, <1>4, SMTT(30) DEF VertexAt
    <2>2. CASE i # 0
      <3>1. VertexAt(p, k + i) = p.steps[k + i].dst /\ VertexAt(q, i) = q.steps[i].dst /\ i \in 1..j
        BY <2>2, SMTT(30) DEF VertexAt
      <3> QED
        BY <3>1, <1>6
    <2> QED
      BY <2>1, <2>2
  <1>8. ASSUME NEW i \in 1..j
        PROVE  \E a \in Arcs(g, r) : a.src = VertexAt(q, i - 1) /\ q.steps[i] = StepAlong(a)
    <2>1. k + i \in 1..(k + j) /\ (k + i) - 1 = k + (i - 1) /\ i - 1 \in 0..j
      BY SMTT(30)
    <2>2. PICK a \in Arcs(g, r) : a.src = VertexAt(p, (k + i) - 1) /\ p.steps[k + i] = StepAlong(a)
      BY <2>1, <1>12
    <2>3. VertexAt(q, i - 1) = VertexAt(p, (k + i) - 1) /\ q.steps[i] = p.steps[k + i]
      BY <2>1, <1>6, <1>7
    <2> QED
      BY <2>2, <2>3
  <1>9. q \in Walks(g, G, j, r)
    BY <1>3, <1>4, <1>5, <1>8, WalkIntro
  <1>10. EndOf(q) = EndOf(p)
    <2>1. EndOf(q) = VertexAt(q, j)
      BY <1>5 DEF EndOf
    <2> QED
      BY <2>1, <1>1, <1>7, SMTT(30)
  <1> QED
    BY <1>4, <1>6, <1>7, <1>9, <1>10 DEF q, IsSuffixOf

\* Two walks, one from each side, that meet make a walk.
Connects(p, f, b) == p.src = f.src /\ EndOf(p) = b.src

\* ConjunctPath: a forward walk and a reversed backward walk that meet are a walk.
LEMMA JoinWalk ==
    ASSUME NEW g, NEW F, NEW T, NEW k \in Nat, NEW j \in Nat,
           NEW f \in Walks(g, F, k, "forward"), NEW b \in Walks(g, T, j, "backward"),
           EndOf(f) = EndOf(b)
    PROVE  /\ AppendPath(f, ReversePath(b)) \in Walks(g, F, k + j, "forward")
           /\ Connects(AppendPath(f, ReversePath(b)), f, b)
           /\ b.src \in T
  <1> DEFINE q == ReversePath(b)
  <1>1. PICK G : EndOf(b) \in G
    <2>1. EndOf(b) \in {EndOf(b)}
      OBVIOUS
    <2> QED
      BY <2>1
  <1>2. q \in Walks(g, G, j, Opposite("backward")) /\ q.src = EndOf(b) /\ EndOf(q) = b.src
    <2>1. "backward" \in Sides
      BY DEF Sides
    <2> QED
      BY <1>1, <2>1, ReverseWalk, SMTT(30)
  <1>3. q \in Walks(g, G, j, "forward")
    BY <1>2, OppositeSide
  <1>4. b.src \in T
    BY WalkType
  <1> HIDE DEF q
  <1>5. /\ AppendPath(f, q) \in Walks(g, F, k + j, "forward")
        /\ AppendPath(f, q).src = f.src
        /\ EndOf(AppendPath(f, q)) = EndOf(q)
    <2>1. AppendPath(f, q) \in Walks(g, F, k + j, "forward") /\ IsJoin(AppendPath(f, q), f, k, q, j)
      BY <1>2, <1>3, AppendWalk
    <2> QED
      BY <2>1 DEF IsJoin
  <1> QED
    BY <1>2, <1>4, <1>5 DEF q, Connects

\* ... and every walk comes about in this way.
LEMMA SplitWalk ==
    ASSUME NEW g, NEW F, NEW T, NEW k \in Nat, NEW j \in Nat,
           NEW p \in Walks(g, F, k + j, "forward"), EndOf(p) \in T
    PROVE  LET f == Prefix(p, k)
               b == ReversePath(Suffix(p, k, j))
           IN  /\ f \in Walks(g, F, k, "forward")
               /\ b \in Walks(g, T, j, "backward")
               /\ p = AppendPath(f, ReversePath(b))
               /\ EndOf(f) = EndOf(b)
               /\ f.src = p.src
               /\ b.src = EndOf(p)
  <1> DEFINE f == Prefix(p, k)
             q == Suffix(p, k, j)
             b == ReversePath(q)
  <1>0. k + j \in Nat /\ k \in 0..(k + j) /\ "forward" \in Sides
    BY SMTT(30) DEF Sides
  <1>1. /\ f \in Walks(g, F, k, "forward") /\ f.src = p.src /\ EndOf(f) = VertexAt(p, k)
        /\ \A x \in 1..k : f.steps[x] = p.steps[x]
    <2>1. PICK n \in Nat : n = k + j
      BY <1>0
    <2>2. p \in Walks(g, F, n, "forward") /\ k \in 0..n
      BY <1>0, <2>1
    <2>3. f \in Walks(g, F, k, "forward") /\ IsPrefixOf(f, p, k)
      BY <2>2, PrefixWalk
    <2> HIDE DEF f
    <2> QED
      BY <2>3 DEF IsPrefixOf
  <1>2. PICK G : VertexAt(p, k) \in G
    <2>1. VertexAt(p, k) \in {VertexAt(p, k)}
      OBVIOUS
    <2> QED
      BY <2>1
  <1>3. /\ q \in Walks(g, G, j, "forward") /\ q.src = VertexAt(p, k) /\ EndOf(q) = EndOf(p)
        /\ \A x \in 1..j : q.steps[x] = p.steps[k + x]
    <2>1. q \in Walks(g, G, j, "forward") /\ IsSuffixOf(q, p, k, j)
      BY <1>2, SuffixWalk
    <2> HIDE DEF q
    <2> QED
      BY <2>1 DEF IsSuffixOf
  <1>4. /\ b \in Walks(g, T, j, Opposite("forward"))
        /\ b.src = EndOf(q) /\ EndOf(b) = q.src
    BY <1>0, <1>3, ReverseWalk, SMTT(30)
  <1>5. b \in Walks(g, T, j, "backward")
    BY <1>4, OppositeSide
  <1>6. ReversePath(b) = q
    BY <1>0, <1>3, ReverseTwice
  <1> HIDE DEF f, q
  <1>7. /\ AppendPath(f, q) \in Walks(g, F, k + j, "forward")
        /\ AppendPath(f, q).src = f.src
        /\ \A x \in 1..k : AppendPath(f, q).steps[x] = f.steps[x]
        /\ \A x \in 1..j : AppendPath(f, q).steps[k + x] = q.steps[x]
    <2>1. AppendPath(f, q) \in Walks(g, F, k + j, "forward") /\ IsJoin(AppendPath(f, q), f, k, q, j)
      BY <1>1, <1>3, AppendWalk
    <2> QED
      BY <2>1 DEF IsJoin
  <1>8. ASSUME NEW i \in 1..(k + j) PROVE p.steps[i] = AppendPath(f, q).steps[i]
    <2>1. CASE i <= k
      BY <2>1, <1>1, <1>7, SMTT(30)
    <2>2. CASE i > k
      <3>1. i - k \in 1..j /\ k + (i - k) = i
        BY <2>2, SMTT(30)
      <3>2. AppendPath(f, q).steps[k + (i - k)] = q.steps[i - k] /\ q.steps[i - k] = p.steps[k + (i - k)]
        BY <3>1, <1>3, <1>7
      <3> QED
        BY <3>1, <3>2
    <2> QED
      BY <2>1, <2>2, SMTT(30)
  <1>9. p = AppendPath(f, q)
    BY <1>0, <1>1, <1>7, <1>8, WalkEqual, SMTT(30)
  <1> QED
    BY <1>1, <1>3, <1>4, <1>5, <1>6, <1>9 DEF f, q

(***************************************************************************)
(* Trails: walks that repeat no edge.                                      *)
(***************************************************************************)
Distinct(p, n) == \A i, j \in 1..n : i < j => p.steps[i].edge # p.steps[j].edge

-----------------------------------------------------------------------------
(***************************************************************************)
(* FIND ALL PATH: trails, what findAllPaths joins, and the rounds of the   *)
(* plan.                                                                   *)
(***************************************************************************)
\* A trail is a walk all of whose edges are different.
LEMMA TrailDistinct ==
    ASSUME NEW g, NEW F, NEW n \in Nat, NEW r, NEW p
    PROVE  p \in Trails(g, F, n, r) <=> p \in Walks(g, F, n, r) /\ Distinct(p, n)
  <1>1. ASSUME p \in Walks(g, F, n, r) PROVE ~HasDuplicateEdges(p) <=> Distinct(p, n)
    <2>1. Len(p.steps) = n
      BY <1>1, WalkShape, SMTT(30)
    <2> QED
      BY <2>1 DEF HasDuplicateEdges, Distinct
  <1> QED
    BY <1>1 DEF Trails

\* The first k steps of a trail are a trail.
LEMMA PrefixTrail ==
    ASSUME NEW g, NEW F, NEW n \in Nat, NEW r, NEW p \in Trails(g, F, n, r), NEW k \in 0..n
    PROVE  Prefix(p, k) \in Trails(g, F, k, r)
  <1>1. p \in Walks(g, F, n, r) /\ Distinct(p, n)
    BY TrailDistinct
  <1>2. Prefix(p, k) \in Walks(g, F, k, r) /\ IsPrefixOf(Prefix(p, k), p, k)
    BY <1>1, PrefixWalk
  <1>3. k \in Nat /\ k <= n
    BY SMTT(30)
  <1>4. Distinct(Prefix(p, k), k)
    <2>1. \A i \in 1..k : Prefix(p, k).steps[i] = p.steps[i]
      BY <1>2 DEF IsPrefixOf
    <2> QED
      BY <2>1, <1>1, <1>3, SMTT(30) DEF Distinct
  <1> QED
    BY <1>2, <1>3, <1>4, TrailDistinct

\* The part of a trail from step k on, walked back.
LEMMA SuffixTrail ==
    ASSUME NEW g, NEW F, NEW T, NEW k \in Nat, NEW j \in Nat,
           NEW p \in Trails(g, F, k + j, "forward"), EndOf(p) \in T
    PROVE  ReversePath(Suffix(p, k, j)) \in Trails(g, T, j, "backward")
  <1> DEFINE q == Suffix(p, k, j)
             b == ReversePath(q)
  <1>1. p \in Walks(g, F, k + j, "forward") /\ Distinct(p, k + j)
    BY TrailDistinct, SMTT(30)
  <1>2. b \in Walks(g, T, j, "backward")
    BY <1>1, SplitWalk
  <1>3. PICK G : VertexAt(p, k) \in G
    <2>1. VertexAt(p, k) \in {VertexAt(p, k)}
      OBVIOUS
    <2> QED
      BY <2>1
  <1>4. q \in Walks(g, G, j, "forward") /\ IsSuffixOf(q, p, k, j)
    BY <1>1, <1>3, SuffixWalk
  <1>5. \A i \in 1..j : b.steps[i] = [dst |-> VertexAt(q, j - i),
                                    edge |-> q.steps[j + 1 - i].edge,
                                    sign |-> -q.steps[j + 1 - i].sign]
    <2>1. "forward" \in Sides
      BY DEF Sides
    <2> QED
      BY <1>4, <2>1, ReverseSteps, SMTT(30)
  <1>6. \A i \in 1..j : q.steps[i] = p.steps[k + i]
    BY <1>4 DEF IsSuffixOf
  <1> HIDE DEF q, b
  <1>7. ASSUME NEW i \in 1..j PROVE b.steps[i].edge = p.steps[k + (j + 1 - i)].edge
    <2>0. b.steps[i] = [dst |-> VertexAt(q, j - i), edge |-> q.steps[j + 1 - i].edge,
                        sign |-> -q.steps[j + 1 - i].sign]
      BY <1>5
    <2>1. b.steps[i].edge = q.steps[j + 1 - i].edge
      BY <2>0, SMTT(30)
    <2>2. j + 1 - i \in 1..j
      BY SMTT(30)
    <2> QED
      BY <2>1, <2>2, <1>6
  <1>8. ASSUME NEW x \in 1..j, NEW y \in 1..j, x < y
        PROVE  b.steps[x].edge # b.steps[y].edge
    <2>1. /\ k + (j + 1 - x) \in 1..(k + j) /\ k + (j + 1 - y) \in 1..(k + j)
          /\ k + (j + 1 - y) < k + (j + 1 - x)
      BY <1>8, SMTT(30)
    <2>2. p.steps[k + (j + 1 - y)].edge # p.steps[k + (j + 1 - x)].edge
      BY <2>1, <1>1 DEF Distinct
    <2> QED
      BY <2>2, <1>7
  <1>9. Distinct(b, j)
    BY <1>8 DEF Distinct
  <1> QED
    BY <1>2, <1>9, TrailDistinct DEF q, b

\* The trails without steps are the vertices themselves.
LEMMA FirstTrails ==
    ASSUME NEW g, NEW F, NEW r
    PROVE  /\ Trails(g, F, 0, r) = {PathOf(v) : v \in F}
           /\ {EndOf(p) : p \in Trails(g, F, 0, r)} = F
  <1>1. \A v : ~HasDuplicateEdges(PathOf(v)) /\ EndOf(PathOf(v)) = v
    BY NoElement, SMTT(30) DEF HasDuplicateEdges, PathOf, EndOf, VertexAt
  <1>2. Trails(g, F, 0, r) = {PathOf(v) : v \in F}
    BY <1>1, NoStep DEF Trails
  <1> QED
    BY <1>1, <1>2, SMTT(30)

\* A trail of n + 1 steps is a trail of n steps and an arc it has not followed.
LEMMA NextTrails ==
    ASSUME NEW g, NEW F, NEW n \in Nat, NEW r, NEW q
    PROVE  q \in Trails(g, F, n + 1, r) <=>
                /\ ~HasDuplicateEdges(q)
                /\ \E p \in Trails(g, F, n, r) : \E a \in Arcs(g, r) :
                        a.src = EndOf(p) /\ q = AddStep(p, a)
  <1>1. n + 1 \in Nat /\ n \in 0..(n + 1)
    BY SMTT(30)
  <1>2. ASSUME q \in Trails(g, F, n + 1, r)
        PROVE  /\ ~HasDuplicateEdges(q)
               /\ \E p \in Trails(g, F, n, r) : \E a \in Arcs(g, r) :
                        a.src = EndOf(p) /\ q = AddStep(p, a)
    <2>1. q \in Walks(g, F, n + 1, r) /\ ~HasDuplicateEdges(q)
      BY <1>2 DEF Trails
    <2>2. PICK a \in Arcs(g, r) : a.src = EndOf(Prefix(q, n)) /\ q = AddStep(Prefix(q, n), a)
      BY <2>1, Shorten, SMTT(30)
    <2>3. Prefix(q, n) \in Trails(g, F, n, r)
      BY <1>1, <1>2, PrefixTrail
    <2> QED
      BY <2>1, <2>2, <2>3
  <1>3. ASSUME ~HasDuplicateEdges(q), NEW p \in Trails(g, F, n, r), NEW a \in Arcs(g, r),
               a.src = EndOf(p), q = AddStep(p, a)
        PROVE  q \in Trails(g, F, n + 1, r)
    <2>1. p \in Walks(g, F, n, r)
      BY DEF Trails
    <2>2. AddStep(p, a) \in Walks(g, F, n + 1, r)
      BY <1>3, <2>1, Extend
    <2> QED
      BY <1>3, <2>2 DEF Trails
  <1> QED
    BY <1>2, <1>3

\* The rows of n steps that belong to the answer.
AllRows(n) ==
    {p \in Walks(graph, from, n, "forward") :
        /\ EndOf(p) \in to
        /\ p.src # EndOf(p)
        /\ ~HasDuplicateEdges(p)
        /\ noLoop => ~HasDuplicateVertices(p)}

\* findAllPaths joins the trails of k and of j steps to the rows of k + j steps.
LEMMA RowsFound ==
    ASSUME NEW k \in Nat, NEW j \in Nat
    PROVE  FindAllPaths(Trails(graph, from, k, "forward"), Trails(graph, to, j, "backward"))
                = AllRows(k + j)
  <1> DEFINE A == Trails(graph, from, k, "forward")
             B == Trails(graph, to, j, "backward")
  <1>1. ASSUME NEW p \in FindAllPaths(A, B) PROVE p \in AllRows(k + j)
    <2>1. p \in JoinPaths(A, B) /\ ~HasDuplicateEdges(p) /\ (noLoop => ~HasDuplicateVertices(p))
      BY DEF FindAllPaths
    <2>2. PICK f \in A, b \in B : /\ EndOf(b) = EndOf(f) /\ b.src # f.src
                                  /\ p = AppendPath(f, ReversePath(b))
      BY <2>1 DEF JoinPaths
    <2>3. f \in Walks(graph, from, k, "forward") /\ b \in Walks(graph, to, j, "backward")
      BY DEF Trails
    <2>4. /\ p \in Walks(graph, from, k + j, "forward") /\ p.src = f.src /\ EndOf(p) = b.src
          /\ b.src \in to
      <3>1. EndOf(f) = EndOf(b)
        BY <2>2
      <3>2. /\ AppendPath(f, ReversePath(b)) \in Walks(graph, from, k + j, "forward")
            /\ Connects(AppendPath(f, ReversePath(b)), f, b)
            /\ b.src \in to
        BY <2>3, <3>1, JoinWalk
      <3> QED
        BY <2>2, <3>2 DEF Connects
    <2> QED
      BY <2>1, <2>2, <2>4 DEF AllRows
  <1>2. ASSUME NEW p \in AllRows(k + j) PROVE p \in FindAllPaths(A, B)
    <2>1. /\ p \in Walks(graph, from, k + j, "forward") /\ EndOf(p) \in to /\ p.src # EndOf(p)
          /\ ~HasDuplicateEdges(p) /\ (noLoop => ~HasDuplicateVertices(p))
      BY DEF AllRows
    <2> DEFINE f == Prefix(p, k)
               b == ReversePath(Suffix(p, k, j))
    <2>2. /\ p = AppendPath(f, ReversePath(b)) /\ EndOf(f) = EndOf(b)
          /\ f.src = p.src /\ b.src = EndOf(p)
      BY <2>1, SplitWalk, SMTT(30)
    <2>3. p \in Trails(graph, from, k + j, "forward")
      BY <2>1 DEF Trails
    <2>4. f \in A
      <3>1. PICK n \in Nat : n = k + j
        BY SMTT(30)
      <3>2. p \in Trails(graph, from, n, "forward") /\ k \in 0..n
        BY <2>3, <3>1, SMTT(30)
      <3> QED
        BY <3>2, PrefixTrail
    <2>5. b \in B
      BY <2>1, <2>3, SuffixTrail
    <2> HIDE DEF f, b, A, B
    <2>6. p \in JoinPaths(A, B)
      BY <2>1, <2>2, <2>4, <2>5, SMTT(30) DEF JoinPaths
    <2> QED
      BY <2>1, <2>6 DEF FindAllPaths
  <1> QED
    BY <1>1, <1>2

\* What the counters of the plan say about each other.
AllRounds ==
    /\ stage \in {"loop", "body", "collect", "done"}
    /\ done \subseteq Sides
    /\ stage = "loop" => /\ loopSteps <= Rounds
                         /\ \A s \in Sides : count[s] = loopSteps
                         /\ count["conjunct"] = loopSteps
    /\ stage = "body" => /\ loopSteps \in 1..Rounds
                         /\ \A s \in Sides : count[s] = IF s \in done THEN loopSteps ELSE loopSteps - 1
                         /\ count["conjunct"] = loopSteps - 1
    /\ stage \in {"collect", "done"} => count["conjunct"] = Rounds

AllTypes ==
    /\ steps \in Nat /\ noLoop \in BOOLEAN
    /\ loopSteps \in Nat
    /\ count \in [Sides \cup {"conjunct"} -> Nat]
    /\ DOMAIN startVids = Sides /\ DOMAIN historyPaths = Sides /\ DOMAIN pathVar = Sides

\* All the trails of at most c steps from F: the versions, the history, the ends.
HasTrails(g, F, c, s, versions, paths, ends) ==
    /\ versions = [k \in 1..(c + 1) |-> Trails(g, F, k - 1, s)]
    /\ paths = UNION {Trails(g, F, k, s) : k \in 1..c}
    /\ ends = {EndOf(p) : p \in Trails(g, F, c, s)}

\* Each side has all the trails of its rounds.
AllSide(s) ==
    HasTrails(graph, Starts(s), count[s], s, pathVar[s], historyPaths[s], startVids[s])

\* Round k has found the rows of 2k - 1 and of 2k steps.
RowsOfRound(k) == AllRows(2 * k - 1) \cup (IF 2 * k <= steps THEN AllRows(2 * k) ELSE {})

AllOutput == output = [k \in 1..count["conjunct"] |-> RowsOfRound(k)]

AllInv ==
    /\ AllTypes
    /\ AllRounds
    /\ \A s \in Sides : AllSide(s)
    /\ AllOutput
    /\ answer = IF stage = "done" THEN UNION Range(output) ELSE {}

(***************************************************************************)
(* A round adds to a side exactly the trails that are one step longer.     *)
(***************************************************************************)
LEMMA InterimsFound ==
    ASSUME AllTypes, NEW s \in Sides, AllSide(s)
    PROVE  Interims(s) = Trails(graph, Starts(s), count[s] + 1, s)
  <1> DEFINE c == count[s]
             F == Starts(s)
             H == historyPaths[s]
             seen == {EndOf(p) : p \in H}
  <1>0. c \in Nat
    BY DEF AllTypes, Sides
  <1>1. H = UNION {Trails(graph, F, k, s) : k \in 1..c}
    BY DEF AllSide, HasTrails
  <1>2. startVids[s] = {EndOf(p) : p \in Trails(graph, F, c, s)}
    BY DEF AllSide, HasTrails
  <1>3. Interims(s) = UNION {IF a.src \in seen THEN BuildPaths(s, a) ELSE CreatePath(a) :
                                a \in GetNeighbors(graph, startVids[s], s)}
    BY DEF Interims
  <1>4. \A q : q \in Interims(s) <=>
            \E a \in Arcs(graph, s) : /\ a.src \in startVids[s]
                                      /\ IF a.src \in seen THEN q \in BuildPaths(s, a)
                                                           ELSE q \in CreatePath(a)
    BY <1>3 DEF GetNeighbors
  <1> HIDE DEF F, seen
  <1>5. CASE c = 0
    <2>1. seen = {} /\ startVids[s] = F
      <3>1. 1..c = {}
        BY <1>5, SMTT(30)
      <3>2. H = {}
        BY <1>1, <3>1
      <3> QED
        BY <1>2, <1>5, <3>2, FirstTrails, SMTT(30) DEF seen
    <2>2. ASSUME NEW a \in Arcs(graph, s)
          PROVE  a.src \in F => ~HasDuplicateEdges(AddStep(PathOf(a.src), a))
      <3>1. Len(AddStep(PathOf(a.src), a).steps) = 1
        BY SMTT(30) DEF AddStep, PathOf
      <3> QED
        BY <3>1, SMTT(30) DEF HasDuplicateEdges
    <2>3. \A v : EndOf(PathOf(v)) = v
      BY NoElement DEF PathOf, EndOf, VertexAt
    <2>4. ASSUME NEW q PROVE q \in Interims(s) <=> q \in Trails(graph, F, 0 + 1, s)
      <3>1. q \in Interims(s) <=> \E a \in Arcs(graph, s) : a.src \in F /\ q = AddStep(PathOf(a.src), a)
        BY <1>4, <2>1 DEF CreatePath
      <3>2. q \in Trails(graph, F, 0 + 1, s) <=>
                /\ ~HasDuplicateEdges(q)
                /\ \E p \in Trails(graph, F, 0, s) : \E a \in Arcs(graph, s) :
                        a.src = EndOf(p) /\ q = AddStep(p, a)
        <4>1. PICK z \in Nat : z = 0
          OBVIOUS
        <4>2. q \in Trails(graph, F, z + 1, s) <=>
                /\ ~HasDuplicateEdges(q)
                /\ \E p \in Trails(graph, F, z, s) : \E a \in Arcs(graph, s) :
                        a.src = EndOf(p) /\ q = AddStep(p, a)
          BY NextTrails, SMTT(30)
        <4> QED
          BY <4>1, <4>2
      <3>3. Trails(graph, F, 0, s) = {PathOf(v) : v \in F}
        BY FirstTrails, SMTT(30)
      <3>4. q \in Trails(graph, F, 0 + 1, s) <=>
                /\ ~HasDuplicateEdges(q)
                /\ \E a \in Arcs(graph, s) : a.src \in F /\ q = AddStep(PathOf(a.src), a)
        BY <3>2, <3>3, <2>3
      <3> QED
        BY <3>1, <3>4, <2>2
    <2> QED
      BY <2>4, <1>5 DEF F
  <1>6. CASE c # 0
    <2>1. c \in 1..c
      BY <1>0, <1>6, SMTT(30)
    <2>2. Trails(graph, F, c, s) \subseteq H
      BY <1>1, <2>1
    <2>3. startVids[s] \subseteq seen
      BY <1>2, <2>2 DEF seen
    <2>4. ASSUME NEW h PROVE h \in H /\ Len(h.steps) >= c <=> h \in Trails(graph, F, c, s)
      <3>1. ASSUME NEW k \in 1..c, h \in Trails(graph, F, k, s) PROVE Len(h.steps) = k
        <4>1. k \in Nat /\ h \in Walks(graph, F, k, s)
          BY <3>1, <1>0, SMTT(30) DEF Trails
        <4> QED
          BY <4>1, WalkShape, SMTT(30)
      <3>2. ASSUME h \in H, Len(h.steps) >= c PROVE h \in Trails(graph, F, c, s)
        <4>1. PICK k \in 1..c : h \in Trails(graph, F, k, s)
          BY <3>2, <1>1
        <4>2. Len(h.steps) = k
          BY <3>1, <4>1
        <4>3. k = c
          BY <3>2, <4>2, <1>0, SMTT(30)
        <4> QED
          BY <4>1, <4>3
      <3>3. ASSUME h \in Trails(graph, F, c, s) PROVE h \in H /\ Len(h.steps) >= c
        <4>1. Len(h.steps) = c
          BY <3>1, <3>3, <2>1
        <4> QED
          BY <4>1, <3>3, <2>2, <1>0, SMTT(30)
      <3> QED
        BY <3>2, <3>3
    <2>5. ASSUME NEW q, NEW a
          PROVE  q \in BuildPaths(s, a) <=>
                    /\ ~HasDuplicateEdges(q)
                    /\ \E h \in Trails(graph, F, c, s) : a.src = EndOf(h) /\ q = AddStep(h, a)
      BY <2>4 DEF BuildPaths
    <2>6. ASSUME NEW q PROVE q \in Interims(s) <=> q \in Trails(graph, F, c + 1, s)
      <3>1. q \in Interims(s) <=> \E a \in Arcs(graph, s) : a.src \in startVids[s] /\ q \in BuildPaths(s, a)
        BY <1>4, <2>3
      <3>2. q \in Interims(s) <=>
                \E a \in Arcs(graph, s) :
                    /\ a.src \in startVids[s]
                    /\ ~HasDuplicateEdges(q)
                    /\ \E h \in Trails(graph, F, c, s) : a.src = EndOf(h) /\ q = AddStep(h, a)
        BY <3>1, <2>5
      <3>3. q \in Interims(s) <=>
                /\ ~HasDuplicateEdges(q)
                /\ \E h \in Trails(graph, F, c, s) : \E a \in Arcs(graph, s) :
                        a.src = EndOf(h) /\ q = AddStep(h, a)
        BY <3>2, <1>2
      <3> QED
        BY <3>3, <1>0, NextTrails, SMTT(30)
    <2> QED
      BY <2>6 DEF F
  <1> QED
    BY <1>5, <1>6

\* The rounds are half of the steps, rounded up.
LEMMA RoundsNat ==
    ASSUME steps \in Nat
    PROVE  Rounds \in Nat /\ 2 * Rounds \in {steps, steps + 1}
    BY SMTT(30) DEF Rounds

\* A sequence of one element, as a function.
LEMMA OneFun ==
    ASSUME NEW x
    PROVE  << x >> = [k \in 1..1 |-> x]
    BY SMTT(30)

\* The ends of the trails without steps.
LEMMA FirstEnds ==
    ASSUME NEW g, NEW F, NEW r
    PROVE  {EndOf(p) : p \in Trails(g, F, 0, r)} = F
    BY FirstTrails, SMTT(30)

\* The plan of FIND ALL PATH starts with the starts.
LEMMA AllInit ==
    ASSUME NEW q, q.steps \in Nat, q.noLoop \in BOOLEAN, AllPairPaths(q)
    PROVE  AllInv
  <1> USE DEF AllPairPaths, Plan
  <1>1. AllTypes
    BY DEF AllTypes
  <1>2. AllRounds
    BY RoundsNat, <1>1, SMTT(30) DEF AllRounds, AllTypes, Sides
  <1>3. ASSUME NEW s \in Sides PROVE AllSide(s)
    <2>1. count[s] = 0 /\ pathVar[s] = << {PathOf(v) : v \in Starts(s)} >>
          /\ historyPaths[s] = {} /\ startVids[s] = Starts(s)
      BY DEF FirstPaths
    <2>2. Trails(graph, Starts(s), 0, s) = {PathOf(v) : v \in Starts(s)}
      BY FirstTrails, SMTT(30)
    <2>3. {EndOf(p) : p \in Trails(graph, Starts(s), 0, s)} = Starts(s)
      BY FirstEnds
    <2>4. pathVar[s] = [k \in 1..(0 + 1) |-> Trails(graph, Starts(s), k - 1, s)]
      <3>1. pathVar[s] = [k \in 1..1 |-> Trails(graph, Starts(s), 0, s)]
        BY <2>1, <2>2, OneFun
      <3>2. \A k \in 1..1 : k - 1 = 0
        BY SMTT(30)
      <3> QED
        BY <3>1, <3>2, SMTT(30)
    <2>5. UNION {Trails(graph, Starts(s), k, s) : k \in 1..0} = {}
      BY SMTT(30)
    <2> QED
      BY <2>1, <2>3, <2>4, <2>5 DEF AllSide, HasTrails
  <1>4. AllOutput
    BY SMTT(30) DEF AllOutput
  <1> QED
    BY <1>1, <1>2, <1>3, <1>4 DEF AllInv

\* A step that leaves a side and the query alone leaves its trails alone.
LEMMA AllSideKept ==
    ASSUME NEW s \in Sides, AllSide(s), UNCHANGED query,
           pathVar'[s] = pathVar[s], historyPaths'[s] = historyPaths[s],
           startVids'[s] = startVids[s], count'[s] = count[s]
    PROVE  AllSide(s)'
    BY DEF AllSide, query, Starts

\* A step that leaves the output alone.
LEMMA AllOutputKept ==
    ASSUME AllOutput, UNCHANGED query, UNCHANGED output, count'["conjunct"] = count["conjunct"]
    PROVE  AllOutput'
  <1>1. \A n : RowsOfRound(n)' = RowsOfRound(n)
    BY DEF RowsOfRound, AllRows, query
  <1> QED
    BY <1>1 DEF AllOutput, query

\* The loop condition only moves on.
LEMMA AllLoopStep ==
    ASSUME AllInv, AllLoop
    PROVE  AllInv'
  <1> USE DEF AllLoop, AllInv
  <1>1. AllTypes'
    BY SMTT(30) DEF AllTypes, query
  <1>2. AllRounds'
    BY RoundsNat, SMTT(30) DEF AllRounds, AllTypes, AllCondition, Rounds, query, Sides
  <1>3. \A s \in Sides : AllSide(s)'
    BY AllSideKept
  <1>4. AllOutput'
    BY AllOutputKept
  <1>5. answer' = IF stage' = "done" THEN UNION Range(output') ELSE {}
    OBVIOUS
  <1> QED
    BY <1>1, <1>2, <1>3, <1>4, <1>5

\* ProduceAllPaths adds the trails that are one step longer.
LEMMA AllProduceStep ==
    ASSUME AllInv, NEW side \in Sides, ProduceAllPaths(side)
    PROVE  AllInv'
  <1> USE DEF ProduceAllPaths, AllInv
  <1> DEFINE c == count[side]
             F == Starts(side)
  <1>0. c \in Nat /\ side # "conjunct"
    BY DEF AllTypes, Sides
  <1>1. AllTypes'
    BY SMTT(30) DEF AllTypes, query
  <1>2. AllRounds'
    <2>1. /\ count'[side] = count[side] + 1
          /\ \A s \in Sides : s # side => count'[s] = count[s]
          /\ count'["conjunct"] = count["conjunct"]
      BY <1>0 DEF AllTypes
    <2>2. Rounds' = Rounds
      BY DEF Rounds, query
    <2>3. loopSteps \in Nat
      BY DEF AllTypes
    <2> QED
      BY <2>1, <2>2, <2>3, SMTT(30) DEF AllRounds
  <1>3. ASSUME NEW s \in Sides PROVE AllSide(s)'
    <2>1. CASE s # side
      <3>1. /\ pathVar'[s] = pathVar[s] /\ historyPaths'[s] = historyPaths[s]
            /\ startVids'[s] = startVids[s] /\ count'[s] = count[s]
        BY <2>1 DEF AllTypes
      <3> QED
        BY <3>1, AllSideKept
    <2>2. CASE s = side
      <3>1. AllTypes /\ AllSide(side)
        OBVIOUS
      <3>2. Interims(side) = Trails(graph, F, c + 1, side)
        BY <3>1, InterimsFound
      <3>3. /\ pathVar'[side] = Append(pathVar[side], Interims(side))
            /\ historyPaths'[side] = historyPaths[side] \cup Interims(side)
            /\ startVids'[side] = {EndOf(p) : p \in Interims(side)}
            /\ count'[side] = c + 1
        BY DEF AllTypes
      <3>4. F' = F /\ graph' = graph
        BY DEF Starts, query
      <3>5. historyPaths'[side] = UNION {Trails(graph, F, k, side) : k \in 1..(c + 1)}
        <4>1. historyPaths[side] = UNION {Trails(graph, F, k, side) : k \in 1..c}
          BY <3>1 DEF AllSide, HasTrails
        <4>2. 1..(c + 1) = (1..c) \cup {c + 1}
          BY <1>0, SMTT(30)
        <4> QED
          BY <3>2, <3>3, <4>1, <4>2, SMTT(30)
      <3>6. pathVar'[side] = [k \in 1..((c + 1) + 1) |-> Trails(graph, F, k - 1, side)]
        <4> DEFINE h == pathVar[side]
        <4>1. h = [k \in 1..(c + 1) |-> Trails(graph, F, k - 1, side)]
          BY <3>1 DEF AllSide, HasTrails
        <4>2. c + 1 \in Nat /\ (c + 2) - 1 = c + 1 /\ (c + 1) + 1 = c + 2
          BY <1>0, SMTT(30)
        <4>3. h = [k \in 1..(c + 1) |-> h[k]]
          BY <4>1
        <4>4. PICK n \in Nat : n = c + 1
          BY <4>2
        <4> HIDE DEF h, c, F
        <4>5. Append(h, Trails(graph, F, n, side)) =
                [k \in 1..(n + 1) |-> IF k <= n THEN h[k] ELSE Trails(graph, F, n, side)]
          BY <4>3, <4>4, AppendFun, SMTT(30)
        <4>6. \A k \in 1..(n + 1) : (IF k <= n THEN h[k] ELSE Trails(graph, F, n, side))
                                      = Trails(graph, F, k - 1, side)
          <5> TAKE k \in 1..(n + 1)
          <5>1. CASE k <= n
            BY <5>1, <4>1, <4>4, SMTT(30)
          <5>2. CASE ~(k <= n)
            <6>1. k - 1 = n
              BY <5>2, SMTT(30)
            <6> QED
              BY <5>2, <6>1
          <5> QED
            BY <5>1, <5>2
        <4>7. Append(h, Trails(graph, F, n, side)) = [k \in 1..(n + 1) |-> Trails(graph, F, k - 1, side)]
          BY <4>5, <4>6
        <4> QED
          BY <4>7, <4>4, <3>2, <3>3 DEF h
      <3>7. Starts(side)' = F /\ count'[side] = c + 1
        BY <3>3, <3>4
      <3>8. startVids'[side] = {EndOf(p) : p \in Trails(graph, F, c + 1, side)}
        BY <3>2, <3>3
      <3> HIDE DEF F, c
      <3>9. HasTrails(graph, F, c + 1, side, pathVar'[side], historyPaths'[side], startVids'[side])
        BY <3>5, <3>6, <3>8 DEF HasTrails
      <3>10. AllSide(side)'
        BY <3>4, <3>7, <3>9 DEF AllSide
      <3> QED
        BY <2>2, <3>10
    <2> QED
      BY <2>1, <2>2
  <1>4. AllOutput'
    <2>1. count'["conjunct"] = count["conjunct"]
      BY <1>0 DEF AllTypes
    <2> QED
      BY <2>1, AllOutputKept
  <1>5. answer' = IF stage' = "done" THEN UNION Range(output') ELSE {}
    OBVIOUS
  <1> QED
    BY <1>1, <1>2, <1>3, <1>4, <1>5

\* ConjunctPath adds the rows of two lengths.
LEMMA AllConjunctStep ==
    ASSUME AllInv, AllConjunct
    PROVE  AllInv'
  <1> DEFINE n == count["conjunct"] + 1
             fHist == pathVar["forward"]
             rHist == pathVar["backward"]
  <1>0. /\ count["conjunct"] \in Nat /\ n \in Nat /\ n >= 1 /\ n <= Rounds /\ loopSteps = n
        /\ count["forward"] = n /\ count["backward"] = n
    BY RoundsNat, SMTT(30) DEF AllInv, AllTypes, AllRounds, AllConjunct, Sides
  <1>1. /\ fHist = [k \in 1..(n + 1) |-> Trails(graph, from, k - 1, "forward")]
        /\ rHist = [k \in 1..(n + 1) |-> Trails(graph, to, k - 1, "backward")]
    BY <1>0 DEF AllInv, AllSide, HasTrails, Starts, Sides
  <1>2. Len(fHist) = n + 1 /\ Len(rHist) = n + 1
    <2>1. n + 1 \in Nat
      BY <1>0, SMTT(30)
    <2>2. PICK m \in Nat : m = n + 1
      BY <2>1
    <2>3. fHist = [k \in 1..m |-> fHist[k]] /\ rHist = [k \in 1..m |-> rHist[k]]
      BY <1>1, <2>2
    <2> HIDE DEF fHist, rHist, n
    <2>4. Len(fHist) = m
      BY <2>3, SeqFun
    <2>5. Len(rHist) = m
      BY <2>3, SeqFun
    <2> QED
      BY <2>2, <2>4, <2>5
  <1>3. Latest(fHist) = Trails(graph, from, n, "forward")
    <2>1. n + 1 \in 1..(n + 1) /\ (n + 1) - 1 = n
      BY <1>0, SMTT(30)
    <2> HIDE DEF n, fHist, rHist
    <2> QED
      BY <1>1, <1>2, <2>1 DEF Latest
  <1>4. Latest(rHist) = Trails(graph, to, n, "backward")
    <2>1. n + 1 \in 1..(n + 1) /\ (n + 1) - 1 = n
      BY <1>0, SMTT(30)
    <2> HIDE DEF n, fHist, rHist
    <2> QED
      BY <1>1, <1>2, <2>1 DEF Latest
  <1>5. Previous(rHist) = Trails(graph, to, n - 1, "backward")
    <2>1. n \in 1..(n + 1) /\ (n + 1) - 1 = n
      BY <1>0, SMTT(30)
    <2> HIDE DEF n, fHist, rHist
    <2> QED
      BY <1>1, <1>2, <2>1 DEF Previous
  <1>6. FindAllPaths(Latest(fHist), Previous(rHist)) = AllRows(2 * n - 1)
    <2>1. PICK j \in Nat : j = n - 1
      BY <1>0, SMTT(30)
    <2>2. FindAllPaths(Trails(graph, from, n, "forward"), Trails(graph, to, j, "backward")) = AllRows(n + j)
      BY <1>0, RowsFound DEF AllInv, AllTypes
    <2>3. n + j = 2 * n - 1
      BY <1>0, <2>1, SMTT(30)
    <2> HIDE DEF n, fHist, rHist
    <2> QED
      BY <1>3, <1>5, <2>1, <2>2, <2>3
  <1>7. FindAllPaths(Latest(fHist), Latest(rHist)) = AllRows(2 * n)
    <2>2. FindAllPaths(Trails(graph, from, n, "forward"), Trails(graph, to, n, "backward")) = AllRows(n + n)
      BY <1>0, RowsFound DEF AllInv, AllTypes
    <2>3. n + n = 2 * n
      BY <1>0, SMTT(30)
    <2> HIDE DEF n, fHist, rHist
    <2> QED
      BY <1>3, <1>4, <2>2, <2>3
  <1>8. output' = Append(output, RowsOfRound(n))
    <2>1. output' = Append(output,
                (IF Len(rHist) >= 2 THEN FindAllPaths(Latest(fHist), Previous(rHist)) ELSE {})
                \cup (IF n * 2 <= steps THEN FindAllPaths(Latest(fHist), Latest(rHist)) ELSE {}))
      BY DEF AllConjunct
    <2>2. Len(rHist) >= 2 /\ n * 2 = 2 * n
      BY <1>0, <1>2, SMTT(30)
    <2> HIDE DEF n, fHist, rHist
    <2> QED
      BY <2>1, <2>2, <1>6, <1>7 DEF RowsOfRound
  <1>9. AllTypes'
    BY SMTT(30) DEF AllInv, AllTypes, AllConjunct, query
  <1>10. /\ \A s \in Sides : count'[s] = count[s]
         /\ count'["conjunct"] = n
    BY DEF AllInv, AllTypes, AllConjunct, Sides
  <1>11. AllRounds'
    <2>1. Rounds' = Rounds /\ stage' = "loop" /\ done' = Sides /\ loopSteps' = loopSteps
      BY DEF Rounds, query, AllInv, AllConjunct
    <2> QED
      BY <1>0, <1>10, <2>1 DEF AllRounds, Sides
  <1>12. \A s \in Sides : AllSide(s)'
    BY <1>10, AllSideKept DEF AllConjunct, AllInv
  <1>13. AllOutput'
    <2>1. \A m : RowsOfRound(m)' = RowsOfRound(m)
      BY DEF RowsOfRound, AllRows, AllConjunct, query
    <2>2. PICK c \in Nat : c = count["conjunct"]
      BY <1>0
    <2>3. output = [k \in 1..c |-> RowsOfRound(k)]
      BY <2>2 DEF AllInv, AllOutput
    <2>4. output = [k \in 1..c |-> output[k]]
      BY <2>3
    <2>5. PICK x : x = RowsOfRound(n)
      OBVIOUS
    <2>6. Append(output, x) = [k \in 1..(c + 1) |-> IF k <= c THEN output[k] ELSE x]
      BY <2>4, AppendFun, SMTT(30)
    <2>7. \A k \in 1..(c + 1) : (IF k <= c THEN output[k] ELSE x) = RowsOfRound(k)
      <3> TAKE k \in 1..(c + 1)
      <3>1. CASE k <= c
        BY <3>1, <2>3, SMTT(30)
      <3>2. CASE ~(k <= c)
        <4>1. k = c + 1
          BY <3>2, SMTT(30)
        <4> QED
          BY <3>2, <4>1, <2>2, <2>5
      <3> QED
        BY <3>1, <3>2
    <2>8. output' = [k \in 1..(c + 1) |-> RowsOfRound(k)]
      BY <1>8, <2>5, <2>6, <2>7
    <2>9. count'["conjunct"] = c + 1
      BY <1>10, <2>2
    <2> QED
      BY <2>1, <2>8, <2>9 DEF AllOutput
  <1>14. answer' = IF stage' = "done" THEN UNION Range(output') ELSE {}
    BY DEF AllInv, AllConjunct
  <1> QED
    BY <1>9, <1>11, <1>12, <1>13, <1>14 DEF AllInv

\* DataCollect takes the rows of all rounds.
LEMMA AllCollectStep ==
    ASSUME AllInv, AllCollect
    PROVE  AllInv'
  <1> USE DEF AllCollect, AllInv
  <1>1. AllTypes'
    BY DEF AllTypes, query
  <1>2. AllRounds'
    BY DEF AllRounds, Rounds, query
  <1>3. \A s \in Sides : AllSide(s)'
    BY AllSideKept
  <1>4. AllOutput'
    BY AllOutputKept
  <1> QED
    BY <1>1, <1>2, <1>3, <1>4

\* Every step of FIND ALL PATH keeps the invariant.
LEMMA AllStep ==
    ASSUME AllInv, AllNext
    PROVE  AllInv'
    BY AllLoopStep, AllProduceStep, AllConjunctStep, AllCollectStep DEF AllNext

\* The versions of a side are its trails.
LEMMA AllLevelsHold ==
    ASSUME AllInv
    PROVE  AllLevels
  <1> SUFFICES ASSUME NEW s \in Sides, NEW k \in 0..(Len(pathVar[s]) - 1)
               PROVE  pathVar[s][k + 1] = Trails(graph, Starts(s), k, s)
    BY DEF AllLevels
  <1> DEFINE h == pathVar[s]
  <1>1. count[s] \in Nat
    BY DEF AllInv, AllTypes, Sides
  <1>2. PICK n \in Nat : n = count[s] + 1
    BY <1>1, SMTT(30)
  <1>3. h = [x \in 1..n |-> Trails(graph, Starts(s), x - 1, s)]
    BY <1>2 DEF AllInv, AllSide, HasTrails
  <1>4. h = [x \in 1..n |-> h[x]]
    BY <1>3
  <1> HIDE DEF h
  <1>5. Len(h) = n
    BY <1>4, SeqFun
  <1>6. k + 1 \in 1..n /\ (k + 1) - 1 = k
    BY <1>5, SMTT(30) DEF h
  <1> QED
    BY <1>3, <1>6 DEF h

\* RowsOfRound, written out.
LEMMA RowOfRound ==
    ASSUME NEW k \in Nat, k >= 1, NEW p
    PROVE  p \in RowsOfRound(k) <=>
                \/ p \in AllRows(2 * k - 1)
                \/ 2 * k <= steps /\ p \in AllRows(2 * k)
    BY DEF RowsOfRound

\* A row of n steps has n steps.
LEMMA RowLength ==
    ASSUME NEW n \in Nat, NEW p \in AllRows(n)
    PROVE  Len(p.steps) = n
  <1>1. p \in Walks(graph, from, n, "forward")
    BY DEF AllRows
  <1> QED
    BY <1>1, WalkShape

\* Rows of different rounds have different lengths.
LEMMA AllOnceHolds ==
    ASSUME AllInv
    PROVE  AllOnce
  <1> DEFINE c == count["conjunct"]
  <1>1. c \in Nat /\ output = [k \in 1..c |-> RowsOfRound(k)]
    BY DEF AllInv, AllTypes, AllOutput
  <1> HIDE DEF c
  <1>2. ASSUME NEW k \in 1..c, NEW p \in output[k]
        PROVE  Len(p.steps) \in {2 * k - 1, 2 * k}
    <2>1. p \in RowsOfRound(k) /\ k \in Nat /\ k >= 1
      BY <1>1, <1>2, SMTT(30)
    <2>2. \/ p \in AllRows(2 * k - 1)
          \/ 2 * k <= steps /\ p \in AllRows(2 * k)
      BY <2>1, RowOfRound
    <2>3. 2 * k - 1 \in Nat /\ 2 * k \in Nat
      BY <2>1, SMTT(30)
    <2>4. PICK m \in Nat, n \in Nat : m = 2 * k - 1 /\ n = 2 * k
      BY <2>3
    <2>5. p \in AllRows(m) \/ p \in AllRows(n)
      BY <2>2, <2>4
    <2> QED
      BY <2>4, <2>5, RowLength
  <1>3. ASSUME NEW i \in 1..c, NEW j \in 1..c, i # j PROVE output[i] \cap output[j] = {}
    <2>1. SUFFICES ASSUME NEW p \in output[i], p \in output[j] PROVE FALSE
      OBVIOUS
    <2>2. Len(p.steps) \in {2 * i - 1, 2 * i} /\ Len(p.steps) \in {2 * j - 1, 2 * j}
      BY <1>2, <2>1
    <2> QED
      BY <1>1, <1>3, <2>2, SMTT(30)
  <1>4. DOMAIN output = 1..c
    BY <1>1
  <1> QED
    BY <1>3, <1>4 DEF AllOnce

\* The rounds cover all lengths up to the bound, and no other.
LEMMA RoundsCover ==
    ASSUME steps \in Nat, NEW p
    PROVE  (\E k \in 1..Rounds : p \in RowsOfRound(k)) <=> (\E n \in 1..steps : p \in AllRows(n))
  <1>0. Rounds \in Nat /\ 2 * Rounds \in {steps, steps + 1}
    BY RoundsNat
  <1>1. ASSUME NEW k \in 1..Rounds, p \in RowsOfRound(k) PROVE \E n \in 1..steps : p \in AllRows(n)
    <2>1. k \in Nat /\ k >= 1 /\ 2 * k - 1 \in 1..steps
      BY <1>0, SMTT(30)
    <2>2. p \in AllRows(2 * k - 1) \/ (2 * k <= steps /\ p \in AllRows(2 * k))
      BY <1>1, <2>1, RowOfRound
    <2>3. CASE p \in AllRows(2 * k - 1)
      BY <2>1, <2>3
    <2>4. CASE 2 * k <= steps /\ p \in AllRows(2 * k)
      <3>1. 2 * k \in 1..steps
        BY <2>1, <2>4, SMTT(30)
      <3> QED
        BY <3>1, <2>4
    <2> QED
      BY <2>2, <2>3, <2>4
  <1>2. ASSUME NEW n \in 1..steps, p \in AllRows(n) PROVE \E k \in 1..Rounds : p \in RowsOfRound(k)
    <2>1. PICK k \in Nat : n = 2 * k - 1 \/ n = 2 * k
      <3>1. CASE n % 2 = 0
        <4>1. (n \div 2) \in Nat /\ n = 2 * (n \div 2)
          BY <3>1, SMTT(30)
        <4> QED
          BY <4>1
      <3>2. CASE n % 2 # 0
        <4>1. ((n + 1) \div 2) \in Nat /\ n = 2 * ((n + 1) \div 2) - 1
          BY <3>2, SMTT(30)
        <4> QED
          BY <4>1
      <3> QED
        BY <3>1, <3>2
    <2>2. k >= 1 /\ k \in 1..Rounds
      BY <1>0, <2>1, SMTT(30)
    <2>3. CASE n = 2 * k - 1
      BY <1>2, <2>2, <2>3, RowOfRound
    <2>4. CASE n = 2 * k
      <3>1. 2 * k <= steps /\ p \in AllRows(2 * k)
        BY <1>2, <2>4, SMTT(30)
      <3> QED
        BY <2>2, <3>1, RowOfRound
    <2> QED
      BY <2>1, <2>3, <2>4
  <1> QED
    BY <1>1, <1>2

\* The answer is every trail within the bound.
LEMMA AllAnswerHolds ==
    ASSUME AllInv
    PROVE  AllAnswer
  <1> SUFFICES ASSUME stage = "done"
               PROVE  answer = {p \in WalksBetween(graph, from, to, steps) :
                                    /\ p.src # EndOf(p)
                                    /\ ~HasDuplicateEdges(p)
                                    /\ noLoop => ~HasDuplicateVertices(p)}
    BY DEF AllAnswer
  <1>1. steps \in Nat /\ count["conjunct"] = Rounds /\ answer = UNION Range(output)
    BY DEF AllInv, AllTypes, AllRounds
  <1>2. output = [k \in 1..Rounds |-> RowsOfRound(k)]
    BY <1>1 DEF AllInv, AllOutput
  <1>3. ASSUME NEW p
        PROVE  p \in answer <=> \E n \in 1..steps : p \in AllRows(n)
    <2>1. p \in answer <=> \E k \in 1..Rounds : p \in RowsOfRound(k)
      BY <1>1, <1>2 DEF Range
    <2> QED
      BY <1>1, <2>1, RoundsCover
  <1>4. ASSUME NEW p
        PROVE  (\E n \in 1..steps : p \in AllRows(n)) <=>
                    /\ p \in WalksBetween(graph, from, to, steps)
                    /\ p.src # EndOf(p)
                    /\ ~HasDuplicateEdges(p)
                    /\ noLoop => ~HasDuplicateVertices(p)
    BY DEF AllRows, WalksBetween
  <1> QED
    BY <1>3, <1>4

\* Every row of the answer is a path within the bound.
LEMMA AllSound ==
    ASSUME AllInv, NEW p \in answer
    PROVE  /\ IsWalkBetween(p, graph, from, to, steps)
           /\ noLoop => ~HasDuplicateVertices(p)
  <1>1. stage = "done"
    BY DEF AllInv
  <1>2. p \in WalksBetween(graph, from, to, steps) /\ (noLoop => ~HasDuplicateVertices(p))
    BY <1>1, AllAnswerHolds DEF AllAnswer
  <1> QED
    BY <1>2 DEF WalksBetween, IsWalkBetween

-----------------------------------------------------------------------------
(***************************************************************************)
(* FIND SHORTEST PATH between two vertices: the levels of BFSShortestPath, *)
(* the rows that findBfsShortestPath makes of them, and the rounds of the  *)
(* plan.                                                                   *)
(***************************************************************************)
\* Ball, written out.
LEMMA InBall ==
    ASSUME NEW g, NEW F, NEW n \in Nat, NEW r, NEW v
    PROVE  v \in Ball(g, F, n, r) <=> \E k \in 0..n : \E p \in Walks(g, F, k, r) : EndOf(p) = v
    BY DEF Ball

\* In no steps only the starts are reached.
LEMMA BallFirst ==
    ASSUME NEW g, NEW F, NEW r
    PROVE  Ball(g, F, 0, r) = F
  <1>1. \A v : EndOf(PathOf(v)) = v
    BY NoElement DEF PathOf, EndOf, VertexAt
  <1>2. Walks(g, F, 0, r) = {PathOf(v) : v \in F}
    BY NoStep
  <1>3. 0..0 = {0}
    BY SMTT(30)
  <1>4. UNION {Walks(g, F, k, r) : k \in 0..0} = {PathOf(v) : v \in F}
    BY <1>2, <1>3
  <1> QED
    BY <1>1, <1>4, SMTT(30) DEF Ball

\* What n + 1 steps reach: what n steps reach, and where the arcs from there lead.
LEMMA BallNext ==
    ASSUME NEW g, NEW F, NEW n \in Nat, NEW r, NEW v
    PROVE  v \in Ball(g, F, n + 1, r) <=>
                \/ v \in Ball(g, F, n, r)
                \/ \E a \in Arcs(g, r) : a.src \in Ball(g, F, n, r) /\ a.dst = v
  <1>0. n + 1 \in Nat
    BY SMTT(30)
  <1>1. \A w : w \in Ball(g, F, n, r) <=> \E k \in 0..n : \E p \in Walks(g, F, k, r) : EndOf(p) = w
    BY InBall, SMTT(30)
  <1>2. \A w : w \in Ball(g, F, n + 1, r) <=> \E k \in 0..(n + 1) : \E p \in Walks(g, F, k, r) : EndOf(p) = w
    BY <1>0, InBall, SMTT(30)
  <1>3. ASSUME v \in Ball(g, F, n, r) PROVE v \in Ball(g, F, n + 1, r)
    <2>1. 0..n \subseteq 0..(n + 1)
      BY SMTT(30)
    <2> QED
      BY <1>1, <1>2, <1>3, <2>1
  <1>4. ASSUME NEW a \in Arcs(g, r), a.src \in Ball(g, F, n, r), a.dst = v
        PROVE  v \in Ball(g, F, n + 1, r)
    <2>1. PICK k \in 0..n : \E p \in Walks(g, F, k, r) : EndOf(p) = a.src
      BY <1>1, <1>4
    <2>2. PICK p \in Walks(g, F, k, r) : EndOf(p) = a.src
      BY <2>1
    <2>3. k \in Nat /\ k + 1 \in 0..(n + 1)
      BY SMTT(30)
    <2>4. AddStep(p, a) \in Walks(g, F, k + 1, r) /\ IsExtension(AddStep(p, a), p, k, a)
      BY <2>2, <2>3, Extend
    <2>5. EndOf(AddStep(p, a)) = v
      BY <2>4, <1>4 DEF IsExtension
    <2> QED
      BY <1>2, <2>3, <2>4, <2>5
  <1>5. ASSUME v \in Ball(g, F, n + 1, r), v \notin Ball(g, F, n, r)
        PROVE  \E a \in Arcs(g, r) : a.src \in Ball(g, F, n, r) /\ a.dst = v
    <2>1. PICK k \in 0..(n + 1) : \E p \in Walks(g, F, k, r) : EndOf(p) = v
      BY <1>2, <1>5
    <2>2. k = n + 1
      BY <1>1, <1>5, <2>1, SMTT(30)
    <2>3. PICK p \in Walks(g, F, n + 1, r) : EndOf(p) = v
      BY <2>1, <2>2
    <2>4. PICK a \in Arcs(g, r) : a.src = EndOf(Prefix(p, n)) /\ EndOf(p) = a.dst
      BY Shorten, SMTT(30)
    <2>5. n \in 0..(n + 1)
      BY SMTT(30)
    <2>6. Prefix(p, n) \in Walks(g, F, n, r)
      BY <1>0, <2>5, PrefixWalk
    <2>7. n \in 0..n
      BY SMTT(30)
    <2>8. a.src \in Ball(g, F, n, r)
      BY <1>1, <2>4, <2>6, <2>7
    <2> QED
      BY <2>3, <2>4, <2>8
  <1> QED
    BY <1>3, <1>4, <1>5

\* More steps reach more.
LEMMA BallGrows ==
    ASSUME NEW g, NEW F, NEW n \in Nat, NEW m \in Nat, m <= n, NEW r
    PROVE  Ball(g, F, m, r) \subseteq Ball(g, F, n, r)
  <1>1. 0..m \subseteq 0..n
    BY SMTT(30)
  <1> QED
    BY <1>1 DEF Ball

(***************************************************************************)
(* The vertices of a walk that no walk to the same vertex is shorter than: *)
(* each is new in its level.                                               *)
(***************************************************************************)
LEMMA NewInLevel ==
    ASSUME NEW g, NEW F, NEW n \in Nat, NEW r, NEW w \in Walks(g, F, n, r),
           \A k \in 0..(n - 1) : \A p \in Walks(g, F, k, r) : EndOf(p) # EndOf(w)
    PROVE  \A i \in 1..n : /\ VertexAt(w, i - 1) \in Ball(g, F, i - 1, r)
                           /\ VertexAt(w, i) \notin Ball(g, F, i - 1, r)
  <1> TAKE i \in 1..n
  <1>0. PICK m \in Nat, j \in Nat : m = i - 1 /\ j = n - i
    <2>1. i - 1 \in Nat /\ n - i \in Nat
      BY SMTT(30)
    <2> QED
      BY <2>1
  <1>1. VertexAt(w, i - 1) \in Ball(g, F, i - 1, r)
    <2>1. m \in 0..n
      BY <1>0, SMTT(30)
    <2>2. Prefix(w, m) \in Walks(g, F, m, r) /\ IsPrefixOf(Prefix(w, m), w, m)
      BY <2>1, PrefixWalk
    <2>3. EndOf(Prefix(w, m)) = VertexAt(w, m) /\ m \in 0..m
      BY <2>2, SMTT(30) DEF IsPrefixOf
    <2>4. VertexAt(w, m) \in Ball(g, F, m, r)
      BY <2>2, <2>3, InBall, SMTT(30)
    <2> QED
      BY <1>0, <2>4
  <1>2. VertexAt(w, i) \notin Ball(g, F, i - 1, r)
    <2>1. SUFFICES ASSUME VertexAt(w, i) \in Ball(g, F, m, r) PROVE FALSE
      BY <1>0
    <2>2. PICK k \in 0..m : \E p \in Walks(g, F, k, r) : EndOf(p) = VertexAt(w, i)
      BY <2>1, InBall, SMTT(30)
    <2>3. PICK p \in Walks(g, F, k, r) : EndOf(p) = VertexAt(w, i)
      BY <2>2
    <2>4. PICK G : VertexAt(w, i) \in G
      <3>1. VertexAt(w, i) \in {VertexAt(w, i)}
        OBVIOUS
      <3> QED
        BY <3>1
    <2>5. i \in Nat /\ i + j = n /\ k \in Nat
      BY <1>0, SMTT(30)
    <2>6. Suffix(w, i, j) \in Walks(g, G, j, r) /\ IsSuffixOf(Suffix(w, i, j), w, i, j)
      <3>1. w \in Walks(g, F, i + j, r)
        BY <2>5
      <3> QED
        BY <3>1, <2>4, <2>5, SuffixWalk
    <2> DEFINE q == Suffix(w, i, j)
    <2>7. q.src = EndOf(p) /\ EndOf(q) = EndOf(w)
      BY <2>3, <2>6 DEF IsSuffixOf
    <2> HIDE DEF q
    <2>8. AppendPath(p, q) \in Walks(g, F, k + j, r) /\ IsJoin(AppendPath(p, q), p, k, q, j)
      BY <2>5, <2>6, <2>7, AppendWalk DEF q
    <2>9. EndOf(AppendPath(p, q)) = EndOf(w)
      BY <2>7, <2>8 DEF IsJoin
    <2>10. k + j \in 0..(n - 1)
      BY <1>0, <2>5, SMTT(30)
    <2> QED
      BY <2>8, <2>9, <2>10
  <1> QED
    BY <1>1, <1>2

\* Level k of the side r: the arcs that lead out of the vertices within k - 1 steps
\* of x, and perhaps arcs that lead back to x.
IsLevel(g, x, r, k, L) ==
    /\ L \subseteq GetNeighbors(g, Ball(g, {x}, k - 1, r), r)
    /\ {a \in L : a.dst # x} = {a \in GetNeighbors(g, Ball(g, {x}, k - 1, r), r) :
                                    a.dst \notin Ball(g, {x}, k - 1, r)}

FirstRow(x) == [src |-> x, dst |-> x, edge |-> NoEdge, sign |-> 1]

\* What a side has after c rounds.
HasLevels(g, x, r, c, versions, seen, starts) ==
    /\ versions = [k \in 1..(c + 1) |-> versions[k]]
    /\ versions[1] = {FirstRow(x)}
    /\ \A k \in 1..c : IsLevel(g, x, r, k, versions[k + 1])
    /\ c = 0 => seen = {} /\ starts = {x}
    /\ c # 0 => /\ seen \cup {x} = Ball(g, {x}, c, r)
                /\ starts = {} \/ x \in seen
                /\ starts = {a.dst : a \in versions[c + 1]}

\* The arcs that a round may save.
LEMMA SavedArcs ==
    ASSUME NEW fresh, NEW kept \in Saved(fresh)
    PROVE  /\ kept \subseteq fresh
           /\ \A a \in fresh : (\A b \in fresh : a.dst # b.src) => a \in kept
           /\ kept = {} => fresh = {}
    BY DEF Saved

\* The first round: all arcs from the start, but perhaps not the loops.
IsFirstLevel(g, x, r, kept) ==
    /\ IsLevel(g, x, r, 1, kept)
    /\ kept = {} \/ x \in Marked(kept)
    /\ Marked(kept) \cup {x} = Ball(g, {x}, 1, r)

\* What the first round of BFSShortestPath may save.
LEMMA FirstLevel ==
    ASSUME NEW g, NEW x, NEW r, NEW fresh, fresh = GetNeighbors(g, {x}, r), NEW kept \in Saved(fresh)
    PROVE  IsFirstLevel(g, x, r, kept)
  <1>1. Ball(g, {x}, 0, r) = {x}
    BY BallFirst
  <1>2. \A a \in fresh : a.src = x
    BY DEF GetNeighbors
  <1>3. /\ kept \subseteq fresh
        /\ \A a \in fresh : (\A b \in fresh : a.dst # b.src) => a \in kept
        /\ kept = {} => fresh = {}
    BY SavedArcs
  <1>4. \A a \in fresh : a.dst # x => a \in kept
    BY <1>2, <1>3
  <1>5. IsLevel(g, x, r, 1, kept)
    <2>1. 1 - 1 = 0
      BY SMTT(30)
    <2>2. {a \in kept : a.dst # x} = {a \in fresh : a.dst \notin {x}}
      BY <1>3, <1>4
    <2> QED
      BY <1>1, <1>3, <2>1, <2>2 DEF IsLevel
  <1>6. kept = {} \/ x \in Marked(kept)
    BY <1>2, <1>3 DEF Marked
  <1>7. \A v : v \in Ball(g, {x}, 1, r) <=> v = x \/ \E a \in fresh : a.dst = v
    <2>1. PICK z \in Nat : z = 0
      OBVIOUS
    <2>2. \A v : v \in Ball(g, {x}, z + 1, r) <=>
                \/ v \in Ball(g, {x}, z, r)
                \/ \E a \in Arcs(g, r) : a.src \in Ball(g, {x}, z, r) /\ a.dst = v
      BY BallNext
    <2>3. z + 1 = 1
      BY <2>1, SMTT(30)
    <2>4. \A v : v \in Ball(g, {x}, 1, r) <=>
                \/ v \in {x}
                \/ \E a \in Arcs(g, r) : a.src \in {x} /\ a.dst = v
      BY <1>1, <2>1, <2>2, <2>3
    <2> QED
      BY <2>4 DEF GetNeighbors
  <1>8. \A v : v \in Marked(kept) \cup {x} <=> v = x \/ \E a \in fresh : a.dst = v
    BY <1>2, <1>3, <1>4 DEF Marked
  <1>9. Marked(kept) \cup {x} = Ball(g, {x}, 1, r)
    BY <1>7, <1>8
  <1> QED
    BY <1>5, <1>6, <1>9 DEF IsFirstLevel

\* A later round: exactly the arcs that lead to a new vertex.
LEMMA NextLevel ==
    ASSUME NEW g, NEW x, NEW r, NEW c \in Nat, c # 0, NEW seen, NEW L, IsLevel(g, x, r, c, L),
           seen \cup {x} = Ball(g, {x}, c, r),
           NEW starts, starts = {a.dst : a \in L}, starts = {} \/ x \in seen,
           NEW kept \in Saved({a \in GetNeighbors(g, starts, r) : a.dst \notin seen})
    PROVE  /\ IsLevel(g, x, r, c + 1, kept)
           /\ (seen \cup Marked(kept)) \cup {x} = Ball(g, {x}, c + 1, r)
           /\ kept = {} \/ x \in seen
  <1> DEFINE B == Ball(g, {x}, c, r)
             A == Ball(g, {x}, c - 1, r)
             fresh == {a \in GetNeighbors(g, starts, r) : a.dst \notin seen}
             out == {a \in GetNeighbors(g, B, r) : a.dst \notin B}
  <1>0. PICK m \in Nat : m + 1 = c /\ m = c - 1
    <2>1. c - 1 \in Nat
      BY SMTT(30)
    <2> QED
      BY <2>1, SMTT(30)
  <1>1. \A v : v \in B <=> v \in A \/ \E a \in Arcs(g, r) : a.src \in A /\ a.dst = v
    <2>1. \A v : v \in Ball(g, {x}, m + 1, r) <=>
                \/ v \in Ball(g, {x}, m, r)
                \/ \E a \in Arcs(g, r) : a.src \in Ball(g, {x}, m, r) /\ a.dst = v
      BY BallNext
    <2> QED
      BY <1>0, <2>1
  <1>2. x \in A
    <2>1. Ball(g, {x}, 0, r) = {x}
      BY BallFirst
    <2>2. PICK z \in Nat : z = 0
      OBVIOUS
    <2>3. Ball(g, {x}, z, r) \subseteq Ball(g, {x}, m, r)
      <3>1. z <= m
        BY <2>2, SMTT(30)
      <3> QED
        BY <3>1, BallGrows
    <2> QED
      BY <1>0, <2>1, <2>2, <2>3
  <1>3. {a \in L : a.dst # x} = {a \in GetNeighbors(g, A, r) : a.dst \notin A}
        /\ L \subseteq GetNeighbors(g, A, r)
    BY DEF IsLevel
  <1> HIDE DEF A, B
  <1>4. \A v \in B : v \in A \/ v \in starts
    <2>1. SUFFICES ASSUME NEW v \in B, v \notin A PROVE v \in starts
      OBVIOUS
    <2>2. PICK a \in Arcs(g, r) : a.src \in A /\ a.dst = v
      BY <1>1, <2>1
    <2>3. a \in L
      BY <1>3, <2>1, <2>2 DEF GetNeighbors
    <2> QED
      BY <2>2, <2>3
  <1>5. starts \subseteq B
    BY <1>1, <1>3 DEF GetNeighbors
  <1>6. fresh = out
    <2>1. ASSUME NEW a \in fresh PROVE a \in out
      <3>1. a \in Arcs(g, r) /\ a.src \in starts /\ a.dst \notin seen
        BY DEF GetNeighbors
      <3>2. x \in seen /\ seen = B
        BY <3>1 DEF B
      <3> QED
        BY <3>1, <3>2, <1>5 DEF GetNeighbors
    <2>2. ASSUME NEW a \in out PROVE a \in fresh
      <3>1. a \in Arcs(g, r) /\ a.src \in B /\ a.dst \notin B
        BY DEF GetNeighbors
      <3>2. a.src \notin A
        BY <1>1, <3>1
      <3>3. a.src \in starts
        BY <1>4, <3>1, <3>2
      <3>4. a.dst \notin seen
        BY <3>1 DEF B
      <3> QED
        BY <3>1, <3>3, <3>4 DEF GetNeighbors
    <2> QED
      BY <2>1, <2>2
  <1>7. kept = out /\ (kept = {} \/ starts # {})
    <2>1. /\ kept \subseteq fresh
          /\ \A a \in fresh : (\A b \in fresh : a.dst # b.src) => a \in kept
      BY SavedArcs, ZenonT(60)
    <2>2. \A a, b \in out : a.dst # b.src
      BY DEF GetNeighbors
    <2>3. \A a \in fresh : a.src \in starts
      BY DEF GetNeighbors
    <2> HIDE DEF fresh, out
    <2> QED
      BY <1>6, <2>1, <2>2, <2>3
  <1>8. x \in B
    BY <1>1, <1>2
  <1>9. (c + 1) - 1 = c
    BY SMTT(30)
  <1>10. IsLevel(g, x, r, c + 1, kept)
    <2>1. kept \subseteq GetNeighbors(g, B, r)
      BY <1>7
    <2>2. {a \in kept : a.dst # x} = out
      BY <1>7, <1>8
    <2> QED
      BY <1>9, <2>1, <2>2 DEF IsLevel, B
  <1>11. (seen \cup Marked(kept)) \cup {x} = Ball(g, {x}, c + 1, r)
    <2>1. \A v : v \in Ball(g, {x}, c + 1, r) <=>
                \/ v \in B
                \/ \E a \in Arcs(g, r) : a.src \in B /\ a.dst = v
      BY BallNext DEF B
    <2>2. \A v : v \in Ball(g, {x}, c + 1, r) <=> v \in B \/ \E a \in out : a.dst = v
      BY <2>1 DEF GetNeighbors
    <2>3. \A a \in out : a.src \in B
      BY DEF GetNeighbors
    <2> HIDE DEF out
    <2>4. \A v : v \in Marked(kept) <=> \E a \in out : v = a.src \/ v = a.dst
      BY <1>7 DEF Marked
    <2>5. seen \cup {x} = B
      BY DEF B
    <2> QED
      BY <2>2, <2>3, <2>4, <2>5
  <1>12. kept = {} \/ x \in seen
    BY <1>7
  <1> QED
    BY <1>10, <1>11, <1>12

\* A round adds the next level to the versions of its side.
LEMMA LevelsStep ==
    ASSUME NEW g, NEW x, NEW r, NEW c \in Nat, NEW versions, NEW seen, NEW starts,
           HasLevels(g, x, r, c, versions, seen, starts),
           NEW kept \in Saved({a \in GetNeighbors(g, starts, r) : a.dst \notin seen})
    PROVE  HasLevels(g, x, r, c + 1, Append(versions, kept), seen \cup Marked(kept),
                     {a.dst : a \in kept})
  <1> DEFINE h == Append(versions, kept)
             marks == seen \cup Marked(kept)
             ends == {a.dst : a \in kept}
  <1>0. PICK n \in Nat : n = c + 1
    BY SMTT(30)
  <1>1. versions = [k \in 1..n |-> versions[k]] /\ versions[1] = {FirstRow(x)}
    BY <1>0 DEF HasLevels
  <1>2. h = [k \in 1..(n + 1) |-> IF k <= n THEN versions[k] ELSE kept]
    BY <1>1, AppendFun, SMTT(30)
  <1> HIDE DEF h
  <1>3. /\ h = [k \in 1..(n + 1) |-> h[k]]
        /\ h[n + 1] = kept
        /\ \A k \in 1..n : h[k] = versions[k]
    BY <1>2, SMTT(30)
  <1>4. /\ IsLevel(g, x, r, c + 1, kept)
        /\ marks \cup {x} = Ball(g, {x}, c + 1, r)
        /\ kept = {} \/ x \in marks
    <2>1. CASE c = 0
      <3>1. seen = {} /\ starts = {x} /\ c + 1 = 1
        BY <2>1, SMTT(30) DEF HasLevels
      <3>2. {a \in GetNeighbors(g, {x}, r) : a.dst \notin {}} = GetNeighbors(g, {x}, r)
        OBVIOUS
      <3>3. kept \in Saved(GetNeighbors(g, {x}, r))
        BY <3>1, <3>2
      <3>4. IsFirstLevel(g, x, r, kept)
        <4>1. PICK fresh : fresh = GetNeighbors(g, {x}, r)
          OBVIOUS
        <4> QED
          BY <3>3, <4>1, FirstLevel
      <3>5. marks = Marked(kept)
        BY <3>1
      <3> QED
        BY <3>1, <3>4, <3>5 DEF IsFirstLevel
    <2>2. CASE c # 0
      <3> DEFINE L == versions[c + 1]
      <3>1. /\ seen \cup {x} = Ball(g, {x}, c, r)
            /\ starts = {} \/ x \in seen
            /\ starts = {a.dst : a \in L}
        BY <2>2 DEF HasLevels
      <3>2. IsLevel(g, x, r, c, L)
        <4>1. c \in 1..c
          BY <2>2, SMTT(30)
        <4> QED
          BY <4>1 DEF HasLevels
      <3> HIDE DEF L
      <3>3. /\ IsLevel(g, x, r, c + 1, kept)
            /\ (seen \cup Marked(kept)) \cup {x} = Ball(g, {x}, c + 1, r)
            /\ kept = {} \/ x \in seen
        BY <2>2, <3>1, <3>2, NextLevel, ZenonT(60)
      <3> QED
        BY <3>3
    <2> QED
      BY <2>1, <2>2
  <1>5. h[1] = {FirstRow(x)}
    <2>1. 1 \in 1..n
      BY <1>0, SMTT(30)
    <2> QED
      BY <1>1, <1>3, <2>1
  <1>6. \A k \in 1..(c + 1) : IsLevel(g, x, r, k, h[k + 1])
    <2> TAKE k \in 1..(c + 1)
    <2>1. CASE k = c + 1
      BY <1>0, <1>3, <1>4, <2>1
    <2>2. CASE k # c + 1
      <3>1. k \in 1..c /\ k + 1 \in 1..n
        BY <1>0, <2>2, SMTT(30)
      <3>2. IsLevel(g, x, r, k, versions[k + 1])
        BY <3>1 DEF HasLevels
      <3> QED
        BY <1>3, <3>1, <3>2
    <2> QED
      BY <2>1, <2>2
  <1>7. ends = {} \/ x \in marks
    BY <1>4
  <1>8. c + 1 # 0 /\ h[(c + 1) + 1] = kept /\ h = [k \in 1..((c + 1) + 1) |-> h[k]]
    BY <1>0, <1>3, SMTT(30)
  <1> HIDE DEF marks
  <1>9. HasLevels(g, x, r, c + 1, h, marks, ends)
    BY <1>4, <1>5, <1>6, <1>7, <1>8 DEF HasLevels
  <1> QED
    BY <1>9 DEF h, marks

\* n levels, as ConjunctPath keeps them.
AreLevels(g, x, r, n, levels) ==
    /\ levels = [k \in 1..n |-> levels[k]]
    /\ \A k \in 1..n : IsLevel(g, x, r, k, levels[k])

StepsBack(p, n, levels) ==
    \A i \in 1..n : \E a \in levels[n + 1 - i] :
        a.dst = VertexAt(p, i - 1) /\ p.steps[i] = StepBack(a)

\* What buildBfsInterimPath returns leads back along arcs of the levels.
LEMMA InterimArcs ==
    ASSUME NEW n \in Nat, NEW levels, levels = [k \in 1..n |-> levels[k]], NEW v,
           NEW p \in BuildBfsInterimPath(v, levels)
    PROVE  /\ p = [src |-> p.src, steps |-> p.steps] /\ p.src = v
           /\ p.steps = [x \in 1..n |-> p.steps[x]]
           /\ StepsBack(p, n, levels)
  <1>1. Len(levels) = n
    BY SeqFun
  <1> DEFINE S == {StepBack(a) : a \in UNION Range(levels)}
  <1>2. /\ p \in [src : {v}, steps : [1..n -> S]]
        /\ \A i \in 1..n : \E a \in levels[n + 1 - i] :
                a.dst = VertexAt(p, i - 1) /\ p.steps[i] = StepBack(a)
    BY <1>1 DEF BuildBfsInterimPath
  <1> HIDE DEF S
  <1>3. p = [src |-> p.src, steps |-> p.steps] /\ p.src = v /\ p.steps \in [1..n -> S]
    BY <1>2
  <1>4. p.steps = [i \in 1..n |-> p.steps[i]]
    BY <1>3
  <1> QED
    BY <1>2, <1>3, <1>4 DEF StepsBack

LeadsBack(g, G, n, r, p, v, x) == p \in Walks(g, G, n, Opposite(r)) /\ p.src = v /\ EndOf(p) = x

\* What buildBfsInterimPath returns is a walk back to the start.
LEMMA InterimSound ==
    ASSUME NEW g, NEW x, NEW r \in Sides, NEW n \in Nat, NEW levels, AreLevels(g, x, r, n, levels),
           NEW v, n # 0 \/ v = x, NEW p \in BuildBfsInterimPath(v, levels), NEW G, v \in G
    PROVE  LeadsBack(g, G, n, r, p, v, x)
  <1> DEFINE o == Opposite(r)
  <1>1. levels = [k \in 1..n |-> levels[k]]
    BY DEF AreLevels
  <1>2. /\ p = [src |-> p.src, steps |-> p.steps] /\ p.src = v
        /\ p.steps = [i \in 1..n |-> p.steps[i]]
        /\ StepsBack(p, n, levels)
    BY <1>1, InterimArcs
  <1>3. \A i \in 1..n : \E a \in levels[n + 1 - i] :
                a.dst = VertexAt(p, i - 1) /\ p.steps[i] = StepBack(a)
    BY <1>2 DEF StepsBack
  <1>4. \A i \in 1..n : \A a \in levels[n + 1 - i] : a \in Arcs(g, r)
    <2> TAKE i \in 1..n
    <2>1. n + 1 - i \in 1..n
      BY SMTT(30)
    <2>2. IsLevel(g, x, r, n + 1 - i, levels[n + 1 - i])
      BY <2>1 DEF AreLevels
    <2> QED
      BY <2>2 DEF IsLevel, GetNeighbors
  <1>5. \A i \in 1..n : \E a \in Arcs(g, o) : a.src = VertexAt(p, i - 1) /\ p.steps[i] = StepAlong(a)
    <2> TAKE i \in 1..n
    <2>1. PICK a \in levels[n + 1 - i] : a.dst = VertexAt(p, i - 1) /\ p.steps[i] = StepBack(a)
      BY <1>3
    <2>2. a \in Arcs(g, r)
      BY <1>4
    <2>3. Back(a) \in Arcs(g, o) /\ StepAlong(Back(a)) = StepBack(a)
      BY <2>2, ArcBack
    <2>4. Back(a).src = a.dst
      BY DEF Back
    <2> QED
      BY <2>1, <2>3, <2>4
  <1>6. p.steps \in Seq(StepsOf(g, o)) /\ Len(p.steps) = n
    <2>1. p.steps \in [1..n -> StepsOf(g, o)]
      BY <1>2, <1>5 DEF StepsOf
    <2>2. p.steps \in Seq(StepsOf(g, o))
      BY <2>1, SeqOf
    <2>3. PICK h : h = p.steps
      OBVIOUS
    <2>4. h = [i \in 1..n |-> h[i]]
      BY <1>2, <2>3
    <2>5. Len(h) = n
      BY <2>4, SeqFun
    <2> QED
      BY <2>2, <2>3, <2>5
  <1>7. p \in Walks(g, G, n, o)
    BY <1>2, <1>5, <1>6, WalkIntro
  <1>8. EndOf(p) = x
    <2>1. CASE n = 0
      BY <1>2, <1>6, <2>1 DEF EndOf, VertexAt
    <2>2. CASE n # 0
      <3>1. n \in 1..n /\ n + 1 - n = 1 /\ 1 \in 1..n /\ 1 - 1 = 0
        BY <2>2, SMTT(30)
      <3>2. PICK a \in levels[1] : p.steps[n] = StepBack(a)
        BY <1>3, <3>1
      <3>3. IsLevel(g, x, r, 1, levels[1])
        BY <3>1 DEF AreLevels
      <3>4. a.src \in Ball(g, {x}, 0, r)
        BY <3>1, <3>2, <3>3 DEF IsLevel, GetNeighbors
      <3>5. Ball(g, {x}, 0, r) = {x}
        BY BallFirst
      <3>6. EndOf(p) = a.src
        BY <1>6, <2>2, <3>2, SMTT(30) DEF EndOf, VertexAt, StepBack
      <3> QED
        BY <3>4, <3>5, <3>6
    <2> QED
      BY <2>1, <2>2
  <1> QED
    BY <1>2, <1>7, <1>8 DEF LeadsBack

\* It ends in a vertex that the last level leads to.
LEMMA InterimStart ==
    ASSUME NEW g, NEW x, NEW r, NEW n \in Nat, n # 0, NEW levels, AreLevels(g, x, r, n, levels),
           NEW v, NEW p \in BuildBfsInterimPath(v, levels)
    PROVE  \E a \in levels[n] : a.dst = v
  <1>0. levels = [k \in 1..n |-> levels[k]]
    BY DEF AreLevels
  <1>1. /\ p = [src |-> p.src, steps |-> p.steps] /\ p.src = v
        /\ p.steps = [i \in 1..n |-> p.steps[i]]
        /\ StepsBack(p, n, levels)
    BY <1>0, InterimArcs
  <1>2. 1 \in 1..n /\ n + 1 - 1 = n /\ 1 - 1 = 0
    BY SMTT(30)
  <1>3. \E a \in levels[n] : a.dst = VertexAt(p, 0)
    BY <1>1, <1>2 DEF StepsBack
  <1> QED
    BY <1>1, <1>3 DEF VertexAt

\* It returns every walk all of whose vertices are new in their levels.
LEMMA InterimComplete ==
    ASSUME NEW g, NEW x, NEW F, NEW r \in Sides, NEW n \in Nat, NEW levels, AreLevels(g, x, r, n, levels),
           NEW b \in Walks(g, F, n, r),
           \A i \in 1..n : /\ VertexAt(b, i - 1) \in Ball(g, {x}, i - 1, r)
                           /\ VertexAt(b, i) \notin Ball(g, {x}, i - 1, r)
    PROVE  ReversePath(b) \in BuildBfsInterimPath(EndOf(b), levels)
  <1> DEFINE q == ReversePath(b)
             S == {StepBack(a) : a \in UNION Range(levels)}
  <1>1. levels = [k \in 1..n |-> levels[k]]
    BY DEF AreLevels
  <1>2. Len(levels) = n /\ DOMAIN levels = 1..n
    BY <1>1, SeqFun
  <1>3. /\ q = [src |-> q.src, steps |-> q.steps] /\ q.src = EndOf(b)
        /\ q.steps = [i \in 1..n |-> [dst |-> VertexAt(b, n - i),
                                      edge |-> b.steps[n + 1 - i].edge,
                                      sign |-> -b.steps[n + 1 - i].sign]]
    BY ReverseIs, SMTT(30)
  <1>4. q.steps = [i \in 1..n |-> q.steps[i]]
    BY <1>3
  <1>5. \A i \in 1..n : \E a \in levels[n + 1 - i] :
                a.dst = VertexAt(q, i - 1) /\ q.steps[i] = StepBack(a)
    <2>1. \A i \in 1..n : \E a \in Arcs(g, r) : GoesBack(b, n, i, a)
      BY ReverseStep
    <2>2. \A i \in 0..n : VertexAt(q, i) = VertexAt(b, n - i)
      BY ReverseVertices, SMTT(30)
    <2> TAKE i \in 1..n
    <2>3. PICK a \in Arcs(g, r) : GoesBack(b, n, i, a)
      BY <2>1
    <2> HIDE DEF q
    <2>4. /\ a.src = VertexAt(b, n - i) /\ a.dst = VertexAt(b, n + 1 - i)
          /\ q.steps[i] = StepBack(a)
      BY <2>3 DEF GoesBack, q
    <2>5. PICK j \in 1..n : j = n + 1 - i /\ j - 1 = n - i
      <3>1. n + 1 - i \in 1..n /\ (n + 1 - i) - 1 = n - i
        BY SMTT(30)
      <3> QED
        BY <3>1
    <2>6. a.src \in Ball(g, {x}, j - 1, r) /\ a.dst \notin Ball(g, {x}, j - 1, r)
      BY <2>4, <2>5
    <2>7. IsLevel(g, x, r, j, levels[j])
      BY DEF AreLevels
    <2>8. a \in levels[j]
      BY <2>6, <2>7 DEF IsLevel, GetNeighbors
    <2>9. i - 1 \in 0..n /\ n - (i - 1) = n + 1 - i
      BY SMTT(30)
    <2>10. VertexAt(q, i - 1) = VertexAt(b, n + 1 - i)
      BY <2>2, <2>9
    <2> QED
      BY <2>4, <2>5, <2>8, <2>10
  <1>6. \A i \in 1..n : q.steps[i] \in S
    <2> TAKE i \in 1..n
    <2>1. PICK a \in levels[n + 1 - i] : q.steps[i] = StepBack(a)
      BY <1>5
    <2>2. n + 1 - i \in DOMAIN levels
      BY <1>2, SMTT(30)
    <2>3. a \in UNION Range(levels)
      BY <2>2 DEF Range
    <2> QED
      BY <2>1, <2>3
  <1> HIDE DEF q, S
  <1>7. q.steps \in [1..n -> S]
    BY <1>4, <1>6
  <1>8. q \in [src : {EndOf(b)}, steps : [1..n -> S]]
    BY <1>3, <1>7
  <1> QED
    BY <1>2, <1>5, <1>8 DEF BuildBfsInterimPath, S, q

\* The j-th version of the backward side that FindBfsShortestPath is given.
IsVersion(level, y, j, B) == IF j = 0 THEN level = {FirstRow(y)} ELSE level = B[j]

\* Every row is a walk from x to y ...
LEMMA BfsRowsSound ==
    ASSUME NEW g, NEW x, NEW y, NEW X, x \in X, NEW n \in Nat, n # 0, NEW j \in Nat,
           NEW F, AreLevels(g, x, "forward", n, F), NEW B, AreLevels(g, y, "backward", j, B),
           NEW level, IsVersion(level, y, j, B), NEW w \in FindBfsShortestPath(level, F, B)
    PROVE  w \in Walks(g, X, n + j, "forward") /\ w.src = x /\ EndOf(w) = y
  <1>a. PICK v \in {a.dst : a \in level} :
            \E p \in BuildBfsInterimPath(v, F) : \E q \in BuildBfsInterimPath(v, B) :
                w = AppendPath(ReversePath(p), q)
    BY SMTT(30) DEF FindBfsShortestPath
  <1>1. PICK p \in BuildBfsInterimPath(v, F), q \in BuildBfsInterimPath(v, B) :
            w = AppendPath(ReversePath(p), q)
    BY <1>a
  <1>2. PICK G : v \in G
    <2>1. v \in {v}
      OBVIOUS
    <2> QED
      BY <2>1
  <1>3. j # 0 \/ v = y
    BY SMTT(30) DEF IsVersion, FirstRow
  <1>4. p \in Walks(g, G, n, Opposite("forward")) /\ p.src = v /\ EndOf(p) = x
    <2>1. PICK r \in Sides : r = "forward"
      BY DEF Sides
    <2>2. AreLevels(g, x, r, n, F) /\ (n # 0 \/ v = x)
      BY <2>1
    <2>3. LeadsBack(g, G, n, r, p, v, x)
      BY <1>2, <2>2, InterimSound
    <2> QED
      BY <2>1, <2>3 DEF LeadsBack
  <1>5. q \in Walks(g, G, j, Opposite("backward")) /\ q.src = v /\ EndOf(q) = y
    <2>1. PICK r \in Sides : r = "backward"
      BY DEF Sides
    <2>2. AreLevels(g, y, r, j, B)
      BY <2>1
    <2>3. LeadsBack(g, G, j, r, q, v, y)
      BY <1>2, <1>3, <2>2, InterimSound
    <2> QED
      BY <2>1, <2>3 DEF LeadsBack
  <1>6. p \in Walks(g, G, n, "backward") /\ q \in Walks(g, G, j, "forward")
    BY <1>4, <1>5, OppositeSide
  <1> DEFINE f == ReversePath(p)
  <1>7. f \in Walks(g, X, n, Opposite("backward")) /\ f.src = EndOf(p) /\ EndOf(f) = p.src
    <2>1. "backward" \in Sides /\ EndOf(p) \in X
      BY <1>4 DEF Sides
    <2> QED
      BY <1>6, <2>1, ReverseWalk, SMTT(30)
  <1>8. f \in Walks(g, X, n, "forward") /\ q.src = EndOf(f)
    BY <1>4, <1>5, <1>7, OppositeSide
  <1> HIDE DEF f
  <1>9. AppendPath(f, q) \in Walks(g, X, n + j, "forward") /\ IsJoin(AppendPath(f, q), f, n, q, j)
    BY <1>6, <1>8, AppendWalk
  <1> QED
    BY <1>1, <1>4, <1>5, <1>7, <1>9 DEF IsJoin, f

\* ... and every walk from x to y is a row, if there is no shorter one.
NoneShorter(g, x, y, n) == \A k \in 0..(n - 1) : \A p \in Walks(g, {x}, k, "forward") : EndOf(p) # y

\* findBfsShortestPath finds all of them.
LEMMA BfsRowsComplete ==
    ASSUME NEW g, NEW x, NEW y, NEW n \in Nat, n # 0, NEW j \in Nat,
           NEW F, AreLevels(g, x, "forward", n, F), NEW B, AreLevels(g, y, "backward", j, B),
           NEW level, IsVersion(level, y, j, B),
           NoneShorter(g, x, y, n + j), NEW X, X = {x},
           NEW w \in Walks(g, X, n + j, "forward"), EndOf(w) = y
    PROVE  w \in FindBfsShortestPath(level, F, B)
  <1>0. PICK N \in Nat : N = n + j
    BY SMTT(30)
  <1>1. "forward" \in Sides /\ "backward" \in Sides
    BY DEF Sides
  <1>2. w.src = x /\ w \in Walks(g, {x}, N, "forward")
    <2>1. w.src \in {x}
      BY WalkType
    <2> QED
      BY <1>0, <2>1
  <1>3. \A k \in 0..(N - 1) : \A p \in Walks(g, {x}, k, "forward") : EndOf(p) # EndOf(w)
    BY <1>0 DEF NoneShorter
  <1>4. \A i \in 1..N : /\ VertexAt(w, i - 1) \in Ball(g, {x}, i - 1, "forward")
                        /\ VertexAt(w, i) \notin Ball(g, {x}, i - 1, "forward")
    BY <1>2, <1>3, NewInLevel
  <1> DEFINE t == ReversePath(w)
  <1>5. t \in Walks(g, {y}, N, "backward") /\ EndOf(t) = x
    <2>1. PICK Y : Y = {y}
      OBVIOUS
    <2>2. EndOf(w) \in Y
      BY <2>1
    <2>3. t \in Walks(g, Y, N, Opposite("forward")) /\ t.src = EndOf(w) /\ EndOf(t) = w.src
      BY <1>1, <1>2, <2>2, ReverseWalk, SMTT(30)
    <2> QED
      BY <1>2, <2>1, <2>3, OppositeSide
  <1>6. \A k \in 0..(N - 1) : \A p \in Walks(g, {y}, k, "backward") : EndOf(p) # EndOf(t)
    <2> SUFFICES ASSUME NEW k \in 0..(N - 1), NEW p \in Walks(g, {y}, k, "backward"), EndOf(p) = EndOf(t)
                 PROVE  FALSE
      OBVIOUS
    <2>2. EndOf(p) \in X /\ k \in Nat
      BY <1>5, SMTT(30)
    <2>3. /\ ReversePath(p) \in Walks(g, X, k, Opposite("backward")) /\ ReversePath(p).src = EndOf(p)
          /\ EndOf(ReversePath(p)) = p.src
      BY <1>1, <2>2, ReverseWalk, SMTT(30)
    <2>4. p.src \in {y}
      BY WalkType
    <2> QED
      BY <1>3, <2>3, <2>4, OppositeSide
  <1> HIDE DEF t
  <1>7. \A i \in 1..N : /\ VertexAt(t, i - 1) \in Ball(g, {y}, i - 1, "backward")
                        /\ VertexAt(t, i) \notin Ball(g, {y}, i - 1, "backward")
    BY <1>5, <1>6, NewInLevel
  <1> DEFINE f == Prefix(w, n)
             q == Suffix(w, n, j)
             b == ReversePath(q)
  <1>8. PICK T : T = {y}
    OBVIOUS
  <1>9. /\ f \in Walks(g, {x}, n, "forward")
        /\ b \in Walks(g, T, j, "backward")
        /\ w = AppendPath(f, ReversePath(b))
        /\ EndOf(f) = EndOf(b)
        /\ f.src = w.src
        /\ b.src = EndOf(w)
    <2>1. EndOf(w) \in T
      BY <1>8
    <2>4. /\ f \in Walks(g, X, n, "forward")
          /\ b \in Walks(g, T, j, "backward")
          /\ w = AppendPath(f, ReversePath(b))
          /\ EndOf(f) = EndOf(b)
          /\ f.src = w.src
          /\ b.src = EndOf(w)
      BY <2>1, SplitWalk, SMTT(30)
    <2> HIDE DEF f, b
    <2> QED
      BY <2>4
  <1>10. \A i \in 0..n : VertexAt(f, i) = VertexAt(w, i)
    <2>1. n \in 0..N
      BY <1>0, SMTT(30)
    <2>2. IsPrefixOf(f, w, n)
      BY <1>2, <2>1, PrefixWalk
    <2> HIDE DEF f
    <2> QED
      BY <2>2 DEF IsPrefixOf
  <1>11. \A i \in 0..j : VertexAt(b, i) = VertexAt(t, i)
    <2>1. PICK G : VertexAt(w, n) \in G
      <3>1. VertexAt(w, n) \in {VertexAt(w, n)}
        OBVIOUS
      <3> QED
        BY <3>1
    <2>2. q \in Walks(g, G, j, "forward") /\ IsSuffixOf(q, w, n, j)
      BY <2>1, SuffixWalk
    <2> HIDE DEF q, b
    <2>3. \A i \in 0..j : VertexAt(q, i) = VertexAt(w, n + i)
      BY <2>2 DEF IsSuffixOf
    <2>4. \A i \in 0..j : VertexAt(ReversePath(q), i) = VertexAt(q, j - i)
      BY <1>1, <2>2, ReverseVertices, SMTT(30)
    <2>5. \A i \in 0..N : VertexAt(ReversePath(w), i) = VertexAt(w, N - i)
      BY <1>1, <1>2, ReverseVertices, SMTT(30)
    <2> TAKE i \in 0..j
    <2>6. j - i \in 0..j /\ i \in 0..N /\ n + (j - i) = N - i
      BY <1>0, SMTT(30)
    <2> QED
      BY <2>3, <2>4, <2>5, <2>6 DEF b, t
  <1>12. ReversePath(f) \in BuildBfsInterimPath(EndOf(f), F)
    <2>1. \A i \in 1..n : /\ VertexAt(f, i - 1) \in Ball(g, {x}, i - 1, "forward")
                          /\ VertexAt(f, i) \notin Ball(g, {x}, i - 1, "forward")
      <3> HIDE DEF f
      <3> TAKE i \in 1..n
      <3>1. i \in 1..N /\ i \in 0..n /\ i - 1 \in 0..n
        BY <1>0, SMTT(30)
      <3> QED
        BY <1>4, <1>10, <3>1
    <2> HIDE DEF f
    <2> QED
      BY <1>1, <1>9, <2>1, InterimComplete
  <1>13. ReversePath(b) \in BuildBfsInterimPath(EndOf(b), B)
    <2>1. \A i \in 1..j : /\ VertexAt(b, i - 1) \in Ball(g, {y}, i - 1, "backward")
                          /\ VertexAt(b, i) \notin Ball(g, {y}, i - 1, "backward")
      <3> HIDE DEF b
      <3> TAKE i \in 1..j
      <3>1. i \in 1..N /\ i \in 0..j /\ i - 1 \in 0..j
        BY <1>0, SMTT(30)
      <3> QED
        BY <1>7, <1>11, <3>1
    <2> HIDE DEF b
    <2> QED
      BY <1>1, <1>9, <2>1, InterimComplete
  <1> HIDE DEF f, b
  <1>14. ReversePath(ReversePath(f)) = f
    BY <1>1, <1>9, ReverseTwice
  <1>15. \E a \in Latest(F) : a.dst = EndOf(f)
    <2>1. \E a \in F[n] : a.dst = EndOf(f)
      BY <1>12, InterimStart, SMTT(30)
    <2>2. F = [k \in 1..n |-> F[k]]
      BY DEF AreLevels
    <2>3. Len(F) = n
      BY <2>2, SeqFun
    <2> QED
      BY <2>1, <2>3 DEF Latest
  <1>16. \E a \in level : a.dst = EndOf(f)
    <2>1. CASE j = 0
      <3>1. EndOf(b) = VertexAt(b, j)
        BY <1>9, WalkShape, SMTT(30)
      <3>2. EndOf(f) = y
        BY <1>9, <2>1, <3>1 DEF VertexAt
      <3>3. FirstRow(y) \in level
        BY <2>1 DEF IsVersion
      <3>4. FirstRow(y).dst = y
        BY DEF FirstRow
      <3> QED
        BY <3>2, <3>3, <3>4
    <2>2. CASE j # 0
      <3>1. \E a \in B[j] : a.dst = EndOf(b)
        BY <1>13, <2>2, InterimStart, SMTT(30)
      <3> QED
        BY <1>9, <2>2, <3>1 DEF IsVersion
    <2> QED
      BY <2>1, <2>2
  <1>17. EndOf(f) \in {a.dst : a \in level} \cap {a.dst : a \in Latest(F)}
    BY <1>15, <1>16
  <1>18. w = AppendPath(ReversePath(ReversePath(f)), ReversePath(b))
    BY <1>9, <1>14
  <1>19. ReversePath(b) \in BuildBfsInterimPath(EndOf(f), B)
    BY <1>9, <1>13
  <1> QED
    BY <1>12, <1>17, <1>18, <1>19, SMTT(30) DEF FindBfsShortestPath

NoWalk(g, F, T, n) == \A k \in 1..n : \A p \in Walks(g, F, k, "forward") : EndOf(p) \notin T

\* P is the answer for every bound from n on.
IsShortest(P, g, F, T, n) == \A m \in Nat : m >= n => P = Shortest(WalksBetween(g, F, T, m))

\* The walks of exactly n steps.
Between(g, F, T, n) == {w \in Walks(g, F, n, "forward") : EndOf(w) \in T}

\* The walks of n steps are the shortest, if there are some and none shorter.
LEMMA ShortestIs ==
    ASSUME NEW g, NEW F, NEW T, NEW n \in Nat, n # 0, NoWalk(g, F, T, n - 1),
           NEW P, P = Between(g, F, T, n), P # {}, NEW m \in Nat, m >= n
    PROVE  IsShortest(P, g, F, T, m)
  <1>1. \A p \in P : p \in Walks(g, F, n, "forward") /\ EndOf(p) \in T
    BY DEF Between
  <1>2. \A p \in P : Len(p.steps) = n
    BY <1>1, WalkShape, SMTT(30)
  <1> SUFFICES ASSUME NEW b \in Nat, b >= m PROVE P = Shortest(WalksBetween(g, F, T, b))
    BY DEF IsShortest
  <1> DEFINE W == WalksBetween(g, F, T, b)
  <1>3. ASSUME NEW w \in W PROVE Len(w.steps) >= n /\ (Len(w.steps) = n => w \in P)
    <2>1. PICK k \in 1..b : w \in Walks(g, F, k, "forward")
      BY DEF WalksBetween
    <2>2. EndOf(w) \in T
      BY DEF WalksBetween
    <2>3. k \in Nat
      BY SMTT(30)
    <2>4. Len(w.steps) = k
      BY <2>1, <2>3, WalkShape, SMTT(30)
    <2>5. ~(k \in 1..(n - 1))
      BY <2>1, <2>2 DEF NoWalk
    <2>6. k >= n
      BY <2>3, <2>5, SMTT(30)
    <2>7. k = n => w \in P
      BY <2>1, <2>2 DEF Between
    <2> QED
      BY <2>4, <2>6, <2>7
  <1>4. P \subseteq W
    <2>1. n \in 1..b
      BY SMTT(30)
    <2> QED
      BY <1>1, <2>1 DEF WalksBetween
  <1> HIDE DEF W
  <1>5. ASSUME NEW w \in W PROVE Len(w.steps) \in Int
    <2>1. PICK k \in 1..b : w \in Walks(g, F, k, "forward")
      BY DEF WalksBetween, W
    <2>2. k \in Nat
      BY SMTT(30)
    <2> QED
      BY <2>1, <2>2, WalkShape, SMTT(30)
  <1>6. P = {p \in W : \A q \in W : Len(p.steps) <= Len(q.steps)}
    <2>1. ASSUME NEW p \in P PROVE p \in W /\ \A q \in W : Len(p.steps) <= Len(q.steps)
      BY <1>2, <1>3, <1>4, <1>5
    <2>2. ASSUME NEW p \in W, \A q \in W : Len(p.steps) <= Len(q.steps) PROVE p \in P
      <3>1. PICK q \in P : Len(q.steps) = n
        BY <1>2
      <3>2. Len(p.steps) <= n
        BY <1>4, <2>2, <3>1
      <3> QED
        BY <1>3, <1>5, <3>2, SMTT(30)
    <2> QED
      BY <2>1, <2>2
  <1> QED
    BY <1>6 DEF Shortest, W

\* What findBfsShortestPath returns for the levels of n and of j rounds.
LEMMA BfsRows ==
    ASSUME NEW g, NEW x, NEW y, NEW X, X = {x}, NEW Y, Y = {y}, NEW n \in Nat, n # 0, NEW j \in Nat,
           NEW F, AreLevels(g, x, "forward", n, F), NEW B, AreLevels(g, y, "backward", j, B),
           NEW level, IsVersion(level, y, j, B)
    PROVE  /\ FindBfsShortestPath(level, F, B) \subseteq Between(g, X, Y, n + j)
           /\ X # Y /\ NoWalk(g, X, Y, n + j - 1)
                => FindBfsShortestPath(level, F, B) = Between(g, X, Y, n + j)
  <1> DEFINE R == FindBfsShortestPath(level, F, B)
  <1>1. ASSUME NEW w \in R PROVE w \in Between(g, X, Y, n + j)
    <2>1. x \in X
      OBVIOUS
    <2>2. w \in Walks(g, X, n + j, "forward") /\ w.src = x /\ EndOf(w) = y
      BY <2>1, BfsRowsSound, SMTT(30)
    <2> QED
      BY <2>2 DEF Between
  <1>2. ASSUME X # Y, NoWalk(g, X, Y, n + j - 1), NEW w \in Between(g, X, Y, n + j)
        PROVE  w \in R
    <2>1. w \in Walks(g, X, n + j, "forward") /\ EndOf(w) = y
      BY DEF Between
    <2>2. NoneShorter(g, x, y, n + j)
      <3> SUFFICES ASSUME NEW k \in 0..(n + j - 1), NEW p \in Walks(g, {x}, k, "forward") PROVE EndOf(p) # y
        BY SMTT(30) DEF NoneShorter
      <3>1. CASE k = 0
        <4>1. p.src \in {x}
          BY WalkType
        <4>2. EndOf(p) = VertexAt(p, 0)
          BY <3>1, WalkShape, SMTT(30)
        <4> QED
          BY <1>2, <4>1, <4>2 DEF VertexAt
      <3>2. CASE k # 0
        <4>1. k \in 1..(n + j - 1)
          BY <3>2, SMTT(30)
        <4> QED
          BY <1>2, <4>1 DEF NoWalk
      <3> QED
        BY <3>1, <3>2
    <2> HIDE DEF R
    <2> QED
      BY <2>1, <2>2, BfsRowsComplete DEF R
  <1> HIDE DEF R
  <1> QED
    BY <1>1, <1>2 DEF R

\* What a round finds: rows of 2n - 1 or of 2n steps, or that there is no such walk.
IsFound(R, g, X, Y, n) ==
    /\ \A p \in R : IsWalkBetween(p, g, X, Y, 2 * n)
    /\ X # Y /\ NoWalk(g, X, Y, 2 * n - 2)
            => /\ R = {} => NoWalk(g, X, Y, 2 * n)
               /\ R # {} => IsShortest(R, g, X, Y, 2 * n)

\* A walk of k steps is one of at most n steps.
LEMMA BetweenIs ==
    ASSUME NEW g, NEW X, NEW Y, NEW k \in Nat, k # 0, NEW n \in Nat, k <= n,
           NEW p \in Between(g, X, Y, k)
    PROVE  IsWalkBetween(p, g, X, Y, n)
  <1>1. k \in 1..n
    BY SMTT(30)
  <1> QED
    BY <1>1 DEF Between, IsWalkBetween

\* No walk of fewer than n steps, and none of n steps.
LEMMA NoWalkNext ==
    ASSUME NEW g, NEW X, NEW Y, NEW n \in Nat, n # 0, NoWalk(g, X, Y, n - 1), Between(g, X, Y, n) = {}
    PROVE  NoWalk(g, X, Y, n)
  <1>1. \A k \in 1..n : k \in 1..(n - 1) \/ k = n
    BY SMTT(30)
  <1> QED
    BY <1>1 DEF NoWalk, Between

\* The odd length comes before the even one, so that a round finds the shortest.
LEMMA RoundFound ==
    ASSUME NEW g, NEW X, NEW Y, NEW n \in Nat, n # 0, NEW odd, NEW even,
           odd \subseteq Between(g, X, Y, 2 * n - 1), even \subseteq Between(g, X, Y, 2 * n),
           X # Y /\ NoWalk(g, X, Y, 2 * n - 2) => odd = Between(g, X, Y, 2 * n - 1),
           X # Y /\ NoWalk(g, X, Y, 2 * n - 1) => even = Between(g, X, Y, 2 * n)
    PROVE  IsFound(IF odd # {} THEN odd ELSE even, g, X, Y, n)
  <1> DEFINE R == IF odd # {} THEN odd ELSE even
  <1>0. PICK i \in Nat, j \in Nat : i = 2 * n - 1 /\ j = 2 * n
    <2>1. 2 * n - 1 \in Nat /\ 2 * n \in Nat
      BY SMTT(30)
    <2> QED
      BY <2>1
  <1>1. i # 0 /\ j # 0 /\ i <= j /\ i - 1 = 2 * n - 2 /\ j - 1 = 2 * n - 1 /\ j >= i /\ j >= j
    BY <1>0, SMTT(30)
  <1>2. \A p \in R : IsWalkBetween(p, g, X, Y, j)
    <2> TAKE p \in R
    <2>1. p \in Between(g, X, Y, i) \/ p \in Between(g, X, Y, j)
      BY <1>0
    <2>2. j <= j
      BY <1>1
    <2> QED
      BY <1>1, <2>1, <2>2, BetweenIs
  <1>3. ASSUME X # Y, NoWalk(g, X, Y, 2 * n - 2)
        PROVE  /\ R = {} => NoWalk(g, X, Y, j)
               /\ R # {} => IsShortest(R, g, X, Y, j)
    <2>1. odd = Between(g, X, Y, i) /\ NoWalk(g, X, Y, i - 1)
      BY <1>0, <1>1, <1>3
    <2>2. CASE odd # {}
      <3>1. IsShortest(odd, g, X, Y, j)
        BY <1>1, <2>1, <2>2, ShortestIs
      <3> QED
        BY <2>2, <3>1
    <2>3. CASE odd = {}
      <3>1. NoWalk(g, X, Y, i)
        BY <1>1, <2>1, <2>3, NoWalkNext
      <3>2. even = Between(g, X, Y, j) /\ NoWalk(g, X, Y, j - 1)
        BY <1>0, <1>1, <1>3, <3>1
      <3>3. CASE even = {}
        <4>1. NoWalk(g, X, Y, j)
          BY <1>1, <3>2, <3>3, NoWalkNext
        <4> QED
          BY <2>3, <3>3, <4>1
      <3>4. CASE even # {}
        <4>1. IsShortest(even, g, X, Y, j)
          BY <1>1, <3>2, <3>4, ShortestIs
        <4> QED
          BY <2>3, <3>4, <4>1
      <3> QED
        BY <3>3, <3>4
    <2> QED
      BY <2>2, <2>3
  <1> HIDE DEF R
  <1> QED
    BY <1>0, <1>2, <1>3 DEF IsFound, R

\* A larger bound admits the same walks.
LEMMA WalkBetweenGrows ==
    ASSUME NEW p, NEW g, NEW F, NEW T, NEW n \in Nat, NEW m \in Nat, n <= m, IsWalkBetween(p, g, F, T, n)
    PROVE  IsWalkBetween(p, g, F, T, m)
  <1>1. 1..n \subseteq 1..m
    BY SMTT(30)
  <1> QED
    BY <1>1 DEF IsWalkBetween

\* No round has found a path yet.
Missed == output = <<>> \/ Latest(output) = {}

SingleTypes ==
    /\ steps \in Nat /\ noLoop = FALSE
    /\ from = {Start("forward")} /\ to = {Start("backward")}
    /\ loopSteps \in Nat
    /\ DOMAIN startVids = Sides /\ DOMAIN visited = Sides /\ DOMAIN pathVar = Sides
    /\ Len(output) \in Nat /\ output = [k \in 1..Len(output) |-> output[k]]

SingleRounds ==
    /\ stage \in {"loop", "body", "collect", "done", "error"}
    /\ done \subseteq Sides
    /\ Len(output) <= Rounds
    /\ stage = "loop" => loopSteps = Len(output)
    /\ stage = "body" => loopSteps = Len(output) + 1 /\ loopSteps <= Rounds /\ Missed
    /\ stage \in {"collect", "done"} => Len(output) = Rounds \/ ~Missed
    /\ stage = "done" => output # <<>>

\* The rounds in which a side has expanded its vertices.
Explored(s) == IF stage = "body" /\ s \in done THEN Len(output) + 1 ELSE Len(output)

SingleSide(s) ==
    HasLevels(graph, Start(s), s, Explored(s), pathVar[s], visited[s], startVids[s])

\* ConjunctPath has the levels of the rounds it has seen.
IsHist(hist, n, versions) == hist = [k \in 1..n |-> versions[k + 1]]

SingleHists ==
    /\ IsHist(hists["forward"], Len(output), pathVar["forward"])
    /\ Missed => IsHist(hists["backward"], Len(output), pathVar["backward"])

SingleOutput ==
    /\ \A k \in 1..Len(output) : \A p \in output[k] : IsWalkBetween(p, graph, from, to, 2 * k)
    /\ from # to => /\ Missed => NoWalk(graph, from, to, 2 * Len(output))
                    /\ ~Missed => IsShortest(Latest(output), graph, from, to, 2 * Len(output))

SingleInv ==
    /\ SingleTypes
    /\ SingleRounds
    /\ \A s \in Sides : SingleSide(s)
    /\ SingleHists
    /\ SingleOutput
    /\ answer = IF stage = "done" THEN Latest(output) ELSE {}

\* With one vertex on each side, the starts are those vertices.
LEMMA SingleStart ==
    ASSUME NEW u, NEW v, from = {u}, to = {v}
    PROVE  from = {Start("forward")} /\ to = {Start("backward")}
  <1>1. Start("forward") \in {u}
    BY DEF Start, Starts
  <1>2. Start("backward") \in {v}
    BY DEF Start, Starts
  <1> QED
    BY <1>1, <1>2

\* The empty sequence, as a function.
LEMMA EmptyFun == Len(<< >>) = 0 /\ << >> = [k \in 1..0 |-> << >>[k]]
    BY SMTT(30)

\* The first version, as a function.
LEMMA OneVersion ==
    ASSUME NEW x
    PROVE  << x >> = [k \in 1..(0 + 1) |-> << x >>[k]] /\ << x >>[1] = x
    BY SMTT(30)

\* The plan for one pair starts with the two vertices.
LEMMA SingleInit ==
    ASSUME NEW q, q.steps \in Nat, q.noLoop = FALSE, NEW u, NEW v, q.from = {u}, q.to = {v},
           SinglePairPlan(q)
    PROVE  SingleInv
  <1> USE DEF SinglePairPlan, Plan
  <1>0. steps \in Nat /\ Rounds \in Nat
    BY SMTT(30) DEF Rounds
  <1>1. output = << >> /\ Len(output) = 0 /\ Missed
    BY DEF Missed
  <1>2. SingleTypes
    <2>1. from = {Start("forward")} /\ to = {Start("backward")}
      BY SingleStart
    <2>2. output = [k \in 1..Len(output) |-> output[k]]
      BY <1>1, EmptyFun
    <2> QED
      BY <1>0, <1>1, <2>1, <2>2 DEF SingleTypes
  <1>3. SingleRounds
    BY <1>0, <1>1, SMTT(30) DEF SingleRounds
  <1>4. ASSUME NEW s \in Sides PROVE SingleSide(s)
    <2>1. /\ Explored(s) = 0 /\ visited[s] = {} /\ startVids[s] = Starts(s)
          /\ pathVar[s] = << {FirstRow(Start(s))} >>
      BY <1>1 DEF Explored, FirstRow
    <2>2. Starts(s) = {Start(s)}
      BY <1>2 DEF SingleTypes, Starts, Sides
    <2>3. /\ pathVar[s] = [k \in 1..(0 + 1) |-> pathVar[s][k]]
          /\ pathVar[s][1] = {FirstRow(Start(s))}
      BY <2>1, OneVersion
    <2>4. PICK h : h = pathVar[s]
      OBVIOUS
    <2>5. HasLevels(graph, Start(s), s, 0, h, {}, {Start(s)})
      BY <2>3, <2>4, SMTT(30) DEF HasLevels
    <2> QED
      BY <2>1, <2>2, <2>4, <2>5 DEF SingleSide
  <1>5. SingleHists
    BY <1>1, EmptyFun, SMTT(30) DEF SingleHists, IsHist, Sides
  <1>6. SingleOutput
    BY <1>1, SMTT(30) DEF SingleOutput, NoWalk
  <1> QED
    BY <1>2, <1>3, <1>4, <1>5, <1>6 DEF SingleInv

\* A step that only moves the program counter keeps what the rounds have found.
LEMMA SingleKept ==
    ASSUME SingleInv, UNCHANGED <<query, startVids, visited, pathVar, hists, output>>,
           Explored("forward")' = Explored("forward"), Explored("backward")' = Explored("backward"),
           loopSteps' \in Nat
    PROVE  /\ SingleTypes'
           /\ \A s \in Sides : SingleSide(s)'
           /\ SingleHists'
           /\ SingleOutput'
           /\ Missed' = Missed /\ Rounds' = Rounds
  <1>1. UNCHANGED query /\ \A s : Start(s)' = Start(s)
    BY DEF query, Start, Starts
  <1>2. SingleTypes'
    BY <1>1 DEF SingleInv, SingleTypes, query
  <1>3. \A s \in Sides : SingleSide(s)'
    BY <1>1 DEF SingleInv, SingleSide, Sides, query
  <1>4. Missed' = Missed
    BY DEF Missed
  <1>5. SingleHists'
    BY <1>4 DEF SingleInv, SingleHists
  <1>6. SingleOutput'
    BY <1>1, <1>4 DEF SingleInv, SingleOutput, query
  <1>7. Rounds' = Rounds
    BY <1>1 DEF Rounds, query
  <1> QED
    BY <1>2, <1>3, <1>4, <1>5, <1>6, <1>7

\* The loop condition only moves on.
LEMMA SingleLoopStep ==
    ASSUME SingleInv, SingleLoop
    PROVE  SingleInv'
  <1>1. loopSteps' \in Nat /\ Rounds \in Nat
    BY SMTT(30) DEF SingleLoop, SingleInv, SingleTypes, Rounds
  <1>2. Explored("forward")' = Explored("forward") /\ Explored("backward")' = Explored("backward")
    BY DEF SingleLoop, Explored
  <1>3. UNCHANGED <<query, startVids, visited, pathVar, hists, output>>
    BY DEF SingleLoop
  <1>4. /\ SingleTypes'
        /\ \A s \in Sides : SingleSide(s)'
        /\ SingleHists'
        /\ SingleOutput'
        /\ Missed' = Missed /\ Rounds' = Rounds
    BY <1>1, <1>2, <1>3, SingleKept
  <1>5. SingleRounds'
    <2>1. /\ stage = "loop" /\ loopSteps = Len(output) /\ Len(output) \in Nat /\ Len(output) <= Rounds
          /\ loopSteps' = loopSteps + 1 /\ done' = {} /\ output' = output
      BY DEF SingleLoop, SingleInv, SingleRounds, SingleTypes
    <2>2. stage' = IF loopSteps + 1 <= Rounds /\ Missed THEN "body" ELSE "collect"
      BY DEF SingleLoop, SingleCondition, Missed
    <2> QED
      BY <1>1, <1>4, <2>1, <2>2, SMTT(30) DEF SingleRounds
  <1>6. answer' = IF stage' = "done" THEN Latest(output') ELSE {}
    BY DEF SingleLoop, SingleInv
  <1> QED
    BY <1>4, <1>5, <1>6 DEF SingleInv

\* DataCollect takes the rows of the last round.
LEMMA SingleCollectStep ==
    ASSUME SingleInv, SingleCollect
    PROVE  SingleInv'
  <1>1. loopSteps' \in Nat
    BY DEF SingleCollect, SingleInv, SingleTypes
  <1>2. Explored("forward")' = Explored("forward") /\ Explored("backward")' = Explored("backward")
    BY DEF SingleCollect, Explored
  <1>3. UNCHANGED <<query, startVids, visited, pathVar, hists, output>>
    BY DEF SingleCollect
  <1>4. /\ SingleTypes'
        /\ \A s \in Sides : SingleSide(s)'
        /\ SingleHists'
        /\ SingleOutput'
        /\ Missed' = Missed /\ Rounds' = Rounds
    BY <1>1, <1>2, <1>3, SingleKept
  <1>5. SingleRounds'
    BY <1>4 DEF SingleRounds, SingleCollect, SingleInv
  <1>6. answer' = IF stage' = "done" THEN Latest(output') ELSE {}
    BY DEF SingleCollect, SingleInv
  <1> QED
    BY <1>4, <1>5, <1>6 DEF SingleInv

\* A new version leaves what ConjunctPath keeps alone.
LEMMA HistKept ==
    ASSUME NEW n \in Nat, NEW versions, versions = [k \in 1..(n + 1) |-> versions[k]],
           NEW hist, IsHist(hist, n, versions), NEW kept
    PROVE  IsHist(hist, n, Append(versions, kept))
  <1>1. PICK m \in Nat : m = n + 1
    BY SMTT(30)
  <1>2. versions = [k \in 1..m |-> versions[k]]
    BY <1>1
  <1>3. Append(versions, kept) = [k \in 1..(m + 1) |-> IF k <= m THEN versions[k] ELSE kept]
    BY <1>2, AppendFun, SMTT(30)
  <1>4. \A k \in 1..n : Append(versions, kept)[k + 1] = versions[k + 1]
    <2> SUFFICES ASSUME NEW k \in 1..n PROVE Append(versions, kept)[k + 1] = versions[k + 1]
      OBVIOUS
    <2>1. k + 1 \in 1..(m + 1) /\ k + 1 <= m
      BY <1>1, SMTT(30)
    <2> QED
      BY <1>3, <2>1
  <1> QED
    BY <1>4 DEF IsHist

\* ConjunctPath keeps the latest version.
LEMMA HistAppend ==
    ASSUME NEW n \in Nat, NEW versions, NEW hist, IsHist(hist, n, versions), NEW x, x = versions[n + 2]
    PROVE  IsHist(Append(hist, x), n + 1, versions)
  <1>1. hist = [k \in 1..n |-> versions[k + 1]]
    BY DEF IsHist
  <1>2. hist = [k \in 1..n |-> hist[k]]
    BY <1>1
  <1>3. Append(hist, x) = [k \in 1..(n + 1) |-> IF k <= n THEN hist[k] ELSE x]
    BY <1>2, AppendFun, SMTT(30)
  <1>4. \A k \in 1..(n + 1) : (IF k <= n THEN hist[k] ELSE x) = versions[k + 1]
    <2> TAKE k \in 1..(n + 1)
    <2>1. CASE k <= n
      BY <1>1, <2>1, SMTT(30)
    <2>2. CASE ~(k <= n)
      <3>1. k + 1 = n + 2
        BY <2>2, SMTT(30)
      <3> QED
        BY <2>2, <3>1
    <2> QED
      BY <2>1, <2>2
  <1> QED
    BY <1>3, <1>4 DEF IsHist

\* What ConjunctPath keeps are levels.
LEMMA HistLevels ==
    ASSUME NEW g, NEW x, NEW r, NEW c \in Nat, NEW versions, NEW seen, NEW starts,
           HasLevels(g, x, r, c, versions, seen, starts), NEW n \in 0..c,
           NEW hist, IsHist(hist, n, versions)
    PROVE  AreLevels(g, x, r, n, hist)
  <1>1. hist = [k \in 1..n |-> versions[k + 1]]
    BY DEF IsHist
  <1>2. hist = [k \in 1..n |-> hist[k]]
    BY <1>1
  <1>3. \A k \in 1..n : IsLevel(g, x, r, k, versions[k + 1])
    <2>1. \A k \in 1..c : IsLevel(g, x, r, k, versions[k + 1])
      BY DEF HasLevels
    <2>2. 1..n \subseteq 1..c
      BY SMTT(30)
    <2> QED
      BY <2>1, <2>2
  <1> QED
    BY <1>1, <1>2, <1>3 DEF AreLevels

\* BFSShortestPath adds the next level.
LEMMA SingleExpandStep ==
    ASSUME SingleInv, NEW side \in Sides, Expand(side)
    PROVE  SingleInv'
  <1>1. PICK kept \in Saved({a \in GetNeighbors(graph, startVids[side], side) :
                                a.dst \notin visited[side]}) :
            /\ pathVar' = [pathVar EXCEPT ![side] = Append(pathVar[side], kept)]
            /\ visited' = [visited EXCEPT ![side] = visited[side] \cup Marked(kept)]
            /\ startVids' = [startVids EXCEPT ![side] = {a.dst : a \in kept}]
    BY DEF Expand
  <1>2. /\ stage = "body" /\ side \notin done /\ done' = done \cup {side}
        /\ UNCHANGED <<query, stage, loopSteps, hists, output, answer>>
    BY DEF Expand, Ready
  <1>3. UNCHANGED query /\ \A s : Start(s)' = Start(s)
    BY <1>2 DEF query, Start, Starts
  <1>4. Missed' = Missed /\ Rounds' = Rounds
    BY <1>2, <1>3 DEF Missed, Rounds, query
  <1>5. /\ SingleTypes
        /\ \A s \in Sides : SingleSide(s)
        /\ SingleHists /\ SingleOutput /\ SingleRounds
        /\ answer = IF stage = "done" THEN Latest(output) ELSE {}
    BY DEF SingleInv
  <1>6. SingleTypes'
    <2>1. DOMAIN startVids' = Sides /\ DOMAIN visited' = Sides /\ DOMAIN pathVar' = Sides
      BY <1>1, <1>5 DEF SingleTypes
    <2> QED
      BY <1>2, <1>3, <1>5, <2>1 DEF SingleTypes, query
  <1>7. SingleRounds'
    BY <1>2, <1>4, <1>5 DEF SingleRounds
  <1>8. PICK m \in Nat : m = Len(output)
    BY <1>5 DEF SingleTypes
  <1>9. Explored(side) = m /\ Explored(side)' = m + 1
    BY <1>2, <1>8 DEF Explored
  <1> DEFINE h == pathVar[side]
  <1>10. HasLevels(graph, Start(side), side, m, h, visited[side], startVids[side])
    BY <1>5, <1>9 DEF SingleSide
  <1>11. ASSUME NEW s \in Sides PROVE SingleSide(s)'
    <2>1. CASE s = side
      <3>1. /\ pathVar'[side] = Append(h, kept) /\ visited'[side] = visited[side] \cup Marked(kept)
            /\ startVids'[side] = {a.dst : a \in kept}
        BY <1>1, <1>5 DEF SingleTypes
      <3> HIDE DEF h
      <3>2. HasLevels(graph, Start(side), side, m + 1, Append(h, kept), visited[side] \cup Marked(kept),
                      {a.dst : a \in kept})
        BY <1>10, LevelsStep
      <3>3. graph' = graph
        BY <1>3 DEF query
      <3> QED
        BY <1>3, <1>9, <2>1, <3>1, <3>2, <3>3 DEF SingleSide
    <2>2. CASE s # side
      <3>1. pathVar'[s] = pathVar[s] /\ visited'[s] = visited[s] /\ startVids'[s] = startVids[s]
        BY <1>1, <1>5, <2>2 DEF SingleTypes
      <3>2. Explored(s)' = Explored(s)
        BY <1>2, <2>2 DEF Explored
      <3>3. graph' = graph
        BY <1>3 DEF query
      <3> QED
        BY <1>3, <1>5, <3>1, <3>2, <3>3 DEF SingleSide
    <2> QED
      BY <2>1, <2>2
  <1>12. \A hist : \A s \in Sides : IsHist(hist, m, pathVar[s]) => IsHist(hist, m, pathVar'[s])
    <2> SUFFICES ASSUME NEW hist, NEW s \in Sides, IsHist(hist, m, pathVar[s])
                 PROVE  IsHist(hist, m, pathVar'[s])
      OBVIOUS
    <2>1. CASE s = side
      <3>1. pathVar'[side] = Append(h, kept)
        BY <1>1, <1>5 DEF SingleTypes
      <3>2. h = [k \in 1..(m + 1) |-> h[k]]
        BY <1>10 DEF HasLevels
      <3>3. IsHist(hist, m, h)
        BY <2>1
      <3> HIDE DEF h
      <3>4. IsHist(hist, m, Append(h, kept))
        BY <3>2, <3>3, HistKept
      <3> QED
        BY <2>1, <3>1, <3>4
    <2>2. CASE s # side
      <3>1. pathVar'[s] = pathVar[s]
        BY <1>1, <1>5, <2>2 DEF SingleTypes
      <3> QED
        BY <3>1
    <2> QED
      BY <2>1, <2>2
  <1>13. SingleHists'
    <2>1. "forward" \in Sides /\ "backward" \in Sides /\ hists' = hists /\ output' = output
      BY <1>2 DEF Sides
    <2> QED
      BY <1>4, <1>5, <1>8, <1>12, <2>1 DEF SingleHists
  <1>14. SingleOutput'
    BY <1>2, <1>3, <1>4, <1>5 DEF SingleOutput, query
  <1>15. answer' = IF stage' = "done" THEN Latest(output') ELSE {}
    BY <1>2, <1>5
  <1> QED
    BY <1>6, <1>7, <1>11, <1>13, <1>14, <1>15 DEF SingleInv

\* ConjunctPath finds the shortest walks or knows that there are none yet.
LEMMA SingleConjunctStep ==
    ASSUME SingleInv, SingleConjunct
    PROVE  SingleInv'
  <1> DEFINE fv == pathVar["forward"]
             bv == pathVar["backward"]
             fh == hists["forward"]
             bh == hists["backward"]
             x == Start("forward")
             y == Start("backward")
             F == Append(fh, Latest(fv))
             B == Append(bh, Latest(bv))
             odd == FindBfsShortestPath(bv[Len(bv) - 1], F, bh)
             even == FindBfsShortestPath(Latest(bv), F, B)
             R == IF odd # {} THEN odd ELSE even
  <1>1. /\ SingleTypes
        /\ \A s \in Sides : SingleSide(s)
        /\ SingleHists /\ SingleOutput /\ SingleRounds
        /\ answer = IF stage = "done" THEN Latest(output) ELSE {}
    BY DEF SingleInv
  <1>2. /\ stage = "body" /\ done = Sides /\ stage' = "loop"
        /\ UNCHANGED <<query, done, loopSteps, startVids, visited, pathVar, answer>>
    BY DEF SingleConjunct
  <1>3. PICK m \in Nat, n \in Nat : m = Len(output) /\ n = m + 1
    BY <1>1, SMTT(30) DEF SingleTypes
  <1>4. loopSteps = n /\ n <= Rounds /\ Missed /\ n # 0 /\ m = n - 1
    BY <1>1, <1>2, <1>3, SMTT(30) DEF SingleRounds
  <1>5. /\ HasLevels(graph, x, "forward", n, fv, visited["forward"], startVids["forward"])
        /\ HasLevels(graph, y, "backward", n, bv, visited["backward"], startVids["backward"])
    BY <1>1, <1>2, <1>3 DEF SingleSide, Explored, Sides
  <1>6. Len(fv) = n + 1 /\ Len(bv) = n + 1 /\ bv[1] = {FirstRow(y)}
    <2>1. PICK l \in Nat : l = n + 1
      BY SMTT(30)
    <2>2. fv = [k \in 1..l |-> fv[k]] /\ bv = [k \in 1..l |-> bv[k]] /\ bv[1] = {FirstRow(y)}
      BY <1>5, <2>1 DEF HasLevels
    <2> HIDE DEF fv, bv
    <2>3. Len(fv) = l
      BY <2>2, SeqFun
    <2>4. Len(bv) = l
      BY <2>2, SeqFun
    <2> QED
      BY <2>1, <2>2, <2>3, <2>4
  <1>7. IsHist(fh, m, fv) /\ IsHist(bh, m, bv)
    BY <1>1, <1>3, <1>4 DEF SingleHists
  <1>8. /\ output' = Append(output, R)
        /\ hists'["forward"] = F
        /\ R = {} => hists'["backward"] = B
    <2>1. ~(Len(bv) < 2)
      BY <1>3, <1>6, SMTT(30)
    <2>2. LET found == BfsShortestPath(F, bv, bh)
          IN  /\ hists' = [forward |-> F, backward |-> found.backward]
              /\ output' = Append(output, found.rows)
      BY DEF SingleConjunct
    <2>3. BfsShortestPath(F, bv, bh) = IF odd # {} THEN [rows |-> odd, backward |-> bh]
                                      ELSE [rows |-> even, backward |-> B]
      <3> HIDE DEF F, bv, bh
      <3> QED
        BY <2>1 DEF BfsShortestPath
    <2> HIDE DEF F, bv, bh, odd, even, B
    <2>4. PICK found : /\ found = IF odd # {} THEN [rows |-> odd, backward |-> bh]
                                 ELSE [rows |-> even, backward |-> B]
                       /\ hists' = [forward |-> F, backward |-> found.backward]
                       /\ output' = Append(output, found.rows)
      BY <2>2, <2>3
    <2>5. found.rows = R /\ (R = {} => found.backward = B)
      BY <2>4
    <2> QED
      BY <2>4, <2>5
  <1> HIDE DEF fv, bv, fh, bh
  <1>9. IsHist(F, n, fv) /\ IsHist(B, n, bv)
    <2>1. n + 1 = m + 2
      BY <1>3, SMTT(30)
    <2>2. Latest(fv) = fv[m + 2] /\ Latest(bv) = bv[m + 2]
      BY <1>6, <2>1 DEF Latest
    <2>3. PICK u, v : u = Latest(fv) /\ v = Latest(bv)
      OBVIOUS
    <2>4. IsHist(Append(fh, u), m + 1, fv)
      BY <1>7, <2>2, <2>3, HistAppend
    <2>5. IsHist(Append(bh, v), m + 1, bv)
      BY <1>7, <2>2, <2>3, HistAppend
    <2> QED
      BY <1>3, <2>3, <2>4, <2>5
  <1> HIDE DEF F, B
  <1>10. /\ AreLevels(graph, x, "forward", n, F)
         /\ AreLevels(graph, y, "backward", m, bh)
         /\ AreLevels(graph, y, "backward", n, B)
    <2>1. n \in 0..n /\ m \in 0..n
      BY <1>3, SMTT(30)
    <2>2. AreLevels(graph, x, "forward", n, F)
      BY <1>5, <1>9, <2>1, HistLevels
    <2>3. AreLevels(graph, y, "backward", m, bh)
      BY <1>5, <1>7, <2>1, HistLevels
    <2>4. AreLevels(graph, y, "backward", n, B)
      BY <1>5, <1>9, <2>1, HistLevels
    <2> QED
      BY <2>2, <2>3, <2>4
  <1>11. IsVersion(bv[Len(bv) - 1], y, m, bh) /\ IsVersion(Latest(bv), y, n, B)
    <2>1. Len(bv) - 1 = n
      BY <1>6, SMTT(30)
    <2>2. IsVersion(bv[n], y, m, bh)
      <3>1. CASE m = 0
        BY <1>3, <1>6, <3>1, SMTT(30) DEF IsVersion
      <3>2. CASE m # 0
        <4>1. m \in 1..m
          BY <3>2, SMTT(30)
        <4>2. bh[m] = bv[n]
          BY <1>3, <1>7, <4>1 DEF IsHist
        <4> QED
          BY <3>2, <4>2 DEF IsVersion
      <3> QED
        BY <3>1, <3>2
    <2>3. IsVersion(Latest(bv), y, n, B)
      <3>1. n \in 1..n
        BY <1>4, SMTT(30)
      <3>2. B[n] = bv[n + 1]
        BY <1>9, <3>1 DEF IsHist
      <3> QED
        BY <1>4, <1>6, <3>2 DEF IsVersion, Latest
    <2> QED
      BY <2>1, <2>2, <2>3
  <1>12. from = {x} /\ to = {y}
    BY <1>1 DEF SingleTypes
  <1>13. /\ odd \subseteq Between(graph, from, to, n + m)
         /\ from # to /\ NoWalk(graph, from, to, n + m - 1) => odd = Between(graph, from, to, n + m)
    <2>1. PICK level : level = bv[Len(bv) - 1]
      OBVIOUS
    <2> HIDE DEF x, y
    <2>2. /\ FindBfsShortestPath(level, F, bh) \subseteq Between(graph, from, to, n + m)
          /\ from # to /\ NoWalk(graph, from, to, n + m - 1)
                => FindBfsShortestPath(level, F, bh) = Between(graph, from, to, n + m)
      BY <1>4, <1>10, <1>11, <1>12, <2>1, BfsRows, ZenonT(60)
    <2> QED
      BY <2>1, <2>2
  <1>14. /\ even \subseteq Between(graph, from, to, n + n)
         /\ from # to /\ NoWalk(graph, from, to, n + n - 1) => even = Between(graph, from, to, n + n)
    <2>1. PICK level : level = Latest(bv)
      OBVIOUS
    <2> HIDE DEF x, y
    <2>2. /\ FindBfsShortestPath(level, F, B) \subseteq Between(graph, from, to, n + n)
          /\ from # to /\ NoWalk(graph, from, to, n + n - 1)
                => FindBfsShortestPath(level, F, B) = Between(graph, from, to, n + n)
      BY <1>4, <1>10, <1>11, <1>12, <2>1, BfsRows, ZenonT(60)
    <2> QED
      BY <2>1, <2>2
  <1> HIDE DEF odd, even, x, y
  <1>15. IsFound(R, graph, from, to, n)
    <2>1. n + m = 2 * n - 1 /\ n + n = 2 * n /\ n + m - 1 = 2 * n - 2 /\ n + n - 1 = 2 * n - 1
      BY <1>3, SMTT(30)
    <2>2. /\ odd \subseteq Between(graph, from, to, 2 * n - 1)
          /\ even \subseteq Between(graph, from, to, 2 * n)
          /\ from # to /\ NoWalk(graph, from, to, 2 * n - 2) => odd = Between(graph, from, to, 2 * n - 1)
          /\ from # to /\ NoWalk(graph, from, to, 2 * n - 1) => even = Between(graph, from, to, 2 * n)
      BY <1>13, <1>14, <2>1
    <2> QED
      BY <1>4, <2>2, RoundFound
  <1> HIDE DEF R
  <1>16. /\ output' = [k \in 1..n |-> output'[k]] /\ Len(output') = n
         /\ \A k \in 1..m : output'[k] = output[k]
         /\ output'[n] = R
    <2>1. output = [k \in 1..m |-> output[k]]
      BY <1>1, <1>3 DEF SingleTypes
    <2>2. Append(output, R) = [k \in 1..(m + 1) |-> IF k <= m THEN output[k] ELSE R]
      BY <2>1, AppendFun, SMTT(30)
    <2>3. output' = [k \in 1..n |-> IF k <= m THEN output[k] ELSE R]
      BY <1>3, <1>8, <2>2
    <2>4. PICK h : h = output'
      OBVIOUS
    <2>5. h = [k \in 1..n |-> h[k]]
      BY <2>3, <2>4
    <2>6. Len(h) = n
      BY <2>5, SeqFun
    <2> QED
      BY <1>3, <2>3, <2>4, <2>5, <2>6, SMTT(30)
  <1>17. Latest(output') = R /\ (Missed' <=> R = {})
    <2>1. Latest(output') = R
      BY <1>16 DEF Latest
    <2>2. output' # << >>
      BY <1>4, <1>16, SMTT(30)
    <2> QED
      BY <2>1, <2>2 DEF Missed
  <1>18. Rounds' = Rounds /\ UNCHANGED query /\ \A s : Start(s)' = Start(s)
    BY <1>2 DEF Rounds, query, Start, Starts
  <1>19. SingleTypes'
    BY <1>1, <1>2, <1>16, <1>18 DEF SingleTypes, query
  <1>20. SingleRounds'
    BY <1>1, <1>2, <1>4, <1>16, <1>18 DEF SingleRounds
  <1>21. \A s \in Sides : SingleSide(s)'
    <2> TAKE s \in Sides
    <2>1. Explored(s) = n /\ Explored(s)' = n
      BY <1>2, <1>3, <1>16 DEF Explored
    <2> QED
      BY <1>1, <1>2, <1>18, <2>1 DEF SingleSide, query
  <1>22. SingleHists'
    BY <1>2, <1>8, <1>9, <1>16, <1>17 DEF SingleHists, fv, bv
  <1>23. SingleOutput'
    <2>1. \A k \in 1..n : \A p \in output'[k] : IsWalkBetween(p, graph, from, to, 2 * k)
      <3> TAKE k \in 1..n
      <3>1. CASE k = n
        BY <1>15, <1>16, <3>1 DEF IsFound
      <3>2. CASE k # n
        <4>1. k \in 1..m /\ k \in 1..Len(output)
          BY <1>3, <3>2, SMTT(30)
        <4> QED
          BY <1>1, <1>16, <4>1 DEF SingleOutput
      <3> QED
        BY <3>1, <3>2
    <2>2. ASSUME from # to
          PROVE  /\ R = {} => NoWalk(graph, from, to, 2 * n)
                 /\ R # {} => IsShortest(R, graph, from, to, 2 * n)
      <3>1. 2 * Len(output) = 2 * n - 2
        BY <1>3, SMTT(30)
      <3>2. NoWalk(graph, from, to, 2 * n - 2)
        BY <1>1, <1>4, <2>2, <3>1 DEF SingleOutput
      <3> QED
        BY <1>15, <2>2, <3>2 DEF IsFound
    <2> QED
      BY <1>16, <1>17, <1>18, <2>1, <2>2 DEF SingleOutput, query
  <1>24. answer' = IF stage' = "done" THEN Latest(output') ELSE {}
    BY <1>1, <1>2
  <1> QED
    BY <1>19, <1>20, <1>21, <1>22, <1>23, <1>24 DEF SingleInv

\* Every step of the plan for one pair keeps the invariant.
LEMMA SingleStep ==
    ASSUME SingleInv, SingleNext
    PROVE  SingleInv'
    BY SingleLoopStep, SingleExpandStep, SingleConjunctStep, SingleCollectStep DEF SingleNext

\* The levels of a side are its distances.
LEMMA SingleLevelsHold ==
    ASSUME SingleInv
    PROVE  SingleLevels
  <1> SUFFICES ASSUME NEW s \in Sides, NEW k \in 1..(Len(pathVar[s]) - 1)
               PROVE  LET near == Ball(graph, {Start(s)}, k - 1, s)
                      IN  {a \in pathVar[s][k + 1] : a.dst # Start(s)}
                            = {a \in GetNeighbors(graph, near, s) : a.dst \notin near}
    BY DEF SingleLevels
  <1>1. Explored(s) \in Nat
    BY SMTT(30) DEF SingleInv, SingleTypes, Explored
  <1>2. PICK h : \E c \in Nat, n \in Nat : c = Explored(s) /\ n = c + 1 /\ h = pathVar[s]
    BY <1>1, SMTT(30)
  <1>a. PICK c \in Nat, n \in Nat : c = Explored(s) /\ n = c + 1 /\ h = pathVar[s]
    BY <1>2
  <1>3. /\ h = [i \in 1..n |-> h[i]]
        /\ \A i \in 1..c : IsLevel(graph, Start(s), s, i, h[i + 1])
    BY <1>a DEF SingleInv, SingleSide, HasLevels
  <1>4. Len(h) = n
    BY <1>3, SeqFun
  <1>5. k \in 1..c
    BY <1>a, <1>4, SMTT(30)
  <1>6. IsLevel(graph, Start(s), s, k, h[k + 1])
    BY <1>3, <1>5
  <1> QED
    BY <1>a, <1>6 DEF IsLevel

\* The rounds look for walks of up to this many steps.
LEMMA TwoPerRound ==
    ASSUME steps \in Nat
    PROVE  /\ Rounds \in Nat /\ 2 * Rounds \in Nat /\ 2 * Rounds = steps + (steps % 2)
           /\ steps % 2 = 1 => 2 * Rounds = steps + 1
           /\ steps % 2 # 1 => 2 * Rounds = steps
  <1>1. steps = 2 * (steps \div 2) + (steps % 2) /\ steps % 2 \in {0, 1} /\ steps \div 2 \in Nat
    BY SMTT(30)
  <1>2. PICK d \in Nat, r \in {0, 1} : d = steps \div 2 /\ r = steps % 2 /\ steps = 2 * d + r
    BY <1>1
  <1>3. Rounds = d + r
    BY <1>2 DEF Rounds
  <1> QED
    BY <1>2, <1>3, SMTT(30)

\* The walks within a bound are those within a larger one that are short enough.
LEMMA WithinBound ==
    ASSUME NEW g, NEW F, NEW T, NEW n \in Nat, NEW m \in Nat, NEW w \in WalksBetween(g, F, T, m)
    PROVE  /\ Len(w.steps) \in 1..m
           /\ Len(w.steps) <= n => w \in WalksBetween(g, F, T, n)
  <1>1. PICK k \in 1..m : w \in Walks(g, F, k, "forward")
    BY DEF WalksBetween
  <1>2. EndOf(w) \in T
    BY DEF WalksBetween
  <1>3. k \in Nat
    BY SMTT(30)
  <1>4. Len(w.steps) = k
    BY <1>1, <1>3, WalkShape, SMTT(30)
  <1>5. k <= n => k \in 1..n
    BY <1>3, SMTT(30)
  <1> QED
    BY <1>1, <1>2, <1>4, <1>5 DEF WalksBetween

\* A larger bound does not change the shortest walks, once there is one.
LEMMA ShortestWithin ==
    ASSUME NEW g, NEW F, NEW T, NEW n \in Nat, NEW m \in Nat, n <= m, WalksBetween(g, F, T, n) # {}
    PROVE  Shortest(WalksBetween(g, F, T, m)) = Shortest(WalksBetween(g, F, T, n))
  <1> DEFINE A == WalksBetween(g, F, T, n)
             B == WalksBetween(g, F, T, m)
  <1>1. \A w \in A : Len(w.steps) \in 1..n /\ w \in B
    <2> SUFFICES ASSUME NEW w \in A PROVE Len(w.steps) \in 1..n /\ w \in B
      OBVIOUS
    <2>1. Len(w.steps) \in 1..n
      BY WithinBound
    <2>2. Len(w.steps) <= m
      BY <2>1, SMTT(30)
    <2> QED
      BY <2>1, <2>2, WithinBound
  <1>2. \A w \in B : Len(w.steps) \in 1..m /\ (Len(w.steps) <= n => w \in A)
    BY WithinBound
  <1>3. PICK a : a \in A
    OBVIOUS
  <1> HIDE DEF A, B
  <1>4. ASSUME NEW p \in B, \A q \in B : Len(p.steps) <= Len(q.steps)
        PROVE  p \in A /\ \A q \in A : Len(p.steps) <= Len(q.steps)
    BY <1>1, <1>2, <1>3, <1>4, SMTT(30)
  <1>5. ASSUME NEW p \in A, \A q \in A : Len(p.steps) <= Len(q.steps)
        PROVE  p \in B /\ \A q \in B : Len(p.steps) <= Len(q.steps)
    BY <1>1, <1>2, <1>5, SMTT(30)
  <1> QED
    BY <1>4, <1>5 DEF Shortest, A, B

\* Every row of the answer is a path within the rounded bound.
LEMMA SingleSound ==
    ASSUME SingleInv, NEW p \in answer
    PROVE  /\ IsWalkBetween(p, graph, from, to, steps + (steps % 2))
           /\ noLoop => ~HasDuplicateVertices(p)
  <1>1. noLoop = FALSE /\ Len(output) \in Nat /\ output = [k \in 1..Len(output) |-> output[k]] /\ steps \in Nat
    BY DEF SingleInv, SingleTypes
  <1>2. p \in Latest(output) /\ Len(output) <= Rounds /\ output # << >>
    BY DEF SingleInv, SingleRounds
  <1>3. Rounds \in Nat
    BY <1>1, SMTT(30) DEF Rounds
  <1>4. Len(output) # 0
    <2>1. Len(output) = 0 => output = [k \in 1..0 |-> output[k]]
      BY <1>1
    <2> QED
      BY <1>2, <2>1, SMTT(30)
  <1>5. PICK n \in Nat, m \in Nat : n = 2 * Len(output) /\ m = 2 * Rounds /\ n <= m
    <2>1. 2 * Len(output) \in Nat /\ 2 * Rounds \in Nat /\ 2 * Len(output) <= 2 * Rounds
      BY <1>1, <1>2, <1>3, SMTT(30)
    <2> QED
      BY <2>1
  <1>6. IsWalkBetween(p, graph, from, to, n)
    <2>1. Len(output) \in 1..Len(output)
      BY <1>1, <1>4, SMTT(30)
    <2> QED
      BY <1>2, <1>5, <2>1 DEF SingleInv, SingleOutput, Latest
  <1>7. IsWalkBetween(p, graph, from, to, m)
    BY <1>5, <1>6, WalkBetweenGrows
  <1> QED
    BY <1>1, <1>5, <1>7, TwoPerRound

\* The answer is every shortest walk.
LEMMA SingleAnswerHolds ==
    ASSUME SingleInv
    PROVE  SingleAnswer
  <1> DEFINE upTo(n) == WalksBetween(graph, from, to, n)
             tooLong == upTo(steps) = {} /\ steps % 2 = 1
  <1> SUFFICES ASSUME stage = "done"
               PROVE  IF from = to THEN answer \subseteq upTo(steps + (steps % 2))
                      ELSE answer = Shortest(upTo(IF tooLong THEN steps + 1 ELSE steps))
    BY DEF SingleAnswer
  <1>1. answer \subseteq upTo(steps + (steps % 2))
    <2> SUFFICES ASSUME NEW p \in answer PROVE p \in upTo(steps + (steps % 2))
      OBVIOUS
    <2>1. IsWalkBetween(p, graph, from, to, steps + (steps % 2))
      BY SingleSound
    <2> QED
      BY <2>1 DEF IsWalkBetween, WalksBetween
  <1>2. ASSUME from # to PROVE answer = Shortest(upTo(IF tooLong THEN steps + 1 ELSE steps))
    <2>1. /\ answer = Latest(output) /\ output # << >> /\ Len(output) <= Rounds /\ Len(output) \in Nat
          /\ Len(output) = Rounds \/ ~Missed
          /\ Missed => NoWalk(graph, from, to, 2 * Len(output))
          /\ ~Missed => IsShortest(Latest(output), graph, from, to, 2 * Len(output))
          /\ steps \in Nat
      BY <1>2 DEF SingleInv, SingleTypes, SingleRounds, SingleOutput
    <2>2. /\ Rounds \in Nat /\ 2 * Rounds \in Nat
          /\ steps % 2 = 1 => 2 * Rounds = steps + 1
          /\ steps % 2 # 1 => 2 * Rounds = steps
      BY <2>1, TwoPerRound
    <2>3. answer = Shortest(upTo(2 * Rounds))
      <3>1. CASE Missed
        <4>1. answer = {} /\ NoWalk(graph, from, to, 2 * Rounds)
          BY <2>1, <3>1 DEF Missed
        <4>2. upTo(2 * Rounds) = {}
          BY <4>1 DEF NoWalk, WalksBetween
        <4> QED
          BY <4>1, <4>2 DEF Shortest
      <3>2. CASE ~Missed
        <4>1. 2 * Rounds >= 2 * Len(output)
          BY <2>1, <2>2, SMTT(30)
        <4> QED
          BY <2>1, <2>2, <3>2, <4>1 DEF IsShortest
      <3> QED
        BY <3>1, <3>2
    <2>4. CASE steps % 2 # 1
      BY <2>2, <2>3, <2>4
    <2>5. CASE steps % 2 = 1 /\ upTo(steps) = {}
      BY <2>2, <2>3, <2>5
    <2>6. CASE steps % 2 = 1 /\ upTo(steps) # {}
      <3>1. steps + 1 \in Nat /\ steps <= steps + 1
        BY <2>1, SMTT(30)
      <3>2. Shortest(upTo(steps + 1)) = Shortest(upTo(steps))
        BY <2>1, <2>6, <3>1, ShortestWithin
      <3> QED
        BY <2>2, <2>3, <2>6, <3>2
    <2> QED
      BY <2>4, <2>5, <2>6
  <1> QED
    BY <1>1, <1>2
=============================================================================
