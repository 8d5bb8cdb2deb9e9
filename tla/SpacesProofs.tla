---------------------------- MODULE SpacesProofs ----------------------------
(***************************************************************************)
(* Proofs about Spaces: a statement reaches the space it is meant for      *)
(* (RightSpace), a session leaves a space it drops (OwnDropForgotten), and *)
(* a request with which nothing interferes runs as it was validated        *)
(* (RunsAsValidated), for any number of sessions, requests and spaces and  *)
(* for requests of any length.                                             *)
(***************************************************************************)
EXTENDS Spaces, TLAPS

(***************************************************************************)
(* The inductive invariant.                                                *)
(***************************************************************************)
TypeOK ==
    /\ nameOf \in Seq(Names) /\ Len(nameOf) <= MaxSpaces
    /\ alive \in SUBSET (1 .. Len(nameOf))
    /\ cache \in SUBSET (1 .. Len(nameOf))
    /\ space \in [Sessions -> SpaceInfo]
    /\ req \in [Requests -> RequestType \cup {Idle}]
    /\ shared \in SUBSET Sessions
    /\ gone \in [Sessions -> SUBSET Ids]

\* There is, or was, a space with this id and this name.
Known(i, n) == i \in 1 .. Len(nameOf) /\ nameOf[i] = n

\* The statements from i to k - 1 have no USE; the last USE before k is at j.
NoUse(t, i, k) == \A m \in i .. k - 1 : t[m].op # "use"
LastUse(t, j, k) == j \in 1 .. k - 1 /\ t[j].op = "use" /\ NoUse(t, j + 1, k)

SpacesKnown == \A s \in Sessions : space[s] = NoSpace \/ Known(space[s].id, space[s].name)
GoneIsDead == \A s \in Sessions : \A i \in gone[s] : i \in 1 .. Len(nameOf) /\ i \notin alive
OverlapsShared ==
    \A x, y \in Requests :
        x # y /\ req[x] # Idle /\ req[y] # Idle /\ req[x].by = req[y].by => req[x].by \in shared

\* What was meant for the object statements before n: the space of the last
\* USE.
WantedByUse(q, n) ==
    \A k \in 1 .. n : \A j \in 1 .. n :
        q.text[k].op \in ObjectOps /\ LastUse(q.text, j, k) => q.wanted[k] = q.text[j].name
\* ALTERs are planned with the space they are meant for.
PlannedFor(q, n) ==
    \A k \in 1 .. n :
        q.text[k].op = "alter" => q.plan[k] = kInvalidSpaceID \/ Known(q.plan[k], q.wanted[k])

\* The ValidateContext is in the space of the last USE, or else of the session.
InLastUse(q) ==
    /\ q.here = NoSpace \/ q.here.id = kInvalidSpaceID \/ Known(q.here.id, q.here.name)
    /\ \A j \in 1 .. q.at - 1 : LastUse(q.text, j, q.at) => q.here.name = q.text[j].name
    /\ NoUse(q.text, 1, q.at) \/ \E j \in 1 .. q.at - 1 : LastUse(q.text, j, q.at)
    /\ NoUse(q.text, 1, q.at) /\ q.by \notin shared => q.here.name = space[q.by].name
ValidatedFor(q) ==
    /\ Len(q.plan) = q.at - 1 /\ Len(q.wanted) = q.at - 1
    /\ WantedByUse(q, q.at - 1)
    /\ PlannedFor(q, q.at - 1)
    /\ \A k \in 1 .. q.at - 1 :
          q.text[k].op \in ObjectOps /\ NoUse(q.text, 1, k) /\ q.by \notin shared
             => q.wanted[k] = space[q.by].name

\* Until the next USE the statements to come are meant for the space of the
\* session, unless a DROP SPACE has left it in none.
MeantForSession(q) ==
    \A k \in q.at .. Len(q.text) :
        q.text[k].op \in ObjectOps /\ NoUse(q.text, q.at, k) /\ q.by \notin shared
            => space[q.by] = NoSpace \/ q.wanted[k] = space[q.by].name
ExecutedFor(q) ==
    /\ Len(q.plan) = Len(q.text) /\ Len(q.wanted) = Len(q.text)
    /\ WantedByUse(q, Len(q.text))
    /\ PlannedFor(q, Len(q.text))
    /\ MeantForSession(q)
CalledFor(q) ==
    IF Statement(q).op \in ObjectOps
    THEN \/ q.target = kInvalidSpaceID
         \/ Known(q.target, q.wanted[q.at])
         \/ Statement(q).op # "alter" /\ q.by \in shared
    ELSE q.target = kInvalidSpaceID
\* What the answer names was there, and what a DROP SPACE dropped is not.
AnsweredFor(q) ==
    /\ Statement(q).op = "use" =>
          /\ Known(q.target, Statement(q).name)
          /\ q.by \notin shared => q.target \notin gone[q.by]
    /\ Statement(q).op = "drop space" =>
          \/ q.target = kInvalidSpaceID
          \/ Known(q.target, Statement(q).name) /\ q.target \notin alive

Aimed(q) ==
    /\ q.at \in 1 .. Len(q.text)
    /\ q.phase = "validate" => InLastUse(q) /\ ValidatedFor(q)
    /\ q.phase \in {"execute", "called", "answered"} => ExecutedFor(q)
    /\ q.phase = "called" => CalledFor(q)
    /\ q.phase = "answered" /\ q.ok => AnsweredFor(q)
AllAimed == \A r \in Requests : req[r] # Idle => Aimed(req[r])

AimInv ==
    /\ TypeOK /\ SpacesKnown /\ GoneIsDead /\ OverlapsShared
    /\ AllAimed /\ OwnDropForgotten

-----------------------------------------------------------------------------
(* Facts about requests *)

\* What the fields of a request are.
LEMMA Fields ==
    ASSUME NEW q \in RequestType
    PROVE  /\ q # Idle
           /\ q.phase \in Phases /\ q.by \in Sessions /\ q.text \in Texts /\ q.at \in Nat
           /\ q.text \in Seq(Statements) /\ Len(q.text) \in Nat \ {0}
           /\ q.wanted \in Seq(Names \cup {""}) /\ q.here \in SpaceInfo
           /\ q.created \in SUBSET Names /\ q.schemas \in SUBSET Schemas
           /\ q.plan \in Seq(Ids \cup {kInvalidSpaceID})
           /\ q.target \in Ids \cup {kInvalidSpaceID} /\ q.ok \in BOOLEAN /\ q.calm \in BOOLEAN
  <1>1. q # Idle
    <2>1. q.phase \in Phases
      BY Zenon DEF RequestType
    <2>2. Idle.phase = "idle"
      BY DEF Idle
    <2> QED
      BY <2>1, <2>2 DEF Phases
  <1>2. q.text \in Seq(Statements) /\ q.text # <<>>
    BY TextsAssumption, Zenon DEF RequestType
  <1>3. Len(q.text) \in Nat \ {0}
    BY <1>2
  <1> QED
    BY <1>1, <1>2, <1>3, Zenon DEF RequestType

\* The position of a request in its text.
LEMMA Place ==
    ASSUME NEW q \in RequestType
    PROVE  q.at \in Nat /\ Len(q.text) \in Nat \ {0}
  BY Fields, Zenon

\* Positions of a sequence of n statements: one of them, one before the last,
\* and one after a.
LEMMA Within ==
    ASSUME NEW n \in Nat, NEW k \in 1 .. n
    PROVE  k \in Nat \ {0}
  OBVIOUS
LEMMA Earlier ==
    ASSUME NEW n \in Nat, NEW k \in 1 .. n, k # n
    PROVE  k \in 1 .. n - 1
  OBVIOUS
LEMMA Later ==
    ASSUME NEW a \in Nat, NEW n \in Nat, NEW k \in a + 1 .. n
    PROVE  k \in a .. n /\ \A j \in a .. k - 1 : j = a \/ j \in a + 1 .. k - 1
  OBVIOUS

\* NoSpace has no name.
LEMMA NoSpaceFields == NoSpace.name = "" /\ NoSpace.id = kInvalidSpaceID
  BY DEF NoSpace

\* What the fields of a space are.
LEMMA SpaceFields ==
    ASSUME NEW h \in SpaceInfo
    PROVE  h.name \in Names \cup {""} /\ h.id \in Ids \cup {kInvalidSpaceID}
  <1>1. CASE h = NoSpace
    BY <1>1, Zenon DEF NoSpace
  <1>2. CASE h # NoSpace
    BY <1>2, Zenon DEF SpaceInfo
  <1> QED
    BY <1>1, <1>2, Zenon

\* Append, for the provers.
LEMMA Appended ==
    ASSUME NEW S, NEW u \in Seq(S), NEW e \in S, NEW v, v = Append(u, e)
    PROVE  /\ v \in Seq(S) /\ Len(v) = Len(u) + 1
           /\ v[Len(u) + 1] = e
           /\ \A k \in 1 .. Len(u) : v[k] = u[k]
  OBVIOUS

\* The name in a statement on spaces is the name of a space.
LEMMA SpaceNames ==
    ASSUME NEW t \in Texts, NEW k \in 1 .. Len(t), t[k].op \in SpaceOps
    PROVE  t[k].name \in Names
  <1>1. t[k] \in Statements
    BY TextsAssumption
  <1> QED
    BY <1>1, Zenon DEF Statements, SpaceOps, ObjectOps, SessionOps

\* The last USE, one statement further on.
LEMMA UseStep ==
    ASSUME NEW t, NEW k \in Nat \ {0}, NEW i \in 1 .. k
    PROVE  /\ NoUse(t, i, k + 1) <=> NoUse(t, i, k) /\ t[k].op # "use"
           /\ \A j : LastUse(t, j, k + 1) <=>
                 \/ j = k /\ t[k].op = "use"
                 \/ t[k].op # "use" /\ LastUse(t, j, k)
  BY DEF NoUse, LastUse

\* The statement itself is either a USE or the next one is as far on.
LEMMA UseNext ==
    ASSUME NEW t, NEW i \in Nat, NEW k \in Int, i + 1 <= k
    PROVE  NoUse(t, i, k) <=> t[i].op # "use" /\ NoUse(t, i + 1, k)
  BY DEF NoUse

-----------------------------------------------------------------------------
(* Other requests *)

\* What the meta service does to its spaces.
Growth ==
    /\ Len(nameOf) <= Len(nameOf')
    /\ \A i \in 1 .. Len(nameOf) : nameOf'[i] = nameOf[i] /\ (i \in alive' => i \in alive)

\* The fields of a request that its aims depend on.
SameAims(p, q) ==
    /\ p.phase = q.phase /\ p.by = q.by /\ p.text = q.text /\ p.at = q.at
    /\ p.wanted = q.wanted /\ p.here = q.here /\ p.plan = q.plan
    /\ p.target = q.target /\ p.ok = q.ok

\* The aims of a request survive the steps of others, unless these change its
\* session, in which case the session is shared.
LEMMA Undisturbed ==
    ASSUME NEW q \in RequestType, NEW p \in RequestType, SameAims(p, q),
           nameOf \in Seq(Names), nameOf' \in Seq(Names), Growth, Aimed(q),
           shared \subseteq shared',
           q.by \in shared' \/ (space'[q.by] = space[q.by] /\ gone'[q.by] = gone[q.by])
    PROVE  Aimed(p)'
  <1>1. \A i, n : Known(i, n) => Known(i, n)'
    BY DEF Known, Growth
  <1>2. p.at \in 1 .. Len(p.text)
    BY DEF Aimed, SameAims
  <1>3. ASSUME p.phase = "validate" PROVE InLastUse(p)' /\ ValidatedFor(p)'
    <2>1. InLastUse(q) /\ ValidatedFor(q)
      BY <1>3 DEF Aimed, SameAims
    <2>2. InLastUse(p)'
      BY <2>1, <1>1 DEF InLastUse, SameAims
    <2>3. ValidatedFor(p)'
      BY <2>1, <1>1, SMTT(20) DEF ValidatedFor, WantedByUse, PlannedFor, SameAims
    <2> QED
      BY <2>2, <2>3
  <1>4. ASSUME p.phase \in {"execute", "called", "answered"} PROVE ExecutedFor(p)'
    <2>1. ExecutedFor(q)
      BY <1>4 DEF Aimed, SameAims
    <2> QED
      BY <2>1, <1>1 DEF ExecutedFor, MeantForSession, WantedByUse, PlannedFor, SameAims
  <1>5. ASSUME p.phase = "called" PROVE CalledFor(p)'
    BY <1>5, <1>1 DEF Aimed, CalledFor, Statement, SameAims
  <1>6. ASSUME p.phase = "answered", p.ok PROVE AnsweredFor(p)'
    <2>1. AnsweredFor(q)
      BY <1>6 DEF Aimed, SameAims
    <2> QED
      BY <2>1, <1>1, Zenon DEF AnsweredFor, Known, Growth, Statement, SameAims
  <1> QED
    BY <1>2, <1>3, <1>4, <1>5, <1>6 DEF Aimed

\* A step of request r, which touches at most its own session.
LEMMA OtherRequests ==
    ASSUME AimInv, TypeOK', Growth, NEW r \in Requests, req[r] # Idle,
           \A x \in Requests \ {r} : req'[x] = req[x],
           \A s \in Sessions \ {req[r].by} : space'[s] = space[s] /\ gone'[s] = gone[s],
           shared' = shared,
           req'[r] = Idle \/ (req'[r].by = req[r].by /\ Aimed(req[r])')
    PROVE  OverlapsShared' /\ AllAimed'
  <1>1. OverlapsShared'
    BY DEF AimInv, OverlapsShared
  <1>2. ASSUME NEW x \in Requests \ {r}, req'[x] # Idle
        PROVE  Aimed(req[x])'
    <2>1. req[x] # Idle /\ req[x] \in RequestType /\ Aimed(req[x])
      BY <1>2 DEF AimInv, TypeOK, AllAimed
    <2>2. req[x].by \in shared \/ req[x].by # req[r].by
      BY <1>2, <2>1 DEF AimInv, OverlapsShared
    <2>3. req[x].by \in Sessions
      BY <2>1, Fields, Zenon
    <2>4. \/ req[x].by \in shared'
          \/ space'[req[x].by] = space[req[x].by] /\ gone'[req[x].by] = gone[req[x].by]
      BY <2>2, <2>3
    <2>5. SameAims(req'[x], req[x]) /\ req'[x] \in RequestType
      BY <1>2, <2>1 DEF SameAims
    <2>6. nameOf \in Seq(Names) /\ nameOf' \in Seq(Names)
      BY DEF AimInv, TypeOK
    <2> QED
      BY <2>1, <2>4, <2>5, <2>6, Undisturbed
  <1> QED
    BY <1>1, <1>2 DEF AllAimed

\* A step that changes only the request itself.
LEMMA RequestOnly ==
    ASSUME AimInv, NEW r \in Requests, req[r] # Idle,
           UNCHANGED <<nameOf, alive, space, shared, gone>>, cache' \in {cache, alive},
           NEW v, req' = [req EXCEPT ![r] = v],
           v = Idle \/ (v \in RequestType /\ v.by = req[r].by /\ Aimed(v))
    PROVE  AimInv'
  <1>1. TypeOK'
    BY DEF AimInv, TypeOK
  <1>2. req'[r] = v /\ \A x \in Requests \ {r} : req'[x] = req[x]
    BY DEF AimInv, TypeOK
  <1>3. SpacesKnown' /\ GoneIsDead' /\ OwnDropForgotten'
    BY DEF AimInv, SpacesKnown, Known, GoneIsDead, OwnDropForgotten
  <1>4. Growth
    BY DEF Growth, AimInv, TypeOK
  <1>5. req'[r] = Idle \/ (req'[r].by = req[r].by /\ Aimed(req[r])')
    <2>1. SUFFICES ASSUME v \in RequestType, v.by = req[r].by, Aimed(v)
                   PROVE  Aimed(req[r])'
      BY <1>2
    <2>2. SameAims(req'[r], v) /\ req'[r] \in RequestType
      BY <1>2, <2>1 DEF SameAims
    <2>3. nameOf \in Seq(Names) /\ nameOf' \in Seq(Names)
      BY DEF AimInv, TypeOK
    <2> QED
      BY <1>4, <2>1, <2>2, <2>3, Undisturbed
  <1>6. OverlapsShared' /\ AllAimed'
    BY <1>1, <1>2, <1>4, <1>5, OtherRequests
  <1> QED
    BY <1>1, <1>3, <1>6 DEF AimInv

-----------------------------------------------------------------------------
(* Validation *)

\* A statement is meant for the space its ValidateContext is in.
LEMMA WantedIsHere ==
    ASSUME NEW q \in RequestType, q.at \in 1 .. Len(q.text), InLastUse(q),
           Statement(q).op \in ObjectOps
    PROVE  Wanted(q) = q.here.name
  <1>0. q.at \in Nat
    BY Place
  <1> DEFINE uses == {k \in 1 .. q.at - 1 : q.text[k].op = "use"}
  <1>1. CASE uses = {}
    BY <1>1, Zenon DEF Wanted
  <1>2. CASE uses # {}
    <2>1. PICK j \in 1 .. q.at - 1 : LastUse(q.text, j, q.at)
      BY <1>2 DEF InLastUse, NoUse
    <2>2. j \in uses /\ \A y \in uses : j >= y
      BY <1>0, <2>1 DEF LastUse, NoUse
    <2>3. Max(uses) \in uses /\ \A y \in uses : Max(uses) >= y
      BY <2>2, Zenon DEF Max
    <2>4. Max(uses) = j
      <3>1. Max(uses) \in Int /\ j \in Int
        BY <1>0, <2>2, <2>3
      <3>2. j >= Max(uses) /\ Max(uses) >= j
        BY <2>2, <2>3, Zenon
      <3> QED
        BY <3>1, <3>2
    <2>5. Wanted(q) = q.text[j].name
      BY <1>2, <2>4, Zenon DEF Wanted
    <2> QED
      BY <2>1, <2>5 DEF InLastUse
  <1> QED
    BY <1>1, <1>2

\* Where the ValidateContext is once the statement is validated.
InThisUse(q) ==
    /\ q.here = NoSpace \/ q.here.id = kInvalidSpaceID \/ Known(q.here.id, q.here.name)
    /\ \A j \in 1 .. q.at : LastUse(q.text, j, q.at + 1) => q.here.name = q.text[j].name
    /\ NoUse(q.text, 1, q.at + 1) \/ \E j \in 1 .. q.at : LastUse(q.text, j, q.at + 1)
    /\ NoUse(q.text, 1, q.at + 1) /\ q.by \notin shared => q.here.name = space[q.by].name

\* A validated statement is added to the plan.
LEMMA Planning ==
    ASSUME NEW q \in RequestType, q.phase = "validate", q.at \in 1 .. Len(q.text),
           ValidatedFor(q), InThisUse(q),
           Statement(q).op \in ObjectOps => Wanted(q) = q.here.name
    PROVE  Planned(q) \in RequestType /\ Planned(q).by = q.by /\ Aimed(Planned(q))
  <1> DEFINE p == Planned(q)
  <1> DEFINE id == IF Statement(q).op = "alter" THEN q.here.id ELSE kInvalidSpaceID
  <1>0. Len(q.text) \in Nat \ {0} /\ q.at \in Nat
    BY Place
  <1>a. id \in Ids \cup {kInvalidSpaceID} /\ Wanted(q) \in Names \cup {""}
    <2>1. q.here \in SpaceInfo
      BY Fields, Zenon
    <2>2. q.here.name \in Names \cup {""} /\ q.here.id \in Ids \cup {kInvalidSpaceID}
      BY <2>1, SpaceFields, Zenon
    <2>3. Statement(q).op \notin ObjectOps => Wanted(q) = ""
      BY Zenon DEF Wanted
    <2> QED
      BY <2>2, <2>3, Zenon
  <1>b. q.plan \in Seq(Ids \cup {kInvalidSpaceID}) /\ q.wanted \in Seq(Names \cup {""})
    BY Fields, Zenon
  <1>1. /\ p.by = q.by /\ p.text = q.text
        /\ p.plan = Append(q.plan, id) /\ p.wanted = Append(q.wanted, Wanted(q))
        /\ Last(q) => p.phase = "execute" /\ p.at = 1
        /\ ~Last(q) => p.phase = "validate" /\ p.at = q.at + 1 /\ p.here = q.here
    BY Zenon DEF Planned, RequestType
  <1>2. p \in RequestType
    <2>1. Append(q.plan, id) \in Seq(Ids \cup {kInvalidSpaceID})
      BY <1>a, <1>b, Appended, ZenonT(30)
    <2>2. Append(q.wanted, Wanted(q)) \in Seq(Names \cup {""})
      BY <1>a, <1>b, Appended, Zenon
    <2>3. NoSpace \in SpaceInfo
      BY DEF SpaceInfo
    <2> DEFINE a == [q EXCEPT !.plan = Append(@, id), !.wanted = Append(@, Wanted(q))]
    <2>4. a \in RequestType
      BY <2>1, <2>2, Zenon DEF RequestType
    <2>5. p = IF Last(q) THEN [a EXCEPT !.phase = "execute", !.at = 1, !.here = NoSpace,
                                        !.created = {}, !.schemas = {}]
              ELSE [a EXCEPT !.at = @ + 1]
      BY DEF Planned
    <2> HIDE DEF a, p
    <2>6. [a EXCEPT !.at = @ + 1] \in RequestType
      <3>1. a.at + 1 \in Nat
        BY <2>4, Place
      <3> QED
        BY <2>4, <3>1, Zenon DEF RequestType
    <2>7. [a EXCEPT !.phase = "execute", !.at = 1, !.here = NoSpace,
                    !.created = {}, !.schemas = {}] \in RequestType
      BY <2>3, <2>4, Zenon DEF RequestType, Phases
    <2> QED
      BY <2>5, <2>6, <2>7
  <1>3. /\ Len(p.plan) = q.at /\ Len(p.wanted) = q.at
        /\ p.wanted[q.at] = Wanted(q) /\ p.plan[q.at] = id
        /\ \A k \in 1 .. q.at - 1 : p.wanted[k] = q.wanted[k] /\ p.plan[k] = q.plan[k]
    <2> HIDE DEF id
    <2>1. Len(q.plan) = q.at - 1 /\ Len(q.wanted) = q.at - 1
      BY DEF ValidatedFor
    <2>2. /\ Len(p.plan) = Len(q.plan) + 1 /\ p.plan[Len(q.plan) + 1] = id
          /\ \A k \in 1 .. Len(q.plan) : p.plan[k] = q.plan[k]
      <3>1. PICK S, u, e, v : S = Ids \cup {kInvalidSpaceID} /\ u = q.plan /\ e = id /\ v = p.plan
        BY Zenon
      <3>2. u \in Seq(S) /\ e \in S /\ v = Append(u, e)
        BY <1>a, <1>b, <1>1, <3>1, Zenon
      <3>3. Len(v) = Len(u) + 1 /\ v[Len(u) + 1] = e /\ \A k \in 1 .. Len(u) : v[k] = u[k]
        BY <3>2, Appended
      <3> QED
        BY <3>1, <3>3
    <2>3. /\ Len(p.wanted) = Len(q.wanted) + 1 /\ p.wanted[Len(q.wanted) + 1] = Wanted(q)
          /\ \A k \in 1 .. Len(q.wanted) : p.wanted[k] = q.wanted[k]
      <3>1. PICK S, u, e, v : S = Names \cup {""} /\ u = q.wanted /\ e = Wanted(q) /\ v = p.wanted
        BY Zenon
      <3>2. u \in Seq(S) /\ e \in S /\ v = Append(u, e)
        BY <1>a, <1>b, <1>1, <3>1, Zenon
      <3>3. Len(v) = Len(u) + 1 /\ v[Len(u) + 1] = e /\ \A k \in 1 .. Len(u) : v[k] = u[k]
        BY <3>2, Appended
      <3> QED
        BY <3>1, <3>3, Zenon
    <2> QED
      BY <1>0, <2>1, <2>2, <2>3
  <1>4. WantedByUse(p, q.at)
    <2> SUFFICES ASSUME NEW k \in 1 .. q.at, NEW j \in 1 .. q.at, q.text[k].op \in ObjectOps,
                        LastUse(q.text, j, k)
                 PROVE  p.wanted[k] = q.text[j].name
      BY <1>1, Zenon DEF WantedByUse
    <2>1. CASE k = q.at
      <3>1. q.text[k].op # "use"
        BY DEF ObjectOps, SessionOps
      <3>2. LastUse(q.text, j, q.at + 1)
        BY <2>1, <3>1, <1>0, UseStep
      <3> QED
        BY <2>1, <3>2, <1>3 DEF InThisUse, Statement
    <2>2. CASE k # q.at
      <3>1. k \in 1 .. q.at - 1 /\ j \in 1 .. q.at - 1
        BY <2>2, <1>0 DEF LastUse
      <3> QED
        BY <3>1, <1>3 DEF ValidatedFor, WantedByUse
    <2> QED
      BY <2>1, <2>2
  <1>5. PlannedFor(p, q.at)
    <2> SUFFICES ASSUME NEW k \in 1 .. q.at, q.text[k].op = "alter"
                 PROVE  p.plan[k] = kInvalidSpaceID \/ Known(p.plan[k], p.wanted[k])
      BY <1>1, Zenon DEF PlannedFor
    <2>1. CASE k = q.at
      <3>1. Wanted(q) = q.here.name /\ id = q.here.id
        BY <2>1 DEF Statement, ObjectOps
      <3>2. q.here.id = kInvalidSpaceID \/ Known(q.here.id, q.here.name)
        BY NoSpaceFields, Zenon DEF InThisUse
      <3>3. p.plan[k] = q.here.id /\ p.wanted[k] = q.here.name
        BY <2>1, <3>1, <1>3
      <3> QED
        BY <3>2, <3>3
    <2>2. CASE k # q.at
      <3>1. k \in 1 .. q.at - 1
        BY <2>2, <1>0
      <3> QED
        BY <3>1, <1>3, Zenon DEF ValidatedFor, PlannedFor
    <2> QED
      BY <2>1, <2>2
  <1>6. ASSUME NEW k \in 1 .. q.at, q.text[k].op \in ObjectOps, NoUse(q.text, 1, k), q.by \notin shared
        PROVE  p.wanted[k] = space[q.by].name
    <2>1. CASE k = q.at
      <3>1. q.text[k].op # "use"
        BY <1>6 DEF ObjectOps, SessionOps
      <3>2. NoUse(q.text, 1, q.at + 1)
        BY <2>1, <3>1, <1>6, <1>0, UseStep
      <3> QED
        BY <2>1, <3>2, <1>3, <1>6 DEF InThisUse, Statement
    <2>2. CASE k # q.at
      <3>1. k \in 1 .. q.at - 1
        BY <2>2, <1>0
      <3> QED
        BY <3>1, <1>3, <1>6 DEF ValidatedFor
    <2> QED
      BY <2>1, <2>2
  <1>7. CASE Last(q)
    <2>1. q.at = Len(q.text)
      BY <1>7 DEF Last
    <2>2. ExecutedFor(p)
      <3>1. MeantForSession(p)
        BY <1>1, <1>6, <1>7, <2>1, Zenon DEF MeantForSession
      <3> QED
        BY <1>1, <1>3, <1>4, <1>5, <2>1, <3>1 DEF ExecutedFor
    <2> QED
      BY <1>0, <1>1, <1>2, <1>7, <2>2 DEF Aimed
  <1>8. CASE ~Last(q)
    <2>1. q.at + 1 \in 1 .. Len(q.text) /\ p.at - 1 = q.at
      BY <1>0, <1>1, <1>8 DEF Last
    <2>2. InLastUse(p)
      BY <1>1, <1>8, <2>1 DEF InLastUse, InThisUse
    <2>3. ValidatedFor(p)
      BY <1>1, <1>3, <1>4, <1>5, <1>6, <2>1 DEF ValidatedFor
    <2> QED
      BY <1>1, <1>2, <1>8, <2>1, <2>2, <2>3 DEF Aimed
  <1> QED
    BY <1>1, <1>2, <1>7, <1>8

\* A request in one of the phases is under way.
LEMMA UnderWay ==
    ASSUME AimInv, NEW r \in Requests, req[r].phase \in Phases
    PROVE  req[r] # Idle /\ req[r] \in RequestType /\ Aimed(req[r])
  <1>1. Idle.phase = "idle"
    BY DEF Idle
  <1>2. req[r] # Idle
    BY <1>1 DEF Phases
  <1> QED
    BY <1>2 DEF AimInv, TypeOK, AllAimed

\* The ValidateContext after a statement that is not a USE.
LEMMA StaysHere ==
    ASSUME NEW q \in RequestType, q.at \in 1 .. Len(q.text), InLastUse(q), Statement(q).op # "use"
    PROVE  InThisUse(q)
  <1>1. q.at \in Nat \ {0}
    BY Place
  <1>2. /\ NoUse(q.text, 1, q.at + 1) <=> NoUse(q.text, 1, q.at)
        /\ \A j : LastUse(q.text, j, q.at + 1) <=> LastUse(q.text, j, q.at)
    BY <1>1, UseStep DEF Statement
  <1>3. \A j \in 1 .. q.at : LastUse(q.text, j, q.at) => j \in 1 .. q.at - 1
    BY DEF LastUse
  <1>4. \A j \in 1 .. q.at - 1 : j \in 1 .. q.at
    BY <1>1
  <1> QED
    BY <1>2, <1>3, <1>4 DEF InLastUse, InThisUse

\* Every other statement leaves the context where it is.
LEMMA OtherPlanned ==
    ASSUME NEW q \in RequestType, q.phase = "validate", Aimed(q), Statement(q).op # "use",
           NEW a \in RequestType, SameAims(a, q)
    PROVE  Planned(a) \in RequestType /\ Planned(a).by = q.by /\ Aimed(Planned(a))
  <1>1. InLastUse(a) /\ ValidatedFor(a) /\ a.at \in 1 .. Len(a.text)
    <2>1. InLastUse(q) /\ ValidatedFor(q) /\ q.at \in 1 .. Len(q.text)
      BY DEF Aimed
    <2> QED
      BY <2>1 DEF InLastUse, ValidatedFor, WantedByUse, PlannedFor, SameAims
  <1>2. InThisUse(a)
    BY <1>1, StaysHere DEF Statement, SameAims
  <1>3. Statement(a).op \in ObjectOps => Wanted(a) = a.here.name
    BY <1>1, WantedIsHere
  <1>4. a.phase = "validate" /\ a.by = q.by
    BY DEF SameAims
  <1> QED
    BY <1>1, <1>2, <1>3, <1>4, Planning

\* A USE moves it.
LEMMA UsePlanned ==
    ASSUME NEW q \in RequestType, q.phase = "validate", Aimed(q), Statement(q).op = "use",
           NEW i \in Ids \cup {kInvalidSpaceID},
           i = kInvalidSpaceID \/ Known(i, Statement(q).name)
    PROVE  LET p == Planned([q EXCEPT !.here = [name |-> Statement(q).name, id |-> i]])
           IN  p \in RequestType /\ p.by = q.by /\ Aimed(p)
  <1> DEFINE h == [name |-> Statement(q).name, id |-> i]
             a == [q EXCEPT !.here = h]
  <1>1. q.at \in 1 .. Len(q.text) /\ q.at \in Nat \ {0} /\ ValidatedFor(q)
    BY Place DEF Aimed
  <1>2. h \in SpaceInfo
    <2>1. Statement(q).name \in Names
      BY <1>1, SpaceNames, Fields, Zenon DEF Statement, SpaceOps
    <2> QED
      BY <2>1 DEF SpaceInfo
  <1>3. a \in RequestType
    BY <1>2, Zenon DEF RequestType
  <1>4. /\ a.phase = q.phase /\ a.by = q.by /\ a.text = q.text /\ a.at = q.at /\ a.here = h
        /\ a.plan = q.plan /\ a.wanted = q.wanted
    BY Zenon DEF RequestType
  <1>5. h.name = q.text[q.at].name /\ h.id = i
    BY DEF Statement
  <1> HIDE DEF a, h
  <1>6. ValidatedFor(a) /\ a.at \in 1 .. Len(a.text)
    BY <1>1, <1>4 DEF ValidatedFor, WantedByUse, PlannedFor
  <1>7. InThisUse(a)
    <2>1. /\ ~NoUse(q.text, 1, q.at + 1)
          /\ \A j : LastUse(q.text, j, q.at + 1) <=> j = q.at
      <3>1. q.text[q.at].op = "use"
        BY DEF Statement
      <3>2. /\ NoUse(q.text, 1, q.at + 1) <=> NoUse(q.text, 1, q.at) /\ q.text[q.at].op # "use"
            /\ \A j : LastUse(q.text, j, q.at + 1) <=>
                  \/ j = q.at /\ q.text[q.at].op = "use"
                  \/ q.text[q.at].op # "use" /\ LastUse(q.text, j, q.at)
        <4>1. q.at \in Nat \ {0} /\ 1 \in 1 .. q.at
          BY <1>1
        <4> QED
          BY <4>1, UseStep, Zenon
      <3> QED
        BY <3>1, <3>2
    <2>2. h.id = kInvalidSpaceID \/ Known(h.id, h.name)
      BY <1>5 DEF Statement
    <2>3. q.at \in 1 .. q.at
      BY <1>1
    <2> QED
      BY <1>4, <1>5, <2>1, <2>2, <2>3 DEF InThisUse
  <1>8. Statement(a).op \notin ObjectOps
    BY <1>4 DEF Statement, ObjectOps, SessionOps
  <1>9. Planned(a) \in RequestType /\ Planned(a).by = a.by /\ Aimed(Planned(a))
    BY <1>3, <1>4, <1>6, <1>7, <1>8, Planning
  <1> QED
    BY <1>4, <1>9 DEF a, h

\* The validators.
LEMMA ValidationAims ==
    ASSUME AimInv, NEW r \in Requests,
           \/ ValidateUse(r) \/ ValidateCreateSpace(r) \/ ValidateDropSpace(r)
           \/ ValidateObject(r) \/ ValidateFails(r)
    PROVE  AimInv'
  <1> DEFINE q == req[r]
  <1>1. /\ q.phase = "validate" /\ UNCHANGED <<nameOf, alive, cache, space, shared, gone>>
        /\ q # Idle /\ q \in RequestType /\ Aimed(q)
    <2>1. q.phase = "validate" /\ UNCHANGED <<nameOf, alive, cache, space, shared, gone>>
      BY Zenon DEF ValidateUse, ValidateCreateSpace, ValidateDropSpace, ValidateObject, ValidateFails, Validate
    <2> QED
      BY <2>1, UnderWay DEF Phases
  <1>2. ASSUME NEW v, req' = [req EXCEPT ![r] = v],
               v = Idle \/ (v \in RequestType /\ v.by = q.by /\ Aimed(v))
        PROVE  AimInv'
    BY <1>1, <1>2, RequestOnly, Zenon
  <1>3. CASE ValidateUse(r)
    <2> DEFINE n == Statement(q).name
               cached == {i \in cache : nameOf[i] = n}
    <2>1. Statement(q).op = "use" /\ req' = [req EXCEPT ![r] = UseResult(q)]
      BY <1>3 DEF ValidateUse, Validate
    <2>2. ASSUME NEW i \in Ids \cup {kInvalidSpaceID}, i = kInvalidSpaceID \/ Known(i, n),
                 UseResult(q) = Planned([q EXCEPT !.here = [name |-> n, id |-> i]])
          PROVE  AimInv'
      BY <1>1, <1>2, <2>1, <2>2, UsePlanned, Zenon
    <2>3. CASE n \in q.created
      BY <2>2, <2>3 DEF UseResult
    <2>4. CASE n \notin q.created /\ cached = {}
      BY <1>2, <2>1, <2>4, Zenon DEF UseResult, Rejected
    <2>5. CASE n \notin q.created /\ cached # {}
      <3>1. PICK i \in cached : i = CHOOSE j \in cached : TRUE
        BY <2>5
      <3>2. Known(i, n) /\ i \in Ids
        <4>1. cache \in SUBSET (1 .. Len(nameOf)) /\ Len(nameOf) <= MaxSpaces /\ Len(nameOf) \in Nat
          BY DEF AimInv, TypeOK
        <4>2. i \in cache /\ nameOf[i] = n
          BY <3>1
        <4> QED
          BY <4>1, <4>2, BoundAssumption DEF Known, Ids
      <3>3. UseResult(q) = Planned([q EXCEPT !.here = [name |-> n, id |-> i]])
        BY <2>5, <3>1 DEF UseResult
      <3> QED
        BY <2>2, <3>2, <3>3
    <2> QED
      BY <2>3, <2>4, <2>5
  <1>4. ASSUME NEW a \in RequestType, SameAims(a, q), Statement(q).op # "use",
               req' = [req EXCEPT ![r] = Planned(a)]
        PROVE  AimInv'
    BY <1>1, <1>2, <1>4, OtherPlanned, Zenon
  <1>5. CASE ValidateCreateSpace(r)
    <2> DEFINE a == [q EXCEPT !.created = @ \cup {Statement(q).name}]
    <2>1. Statement(q).op = "create space" /\ req' = [req EXCEPT ![r] = Planned(a)]
      BY <1>5, Zenon DEF ValidateCreateSpace, Validate, CreateSpaceResult
    <2>2. Statement(q).name \in Names
      BY <1>1, <2>1, SpaceNames, Fields, Zenon DEF Statement, SpaceOps, Aimed
    <2>3. a \in RequestType /\ SameAims(a, q)
      BY <1>1, <2>2, Zenon DEF RequestType, SameAims
    <2> QED
      BY <1>4, <2>1, <2>3, Zenon
  <1>6. CASE ValidateDropSpace(r)
    <2>1. Statement(q).op = "drop space" /\ req' = [req EXCEPT ![r] = Planned(q)]
      BY <1>6, Zenon DEF ValidateDropSpace, Validate
    <2> QED
      BY <1>1, <1>4, <2>1, Zenon DEF SameAims
  <1>7. CASE ValidateObject(r)
    <2> DEFINE creates == IF Statement(q).op = "create" THEN {Statement(q).name} \cap Schemas ELSE {}
               a == [q EXCEPT !.schemas = @ \cup creates]
    <2>1. Statement(q).op \in ObjectOps /\ req' = [req EXCEPT ![r] = ObjectResult(q)]
      BY <1>7 DEF ValidateObject, Validate
    <2>2. ObjectResult(q) = Idle \/ ObjectResult(q) = Planned(a)
      BY DEF ObjectResult, Rejected
    <2>3. a \in RequestType /\ SameAims(a, q)
      BY <1>1, Zenon DEF RequestType, SameAims
    <2>4. Statement(q).op # "use"
      BY <2>1 DEF ObjectOps, SessionOps
    <2> QED
      BY <1>2, <1>4, <2>1, <2>2, <2>3, <2>4, Zenon
  <1>8. CASE ValidateFails(r)
    <2>1. req' = [req EXCEPT ![r] = Idle]
      BY <1>8 DEF ValidateFails, Validate, Rejected
    <2> QED
      BY <1>2, <2>1, Zenon
  <1> QED
    BY <1>3, <1>5, <1>6, <1>7, <1>8

-----------------------------------------------------------------------------
(* Execution *)

\* Request q goes on to its next statement as v.
Advanced(v, q) ==
    /\ v.phase = "execute" /\ v.by = q.by /\ v.text = q.text /\ v.at = q.at + 1
    /\ v.wanted = q.wanted /\ v.plan = q.plan /\ v.calm = q.calm

\* Continue ends the request or advances it.
LEMMA Continuing ==
    ASSUME AimInv, NEW r \in Requests, req[r].phase = "answered", Continue(r)
    PROVE  \E v : /\ req' = [req EXCEPT ![r] = v]
                 /\ \/ v = Idle
                    \/ v \in RequestType /\ Advanced(v, req[r]) /\ ~Last(req[r])
  <1> DEFINE q == req[r]
             p == [q EXCEPT !.phase = "execute", !.at = @ + 1, !.target = kInvalidSpaceID]
  <1>1. q \in RequestType
    BY UnderWay DEF Phases
  <1>2. q.at + 1 \in Nat
    BY <1>1, Place
  <1>3. p \in RequestType /\ Advanced(p, q)
    BY <1>1, <1>2, Zenon DEF RequestType, Phases, Advanced
  <1>4. req' = [req EXCEPT ![r] = IF Last(q) THEN Idle ELSE p]
    BY DEF Continue
  <1> HIDE DEF p
  <1> QED
    BY <1>3, <1>4, Zenon

\* The statements to come are still meant for what they were, if the session
\* stayed where it was or in no space, or a USE has moved it.
LEMMA GoesOn ==
    ASSUME NEW q \in RequestType, NEW v \in RequestType, Aimed(q), q.phase = "answered",
           Advanced(v, q), ~Last(q), nameOf' = nameOf, shared' = shared,
           \/ space'[q.by] \in {space[q.by], NoSpace} /\ Statement(q).op # "use"
           \/ space'[q.by].name = Statement(q).name /\ Statement(q).op = "use"
    PROVE  Aimed(v)'
  <1>1. q.at \in 1 .. Len(q.text) /\ q.at \in Nat /\ Len(q.text) \in Nat /\ ExecutedFor(q)
    BY Place DEF Aimed
  <1>2. v.at \in 1 .. Len(v.text)
    BY <1>1 DEF Advanced, Last
  <1>3. MeantForSession(v)'
    <2> SUFFICES ASSUME NEW k \in q.at + 1 .. Len(q.text), q.text[k].op \in ObjectOps,
                        NoUse(q.text, q.at + 1, k), q.by \notin shared
                 PROVE  space'[q.by] = NoSpace \/ q.wanted[k] = space'[q.by].name
      BY DEF MeantForSession, Advanced
    <2>1. k \in q.at .. Len(q.text) /\ k \in 1 .. Len(q.text) /\ q.at + 1 <= k /\ k \in Int
      BY <1>1
    <2>2. CASE Statement(q).op # "use"
      <3>1. NoUse(q.text, q.at, k)
        BY <1>1, <2>1, <2>2, UseNext DEF Statement
      <3> QED
        BY <1>1, <2>1, <2>2, <3>1 DEF ExecutedFor, MeantForSession
    <2>3. CASE Statement(q).op = "use"
      <3>1. LastUse(q.text, q.at, k)
        BY <1>1, <2>1, <2>3 DEF LastUse, Statement
      <3>2. q.wanted[k] = Statement(q).name
        BY <1>1, <2>1, <3>1 DEF ExecutedFor, WantedByUse, Statement
      <3> QED
        BY <2>3, <3>2
    <2> QED
      BY <2>2, <2>3
  <1>4. ExecutedFor(v)'
    <2>1. WantedByUse(v, Len(v.text)) /\ Len(v.plan) = Len(v.text) /\ Len(v.wanted) = Len(v.text)
      BY <1>1 DEF ExecutedFor, WantedByUse, Advanced
    <2>2. PlannedFor(v, Len(v.text))'
      BY <1>1 DEF ExecutedFor, PlannedFor, Known, Advanced
    <2> QED
      BY <1>3, <2>1, <2>2 DEF ExecutedFor
  <1> QED
    BY <1>2, <1>4 DEF Aimed, Advanced

\* An executor makes its call.
LEMMA CallAims ==
    ASSUME AimInv, NEW r \in Requests, Call(r)
    PROVE  AimInv'
  <1> DEFINE q == req[r]
             v == [q EXCEPT !.phase = "called", !.target = Target(q)]
  <1>1. /\ q.phase = "execute" /\ UNCHANGED <<nameOf, alive, cache, space, shared, gone>>
        /\ req' = [req EXCEPT ![r] = v]
    BY Zenon DEF Call
  <1>2. q # Idle /\ q \in RequestType /\ Aimed(q)
    BY <1>1, UnderWay DEF Phases
  <1>3. q.at \in 1 .. Len(q.text) /\ q.at \in Nat /\ Len(q.text) \in Nat /\ ExecutedFor(q)
    BY <1>1, <1>2, Place DEF Aimed
  <1>4. q.by \in Sessions /\ space[q.by] \in SpaceInfo
    BY <1>2, Fields, Zenon DEF AimInv, TypeOK
  <1>5. Target(q) \in Ids \cup {kInvalidSpaceID}
    <2>1. space[q.by].id \in Ids \cup {kInvalidSpaceID}
      BY <1>4, SpaceFields, Zenon
    <2>2. q.plan \in Seq(Ids \cup {kInvalidSpaceID}) /\ Len(q.plan) = Len(q.text)
      BY <1>2, <1>3, Fields, Zenon DEF ExecutedFor
    <2>3. q.plan[q.at] \in Ids \cup {kInvalidSpaceID}
      BY <1>3, <2>2
    <2> QED
      BY <2>1, <2>3 DEF Target
  <1>6. /\ v \in RequestType /\ v.phase = "called" /\ v.target = Target(q) /\ v.by = q.by
        /\ v.text = q.text /\ v.at = q.at /\ v.wanted = q.wanted /\ v.plan = q.plan
    BY <1>2, <1>5, Zenon DEF RequestType, Phases
  <1> HIDE DEF v
  <1>7. CalledFor(v)
    <2>1. CASE Statement(q).op = "alter"
      <3>1. Target(q) = q.plan[q.at]
        BY <2>1 DEF Target
      <3>2. q.plan[q.at] = kInvalidSpaceID \/ Known(q.plan[q.at], q.wanted[q.at])
        BY <1>3, <2>1 DEF ExecutedFor, PlannedFor, Statement
      <3> QED
        BY <1>6, <2>1, <3>1, <3>2 DEF CalledFor, Statement, ObjectOps
    <2>2. CASE Statement(q).op \in SessionOps
      <3>1. Target(q) = space[q.by].id /\ Statement(q).op # "alter" /\ Statement(q).op \in ObjectOps
        BY <2>2 DEF Target, SessionOps, ObjectOps
      <3>2. ASSUME q.by \notin shared
            PROVE  space[q.by] = NoSpace \/ q.wanted[q.at] = space[q.by].name
        <4>1. NoUse(q.text, q.at, q.at) /\ q.at \in q.at .. Len(q.text)
          BY <1>3 DEF NoUse
        <4> QED
          BY <1>3, <3>1, <3>2, <4>1 DEF ExecutedFor, MeantForSession, Statement
      <3>3. space[q.by] = NoSpace \/ Known(space[q.by].id, space[q.by].name)
        BY <1>4 DEF AimInv, SpacesKnown
      <3>4. space[q.by] = NoSpace => Target(q) = kInvalidSpaceID
        BY <3>1, NoSpaceFields, Zenon
      <3>5. Target(q) = kInvalidSpaceID \/ Known(Target(q), q.wanted[q.at]) \/ q.by \in shared
        BY <3>1, <3>2, <3>3, <3>4
      <3> QED
        BY <1>6, <3>1, <3>5 DEF CalledFor, Statement
    <2>3. CASE Statement(q).op \notin ObjectOps
      BY <1>6, <2>3 DEF CalledFor, Statement, Target, ObjectOps
    <2> QED
      BY <2>1, <2>2, <2>3 DEF ObjectOps
  <1>8. Aimed(v)
    <2>1. ExecutedFor(v)
      BY <1>3, <1>6 DEF ExecutedFor, WantedByUse, PlannedFor, MeantForSession
    <2> QED
      BY <1>3, <1>6, <1>7, <2>1 DEF Aimed
  <1> QED
    BY <1>1, <1>2, <1>6, <1>8, RequestOnly, Zenon

\* The continuation of a call goes on to the next statement.
LEMMA ContinueAims ==
    ASSUME AimInv, NEW r \in Requests, req[r].phase = "answered", Continue(r),
           UNCHANGED <<nameOf, alive, cache, shared>>,
           space' \in [Sessions -> SpaceInfo], gone' \in [Sessions -> SUBSET Ids],
           \A s \in Sessions \ {req[r].by} : space'[s] = space[s] /\ gone'[s] = gone[s],
           \/ space'[req[r].by] \in {space[req[r].by], NoSpace} /\ Statement(req[r]).op # "use"
           \/ space'[req[r].by].name = Statement(req[r]).name /\ Statement(req[r]).op = "use",
           SpacesKnown', GoneIsDead', OwnDropForgotten'
    PROVE  AimInv'
  <1> DEFINE q == req[r]
  <1>1. q # Idle /\ q \in RequestType /\ Aimed(q)
    BY UnderWay DEF Phases
  <1>2. PICK v : /\ req' = [req EXCEPT ![r] = v]
                 /\ \/ v = Idle
                    \/ v \in RequestType /\ Advanced(v, q) /\ ~Last(q)
    BY Continuing
  <1>3. TypeOK' /\ req'[r] = v /\ \A x \in Requests \ {r} : req'[x] = req[x]
    BY <1>2 DEF AimInv, TypeOK
  <1>4. Growth
    BY DEF Growth, AimInv, TypeOK
  <1>5. req'[r] = Idle \/ (req'[r].by = q.by /\ Aimed(req[r])')
    <2>1. SUFFICES ASSUME v # Idle PROVE req'[r].by = q.by /\ Aimed(req[r])'
      BY <1>3
    <2>2. Aimed(v)'
      BY <1>1, <1>2, <2>1, GoesOn
    <2> QED
      BY <1>2, <1>3, <2>1, <2>2 DEF Advanced
  <1>6. OverlapsShared' /\ AllAimed'
    BY <1>1, <1>3, <1>4, <1>5, OtherRequests
  <1> QED
    BY <1>3, <1>6 DEF AimInv

\* A call fails, an error ends the request, or a statement needs no more.
LEMMA EndAims ==
    ASSUME AimInv, NEW r \in Requests, CallFails(r) \/ Succeed(r) \/ Fail(r) \/ Report(r)
    PROVE  AimInv'
  <1> DEFINE q == req[r]
  <1>1. UNCHANGED <<nameOf, alive, cache, space, shared, gone>> /\ q.phase \in Phases
    BY Zenon DEF CallFails, Succeed, Answered, Fail, Report, Phases
  <1>2. q # Idle /\ q \in RequestType /\ Aimed(q)
    BY <1>1, UnderWay
  <1>3. CASE CallFails(r)
    <2> DEFINE v == [q EXCEPT !.phase = "answered", !.ok = FALSE, !.calm = FALSE]
    <2>1. req' = [req EXCEPT ![r] = v] /\ q.phase \in {"called", "answered"}
      BY <1>3, Zenon DEF CallFails
    <2>2. /\ v \in RequestType /\ v.phase = "answered" /\ ~v.ok /\ v.by = q.by
          /\ v.text = q.text /\ v.at = q.at /\ v.wanted = q.wanted /\ v.plan = q.plan
      BY <1>2, Zenon DEF RequestType, Phases
    <2> HIDE DEF v
    <2>3. ExecutedFor(q) /\ q.at \in 1 .. Len(q.text)
      BY <1>2, <2>1 DEF Aimed
    <2>4. ExecutedFor(v)
      BY <2>2, <2>3 DEF ExecutedFor, WantedByUse, PlannedFor, MeantForSession
    <2>5. Aimed(v)
      BY <2>2, <2>3, <2>4 DEF Aimed
    <2> QED
      BY <1>1, <1>2, <2>1, <2>2, <2>5, RequestOnly, Zenon
  <1>4. CASE Succeed(r)
    <2>1. q.phase = "answered" /\ Continue(r) /\ Statement(q).op # "use"
      BY <1>4, Zenon DEF Succeed, Answered, ObjectOps, SessionOps
    <2>2. SpacesKnown' /\ GoneIsDead' /\ OwnDropForgotten'
      BY <1>1 DEF AimInv, SpacesKnown, Known, GoneIsDead, OwnDropForgotten
    <2>3. space' \in [Sessions -> SpaceInfo] /\ gone' \in [Sessions -> SUBSET Ids]
      BY <1>1 DEF AimInv, TypeOK
    <2> QED
      BY <1>1, <2>1, <2>2, <2>3, ContinueAims
  <1>5. CASE Fail(r)
    <2> DEFINE v == [q EXCEPT !.phase = "failed"]
    <2>1. req' = [req EXCEPT ![r] = v]
      BY <1>5 DEF Fail
    <2>2. v \in RequestType /\ v.phase = "failed" /\ v.by = q.by /\ v.text = q.text /\ v.at = q.at
      BY <1>2, Zenon DEF RequestType, Phases
    <2> HIDE DEF v
    <2>3. Aimed(v)
      BY <1>2, <2>2 DEF Aimed
    <2> QED
      BY <1>1, <1>2, <2>1, <2>2, <2>3, RequestOnly, Zenon
  <1>6. CASE Report(r)
    <2>1. req' = [req EXCEPT ![r] = Idle]
      BY <1>6 DEF Report
    <2> QED
      BY <1>1, <1>2, <2>1, RequestOnly, Zenon
  <1> QED
    BY <1>3, <1>4, <1>5, <1>6

-----------------------------------------------------------------------------
(* The meta service *)

\* What holds of an answer that is not an error.
Rightful(op, n, s, i) ==
    /\ op = "use" => Known(i, n) /\ i \notin gone[s]
    /\ op = "drop space" => i = kInvalidSpaceID \/ (Known(i, n) /\ i \notin alive)

\* The meta service answers a call.
LEMMA ServeAims ==
    ASSUME AimInv, NEW r \in Requests, NEW op, NEW ok \in BOOLEAN,
           NEW target \in Ids \cup {kInvalidSpaceID}, Serve(r, op, ok, target),
           Growth, nameOf' \in Seq(Names), Len(nameOf') <= MaxSpaces,
           alive' \in SUBSET (1 .. Len(nameOf')),
           NEW n, n = Statement(req[r]).name, NEW s, s = req[r].by,
           ok = TRUE => Rightful(op, n, s, target)'
    PROVE  AimInv'
  <1> DEFINE q == req[r]
  <1>0. PICK v : v = [q EXCEPT !.phase = "answered", !.ok = ok, !.target = target]
    OBVIOUS
  <1>1. /\ q.phase = "called" /\ Statement(q).op = op /\ UNCHANGED <<cache, space, shared, gone>>
        /\ req' = [req EXCEPT ![r] = v]
    BY <1>0, Zenon DEF Serve
  <1>2. q # Idle /\ q \in RequestType /\ Aimed(q)
    BY <1>1, UnderWay DEF Phases
  <1>3. /\ v \in RequestType /\ v.phase = "answered" /\ v.ok = ok /\ v.target = target
        /\ v.by = q.by /\ v.text = q.text /\ v.at = q.at /\ v.wanted = q.wanted /\ v.plan = q.plan
    BY <1>0, <1>2, Zenon DEF RequestType, Phases
  <1>4. TypeOK'
    <2>1. cache \in SUBSET (1 .. Len(nameOf'))
      <3>1. cache \in SUBSET (1 .. Len(nameOf)) /\ Len(nameOf) \in Nat /\ Len(nameOf') \in Nat
        BY DEF AimInv, TypeOK
      <3> QED
        BY <3>1 DEF Growth
    <2>2. req' \in [Requests -> RequestType \cup {Idle}]
      BY <1>1, <1>3 DEF AimInv, TypeOK
    <2> QED
      BY <1>1, <2>1, <2>2 DEF AimInv, TypeOK
  <1>5. req'[r] = v /\ \A x \in Requests \ {r} : req'[x] = req[x]
    BY <1>1 DEF AimInv, TypeOK
  <1>6. \A i, m : Known(i, m) => Known(i, m)'
    BY DEF Known, Growth, AimInv, TypeOK
  <1>7. Aimed(v)'
    <2>1. ExecutedFor(q) /\ q.at \in 1 .. Len(q.text)
      BY <1>1, <1>2 DEF Aimed
    <2>2. ExecutedFor(v)'
      <3>1. /\ Len(q.plan) = Len(q.text) /\ Len(q.wanted) = Len(q.text)
            /\ WantedByUse(q, Len(q.text)) /\ PlannedFor(q, Len(q.text)) /\ MeantForSession(q)
        BY <2>1 DEF ExecutedFor
      <3>2. WantedByUse(v, Len(v.text))'
        BY <1>3, <3>1 DEF WantedByUse
      <3>3. PlannedFor(v, Len(v.text))'
        BY <1>3, <1>6, <3>1 DEF PlannedFor
      <3>4. MeantForSession(v)'
        BY <1>1, <1>3, <3>1 DEF MeantForSession
      <3> QED
        BY <1>3, <3>1, <3>2, <3>3, <3>4 DEF ExecutedFor
    <2>3. ASSUME ok PROVE AnsweredFor(v)'
      <3>1. Rightful(op, n, s, target)'
        BY <2>3
      <3>2. Statement(v) = Statement(q) /\ v.by = s /\ v.target = target
        BY <1>3 DEF Statement
      <3> QED
        BY <1>1, <3>1, <3>2, Zenon DEF AnsweredFor, Rightful
    <2> QED
      BY <1>3, <2>1, <2>2, <2>3 DEF Aimed
  <1>8. Aimed(req[r])' /\ req'[r].by = q.by
    BY <1>3, <1>5, <1>7
  <1>9. OverlapsShared' /\ AllAimed'
    BY <1>1, <1>2, <1>4, <1>5, <1>8, OtherRequests
  <1>10. SpacesKnown' /\ OwnDropForgotten'
    BY <1>1, <1>6 DEF AimInv, SpacesKnown, OwnDropForgotten
  <1>11. GoneIsDead'
    <2>1. Len(nameOf) \in Nat /\ Len(nameOf') \in Nat
      BY DEF AimInv, TypeOK
    <2>2. \A i \in 1 .. Len(nameOf) : i \in 1 .. Len(nameOf')
      BY <2>1 DEF Growth
    <2> QED
      BY <1>1, <2>2 DEF GoneIsDead, Growth, AimInv
  <1> QED
    BY <1>4, <1>9, <1>10, <1>11 DEF AimInv

\* createSpace, dropSpace, getSpace, and the calls about tags and edge types.
LEMMA MetaAims ==
    ASSUME AimInv, NEW r \in Requests,
           MetaCreateSpace(r) \/ MetaDropSpace(r) \/ MetaGetSpace(r) \/ MetaObject(r)
    PROVE  AimInv'
  <1> DEFINE q == req[r]
  <1>0. PICK n, s : n = Statement(q).name /\ s = q.by
    OBVIOUS
  <1>1. /\ nameOf \in Seq(Names) /\ Len(nameOf) \in Nat /\ Len(nameOf) <= MaxSpaces
        /\ alive \in SUBSET (1 .. Len(nameOf))
    BY DEF AimInv, TypeOK
  <1>2. q.phase = "called" /\ q \in RequestType /\ q.at \in 1 .. Len(q.text)
    <2>1. q.phase = "called"
      BY Zenon DEF MetaCreateSpace, MetaDropSpace, MetaGetSpace, MetaObject, Serve
    <2> QED
      BY <2>1, UnderWay DEF Phases, Aimed
  <1>3. kInvalidSpaceID \in Ids \cup {kInvalidSpaceID} /\ Statement(q).lenient \in BOOLEAN
    <2>1. Statement(q) \in Statements
      <3>1. q.text \in Seq(Statements)
        BY <1>2, Fields, Zenon
      <3> QED
        BY <1>2, <3>1 DEF Statement
    <2> QED
      BY <2>1 DEF Statements
  <1>4. ASSUME UNCHANGED meta PROVE Growth
    BY <1>1, <1>4 DEF Growth, meta
  <1>5. ASSUME NEW i \in Existing(r)
        PROVE  i \in Ids /\ i \in alive /\ Known(i, n) /\ i \notin gone[s]
    <2>1. i \in alive /\ nameOf[i] = n
      BY <1>0, <1>5 DEF Existing
    <2>2. i \in Ids /\ Known(i, n)
      BY <1>1, <2>1, BoundAssumption DEF Ids, Known
    <2>3. s \in Sessions
      BY <1>0, <1>2, Fields, Zenon
    <2> QED
      BY <2>1, <2>2, <2>3 DEF AimInv, GoneIsDead
  <1>6. CASE MetaCreateSpace(r)
    <2>1. CASE /\ Serve(r, "create space", Statement(req[r]).lenient, kInvalidSpaceID)
               /\ UNCHANGED meta
      <3>1. Rightful("create space", n, s, kInvalidSpaceID)'
        BY DEF Rightful
      <3> QED
        BY <1>0, <1>1, <1>3, <1>4, <2>1, <3>1, ServeAims, Zenon DEF meta
    <2>2. CASE /\ Len(nameOf) < MaxSpaces
               /\ Serve(r, "create space", TRUE, kInvalidSpaceID)
               /\ nameOf' = Append(nameOf, Statement(req[r]).name)
               /\ alive' = alive \cup {Len(nameOf) + 1}
      <3>1. n \in Names
        BY <1>0, <1>2, <2>2, SpaceNames, Fields, Zenon DEF Serve, Statement, SpaceOps
      <3>2. /\ nameOf' \in Seq(Names) /\ Len(nameOf') = Len(nameOf) + 1
            /\ \A i \in 1 .. Len(nameOf) : nameOf'[i] = nameOf[i]
        <4>1. nameOf' = Append(nameOf, n)
          BY <1>0, <2>2, Zenon
        <4> QED
          BY <1>1, <3>1, <4>1, Appended
      <3>3. Growth
        <4>1. alive' = alive \cup {Len(nameOf) + 1}
          BY <2>2, Zenon
        <4> QED
          BY <1>1, <3>2, <4>1 DEF Growth
      <3>4. Len(nameOf') <= MaxSpaces /\ alive' \in SUBSET (1 .. Len(nameOf'))
        <4>1. alive' = alive \cup {Len(nameOf) + 1} /\ Len(nameOf) < MaxSpaces
          BY <2>2, Zenon
        <4>2. Len(nameOf') <= MaxSpaces
          BY <1>1, <3>2, <4>1, BoundAssumption
        <4>3. \A i \in alive : i \in 1 .. Len(nameOf')
          BY <1>1, <3>2
        <4>4. Len(nameOf) + 1 \in 1 .. Len(nameOf')
          BY <1>1, <3>2
        <4> QED
          BY <4>1, <4>2, <4>3, <4>4
      <3>5. Rightful("create space", n, s, kInvalidSpaceID)'
        BY DEF Rightful
      <3> QED
        BY <1>0, <1>3, <2>2, <3>2, <3>3, <3>4, <3>5, ServeAims, Zenon
    <2> QED
      BY <1>6, <2>1, <2>2, Zenon DEF MetaCreateSpace
  <1>7. CASE MetaDropSpace(r)
    <2>1. CASE /\ Serve(r, "drop space", Statement(req[r]).lenient, kInvalidSpaceID)
               /\ UNCHANGED meta
      <3>1. Rightful("drop space", n, s, kInvalidSpaceID)'
        BY DEF Rightful
      <3> QED
        BY <1>0, <1>1, <1>3, <1>4, <2>1, <3>1, ServeAims, Zenon DEF meta
    <2>2. ASSUME NEW i \in alive, i \in Existing(r), Serve(r, "drop space", TRUE, i),
                 alive' = alive \ {i}, UNCHANGED nameOf
          PROVE  AimInv'
      <3>1. i \in Ids /\ Known(i, n)'
        BY <1>5, <2>2, Zenon DEF Known
      <3>2. Growth
        <4>1. nameOf' = nameOf /\ \A j : j \in alive' => j \in alive
          BY <2>2, Zenon
        <4> QED
          BY <1>1, <4>1 DEF Growth
      <3>3. Rightful("drop space", n, s, i)'
        BY <2>2, <3>1, Zenon DEF Rightful
      <3>4. nameOf' \in Seq(Names) /\ Len(nameOf') <= MaxSpaces /\ alive' \in SUBSET (1 .. Len(nameOf'))
        BY <1>1, <2>2, Zenon
      <3> QED
        BY <1>0, <2>2, <3>1, <3>2, <3>3, <3>4, ServeAims, Zenon
    <2> QED
      BY <1>7, <2>1, <2>2, Zenon DEF MetaDropSpace
  <1>8. CASE MetaGetSpace(r)
    <2>1. CASE Serve(r, "use", FALSE, kInvalidSpaceID) /\ UNCHANGED meta
      BY <1>0, <1>1, <1>3, <1>4, <2>1, ServeAims, Zenon DEF meta
    <2>2. ASSUME NEW i \in alive, i \in Existing(r), Serve(r, "use", TRUE, i), UNCHANGED meta
          PROVE  AimInv'
      <3>1. i \in Ids /\ Known(i, n)' /\ i \notin gone[s]
        BY <1>5, <2>2 DEF Known, meta
      <3>2. Rightful("use", n, s, i)'
        BY <3>1, <2>2 DEF Rightful, Serve
      <3> QED
        BY <1>0, <1>1, <1>4, <2>2, <3>1, <3>2, ServeAims, Zenon DEF meta
    <2> QED
      BY <1>8, <2>1, <2>2, Zenon DEF MetaGetSpace
  <1>9. CASE MetaObject(r)
    <2>1. PICK ok, i : ok = (q.target \in alive) /\ i = q.target
      OBVIOUS
    <2>2. PICK op \in ObjectOps : Serve(r, op, ok, i)
      BY <1>9, <2>1 DEF MetaObject
    <2>3. op # "use" /\ op # "drop space"
      BY Zenon DEF ObjectOps, SessionOps
    <2>4. i \in Ids \cup {kInvalidSpaceID}
      BY <1>2, <2>1, Fields, Zenon
    <2>5. ok \in BOOLEAN
      BY <2>1
    <2>6. Rightful(op, n, s, i)'
      BY <2>3, Zenon DEF Rightful
    <2>7. UNCHANGED meta
      BY <1>9 DEF MetaObject
    <2> QED
      BY <1>0, <1>1, <1>4, <2>2, <2>4, <2>5, <2>6, <2>7, ServeAims, Zenon DEF meta
  <1> QED
    BY <1>6, <1>7, <1>8, <1>9


(***************************************************************************)
(* Requests with which nothing has interfered.                             *)
(***************************************************************************)
AllDependable(t) == \A k \in 1 .. Len(t) : Dependable(t[k])
Exists(n) == \E i \in alive : nameOf[i] = n
CreatedIn(t, n, i, k) == \E j \in i .. k - 1 : t[j].op = "create space" /\ t[j].name = n
UsedIn(t, i, k) == \E j \in i .. k - 1 : t[j].op = "use"

\* From statement i on, the space of a USE exists or is created before it, and
\* a statement on an object finds the session in a space, or a USE before it.
Supplied(q, i, n) ==
    \A k \in i .. n :
        /\ q.text[k].op = "use" => Exists(q.text[k].name) \/ CreatedIn(q.text, q.text[k].name, i, k)
        /\ q.text[k].op \in SessionOps => space[q.by].id \in alive \/ UsedIn(q.text, i, k)

Smooth(q) ==
    /\ q.phase \in {"validate", "execute", "called", "answered"}
    /\ space[q.by].id \in alive \cup {kInvalidSpaceID}
    /\ q.phase = "validate" =>
          /\ cache = alive
          /\ \A n \in q.created : CreatedIn(q.text, n, 1, q.at)
          /\ q.here = NoSpace \/ space[q.by].id \in alive \/ UsedIn(q.text, 1, q.at)
          /\ Supplied(q, 1, q.at - 1)
    /\ q.phase # "validate" => Supplied(q, q.at, Len(q.text))
    /\ q.phase = "called" /\ Statement(q).op \in SessionOps => q.target \in alive
    /\ q.phase = "answered" =>
          /\ q.ok
          /\ Statement(q).op = "use" => q.target \in alive
          /\ Statement(q).op = "create space" => Exists(Statement(q).name)

CalmAlone ==
    \A x, y \in Requests : x # y /\ req[x] # Idle /\ req[x].calm => req[y] = Idle
CalmSmooth ==
    \A r \in Requests :
        req[r] # Idle /\ req[r].calm /\ AllDependable(req[r].text) => Smooth(req[r])
CalmInv == CalmAlone /\ CalmSmooth

IInv == AimInv /\ CalmInv

-----------------------------------------------------------------------------
(* The session changes its space *)

\* SwitchSpaceExecutor enters a space that was there when the call was answered,
\* and which the session has not dropped in the meantime.
LEMMA SwitchAims ==
    ASSUME AimInv, NEW r \in Requests, SwitchSpace(r)
    PROVE  AimInv'
  <1> DEFINE q == req[r]
             s == q.by
  <1>1. /\ q.phase = "answered" /\ q.ok /\ Statement(q).op = "use" /\ Continue(r)
        /\ UNCHANGED <<nameOf, alive, cache, shared, gone>>
        /\ space' = [space EXCEPT ![s] = [name |-> Statement(q).name, id |-> q.target]]
    BY DEF SwitchSpace, Answered
  <1>2. q \in RequestType /\ Aimed(q)
    BY <1>1, UnderWay DEF Phases
  <1>3. s \in Sessions /\ q.target \in Ids \cup {kInvalidSpaceID} /\ q.text \in Texts
    BY <1>2, Fields, Zenon
  <1>4. Known(q.target, Statement(q).name) /\ (s \notin shared => q.target \notin gone[s])
    BY <1>1, <1>2, Zenon DEF Aimed, AnsweredFor
  <1>5. Statement(q).name \in Names
    BY <1>1, <1>2, <1>3, SpaceNames, Zenon DEF Statement, SpaceOps, Aimed
  <1>6. PICK h : h = [name |-> Statement(q).name, id |-> q.target]
    BY Zenon
  <1>7. h \in SpaceInfo /\ h.name = Statement(q).name /\ h.id = q.target
    BY <1>3, <1>5, <1>6 DEF SpaceInfo
  <1>8. /\ space' \in [Sessions -> SpaceInfo] /\ space'[s] = h
        /\ \A x \in Sessions \ {s} : space'[x] = space[x]
    BY <1>1, <1>3, <1>6, <1>7 DEF AimInv, TypeOK
  <1>9. SpacesKnown' /\ GoneIsDead' /\ OwnDropForgotten'
    <2>1. SpacesKnown'
      BY <1>1, <1>4, <1>7, <1>8 DEF AimInv, SpacesKnown, Known
    <2>2. GoneIsDead'
      BY <1>1 DEF AimInv, GoneIsDead
    <2>3. OwnDropForgotten'
      BY <1>1, <1>4, <1>7, <1>8 DEF AimInv, OwnDropForgotten
    <2> QED
      BY <2>1, <2>2, <2>3
  <1>10. gone' \in [Sessions -> SUBSET Ids]
    BY <1>1 DEF AimInv, TypeOK
  <1> QED
    BY <1>1, <1>7, <1>8, <1>9, <1>10, ContinueAims

\* DropSpaceExecutor compares names; ids have one name, so it finds the space it
\* has dropped.
LEMMA DropAims ==
    ASSUME AimInv, NEW r \in Requests, DropSpace(r)
    PROVE  AimInv'
  <1> DEFINE q == req[r]
             s == q.by
  <1>1. /\ q.phase = "answered" /\ q.ok /\ Statement(q).op = "drop space" /\ Continue(r)
        /\ UNCHANGED <<nameOf, alive, cache, shared>>
        /\ space' = IF space[s].name = Statement(q).name
                    THEN [space EXCEPT ![s] = NoSpace] ELSE space
        /\ gone' = [gone EXCEPT ![s] = @ \cup ({q.target} \ {kInvalidSpaceID})]
    BY Zenon DEF DropSpace, Answered
  <1>2. q \in RequestType /\ Aimed(q)
    BY <1>1, UnderWay, Zenon DEF Phases
  <1>3. s \in Sessions /\ q.target \in Ids \cup {kInvalidSpaceID}
    BY <1>2, Fields, Zenon
  <1>4. \/ q.target = kInvalidSpaceID
        \/ Known(q.target, Statement(q).name) /\ q.target \notin alive
    BY <1>1, <1>2, Zenon DEF Aimed, AnsweredFor
  <1>5. NoSpace \in SpaceInfo /\ kInvalidSpaceID \notin Ids
    BY BoundAssumption DEF SpaceInfo, kInvalidSpaceID, Ids
  <1>6. /\ space' \in [Sessions -> SpaceInfo] /\ space'[s] \in {space[s], NoSpace}
        /\ space[s].name = Statement(q).name => space'[s] = NoSpace
        /\ \A x \in Sessions \ {s} : space'[x] = space[x]
    BY <1>1, <1>3, <1>5, Zenon DEF AimInv, TypeOK
  <1>7. /\ gone' \in [Sessions -> SUBSET Ids]
        /\ \A i : i \in gone'[s] <=> i \in gone[s] \/ (i = q.target /\ i # kInvalidSpaceID)
        /\ \A x \in Sessions \ {s} : gone'[x] = gone[x]
    BY <1>1, <1>3, Zenon DEF AimInv, TypeOK
  <1>8. SpacesKnown'
    BY <1>1, <1>3, <1>6, Zenon DEF AimInv, SpacesKnown, Known
  <1>9. GoneIsDead'
    <2> SUFFICES ASSUME NEW x \in Sessions, NEW i \in gone'[x]
                 PROVE  i \in 1 .. Len(nameOf) /\ i \notin alive
      BY <1>1, Zenon DEF GoneIsDead
    <2>1. CASE i \in gone[x]
      BY <2>1 DEF AimInv, GoneIsDead
    <2>2. CASE i \notin gone[x]
      <3>1. i = q.target /\ i # kInvalidSpaceID
        BY <1>7, <2>2
      <3> QED
        BY <1>4, <3>1 DEF Known
    <2> QED
      BY <2>1, <2>2
  <1>10. OwnDropForgotten'
    <2> SUFFICES ASSUME NEW x \in Sessions \ shared
                 PROVE  space'[x].id \notin gone'[x]
      BY <1>1, Zenon DEF OwnDropForgotten
    <2>1. space[x].id \notin gone[x]
      BY DEF AimInv, OwnDropForgotten
    <2>2. CASE x # s
      BY <1>6, <1>7, <2>1, <2>2
    <2>3. CASE x = s /\ space'[s] = NoSpace
      <3>1. space'[s].id = kInvalidSpaceID
        BY <2>3, NoSpaceFields, Zenon
      <3>2. kInvalidSpaceID \notin gone'[s]
        BY <1>3, <1>5, <1>7
      <3> QED
        BY <2>3, <3>1, <3>2
    <2>4. CASE x = s /\ space'[s] # NoSpace
      <3>1. space'[s] = space[s] /\ space[s].name # Statement(q).name
        BY <1>6, <2>4
      <3>2. Known(space[s].id, space[s].name)
        BY <1>3, <2>4, <3>1 DEF AimInv, SpacesKnown
      <3>3. space[s].id # q.target \/ q.target = kInvalidSpaceID
        BY <1>4, <3>1, <3>2 DEF Known
      <3> QED
        BY <1>7, <2>1, <2>4, <3>1, <3>3
    <2> QED
      BY <2>2, <2>3, <2>4
  <1> QED
    BY <1>1, <1>6, <1>7, <1>8, <1>9, <1>10, ContinueAims, Zenon

-----------------------------------------------------------------------------
(* Requests arrive *)

\* What a new request does to the requests.
LEMMA Submitted ==
    ASSUME AimInv, NEW r \in Requests, NEW s \in Sessions, NEW t \in Texts, Submit(r, s, t)
    PROVE  /\ req[r] = Idle /\ UNCHANGED <<nameOf, alive, cache, space, gone>>
           /\ req'[r] \in RequestType /\ req'[r].phase = "validate" /\ req'[r].by = s
           /\ req'[r].text = t /\ req'[r].at = 1 /\ req'[r].here = space[s]
           /\ req'[r].plan = <<>> /\ req'[r].wanted = <<>> /\ req'[r].created = {}
           /\ req'[r].calm => /\ \A x \in Requests : req[x] = Idle
                              /\ cache = alive /\ space[s].id \in alive \cup {kInvalidSpaceID}
           /\ \A x \in Requests \ {r} :
                 \/ req[x] = Idle /\ req'[x] = Idle
                 \/ /\ req[x] # Idle /\ req[x] \in RequestType /\ req'[x] \in RequestType
                    /\ SameAims(req'[x], req[x]) /\ ~req'[x].calm
           /\ req' \in [Requests -> RequestType \cup {Idle}]
           /\ shared' = IF \E x \in Requests : req[x] # Idle /\ req[x].by = s
                        THEN shared \cup {s} ELSE shared
  <1> DEFINE others == {x \in Requests : req[x] # Idle}
  <1>1. PICK c \in BOOLEAN :
           c = (others = {} /\ cache = alive /\ space[s].id \in alive \cup {kInvalidSpaceID})
    BY Zenon
  <1>2. PICK q : q = [phase |-> "validate", by |-> s, text |-> t, at |-> 1, wanted |-> <<>>,
                      here |-> space[s], created |-> {}, schemas |-> {}, plan |-> <<>>,
                      target |-> kInvalidSpaceID, ok |-> TRUE, calm |-> c]
    BY Zenon
  <1>3. /\ req' = [x \in Requests |->
                      IF x = r THEN q
                      ELSE IF x \in others THEN [req[x] EXCEPT !.calm = FALSE] ELSE Idle]
        /\ shared' = IF \E x \in others : req[x].by = s THEN shared \cup {s} ELSE shared
        /\ req[r] = Idle /\ UNCHANGED <<nameOf, alive, cache, space, gone>>
    BY <1>1, <1>2 DEF Submit
  <1>4. q \in RequestType
    <2>1. space[s] \in SpaceInfo
      BY DEF AimInv, TypeOK
    <2> QED
      BY <1>2, <2>1 DEF RequestType, Phases
  <1>5. /\ q.phase = "validate" /\ q.by = s /\ q.text = t /\ q.at = 1 /\ q.here = space[s]
        /\ q.plan = <<>> /\ q.wanted = <<>> /\ q.created = {} /\ q.calm = c
    BY <1>2
  <1>6. req'[r] = q
    BY <1>3
  <1>7. ASSUME NEW x \in Requests \ {r}
        PROVE  \/ req[x] = Idle /\ req'[x] = Idle
               \/ /\ req[x] # Idle /\ req[x] \in RequestType /\ req'[x] \in RequestType
                  /\ SameAims(req'[x], req[x]) /\ ~req'[x].calm
    <2>1. CASE req[x] = Idle
      BY <1>3, <2>1
    <2>2. CASE req[x] # Idle
      <3>1. req'[x] = [req[x] EXCEPT !.calm = FALSE] /\ req[x] \in RequestType
        BY <1>3, <2>2 DEF AimInv, TypeOK
      <3>2. req'[x] \in RequestType /\ SameAims(req'[x], req[x]) /\ ~req'[x].calm
        BY <3>1, Zenon DEF RequestType, SameAims
      <3> QED
        BY <2>2, <3>1, <3>2
    <2> QED
      BY <2>1, <2>2
  <1>8. req' \in [Requests -> RequestType \cup {Idle}]
    <2>1. req' = [x \in Requests |-> req'[x]]
      BY <1>3
    <2>2. \A x \in Requests : req'[x] \in RequestType \cup {Idle}
      BY <1>4, <1>6, <1>7
    <2> QED
      BY <2>1, <2>2
  <1>9. ASSUME c PROVE /\ \A x \in Requests : req[x] = Idle
                       /\ cache = alive /\ space[s].id \in alive \cup {kInvalidSpaceID}
    BY <1>1, <1>9, Zenon
  <1>10. shared' = IF \E x \in Requests : req[x] # Idle /\ req[x].by = s
                   THEN shared \cup {s} ELSE shared
    <2>1. (\E x \in others : req[x].by = s) <=> \E x \in Requests : req[x] # Idle /\ req[x].by = s
      OBVIOUS
    <2> QED
      BY <1>3, <2>1
  <1> QED
    BY <1>3, <1>4, <1>5, <1>6, <1>7, <1>8, <1>9, <1>10, SMTT(20)

\* A new request starts from the space of its session.
LEMMA SubmitAims ==
    ASSUME AimInv, NEW r \in Requests, NEW s \in Sessions, NEW t \in Texts, Submit(r, s, t)
    PROVE  AimInv'
  <1>1. /\ req[r] = Idle /\ UNCHANGED <<nameOf, alive, cache, space, gone>>
        /\ req'[r] \in RequestType /\ req'[r].phase = "validate" /\ req'[r].by = s
        /\ req'[r].text = t /\ req'[r].at = 1 /\ req'[r].here = space[s]
        /\ req'[r].plan = <<>> /\ req'[r].wanted = <<>>
    BY Submitted
  <1>2. \A x \in Requests \ {r} :
           \/ req[x] = Idle /\ req'[x] = Idle
           \/ /\ req[x] # Idle /\ req[x] \in RequestType /\ req'[x] \in RequestType
              /\ SameAims(req'[x], req[x])
    BY Submitted
  <1>3. /\ shared \subseteq shared' /\ shared' \in SUBSET Sessions
        /\ (\E x \in Requests : req[x] # Idle /\ req[x].by = s) => s \in shared'
    BY Submitted DEF AimInv, TypeOK
  <1>4. TypeOK'
    <2>1. req' \in [Requests -> RequestType \cup {Idle}]
      BY Submitted
    <2> QED
      BY <1>1, <1>3, <2>1 DEF AimInv, TypeOK
  <1>5. SpacesKnown' /\ GoneIsDead' /\ OwnDropForgotten'
    BY <1>1, <1>3 DEF AimInv, SpacesKnown, Known, GoneIsDead, OwnDropForgotten
  <1>6. OverlapsShared'
    <2> SUFFICES ASSUME NEW x \in Requests, NEW y \in Requests, x # y, req'[x] # Idle, req'[y] # Idle,
                        req'[x].by = req'[y].by
                 PROVE  req'[x].by \in shared'
      BY DEF OverlapsShared
    <2>1. CASE x # r /\ y # r
      BY <1>2, <1>3, <2>1 DEF AimInv, OverlapsShared, SameAims
    <2>2. CASE x = r \/ y = r
      BY <1>1, <1>2, <1>3, <2>2 DEF SameAims
    <2> QED
      BY <2>1, <2>2
  <1>7. AllAimed'
    <2>1. ASSUME NEW x \in Requests \ {r}, req'[x] # Idle PROVE Aimed(req[x])'
      <3>1. Growth /\ nameOf \in Seq(Names) /\ nameOf' \in Seq(Names)
        BY <1>1 DEF Growth, AimInv, TypeOK
      <3>2. req[x] \in RequestType /\ req'[x] \in RequestType /\ SameAims(req'[x], req[x]) /\ Aimed(req[x])
        BY <1>2, <2>1 DEF AimInv, AllAimed
      <3> QED
        BY <1>1, <1>3, <3>1, <3>2, Undisturbed
    <2>2. Aimed(req[r])'
      <3>1. t \in Seq(Statements) /\ Len(t) \in Nat \ {0}
        BY <1>1, Fields, Zenon
      <3>2. NoUse(t, 1, 1)
        BY DEF NoUse
      <3>3. space[s] = NoSpace \/ Known(space[s].id, space[s].name)
        BY DEF AimInv, SpacesKnown
      <3>4. InLastUse(req[r])'
        BY <1>1, <3>2, <3>3 DEF InLastUse, Known
      <3>5. ValidatedFor(req[r])'
        BY <1>1 DEF ValidatedFor, WantedByUse, PlannedFor
      <3> QED
        BY <1>1, <3>1, <3>4, <3>5 DEF Aimed
    <2> QED
      BY <2>1, <2>2 DEF AllAimed
  <1> QED
    BY <1>4, <1>5, <1>6, <1>7 DEF AimInv

-----------------------------------------------------------------------------
(* The right space *)

\* The schema cache is loaded.
LEMMA CacheAims ==
    ASSUME AimInv, UNCHANGED <<nameOf, alive, space, req, shared, gone>>, cache' \in {cache, alive}
    PROVE  AimInv'
  <1>1. TypeOK'
    BY DEF AimInv, TypeOK
  <1>2. SpacesKnown' /\ GoneIsDead' /\ OverlapsShared' /\ OwnDropForgotten'
    BY DEF AimInv, SpacesKnown, Known, GoneIsDead, OverlapsShared, OwnDropForgotten
  <1>3. AllAimed'
    <2> SUFFICES ASSUME NEW x \in Requests, req'[x] # Idle PROVE Aimed(req[x])'
      BY DEF AllAimed
    <2>1. Growth /\ nameOf \in Seq(Names) /\ nameOf' \in Seq(Names)
      BY DEF Growth, AimInv, TypeOK
    <2>2. /\ req[x] \in RequestType /\ req'[x] \in RequestType /\ SameAims(req'[x], req[x])
          /\ Aimed(req[x])
      BY DEF AimInv, TypeOK, AllAimed, SameAims
    <2> QED
      BY <2>1, <2>2, Undisturbed
  <1> QED
    BY <1>1, <1>2, <1>3 DEF AimInv

\* Every step preserves the aims.
LEMMA AimStep ==
    ASSUME AimInv, [Next]_vars
    PROVE  AimInv'
  <1>1. CASE UNCHANGED vars
    BY <1>1, CacheAims DEF vars
  <1>2. CASE LoadCache
    BY <1>2, CacheAims DEF LoadCache
  <1>3. ASSUME NEW r \in Requests, NEW s \in Sessions, NEW t \in Texts, Submit(r, s, t)
        PROVE  AimInv'
    BY <1>3, SubmitAims
  <1>4. ASSUME NEW r \in Requests,
               \/ ValidateUse(r) \/ ValidateCreateSpace(r) \/ ValidateDropSpace(r)
               \/ ValidateObject(r) \/ ValidateFails(r)
        PROVE  AimInv'
    BY <1>4, ValidationAims
  <1>5. ASSUME NEW r \in Requests,
               MetaCreateSpace(r) \/ MetaDropSpace(r) \/ MetaGetSpace(r) \/ MetaObject(r)
        PROVE  AimInv'
    BY <1>5, MetaAims
  <1>6. ASSUME NEW r \in Requests, Call(r) PROVE AimInv'
    BY <1>6, CallAims
  <1>7. ASSUME NEW r \in Requests, CallFails(r) \/ Succeed(r) \/ Fail(r) \/ Report(r)
        PROVE  AimInv'
    BY <1>7, EndAims
  <1>8. ASSUME NEW r \in Requests, SwitchSpace(r) PROVE AimInv'
    BY <1>8, SwitchAims
  <1>9. ASSUME NEW r \in Requests, DropSpace(r) PROVE AimInv'
    BY <1>9, DropAims
  <1> QED
    BY <1>1, <1>2, <1>3, <1>4, <1>5, <1>6, <1>7, <1>8, <1>9 DEF Next

\* They hold at first, when nothing is under way.
LEMMA AimInit == Init => AimInv
  <1> SUFFICES ASSUME Init PROVE AimInv
    OBVIOUS
  <1>1. TypeOK
    <2>1. NoSpace \in SpaceInfo
      BY DEF SpaceInfo
    <2>2. nameOf \in Seq(Names) /\ Len(nameOf) <= MaxSpaces
      BY BoundAssumption DEF Init
    <2> QED
      BY <2>1, <2>2 DEF Init, TypeOK
  <1> QED
    BY <1>1 DEF Init, AimInv, SpacesKnown, GoneIsDead, OverlapsShared, AllAimed, OwnDropForgotten

\* The variables stay within their types; among them, the at most MaxSpaces
\* spaces of the meta service, and the requests of RequestType.
THEOREM TypeCorrect == Spec => []TypeOK
  <1>1. AimInv => TypeOK
    BY DEF AimInv
  <1> QED
    BY <1>1, AimInit, AimStep, PTL DEF Spec

\* A statement on a tag, an edge type or an index is never sent to a space
\* other than the one it is meant for: CreateTagExecutor and its likes, which
\* take the space of the session, as long as the requests of the session do
\* not overlap, and AlterTagExecutor always.
THEOREM Aims == Spec => []RightSpace
  <1>1. AimInv => RightSpace
    <2> SUFFICES ASSUME AimInv, NEW r \in Requests, req[r].phase = "called",
                        Statement(req[r]).op \in ObjectOps, req[r].target # kInvalidSpaceID,
                        Statement(req[r]).op = "alter" \/ req[r].by \notin shared
                 PROVE  nameOf[req[r].target] = req[r].wanted[req[r].at]
      BY DEF RightSpace
    <2>1. Aimed(req[r])
      BY UnderWay DEF Phases
    <2> QED
      BY <2>1 DEF Aimed, CalledFor, Known
  <1> QED
    BY <1>1, AimInit, AimStep, PTL DEF Spec

\* A session that was told that a space is dropped is not in it any more
\* (DropSpaceExecutor), unless two of its requests overlapped.
THEOREM Forgets == Spec => []OwnDropForgotten
  <1>1. AimInv => OwnDropForgotten
    BY DEF AimInv
  <1> QED
    BY <1>1, AimInit, AimStep, PTL DEF Spec

-----------------------------------------------------------------------------
(* Nothing interferes *)

\* While a request is calm no other takes a step, so only its own matter.
LEMMA CalmStep ==
    ASSUME AimInv, CalmInv, NEW r \in Requests, req[r] # Idle, NEW v, req' = [req EXCEPT ![r] = v],
           v = Idle \/ ((v.calm => req[r].calm) /\ (v.calm /\ AllDependable(v.text) => Smooth(v)'))
    PROVE  CalmInv'
  <1>1. req'[r] = v /\ \A x \in Requests \ {r} : req'[x] = req[x]
    BY DEF AimInv, TypeOK
  <1>2. \A x \in Requests \ {r} : ~(req[x] # Idle /\ req[x].calm)
    BY DEF CalmInv, CalmAlone
  <1>3. CalmAlone'
    BY <1>1, <1>2 DEF CalmInv, CalmAlone
  <1>4. CalmSmooth'
    <2> SUFFICES ASSUME NEW x \in Requests, req'[x] # Idle, req'[x].calm, AllDependable(req'[x].text)
                 PROVE  Smooth(req[x])'
      BY DEF CalmSmooth
    <2>1. x = r
      BY <1>1, <1>2
    <2> QED
      BY <1>1, <2>1
  <1> QED
    BY <1>3, <1>4 DEF CalmInv

\* The same when only the request changes.
LEMMA CalmRequestOnly ==
    ASSUME AimInv, CalmInv, NEW r \in Requests, req[r] # Idle, NEW v, req' = [req EXCEPT ![r] = v],
           UNCHANGED <<nameOf, alive, cache, space>>,
           v = Idle \/ ((v.calm => req[r].calm) /\ (v.calm /\ AllDependable(v.text) => Smooth(v)))
    PROVE  CalmInv'
  <1>1. ASSUME Smooth(v) PROVE Smooth(v)'
    BY <1>1, Zenon DEF Smooth, Supplied, Exists
  <1> QED
    BY <1>1, CalmStep, Zenon

\* What was created or used before a statement was so before the next.
LEMMA Before ==
    ASSUME NEW t, NEW n, NEW k \in Nat \ {0}
    PROVE  /\ CreatedIn(t, n, 1, k) => CreatedIn(t, n, 1, k + 1)
           /\ UsedIn(t, 1, k) => UsedIn(t, 1, k + 1)
           /\ t[k].op = "use" => UsedIn(t, 1, k + 1)
           /\ t[k].op = "create space" => CreatedIn(t, t[k].name, 1, k + 1)
  <1>1. k \in 1 .. (k + 1) - 1 /\ \A j \in 1 .. k - 1 : j \in 1 .. (k + 1) - 1
    OBVIOUS
  <1> QED
    BY <1>1, Zenon DEF CreatedIn, UsedIn

\* A validated statement is added to the plan.
LEMMA SmoothPlanned ==
    ASSUME NEW a \in RequestType, a.phase = "validate", a.at \in 1 .. Len(a.text),
           space[a.by].id \in alive \cup {kInvalidSpaceID}, cache = alive,
           \A n \in a.created : CreatedIn(a.text, n, 1, a.at + 1),
           a.here = NoSpace \/ space[a.by].id \in alive \/ UsedIn(a.text, 1, a.at + 1),
           Supplied(a, 1, a.at)
    PROVE  Smooth(Planned(a)) /\ Planned(a).calm = a.calm /\ Planned(a).text = a.text
  <1>1. PICK p : p = Planned(a)
    OBVIOUS
  <1>2. /\ p.by = a.by /\ p.text = a.text /\ p.calm = a.calm
        /\ Last(a) => p.phase = "execute" /\ p.at = 1
        /\ ~Last(a) => /\ p.phase = "validate" /\ p.at = a.at + 1 /\ p.here = a.here
                       /\ p.created = a.created
    BY <1>1, Zenon DEF Planned, RequestType
  <1>3. Supplied(p, 1, a.at)
    BY <1>2 DEF Supplied
  <1>4. a.at \in Nat /\ a.at + 1 - 1 = a.at
    BY Place
  <1>5. ASSUME Last(a) PROVE Smooth(p)
    BY <1>2, <1>3, <1>5, Zenon DEF Smooth, Last
  <1>6. ASSUME ~Last(a) PROVE Smooth(p)
    <2>1. p.at - 1 = a.at
      BY <1>2, <1>4, <1>6
    <2> QED
      BY <1>2, <1>3, <1>6, <2>1, Zenon DEF Smooth
  <1> QED
    BY <1>1, <1>2, <1>5, <1>6

\* The validators supply a calm request with what it needs.
LEMMA ValidationCalm ==
    ASSUME AimInv, CalmInv, NEW r \in Requests,
           \/ ValidateUse(r) \/ ValidateCreateSpace(r) \/ ValidateDropSpace(r)
           \/ ValidateObject(r) \/ ValidateFails(r)
    PROVE  CalmInv'
  <1> DEFINE q == req[r]
  <1>1. /\ q.phase = "validate" /\ UNCHANGED <<nameOf, alive, cache, space, shared, gone>>
        /\ q # Idle /\ q \in RequestType /\ Aimed(q)
    <2>1. q.phase = "validate" /\ UNCHANGED <<nameOf, alive, cache, space, shared, gone>>
      BY Zenon DEF ValidateUse, ValidateCreateSpace, ValidateDropSpace, ValidateObject, ValidateFails, Validate
    <2> QED
      BY <2>1, UnderWay DEF Phases
  <1>2. q.at \in 1 .. Len(q.text) /\ q.at \in Nat \ {0}
    <2>1. q.at \in 1 .. Len(q.text) /\ Len(q.text) \in Nat
      BY <1>1, Place, Zenon DEF Aimed
    <2> QED
      BY <2>1, Within
  <1>3. ASSUME req' = [req EXCEPT ![r] = Idle] PROVE CalmInv'
    BY <1>1, <1>3, CalmRequestOnly, Zenon
  <1>4. ASSUME NEW a \in RequestType, req' = [req EXCEPT ![r] = Planned(a)],
               a.phase = "validate", a.by = q.by, a.text = q.text, a.at = q.at, a.calm = q.calm,
               \/ ~q.calm \/ ~AllDependable(q.text)
               \/ /\ \A n \in a.created : CreatedIn(q.text, n, 1, q.at + 1)
                  /\ a.here = NoSpace \/ space[q.by].id \in alive \/ UsedIn(q.text, 1, q.at + 1)
                  /\ q.text[q.at].op = "use" =>
                        \/ Exists(q.text[q.at].name)
                        \/ CreatedIn(q.text, q.text[q.at].name, 1, q.at)
                  /\ q.text[q.at].op \in SessionOps =>
                        space[q.by].id \in alive \/ UsedIn(q.text, 1, q.at)
        PROVE  CalmInv'
    <2>1. Planned(a).calm = q.calm /\ Planned(a).text = q.text
      BY <1>4, Zenon DEF Planned, RequestType
    <2>2. ASSUME q.calm, AllDependable(q.text) PROVE Smooth(Planned(a))
      <3>1. Smooth(q)
        BY <1>1, <2>2, Zenon DEF CalmInv, CalmSmooth
      <3>2. cache = alive /\ space[q.by].id \in alive \cup {kInvalidSpaceID} /\ Supplied(q, 1, q.at - 1)
        BY <1>1, <3>1, Zenon DEF Smooth
      <3>3. Supplied(a, 1, a.at)
        <4> SUFFICES ASSUME NEW k \in 1 .. q.at
                     PROVE  /\ q.text[k].op = "use" => \/ Exists(q.text[k].name)
                                                      \/ CreatedIn(q.text, q.text[k].name, 1, k)
                            /\ q.text[k].op \in SessionOps =>
                                  space[q.by].id \in alive \/ UsedIn(q.text, 1, k)
          BY <1>4, Zenon DEF Supplied
        <4>1. CASE k = q.at
          BY <1>4, <2>2, <4>1, Zenon
        <4>2. CASE k # q.at
          <5>1. k \in 1 .. q.at - 1
            BY <1>2, <4>2, Earlier, Zenon
          <5> QED
            BY <3>2, <5>1, Zenon DEF Supplied
        <4> QED
          BY <4>1, <4>2, Zenon
      <3> QED
        BY <1>2, <1>4, <2>2, <3>2, <3>3, SmoothPlanned, Zenon
    <2> QED
      BY <1>1, <1>4, <2>1, <2>2, CalmRequestOnly, Zenon
  <1>5. q.calm /\ AllDependable(q.text) =>
            /\ \A n \in q.created : CreatedIn(q.text, n, 1, q.at)
            /\ q.here = NoSpace \/ space[q.by].id \in alive \/ UsedIn(q.text, 1, q.at)
            /\ cache = alive /\ Dependable(q.text[q.at])
    <2>1. q.calm /\ AllDependable(q.text) => Smooth(q)
      BY <1>1 DEF CalmInv, CalmSmooth
    <2>2. AllDependable(q.text) => Dependable(q.text[q.at])
      BY <1>2 DEF AllDependable
    <2> QED
      BY <1>1, <2>1, <2>2, Zenon DEF Smooth
  <1>6. CASE ValidateUse(r)
    <2> DEFINE n == Statement(q).name
               cached == {i \in cache : nameOf[i] = n}
    <2>1. Statement(q).op = "use" /\ req' = [req EXCEPT ![r] = UseResult(q)]
      BY <1>6 DEF ValidateUse, Validate
    <2>2. CASE n \notin q.created /\ cached = {}
      BY <1>3, <2>1, <2>2 DEF UseResult, Rejected
    <2>3. CASE n \in q.created \/ cached # {}
      <3>1. PICK i \in Ids \cup {kInvalidSpaceID} :
               UseResult(q) = Planned([q EXCEPT !.here = [name |-> n, id |-> i]])
        <4>1. CASE n \in q.created
          BY <4>1 DEF UseResult
        <4>2. CASE n \notin q.created
          <5>1. PICK i \in cached : i = CHOOSE j \in cached : TRUE
            BY <2>3, <4>2
          <5>2. i \in Ids
            <6>1. cache \in SUBSET (1 .. Len(nameOf)) /\ Len(nameOf) <= MaxSpaces /\ Len(nameOf) \in Nat
              BY DEF AimInv, TypeOK
            <6>2. i \in cache
              BY <5>1
            <6> QED
              BY <6>1, <6>2, BoundAssumption DEF Ids
          <5> QED
            BY <2>3, <4>2, <5>1, <5>2, Zenon DEF UseResult
        <4> QED
          BY <4>1, <4>2, Zenon
      <3>2. PICK h, a : h = [name |-> n, id |-> i] /\ a = [q EXCEPT !.here = h]
        BY Zenon
      <3>3. h \in SpaceInfo
        <4>1. n \in Names
          BY <1>1, <1>2, <2>1, SpaceNames, Fields, Zenon DEF Statement, SpaceOps
        <4> QED
          BY <3>2, <4>1 DEF SpaceInfo
      <3>4. /\ a \in RequestType /\ a.phase = "validate" /\ a.by = q.by /\ a.text = q.text
            /\ a.at = q.at /\ a.calm = q.calm /\ a.created = q.created
        BY <1>1, <3>2, <3>3, Zenon DEF RequestType
      <3>5. q.text[q.at].op = "use" /\ q.text[q.at].name = n /\ "use" \notin SessionOps
        BY <2>1 DEF Statement, SessionOps
      <3>6. UsedIn(q.text, 1, q.at + 1)
        BY <1>2, <3>5, Before, Zenon
      <3>7. \A m : CreatedIn(q.text, m, 1, q.at) => CreatedIn(q.text, m, 1, q.at + 1)
        BY <1>2, Before, Zenon
      <3>8. q.calm /\ AllDependable(q.text) => Exists(n) \/ CreatedIn(q.text, n, 1, q.at)
        BY <1>5, <2>3 DEF Exists
      <3>9. req' = [req EXCEPT ![r] = Planned(a)]
        BY <2>1, <3>1, <3>2
      <3> QED
        BY <1>4, <1>5, <3>4, <3>5, <3>6, <3>7, <3>8, <3>9, Zenon
    <2> QED
      BY <2>2, <2>3
  <1>7. /\ \A m : CreatedIn(q.text, m, 1, q.at) => CreatedIn(q.text, m, 1, q.at + 1)
        /\ UsedIn(q.text, 1, q.at) => UsedIn(q.text, 1, q.at + 1)
    BY <1>2, Before, Zenon
  <1>8. CASE ValidateCreateSpace(r)
    <2>1. PICK a : a = [q EXCEPT !.created = @ \cup {Statement(q).name}]
      BY Zenon
    <2>2. Statement(q).op = "create space" /\ req' = [req EXCEPT ![r] = Planned(a)]
      BY <1>8, <2>1, Zenon DEF ValidateCreateSpace, Validate, CreateSpaceResult
    <2>3. Statement(q).name \in Names
      BY <1>1, <1>2, <2>2, SpaceNames, Fields, Zenon DEF Statement, SpaceOps
    <2>4. /\ a \in RequestType /\ a.phase = "validate" /\ a.by = q.by /\ a.text = q.text
          /\ a.at = q.at /\ a.calm = q.calm /\ a.here = q.here
          /\ a.created = q.created \cup {Statement(q).name}
      BY <1>1, <2>1, <2>3, Zenon DEF RequestType
    <2>5. q.text[q.at].op \notin SessionOps /\ q.text[q.at].op # "use"
      BY <2>2, Zenon DEF Statement, SessionOps
    <2>6. CreatedIn(q.text, Statement(q).name, 1, q.at + 1)
      BY <1>2, <2>2, Before, Zenon DEF Statement
    <2>7. q.calm /\ AllDependable(q.text) =>
              /\ \A n \in a.created : CreatedIn(q.text, n, 1, q.at + 1)
              /\ a.here = NoSpace \/ space[q.by].id \in alive \/ UsedIn(q.text, 1, q.at + 1)
      <3> SUFFICES ASSUME q.calm, AllDependable(q.text)
                   PROVE  /\ \A n \in a.created : CreatedIn(q.text, n, 1, q.at + 1)
                          /\ a.here = NoSpace \/ space[q.by].id \in alive \/ UsedIn(q.text, 1, q.at + 1)
        OBVIOUS
      <3>1. \A n \in a.created : CreatedIn(q.text, n, 1, q.at + 1)
        BY <1>5, <1>7, <2>4, <2>6, Zenon
      <3>2. a.here = NoSpace \/ space[q.by].id \in alive \/ UsedIn(q.text, 1, q.at + 1)
        BY <1>5, <1>7, <2>4, Zenon
      <3> QED
        BY <3>1, <3>2
    <2> QED
      BY <1>4, <2>2, <2>4, <2>5, <2>7, Zenon
  <1>9. CASE ValidateDropSpace(r)
    <2>1. Statement(q).op = "drop space" /\ req' = [req EXCEPT ![r] = Planned(q)]
      BY <1>9, Zenon DEF ValidateDropSpace, Validate
    <2>2. ~(q.calm /\ AllDependable(q.text))
      BY <1>5, <2>1, Zenon DEF Dependable, Statement, SessionOps
    <2> QED
      BY <1>1, <1>4, <2>1, <2>2, Zenon
  <1>10. CASE ValidateObject(r)
    <2> DEFINE creates == IF Statement(q).op = "create" THEN {Statement(q).name} \cap Schemas ELSE {}
    <2>1. PICK a : a = [q EXCEPT !.schemas = @ \cup creates]
      BY Zenon
    <2>2. Statement(q).op \in ObjectOps /\ req' = [req EXCEPT ![r] = ObjectResult(q)]
      BY <1>10 DEF ValidateObject, Validate
    <2>3. ObjectResult(q) = Idle \/ (ObjectResult(q) = Planned(a) /\ q.here # NoSpace)
      BY <2>1 DEF ObjectResult, Rejected
    <2>4. /\ a \in RequestType /\ a.phase = "validate" /\ a.by = q.by /\ a.text = q.text
          /\ a.at = q.at /\ a.calm = q.calm /\ a.here = q.here /\ a.created = q.created
      BY <1>1, <2>1, Zenon DEF RequestType
    <2>5. q.text[q.at].op # "use"
      BY <2>2 DEF Statement, ObjectOps, SessionOps
    <2>6. q.calm /\ AllDependable(q.text) =>
              /\ \A n \in a.created : CreatedIn(q.text, n, 1, q.at + 1)
              /\ a.here = NoSpace \/ space[q.by].id \in alive \/ UsedIn(q.text, 1, q.at)
              /\ a.here = NoSpace \/ space[q.by].id \in alive \/ UsedIn(q.text, 1, q.at + 1)
      <3> SUFFICES ASSUME q.calm, AllDependable(q.text)
                   PROVE  /\ \A n \in a.created : CreatedIn(q.text, n, 1, q.at + 1)
                          /\ a.here = NoSpace \/ space[q.by].id \in alive \/ UsedIn(q.text, 1, q.at)
                          /\ a.here = NoSpace \/ space[q.by].id \in alive \/ UsedIn(q.text, 1, q.at + 1)
        BY Zenon
      <3>1. \A n \in a.created : CreatedIn(q.text, n, 1, q.at + 1)
        BY <1>5, <1>7, <2>4, Zenon
      <3>2. a.here = NoSpace \/ space[q.by].id \in alive \/ UsedIn(q.text, 1, q.at)
        BY <1>5, <2>4, Zenon
      <3> QED
        BY <1>7, <3>1, <3>2, Zenon
    <2>7. CASE ObjectResult(q) = Idle
      BY <1>3, <2>2, <2>7
    <2>8. CASE ObjectResult(q) # Idle
      <3>1. req' = [req EXCEPT ![r] = Planned(a)] /\ a.here # NoSpace
        BY <2>2, <2>3, <2>4, <2>8, Zenon
      <3> QED
        BY <1>4, <2>4, <2>5, <2>6, <3>1, Zenon
    <2> QED
      BY <2>7, <2>8
  <1>11. CASE ValidateFails(r)
    BY <1>3, <1>11 DEF ValidateFails, Validate, Rejected
  <1> QED
    BY <1>6, <1>8, <1>9, <1>10, <1>11

\* What is supplied to a request that is being executed.
LEMMA CalmNow ==
    ASSUME AimInv, CalmInv, NEW r \in Requests, req[r].phase \in Phases,
           req[r].calm, AllDependable(req[r].text)
    PROVE  /\ Smooth(req[r]) /\ Dependable(Statement(req[r]))
           /\ req[r].at \in 1 .. Len(req[r].text) /\ req[r].at \in Nat /\ Len(req[r].text) \in Nat
           /\ req[r].phase # "validate" =>
                 /\ Statement(req[r]).op = "use" => Exists(Statement(req[r]).name)
                 /\ Statement(req[r]).op \in SessionOps => space[req[r].by].id \in alive
  <1> DEFINE q == req[r]
  <1>1. q # Idle /\ q \in RequestType /\ Aimed(q)
    BY UnderWay
  <1>2. Smooth(q)
    BY <1>1 DEF CalmInv, CalmSmooth
  <1>3. q.at \in 1 .. Len(q.text) /\ q.at \in Nat /\ Len(q.text) \in Nat
    BY <1>1, Place DEF Aimed
  <1>4. Dependable(Statement(q))
    BY <1>3 DEF AllDependable, Statement
  <1>5. ASSUME q.phase # "validate"
        PROVE  /\ Statement(q).op = "use" => Exists(Statement(q).name)
               /\ Statement(q).op \in SessionOps => space[q.by].id \in alive
    <2>1. Supplied(q, q.at, Len(q.text))
      BY <1>2, <1>5, Zenon DEF Smooth
    <2>2. q.at \in q.at .. Len(q.text) /\ q.at .. q.at - 1 = {}
      BY <1>3
    <2> QED
      BY <2>1, <2>2, Zenon DEF Supplied, Statement, CreatedIn, UsedIn
  <1> QED
    BY <1>2, <1>3, <1>4, <1>5

\* An executor names a space that exists.
LEMMA CallCalm ==
    ASSUME AimInv, CalmInv, NEW r \in Requests, Call(r)
    PROVE  CalmInv'
  <1> DEFINE q == req[r]
  <1>1. PICK v : v = [q EXCEPT !.phase = "called", !.target = Target(q)]
    OBVIOUS
  <1>2. /\ q.phase = "execute" /\ UNCHANGED <<nameOf, alive, cache, space, shared, gone>>
        /\ req' = [req EXCEPT ![r] = v]
    BY <1>1, Zenon DEF Call
  <1>3. q # Idle /\ q \in RequestType /\ q.phase \in Phases
    BY <1>2, UnderWay DEF Phases
  <1>4. /\ v.phase = "called" /\ v.target = Target(q) /\ v.by = q.by /\ v.text = q.text
        /\ v.at = q.at /\ v.calm = q.calm
    BY <1>1, <1>3, Zenon DEF RequestType
  <1>5. ASSUME q.calm, AllDependable(q.text) PROVE Smooth(v)
    <2>1. Smooth(q) /\ (Statement(q).op \in SessionOps => space[q.by].id \in alive)
      BY <1>2, <1>3, <1>5, CalmNow, Zenon
    <2>2. Statement(v) = Statement(q)
      BY <1>4 DEF Statement
    <2>3. Statement(q).op \in SessionOps => v.target \in alive
      BY <1>4, <2>1 DEF Target, SessionOps
    <2> QED
      BY <1>2, <1>4, <2>1, <2>2, <2>3, Zenon DEF Smooth, Supplied
  <1> QED
    BY <1>2, <1>3, <1>4, <1>5, CalmRequestOnly, Zenon

\* A calm request has no failures.
LEMMA FailureCalm ==
    ASSUME AimInv, CalmInv, NEW r \in Requests, CallFails(r) \/ Fail(r) \/ Report(r)
    PROVE  CalmInv'
  <1> DEFINE q == req[r]
  <1>1. UNCHANGED <<nameOf, alive, cache, space>> /\ q.phase \in Phases
    BY DEF CallFails, Fail, Report, Phases
  <1>2. q # Idle /\ q \in RequestType
    BY <1>1, UnderWay
  <1>3. CASE CallFails(r)
    <2>1. PICK v : v = [q EXCEPT !.phase = "answered", !.ok = FALSE, !.calm = FALSE]
      OBVIOUS
    <2>2. req' = [req EXCEPT ![r] = v] /\ ~v.calm
      BY <1>2, <1>3, <2>1, Zenon DEF CallFails, RequestType
    <2> QED
      BY <1>1, <1>2, <2>2, CalmRequestOnly, Zenon
  <1>4. CASE Fail(r)
    <2>1. PICK v : v = [q EXCEPT !.phase = "failed"]
      BY Zenon
    <2>2. req' = [req EXCEPT ![r] = v] /\ v.calm = q.calm /\ v.text = q.text
      BY <1>2, <1>4, <2>1, Zenon DEF Fail, RequestType
    <2>3. ~(q.calm /\ AllDependable(q.text))
      <3>1. q.phase = "answered" /\ ~q.ok
        BY <1>4 DEF Fail
      <3>2. q.calm /\ AllDependable(q.text) => Smooth(q)
        BY <1>2 DEF CalmInv, CalmSmooth
      <3> QED
        BY <3>1, <3>2, Zenon DEF Smooth
    <2> QED
      BY <1>1, <1>2, <2>2, <2>3, CalmRequestOnly, Zenon
  <1>5. CASE Report(r)
    BY <1>1, <1>2, <1>5, CalmRequestOnly, Zenon DEF Report
  <1> QED
    BY <1>3, <1>4, <1>5

\* The meta service answers.
LEMMA ServeCalm ==
    ASSUME AimInv, CalmInv, NEW r \in Requests, NEW op, NEW ok \in BOOLEAN, NEW i,
           Serve(r, op, ok, i),
           req[r].calm /\ AllDependable(req[r].text) =>
               /\ ok = TRUE
               /\ \A j \in alive : j \in alive' /\ nameOf'[j] = nameOf[j]
               /\ op = "use" => i \in alive'
               /\ op = "create space" => \E j \in alive' : nameOf'[j] = Statement(req[r]).name
    PROVE  CalmInv'
  <1> DEFINE q == req[r]
  <1>1. PICK v : v = [q EXCEPT !.phase = "answered", !.ok = ok, !.target = i]
    BY Zenon
  <1>2. /\ q.phase = "called" /\ Statement(q).op = op /\ UNCHANGED <<cache, space, shared, gone>>
        /\ req' = [req EXCEPT ![r] = v]
    BY <1>1, Zenon DEF Serve
  <1>3. q # Idle /\ q \in RequestType /\ q.phase \in Phases
    BY <1>2, UnderWay, Zenon DEF Phases
  <1>4. /\ v.phase = "answered" /\ v.ok = ok /\ v.target = i
        /\ v.by = q.by /\ v.text = q.text /\ v.at = q.at /\ v.calm = q.calm
    BY <1>1, <1>3, Zenon DEF RequestType
  <1>5. ASSUME q.calm, AllDependable(q.text) PROVE Smooth(v)'
    <2>1. Smooth(q)
      BY <1>2, <1>3, <1>5, CalmNow, Zenon
    <2>2. Statement(v) = Statement(q)
      BY <1>4, Zenon DEF Statement
    <2>3. \A n : Exists(n) => Exists(n)'
      BY <1>5, Zenon DEF Exists
    <2>4. Supplied(q, q.at, Len(q.text)) /\ space[q.by].id \in alive \cup {kInvalidSpaceID}
      BY <1>2, <2>1, Zenon DEF Smooth
    <2>5. Supplied(v, v.at, Len(v.text))'
      BY <1>2, <1>4, <1>5, <2>3, <2>4, Zenon DEF Supplied
    <2>6. v.ok /\ (op = "use" => v.target \in alive')
      BY <1>4, <1>5, Zenon
    <2>7. op = "create space" => Exists(Statement(v).name)'
      BY <1>5, <2>2, Zenon DEF Exists
    <2>8. space'[v.by].id \in alive' \cup {kInvalidSpaceID}
      BY <1>2, <1>4, <1>5, <2>4, Zenon
    <2> QED
      BY <1>2, <1>4, <2>2, <2>5, <2>6, <2>7, <2>8, Zenon DEF Smooth
  <1> QED
    BY <1>2, <1>3, <1>4, <1>5, CalmStep, Zenon

\* The meta service finds what a calm request needs.
LEMMA MetaCalm ==
    ASSUME AimInv, CalmInv, NEW r \in Requests,
           MetaCreateSpace(r) \/ MetaDropSpace(r) \/ MetaGetSpace(r) \/ MetaObject(r)
    PROVE  CalmInv'
  <1> DEFINE q == req[r]
             undisturbed == q.calm /\ AllDependable(q.text)
  <1>1. q.phase = "called" /\ q \in RequestType /\ q.phase \in Phases /\ q # Idle
    <2>1. q.phase = "called"
      BY Zenon DEF MetaCreateSpace, MetaDropSpace, MetaGetSpace, MetaObject, Serve
    <2> QED
      BY <2>1, UnderWay DEF Phases
  <1>2. undisturbed => /\ Smooth(q) /\ Dependable(Statement(q))
                       /\ Statement(q).op = "use" => Exists(Statement(q).name)
    BY <1>1, CalmNow, Zenon
  <1>3. nameOf \in Seq(Names) /\ alive \in SUBSET (1 .. Len(nameOf)) /\ Len(nameOf) \in Nat
    BY DEF AimInv, TypeOK
  <1>4. Statement(q).lenient \in BOOLEAN
    <2>1. q.text \in Seq(Statements) /\ q.at \in 1 .. Len(q.text)
      BY <1>1, Fields, UnderWay, Zenon DEF Aimed
    <2>2. Statement(q) \in Statements
      BY <2>1 DEF Statement
    <2> QED
      BY <2>2, Zenon DEF Statements
  <1>5. CASE MetaCreateSpace(r)
    <2>1. CASE /\ Existing(r) # {}
               /\ Serve(r, "create space", Statement(req[r]).lenient, kInvalidSpaceID)
               /\ UNCHANGED meta
      <3>1. undisturbed => Statement(q).lenient = TRUE
        <4>1. Statement(q).op = "create space"
          BY <2>1, Zenon DEF Serve
        <4> QED
          BY <1>2, <1>4, <4>1, Zenon DEF Dependable, SessionOps
      <3>2. \E j \in alive' : nameOf'[j] = Statement(q).name
        BY <2>1, Zenon DEF Existing, meta
      <3>3. \A j \in alive : j \in alive' /\ nameOf'[j] = nameOf[j]
        BY <2>1, Zenon DEF meta
      <3> QED
        BY <1>4, <2>1, <3>1, <3>2, <3>3, ServeCalm, Zenon
    <2>2. CASE /\ Serve(r, "create space", TRUE, kInvalidSpaceID)
               /\ nameOf' = Append(nameOf, Statement(req[r]).name)
               /\ alive' = alive \cup {Len(nameOf) + 1}
      <3>1. PICK n : n = Statement(q).name
        OBVIOUS
      <3>2. n \in Names
        BY <1>1, <2>2, <3>1, UnderWay, SpaceNames, Fields, Zenon DEF Serve, Statement, SpaceOps, Aimed
      <3>3. nameOf'[Len(nameOf) + 1] = n /\ \A j \in 1 .. Len(nameOf) : nameOf'[j] = nameOf[j]
        <4>1. nameOf' = Append(nameOf, n)
          BY <2>2, <3>1, Zenon
        <4> QED
          BY <1>3, <3>2, <4>1, Appended
      <3>4. alive' = alive \cup {Len(nameOf) + 1}
        BY <2>2, Zenon
      <3>5. \E j \in alive' : nameOf'[j] = Statement(q).name
        BY <3>1, <3>3, <3>4
      <3>6. \A j \in alive : j \in alive' /\ nameOf'[j] = nameOf[j]
        BY <1>3, <3>3, <3>4
      <3> QED
        BY <2>2, <3>5, <3>6, ServeCalm, Zenon
    <2> QED
      BY <1>5, <2>1, <2>2, Zenon DEF MetaCreateSpace
  <1>6. CASE MetaDropSpace(r)
    <2>1. Statement(q).op = "drop space"
      BY <1>6, Zenon DEF MetaDropSpace, Serve
    <2>2. ~undisturbed
      BY <1>2, <2>1, Zenon DEF Dependable, SessionOps
    <2>3. PICK ok \in BOOLEAN : \E i : Serve(r, "drop space", ok, i)
      BY <1>4, <1>6, Zenon DEF MetaDropSpace
    <2>4. PICK i : Serve(r, "drop space", ok, i)
      BY <2>3, Zenon
    <2> QED
      BY <2>2, <2>4, ServeCalm, Zenon
  <1>7. CASE MetaGetSpace(r)
    <2>1. CASE Existing(r) = {} /\ Serve(r, "use", FALSE, kInvalidSpaceID)
      <3>1. ~undisturbed
        <4>1. Statement(q).op = "use"
          BY <2>1 DEF Serve
        <4> QED
          BY <1>2, <2>1, <4>1, Zenon DEF Exists, Existing
      <3> QED
        BY <2>1, <3>1, ServeCalm, Zenon
    <2>2. ASSUME NEW i \in alive, Serve(r, "use", TRUE, i), UNCHANGED meta
          PROVE  CalmInv'
      <3>1. i \in alive' /\ \A j \in alive : j \in alive' /\ nameOf'[j] = nameOf[j]
        BY <2>2 DEF meta
      <3> QED
        BY <2>2, <3>1, ServeCalm, Zenon
    <2> QED
      BY <1>7, <2>1, <2>2, Zenon DEF MetaGetSpace
  <1>8. CASE MetaObject(r)
    <2>1. PICK ok, i : ok = (q.target \in alive) /\ i = q.target
      OBVIOUS
    <2>2. PICK op \in ObjectOps : Serve(r, op, ok, i)
      BY <1>8, <2>1 DEF MetaObject
    <2>3. ok \in BOOLEAN
      BY <2>1
    <2>4. op # "use" /\ op # "create space" /\ Statement(q).op = op
      BY <2>2, Zenon DEF ObjectOps, SessionOps, Serve
    <2>5. undisturbed => q.target \in alive
      <3>1. undisturbed => op \in SessionOps
        BY <1>2, <2>2, <2>4, Zenon DEF Dependable
      <3> QED
        BY <1>1, <1>2, <2>4, <3>1, Zenon DEF Smooth
    <2>6. undisturbed => ok = TRUE
      BY <2>1, <2>5, Zenon
    <2>7. \A j \in alive : j \in alive' /\ nameOf'[j] = nameOf[j]
      BY <1>8 DEF MetaObject, meta
    <2> QED
      BY <2>2, <2>3, <2>4, <2>6, <2>7, ServeCalm, Zenon
  <1> QED
    BY <1>5, <1>6, <1>7, <1>8

\* The request goes on to its next statement.
LEMMA ContinueCalm ==
    ASSUME AimInv, CalmInv, NEW r \in Requests, Succeed(r) \/ SwitchSpace(r) \/ DropSpace(r)
    PROVE  CalmInv'
  <1> DEFINE q == req[r]
             undisturbed == q.calm /\ AllDependable(q.text)
  <1>1. q.phase = "answered" /\ q.phase \in Phases /\ Continue(r) /\ UNCHANGED <<nameOf, alive, cache>>
    BY Zenon DEF Succeed, SwitchSpace, DropSpace, Answered, Phases
  <1>2. q # Idle /\ q \in RequestType
    BY <1>1, UnderWay
  <1>3. q.by \in Sessions
    BY <1>2, Fields, Zenon
  <1>4. PICK v : /\ req' = [req EXCEPT ![r] = v]
                 /\ \/ v = Idle
                    \/ v \in RequestType /\ Advanced(v, q) /\ ~Last(q)
    BY <1>1, Continuing
  <1>5. CASE v = Idle
    BY <1>2, <1>4, <1>5, CalmStep, Zenon
  <1>6. CASE v # Idle
    <2>1. v.phase = "execute" /\ v.by = q.by /\ v.text = q.text /\ v.at = q.at + 1 /\ v.calm = q.calm
      BY <1>4, <1>6 DEF Advanced
    <2>2. ASSUME undisturbed PROVE Smooth(v)'
      <3>1. /\ Smooth(q) /\ Dependable(Statement(q)) /\ q.at \in Nat /\ Len(q.text) \in Nat
        BY <1>1, <2>2, CalmNow, Zenon
      <3>2. /\ Supplied(q, q.at, Len(q.text)) /\ space[q.by].id \in alive \cup {kInvalidSpaceID}
            /\ Statement(q).op = "use" => q.target \in alive
            /\ Statement(q).op = "create space" => Exists(Statement(q).name)
        BY <1>1, <3>1, Zenon DEF Smooth
      <3>3. Statement(q).op # "drop space"
        BY <3>1, Zenon DEF Dependable, SessionOps
      <3>4. \/ space' = space /\ Statement(q).op # "use"
            \/ space'[q.by].id \in alive /\ Statement(q).op = "use"
        <4>1. CASE Succeed(r)
          BY <4>1, Zenon DEF Succeed, Answered, ObjectOps, SessionOps
        <4>2. CASE SwitchSpace(r)
          <5>1. /\ Statement(q).op = "use"
                /\ space' = [space EXCEPT ![q.by] = [name |-> Statement(q).name, id |-> q.target]]
            BY <4>2 DEF SwitchSpace, Answered
          <5>2. space'[q.by].id = q.target
            BY <1>3, <5>1 DEF AimInv, TypeOK
          <5> QED
            BY <3>2, <5>1, <5>2
        <4>3. CASE DropSpace(r)
          BY <3>3, <4>3, Zenon DEF DropSpace, Answered
        <4> QED
          BY <4>1, <4>2, <4>3
      <3>5. Supplied(v, v.at, Len(v.text))'
        <4> SUFFICES ASSUME NEW k \in q.at + 1 .. Len(q.text)
                     PROVE  /\ q.text[k].op = "use" =>
                                 \/ Exists(q.text[k].name)
                                 \/ CreatedIn(q.text, q.text[k].name, q.at + 1, k)
                            /\ q.text[k].op \in SessionOps =>
                                 space'[q.by].id \in alive \/ UsedIn(q.text, q.at + 1, k)
          BY <1>1, <2>1, Zenon DEF Supplied, Exists
        <4>1. k \in q.at .. Len(q.text) /\ \A j \in q.at .. k - 1 : j = q.at \/ j \in q.at + 1 .. k - 1
          BY <3>1, Later, Zenon
        <4>2. ASSUME q.text[k].op = "use"
              PROVE  Exists(q.text[k].name) \/ CreatedIn(q.text, q.text[k].name, q.at + 1, k)
          <5>1. Exists(q.text[k].name) \/ CreatedIn(q.text, q.text[k].name, q.at, k)
            BY <3>2, <4>1, <4>2, Zenon DEF Supplied
          <5> QED
            BY <3>2, <4>1, <5>1, Zenon DEF CreatedIn, Statement
        <4>3. ASSUME q.text[k].op \in SessionOps
              PROVE  space'[q.by].id \in alive \/ UsedIn(q.text, q.at + 1, k)
          <5>1. space[q.by].id \in alive \/ UsedIn(q.text, q.at, k)
            BY <3>2, <4>1, <4>3, Zenon DEF Supplied
          <5> QED
            BY <3>4, <4>1, <5>1, Zenon DEF UsedIn, Statement
        <4> QED
          BY <4>2, <4>3
      <3>6. space'[v.by].id \in alive' \cup {kInvalidSpaceID}
        BY <1>1, <2>1, <3>2, <3>4, Zenon
      <3> QED
        BY <2>1, <3>5, <3>6 DEF Smooth
    <2> QED
      BY <1>2, <1>4, <2>1, <2>2, CalmStep, Zenon
  <1> QED
    BY <1>5, <1>6

\* A new request is calm only if it is alone.
LEMMA SubmitCalm ==
    ASSUME AimInv, CalmInv, NEW r \in Requests, NEW s \in Sessions, NEW t \in Texts, Submit(r, s, t)
    PROVE  CalmInv'
  <1>1. /\ UNCHANGED <<nameOf, alive, cache, space>>
        /\ req'[r].phase = "validate" /\ req'[r].by = s /\ req'[r].at = 1 /\ req'[r].here = space[s]
        /\ req'[r].created = {}
    BY Submitted, Zenon
  <1>2. req'[r].calm => /\ \A x \in Requests : req[x] = Idle
                        /\ cache = alive /\ space[s].id \in alive \cup {kInvalidSpaceID}
    BY Submitted
  <1>3. \A x \in Requests \ {r} : \/ req[x] = Idle /\ req'[x] = Idle
                                  \/ req[x] # Idle /\ ~req'[x].calm
    BY Submitted
  <1>4. CalmAlone'
    BY <1>2, <1>3 DEF CalmAlone
  <1>5. ASSUME req'[r].calm PROVE Smooth(req[r])'
    <2>1. space[s] = NoSpace \/ space[s].id \in alive
      <3>1. space[s] = NoSpace \/ Known(space[s].id, space[s].name)
        BY DEF AimInv, SpacesKnown
      <3>2. Known(space[s].id, space[s].name) => space[s].id # kInvalidSpaceID
        BY DEF Known, kInvalidSpaceID
      <3> QED
        BY <1>2, <1>5, <3>1, <3>2
    <2>2. Supplied(req[r], 1, req[r].at - 1)'
      BY <1>1 DEF Supplied
    <2> QED
      BY <1>1, <1>2, <1>5, <2>1, <2>2, Zenon DEF Smooth
  <1>6. CalmSmooth'
    BY <1>3, <1>5 DEF CalmSmooth
  <1> QED
    BY <1>4, <1>6 DEF CalmInv

\* Every step preserves IInv.
LEMMA IInvStep ==
    ASSUME IInv, [Next]_vars
    PROVE  IInv'
  <1>1. AimInv /\ CalmInv /\ AimInv'
    BY AimStep DEF IInv
  <1>2. ASSUME UNCHANGED <<nameOf, alive, space, req>>, cache' \in {cache, alive} PROVE CalmInv'
    <2>1. CalmAlone'
      BY <1>1, <1>2 DEF CalmInv, CalmAlone
    <2>2. ASSUME NEW r \in Requests, Smooth(req[r]) PROVE Smooth(req[r])'
      BY <1>2, <2>2, Zenon DEF Smooth, Supplied, Exists, Statement
    <2>3. CalmSmooth'
      BY <1>1, <1>2, <2>2 DEF CalmInv, CalmSmooth
    <2> QED
      BY <2>1, <2>3 DEF CalmInv
  <1>3. ASSUME UNCHANGED vars \/ LoadCache PROVE CalmInv'
    BY <1>2, <1>3 DEF vars, LoadCache
  <1>4. ASSUME NEW r \in Requests, NEW s \in Sessions, NEW t \in Texts, Submit(r, s, t)
        PROVE  CalmInv'
    BY <1>1, <1>4, SubmitCalm
  <1>5. ASSUME NEW r \in Requests,
               \/ ValidateUse(r) \/ ValidateCreateSpace(r) \/ ValidateDropSpace(r)
               \/ ValidateObject(r) \/ ValidateFails(r)
        PROVE  CalmInv'
    BY <1>1, <1>5, ValidationCalm
  <1>6. ASSUME NEW r \in Requests,
               MetaCreateSpace(r) \/ MetaDropSpace(r) \/ MetaGetSpace(r) \/ MetaObject(r)
        PROVE  CalmInv'
    BY <1>1, <1>6, MetaCalm
  <1>7. ASSUME NEW r \in Requests, Call(r) PROVE CalmInv'
    BY <1>1, <1>7, CallCalm
  <1>8. ASSUME NEW r \in Requests, CallFails(r) \/ Fail(r) \/ Report(r) PROVE CalmInv'
    BY <1>1, <1>8, FailureCalm
  <1>9. ASSUME NEW r \in Requests, Succeed(r) \/ SwitchSpace(r) \/ DropSpace(r) PROVE CalmInv'
    BY <1>1, <1>9, ContinueCalm
  <1>10. CalmInv'
    BY <1>3, <1>4, <1>5, <1>6, <1>7, <1>8, <1>9 DEF Next
  <1> QED
    BY <1>1, <1>10 DEF IInv

\* IInv holds at first.
LEMMA IInvInit == Init => IInv
  BY AimInit DEF Init, IInv, CalmInv, CalmAlone, CalmSmooth

\* IInv is an inductive invariant.
THEOREM Invariance == Spec => []IInv
  BY IInvInit, IInvStep, PTL DEF Spec

\* A request of statements that do not depend on what exists, validated with
\* an up to date cache and disturbed by nobody, does not fail halfway: what
\* ValidateContext tracks is what SwitchSpaceExecutor and CreateSpaceExecutor
\* bring about.
THEOREM Runs == Spec => []RunsAsValidated
  <1>1. IInv => RunsAsValidated
    <2> SUFFICES ASSUME IInv, NEW r \in Requests, req[r].phase = "failed", req[r].calm,
                        \A k \in DOMAIN req[r].text : Dependable(req[r].text[k])
                 PROVE  FALSE
      BY DEF RunsAsValidated
    <2>1. req[r] # Idle /\ req[r] \in RequestType
      BY UnderWay DEF IInv, Phases
    <2>2. req[r].text \in Seq(Statements)
      BY <2>1, Fields, Zenon
    <2>3. AllDependable(req[r].text)
      BY <2>2 DEF AllDependable
    <2>4. Smooth(req[r])
      BY <2>1, <2>3 DEF IInv, CalmInv, CalmSmooth
    <2> QED
      BY <2>4, Zenon DEF Smooth
  <1> QED
    BY <1>1, Invariance, PTL
=============================================================================
