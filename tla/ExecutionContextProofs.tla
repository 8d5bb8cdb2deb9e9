------------------------ MODULE ExecutionContextProofs ------------------------
(***************************************************************************)
(* ExecutionContext implements VersionView, whatever the variables, the    *)
(* results and the width of size_t, as long as the versions that are kept  *)
(* are at most half of the values of size_t.                               *)
(***************************************************************************)
EXTENDS ExecutionContext, SequenceTheorems, TLAPS

-----------------------------------------------------------------------------
(***************************************************************************)
(* The arithmetic of getVersionedResult.                                   *)
(***************************************************************************)
\* A number that is smaller than the divisor is its own remainder.
LEMMA SmallRemainder ==
    ASSUME NEW a \in Nat, NEW b \in Nat, a < b
    PROVE  a % b = a
  BY SMT

\* Between the divisor and its double, the remainder is what exceeds the divisor.
LEMMA NextRemainder ==
    ASSUME NEW a \in Nat, NEW b \in Nat, a < b
    PROVE  (a + b) % b = a
  BY SMT

\* Counting back: version -k of a history of some size is at position size - k.
LEMMA IndexBack ==
    ASSUME NEW size \in Nat, size <= MaxVersions, NEW i \in 1 .. size
    PROVE  Index(size, 1 - i) = size - i + 1
  <1>1. /\ size + (1 - i) - 1 = size - i
        /\ size - i \in Nat /\ size - i < size /\ size - i < SizeT
        /\ SizeT \in Nat
    BY ContextAssumption
  <1>2. (size - i) % SizeT = size - i
    BY <1>1, SmallRemainder
  <1>3. (size - i) % size = size - i
    BY <1>1, SmallRemainder
  <1> QED
    BY <1>1, <1>2, <1>3 DEF Index

\* Counting forward: version k is at position k.
LEMMA IndexForward ==
    ASSUME NEW size \in Nat, size <= MaxVersions, NEW k \in 1 .. size
    PROVE  Index(size, k) = k
  <1>1. /\ size + k - 1 = (k - 1) + size
        /\ k - 1 \in Nat /\ k - 1 < size
        /\ (k - 1) + size \in Nat /\ (k - 1) + size < SizeT
        /\ SizeT \in Nat
    BY ContextAssumption
  <1>2. ((k - 1) + size) % SizeT = (k - 1) + size
    BY <1>1, SmallRemainder
  <1>3. ((k - 1) + size) % size = k - 1
    BY <1>1, NextRemainder
  <1> QED
    BY <1>1, <1>2, <1>3 DEF Index

-----------------------------------------------------------------------------
(***************************************************************************)
(* A history read from the latest version back, and how the changes of a   *)
(* history look to such a reader.                                          *)
(***************************************************************************)
Back(h) == [i \in 1 .. Len(h) |-> h[Len(h) - i + 1]]

\* A history read back is a sequence of the same length.
LEMMA BackIsSeq ==
    ASSUME NEW S, NEW h \in Seq(S)
    PROVE  /\ Back(h) \in Seq(S)
           /\ Len(Back(h)) = Len(h)
           /\ \A i \in 1 .. Len(h) : Back(h)[i] = h[Len(h) - i + 1]
  <1>1. \A i \in 1 .. Len(h) : h[Len(h) - i + 1] \in S
    <2> SUFFICES ASSUME NEW i \in 1 .. Len(h) PROVE h[Len(h) - i + 1] \in S
      OBVIOUS
    <2>1. Len(h) - i + 1 \in 1 .. Len(h)
      BY LenProperties
    <2> QED
      BY <2>1, ElementOfSeq
  <1>2. Len(h) \in Nat
    BY LenProperties
  <1>3. Back(h) \in [1 .. Len(h) -> S]
    BY <1>1 DEF Back
  <1>4. Back(h) \in Seq(S)
    BY <1>2, <1>3, SeqDef
  <1> QED
    BY <1>2, <1>3, <1>4, LenProperties DEF Back

\* A result that is appended is read first.
LEMMA BackOfAppend ==
    ASSUME NEW S, NEW h \in Seq(S), NEW r \in S
    PROVE  Back(Append(h, r)) = <<r>> \o Back(h)
  <1> DEFINE u == Append(h, r)
             s == Back(u)
             t == <<r>> \o Back(h)
  <1>1. /\ Len(h) \in Nat
        /\ u \in Seq(S)
        /\ Len(u) = Len(h) + 1
        /\ \A i \in 1 .. Len(h) : u[i] = h[i]
        /\ u[Len(h) + 1] = r
    BY LenProperties, AppendProperties
  <1>2. /\ s \in Seq(S)
        /\ Len(s) = Len(h) + 1
        /\ \A i \in 1 .. Len(h) + 1 : s[i] = u[Len(h) + 1 - i + 1]
    <2> HIDE DEF u
    <2> QED
      BY <1>1, BackIsSeq
  <1>3. <<r>> \in Seq(S) /\ Len(<<r>>) = 1 /\ <<r>>[1] = r
    OBVIOUS
  <1>4. /\ t \in Seq(S)
        /\ Len(t) = 1 + Len(h)
        /\ \A i \in 1 .. 1 + Len(h) : t[i] = IF i <= 1 THEN <<r>>[i] ELSE Back(h)[i - 1]
    BY <1>3, BackIsSeq, ConcatProperties
  <1>5. ASSUME NEW i \in 1 .. Len(s) PROVE s[i] = t[i]
    <2>1. CASE i = 1
      <3>1. Len(h) + 1 - i + 1 = Len(h) + 1 /\ i \in 1 .. Len(h) + 1 /\ i \in 1 .. 1 + Len(h)
        BY <2>1, <1>1
      <3>2. s[i] = r
        <4> HIDE DEF s, u
        <4> QED
          BY <3>1, <1>1, <1>2
      <3>3. t[i] = <<r>>[1]
        <4> HIDE DEF t
        <4> QED
          BY <2>1, <3>1, <1>4
      <3> QED
        BY <3>2, <3>3, <1>3
    <2>2. CASE i # 1
      <3>1. i - 1 \in 1 .. Len(h) /\ Len(h) + 1 - i + 1 \in 1 .. Len(h)
            /\ Len(h) - (i - 1) + 1 = Len(h) + 1 - i + 1 /\ ~(i <= 1) /\ i \in 1 .. 1 + Len(h)
        BY <2>2, <1>1, <1>2
      <3>2. s[i] = h[Len(h) + 1 - i + 1]
        BY <3>1, <1>1, <1>2
      <3>3. t[i] = Back(h)[i - 1]
        BY <3>1, <1>4
      <3>4. Back(h)[i - 1] = h[Len(h) - (i - 1) + 1]
        BY <3>1, BackIsSeq
      <3> QED
        BY <3>1, <3>2, <3>3, <3>4
    <2> QED
      BY <2>1, <2>2
  <1>6. s = t
    <2> HIDE DEF s, t
    <2> QED
      BY <1>1, <1>2, <1>4, <1>5, SeqEqual
  <1> QED
    BY <1>6

\* Only the oldest versions of a history disappear when its last k are kept.
LEMMA BackOfSuffix ==
    ASSUME NEW S, NEW h \in Seq(S), NEW k \in 0 .. Len(h)
    PROVE  /\ Suffix(h, k) \in Seq(S)
           /\ Len(Suffix(h, k)) = k
           /\ Back(Suffix(h, k)) = SubSeq(Back(h), 1, k)
  <1> DEFINE u == Suffix(h, k)
             s == Back(u)
             t == SubSeq(Back(h), 1, k)
  <1>1. Len(h) \in Nat /\ k \in Nat /\ Len(h) - k + 1 \in Int /\ Len(h) - (Len(h) - k + 1) + 1 = k
    BY LenProperties
  <1>2. \A i \in Len(h) - k + 1 .. Len(h) : h[i] \in S
    BY <1>1, ElementOfSeq
  <1>3. /\ u \in Seq(S)
        /\ Len(u) = k
        /\ \A i \in 1 .. k : u[i] = h[Len(h) - k + 1 + i - 1]
    <2>1. /\ u \in Seq(S)
          /\ Len(u) = IF Len(h) - k + 1 <= Len(h) THEN Len(h) - (Len(h) - k + 1) + 1 ELSE 0
          /\ \A i \in 1 .. Len(h) - (Len(h) - k + 1) + 1 : u[i] = h[Len(h) - k + 1 + i - 1]
      BY <1>1, <1>2, SubSeqProperties DEF Suffix
    <2> HIDE DEF u
    <2> QED
      BY <1>1, <2>1
  <1>4. /\ s \in Seq(S)
        /\ Len(s) = k
        /\ \A i \in 1 .. k : s[i] = u[k - i + 1]
    <2> HIDE DEF u
    <2> QED
      BY <1>3, BackIsSeq
  <1>5. /\ t \in Seq(S)
        /\ Len(t) = k
        /\ \A i \in 1 .. k : t[i] = Back(h)[i]
    <2>1. \A i \in 1 .. k : Back(h)[i] \in S
      BY <1>1, BackIsSeq, ElementOfSeq
    <2>2. /\ t \in Seq(S)
          /\ Len(t) = IF 1 <= k THEN k - 1 + 1 ELSE 0
          /\ \A i \in 1 .. k - 1 + 1 : t[i] = Back(h)[1 + i - 1]
      BY <1>1, <2>1, SubSeqProperties
    <2> HIDE DEF t
    <2> QED
      BY <1>1, <2>2
  <1>6. ASSUME NEW i \in 1 .. k PROVE s[i] = t[i]
    <2>1. k - i + 1 \in 1 .. k /\ i \in 1 .. Len(h)
          /\ Len(h) - k + 1 + (k - i + 1) - 1 = Len(h) - i + 1
      BY <1>1
    <2>2. Back(h)[i] = h[Len(h) - i + 1]
      BY <2>1, BackIsSeq
    <2> HIDE DEF s, t, u
    <2> QED
      BY <1>3, <1>4, <1>5, <2>1, <2>2
  <1>7. s = t
    <2> HIDE DEF s, t
    <2> QED
      BY <1>4, <1>5, <1>6, SeqEqual
  <1> QED
    BY <1>3, <1>7

\* A result that is moved out is the one read first.
LEMMA BackOfMoved ==
    ASSUME NEW S, NEW h \in Seq(S), h # <<>>, NEW e \in S
    PROVE  /\ [h EXCEPT ![Len(h)] = e] \in Seq(S)
           /\ Len([h EXCEPT ![Len(h)] = e]) = Len(h)
           /\ Back([h EXCEPT ![Len(h)] = e]) = <<e>> \o Tail(Back(h))
  <1> DEFINE u == [h EXCEPT ![Len(h)] = e]
             s == Back(u)
             t == <<e>> \o Tail(Back(h))
  <1>1. Len(h) \in Nat \ {0} /\ Len(h) \in 1 .. Len(h)
    BY EmptySeq
  <1>2. /\ u \in Seq(S)
        /\ Len(u) = Len(h)
        /\ \A j \in 1 .. Len(h) : u[j] = IF j = Len(h) THEN e ELSE h[j]
    BY <1>1, ExceptSeq
  <1>3. /\ s \in Seq(S)
        /\ Len(s) = Len(h)
        /\ \A i \in 1 .. Len(h) : s[i] = u[Len(h) - i + 1]
    <2> HIDE DEF u
    <2> QED
      BY <1>2, BackIsSeq
  <1>4. /\ Tail(Back(h)) \in Seq(S)
        /\ Len(Tail(Back(h))) = Len(h) - 1
        /\ \A i \in 1 .. Len(h) - 1 : Tail(Back(h))[i] = Back(h)[i + 1]
    <2>1. Back(h) \in Seq(S) /\ Len(Back(h)) = Len(h)
      BY BackIsSeq
    <2>2. Back(h) # <<>>
      BY <2>1, <1>1, EmptySeq
    <2> QED
      BY <2>1, <2>2, HeadTailProperties
  <1>5. <<e>> \in Seq(S) /\ Len(<<e>>) = 1 /\ <<e>>[1] = e
    OBVIOUS
  <1>6. /\ t \in Seq(S)
        /\ Len(t) = Len(h)
        /\ \A i \in 1 .. Len(h) : t[i] = IF i <= 1 THEN e ELSE Tail(Back(h))[i - 1]
    <2>1. /\ t \in Seq(S)
          /\ Len(t) = 1 + (Len(h) - 1)
          /\ \A i \in 1 .. 1 + (Len(h) - 1) : t[i] = IF i <= 1 THEN <<e>>[i] ELSE Tail(Back(h))[i - 1]
      BY <1>4, <1>5, ConcatProperties
    <2>2. 1 + (Len(h) - 1) = Len(h)
      BY <1>1
    <2>3. ASSUME NEW i \in 1 .. Len(h)
          PROVE  t[i] = IF i <= 1 THEN e ELSE Tail(Back(h))[i - 1]
      <3>1. CASE i = 1
        <4>1. t[i] = <<e>>[1]
          <5> HIDE DEF t
          <5> QED
            BY <3>1, <2>1, <2>2
        <4> QED
          BY <4>1, <3>1, <1>5
      <3>2. CASE i # 1
        <4>1. ~(i <= 1)
          BY <3>2
        <4> HIDE DEF t
        <4> QED
          BY <4>1, <2>1, <2>2
      <3> QED
        BY <3>1, <3>2
    <2> HIDE DEF t
    <2> QED
      BY <2>1, <2>2, <2>3
  <1>7. ASSUME NEW i \in 1 .. Len(h) PROVE s[i] = t[i]
    <2>1. CASE i = 1
      <3> HIDE DEF s, t, u
      <3> QED
        BY <2>1, <1>1, <1>2, <1>3, <1>6
    <2>2. CASE i # 1
      <3>1. /\ i - 1 \in 1 .. Len(h) - 1 /\ (i - 1) + 1 = i /\ ~(i <= 1)
            /\ Len(h) - i + 1 \in 1 .. Len(h) /\ Len(h) - i + 1 # Len(h)
        BY <2>2, <1>1
      <3>2. Back(h)[i] = h[Len(h) - i + 1]
        BY BackIsSeq
      <3> HIDE DEF s, t, u
      <3> QED
        BY <3>1, <3>2, <1>2, <1>3, <1>4, <1>6
    <2> QED
      BY <2>1, <2>2
  <1>8. s = t
    <2> HIDE DEF s, t, u
    <2> QED
      BY <1>3, <1>6, <1>7, SeqEqual
  <1> QED
    BY <1>2, <1>8

-----------------------------------------------------------------------------
(***************************************************************************)
(* The histories are sequences of results within the bound.                *)
(***************************************************************************)
AllResults == Results \cup {Moved}

\* Every step keeps the types: in particular no empty result enters a history.
LEMMA TypeStep == TypeOK /\ [Next]_vars => TypeOK'
  <1> SUFFICES ASSUME TypeOK, [Next]_vars PROVE TypeOK'
    OBVIOUS
  <1> USE DEF TypeOK
  <1>1. ASSUME NEW n \in Names, InitVar(n) PROVE TypeOK'
    BY <1>1 DEF InitVar
  <1>2. ASSUME NEW n \in Names, NEW r \in Results, SetResult(n, r) PROVE TypeOK'
    <2>1. /\ Append(hist[n], r) \in Seq(Results \cup {Moved})
          /\ Len(Append(hist[n], r)) = Len(hist[n]) + 1
          /\ Len(hist[n]) \in Nat
      BY AppendProperties, LenProperties
    <2>2. Len(hist[n]) + 1 <= MaxVersions
      BY <1>2, <2>1, ContextAssumption DEF SetResult
    <2> QED
      BY <1>2, <2>1, <2>2 DEF SetResult
  <1>3. ASSUME NEW n \in Names, NEW k \in 0 .. MaxVersions, TruncHistory(n, k) PROVE TypeOK'
    <2>1. k \in 0 .. Len(hist[n])
      BY <1>3, LenProperties, ContextAssumption DEF TruncHistory
    <2>2. Suffix(hist[n], k) \in Seq(Results \cup {Moved}) /\ Len(Suffix(hist[n], k)) = k
      BY <2>1, BackOfSuffix
    <2> QED
      BY <1>3, <2>2 DEF TruncHistory
  <1>4. ASSUME NEW n \in Names, DeleteValue(n) PROVE TypeOK'
    <2>1. <<>> \in Seq(Results \cup {Moved}) /\ Len(<<>>) <= MaxVersions
      BY EmptySeq, ContextAssumption
    <2> QED
      BY <1>4, <2>1 DEF DeleteValue
  <1>5. ASSUME NEW n \in Names, MoveValue(n) PROVE TypeOK'
    <2> DEFINE u == [hist[n] EXCEPT ![Len(hist[n])] = Moved]
    <2>1. u \in Seq(Results \cup {Moved}) /\ Len(u) = Len(hist[n])
      BY <1>5, BackOfMoved DEF MoveValue
    <2>2. hist' = [hist EXCEPT ![n] = u] /\ exist' = exist
      BY <1>5 DEF MoveValue
    <2> HIDE DEF u
    <2> QED
      BY <2>1, <2>2
  <1>6. CASE UNCHANGED vars
    BY <1>6 DEF vars
  <1> QED
    BY <1>1, <1>2, <1>3, <1>4, <1>5, <1>6 DEF Next

(***************************************************************************)
(* ExecutionContext is type correct: a history never holds the empty       *)
(* result, and never more versions than the bound.                         *)
(***************************************************************************)
THEOREM TypeCorrect == Spec => []TypeOK
  <1>1. Init => TypeOK
    BY EmptySeq, ContextAssumption DEF Init, TypeOK
  <1> QED
    BY <1>1, TypeStep, PTL DEF Spec

-----------------------------------------------------------------------------
(***************************************************************************)
(* The versions that can be read, before and after a step.                 *)
(***************************************************************************)
LEMMA ViewIsBack ==
    ASSUME TypeOK
    PROVE  View = [n \in Names |-> Back(hist[n])]
  <1> SUFFICES ASSUME NEW n \in Names, NEW i \in 1 .. Len(hist[n])
               PROVE  GetVersionedResult(n, 1 - i) = hist[n][Len(hist[n]) - i + 1]
    BY DEF View, Back
  <1>1. Len(hist[n]) \in Nat /\ Len(hist[n]) <= MaxVersions
    BY LenProperties DEF TypeOK
  <1>2. ~(Abs(1 - i) >= Len(hist[n]))
    BY <1>1 DEF Abs
  <1>3. Index(Len(hist[n]), 1 - i) = Len(hist[n]) - i + 1
    BY <1>1, IndexBack
  <1> QED
    BY <1>2, <1>3 DEF GetVersionedResult

\* The same for the state after a step.
LEMMA NextViewIsBack ==
    ASSUME TypeOK'
    PROVE  View' = [n \in Names |-> Back(hist'[n])]
  <1> SUFFICES ASSUME NEW n \in Names, NEW i \in 1 .. Len(hist'[n])
               PROVE  GetVersionedResult(n, 1 - i)' = hist'[n][Len(hist'[n]) - i + 1]
    BY DEF View, Back
  <1>1. Len(hist'[n]) \in Nat /\ Len(hist'[n]) <= MaxVersions
    BY LenProperties DEF TypeOK
  <1>2. ~(Abs(1 - i) >= Len(hist'[n]))
    BY <1>1 DEF Abs
  <1>3. Index(Len(hist'[n]), 1 - i) = Len(hist'[n]) - i + 1
    BY <1>1, IndexBack
  <1> QED
    BY <1>2, <1>3 DEF GetVersionedResult

\* In the initial state nothing can be read.
LEMMA ViewOfInit == Init => V!Init
  <1> SUFFICES ASSUME Init PROVE View = [n \in Names |-> <<>>]
    BY DEF V!Init
  <1>1. TypeOK
    BY EmptySeq, ContextAssumption DEF Init, TypeOK
  <1>2. ASSUME NEW n \in Names PROVE Back(hist[n]) = <<>>
    <2>1. hist[n] = <<>> /\ hist[n] \in Seq(AllResults)
      BY EmptySeq DEF Init
    <2>2. Back(hist[n]) \in Seq(AllResults) /\ Len(Back(hist[n])) = 0
      BY <2>1, BackIsSeq, EmptySeq
    <2> QED
      BY <2>2, EmptySeq
  <1> QED
    BY <1>1, <1>2, ViewIsBack

\* A step that changes the history of one variable changes the view of that variable.
LEMMA ViewOfChange ==
    ASSUME TypeOK, TypeOK', NEW n \in Names, NEW h, hist' = [hist EXCEPT ![n] = h]
    PROVE  /\ View' = [View EXCEPT ![n] = Back(h)]
           /\ View[n] = Back(hist[n])
           /\ hist[n] \in Seq(AllResults)
  <1>1. hist'[n] = h /\ \A m \in Names \ {n} : hist'[m] = hist[m]
    BY DEF TypeOK
  <1>2. /\ View = [m \in Names |-> Back(hist[m])]
        /\ View' = [m \in Names |-> Back(hist'[m])]
    BY ViewIsBack, NextViewIsBack
  <1>3. ASSUME NEW m \in Names PROVE Back(hist'[m]) = IF m = n THEN Back(h) ELSE View[m]
    BY <1>1, <1>2
  <1> HIDE DEF View
  <1> QED
    BY <1>2, <1>3 DEF TypeOK, AllResults

(***************************************************************************)
(* Every step of ExecutionContext is a step of VersionView, or one it does *)
(* not see.                                                                *)
(***************************************************************************)
LEMMA ViewStep == TypeOK /\ TypeOK' /\ [Next]_vars => [V!Next]_View
  <1> SUFFICES ASSUME TypeOK, TypeOK', [Next]_vars PROVE [V!Next]_View
    OBVIOUS
  <1>1. ASSUME hist' = hist PROVE [V!Next]_View
    BY <1>1, ViewIsBack, NextViewIsBack
  <1>2. ASSUME NEW n \in Names, NEW r \in Results, SetResult(n, r) PROVE [V!Next]_View
    <2>1. hist' = [hist EXCEPT ![n] = Append(hist[n], r)] /\ r \in AllResults
      BY <1>2 DEF SetResult, AllResults
    <2>2. /\ View' = [View EXCEPT ![n] = Back(Append(hist[n], r))]
          /\ View[n] = Back(hist[n])
          /\ hist[n] \in Seq(AllResults)
      BY <2>1, ViewOfChange
    <2>3. View' = [View EXCEPT ![n] = <<r>> \o View[n]]
      <3>1. Back(Append(hist[n], r)) = <<r>> \o View[n]
        BY <2>1, <2>2, BackOfAppend
      <3> QED
        BY <2>2, <3>1
    <2> QED
      BY <2>3 DEF V!Next, V!Write
  <1>3. ASSUME NEW n \in Names, NEW k \in 0 .. MaxVersions, TruncHistory(n, k) PROVE [V!Next]_View
    <2>1. hist' = [hist EXCEPT ![n] = Suffix(hist[n], k)]
      BY <1>3 DEF TruncHistory
    <2>2. /\ View' = [View EXCEPT ![n] = Back(Suffix(hist[n], k))]
          /\ View[n] = Back(hist[n])
          /\ hist[n] \in Seq(AllResults)
      BY <2>1, ViewOfChange
    <2>3. k \in 0 .. Len(hist[n]) /\ Len(View[n]) = Len(hist[n])
      <3>1. Len(hist[n]) \in Nat /\ Len(Back(hist[n])) = Len(hist[n])
        BY <2>2, LenProperties, BackIsSeq
      <3>2. Len(hist[n]) > k
        BY <1>3 DEF TruncHistory
      <3> QED
        BY <2>2, <3>1, <3>2, ContextAssumption
    <2>4. Back(Suffix(hist[n], k)) = SubSeq(View[n], 1, k)
      BY <2>2, <2>3, BackOfSuffix
    <2>5. View' = [View EXCEPT ![n] = SubSeq(View[n], 1, k)]
      BY <2>2, <2>4
    <2> QED
      BY <2>3, <2>5 DEF V!Next, V!Forget
  <1>4. ASSUME NEW n \in Names, DeleteValue(n) PROVE [V!Next]_View
    <2>1. hist' = [hist EXCEPT ![n] = <<>>]
      BY <1>4 DEF DeleteValue
    <2>2. /\ View' = [View EXCEPT ![n] = Back(<<>>)]
          /\ View[n] = Back(hist[n])
          /\ hist[n] \in Seq(AllResults)
      BY <2>1, ViewOfChange
    <2>3. Back(<<>>) = <<>>
      <3>1. Back(<<>>) \in Seq(AllResults) /\ Len(Back(<<>>)) = 0
        BY BackIsSeq, EmptySeq
      <3> QED
        BY <3>1, EmptySeq
    <2>4. SubSeq(View[n], 1, 0) = <<>>
      BY SubSeqEmpty
    <2>5. 0 \in 0 .. Len(View[n])
      BY <2>2, BackIsSeq, LenProperties
    <2>6. View' = [View EXCEPT ![n] = SubSeq(View[n], 1, 0)]
      BY <2>2, <2>3, <2>4
    <2> QED
      BY <2>5, <2>6 DEF V!Next, V!Forget
  <1>5. ASSUME NEW n \in Names, MoveValue(n) PROVE [V!Next]_View
    <2> DEFINE u == [hist[n] EXCEPT ![Len(hist[n])] = Moved]
    <2>1. hist' = [hist EXCEPT ![n] = u] /\ hist[n] # <<>> /\ Moved \in AllResults
      BY <1>5 DEF MoveValue, AllResults
    <2>2. /\ View' = [View EXCEPT ![n] = Back(u)]
          /\ View[n] = Back(hist[n])
          /\ hist[n] \in Seq(AllResults)
      BY <2>1, ViewOfChange
    <2>3. Back(u) = <<Moved>> \o Tail(View[n])
      BY <2>1, <2>2, BackOfMoved
    <2>4. View[n] # <<>>
      BY <2>1, <2>2, BackIsSeq, EmptySeq
    <2>5. View' = [View EXCEPT ![n] = <<Moved>> \o Tail(View[n])]
      BY <2>2, <2>3
    <2> QED
      BY <2>4, <2>5 DEF V!Next, V!Take
  <1>6. CASE UNCHANGED vars
    BY <1>1, <1>6 DEF vars
  <1>7. ASSUME NEW n \in Names, InitVar(n) PROVE [V!Next]_View
    BY <1>1, <1>7 DEF InitVar
  <1> QED
    BY <1>2, <1>3, <1>4, <1>5, <1>6, <1>7 DEF Next

(***************************************************************************)
(* What getVersionedResult reads counting back from the latest version is  *)
(* what VersionView promises, through any appending, truncating, deleting  *)
(* and moving out.                                                         *)
(***************************************************************************)
THEOREM Refinement == Spec => ReadsAsPromised
  <1> QED
    BY ViewOfInit, ViewStep, TypeCorrect, PTL DEF Spec, ReadsAsPromised, V!Spec

(***************************************************************************)
(* Counting forward, version k is the k-th oldest of a history that has    *)
(* more than k versions, for every width of size_t that fits the bound.    *)
(***************************************************************************)
THEOREM Forward == Spec => []CountsForward
  <1>1. TypeOK => CountsForward
    <2> SUFFICES ASSUME TypeOK, NEW n \in Names, NEW k \in 1 .. MaxVersions, k < Len(hist[n])
                 PROVE  GetVersionedResult(n, k) = GetHistory(n)[k]
      BY DEF CountsForward
    <2>1. Len(hist[n]) \in Nat /\ Len(hist[n]) <= MaxVersions
      BY LenProperties DEF TypeOK
    <2>2. ~(Abs(k) >= Len(hist[n])) /\ k \in 1 .. Len(hist[n])
      BY <2>1, ContextAssumption DEF Abs
    <2>3. Index(Len(hist[n]), k) = k
      BY <2>1, <2>2, IndexForward
    <2> QED
      BY <2>2, <2>3 DEF GetVersionedResult, GetHistory
  <1> QED
    BY <1>1, TypeCorrect, PTL
=============================================================================
