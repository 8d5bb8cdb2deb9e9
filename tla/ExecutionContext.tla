-------------------------- MODULE ExecutionContext --------------------------
(***************************************************************************)
(* The variables of a query (src/src/context/ExecutionContext.cpp).        *)
(*                                                                         *)
(* Every variable keeps a history of results, the oldest first.  Executors *)
(* append to it, and read it by a version number that counts back from the *)
(* latest (0, -1, ...) or forward from the oldest (1, 2, ...).             *)
(***************************************************************************)
EXTENDS Integers, Sequences

CONSTANTS
    Names,      \* the names of variables
    Results,    \* the results that executors produce
    Empty,      \* Result::EmptyResult()
    Moved,      \* a result whose value has been moved out
    SizeT,      \* how many values size_t has (2^64 in the code)
    MaxVersions \* bound: the versions of a variable that are kept

ASSUME ContextAssumption ==
    /\ Empty \notin Results
    /\ Moved \notin Results /\ Moved # Empty
    /\ SizeT \in Nat
    /\ MaxVersions \in Nat
    /\ 2 * MaxVersions <= SizeT

VARIABLES
    exist,     \* the names that are keys of valueMap_
    hist       \* the vectors in valueMap_

vars == <<exist, hist>>

\* Every variable has its type.
TypeOK ==
    /\ exist \subseteq Names
    /\ hist \in [Names -> Seq(Results \cup {Moved})]
    /\ \A n \in Names : Len(hist[n]) <= MaxVersions

Init ==
    /\ exist = {}
    /\ hist = [n \in Names |-> <<>>]

\* The last k elements of s.
Suffix(s, k) == SubSeq(s, Len(s) - k + 1, Len(s))

\* Executor::Executor creates the variable before the plan runs.
InitVar(n) ==
    /\ exist' = exist \cup {n}
    /\ UNCHANGED hist

\* setResult, and setValue, which wraps its value in a result.
SetResult(n, r) ==
    /\ Len(hist[n]) < MaxVersions
    /\ exist' = exist \cup {n}
    /\ hist' = [hist EXCEPT ![n] = Append(@, r)]

\* Mutant: the oldest versions are kept.
TruncHistoryOldest(n, k) ==
    /\ Len(hist[n]) > k
    /\ hist' = [hist EXCEPT ![n] = SubSeq(@, 1, k)]
    /\ UNCHANGED exist

\* truncHistory
TruncHistory(n, k) ==
    /\ Len(hist[n]) > k
    /\ hist' = [hist EXCEPT ![n] = Suffix(@, k)]
    /\ UNCHANGED exist

\* deleteValue
DeleteValue(n) ==
    /\ exist' = exist \ {n}
    /\ hist' = [hist EXCEPT ![n] = <<>>]

\* moveValue, with which QueryInstance takes the result of the query.
MoveValue(n) ==
    /\ hist[n] # <<>>
    /\ hist' = [hist EXCEPT ![n] = [@ EXCEPT ![Len(@)] = Moved]]
    /\ UNCHANGED exist

Next ==
    \E n \in Names :
        \/ InitVar(n)
        \/ \E r \in Results : SetResult(n, r)
        \/ \E k \in 0 .. MaxVersions : TruncHistory(n, k)
        \/ DeleteValue(n)
        \/ MoveValue(n)

Spec == Init /\ [][Next]_vars

-----------------------------------------------------------------------------
(***************************************************************************)
(* The reads.                                                              *)
(***************************************************************************)
Abs(v) == IF v < 0 THEN -v ELSE v

\* getResult and getValue
GetResult(n) == IF hist[n] # <<>> THEN hist[n][Len(hist[n])] ELSE Empty

\* Mutant: the sign is ignored.
IndexUnsigned(size, version) == size - Abs(version)

\* The position that getVersionedResult reads: int64_t and size_t are added as
\* unsigned numbers.  (Sequences start at 1 where vectors start at 0.)
Index(size, version) == (((size + version - 1) % SizeT) % size) + 1

\* getVersionedResult
GetVersionedResult(n, version) ==
    LET size == Len(hist[n])
    IN  IF Abs(version) >= size THEN Empty ELSE hist[n][Index(size, version)]

\* getHistory
GetHistory(n) == hist[n]

-----------------------------------------------------------------------------
(***************************************************************************)
(* Whatever is appended, truncated, deleted and moved out, in any order:   *)
(* the versions 0, -1, -2, ... that getVersionedResult reads are what      *)
(* VersionView promises.  The latest write is version 0, every write moves *)
(* the others one back (a loop that reads kPreviousOneVersion gets the     *)
(* result of the round before), and only the oldest are forgotten.         *)
(***************************************************************************)
View == [n \in Names |-> [i \in 1 .. Len(hist[n]) |-> GetVersionedResult(n, 1 - i)]]
V == INSTANCE VersionView WITH view <- View
ReadsAsPromised == V!Spec

(***************************************************************************)
(* As far as the code supports it, the version k > 0 is the k-th oldest,   *)
(* although size and version are added as unsigned numbers and reduced.    *)
(***************************************************************************)
CountsForward ==
    \A n \in Names : \A k \in 1 .. MaxVersions :
        k < Len(hist[n]) => GetVersionedResult(n, k) = GetHistory(n)[k]

(***************************************************************************)
(* ExecutionContext.h:35, "1 is the oldest, 2 is the second elder": every  *)
(* version that is kept can be read counting forward from the oldest.      *)
(***************************************************************************)
OldestIsVersionOne ==
    \A n \in Names : \A k \in 1 .. MaxVersions :
        k <= Len(hist[n]) => GetVersionedResult(n, k) = GetHistory(n)[k]
=============================================================================
