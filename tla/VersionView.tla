----------------------------- MODULE VersionView -----------------------------
(***************************************************************************)
(* What ExecutionContext promises to the executors: the versions of every  *)
(* variable that can be read, the latest first.  A write puts a result in  *)
(* front, and what is forgotten is always the oldest.                      *)
(***************************************************************************)
EXTENDS Naturals, Sequences

CONSTANTS Names, Results, Moved

VARIABLE view

Init == view = [n \in Names |-> <<>>]

Write(n, r) == view' = [view EXCEPT ![n] = <<r>> \o @]

Forget(n) == \E k \in 0 .. Len(view[n]) : view' = [view EXCEPT ![n] = SubSeq(@, 1, k)]

\* The value of the latest version is taken out; its place remains.
Take(n) ==
    /\ view[n] # <<>>
    /\ view' = [view EXCEPT ![n] = <<Moved>> \o Tail(@)]

Next == \E n \in Names : \/ \E r \in Results : Write(n, r)
                         \/ Forget(n)
                         \/ Take(n)

Spec == Init /\ [][Next]_view
=============================================================================
