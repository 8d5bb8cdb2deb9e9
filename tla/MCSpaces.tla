------------------------------ MODULE MCSpaces ------------------------------
(* Requests that create, use, drop and re-create two spaces. *)
EXTENDS Spaces, TLC

St(o, n) == [op |-> o, name |-> n, lenient |-> FALSE]
If(o, n) == [op |-> o, name |-> n, lenient |-> TRUE]

MCTexts ==
    { << If("create space", "a"), St("use", "a"), St("create", "t") >>,
      << If("drop space", "a"), St("describe", "t") >>,
      << St("create space", "b") >>,
      << St("use", "b"), St("alter", "t") >>,
      << St("create", "t"), St("create", "t") >> }

Symmetry == Permutations(Sessions) \cup Permutations(Requests)
=============================================================================
