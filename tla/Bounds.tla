------------------------------- MODULE Bounds -------------------------------
(***************************************************************************)
(* The bounds of an index scan (optimizer/OptimizerUtils).  A value of an  *)
(* indexed column is the tuple of its digits: one for INT and FLOAT, the   *)
(* bytes of a STRING of fixed length, year to day for DATE, hour to        *)
(* microsecond for TIME, year to microsecond for DATETIME.                 *)
(***************************************************************************)
EXTENDS Integers, Sequences

CONSTANT Limits     \* type -> the greatest value of each digit

Bounded == {"INT", "FLOAT", "STRING", "DATE", "TIME", "DATETIME"}
Digits(type) == DOMAIN Limits[type]
\* A digit starts again from 1 after an overflow, the byte of a string from 0.
ResetTo(type) == IF type = "STRING" THEN 0 ELSE 1
IntMin == -Limits["INT"][1] - 1

(***************************************************************************)
(* Floating point in small: the numbers around zero are exact, the others  *)
(* are multiples of Coarse; the least positive one is 1 and the epsilon    *)
(* that is added or subtracted 2.                                          *)
(***************************************************************************)
Coarse == 8
Epsilon == 2
Rounded(x) == IF -Coarse < x /\ x < Coarse THEN x ELSE Coarse * ((x + (Coarse \div 2)) \div Coarse)
Floats == {x \in -Limits["FLOAT"][1]..Limits["FLOAT"][1] : Rounded(x) = x}

IntGT(d) == IF d = Limits["INT"] THEN d ELSE <<d[1] + 1>>
IntLT(d) == IF d = <<IntMin>> THEN d ELSE <<d[1] - 1>>
FloatGT(d) ==
    CASE d = Limits["FLOAT"] -> d
      [] d[1] = 0 -> <<1>>
      [] d[1] = -1 -> <<0>>
      [] OTHER -> <<Rounded(d[1] + Epsilon)>>
FloatLT(d) ==
    CASE d[1] = -Limits["FLOAT"][1] -> d
      [] d[1] = 0 -> <<-1>>
      [] d[1] = -1 -> <<0>>
      [] OTHER -> <<Rounded(d[1] - Epsilon)>>

(***************************************************************************)
(* The odometer of the other types: the last digit that is not at its      *)
(* limit moves, those after it start again.  The value that cannot move is *)
(* its own bound.                                                          *)
(***************************************************************************)
Turned(d, free, new, reset) ==
    IF free = {} THEN d
    ELSE LET i == CHOOSE j \in free : \A k \in free : k <= j
         IN [j \in DOMAIN d |-> IF j < i THEN d[j] ELSE IF j = i THEN new[i] ELSE reset[j]]
\* Mutant: the digits of a string start again from 1 as well.
OdometerGTFromOne(type, d) ==
    Turned(d, {i \in DOMAIN d : d[i] < Limits[type][i]}, [i \in DOMAIN d |-> d[i] + 1],
           [i \in DOMAIN d |-> 1])
OdometerGT(type, d) ==
    Turned(d, {i \in DOMAIN d : d[i] < Limits[type][i]}, [i \in DOMAIN d |-> d[i] + 1],
           [i \in DOMAIN d |-> ResetTo(type)])
OdometerLT(type, d) ==
    Turned(d, {i \in DOMAIN d : d[i] > ResetTo(type)}, [i \in DOMAIN d |-> d[i] - 1],
           Limits[type])

\* Date() is the first of January of the year 0, Time() is midnight.
BoundValueWithMin(type) ==
    CASE type = "INT" -> <<IntMin>>
      [] type = "FLOAT" -> <<-Limits["FLOAT"][1]>>
      [] type = "DATE" -> <<0, 1, 1>>
      [] type = "DATETIME" -> <<0, 1, 1, 0, 0, 0, 0>>
      [] OTHER -> [i \in Digits(type) |-> 0]
BoundValueWithMax(type) == Limits[type]

BoundValueWithGT(type, d) ==
    CASE type = "INT" -> IntGT(d)
      [] type = "FLOAT" -> FloatGT(d)
      [] OTHER -> OdometerGT(type, d)
BoundValueWithLT(type, d) ==
    CASE type = "INT" -> IntLT(d)
      [] type = "FLOAT" -> FloatLT(d)
      [] type \in {"DATE", "TIME", "DATETIME"} /\ d = BoundValueWithMin(type) -> d
      [] OTHER -> OdometerLT(type, d)
\* A column of any other type has no bound.
BoundValue(type, op, d) ==
    CASE type \notin Bounded -> <<>>
      [] op = "MIN" -> BoundValueWithMin(type)
      [] op = "MAX" -> BoundValueWithMax(type)
      [] op = "GREATER_THAN" -> BoundValueWithGT(type, d)
      [] OTHER -> BoundValueWithLT(type, d)
\* A constant of a comparison for equality: a string is cut or padded to the
\* length of the column.
NormalizeValue(type, d) ==
    IF type # "STRING" THEN d
    ELSE [i \in Digits(type) |-> IF i \in DOMAIN d THEN d[i] ELSE 0]

\* The order of the values, and the values of a type.
Less(d, b) == \E i \in DOMAIN d : d[i] < b[i] /\ \A j \in 1..(i - 1) : d[j] = b[j]
ValuesOf(type) ==
    CASE type = "INT" -> {<<n>> : n \in IntMin..Limits["INT"][1]}
      [] type = "FLOAT" -> {<<x>> : x \in Floats}
      [] OTHER -> {d \in [Digits(type) -> 0..3] :
                     \A i \in Digits(type) :
                        /\ d[i] <= Limits[type][i]
                        /\ type \in {"DATE", "DATETIME"} /\ i \in {2, 3} => d[i] >= 1}
=============================================================================
