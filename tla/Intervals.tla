----------------------------- MODULE Intervals -----------------------------
(***************************************************************************)
(* The intervals of compiler/signals/interval.hh: what the compiler knows  *)
(* of the values of a signal.  Bounds are integers here; Huge stands for   *)
(* HUGE_VAL, the bound of an interval that is not valid.                   *)
(***************************************************************************)
EXTENDS Integers

CONSTANT Huge

\* Assumed of the constants.
IntervalAssumption == Huge \in Nat \ {0}

Low(a, b) == IF a < b THEN a ELSE b
High(a, b) == IF a > b THEN a ELSE b

Infinite(a) == a \in {-Huge, Huge}

\* Sums of bounds: an infinite bound stays infinite.
Sum(a, b) == IF Infinite(a) THEN a ELSE IF Infinite(b) THEN b ELSE a + b

interval == [valid |-> FALSE, lo |-> -Huge, hi |-> Huge]

between(n, m) == [valid |-> TRUE, lo |-> Low(n, m), hi |-> High(n, m)]

point(n) == between(n, n)

reunion(x, y) ==
    IF x.valid /\ y.valid
    THEN between(Low(x.lo, y.lo), High(x.hi, y.hi)) ELSE interval

Add(x, y) ==
    IF x.valid /\ y.valid THEN between(Sum(x.lo, y.lo), Sum(x.hi, y.hi))
    ELSE interval

Sub(x, y) ==
    IF x.valid /\ y.valid THEN between(Sum(x.lo, -y.hi), Sum(x.hi, -y.lo))
    ELSE interval

\* Of finite bounds: an infinite one times 0 is not a number.
Mul(x, y) ==
    LET a == x.lo * y.lo   b == x.lo * y.hi
        c == x.hi * y.lo   d == x.hi * y.hi
    IN  IF x.valid /\ y.valid
        THEN between(Low(Low(a, b), Low(c, d)), High(High(a, b), High(c, d)))
        ELSE interval

\* The remainder, which is inside the bounds of the divisor.
Rem(x, y) ==
    IF x.valid /\ y.valid /\ x.lo >= 0 /\ y.lo > 0 THEN between(0, y.hi)
    ELSE interval

\* 1bb..b becomes 11..1; the shifts of a negative int fill it with ones.
bitmask(x) ==
    IF x < 0 THEN -1
    ELSE 2 ^ (CHOOSE k \in 0 .. 31 :
                  x < 2 ^ k /\ \A j \in 0 .. k - 1 : x >= 2 ^ j) - 1

\* The conjunction of bits.  The last of the valid cases takes the bound of
\* the operand that may be negative.
And(x, y) ==
    IF x.valid /\ y.valid
    THEN IF x.lo >= 0 /\ y.lo >= 0
         THEN between(0, Low(bitmask(x.hi), bitmask(y.hi)))
         ELSE IF x.lo >= 0 \/ y.lo >= 0 THEN between(0, bitmask(y.hi))
         ELSE interval
    ELSE IF x.valid /\ x.lo >= 0 THEN between(0, bitmask(x.hi))
    ELSE IF y.valid /\ y.lo >= 0 THEN between(0, bitmask(y.hi))
    ELSE interval

\* A comparison of signals.
Compare(x, y) == between(0, 1)

\* min and max do not look at valid: they bound what has no bounds.
MinOf(x, y) == between(Low(x.lo, y.lo), Low(x.hi, y.hi))
MaxOf(x, y) == between(High(x.lo, y.lo), High(x.hi, y.hi))

\* The values an interval admits.
Admits(x, v) == x.valid => x.lo <= v /\ v <= x.hi
=============================================================================
