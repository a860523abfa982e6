----------------------------- MODULE Fractions -----------------------------
(***************************************************************************)
(* Exact rational arithmetic, standing in for the double arithmetic of the *)
(* load predictor.  A fraction is a record [n |-> num, d |-> den] kept in  *)
(* lowest terms with d > 0, so two fractions are equal iff their records   *)
(* are.  Rounding of doubles is not modelled: every property checked with  *)
(* these operators is about differences far larger than a rounding error.  *)
(***************************************************************************)
EXTENDS Integers

AbsInt(x) == IF x < 0 THEN -x ELSE x

RECURSIVE GcdInt(_, _)
GcdInt(a, b) == IF b = 0 THEN a ELSE GcdInt(b, a % b)

\* n/d in lowest terms, d # 0.
Frac(n, d) ==
    LET g == GcdInt(AbsInt(n), AbsInt(d))
        s == IF d < 0 THEN -1 ELSE 1
    IN  [n |-> s * (n \div g), d |-> s * (d \div g)]

Int2Frac(k) == [n |-> k, d |-> 1]

FAdd(a, b) == Frac(a.n * b.d + b.n * a.d, a.d * b.d)
FSub(a, b) == Frac(a.n * b.d - b.n * a.d, a.d * b.d)
FMul(a, b) == Frac(a.n * b.n, a.d * b.d)
FDiv(a, b) == Frac(a.n * b.d, a.d * b.n)      \* b.n # 0
FLess(a, b) == a.n * b.d < b.n * a.d
FLeq(a, b)  == a.n * b.d <= b.n * a.d

FZero == Int2Frac(0)

=============================================================================
