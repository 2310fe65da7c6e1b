---- MODULE Fractions ----
(* Exact fractions, for the float64 values the services compute with. What a
   NUMERIC column keeps of one is Stored. *)
EXTENDS Integers, FiniteSetsExt, Functions

Gcd[p \in Nat \X Nat] == IF p[2] = 0 THEN p[1] ELSE Gcd[<<p[2], p[1] % p[2]>>]
Abs(n) == IF n < 0 THEN -n ELSE n

\* Lowest terms, a positive denominator.
Frac(n, d) == LET g == Gcd[<<Abs(n), d>>] IN <<n \div g, d \div g>>
IsFraction(x) == x \in Int \X (Nat \ {0}) /\ Frac(x[1], x[2]) = x
Whole(n) == <<n, 1>>
Zero == Whole(0)
One == Whole(1)

Plus(x, y) == Frac(x[1] * y[2] + y[1] * x[2], x[2] * y[2])
Minus(x, y) == Plus(x, <<-y[1], y[2]>>)
Times(x, y) == Frac(x[1] * y[1], x[2] * y[2])
\* y is positive.
Over(x, y) == Frac(x[1] * y[2], x[2] * y[1])
Leq(x, y) == x[1] * y[2] <= y[1] * x[2]
Less(x, y) == ~Leq(y, x)
Least(x, y) == IF Leq(x, y) THEN x ELSE y
Greatest(x, y) == IF Leq(x, y) THEN y ELSE x

\* Of the values of a function.
Total(values) == FoldFunction(Plus, Zero, values)
Mean(values) == Over(Total(values), Whole(Cardinality(DOMAIN values)))

\* Half up; no value of the services is negative here.
Rounded(x) == (2 * x[1] + x[2]) \div (2 * x[2])
Stored(x, scale) == Frac(Rounded(Times(x, Whole(scale))), scale)
====
