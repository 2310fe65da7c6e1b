---- MODULE CalculationProofs ----
(* Proofs about the arithmetic of the planning services, for any sales, stocks,
   prices and counts: the fractions it is computed with, what they add up to,
   and from them the forecast, the orders of a run and the KPIs. *)
EXTENDS Parts, FiniteSetTheorems, WellFoundedInduction, TLAPS

---------------------------------------------------------------------------
(* Whole numbers. *)
Positive == Nat \ {0}

(* Every set of numbers has a least one: what an induction over numbers rests on. *)
LEMMA LeastNumber ==
  ASSUME NEW S \in SUBSET Nat, S # {}
  PROVE  \E n \in S : \A k \in S : n <= k
<1>1. PICK n \in S : \A k \in S : <<k, n>> \notin OpToRel(<, Nat)
  BY NatLessThanWellFounded, WFMin
<1>2. ASSUME NEW k \in S
      PROVE  n <= k
  <2>1. <<k, n>> \in Nat \X Nat /\ ~(k < n)
    BY <1>1 DEF OpToRel
  <2> QED
    BY <2>1
<1> QED
  BY <1>2

(* A product orders its factors. *)
LEMMA ProductOrder ==
  ASSUME NEW a \in Int, NEW b \in Int, NEW k \in Positive
  PROVE  /\ a <= b <=> a * k <= b * k
         /\ a = b <=> a * k = b * k
         /\ a < b <=> a * k < b * k
BY DEF Positive

LEMMA ProductSign ==
  ASSUME NEW a \in Nat, NEW b \in Nat
  PROVE  a * b \in Nat /\ (a * b = 0 <=> a = 0 \/ b = 0)
OBVIOUS

LEMMA ProductsPositive ==
  ASSUME NEW a \in Positive, NEW b \in Positive
  PROVE  a * b \in Positive
BY DEF Positive

(* Quotient and remainder are what they are called. *)
LEMMA DivisionUnique ==
  ASSUME NEW b \in Positive, NEW q \in Int, NEW r \in 0..(b - 1), NEW a \in Int, a = b * q + r
  PROVE  (a \div b) = q /\ (a % b) = r
<1>1. a = b * (a \div b) + (a % b) /\ (a % b) \in 0..(b - 1) /\ (a \div b) \in Int
  BY DEF Positive
<1>2. b * (q - (a \div b)) = (a % b) - r
  BY <1>1 DEF Positive
<1>3. q - (a \div b) < 1 /\ q - (a \div b) > -1
  <2> DEFINE z == q - (a \div b)
  <2>1. z \in Int /\ b * z < b /\ b * z > -b
    BY <1>1, <1>2 DEF Positive
  <2> HIDE DEF z
  <2>2. z < 1 /\ z > -1
    BY <2>1 DEF Positive
  <2> QED
    BY <2>2 DEF z
<1> QED
  BY <1>1, <1>2, <1>3 DEF Positive

---------------------------------------------------------------------------
(* The greatest common divisor.  GcdUpTo(g, n): g is the function up to the
   second argument n. *)
GcdUpTo(g, n) ==
  g = [p \in Nat \X (0..n) |-> IF p[2] = 0 THEN p[1] ELSE g[<<p[2], p[1] % p[2]>>]]

LEMMA GcdUpToExists ==
  ASSUME NEW n \in Nat
  PROVE  \E g : GcdUpTo(g, n)
<1> DEFINE Bad == {m \in Nat : ~\E g : GcdUpTo(g, m)}
<1> SUFFICES ASSUME Bad # {} PROVE FALSE
  OBVIOUS
<1>1. PICK m \in Bad : \A k \in Bad : m <= k
  BY LeastNumber
<1>2. CASE m = 0
  <2> DEFINE g == [p \in Nat \X (0..0) |-> p[1]]
  <2>1. GcdUpTo(g, 0)
    BY DEF GcdUpTo
  <2> QED
    BY <1>2, <2>1
<1>3. CASE m # 0
  <2>1. m - 1 \in Nat /\ m - 1 \notin Bad
    BY <1>1, <1>3
  <2>2. PICK g : GcdUpTo(g, m - 1)
    BY <2>1
  <2> DEFINE h == [p \in Nat \X (0..m) |->
                     IF p[2] = 0 THEN p[1] ELSE g[<<p[2], p[1] % p[2]>>]]
  <2>3. ASSUME NEW p \in Nat \X (0..m), p[2] # 0
        PROVE  h[<<p[2], p[1] % p[2]>>] = g[<<p[2], p[1] % p[2]>>]
    <3> DEFINE r == p[1] % p[2]
    <3>1. p[2] \in Nat /\ r \in 0..(m - 1)
      BY <2>3
    <3> HIDE DEF r
    <3> DEFINE q == <<p[2], r>>
    <3>2. q \in Nat \X (0..(m - 1)) /\ q \in Nat \X (0..m) /\ q[1] = p[2] /\ q[2] = r
      BY <3>1
    <3> HIDE DEF q
    <3>3. g[q] = IF q[2] = 0 THEN q[1] ELSE g[<<q[2], q[1] % q[2]>>]
      BY <2>2, <3>2 DEF GcdUpTo
    <3>4. h[q] = IF q[2] = 0 THEN q[1] ELSE g[<<q[2], q[1] % q[2]>>]
      BY <3>2
    <3> QED
      BY <3>3, <3>4 DEF q, r
  <2>4. GcdUpTo(h, m)
    BY <2>3 DEF GcdUpTo
  <2> QED
    BY <1>1, <2>4
<1> QED
  BY <1>2, <1>3

LEMMA GcdUpToAt ==
  ASSUME NEW g, NEW n \in Nat, GcdUpTo(g, n), NEW c \in Nat, NEW m \in 0..n
  PROVE  g[<<c, m>>] = IF m = 0 THEN c ELSE g[<<m, c % m>>]
<1> DEFINE p == <<c, m>>
<1>1. p \in Nat \X (0..n) /\ p[1] = c /\ p[2] = m
  OBVIOUS
<1> HIDE DEF p
<1>2. g[p] = IF p[2] = 0 THEN p[1] ELSE g[<<p[2], p[1] % p[2]>>]
  BY <1>1 DEF GcdUpTo
<1> QED
  BY <1>1, <1>2 DEF p

LEMMA GcdUpToSame ==
  ASSUME NEW g, NEW n \in Nat, GcdUpTo(g, n),
         NEW h, NEW k \in Nat, GcdUpTo(h, k),
         NEW a \in Nat, NEW b \in Nat, b <= n, b <= k
  PROVE  g[<<a, b>>] = h[<<a, b>>]
<1> DEFINE Bad == {m \in Nat : m <= n /\ m <= k /\ \E c \in Nat : g[<<c, m>>] # h[<<c, m>>]}
<1> SUFFICES ASSUME Bad # {} PROVE FALSE
  OBVIOUS
<1>1. PICK m \in Bad : \A j \in Bad : m <= j
  BY LeastNumber
<1>2. PICK c \in Nat : g[<<c, m>>] # h[<<c, m>>]
  BY <1>1
<1>3. g[<<c, m>>] = IF m = 0 THEN c ELSE g[<<m, c % m>>]
  BY <1>1, GcdUpToAt
<1>4. h[<<c, m>>] = IF m = 0 THEN c ELSE h[<<m, c % m>>]
  BY <1>1, GcdUpToAt
<1>5. m # 0 /\ g[<<m, c % m>>] # h[<<m, c % m>>]
  BY <1>2, <1>3, <1>4
<1>6. (c % m) \in Nat /\ c % m < m
  BY <1>1, <1>5
<1>7. c % m \in Bad
  BY <1>1, <1>5, <1>6
<1> QED
  BY <1>1, <1>6, <1>7

(* The recursive equation of Gcd. *)
LEMMA GcdRec ==
  ASSUME NEW a \in Nat, NEW b \in Nat
  PROVE  Gcd[<<a, b>>] = IF b = 0 THEN a ELSE Gcd[<<b, a % b>>]
<1> DEFINE Of(n) == CHOOSE g : GcdUpTo(g, n)
           G == [p \in Nat \X Nat |-> Of(p[2])[p]]
<1>1. ASSUME NEW n \in Nat PROVE GcdUpTo(Of(n), n)
  BY GcdUpToExists
<1> HIDE DEF Of
<1>2. ASSUME NEW p \in Nat \X Nat
      PROVE  G[p] = IF p[2] = 0 THEN p[1] ELSE G[<<p[2], p[1] % p[2]>>]
  <2>1. PICK c \in Nat, m \in Nat : p = <<c, m>>
    OBVIOUS
  <2>2. G[p] = Of(m)[<<c, m>>]
    BY <2>1
  <2>3. Of(m)[<<c, m>>] = IF m = 0 THEN c ELSE Of(m)[<<m, c % m>>]
    <3>1. m \in Nat /\ c \in Nat /\ m \in 0..m /\ GcdUpTo(Of(m), m)
      BY <1>1
    <3> QED
      BY <3>1, GcdUpToAt
  <2>4. CASE m # 0
    <3> DEFINE r == c % m
    <3>1. r \in Nat /\ r <= m
      BY <2>4
    <3> HIDE DEF r
    <3>2. Of(m)[<<m, r>>] = Of(r)[<<m, r>>]
      BY <1>1, <3>1, GcdUpToSame
    <3>3. G[<<m, r>>] = Of(r)[<<m, r>>]
      BY <3>1
    <3> QED
      BY <2>1, <2>2, <2>3, <2>4, <3>2, <3>3 DEF r
  <2> QED
    BY <2>1, <2>2, <2>3, <2>4
<1>3. G = [p \in Nat \X Nat |-> IF p[2] = 0 THEN p[1] ELSE G[<<p[2], p[1] % p[2]>>]]
  BY <1>2
<1> HIDE DEF G
<1>4. Gcd = [p \in Nat \X Nat |-> IF p[2] = 0 THEN p[1] ELSE Gcd[<<p[2], p[1] % p[2]>>]]
  BY <1>3 DEF Gcd
<1> QED
  BY <1>4

(* It divides both, and is not zero unless they are. *)
LEMMA GcdDivides ==
  ASSUME NEW a \in Nat, NEW b \in Nat
  PROVE  /\ Gcd[<<a, b>>] \in Nat
         /\ \E q, r \in Nat : a = Gcd[<<a, b>>] * q /\ b = Gcd[<<a, b>>] * r
<1> DEFINE Good(m) == \A c \in Nat :
              /\ Gcd[<<c, m>>] \in Nat
              /\ \E q, r \in Nat : c = Gcd[<<c, m>>] * q /\ m = Gcd[<<c, m>>] * r
           Bad == {m \in Nat : ~Good(m)}
<1> SUFFICES ASSUME Bad # {} PROVE FALSE
  <2>1. Good(b)
    OBVIOUS
  <2> QED
    BY <2>1
<1>1. PICK m \in Bad : \A j \in Bad : m <= j
  BY LeastNumber
<1>2. ASSUME NEW c \in Nat
      PROVE  /\ Gcd[<<c, m>>] \in Nat
             /\ \E q, r \in Nat : c = Gcd[<<c, m>>] * q /\ m = Gcd[<<c, m>>] * r
  <2>1. CASE m = 0
    <3>1. Gcd[<<c, m>>] = c
      BY <2>1, GcdRec
    <3>2. c = c * 1 /\ m = c * 0
      BY <2>1
    <3> QED
      BY <3>1, <3>2
  <2>2. CASE m # 0
    <3> DEFINE k == c % m
               d == c \div m
               g == Gcd[<<m, k>>]
    <3> HIDE DEF g
    <3>0. m \in Nat
      OBVIOUS
    <3> HIDE DEF Good, Bad
    <3>1. k \in Nat /\ k < m /\ d \in Nat /\ c = m * d + k
      BY <2>2, <3>0
    <3> USE DEF Good, Bad
    <3> HIDE DEF k, d
    <3>2. Good(k)
      BY <1>1, <3>1
    <3>3. Gcd[<<c, m>>] = g
      BY <2>2, GcdRec DEF k, g
    <3>4. PICK q, r \in Nat : g \in Nat /\ m = g * q /\ k = g * r
      BY <1>1, <3>2 DEF g
    <3>5. c = g * (q * d + r) /\ q * d + r \in Nat
      BY <3>1, <3>4
    <3> QED
      BY <3>3, <3>4, <3>5
  <2> QED
    BY <2>1, <2>2
<1> QED
  BY <1>1, <1>2

(* A common factor comes out. *)
LEMMA GcdScale ==
  ASSUME NEW a \in Nat, NEW b \in Nat, NEW k \in Positive
  PROVE  Gcd[<<k * a, k * b>>] = k * Gcd[<<a, b>>]
<1> DEFINE Good(m) == \A c \in Nat : Gcd[<<k * c, k * m>>] = k * Gcd[<<c, m>>]
           Bad == {m \in Nat : ~Good(m)}
<1> SUFFICES ASSUME Bad # {} PROVE FALSE
  <2>1. Good(b)
    OBVIOUS
  <2> QED
    BY <2>1
<1>1. PICK m \in Bad : \A j \in Bad : m <= j
  BY LeastNumber
<1>2. ASSUME NEW c \in Nat
      PROVE  Gcd[<<k * c, k * m>>] = k * Gcd[<<c, m>>]
  <2>0. k * c \in Nat /\ k * m \in Nat
    BY DEF Positive
  <2>1. CASE m = 0
    <3>1. Gcd[<<c, m>>] = c
      BY <2>1, GcdRec
    <3>2. k * m = 0
      BY <2>1 DEF Positive
    <3>3. Gcd[<<k * c, k * m>>] = k * c
      BY <2>0, <3>2, GcdRec
    <3> QED
      BY <3>1, <3>3
  <2>2. CASE m # 0
    <3> DEFINE r == c % m
               d == c \div m
    <3>1. r \in Nat /\ r < m /\ d \in Nat /\ c = m * d + r
      BY <2>2
    <3>2. Gcd[<<c, m>>] = Gcd[<<m, r>>]
      BY <2>2, GcdRec
    <3> HIDE DEF r, d
    <3>3. Good(r)
      BY <1>1, <3>1
    <3>4. k * m \in Positive /\ k * r \in 0..(k * m - 1) /\ k * c = (k * m) * d + k * r
      BY <2>2, <3>1 DEF Positive
    <3>5. (k * c) % (k * m) = k * r
      BY <2>0, <3>1, <3>4, DivisionUnique
    <3>6. Gcd[<<k * c, k * m>>] = Gcd[<<k * m, k * r>>]
      BY <2>0, <3>4, <3>5, GcdRec DEF Positive
    <3> QED
      BY <1>1, <3>2, <3>3, <3>6
  <2> QED
    BY <2>1, <2>2
<1> QED
  BY <1>1, <1>2

---------------------------------------------------------------------------
(* Fractions in lowest terms. *)
Ratios == {x \in Int \X Positive : Frac(x[1], x[2]) = x}

(* What Frac returns has the value of the quotient, over a positive number. *)
LEMMA FracValue ==
  ASSUME NEW n \in Int, NEW d \in Positive
  PROVE  \E p \in Int, q \in Positive, g \in Positive :
            Frac(n, d) = <<p, q>> /\ n = g * p /\ d = g * q
<1> DEFINE g == Gcd[<<Abs(n), d>>]
<1>1. Abs(n) \in Nat /\ d \in Nat
  BY DEF Abs, Positive
<1>2. g \in Nat /\ \E q, r \in Nat : Abs(n) = g * q /\ d = g * r
  BY <1>1, GcdDivides
<1>3. Frac(n, d) = <<n \div g, d \div g>>
  BY DEF Frac
<1> HIDE DEF g
<1>4. PICK q, r \in Nat : Abs(n) = g * q /\ d = g * r
  BY <1>2
<1>5. g \in Positive /\ r \in Positive
  BY <1>2, <1>4 DEF Positive
<1>6. PICK p \in Int : n = g * p
  <2>1. CASE n < 0
    <3>1. n = g * (-q) /\ -q \in Int
      BY <1>4, <1>5, <2>1 DEF Abs, Positive
    <3> QED
      BY <3>1
  <2>2. CASE ~(n < 0)
    BY <1>4, <2>2 DEF Abs
  <2> QED
    BY <2>1, <2>2
<1>7. (n \div g) = p
  <2>1. n = g * p + 0 /\ 0 \in 0..(g - 1)
    BY <1>5, <1>6 DEF Positive
  <2> QED
    BY <1>5, <2>1, DivisionUnique
<1>8. (d \div g) = r
  <2>1. d = g * r + 0 /\ 0 \in 0..(g - 1) /\ d \in Int /\ r \in Int
    BY <1>4, <1>5 DEF Positive
  <2> QED
    BY <1>5, <2>1, DivisionUnique
<1> QED
  BY <1>3, <1>4, <1>5, <1>6, <1>7, <1>8

LEMMA FracType ==
  ASSUME NEW n \in Int, NEW d \in Positive
  PROVE  /\ Frac(n, d) \in Int \X Positive
         /\ Frac(n, d)[1] * d = n * Frac(n, d)[2]
<1>1. PICK p \in Int, q \in Positive, g \in Positive :
        Frac(n, d) = <<p, q>> /\ n = g * p /\ d = g * q
  BY FracValue
<1>2. p * (g * q) = (g * p) * q
  BY DEF Positive
<1> QED
  BY <1>1, <1>2

LEMMA FracScale ==
  ASSUME NEW n \in Int, NEW d \in Positive, NEW k \in Positive
  PROVE  Frac(k * n, k * d) = Frac(n, d)
<1> DEFINE g == Gcd[<<Abs(n), d>>]
<1>1. Abs(n) \in Nat /\ d \in Nat /\ Abs(k * n) = k * Abs(n)
  BY DEF Abs, Positive
<1>2. Gcd[<<Abs(k * n), k * d>>] = k * g
  BY <1>1, GcdScale
<1>3. PICK p \in Int, q \in Positive, h \in Positive :
        Frac(n, d) = <<p, q>> /\ n = h * p /\ d = h * q
  BY FracValue
<1>4. g \in Nat /\ \E r \in Nat : d = g * r
  <2>1. g \in Nat /\ \E u, v \in Nat : Abs(n) = g * u /\ d = g * v
    BY <1>1, GcdDivides
  <2> HIDE DEF g
  <2>2. PICK u, v \in Nat : Abs(n) = g * u /\ d = g * v
    BY <2>1
  <2> QED
    BY <2>1, <2>2
<1>5. g \in Positive
  BY <1>4 DEF Positive
<1>6. Frac(n, d) = <<n \div g, d \div g>>
  BY DEF Frac
<1>7. Frac(k * n, k * d) = <<(k * n) \div (k * g), (k * d) \div (k * g)>>
  BY <1>2 DEF Frac
<1> HIDE DEF g
<1>8. ASSUME NEW m \in Int
      PROVE  ((k * m) \div (k * g)) = (m \div g)
  <2> DEFINE e == m \div g
             r == m % g
  <2>1. e \in Int /\ r \in 0..(g - 1) /\ m = g * e + r
    BY <1>5 DEF Positive
  <2> HIDE DEF e, r
  <2>2. k * g \in Positive /\ k * m \in Int /\ k * r \in 0..(k * g - 1)
        /\ k * m = (k * g) * e + k * r
    BY <1>5, <2>1 DEF Positive
  <2>3. ((k * m) \div (k * g)) = e
    BY <2>1, <2>2, DivisionUnique
  <2> QED
    BY <2>3 DEF e
<1> QED
  BY <1>1, <1>6, <1>7, <1>8

(* Quotients that are equal have one fraction. *)
LEMMA FracSame ==
  ASSUME NEW a \in Int, NEW b \in Positive, NEW c \in Int, NEW d \in Positive, a * d = c * b
  PROVE  Frac(a, b) = Frac(c, d)
<1>1. Frac(d * a, d * b) = Frac(a, b) /\ Frac(b * c, b * d) = Frac(c, d)
  BY FracScale
<1>2. d * a = b * c /\ d * b = b * d
  BY DEF Positive
<1> QED
  BY <1>1, <1>2

LEMMA FracRatio ==
  ASSUME NEW n \in Int, NEW d \in Positive
  PROVE  Frac(n, d) \in Ratios
<1> DEFINE x == Frac(n, d)
<1>1. x \in Int \X Positive /\ x[1] * d = n * x[2]
  BY FracType
<1>2. Frac(x[1], x[2]) = x
  <2> HIDE DEF x
  <2>1. x[1] \in Int /\ x[2] \in Positive
    BY <1>1
  <2>2. Frac(x[1], x[2]) = Frac(n, d)
    BY <1>1, <2>1, FracSame
  <2> QED
    BY <2>2 DEF x
<1> QED
  BY <1>1, <1>2 DEF Ratios

LEMMA RatioType ==
  ASSUME NEW x \in Ratios
  PROVE  x[1] \in Int /\ x[2] \in Positive /\ x[2] \in Int /\ x[2] > 0 /\ Frac(x[1], x[2]) = x
BY DEF Ratios, Positive

(* Ratios are equal when their products are. *)
LEMMA RatioSame ==
  ASSUME NEW x \in Ratios, NEW y \in Ratios
  PROVE  x = y <=> x[1] * y[2] = y[1] * x[2]
BY RatioType, FracSame

LEMMA WholeRatio ==
  ASSUME NEW n \in Int
  PROVE  /\ Whole(n) \in Ratios /\ Whole(n)[1] = n /\ Whole(n)[2] = 1
         /\ Frac(n, 1) = Whole(n)
<1>1. 1 \in Positive
  BY DEF Positive
<1>2. PICK p \in Int, q \in Positive, g \in Positive :
        Frac(n, 1) = <<p, q>> /\ n = g * p /\ 1 = g * q
  BY <1>1, FracValue
<1>3. g = 1 /\ q = 1
  BY <1>2 DEF Positive
<1>4. Frac(n, 1) = <<n, 1>>
  BY <1>2, <1>3
<1> QED
  BY <1>1, <1>4, FracRatio DEF Whole

LEMMA ConstantRatios ==
  /\ Zero \in Ratios /\ Zero[1] = 0 /\ Zero[2] = 1 /\ Zero = Whole(0)
  /\ One \in Ratios /\ One[1] = 1 /\ One[2] = 1 /\ One = Whole(1)
BY WholeRatio DEF Zero, One

---------------------------------------------------------------------------
(* What the operations do to quotients, in lowest terms or not. *)
LEMMA LeqFrac ==
  ASSUME NEW a \in Int, NEW b \in Positive, NEW c \in Int, NEW d \in Positive
  PROVE  Leq(Frac(a, b), Frac(c, d)) <=> a * d <= c * b
<1>1. PICK p \in Int, q \in Positive, g \in Positive :
        Frac(a, b) = <<p, q>> /\ a = g * p /\ b = g * q
  BY FracValue
<1>2. PICK r \in Int, s \in Positive, h \in Positive :
        Frac(c, d) = <<r, s>> /\ c = h * r /\ d = h * s
  BY FracValue
<1>3. a * d = (p * s) * (g * h) /\ c * b = (r * q) * (g * h)
  BY <1>1, <1>2 DEF Positive
<1>4. g * h \in Positive
  BY ProductsPositive
<1>5. p * s \in Int /\ r * q \in Int
  BY DEF Positive
<1> HIDE DEF Positive
<1>6. p * s <= r * q <=> (p * s) * (g * h) <= (r * q) * (g * h)
  BY <1>4, <1>5, ProductOrder
<1> QED
  BY <1>1, <1>2, <1>3, <1>6 DEF Leq

LEMMA PlusFrac ==
  ASSUME NEW a \in Int, NEW b \in Positive, NEW c \in Int, NEW d \in Positive
  PROVE  Plus(Frac(a, b), Frac(c, d)) = Frac(a * d + c * b, b * d)
<1>1. PICK p \in Int, q \in Positive, g \in Positive :
        Frac(a, b) = <<p, q>> /\ a = g * p /\ b = g * q
  BY FracValue
<1>2. PICK r \in Int, s \in Positive, h \in Positive :
        Frac(c, d) = <<r, s>> /\ c = h * r /\ d = h * s
  BY FracValue
<1>3. Plus(Frac(a, b), Frac(c, d)) = Frac(p * s + r * q, q * s)
  BY <1>1, <1>2 DEF Plus
<1>4. a * d + c * b = (g * h) * (p * s + r * q) /\ b * d = (g * h) * (q * s)
  BY <1>1, <1>2 DEF Positive
<1>5. g * h \in Positive /\ q * s \in Positive
  BY ProductsPositive
<1>6. p * s + r * q \in Int
  BY DEF Positive
<1> QED
  BY <1>3, <1>4, <1>5, <1>6, FracScale

LEMMA TimesFrac ==
  ASSUME NEW a \in Int, NEW b \in Positive, NEW c \in Int, NEW d \in Positive
  PROVE  Times(Frac(a, b), Frac(c, d)) = Frac(a * c, b * d)
<1>1. PICK p \in Int, q \in Positive, g \in Positive :
        Frac(a, b) = <<p, q>> /\ a = g * p /\ b = g * q
  BY FracValue
<1>2. PICK r \in Int, s \in Positive, h \in Positive :
        Frac(c, d) = <<r, s>> /\ c = h * r /\ d = h * s
  BY FracValue
<1>3. Times(Frac(a, b), Frac(c, d)) = Frac(p * r, q * s)
  BY <1>1, <1>2 DEF Times
<1>4. a * c = (g * h) * (p * r) /\ b * d = (g * h) * (q * s)
  BY <1>1, <1>2 DEF Positive
<1>5. g * h \in Positive /\ q * s \in Positive
  BY ProductsPositive
<1> QED
  BY <1>3, <1>4, <1>5, FracScale

LEMMA MinusFrac ==
  ASSUME NEW a \in Int, NEW b \in Positive, NEW c \in Int, NEW d \in Positive
  PROVE  Minus(Frac(a, b), Frac(c, d)) = Frac(a * d - c * b, b * d)
<1>1. PICK r \in Int, s \in Positive, h \in Positive :
        Frac(c, d) = <<r, s>> /\ c = h * r /\ d = h * s
  BY FracValue
<1>2. PICK p \in Int, q \in Positive, g \in Positive :
        Frac(a, b) = <<p, q>> /\ a = g * p /\ b = g * q
  BY FracValue
<1>3. Minus(Frac(a, b), Frac(c, d)) = Frac(p * s + (-r) * q, q * s)
  BY <1>1, <1>2 DEF Minus, Plus
<1>4. a * d - c * b = (g * h) * (p * s + (-r) * q) /\ b * d = (g * h) * (q * s)
  BY <1>1, <1>2 DEF Positive
<1>5. g * h \in Positive /\ q * s \in Positive
  BY ProductsPositive
<1>6. p * s + (-r) * q \in Int
  BY DEF Positive
<1> QED
  BY <1>3, <1>4, <1>5, <1>6, FracScale

LEMMA OverFrac ==
  ASSUME NEW a \in Int, NEW b \in Positive, NEW c \in Positive, NEW d \in Positive
  PROVE  Over(Frac(a, b), Frac(c, d)) = Frac(a * d, b * c)
<1>1. PICK p \in Int, q \in Positive, g \in Positive :
        Frac(a, b) = <<p, q>> /\ a = g * p /\ b = g * q
  BY FracValue
<1>2. PICK r \in Int, s \in Positive, h \in Positive :
        Frac(c, d) = <<r, s>> /\ c = h * r /\ d = h * s
  <2>1. c \in Int
    BY DEF Positive
  <2> QED
    BY <2>1, FracValue
<1>3. Over(Frac(a, b), Frac(c, d)) = Frac(p * s, q * r)
  BY <1>1, <1>2 DEF Over
<1>4. a * d = (g * h) * (p * s) /\ b * c = (g * h) * (q * r)
  BY <1>1, <1>2 DEF Positive
<1>5. r \in Positive
  BY <1>2 DEF Positive
<1>6. g * h \in Positive /\ q * r \in Positive
  BY <1>5, ProductsPositive
<1>7. p * s \in Int
  BY DEF Positive
<1> QED
  BY <1>3, <1>4, <1>6, <1>7, FracScale

(* The same, for ratios. *)
LEMMA OperationsClosed ==
  ASSUME NEW x \in Ratios, NEW y \in Ratios
  PROVE  /\ Plus(x, y) \in Ratios /\ Minus(x, y) \in Ratios /\ Times(x, y) \in Ratios
         /\ y[1] > 0 => Over(x, y) \in Ratios
         /\ Least(x, y) \in Ratios /\ Greatest(x, y) \in Ratios
<1>1. x[1] \in Int /\ x[2] \in Positive /\ y[1] \in Int /\ y[2] \in Positive
      /\ x[2] \in Int /\ y[2] \in Int
  BY RatioType
<1>2. x[2] * y[2] \in Positive
  BY <1>1, ProductsPositive
<1>3. x[1] * y[2] + y[1] * x[2] \in Int /\ x[1] * y[2] + (-y[1]) * x[2] \in Int
      /\ x[1] * y[1] \in Int /\ x[1] * y[2] \in Int
  BY <1>1
<1>4. y[1] > 0 => x[2] * y[1] \in Positive
  BY <1>1, ProductsPositive DEF Positive
<1>5. Plus(x, y) \in Ratios /\ Times(x, y) \in Ratios
  BY <1>2, <1>3, FracRatio DEF Plus, Times
<1>6. Minus(x, y) \in Ratios
  BY <1>2, <1>3, FracRatio DEF Minus, Plus
<1>7. y[1] > 0 => Over(x, y) \in Ratios
  BY <1>3, <1>4, FracRatio DEF Over
<1> QED
  BY <1>5, <1>6, <1>7 DEF Least, Greatest

LEMMA OrderRatio ==
  ASSUME NEW x \in Ratios, NEW y \in Ratios
  PROVE  /\ Leq(x, y) \/ Leq(y, x)
         /\ Leq(x, x)
         /\ Leq(x, y) /\ Leq(y, x) => x = y
         /\ Less(x, y) => Leq(x, y)
BY RatioType, RatioSame DEF Leq, Less

LEMMA LeqTransitive ==
  ASSUME NEW x \in Ratios, NEW y \in Ratios, NEW z \in Ratios, Leq(x, y), Leq(y, z)
  PROVE  Leq(x, z)
<1> DEFINE a == x[1]  b == x[2]  c == y[1]  d == y[2]  e == z[1]  f == z[2]
<1>1. a \in Int /\ b \in Positive /\ c \in Int /\ d \in Positive /\ e \in Int /\ f \in Positive
  BY RatioType
<1>2. a * d <= c * b /\ c * f <= e * d
  BY DEF Leq
<1> HIDE DEF a, b, c, d, e, f
<1>3. (a * d) * f <= (c * b) * f /\ (c * f) * b <= (e * d) * b
  BY <1>1, <1>2, ProductOrder DEF Positive
<1>4. (a * f) * d <= (e * b) * d
  BY <1>1, <1>3 DEF Positive
<1>5. a * f <= e * b
  BY <1>1, <1>4, ProductOrder DEF Positive
<1> QED
  BY <1>5 DEF Leq, a, b, c, d, e, f

(* Least and Greatest keep the order. *)
LEMMA BoundsMonotone ==
  ASSUME NEW x \in Ratios, NEW y \in Ratios, NEW z \in Ratios, Leq(x, y)
  PROVE  /\ Leq(Greatest(z, x), Greatest(z, y)) /\ Leq(Least(x, z), Least(y, z))
         /\ Leq(z, Greatest(z, x)) /\ Leq(x, Greatest(z, x))
         /\ Leq(Least(x, z), z) /\ Leq(Least(x, z), x)
<1>1. \A u, v \in Ratios : (Leq(u, v) \/ Leq(v, u)) /\ Leq(u, u)
  BY OrderRatio
<1>2. \A u, v, w \in Ratios : Leq(u, v) /\ Leq(v, w) => Leq(u, w)
  BY LeqTransitive
<1> QED
  BY <1>1, <1>2 DEF Least, Greatest

---------------------------------------------------------------------------
(* The KPIs. *)

(* What is left of a share: between nothing and all, and more of it when less
   is taken. *)
LEMMA ShareLeft ==
  ASSUME NEW all \in Positive, NEW bad \in 0..all, NEW less \in 0..bad
  PROVE  LET v == Minus(One, Frac(bad, all))
             w == Minus(One, Frac(less, all))
         IN  /\ v \in Ratios /\ Leq(Zero, v) /\ Leq(v, One) /\ Leq(v, w)
<1>1. /\ One = Frac(1, 1) /\ Zero = Frac(0, 1) /\ 1 \in Positive /\ all \in Int
      /\ bad \in Int /\ less \in Int
  BY WholeRatio DEF One, Zero, Positive
<1>2. ASSUME NEW b \in 0..all
      PROVE  Minus(One, Frac(b, all)) = Frac(all - b, all)
  <2>1. Minus(One, Frac(b, all)) = Frac(1 * all - b * 1, 1 * all)
    BY <1>1, MinusFrac
  <2> QED
    BY <1>1, <2>1
<1>3. less \in 0..all /\ all - bad \in Int /\ all - less \in Int
  BY <1>1
<1>4. Frac(all - bad, all) \in Ratios
  BY <1>3, FracRatio
<1>5. Leq(Zero, Frac(all - bad, all)) <=> 0 * all <= (all - bad) * 1
  BY <1>1, <1>3, LeqFrac
<1>6. Leq(Frac(all - bad, all), One) <=> (all - bad) * 1 <= 1 * all
  BY <1>1, <1>3, LeqFrac
<1>7. Leq(Frac(all - bad, all), Frac(all - less, all))
      <=> (all - bad) * all <= (all - less) * all
  BY <1>3, LeqFrac
<1>8. (all - bad) * all <= (all - less) * all
  BY <1>3, ProductOrder DEF Positive
<1> QED
  BY <1>1, <1>2, <1>3, <1>4, <1>5, <1>6, <1>7, <1>8

Samples == {s \in [kpi : {"osa", "otif", "stock_days"}, all : Counts,
                   some : Counts, rate : Counts \cup {NoValue}] :
              s.kpi = "osa" => s.some <= s.all}
Raws == [number : {-1, 0, 1, MaxLines}, transit : BOOLEAN, demand : {0, MaxLines}]

LEMMA CountsAreNumbers == Counts \subseteq Nat /\ MaxLines \in Positive
BY KpiCalcAssumption DEF Counts, Positive

(* A row, and the same row when it is better. *)
Sound(row, c, better) ==
  /\ c.errors = 0
  /\ c.value # NoValue =>
        /\ Leq(Zero, c.value)
        /\ row.kpi # "stock_days" => Leq(c.value, One)
        /\ better.value # NoValue
        /\ Leq(c.value, better.value)

LEMMA RatioIsValue == NoValue \notin Ratios
BY KpiCalcAssumption DEF Ratios, Positive

LEMMA OSASound ==
  ASSUME NEW row \in Samples, row.kpi = "osa", NEW params \in Raws
  PROVE  Sound(row, ComputeRow(row, params), ComputeRow(Better(row), params))
<1> DEFINE min == ParseOSAParams(params)
           less == IF row.some > 0 THEN row.some - 1 ELSE row.some
           b == Better(row)
<1>1. row.all \in Nat /\ row.some \in Nat /\ row.some <= row.all
  BY CountsAreNumbers DEF Samples
<1>2. b = [row EXCEPT !.some = less] /\ b.kpi = "osa" /\ b.all = row.all /\ b.some = less
  BY DEF Better, Samples
<1>3. min \in Positive
  BY CountsAreNumbers DEF Raws, ParseOSAParams, Param, DefaultMinObservations, Positive
<1>4. ComputeRow(row, params) = ComputeOSA(row, min)
      /\ ComputeRow(b, params) = ComputeOSA(b, min)
  BY <1>2 DEF ComputeRow
<1> HIDE DEF min, b
<1>5. CASE row.all < min
  BY <1>4, <1>5 DEF Sound, ComputeOSA, Skipped
<1>6. CASE ~(row.all < min)
  <2> DEFINE v == Minus(One, Frac(row.some, row.all))
             w == Minus(One, Frac(less, row.all))
  <2>1. row.all \in Positive /\ row.some \in 0..row.all /\ less \in 0..row.some
        /\ less \in 0..row.all
    BY <1>1, <1>3, <1>6 DEF Positive
  <2> HIDE DEF less
  <2>2. v \in Ratios /\ Leq(Zero, v) /\ Leq(v, One) /\ Leq(v, w)
    BY <2>1, ShareLeft
  <2>3. w \in Ratios
    <3>1. 0 \in 0..less
      BY <2>1
    <3> QED
      BY <2>1, <3>1, ShareLeft
  <2>4. ComputeOSA(row, min) = Kept(Greatest(Zero, v))
        /\ ComputeOSA(b, min) = Kept(Greatest(Zero, w))
    BY <1>2, <1>6 DEF ComputeOSA
  <2> HIDE DEF v, w
  <2>5. Greatest(Zero, v) = v
    BY <2>2, ConstantRatios, OrderRatio DEF Greatest
  <2>6. Leq(v, Greatest(Zero, w)) /\ Greatest(Zero, w) \in Ratios
    <3>1. Leq(Greatest(Zero, v), Greatest(Zero, w))
      BY <2>2, <2>3, ConstantRatios, BoundsMonotone
    <3> QED
      BY <2>3, <2>5, <3>1, ConstantRatios, OperationsClosed
  <2> QED
    BY <1>4, <2>2, <2>4, <2>5, <2>6, RatioIsValue DEF Sound, Kept, b
<1> QED
  BY <1>5, <1>6 DEF b

LEMMA OTIFSound ==
  ASSUME NEW row \in Samples, row.kpi = "otif", NEW params \in Raws
  PROVE  Sound(row, ComputeRow(row, params), ComputeRow(Better(row), params))
<1> DEFINE threshold == ParseOTIFParams(params)
           less == IF row.some > 0 THEN row.some - 1 ELSE row.some
           short == IF row.rate # NoValue /\ Less(Frac(row.rate, MaxLines), threshold)
                    THEN row.all ELSE 0
           b == Better(row)
<1>1. row.all \in Nat /\ row.some \in Nat
  BY CountsAreNumbers DEF Samples
<1>2. b = [row EXCEPT !.some = less] /\ b.kpi = "otif" /\ b.all = row.all /\ b.some = less
      /\ b.rate = row.rate
  BY DEF Better, Samples
<1>3. ComputeRow(row, params) = ComputeOTIF(row, threshold)
      /\ ComputeRow(b, params) = ComputeOTIF(b, threshold)
  BY <1>2 DEF ComputeRow
<1>4. CASE row.all = 0
  BY <1>3, <1>4 DEF Sound, ComputeOTIF, Skipped
<1>5. CASE row.all # 0
  <2> DEFINE bad == Min({row.some + short, row.all})
             fewer == Min({less + short, row.all})
             v == Minus(One, Frac(bad, row.all))
             w == Minus(One, Frac(fewer, row.all))
  <2>1. short \in Nat /\ less \in Nat /\ less <= row.some /\ row.all \in Positive
    BY <1>1, <1>5 DEF Positive
  <2>2. ComputeOTIF(row, threshold)
          = IF Less(v, Zero) THEN [value |-> NoValue, errors |-> 1] ELSE Kept(v)
    BY <1>5 DEF ComputeOTIF
  <2>3. ComputeOTIF(b, threshold)
          = IF Less(w, Zero) THEN [value |-> NoValue, errors |-> 1] ELSE Kept(w)
    BY <1>2, <1>5 DEF ComputeOTIF
  <2> HIDE DEF short, less, b, threshold
  <2>4. ASSUME NEW i \in Int, NEW j \in Int
        PROVE  Min({i, j}) = IF i <= j THEN i ELSE j
    BY DEF Min
  <2>5. bad \in 0..row.all /\ fewer \in 0..bad /\ fewer \in 0..row.all
    <3>1. bad = (IF row.some + short <= row.all THEN row.some + short ELSE row.all)
          /\ fewer = (IF less + short <= row.all THEN less + short ELSE row.all)
      BY <1>1, <2>1, <2>4
    <3> QED
      BY <1>1, <2>1, <3>1
  <2> HIDE DEF bad, fewer
  <2>6. v \in Ratios /\ Leq(Zero, v) /\ Leq(v, One) /\ Leq(v, w)
    BY <2>1, <2>5, ShareLeft
  <2>7. w \in Ratios /\ Leq(Zero, w)
    <3>1. 0 \in 0..fewer
      BY <2>5
    <3> QED
      BY <2>1, <2>5, <3>1, ShareLeft
  <2> QED
    BY <1>3, <2>2, <2>3, <2>6, <2>7, RatioIsValue DEF Sound, Kept, Less, b
<1> QED
  BY <1>4, <1>5

LEMMA StockDaysSound ==
  ASSUME NEW row \in Samples, row.kpi = "stock_days", NEW raws \in Raws
  PROVE  Sound(row, ComputeRow(row, raws), ComputeRow(Better(row), raws))
<1> DEFINE params == ParseStockDaysParams(raws)
           demand == IF row.rate # NoValue /\ Less(params.min, Whole(row.rate))
                     THEN Whole(row.rate) ELSE params.min
           stock == row.all + (IF params.transit THEN row.some ELSE 0)
           b == Better(row)
           Days(n) == Least(Over(Whole(n), demand), Whole(params.cap))
<1>1. row.all \in Nat /\ row.some \in Nat /\ stock \in Nat
      /\ (row.rate # NoValue => row.rate \in Nat)
  <2>1. row.all \in Nat /\ row.some \in Nat /\ (row.rate # NoValue => row.rate \in Nat)
    BY CountsAreNumbers DEF Samples
  <2> HIDE DEF params
  <2>2. CASE params.transit
    BY <2>1, <2>2
  <2>3. CASE ~params.transit
    BY <2>1, <2>3
  <2> QED
    BY <2>1, <2>2, <2>3
<1>2. b = [row EXCEPT !.all = row.all + 1] /\ b.kpi = "stock_days" /\ b.all = row.all + 1
      /\ b.some = row.some /\ b.rate = row.rate
  BY DEF Better, Samples
<1>3. /\ ComputeRow(row, raws) = Kept(Greatest(Zero, Days(stock)))
      /\ ComputeRow(b, raws) = Kept(Greatest(Zero, Days(stock + 1)))
  <2>1. b.all + (IF params.transit THEN b.some ELSE 0) = stock + 1
    BY <1>1, <1>2
  <2> HIDE DEF params
  <2> QED
    BY <1>2, <2>1 DEF ComputeRow, ComputeStockDays, params
<1>4. params.cap \in Int
  BY CountsAreNumbers DEF Raws, ParseStockDaysParams, Param, DefaultCapDays, Positive
<1>5. DefaultMinDemand \in Ratios /\ DefaultMinDemand[1] > 0
  <2>1. 1 \in Int /\ 1000 \in Positive
    BY DEF Positive
  <2>2. PICK p \in Int, q \in Positive, g \in Positive :
          Frac(1, 1000) = <<p, q>> /\ 1 = g * p /\ 1000 = g * q
    BY <2>1, FracValue
  <2>3. p > 0
    BY <2>2 DEF Positive
  <2> QED
    BY <2>1, <2>2, <2>3, FracRatio DEF DefaultMinDemand
<1>12. params.min \in Ratios /\ params.min[1] > 0
  <2> DEFINE d == raws.demand
  <2>1. params.min = IF d > 0 THEN Whole(d) ELSE DefaultMinDemand
    BY DEF ParseStockDaysParams, Param
  <2>2. d \in Int
    BY CountsAreNumbers DEF Raws, Positive
  <2> HIDE DEF d, params
  <2>3. Whole(d) \in Ratios /\ Whole(d)[1] = d
    BY <2>2, WholeRatio
  <2> QED
    BY <1>5, <2>1, <2>2, <2>3
<1>6. demand \in Ratios /\ demand[1] > 0
  <2>1. CASE row.rate # NoValue /\ Less(params.min, Whole(row.rate))
    <3>1. Whole(row.rate) \in Ratios /\ Whole(row.rate)[1] = row.rate
          /\ Whole(row.rate)[2] = 1 /\ row.rate \in Nat
      BY <1>1, <2>1, WholeRatio
    <3>2. row.rate # 0
      BY <1>12, <2>1, <3>1, RatioType DEF Less, Leq
    <3> QED
      BY <2>1, <3>1, <3>2
  <2> QED
    BY <1>12, <2>1
<1> HIDE DEF params, demand, stock, b
<1>7. ASSUME NEW n \in Nat
      PROVE  Over(Whole(n), demand) \in Ratios /\ Days(n) \in Ratios
  <2>1. Whole(n) \in Ratios /\ Whole(params.cap) \in Ratios
    BY <1>4, WholeRatio
  <2>2. Over(Whole(n), demand) \in Ratios
    BY <1>6, <2>1, OperationsClosed
  <2> QED
    BY <2>1, <2>2, OperationsClosed
<1>8. Leq(Over(Whole(stock), demand), Over(Whole(stock + 1), demand))
  <2>1. demand[1] \in Positive /\ demand[2] \in Positive /\ demand = Frac(demand[1], demand[2])
        /\ demand[2] \in Int /\ demand[1] \in Int
    BY <1>6, RatioType DEF Positive
  <2>2. ASSUME NEW n \in Nat
        PROVE  Over(Whole(n), demand) = Frac(n * demand[2], demand[1])
    <3>1. Whole(n)[1] = n /\ Whole(n)[2] = 1
      BY DEF Whole
    <3>2. 1 * demand[1] = demand[1]
      BY <2>1
    <3> QED
      BY <3>1, <3>2 DEF Over
  <2>3. stock * demand[2] <= (stock + 1) * demand[2]
        /\ stock * demand[2] \in Int /\ (stock + 1) * demand[2] \in Int
    BY <1>1, <2>1 DEF Positive
  <2>4. (stock * demand[2]) * demand[1] <= ((stock + 1) * demand[2]) * demand[1]
    BY <2>1, <2>3, ProductOrder
  <2>5. Leq(Frac(stock * demand[2], demand[1]), Frac((stock + 1) * demand[2], demand[1]))
    BY <2>1, <2>3, <2>4, LeqFrac
  <2> QED
    BY <1>1, <2>2, <2>5
<1>9. Leq(Days(stock), Days(stock + 1))
  <2>1. Over(Whole(stock), demand) \in Ratios /\ Over(Whole(stock + 1), demand) \in Ratios
        /\ Whole(params.cap) \in Ratios
    BY <1>1, <1>4, <1>7, WholeRatio
  <2> QED
    BY <1>8, <2>1, BoundsMonotone
<1>10. Days(stock) \in Ratios /\ Days(stock + 1) \in Ratios
  BY <1>1, <1>7
<1> HIDE DEF Days
<1>11. /\ Leq(Zero, Greatest(Zero, Days(stock)))
       /\ Leq(Greatest(Zero, Days(stock)), Greatest(Zero, Days(stock + 1)))
       /\ Greatest(Zero, Days(stock + 1)) \in Ratios
  BY <1>9, <1>10, ConstantRatios, BoundsMonotone, OperationsClosed
<1> QED
  BY <1>3, <1>11, RatioIsValue DEF Sound, Kept, b

(* The sample of a behaviour does not change, and the result is that of its row. *)
KpiInv ==
  \/ sample = NoValue /\ result = NoValue
  \/ /\ sample \in Samples /\ raw \in Raws
     /\ result # NoValue =>
          LET c == ComputeRow(sample, GlobalParams(stored, raw))
          IN  result.value = c.value /\ result.errors = c.errors

LEMMA KpiInvSound ==
  ASSUME KpiInv
  PROVE  KpisSound
<1> SUFFICES ASSUME result # NoValue PROVE KpisSound
  BY DEF KpisSound
<1> DEFINE params == GlobalParams(stored, raw)
           c == ComputeRow(sample, params)
           better == ComputeRow(Better(sample), params)
<1>1. sample \in Samples /\ raw \in Raws /\ result.value = c.value /\ result.errors = c.errors
  BY DEF KpiInv
<1>2. params \in Raws
  BY <1>1 DEF GlobalParams, NoParams, Raws
<1>3. sample.kpi \in {"osa", "otif", "stock_days"}
  BY <1>1 DEF Samples
<1> HIDE DEF params
<1>4. Sound(sample, c, better)
  BY <1>1, <1>2, <1>3, OSASound, OTIFSound, StockDaysSound
<1> QED
  BY <1>1, <1>4 DEF Sound, KpisSound, params

(* KPI values: shares within their range, days within theirs, no error budget
   drawn on, and never worse for a better row (computeKpi and the calculators). *)
THEOREM KpisAlwaysSound == Spec => []KpisSound
<1>1. Init => KpiInv
  BY DEF Init, AdapterIdle, KpiCalcInit, KpiCalcIdle, KpiInv, Samples, Raws
<1>2. KpiInv /\ [Next]_vars => KpiInv'
  <2> SUFFICES ASSUME KpiInv, [Next]_vars PROVE KpiInv'
    OBVIOUS
  <2>1. CASE Calculate
    BY <2>1 DEF KpiInv, Calculate, GlobalParams, Resolve
  <2>2. CASE UNCHANGED kpiCalcVars
    BY <2>2 DEF KpiInv, kpiCalcVars, GlobalParams, Resolve
  <2> QED
    BY <2>1, <2>2 DEF Next, vars, calculationVars
<1> QED
  BY <1>1, <1>2, KpiInvSound, PTL DEF Spec

---------------------------------------------------------------------------
(* Sums.  Total takes the values of a function in the order in which CHOOSE picks
   its arguments; Sums(f, S, t): t is the sum over every subset of S. *)
Picked(s) == CHOOSE x \in s : TRUE
Sums(f, S, t) ==
  t = [s \in SUBSET S |->
         IF s = {} THEN Zero ELSE Plus(f[Picked(s)], t[s \ {Picked(s)}])]

LEMMA PickedIn ==
  ASSUME NEW s, s # {}
  PROVE  Picked(s) \in s
BY DEF Picked

LEMMA TotalIsSum ==
  ASSUME NEW f
  PROVE  Total(f) = (CHOOSE t : Sums(f, DOMAIN f, t))[DOMAIN f]
BY DEF Total, FoldFunction, FoldFunctionOnSet, MapThenFoldSet, Sums, Picked

(* A subset of a finite set has fewer elements without one of them. *)
LEMMA Fewer ==
  ASSUME NEW S, IsFiniteSet(S), NEW s \in SUBSET S, NEW x \in s
  PROVE  /\ Cardinality(s) \in Nat /\ Cardinality(s \ {x}) \in Nat
         /\ Cardinality(s \ {x}) = Cardinality(s) - 1
         /\ IsFiniteSet(s)
<1>1. IsFiniteSet(s)
  BY FS_Subset
<1> QED
  BY <1>1, FS_RemoveElement, FS_CardinalityType

(* There are sums over the subsets of a finite set, *)
LEMMA SumsExist ==
  ASSUME NEW f, NEW S, IsFiniteSet(S)
  PROVE  \E t : Sums(f, S, t)
<1> DEFINE Small(n) == {s \in SUBSET S : Cardinality(s) <= n}
           SumsTo(n, t) ==
             t = [s \in Small(n) |->
                    IF s = {} THEN Zero ELSE Plus(f[Picked(s)], t[s \ {Picked(s)}])]
           Bad == {n \in Nat : ~\E t : SumsTo(n, t)}
<1>1. Bad = {}
  <2> SUFFICES ASSUME Bad # {} PROVE FALSE
    OBVIOUS
  <2>1. PICK n \in Bad : \A k \in Bad : n <= k
    BY LeastNumber
  <2>2. CASE n = 0
    <3> DEFINE t == [s \in Small(0) |-> Zero]
    <3>1. ASSUME NEW s \in Small(0)
          PROVE  s = {}
      <4>1. IsFiniteSet(s) /\ Cardinality(s) = 0
        BY FS_Subset, FS_CardinalityType
      <4> QED
        BY <4>1, FS_EmptySet
    <3> HIDE DEF Small
    <3>2. SumsTo(0, t)
      BY <3>1
    <3> QED
      BY <2>1, <2>2, <3>2
  <2>3. CASE n # 0
    <3>0. Bad \subseteq Nat
      OBVIOUS
    <3> HIDE DEF Bad
    <3>1. n - 1 \in Nat /\ n - 1 \notin Bad
      BY <2>1, <2>3, <3>0
    <3> USE DEF Bad
    <3>2. PICK t : SumsTo(n - 1, t)
      BY <3>1
    <3> DEFINE u == [s \in Small(n) |->
                       IF s = {} THEN Zero ELSE Plus(f[Picked(s)], t[s \ {Picked(s)}])]
    <3>3. ASSUME NEW s \in Small(n), s # {}
          PROVE  s \ {Picked(s)} \in Small(n) /\ s \ {Picked(s)} \in Small(n - 1)
      <4>1. Picked(s) \in s
        BY <3>3, PickedIn
      <4> QED
        BY <2>1, <4>1, Fewer
    <3> HIDE DEF Small
    <3>4. ASSUME NEW r \in Small(n) \cap Small(n - 1)
          PROVE  u[r] = t[r]
      BY <3>2
    <3>5. ASSUME NEW s \in Small(n), s # {}
          PROVE  u[s \ {Picked(s)}] = t[s \ {Picked(s)}]
      BY <3>3, <3>4, <3>5
    <3>6. SumsTo(n, u)
      BY <3>5
    <3> QED
      BY <2>1, <3>6
  <2> QED
    BY <2>2, <2>3
<1>2. Cardinality(S) \in Nat /\ Small(Cardinality(S)) = SUBSET S
  BY FS_CardinalityType, FS_Subset
<1>3. PICK t : SumsTo(Cardinality(S), t)
  BY <1>1, <1>2
<1> HIDE DEF Small
<1>4. Sums(f, S, t)
  BY <1>2, <1>3 DEF Sums
<1> QED
  BY <1>4

(* and they depend on the values alone. *)
LEMMA SumsSame ==
  ASSUME NEW f, NEW S, NEW t, Sums(f, S, t),
         NEW g, NEW T, NEW u, Sums(g, T, u),
         IsFiniteSet(S), NEW s \in SUBSET S, s \subseteq T, \A x \in s : f[x] = g[x]
  PROVE  t[s] = u[s]
<1> DEFINE Bad == {n \in Nat : \E r \in SUBSET s : Cardinality(r) = n /\ t[r] # u[r]}
<1>0. IsFiniteSet(s)
  BY FS_Subset
<1>1. Bad = {}
  <2> SUFFICES ASSUME Bad # {} PROVE FALSE
    OBVIOUS
  <2>1. PICK n \in Bad : \A k \in Bad : n <= k
    BY LeastNumber
  <2>2. PICK r \in SUBSET s : Cardinality(r) = n /\ t[r] # u[r]
    BY <2>1
  <2> DEFINE x == Picked(r)
             rest == r \ {x}
  <2>3. r \in SUBSET S /\ r \in SUBSET T
    OBVIOUS
  <2>4. t[r] = (IF r = {} THEN Zero ELSE Plus(f[x], t[rest]))
        /\ u[r] = (IF r = {} THEN Zero ELSE Plus(g[x], u[rest]))
    BY <2>3 DEF Sums
  <2>5. r # {}
    BY <2>2, <2>4
  <2>6. x \in r
    BY <2>5, PickedIn
  <2> HIDE DEF x
  <2>7. Cardinality(rest) \in Nat /\ Cardinality(rest) = Cardinality(r) - 1
    BY <1>0, <2>6, Fewer
  <2>8. t[rest] = u[rest]
    BY <2>1, <2>2, <2>7
  <2> QED
    BY <2>2, <2>4, <2>5, <2>6, <2>8 DEF x
<1>2. Cardinality(s) \in Nat
  BY <1>0, FS_CardinalityType
<1> QED
  BY <1>1, <1>2

(* The recursive equation of a sum. *)
LEMMA TotalRec ==
  ASSUME NEW f, NEW S, IsFiniteSet(S)
  PROVE  Total(Restrict(f, S)) =
           IF S = {} THEN Zero
           ELSE Plus(f[Picked(S)], Total(Restrict(f, S \ {Picked(S)})))
<1> DEFINE g == Restrict(f, S)
           x == Picked(S)
           R == S \ {x}
           h == Restrict(f, R)
           t == CHOOSE t : Sums(g, S, t)
           u == CHOOSE u : Sums(h, R, u)
<1>1. DOMAIN g = S /\ DOMAIN h = R /\ (\A y \in S : g[y] = f[y]) /\ (\A y \in R : h[y] = f[y])
  BY DEF Restrict
<1>2. IsFiniteSet(R)
  BY FS_Subset
<1>3. Total(g) = t[S] /\ Total(h) = u[R]
  BY <1>1, TotalIsSum
<1>4. Sums(g, S, t) /\ Sums(h, R, u)
  BY <1>2, SumsExist
<1> HIDE DEF t, u, g, h
<1>5. t[S] = IF S = {} THEN Zero ELSE Plus(g[x], t[R])
  BY <1>4 DEF Sums
<1>6. t[R] = u[R]
  BY <1>1, <1>4, SumsSame
<1>7. S # {} => x \in S
  BY PickedIn
<1> QED
  BY <1>1, <1>3, <1>5, <1>6, <1>7 DEF g, h

---------------------------------------------------------------------------
(* The laws of addition. *)
(* Quotients added and multiplied, with the types of what results. *)
LEMMA QuotientPlus ==
  ASSUME NEW i \in Int, NEW j \in Positive, NEW k \in Int, NEW l \in Positive
  PROVE  /\ i * l + k * j \in Int /\ j * l \in Positive
         /\ Plus(Frac(i, j), Frac(k, l)) = Frac(i * l + k * j, j * l)
<1>1. j \in Int /\ l \in Int
  BY DEF Positive
<1>2. i * l + k * j \in Int
  BY <1>1
<1>3. j * l \in Positive
  BY ProductsPositive
<1>4. Plus(Frac(i, j), Frac(k, l)) = Frac(i * l + k * j, j * l)
  BY PlusFrac
<1> QED
  BY <1>2, <1>3, <1>4

LEMMA QuotientTimes ==
  ASSUME NEW i \in Int, NEW j \in Positive, NEW k \in Int, NEW l \in Positive
  PROVE  /\ i * k \in Int /\ j * l \in Positive
         /\ Times(Frac(i, j), Frac(k, l)) = Frac(i * k, j * l)
<1>1. i * k \in Int
  OBVIOUS
<1>2. j * l \in Positive
  BY ProductsPositive
<1>3. Times(Frac(i, j), Frac(k, l)) = Frac(i * k, j * l)
  BY TimesFrac
<1> QED
  BY <1>1, <1>2, <1>3

LEMMA PlusLaws ==
  ASSUME NEW x \in Ratios, NEW y \in Ratios, NEW z \in Ratios
  PROVE  /\ Plus(x, y) = Plus(y, x)
         /\ Plus(x, Plus(y, z)) = Plus(y, Plus(x, z))
         /\ Plus(Plus(x, y), z) = Plus(x, Plus(y, z))
         /\ Plus(x, Zero) = x
<1> DEFINE a == x[1]  b == x[2]  c == y[1]  d == y[2]  e == z[1]  f == z[2]
<1>1. /\ a \in Int /\ b \in Positive /\ c \in Int /\ d \in Positive /\ e \in Int /\ f \in Positive
      /\ b \in Int /\ d \in Int /\ f \in Int
      /\ x = Frac(a, b) /\ y = Frac(c, d) /\ z = Frac(e, f)
  BY RatioType
<1> HIDE DEF a, b, c, d, e, f
<1>3. Plus(x, y) = Plus(y, x)
  <2>1. a * d + c * b = c * b + a * d /\ b * d = d * b
    BY <1>1
  <2> QED
    BY <1>1, <2>1, PlusFrac
<1>4. Plus(x, Plus(y, z)) = Frac(a * (d * f) + (c * f + e * d) * b, b * (d * f))
  <2> DEFINE p == c * f + e * d
             q == d * f
  <2>1. p \in Int /\ q \in Positive /\ Plus(y, z) = Frac(p, q)
    BY <1>1, QuotientPlus
  <2> HIDE DEF p, q
  <2>2. Plus(x, Plus(y, z)) = Frac(a * q + p * b, b * q)
    BY <1>1, <2>1, PlusFrac
  <2> QED
    BY <2>2 DEF p, q
<1>5. Plus(y, Plus(x, z)) = Frac(c * (b * f) + (a * f + e * b) * d, d * (b * f))
  <2> DEFINE p == a * f + e * b
             q == b * f
  <2>1. p \in Int /\ q \in Positive /\ Plus(x, z) = Frac(p, q)
    BY <1>1, QuotientPlus
  <2> HIDE DEF p, q
  <2>2. Plus(y, Plus(x, z)) = Frac(c * q + p * d, d * q)
    BY <1>1, <2>1, PlusFrac
  <2> QED
    BY <2>2 DEF p, q
<1>6. Plus(Plus(x, y), z) = Frac((a * d + c * b) * f + e * (b * d), (b * d) * f)
  <2> DEFINE p == a * d + c * b
             q == b * d
  <2>1. p \in Int /\ q \in Positive /\ Plus(x, y) = Frac(p, q)
    BY <1>1, QuotientPlus
  <2> HIDE DEF p, q
  <2>2. Plus(Plus(x, y), z) = Frac(p * f + e * q, q * f)
    BY <1>1, <2>1, PlusFrac
  <2> QED
    BY <2>2 DEF p, q
<1>7. /\ a * (d * f) + (c * f + e * d) * b = c * (b * f) + (a * f + e * b) * d
      /\ a * (d * f) + (c * f + e * d) * b = (a * d + c * b) * f + e * (b * d)
      /\ b * (d * f) = d * (b * f) /\ b * (d * f) = (b * d) * f
  BY <1>1
<1>8. Plus(x, Zero) = x
  <2>1. Zero = Frac(0, 1) /\ 1 \in Positive
    BY WholeRatio DEF Zero, Positive
  <2>2. a * 1 + 0 * b = a /\ b * 1 = b
    BY <1>1
  <2> QED
    BY <1>1, <2>1, <2>2, PlusFrac
<1> QED
  BY <1>3, <1>4, <1>5, <1>6, <1>7, <1>8

LEMMA PlusOrder ==
  ASSUME NEW x \in Ratios, NEW y \in Ratios, NEW z \in Ratios
  PROVE  Leq(x, y) <=> Leq(Plus(x, z), Plus(y, z))
<1> DEFINE a == x[1]  b == x[2]  c == y[1]  d == y[2]  e == z[1]  f == z[2]
<1>1. /\ a \in Int /\ b \in Positive /\ c \in Int /\ d \in Positive /\ e \in Int /\ f \in Positive
      /\ b \in Int /\ d \in Int /\ f \in Int
      /\ x = Frac(a, b) /\ y = Frac(c, d) /\ z = Frac(e, f)
  BY RatioType
<1>2. Leq(x, y) <=> a * d <= c * b
  BY DEF Leq
<1> HIDE DEF a, b, c, d, e, f
<1>3. Plus(x, z) = Frac(a * f + e * b, b * f) /\ Plus(y, z) = Frac(c * f + e * d, d * f)
  <2>1. Plus(Frac(a, b), Frac(e, f)) = Frac(a * f + e * b, b * f)
    BY <1>1, PlusFrac
  <2>2. Plus(Frac(c, d), Frac(e, f)) = Frac(c * f + e * d, d * f)
    BY <1>1, PlusFrac
  <2> QED
    BY <1>1, <2>1, <2>2
<1>4. b * f \in Positive /\ d * f \in Positive /\ f * f \in Positive
  BY <1>1, ProductsPositive
<1>5. a * f + e * b \in Int /\ c * f + e * d \in Int /\ a * d \in Int /\ c * b \in Int
  BY <1>1
<1>6. Leq(Plus(x, z), Plus(y, z)) <=> (a * f + e * b) * (d * f) <= (c * f + e * d) * (b * f)
  BY <1>3, <1>4, <1>5, LeqFrac
<1>7. /\ (a * f + e * b) * (d * f) = (a * d) * (f * f) + (e * f) * (b * d)
      /\ (c * f + e * d) * (b * f) = (c * b) * (f * f) + (e * f) * (b * d)
  BY <1>1
<1>8. a * d <= c * b <=> (a * d) * (f * f) <= (c * b) * (f * f)
  BY <1>4, <1>5, ProductOrder
<1>9. (a * d) * (f * f) \in Int /\ (c * b) * (f * f) \in Int /\ (e * f) * (b * d) \in Int
  BY <1>1
<1>10. (a * d) * (f * f) <= (c * b) * (f * f)
       <=> (a * d) * (f * f) + (e * f) * (b * d) <= (c * b) * (f * f) + (e * f) * (b * d)
  BY <1>9
<1> QED
  BY <1>2, <1>6, <1>7, <1>8, <1>10

LEMMA PlusMonotone ==
  ASSUME NEW x \in Ratios, NEW y \in Ratios, NEW u \in Ratios, NEW v \in Ratios,
         Leq(x, y), Leq(u, v)
  PROVE  Leq(Plus(x, u), Plus(y, v))
<1>1. Leq(Plus(x, u), Plus(y, u)) /\ Leq(Plus(u, y), Plus(v, y))
  BY PlusOrder
<1>2. Plus(u, y) = Plus(y, u) /\ Plus(v, y) = Plus(y, v)
  BY PlusLaws
<1> QED
  BY <1>1, <1>2, LeqTransitive, OperationsClosed

(* What is subtracted can be added on the other side. *)
LEMMA MinusLaws ==
  ASSUME NEW x \in Ratios, NEW y \in Ratios, NEW z \in Ratios
  PROVE  /\ Plus(Minus(x, y), y) = x
         /\ Leq(Minus(x, y), z) <=> Leq(x, Plus(y, z))
<1> DEFINE a == x[1]  b == x[2]  c == y[1]  d == y[2]
<1>1. /\ a \in Int /\ b \in Positive /\ c \in Int /\ d \in Positive
      /\ b \in Int /\ d \in Int
      /\ x = Frac(a, b) /\ y = Frac(c, d)
  BY RatioType
<1> HIDE DEF a, b, c, d
<1>2. b * d \in Positive /\ a * d - c * b \in Int
  BY <1>1, ProductsPositive
<1>3. Minus(x, y) = Frac(a * d - c * b, b * d)
  BY <1>1, MinusFrac
<1>4. Plus(Minus(x, y), y) = Frac((a * d - c * b) * d + c * (b * d), (b * d) * d)
  BY <1>1, <1>2, <1>3, PlusFrac
<1>5. (b * d) * d \in Positive /\ (a * d - c * b) * d + c * (b * d) \in Int
  BY <1>1, <1>2, ProductsPositive DEF Positive
<1>6. ((a * d - c * b) * d + c * (b * d)) * b = a * ((b * d) * d)
  BY <1>1
<1>7. Plus(Minus(x, y), y) = x
  BY <1>1, <1>4, <1>5, <1>6, FracSame
<1>8. Minus(x, y) \in Ratios
  BY OperationsClosed
<1>9. Leq(Minus(x, y), z) <=> Leq(Plus(Minus(x, y), y), Plus(z, y))
  BY <1>8, PlusOrder
<1> QED
  BY <1>7, <1>9, PlusLaws

LEMMA TimesLaws ==
  ASSUME NEW x \in Ratios, NEW y \in Ratios, NEW z \in Ratios
  PROVE  /\ Times(x, y) = Times(y, x)
         /\ Times(Times(x, y), z) = Times(x, Times(y, z))
         /\ Times(x, Plus(y, z)) = Plus(Times(x, y), Times(x, z))
         /\ Times(x, One) = x /\ Times(x, Zero) = Zero
<1> DEFINE a == x[1]  b == x[2]  c == y[1]  d == y[2]  e == z[1]  f == z[2]
<1>1. /\ a \in Int /\ b \in Positive /\ c \in Int /\ d \in Positive /\ e \in Int /\ f \in Positive
      /\ b \in Int /\ d \in Int /\ f \in Int
      /\ x = Frac(a, b) /\ y = Frac(c, d) /\ z = Frac(e, f)
  BY RatioType
<1> HIDE DEF a, b, c, d, e, f
<1>3. Times(x, y) = Times(y, x)
  <2>1. a * c = c * a /\ b * d = d * b
    BY <1>1
  <2> QED
    BY <1>1, <2>1, TimesFrac
<1>4. Times(Times(x, y), z) = Times(x, Times(y, z))
  <2>1. Times(Times(x, y), z) = Frac((a * c) * e, (b * d) * f)
    <3> DEFINE p == a * c
               q == b * d
    <3>1. p \in Int /\ q \in Positive /\ Times(x, y) = Frac(p, q)
      BY <1>1, QuotientTimes
    <3> HIDE DEF p, q
    <3>2. Times(Times(x, y), z) = Frac(p * e, q * f)
      BY <1>1, <3>1, TimesFrac
    <3> QED
      BY <3>2 DEF p, q
  <2>2. Times(x, Times(y, z)) = Frac(a * (c * e), b * (d * f))
    <3> DEFINE p == c * e
               q == d * f
    <3>1. p \in Int /\ q \in Positive /\ Times(y, z) = Frac(p, q)
      BY <1>1, QuotientTimes
    <3> HIDE DEF p, q
    <3>2. Times(x, Times(y, z)) = Frac(a * p, b * q)
      BY <1>1, <3>1, TimesFrac
    <3> QED
      BY <3>2 DEF p, q
  <2>3. (a * c) * e = a * (c * e) /\ (b * d) * f = b * (d * f)
    BY <1>1
  <2> QED
    BY <2>1, <2>2, <2>3
<1>5. Times(x, Plus(y, z)) = Plus(Times(x, y), Times(x, z))
  <2>1. Times(x, Plus(y, z)) = Frac(a * (c * f + e * d), b * (d * f))
    <3> DEFINE p == c * f + e * d
               q == d * f
    <3>1. p \in Int /\ q \in Positive /\ Plus(y, z) = Frac(p, q)
      BY <1>1, QuotientPlus
    <3> HIDE DEF p, q
    <3>2. Times(x, Plus(y, z)) = Frac(a * p, b * q)
      BY <1>1, <3>1, TimesFrac
    <3> QED
      BY <3>2 DEF p, q
  <2>2. Plus(Times(x, y), Times(x, z))
        = Frac((a * c) * (b * f) + (a * e) * (b * d), (b * d) * (b * f))
    <3> DEFINE p == a * c
               q == b * d
               r == a * e
               s == b * f
    <3>1. p \in Int /\ q \in Positive /\ Times(x, y) = Frac(p, q)
      BY <1>1, QuotientTimes
    <3>2. r \in Int /\ s \in Positive /\ Times(x, z) = Frac(r, s)
      BY <1>1, QuotientTimes
    <3> HIDE DEF p, q, r, s
    <3>3. Plus(Times(x, y), Times(x, z)) = Frac(p * s + r * q, q * s)
      BY <3>1, <3>2, PlusFrac
    <3> QED
      BY <3>3 DEF p, q, r, s
  <2>3. a * (c * f + e * d) \in Int /\ b * (d * f) \in Positive
        /\ (a * c) * (b * f) + (a * e) * (b * d) \in Int /\ (b * d) * (b * f) \in Positive
    BY <1>1, ProductsPositive
  <2>4. (a * (c * f + e * d)) * ((b * d) * (b * f))
        = ((a * c) * (b * f) + (a * e) * (b * d)) * (b * (d * f))
    BY <1>1
  <2> QED
    BY <2>1, <2>2, <2>3, <2>4, FracSame
<1>6. Times(x, One) = x /\ Times(x, Zero) = Zero
  <2>1. Zero = Frac(0, 1) /\ One = Frac(1, 1) /\ 1 \in Positive
    BY WholeRatio DEF Zero, One, Positive
  <2>2. a * 1 = a /\ b * 1 = b /\ a * 0 = 0 /\ 0 * 1 = 0 * b
    BY <1>1
  <2>3. Times(x, One) = x /\ Times(x, Zero) = Frac(0, b)
    BY <1>1, <2>1, <2>2, TimesFrac
  <2>4. Frac(0, b) = Frac(0, 1)
    BY <1>1, <2>1, <2>2, FracSame
  <2> QED
    BY <2>1, <2>3, <2>4
<1> QED
  BY <1>3, <1>4, <1>5, <1>6

---------------------------------------------------------------------------
(* The laws of sums.  Every induction is over the number of arguments. *)
LEMMA FiniteSetInduction ==
  ASSUME NEW S, IsFiniteSet(S), NEW Good, {} \in Good,
         \A s \in SUBSET S : s # {} /\ s \ {Picked(s)} \in Good => s \in Good
  PROVE  S \in Good
<1> DEFINE Bad == {n \in Nat : \E s \in SUBSET S : Cardinality(s) = n /\ s \notin Good}
<1>1. Bad = {}
  <2> SUFFICES ASSUME Bad # {} PROVE FALSE
    OBVIOUS
  <2>1. PICK n \in Bad : \A k \in Bad : n <= k
    BY LeastNumber
  <2>2. PICK s \in SUBSET S : Cardinality(s) = n /\ s \notin Good
    BY <2>1
  <2> DEFINE x == Picked(s)
  <2>3. s # {} /\ x \in s
    BY <2>2, PickedIn
  <2> HIDE DEF x
  <2>4. Cardinality(s \ {x}) \in Nat /\ Cardinality(s \ {x}) = Cardinality(s) - 1
    BY <2>3, Fewer
  <2>5. s \ {x} \in Good
    BY <2>1, <2>2, <2>4
  <2> QED
    BY <2>2, <2>3, <2>5 DEF x
<1>2. Cardinality(S) \in Nat
  BY FS_CardinalityType
<1> QED
  BY <1>1, <1>2

LEMMA TotalEmpty ==
  ASSUME NEW f
  PROVE  Total(Restrict(f, {})) = Zero
BY TotalRec, FS_EmptySet

LEMMA TotalType ==
  ASSUME NEW f, NEW S, IsFiniteSet(S), \A x \in S : f[x] \in Ratios
  PROVE  Total(Restrict(f, S)) \in Ratios
<1> DEFINE Good == {s \in SUBSET S : Total(Restrict(f, s)) \in Ratios}
<1>1. {} \in Good
  BY TotalEmpty, ConstantRatios
<1>2. ASSUME NEW s \in SUBSET S, s # {}, s \ {Picked(s)} \in Good
      PROVE  s \in Good
  <2>1. Picked(s) \in s /\ IsFiniteSet(s)
    BY <1>2, PickedIn, FS_Subset
  <2>2. Total(Restrict(f, s)) = Plus(f[Picked(s)], Total(Restrict(f, s \ {Picked(s)})))
    BY <1>2, <2>1, TotalRec
  <2> QED
    BY <1>2, <2>1, <2>2, OperationsClosed
<1> HIDE DEF Good
<1>3. S \in Good
  BY <1>1, <1>2, FiniteSetInduction
<1> QED
  BY <1>3 DEF Good

(* Any of the values can be taken first. *)
LEMMA TotalRemove ==
  ASSUME NEW f, NEW S, IsFiniteSet(S), \A x \in S : f[x] \in Ratios, NEW x \in S
  PROVE  Total(Restrict(f, S)) = Plus(f[x], Total(Restrict(f, S \ {x})))
<1> DEFINE Sum(s) == Total(Restrict(f, s))
           Good == {s \in SUBSET S : \A y \in s : Sum(s) = Plus(f[y], Sum(s \ {y}))}
           Bad == {n \in Nat : \E s \in SUBSET S : Cardinality(s) = n /\ s \notin Good}
<1>0. ASSUME NEW s \in SUBSET S
      PROVE  /\ IsFiniteSet(s) /\ Sum(s) \in Ratios
             /\ s # {} => Picked(s) \in s /\ Sum(s) = Plus(f[Picked(s)], Sum(s \ {Picked(s)}))
  <2>1. IsFiniteSet(s)
    BY FS_Subset
  <2> QED
    BY <2>1, TotalType, TotalRec, PickedIn
<1> HIDE DEF Sum
<1>1. Bad = {}
  <2> SUFFICES ASSUME Bad # {} PROVE FALSE
    OBVIOUS
  <2>1. PICK n \in Bad : \A k \in Bad : n <= k
    BY LeastNumber
  <2>2. PICK s \in SUBSET S : Cardinality(s) = n /\ s \notin Good
    BY <2>1
  <2>3. PICK y \in s : Sum(s) # Plus(f[y], Sum(s \ {y}))
    BY <2>2
  <2> DEFINE c == Picked(s)
             rest == s \ {c, y}
  <2>4. c \in s /\ Sum(s) = Plus(f[c], Sum(s \ {c}))
    BY <1>0, <2>3
  <2> HIDE DEF c
  <2>5. c # y
    BY <2>3, <2>4
  <2>6. s \ {c} \in Good /\ s \ {y} \in Good
    <3>1. ASSUME NEW z \in s
          PROVE  s \ {z} \in Good
      <4>1. Cardinality(s \ {z}) \in Nat /\ Cardinality(s \ {z}) = Cardinality(s) - 1
            /\ Cardinality(s) \in Nat
        BY Fewer
      <4> HIDE DEF Good
      <4> QED
        BY <2>1, <2>2, <4>1
    <3> QED
      BY <2>4, <3>1
  <2>7. Sum(s \ {c}) = Plus(f[y], Sum(rest))
    <3>1. (s \ {c}) \ {y} = rest /\ y \in s \ {c}
      BY <2>5
    <3> QED
      BY <2>6, <3>1
  <2>8. Sum(s \ {y}) = Plus(f[c], Sum(rest))
    <3>1. (s \ {y}) \ {c} = rest /\ c \in s \ {y}
      BY <2>4, <2>5
    <3> QED
      BY <2>6, <3>1
  <2>9. f[c] \in Ratios /\ f[y] \in Ratios /\ Sum(rest) \in Ratios
    BY <1>0, <2>4
  <2>10. Plus(f[c], Plus(f[y], Sum(rest))) = Plus(f[y], Plus(f[c], Sum(rest)))
    BY <2>9, PlusLaws
  <2> QED
    BY <2>3, <2>4, <2>7, <2>8, <2>10
<1>2. Cardinality(S) \in Nat
  BY FS_CardinalityType
<1>3. S \in Good
  BY <1>1, <1>2
<1> QED
  BY <1>3 DEF Sum

(* A factor of every value is a factor of the sum. *)
LEMMA TotalScaled ==
  ASSUME NEW f, NEW g, NEW S, IsFiniteSet(S), NEW k \in Ratios,
         \A x \in S : f[x] \in Ratios /\ g[x] = Times(k, f[x])
  PROVE  Total(Restrict(g, S)) = Times(k, Total(Restrict(f, S)))
<1> DEFINE Good == {s \in SUBSET S : Total(Restrict(g, s)) = Times(k, Total(Restrict(f, s)))}
<1>1. {} \in Good
  BY TotalEmpty, TimesLaws, ConstantRatios
<1>2. ASSUME NEW s \in SUBSET S, s # {}, s \ {Picked(s)} \in Good
      PROVE  s \in Good
  <2> DEFINE c == Picked(s)
             rest == s \ {c}
             F == Total(Restrict(f, rest))
  <2>1. c \in s /\ IsFiniteSet(s) /\ IsFiniteSet(rest) /\ rest \in SUBSET S
    BY <1>2, PickedIn, FS_Subset
  <2>2. Total(Restrict(f, s)) = Plus(f[c], F)
    BY <1>2, <2>1, TotalRec
  <2>3. Total(Restrict(g, s)) = Plus(g[c], Total(Restrict(g, rest)))
    BY <1>2, <2>1, TotalRec
  <2>4. Total(Restrict(g, rest)) = Times(k, F)
    BY <1>2
  <2>5. F \in Ratios
    BY <2>1, TotalType
  <2> HIDE DEF F, rest, c
  <2>6. f[c] \in Ratios /\ g[c] = Times(k, f[c])
    BY <2>1
  <2>7. Times(k, Plus(f[c], F)) = Plus(Times(k, f[c]), Times(k, F))
    BY <2>5, <2>6, TimesLaws
  <2> QED
    BY <2>2, <2>3, <2>4, <2>6, <2>7
<1> HIDE DEF Good
<1>3. S \in Good
  BY <1>1, <1>2, FiniteSetInduction
<1> QED
  BY <1>3 DEF Good

LEMMA WholeLaws ==
  ASSUME NEW m \in Int, NEW n \in Int
  PROVE  /\ Plus(Whole(m), Whole(n)) = Whole(m + n)
         /\ Times(Whole(m), Whole(n)) = Whole(m * n)
         /\ Leq(Whole(m), Whole(n)) <=> m <= n
         /\ Whole(m) = Whole(n) <=> m = n
<1>1. Whole(m) = Frac(m, 1) /\ Whole(n) = Frac(n, 1) /\ Whole(m + n) = Frac(m + n, 1)
      /\ Whole(m * n) = Frac(m * n, 1) /\ 1 \in Positive
  BY WholeRatio DEF Positive
<1>2. m * 1 + n * 1 = m + n /\ 1 * 1 = 1
  OBVIOUS
<1>3. Plus(Whole(m), Whole(n)) = Whole(m + n)
  BY <1>1, <1>2, PlusFrac
<1>4. Times(Whole(m), Whole(n)) = Whole(m * n)
  BY <1>1, <1>2, TimesFrac
<1> QED
  BY <1>3, <1>4 DEF Leq, Whole

(* Values that are all the same. *)
LEMMA TotalConstant ==
  ASSUME NEW f, NEW S, IsFiniteSet(S), NEW c \in Int, \A x \in S : f[x] = Whole(c)
  PROVE  Total(Restrict(f, S)) = Whole(c * Cardinality(S))
<1> DEFINE Good == {s \in SUBSET S : Total(Restrict(f, s)) = Whole(c * Cardinality(s))}
<1>1. {} \in Good
  BY TotalEmpty, FS_EmptySet, ConstantRatios
<1>2. ASSUME NEW s \in SUBSET S, s # {}, s \ {Picked(s)} \in Good
      PROVE  s \in Good
  <2> DEFINE p == Picked(s)
             n == Cardinality(s)
  <2>1. p \in s /\ IsFiniteSet(s)
    BY <1>2, PickedIn, FS_Subset
  <2>2. Total(Restrict(f, s)) = Plus(f[p], Total(Restrict(f, s \ {p})))
    BY <1>2, <2>1, TotalRec
  <2>3. Total(Restrict(f, s \ {p})) = Whole(c * Cardinality(s \ {p}))
    BY <1>2
  <2>4. n \in Nat /\ Cardinality(s \ {p}) = n - 1
    BY <2>1, Fewer
  <2> HIDE DEF p, n
  <2>5. f[p] = Whole(c)
    BY <2>1
  <2>6. Plus(Whole(c), Whole(c * (n - 1))) = Whole(c + c * (n - 1))
    BY <2>4, WholeLaws
  <2>7. c + c * (n - 1) = c * n
    BY <2>4
  <2> QED
    BY <2>2, <2>3, <2>4, <2>5, <2>6, <2>7 DEF n
<1> HIDE DEF Good
<1>3. S \in Good
  BY <1>1, <1>2, FiniteSetInduction
<1> QED
  BY <1>3 DEF Good

LEMMA NonNegative ==
  ASSUME NEW x \in Ratios
  PROVE  /\ Leq(Zero, x) <=> x[1] >= 0
         /\ Less(Zero, x) <=> x[1] > 0
         /\ x = Zero <=> x[1] = 0
<1>1. x[1] \in Int /\ x[2] \in Positive /\ Zero = <<0, 1>>
  BY RatioType DEF Zero, Whole
<1>2. x = Zero <=> x[1] = 0
  BY <1>1, RatioSame, ConstantRatios DEF Positive
<1> QED
  BY <1>1, <1>2 DEF Leq, Less, Positive

LEMMA TotalNonNegative ==
  ASSUME NEW f, NEW S, IsFiniteSet(S), \A x \in S : f[x] \in Ratios /\ Leq(Zero, f[x])
  PROVE  Leq(Zero, Total(Restrict(f, S)))
<1> DEFINE Good == {s \in SUBSET S : Leq(Zero, Total(Restrict(f, s)))}
<1>1. {} \in Good
  BY TotalEmpty, ConstantRatios, OrderRatio
<1>2. ASSUME NEW s \in SUBSET S, s # {}, s \ {Picked(s)} \in Good
      PROVE  s \in Good
  <2> DEFINE c == Picked(s)
             F == Total(Restrict(f, s \ {c}))
  <2>1. c \in s /\ IsFiniteSet(s) /\ IsFiniteSet(s \ {c})
    BY <1>2, PickedIn, FS_Subset
  <2>2. Total(Restrict(f, s)) = Plus(f[c], F)
    BY <1>2, <2>1, TotalRec
  <2>3. Leq(Zero, F) /\ F \in Ratios
    BY <1>2, <2>1, TotalType
  <2> HIDE DEF c, F
  <2>4. f[c] \in Ratios /\ Leq(Zero, f[c])
    BY <2>1
  <2>5. Leq(Plus(Zero, Zero), Plus(f[c], F))
    BY <2>3, <2>4, ConstantRatios, PlusMonotone
  <2> QED
    BY <2>2, <2>5, ConstantRatios, PlusLaws
<1> HIDE DEF Good
<1>3. S \in Good
  BY <1>1, <1>2, FiniteSetInduction
<1> QED
  BY <1>3 DEF Good

---------------------------------------------------------------------------
(* Quotients and means. *)
LEMMA OverLaws ==
  ASSUME NEW x \in Ratios, NEW y \in Ratios, y[1] > 0
  PROVE  /\ Over(x, y) \in Ratios
         /\ Times(Over(x, y), y) = x
         /\ Leq(Zero, x) => Leq(Zero, Over(x, y))
         /\ \A k \in Ratios : Over(Times(k, x), y) = Times(k, Over(x, y))
         /\ \A k \in Ratios : k[1] > 0 =>
               Times(k, y)[1] > 0 /\ Over(Times(k, x), Times(k, y)) = Over(x, y)
<1> DEFINE a == x[1]  b == x[2]  c == y[1]  d == y[2]
<1>1. /\ a \in Int /\ b \in Positive /\ c \in Positive /\ d \in Positive
      /\ b \in Int /\ d \in Int /\ c \in Int
      /\ x = Frac(a, b) /\ y = Frac(c, d)
  BY RatioType DEF Positive
<1>2. Leq(Zero, x) <=> a >= 0
  BY NonNegative
<1> HIDE DEF a, b, c, d
<1>3. /\ a * d \in Int /\ b * c \in Positive /\ Over(x, y) = Frac(a * d, b * c)
      /\ Over(x, y) \in Ratios
  <2>1. a * d \in Int
    BY <1>1
  <2>2. b * c \in Positive
    BY <1>1, ProductsPositive
  <2>3. Over(x, y) = Frac(a * d, b * c)
    BY <1>1, OverFrac
  <2> QED
    BY <2>1, <2>2, <2>3, FracRatio
<1>4. Times(Over(x, y), y) = x
  <2> DEFINE p == a * d  q == b * c
  <2>1. p \in Int /\ q \in Positive /\ Over(x, y) = Frac(p, q)
    BY <1>3
  <2>2. (p * c) * b = a * (q * d)
    BY <1>1
  <2> HIDE DEF p, q
  <2>3. Times(Over(x, y), y) = Frac(p * c, q * d) /\ p * c \in Int /\ q * d \in Positive
    BY <1>1, <2>1, QuotientTimes
  <2> DEFINE u == p * c  v == q * d
  <2>4. u \in Int /\ v \in Positive /\ Times(Over(x, y), y) = Frac(u, v) /\ u * b = a * v
    BY <2>2, <2>3
  <2> HIDE DEF u, v
  <2> QED
    BY <1>1, <2>4, FracSame
<1>5. Leq(Zero, x) => Leq(Zero, Over(x, y))
  <2> SUFFICES ASSUME a >= 0 PROVE Leq(Zero, Over(x, y))
    BY <1>2
  <2>1. a * d >= 0
    <3>1. a \in Nat /\ d \in Nat
      BY <1>1 DEF Positive
    <3> QED
      BY <3>1, ProductSign
  <2>2. Zero = Frac(0, 1) /\ 1 \in Positive
    BY WholeRatio DEF Zero, Positive
  <2>3. Leq(Frac(0, 1), Frac(a * d, b * c)) <=> 0 * (b * c) <= (a * d) * 1
    BY <1>3, <2>2, LeqFrac
  <2>4. 0 * (b * c) = 0 /\ (a * d) * 1 = a * d
    BY <1>1
  <2> QED
    BY <1>3, <2>1, <2>2, <2>3, <2>4
<1>6. ASSUME NEW k \in Ratios
      PROVE  Over(Times(k, x), y) = Times(k, Over(x, y))
  <2> DEFINE e == k[1]  f == k[2]  p == e * a  q == f * b  r == a * d  s == b * c
  <2>1. e \in Int /\ f \in Positive /\ f \in Int /\ k = Frac(e, f)
    BY RatioType
  <2> HIDE DEF e, f
  <2>2. p \in Int /\ q \in Positive /\ Times(k, x) = Frac(p, q)
    BY <1>1, <2>1, QuotientTimes
  <2>3. r \in Int /\ s \in Positive /\ Over(x, y) = Frac(r, s)
    BY <1>3
  <2>4. p * d = e * r /\ q * c = f * s
    BY <1>1, <2>1
  <2> HIDE DEF p, q, r, s
  <2>5. Over(Times(k, x), y) = Frac(p * d, q * c)
    BY <1>1, <2>2, OverFrac
  <2>6. Times(k, Over(x, y)) = Frac(e * r, f * s)
    BY <2>1, <2>3, TimesFrac
  <2> QED
    BY <2>4, <2>5, <2>6
<1>7. ASSUME NEW k \in Ratios, k[1] > 0
      PROVE  Times(k, y)[1] > 0 /\ Over(Times(k, x), Times(k, y)) = Over(x, y)
  <2> DEFINE e == k[1]  f == k[2]  p == e * a  q == f * b  r == e * c  s == f * d
  <2>1. e \in Positive /\ e \in Int /\ f \in Positive /\ f \in Int /\ k = Frac(e, f)
    BY <1>7, RatioType DEF Positive
  <2> HIDE DEF e, f
  <2>2. p \in Int /\ q \in Positive /\ Times(k, x) = Frac(p, q)
    BY <1>1, <2>1, QuotientTimes
  <2>3. s \in Positive /\ Times(k, y) = Frac(r, s)
    BY <1>1, <2>1, QuotientTimes
  <2>4. r \in Positive
    BY <1>1, <2>1, ProductsPositive
  <2>5. p * s = (e * f) * (a * d) /\ q * r = (e * f) * (b * c)
    BY <1>1, <2>1
  <2>6. e * f \in Positive
    BY <2>1, ProductsPositive
  <2> HIDE DEF p, q, r, s
  <2>7. Over(Times(k, x), Times(k, y)) = Frac(p * s, q * r)
    BY <2>2, <2>3, <2>4, OverFrac
  <2>8. Frac((e * f) * (a * d), (e * f) * (b * c)) = Frac(a * d, b * c)
    BY <1>3, <2>6, FracScale
  <2>9. Times(k, y)[1] > 0
    <3>1. r \in Int /\ r > 0
      BY <2>4 DEF Positive
    <3>2. PICK u \in Int, v \in Positive, g \in Positive :
            Frac(r, s) = <<u, v>> /\ r = g * u /\ s = g * v
      BY <2>3, <3>1, FracValue
    <3>3. u > 0
      BY <3>1, <3>2 DEF Positive
    <3> QED
      BY <2>3, <3>2, <3>3
  <2> QED
    BY <1>3, <2>5, <2>7, <2>8, <2>9
<1> QED
  BY <1>3, <1>4, <1>5, <1>6, <1>7

(* The mean of the values of a finite set of arguments that is not empty. *)
LEMMA MeanType ==
  ASSUME NEW f, NEW S, IsFiniteSet(S), S # {}, \A x \in S : f[x] \in Ratios
  PROVE  /\ Mean(Restrict(f, S)) \in Ratios
         /\ Mean(Restrict(f, S)) = Over(Total(Restrict(f, S)), Whole(Cardinality(S)))
         /\ Whole(Cardinality(S)) \in Ratios /\ Whole(Cardinality(S))[1] > 0
         /\ (\A x \in S : Leq(Zero, f[x])) => Leq(Zero, Mean(Restrict(f, S)))
<1>1. Cardinality(S) \in Nat /\ Cardinality(S) # 0
  BY FS_CardinalityType, FS_EmptySet
<1>2. Whole(Cardinality(S)) \in Ratios /\ Whole(Cardinality(S))[1] > 0
  BY <1>1, WholeRatio
<1>3. DOMAIN Restrict(f, S) = S
  BY DEF Restrict
<1>4. Mean(Restrict(f, S)) = Over(Total(Restrict(f, S)), Whole(Cardinality(S)))
  BY <1>3 DEF Mean
<1>5. Total(Restrict(f, S)) \in Ratios
  BY TotalType
<1>6. (\A x \in S : Leq(Zero, f[x])) => Leq(Zero, Total(Restrict(f, S)))
  BY TotalNonNegative
<1> QED
  BY <1>2, <1>4, <1>5, <1>6, OverLaws

LEMMA MeanConstant ==
  ASSUME NEW f, NEW S, IsFiniteSet(S), S # {}, NEW c \in Int, \A x \in S : f[x] = Whole(c)
  PROVE  Mean(Restrict(f, S)) = Whole(c)
<1> DEFINE n == Cardinality(S)
<1>1. n \in Positive /\ n \in Int
  BY FS_CardinalityType, FS_EmptySet DEF Positive
<1>2. \A x \in S : f[x] \in Ratios
  BY WholeRatio
<1>3. Mean(Restrict(f, S)) = Over(Whole(c * n), Whole(n))
  BY <1>2, MeanType, TotalConstant
<1> HIDE DEF n
<1>4. Whole(c * n) = Times(Whole(c), Whole(n))
  BY <1>1, WholeLaws
<1>5. Whole(n) \in Ratios /\ Whole(n)[1] > 0 /\ Whole(c) \in Ratios
  BY <1>1, WholeRatio DEF Positive
<1>6. Over(Times(Whole(c), Whole(n)), Whole(n)) = Times(Whole(c), Over(Whole(n), Whole(n)))
  BY <1>5, OverLaws
<1>7. Over(Whole(n), Whole(n)) = One
  <2>1. Over(Whole(n), Whole(n)) = Frac(n * 1, 1 * n)
    BY DEF Over, Whole
  <2>2. 1 \in Positive /\ n * 1 = n * 1 /\ 1 * n = n * 1 /\ n * 1 = n
    BY <1>1 DEF Positive
  <2>3. Frac(n, n) = Frac(1, 1)
    <3>1. n * 1 = 1 * n
      BY <1>1
    <3> QED
      BY <1>1, <2>2, <3>1, FracSame
  <2> QED
    BY <2>1, <2>2, <2>3, WholeRatio DEF One
<1> QED
  BY <1>3, <1>4, <1>5, <1>6, <1>7, TimesLaws

LEMMA MeanScaled ==
  ASSUME NEW f, NEW g, NEW S, IsFiniteSet(S), S # {}, NEW k \in Ratios,
         \A x \in S : f[x] \in Ratios /\ g[x] = Times(k, f[x])
  PROVE  Mean(Restrict(g, S)) = Times(k, Mean(Restrict(f, S)))
<1>1. \A x \in S : g[x] \in Ratios
  BY OperationsClosed
<1>2. Mean(Restrict(f, S)) = Over(Total(Restrict(f, S)), Whole(Cardinality(S)))
      /\ Mean(Restrict(g, S)) = Over(Total(Restrict(g, S)), Whole(Cardinality(S)))
      /\ Whole(Cardinality(S)) \in Ratios /\ Whole(Cardinality(S))[1] > 0
  BY <1>1, MeanType
<1>3. Total(Restrict(g, S)) = Times(k, Total(Restrict(f, S)))
  BY TotalScaled
<1>4. Total(Restrict(f, S)) \in Ratios
  BY TotalType
<1> QED
  BY <1>2, <1>3, <1>4, OverLaws

---------------------------------------------------------------------------
(* The forecast. *)
IsHistory(h) ==
  /\ IsFiniteSet(DOMAIN h)
  /\ h = [d \in DOMAIN h |-> h[d]]
  /\ \A d \in DOMAIN h : h[d] \in Nat

SoldOn(h) == [d \in DOMAIN h |-> Whole(h[d])]
AverageOf(h) == Mean(SoldOn(h))
MultiplierOf(h, same) ==
  IF same = {} THEN One ELSE Over(Mean(Restrict(SoldOn(h), same)), AverageOf(h))
SameWeekday(h, date) == {d \in DOMAIN h : Weekday(d) = Weekday(date)}
SeasonFactor(h, date) ==
  IF Cardinality({IsoWeek(d) : d \in DOMAIN h}) >= WoyMinSeasons
  THEN MultiplierOf(h, {d \in DOMAIN h : IsoWeek(d) = IsoWeek(date)}) ELSE One

LEMMA PredictByParts ==
  ASSUME NEW h, NEW date
  PROVE  Predict(h, date) =
           IF DOMAIN h = {} \/ AverageOf(h) = Zero THEN Zero
           ELSE Times(Times(AverageOf(h), MultiplierOf(h, SameWeekday(h, date))),
                      SeasonFactor(h, date))
<1>1. ASSUME NEW days \in SUBSET DOMAIN h
      PROVE  [d \in days |-> Whole(h[d])] = Restrict(SoldOn(h), days)
  BY DEF Restrict, SoldOn
<1>2. [d \in DOMAIN h |-> Whole(h[d])] = SoldOn(h)
  BY DEF SoldOn
<1> DEFINE dow == SameWeekday(h, date)
           woy == {d \in DOMAIN h : IsoWeek(d) = IsoWeek(date)}
<1>3. [d \in dow |-> Whole(h[d])] = Restrict(SoldOn(h), dow)
      /\ [d \in woy |-> Whole(h[d])] = Restrict(SoldOn(h), woy)
  BY <1>1 DEF SameWeekday
<1> QED
  BY <1>2, <1>3 DEF Predict, SameWeekday, MultiplierOf, SeasonFactor, AverageOf

LEMMA SoldFacts ==
  ASSUME NEW h, IsHistory(h)
  PROVE  /\ DOMAIN SoldOn(h) = DOMAIN h
         /\ SoldOn(h) = Restrict(SoldOn(h), DOMAIN h)
         /\ \A d \in DOMAIN h : SoldOn(h)[d] = Whole(h[d]) /\ SoldOn(h)[d] \in Ratios
                                /\ Leq(Zero, SoldOn(h)[d])
<1>1. \A d \in DOMAIN h : SoldOn(h)[d] = Whole(h[d])
  BY DEF SoldOn
<1>2. ASSUME NEW d \in DOMAIN h
      PROVE  Whole(h[d]) \in Ratios /\ Leq(Zero, Whole(h[d]))
  <2>1. h[d] \in Nat
    BY DEF IsHistory
  <2>2. Whole(h[d]) \in Ratios /\ Whole(h[d])[1] >= 0
    BY <2>1, WholeRatio
  <2> QED
    BY <2>2, NonNegative
<1> QED
  BY <1>1, <1>2 DEF SoldOn, Restrict

(* Its average and its factors: ratios, and not below zero. *)
LEMMA AverageType ==
  ASSUME NEW h, IsHistory(h), DOMAIN h # {}
  PROVE  /\ AverageOf(h) \in Ratios /\ Leq(Zero, AverageOf(h))
         /\ AverageOf(h) = Zero \/ AverageOf(h)[1] > 0
<1>1. AverageOf(h) = Mean(Restrict(SoldOn(h), DOMAIN h))
  BY SoldFacts DEF AverageOf
<1>2. AverageOf(h) \in Ratios /\ Leq(Zero, AverageOf(h))
  <2>1. IsFiniteSet(DOMAIN h)
    BY DEF IsHistory
  <2> QED
    BY <1>1, <2>1, SoldFacts, MeanType
<1> QED
  BY <1>2, NonNegative, RatioType

LEMMA MultiplierType ==
  ASSUME NEW h, IsHistory(h), DOMAIN h # {}, AverageOf(h) # Zero,
         NEW same \in SUBSET DOMAIN h
  PROVE  MultiplierOf(h, same) \in Ratios /\ Leq(Zero, MultiplierOf(h, same))
<1>1. CASE same = {}
  <2>1. One \in Ratios /\ One[1] >= 0
    BY ConstantRatios
  <2> QED
    BY <1>1, <2>1, NonNegative DEF MultiplierOf
<1>2. CASE same # {}
  <2>1. IsFiniteSet(same)
    BY FS_Subset DEF IsHistory
  <2>2. \A d \in same : SoldOn(h)[d] \in Ratios /\ Leq(Zero, SoldOn(h)[d])
    BY SoldFacts
  <2>3. Mean(Restrict(SoldOn(h), same)) \in Ratios /\ Leq(Zero, Mean(Restrict(SoldOn(h), same)))
    BY <1>2, <2>1, <2>2, MeanType
  <2> QED
    BY <1>2, <2>3, AverageType, OverLaws DEF MultiplierOf
<1> QED
  BY <1>1, <1>2

LEMMA FactorType ==
  ASSUME NEW h, IsHistory(h), DOMAIN h # {}, AverageOf(h) # Zero, NEW date
  PROVE  /\ MultiplierOf(h, SameWeekday(h, date)) \in Ratios
         /\ Leq(Zero, MultiplierOf(h, SameWeekday(h, date)))
         /\ SeasonFactor(h, date) \in Ratios
         /\ Leq(Zero, SeasonFactor(h, date))
<1>1. One \in Ratios /\ Leq(Zero, One)
  BY ConstantRatios, NonNegative
<1>2. SameWeekday(h, date) \in SUBSET DOMAIN h
  BY DEF SameWeekday
<1>3. {d \in DOMAIN h : IsoWeek(d) = IsoWeek(date)} \in SUBSET DOMAIN h
  OBVIOUS
<1> QED
  BY <1>1, <1>2, <1>3, MultiplierType DEF SeasonFactor

LEMMA TimesNonNegative ==
  ASSUME NEW x \in Ratios, NEW y \in Ratios, Leq(Zero, x), Leq(Zero, y)
  PROVE  Times(x, y) \in Ratios /\ Leq(Zero, Times(x, y))
<1> DEFINE a == x[1]  b == x[2]  c == y[1]  d == y[2]
<1>1. /\ a \in Nat /\ b \in Positive /\ c \in Nat /\ d \in Positive
      /\ x = Frac(a, b) /\ y = Frac(c, d)
  BY NonNegative, RatioType
<1> HIDE DEF a, b, c, d
<1> DEFINE p == a * c  q == b * d
<1>2. p \in Nat /\ q \in Positive /\ Times(x, y) = Frac(p, q)
  BY <1>1, ProductSign, QuotientTimes
<1> HIDE DEF p, q
<1>3. Zero = Frac(0, 1) /\ 1 \in Positive
  BY WholeRatio DEF Zero, Positive
<1>4. Leq(Frac(0, 1), Frac(p, q)) <=> 0 * q <= p * 1
  BY <1>2, <1>3, LeqFrac
<1>5. 0 * q <= p * 1
  BY <1>2 DEF Positive
<1> QED
  BY <1>2, <1>3, <1>4, <1>5, OperationsClosed

LEMMA PredictType ==
  ASSUME NEW h, IsHistory(h), NEW date
  PROVE  Predict(h, date) \in Ratios /\ Leq(Zero, Predict(h, date))
<1>1. CASE DOMAIN h = {} \/ AverageOf(h) = Zero
  BY <1>1, PredictByParts, ConstantRatios, OrderRatio
<1>2. CASE ~(DOMAIN h = {} \/ AverageOf(h) = Zero)
  <2> DEFINE m == MultiplierOf(h, SameWeekday(h, date))
             w == SeasonFactor(h, date)
  <2>1. m \in Ratios /\ Leq(Zero, m) /\ w \in Ratios /\ Leq(Zero, w)
    BY <1>2, FactorType
  <2>2. AverageOf(h) \in Ratios /\ Leq(Zero, AverageOf(h))
    BY <1>2, AverageType
  <2>3. Predict(h, date) = Times(Times(AverageOf(h), m), w)
    BY <1>2, PredictByParts
  <2> HIDE DEF m, w
  <2> QED
    BY <2>1, <2>2, <2>3, TimesNonNegative
<1> QED
  BY <1>1, <1>2

(* Sales that are the same every day: every mean is that sale, every factor one. *)
LEMMA ConstantPredicted ==
  ASSUME NEW h, IsHistory(h), NEW c \in Nat, DOMAIN h # {}, \A d \in DOMAIN h : h[d] = c,
         NEW date
  PROVE  Predict(h, date) = Whole(c)
<1>1. ASSUME NEW same \in SUBSET DOMAIN h, same # {}
      PROVE  Mean(Restrict(SoldOn(h), same)) = Whole(c)
  <2>1. IsFiniteSet(same)
    BY FS_Subset DEF IsHistory
  <2>2. \A d \in same : SoldOn(h)[d] = Whole(c)
    BY SoldFacts
  <2> QED
    BY <1>1, <2>1, <2>2, MeanConstant
<1>2. AverageOf(h) = Whole(c)
  BY <1>1, SoldFacts DEF AverageOf
<1>3. CASE c = 0
  BY <1>2, <1>3, PredictByParts, ConstantRatios
<1>4. CASE c # 0
  <2>1. Whole(c) \in Ratios /\ Whole(c)[1] > 0 /\ Whole(c) # Zero
    BY <1>4, WholeRatio, NonNegative
  <2>2. Over(Whole(c), Whole(c)) = One
    <3>1. Whole(c) = Times(Whole(c), One) /\ One[1] > 0 /\ One \in Ratios
      BY <2>1, ConstantRatios, TimesLaws
    <3>2. Over(Times(Whole(c), One), Times(Whole(c), One)) = Over(One, One)
      BY <2>1, <3>1, OverLaws
    <3>3. Times(Over(One, One), One) = One /\ Over(One, One) \in Ratios
      BY <3>1, OverLaws
    <3>4. Over(One, One) = One
      BY <3>3, TimesLaws
    <3> QED
      BY <3>1, <3>2, <3>4
  <2>3. ASSUME NEW same \in SUBSET DOMAIN h
        PROVE  MultiplierOf(h, same) = One
    BY <1>1, <1>2, <2>2 DEF MultiplierOf
  <2>4. MultiplierOf(h, SameWeekday(h, date)) = One /\ SeasonFactor(h, date) = One
    <3>1. SameWeekday(h, date) \in SUBSET DOMAIN h
          /\ {d \in DOMAIN h : IsoWeek(d) = IsoWeek(date)} \in SUBSET DOMAIN h
      BY DEF SameWeekday
    <3> QED
      BY <2>3, <3>1 DEF SeasonFactor
  <2>5. Predict(h, date) = Times(Times(Whole(c), One), One)
    BY <1>2, <2>1, <2>4, PredictByParts
  <2> QED
    BY <2>1, <2>5, TimesLaws
<1> QED
  BY <1>3, <1>4

(* Twice the sales: every mean doubles, and the factors are what they were. *)
LEMMA DoublePredicted ==
  ASSUME NEW h, IsHistory(h), NEW date
  PROVE  Predict([d \in DOMAIN h |-> 2 * h[d]], date) = Times(Whole(2), Predict(h, date))
<1> DEFINE two == Whole(2)
           g == [d \in DOMAIN h |-> 2 * h[d]]
<1>1. DOMAIN g = DOMAIN h /\ \A d \in DOMAIN h : g[d] = 2 * h[d]
  OBVIOUS
<1>2. two \in Ratios /\ two[1] > 0
  BY WholeRatio
<1>3. IsHistory(g)
  BY <1>1 DEF IsHistory
<1> HIDE DEF g
<1>4. ASSUME NEW d \in DOMAIN h
      PROVE  SoldOn(g)[d] = Times(two, SoldOn(h)[d]) /\ SoldOn(h)[d] \in Ratios
  <2>1. h[d] \in Nat
    BY DEF IsHistory
  <2>2. SoldOn(h)[d] = Whole(h[d]) /\ SoldOn(g)[d] = Whole(2 * h[d])
    BY <1>1, <1>3, SoldFacts
  <2> QED
    BY <2>1, <2>2, WholeLaws, WholeRatio
<1> HIDE DEF two
<1>5. ASSUME NEW same \in SUBSET DOMAIN h, same # {}
      PROVE  /\ Mean(Restrict(SoldOn(g), same)) = Times(two, Mean(Restrict(SoldOn(h), same)))
             /\ Mean(Restrict(SoldOn(h), same)) \in Ratios
  <2>1. IsFiniteSet(same)
    BY FS_Subset DEF IsHistory
  <2>2. \A d \in same : SoldOn(h)[d] \in Ratios /\ SoldOn(g)[d] = Times(two, SoldOn(h)[d])
    BY <1>4
  <2>3. Mean(Restrict(SoldOn(g), same)) = Times(two, Mean(Restrict(SoldOn(h), same)))
    BY <1>2, <1>5, <2>1, <2>2, MeanScaled
  <2> QED
    BY <1>5, <2>1, <2>2, <2>3, MeanType
<1>6. CASE DOMAIN h = {}
  <2>1. Predict(g, date) = Zero /\ Predict(h, date) = Zero
    BY <1>1, <1>6, PredictByParts
  <2> QED
    BY <1>2, <2>1, TimesLaws, ConstantRatios DEF two, g
<1>7. CASE DOMAIN h # {}
  <2>1. AverageOf(g) = Times(two, AverageOf(h)) /\ AverageOf(h) \in Ratios
    BY <1>1, <1>3, <1>5, <1>7, SoldFacts DEF AverageOf
  <2>2. CASE AverageOf(h) = Zero
    <3>1. AverageOf(g) = Zero
      BY <1>2, <2>1, <2>2, TimesLaws
    <3>2. Predict(g, date) = Zero /\ Predict(h, date) = Zero
      BY <2>2, <3>1, PredictByParts
    <3> QED
      BY <1>2, <3>2, TimesLaws, ConstantRatios DEF two, g
  <2>3. CASE AverageOf(h) # Zero
    <3>1. AverageOf(h)[1] > 0
      BY <1>7, <2>3, AverageType
    <3>2. AverageOf(g) # Zero /\ AverageOf(g) \in Ratios
      <4>1. Times(two, AverageOf(h))[1] > 0
        BY <1>2, <2>1, <3>1, OverLaws
      <4>2. AverageOf(g) \in Ratios
        BY <1>2, <2>1, OperationsClosed
      <4> QED
        BY <2>1, <4>1, <4>2, NonNegative
    <3>3. ASSUME NEW same \in SUBSET DOMAIN h
          PROVE  MultiplierOf(g, same) = MultiplierOf(h, same)
      <4>1. CASE same = {}
        BY <4>1 DEF MultiplierOf
      <4>2. CASE same # {}
        <5> DEFINE M == Mean(Restrict(SoldOn(h), same))
        <5>1. M \in Ratios /\ Mean(Restrict(SoldOn(g), same)) = Times(two, M)
          BY <1>5, <4>2
        <5>2. MultiplierOf(h, same) = Over(M, AverageOf(h))
              /\ MultiplierOf(g, same) = Over(Times(two, M), Times(two, AverageOf(h)))
          BY <2>1, <4>2, <5>1 DEF MultiplierOf
        <5> HIDE DEF M
        <5>3. Over(Times(two, M), Times(two, AverageOf(h))) = Over(M, AverageOf(h))
          BY <1>2, <2>1, <3>1, <5>1, OverLaws
        <5> QED
          BY <5>2, <5>3
      <4> QED
        BY <4>1, <4>2
    <3>4. SameWeekday(g, date) = SameWeekday(h, date)
          /\ SameWeekday(h, date) \in SUBSET DOMAIN h
      BY <1>1 DEF SameWeekday
    <3>5. SeasonFactor(g, date) = SeasonFactor(h, date)
      <4>1. {d \in DOMAIN h : IsoWeek(d) = IsoWeek(date)} \in SUBSET DOMAIN h
        OBVIOUS
      <4> QED
        BY <1>1, <3>3, <4>1 DEF SeasonFactor
    <3> DEFINE a == AverageOf(h)
               m == MultiplierOf(h, SameWeekday(h, date))
               w == SeasonFactor(h, date)
    <3>6. Predict(h, date) = Times(Times(a, m), w)
          /\ Predict(g, date) = Times(Times(Times(two, a), m), w)
      BY <1>1, <1>7, <2>1, <2>3, <3>2, <3>3, <3>4, <3>5, PredictByParts
    <3>7. a \in Ratios /\ m \in Ratios /\ w \in Ratios
      BY <1>7, <2>1, <2>3, FactorType
    <3> HIDE DEF a, m, w
    <3>8. Times(a, m) \in Ratios
      BY <3>7, OperationsClosed
    <3>9. Times(Times(two, a), m) = Times(two, Times(a, m))
      BY <1>2, <3>7, TimesLaws
    <3>10. Times(Times(two, Times(a, m)), w) = Times(two, Times(Times(a, m), w))
      BY <1>2, <3>7, <3>8, TimesLaws
    <3> QED
      BY <3>6, <3>9, <3>10 DEF two, g
  <2> QED
    BY <2>2, <2>3
<1> QED
  BY <1>6, <1>7

---------------------------------------------------------------------------
(* What a column keeps of a quantity is within half of its unit. *)
LEMMA HalfUnitType == HalfUnit \in Ratios /\ Leq(Zero, HalfUnit) /\ Scale \in Positive
<1>1. Scale \in Positive /\ 2 * Scale \in Positive
  BY WindowAssumption DEF Positive
<1>2. HalfUnit \in Ratios
  BY <1>1, FracRatio DEF HalfUnit
<1>3. Zero = Frac(0, 1) /\ 1 \in Positive
  BY WholeRatio DEF Zero, Positive
<1>4. Leq(Frac(0, 1), Frac(1, 2 * Scale)) <=> 0 * (2 * Scale) <= 1 * 1
  BY <1>1, <1>3, LeqFrac
<1>5. 0 * (2 * Scale) <= 1 * 1
  BY <1>1 DEF Positive
<1> QED
  BY <1>1, <1>2, <1>3, <1>4, <1>5 DEF HalfUnit

LEMMA StoredNear ==
  ASSUME NEW x \in Ratios, Leq(Zero, x)
  PROVE  /\ Stored(x, Scale) \in Ratios /\ Leq(Zero, Stored(x, Scale))
         /\ Leq(x, Plus(Stored(x, Scale), HalfUnit))
         /\ Leq(Stored(x, Scale), Plus(x, HalfUnit))
         /\ x = Zero => Stored(x, Scale) = Zero
<1> DEFINE p == x[1]  q == x[2]  y == Times(x, Whole(Scale))  a == y[1]  b == y[2]
           r == Rounded(y)  S == Scale
<1>1. p \in Nat /\ q \in Positive /\ p \in Int /\ q \in Int /\ x = Frac(p, q)
      /\ (x = Zero => p = 0)
  BY NonNegative, RatioType
<1>2. S \in Positive /\ S \in Int /\ Whole(S) = Frac(S, 1) /\ 1 \in Positive
  BY HalfUnitType, WholeRatio DEF Positive
<1> HIDE DEF p, q, S
<1>3. a \in Int /\ b \in Positive /\ b \in Int /\ a * q = (p * S) * b
  <2> DEFINE m == p * S
  <2>1. y = Frac(p * S, q * 1) /\ q * 1 = q
    BY <1>1, <1>2, TimesFrac DEF S
  <2>2. m \in Int
    BY <1>1, <1>2
  <2>3. y = Frac(m, q)
    BY <2>1
  <2> HIDE DEF m, y
  <2>4. y \in Int \X Positive /\ y[1] * q = m * y[2]
    BY <1>1, <2>2, <2>3, FracType
  <2> QED
    BY <2>4 DEF m, Positive
<1>4. r \in Int /\ (2 * b) * r <= 2 * a + b /\ 2 * a + b < (2 * b) * r + 2 * b
  <2>1. r = (2 * a + b) \div (2 * b)
    BY DEF Rounded
  <2> HIDE DEF a, b, r
  <2> DEFINE n == 2 * a + b  d == 2 * b
  <2>2. n \in Int /\ d \in Int /\ d > 0
    BY <1>3 DEF Positive
  <2>3. r = n \div d
    BY <2>1
  <2> HIDE DEF n, d
  <2>4. r \in Int /\ n = d * r + (n % d) /\ (n % d) \in 0..(d - 1)
    BY <2>2, <2>3
  <2>5. d * r <= n /\ n < d * r + d
    BY <2>2, <2>4
  <2> QED
    BY <2>4, <2>5 DEF n, d
<1>5. Stored(x, Scale) = Frac(r, S)
  BY DEF Stored, S
<1> HIDE DEF a, b, r, y
<1>6. r \in Nat
  <2>1. a >= 0
    <3>1. p * S \in Nat
      BY <1>1, <1>2, ProductSign DEF Positive
    <3>2. (p * S) * b \in Nat
      BY <1>3, <3>1, ProductSign DEF Positive
    <3> QED
      BY <1>1, <1>3, <3>2 DEF Positive
  <2>2. r < 0 => (2 * b) * r <= -(2 * b)
    BY <1>3, <1>4 DEF Positive
  <2>3. b > 0
    BY <1>3 DEF Positive
  <2> QED
    BY <1>3, <1>4, <2>1, <2>2, <2>3
<1>7. Frac(r, S) \in Ratios /\ Leq(Zero, Frac(r, S))
  <2>1. Zero = Frac(0, 1)
    BY WholeRatio DEF Zero
  <2>2. Leq(Frac(0, 1), Frac(r, S)) <=> 0 * S <= r * 1
    BY <1>2, <1>4, LeqFrac
  <2>3. 0 * S <= r * 1
    BY <1>2, <1>6
  <2> QED
    BY <1>2, <1>4, <2>1, <2>2, <2>3, FracRatio
<1>8. p * (2 * S) <= (2 * r + 1) * q
  <2>1. 2 * a <= (2 * r + 1) * b
    BY <1>3, <1>4
  <2>2. 2 * a \in Int /\ (2 * r + 1) * b \in Int /\ p * (2 * S) \in Int /\ (2 * r + 1) * q \in Int
    BY <1>1, <1>2, <1>3, <1>4
  <2>3. (2 * a) * q <= ((2 * r + 1) * b) * q
    BY <1>1, <2>1, <2>2, ProductOrder
  <2>4. (2 * a) * q = (p * (2 * S)) * b /\ ((2 * r + 1) * b) * q = ((2 * r + 1) * q) * b
    BY <1>1, <1>2, <1>3, <1>4
  <2> DEFINE m == p * (2 * S)
             n == (2 * r + 1) * q
  <2>5. m \in Int /\ n \in Int /\ m * b <= n * b
    BY <2>2, <2>3, <2>4
  <2> HIDE DEF m, n
  <2>6. m <= n
    BY <1>3, <2>5, ProductOrder
  <2> QED
    BY <2>6 DEF m, n
<1>9. (2 * r) * q <= p * (2 * S) + q
  <2>1. (2 * r) * b <= 2 * a + b
    BY <1>3, <1>4
  <2>2. 2 * a + b \in Int /\ (2 * r) * b \in Int /\ p * (2 * S) + q \in Int /\ (2 * r) * q \in Int
    BY <1>1, <1>2, <1>3, <1>4
  <2>3. ((2 * r) * b) * q <= (2 * a + b) * q
    BY <1>1, <2>1, <2>2, ProductOrder
  <2>4. ((2 * r) * b) * q = ((2 * r) * q) * b /\ (2 * a + b) * q = (p * (2 * S) + q) * b
    BY <1>1, <1>2, <1>3, <1>4
  <2> DEFINE m == (2 * r) * q
             n == p * (2 * S) + q
  <2>5. m \in Int /\ n \in Int /\ m * b <= n * b
    BY <2>2, <2>3, <2>4
  <2> HIDE DEF m, n
  <2>6. m <= n
    BY <1>3, <2>5, ProductOrder
  <2> QED
    BY <2>6 DEF m, n
<1>10. 2 * S \in Positive /\ 2 * S \in Int /\ HalfUnit = Frac(1, 2 * S)
  BY <1>2 DEF Positive, HalfUnit, S
<1> DEFINE H == 2 * S
<1>11. H \in Positive /\ H \in Int /\ HalfUnit = Frac(1, H)
  BY <1>10
<1>12. Leq(x, Plus(Frac(r, S), HalfUnit))
  <2> DEFINE u == r * H + 1 * S  v == S * H
  <2>1. u \in Int /\ v \in Positive /\ v \in Int /\ Plus(Frac(r, S), HalfUnit) = Frac(u, v)
    <3> HIDE DEF H
    <3>1. u \in Int /\ v \in Positive /\ Plus(Frac(r, S), Frac(1, H)) = Frac(u, v)
      BY <1>2, <1>4, <1>11, QuotientPlus
    <3> QED
      BY <1>11, <3>1 DEF Positive
  <2>2. p * v = (p * (2 * S)) * S /\ u * q = ((2 * r + 1) * q) * S
    BY <1>1, <1>2, <1>4
  <2>3. p * (2 * S) \in Int /\ (2 * r + 1) * q \in Int
    BY <1>1, <1>2, <1>4
  <2>4. (p * (2 * S)) * S <= ((2 * r + 1) * q) * S
    BY <1>2, <1>8, <2>3, ProductOrder
  <2>5. p * v <= u * q
    BY <2>2, <2>4
  <2> HIDE DEF u, v
  <2>6. Leq(Frac(p, q), Frac(u, v)) <=> p * v <= u * q
    BY <1>1, <2>1, LeqFrac
  <2> QED
    BY <1>1, <2>1, <2>5, <2>6
<1>13. Leq(Frac(r, S), Plus(x, HalfUnit))
  <2> DEFINE u == p * H + 1 * q  v == q * H
  <2>1. u \in Int /\ v \in Positive /\ v \in Int /\ Plus(x, HalfUnit) = Frac(u, v)
    <3> HIDE DEF H
    <3>1. u \in Int /\ v \in Positive /\ Plus(Frac(p, q), Frac(1, H)) = Frac(u, v)
      BY <1>1, <1>11, QuotientPlus
    <3> QED
      BY <1>1, <1>11, <3>1 DEF Positive
  <2>2. r * v = ((2 * r) * q) * S /\ u * S = (p * (2 * S) + q) * S
    BY <1>1, <1>2, <1>4
  <2>3. (2 * r) * q \in Int /\ p * (2 * S) + q \in Int
    BY <1>1, <1>2, <1>4
  <2>4. ((2 * r) * q) * S <= (p * (2 * S) + q) * S
    BY <1>2, <1>9, <2>3, ProductOrder
  <2>5. r * v <= u * S
    BY <2>2, <2>4
  <2> HIDE DEF u, v
  <2>6. Leq(Frac(r, S), Frac(u, v)) <=> r * v <= u * S
    BY <1>2, <1>4, <2>1, LeqFrac
  <2> QED
    BY <2>1, <2>5, <2>6
<1>14. x = Zero => Frac(r, S) = Zero
  <2> SUFFICES ASSUME p = 0 PROVE Frac(r, S) = Zero
    BY <1>1
  <2>1. a = 0
    <3>1. a * q = 0
      BY <1>2, <1>3
    <3> QED
      BY <1>1, <1>3, <3>1 DEF Positive
  <2>2. r = 0
    <3>1. r >= 1 => (2 * b) * r >= 2 * b
      BY <1>3, <1>4 DEF Positive
    <3> QED
      BY <1>3, <1>4, <1>6, <2>1, <3>1 DEF Positive
  <2>3. Zero = Frac(0, 1) /\ 0 * 1 = 0 * S
    BY <1>2, WholeRatio DEF Zero
  <2> QED
    BY <1>2, <2>2, <2>3, FracSame
<1> QED
  BY <1>5, <1>7, <1>12, <1>13, <1>14

---------------------------------------------------------------------------
(* Nearness: n half units at most on either side. *)
Slack(n) == Times(Whole(n), HalfUnit)

LEMMA SlackLaws ==
  ASSUME NEW m \in Nat, NEW n \in Nat
  PROVE  /\ Slack(n) \in Ratios /\ Slack(1) = HalfUnit /\ Slack(0) = Zero
         /\ Plus(Slack(m), Slack(n)) = Slack(m + n)
<1>1. HalfUnit \in Ratios /\ Whole(m) \in Ratios /\ Whole(n) \in Ratios
      /\ Whole(0) \in Ratios /\ Whole(1) \in Ratios
  BY HalfUnitType, WholeRatio
<1>2. Slack(n) \in Ratios
  BY <1>1, OperationsClosed DEF Slack
<1>3. Slack(1) = HalfUnit /\ Slack(0) = Zero
  <2>1. Slack(1) = Times(HalfUnit, One) /\ Slack(0) = Times(HalfUnit, Zero)
    BY <1>1, TimesLaws DEF Slack, One, Zero
  <2> QED
    BY <1>1, <2>1, TimesLaws
<1>4. Plus(Slack(m), Slack(n)) = Slack(m + n)
  <2>1. Slack(m) = Times(HalfUnit, Whole(m)) /\ Slack(n) = Times(HalfUnit, Whole(n))
    BY <1>1, TimesLaws DEF Slack
  <2>2. Whole(m + n) = Plus(Whole(m), Whole(n)) /\ Whole(m + n) \in Ratios
    BY WholeLaws, WholeRatio
  <2>3. Slack(m + n) = Times(HalfUnit, Whole(m + n))
    BY <1>1, <2>2, TimesLaws DEF Slack
  <2> QED
    BY <1>1, <2>1, <2>2, <2>3, TimesLaws
<1> QED
  BY <1>2, <1>3, <1>4

LEMMA NearIff ==
  ASSUME NEW x \in Ratios, NEW y \in Ratios, NEW n \in Nat
  PROVE  Near(x, y, n) <=> Leq(x, Plus(y, Slack(n))) /\ Leq(y, Plus(x, Slack(n)))
BY SlackLaws, MinusLaws DEF Near, Slack

(* Values near others add up to a sum near theirs. *)
LEMMA TotalWithin ==
  ASSUME NEW f, NEW g, NEW S, IsFiniteSet(S),
         \A x \in S : f[x] \in Ratios /\ g[x] \in Ratios /\ Leq(f[x], Plus(g[x], HalfUnit))
  PROVE  Leq(Total(Restrict(f, S)), Plus(Total(Restrict(g, S)), Slack(Cardinality(S))))
<1> DEFINE F(s) == Total(Restrict(f, s))
           G(s) == Total(Restrict(g, s))
           Good == {s \in SUBSET S : Leq(F(s), Plus(G(s), Slack(Cardinality(s))))}
<1>0. ASSUME NEW s \in SUBSET S
      PROVE  F(s) \in Ratios /\ G(s) \in Ratios /\ IsFiniteSet(s)
             /\ (s # {} => /\ F(s) = Plus(f[Picked(s)], F(s \ {Picked(s)}))
                           /\ G(s) = Plus(g[Picked(s)], G(s \ {Picked(s)})))
  <2>1. IsFiniteSet(s)
    BY FS_Subset
  <2> QED
    BY <2>1, TotalType, TotalRec
<1>1. {} \in Good
  <2>1. F({}) = Zero /\ G({}) = Zero
    BY TotalEmpty
  <2>2. Slack(Cardinality({})) = Zero
    BY SlackLaws, FS_EmptySet
  <2>3. Plus(Zero, Zero) = Zero /\ Leq(Zero, Zero)
    BY ConstantRatios, PlusLaws, OrderRatio
  <2> QED
    BY <2>1, <2>2, <2>3
<1> HIDE DEF F, G
<1>2. ASSUME NEW s \in SUBSET S, s # {}, s \ {Picked(s)} \in Good
      PROVE  s \in Good
  <2> DEFINE c == Picked(s)
             rest == s \ {c}
             n == Cardinality(rest)
             h == HalfUnit
  <2>1. c \in s
    BY <1>2, PickedIn
  <2>2. n \in Nat /\ Cardinality(s) = n + 1
    BY <2>1, Fewer
  <2>3. F(s) = Plus(f[c], F(rest)) /\ G(s) = Plus(g[c], G(rest))
    BY <1>0, <1>2
  <2>4. F(rest) \in Ratios /\ G(rest) \in Ratios
    BY <1>0
  <2>5. Leq(F(rest), Plus(G(rest), Slack(n)))
    BY <1>2
  <2> HIDE DEF c, rest, n
  <2>6. f[c] \in Ratios /\ g[c] \in Ratios /\ Leq(f[c], Plus(g[c], h))
    BY <2>1
  <2>7. h \in Ratios /\ Slack(n) \in Ratios /\ Plus(h, Slack(n)) = Slack(n + 1)
    <3>1. Plus(Slack(n), Slack(1)) = Slack(n + 1) /\ Slack(1) = h /\ Slack(n) \in Ratios
          /\ Slack(1) \in Ratios
      BY <2>2, SlackLaws
    <3> QED
      BY <3>1, PlusLaws
  <2> HIDE DEF h
  <2>8. Plus(g[c], h) \in Ratios /\ Plus(G(rest), Slack(n)) \in Ratios
    BY <2>4, <2>6, <2>7, OperationsClosed
  <2>9. Leq(Plus(f[c], F(rest)), Plus(Plus(g[c], h), Plus(G(rest), Slack(n))))
    BY <2>4, <2>5, <2>6, <2>8, PlusMonotone
  <2>10. Plus(Plus(g[c], h), Plus(G(rest), Slack(n)))
         = Plus(Plus(g[c], G(rest)), Plus(h, Slack(n)))
    <3>1. Plus(Plus(g[c], h), Plus(G(rest), Slack(n)))
          = Plus(g[c], Plus(h, Plus(G(rest), Slack(n))))
      BY <2>6, <2>7, <2>8, PlusLaws
    <3>2. Plus(h, Plus(G(rest), Slack(n))) = Plus(G(rest), Plus(h, Slack(n)))
      BY <2>4, <2>7, PlusLaws
    <3>3. Plus(h, Slack(n)) \in Ratios
      BY <2>7, OperationsClosed
    <3>4. Plus(Plus(g[c], G(rest)), Plus(h, Slack(n)))
          = Plus(g[c], Plus(G(rest), Plus(h, Slack(n))))
      BY <2>4, <2>6, <3>3, PlusLaws
    <3> QED
      BY <3>1, <3>2, <3>4
  <2> QED
    BY <2>2, <2>3, <2>7, <2>9, <2>10
<1> HIDE DEF Good
<1>3. S \in Good
  BY <1>1, <1>2, FiniteSetInduction
<1> QED
  BY <1>3 DEF Good, F, G

(* Arguments whose value is zero can be left out. *)
LEMMA TotalOfRest ==
  ASSUME NEW f, NEW S, IsFiniteSet(S), \A x \in S : f[x] \in Ratios,
         NEW T \in SUBSET S, \A x \in S \ T : f[x] = Zero
  PROVE  Total(Restrict(f, S)) = Total(Restrict(f, T))
<1> DEFINE U == S \ T
           Good == {u \in SUBSET U : Total(Restrict(f, T \cup u)) = Total(Restrict(f, T))}
<1>1. {} \in Good
  <2>1. T \cup {} = T
    OBVIOUS
  <2> QED
    BY <2>1
<1>2. ASSUME NEW u \in SUBSET U, u # {}, u \ {Picked(u)} \in Good
      PROVE  u \in Good
  <2> DEFINE c == Picked(u)
             V == T \cup u
             W == T \cup (u \ {c})
  <2>1. c \in u
    BY <1>2, PickedIn
  <2>2. Total(Restrict(f, W)) = Total(Restrict(f, T))
    BY <1>2
  <2> HIDE DEF c
  <2>3. IsFiniteSet(V) /\ IsFiniteSet(W) /\ V \subseteq S /\ W \subseteq S /\ c \in V /\ V \ {c} = W
        /\ f[c] = Zero
    BY <2>1, FS_Subset
  <2>4. Total(Restrict(f, V)) = Plus(f[c], Total(Restrict(f, W)))
    <3> HIDE DEF V, W
    <3>1. \A x \in V : f[x] \in Ratios
      BY <2>3
    <3>2. Total(Restrict(f, V)) = Plus(f[c], Total(Restrict(f, V \ {c})))
      BY <2>3, <3>1, TotalRemove
    <3> QED
      BY <2>3, <3>2
  <2>5. Total(Restrict(f, W)) \in Ratios
    BY <2>3, TotalType
  <2>6. Plus(Zero, Total(Restrict(f, W))) = Total(Restrict(f, W))
    BY <2>5, ConstantRatios, PlusLaws
  <2> QED
    BY <2>2, <2>3, <2>4, <2>6
<1>3. IsFiniteSet(U)
  BY FS_Subset
<1> HIDE DEF Good, U
<1>4. U \in Good
  BY <1>1, <1>2, <1>3, FiniteSetInduction
<1>5. T \cup U = S
  BY DEF U
<1> QED
  BY <1>4, <1>5 DEF Good

LEMMA RestrictWhole ==
  ASSUME NEW f, NEW S, f = [x \in S |-> f[x]]
  PROVE  Restrict(f, S) = f
BY DEF Restrict

---------------------------------------------------------------------------
(* The run: its inputs, and what each phase left. *)
Phases == {"idle", "demand", "forecast", "lines", "plans", "ordered", "regenerated"}
Forecast(h) ==
  [p \in {q \in Products : DOMAIN h[q] # {}} |-> [day \in Horizons |-> Predict(h[p], day)]]
SoldOK == \A p \in DOMAIN history : IsHistory(history[p])
InputsOK ==
  /\ DOMAIN history = Products
  /\ \A p \in Products :
        /\ inputs[p].supplier \in Suppliers \cup {NULL}
        /\ inputs[p].stock \in Ratios /\ inputs[p].transit \in Ratios
        /\ inputs[p].demand = NULL \/ inputs[p].demand \in Ratios
        /\ inputs[p].lead = NULL \/ inputs[p].lead \in Int
  /\ \A s \in Suppliers : scores[s] = NULL \/ scores[s] \in Ratios
StoredLine(p) == [supplier |-> Compute(p).supplier, reorder |-> Stored(Compute(p).reorder, Scale)]
Wanted(s) == {p \in Products : Compute(p).supplier = s /\ Less(Zero, Compute(p).reorder)}
WantedTotal(s) == Total([p \in Wanted(s) |-> Compute(p).reorder])
PlanOf(s) == [total |-> Stored(WantedTotal(s), Scale), count |-> Cardinality(Wanted(s))]
LinesOf(s) == [p \in PlanLines(s) |-> lines[p].reorder]

DemandInv ==
  /\ phase \in Phases
  /\ SoldOK
  /\ phase # "idle" => InputsOK
  /\ phase \notin {"idle", "demand"} => forecasts = Forecast(history)
  /\ phase = "lines" => lines = [p \in Products |-> Compute(p)]
  /\ phase \in {"plans", "ordered", "regenerated"} =>
       /\ lines = [p \in Products |-> StoredLine(p)]
       /\ plans = [s \in {t \in Suppliers : Wanted(t) # {} /\ Leq(Zero, WantedTotal(t))} |->
                     PlanOf(s)]
  /\ phase \in {"ordered", "regenerated"} =>
       /\ masters \in Masters
       /\ orders = [s \in {t \in DOMAIN plans : PlanLines(t) # {}} |->
                      Build(masters, s, LinesOf(s))]

(* The phases only read what the ones before them wrote. *)
LEMMA ComputeUnchanged ==
  ASSUME UNCHANGED <<inputs, scores, forecasts>>, NEW p
  PROVE  Compute(p)' = Compute(p)
BY DEF Compute, DailyDemand, LeadTime

LEMMA PlansUnchanged ==
  ASSUME UNCHANGED <<inputs, scores, forecasts>>
  PROVE  /\ \A p : StoredLine(p)' = StoredLine(p)
         /\ \A s : Wanted(s)' = Wanted(s) /\ WantedTotal(s)' = WantedTotal(s)
                   /\ PlanOf(s)' = PlanOf(s)
<1>1. \A p : Compute(p)' = Compute(p)
  BY ComputeUnchanged
<1>2. \A p : StoredLine(p)' = StoredLine(p)
  BY <1>1 DEF StoredLine
<1>3. ASSUME NEW s
      PROVE  Wanted(s)' = Wanted(s) /\ WantedTotal(s)' = WantedTotal(s)
  BY <1>1 DEF Wanted, WantedTotal
<1> QED
  BY <1>2, <1>3 DEF PlanOf

LEMMA FractionIsRatio ==
  ASSUME NEW x, IsFraction(x)
  PROVE  x \in Ratios
BY DEF IsFraction, Ratios, Positive

LEMMA HistoriesAreSold ==
  ASSUME NEW p \in Products, NEW h \in Histories(p)
  PROVE  IsHistory(h)
<1>1. IsFiniteSet(0..(AsOf - 1))
  BY WindowAssumption, FS_Interval
<1>2. /\ DOMAIN h \subseteq 0..(AsOf - 1) /\ h = [d \in DOMAIN h |-> h[d]]
      /\ \A d \in DOMAIN h : h[d] \in Nat
  BY HistoryAssumption
<1>3. IsFiniteSet(DOMAIN h)
  BY <1>1, <1>2, FS_Subset
<1> QED
  BY <1>2, <1>3 DEF IsHistory

LEMMA DemandInvInit == Init => DemandInv
<1>1. ASSUME DemandIdle
      PROVE  DemandInv
  <2>1. DOMAIN history = {}
    BY <1>1 DEF DemandIdle
  <2>2. SoldOK
    BY <2>1 DEF SoldOK
  <2> QED
    BY <1>1, <2>2 DEF DemandIdle, DemandInv, Phases
<1>2. CASE DemandInit
  <2>1. /\ DOMAIN history = Products /\ \A p \in Products : history[p] \in Histories(p)
        /\ \A p \in Products : inputs[p] \in Rows(p)
        /\ \A s \in Suppliers : scores[s] \in Scores
    BY <1>2 DEF DemandInit, EachOf
  <2>2. SoldOK
    BY <2>1, HistoriesAreSold DEF SoldOK
  <2>3. \A p \in Products :
          /\ inputs[p].supplier \in Suppliers \cup {NULL}
          /\ inputs[p].stock \in Ratios /\ inputs[p].transit \in Ratios
          /\ inputs[p].demand = NULL \/ inputs[p].demand \in Ratios
          /\ inputs[p].lead = NULL \/ inputs[p].lead \in Int
    BY <2>1, InputAssumption, FractionIsRatio
  <2>4. \A s \in Suppliers : scores[s] = NULL \/ scores[s] \in Ratios
    BY <2>1, InputAssumption, FractionIsRatio
  <2>5. InputsOK
    BY <2>1, <2>3, <2>4 DEF InputsOK
  <2> QED
    BY <1>2, <2>2, <2>5 DEF DemandInit, DemandInv, Phases
<1> QED
  BY <1>1, <1>2 DEF Init

(* What is rebuilt from an order is built from the same lines. *)
LEMMA BuiltQuantities ==
  ASSUME NEW m, NEW s
  PROVE  Build(m, s, LinesOf(s)).qty = LinesOf(s)
<1>1. {p \in DOMAIN LinesOf(s) : Less(Zero, LinesOf(s)[p])} = PlanLines(s)
  BY DEF LinesOf, PlanLines
<1> QED
  BY <1>1 DEF Build, LinesOf

LEMMA DemandInvStep == DemandInv /\ [Next]_vars => DemandInv'
<1> SUFFICES ASSUME DemandInv, [Next]_vars PROVE DemandInv'
  OBVIOUS
<1>1. CASE PredictBatch
  <2>1. InputsOK' /\ SoldOK'
    BY <1>1 DEF PredictBatch, DemandInv, InputsOK, SoldOK
  <2>2. forecasts' = Forecast(history)'
    BY <1>1 DEF PredictBatch, Forecast
  <2> QED
    BY <1>1, <2>1, <2>2 DEF PredictBatch, DemandInv, Phases
<1>2. CASE ComputeBatch
  <2>1. InputsOK' /\ SoldOK' /\ forecasts' = Forecast(history)'
    BY <1>2 DEF ComputeBatch, DemandInv, InputsOK, SoldOK, Forecast
  <2>2. lines' = [p \in Products |-> Compute(p)]'
    BY <1>2, ComputeUnchanged DEF ComputeBatch
  <2> QED
    BY <1>2, <2>1, <2>2 DEF ComputeBatch, DemandInv, Phases
<1>3. CASE BuildPlans
  <2>1. InputsOK' /\ SoldOK' /\ forecasts' = Forecast(history)'
    BY <1>3 DEF BuildPlans, DemandInv, InputsOK, SoldOK, Forecast
  <2>2. lines = [p \in Products |-> Compute(p)] /\ UNCHANGED <<inputs, scores, forecasts>>
    BY <1>3 DEF BuildPlans, DemandInv
  <2>3. ASSUME NEW s
        PROVE  Needed(s) = Wanted(s)
               /\ [p \in Needed(s) |-> lines[p].reorder] = [p \in Wanted(s) |-> Compute(p).reorder]
    <3>1. Needed(s) = Wanted(s)
      BY <2>2 DEF Needed, Wanted
    <3>2. \A p \in Wanted(s) : lines[p].reorder = Compute(p).reorder
      BY <2>2 DEF Wanted
    <3> QED
      BY <3>1, <3>2
  <2>4. Whole(DefaultConfig.moq) = Zero /\ ~(DefaultConfig.multiplier > 1)
    BY DEF DefaultConfig, Zero
  <2>5. \A x : PlanQty(x, DefaultConfig) = x
    BY <2>4 DEF PlanQty
  <2>6. plans' = [s \in {t \in Suppliers : Wanted(t) # {} /\ Leq(Zero, WantedTotal(t))} |->
                    PlanOf(s)]
    BY <1>3, <2>3, <2>4, <2>5 DEF BuildPlans, WantedTotal, PlanOf
  <2>7. lines' = [p \in Products |-> StoredLine(p)]
    <3>1. ASSUME NEW p \in Products
          PROVE  [lines[p] EXCEPT !.reorder = Stored(@, Scale)] = StoredLine(p)
      BY <2>2 DEF StoredLine, Compute
    <3>2. lines' = [p \in Products |-> [lines[p] EXCEPT !.reorder = Stored(@, Scale)]]
      BY <1>3 DEF BuildPlans
    <3> QED
      BY <3>1, <3>2
  <2>8. lines' = [p \in Products |-> StoredLine(p)]'
        /\ plans' = [s \in {t \in Suppliers : Wanted(t) # {} /\ Leq(Zero, WantedTotal(t))} |->
                       PlanOf(s)]'
    BY <2>2, <2>6, <2>7, PlansUnchanged
  <2> QED
    BY <1>3, <2>1, <2>8 DEF BuildPlans, DemandInv, Phases
<1>4. CASE BuildOne
  <2>1. InputsOK' /\ SoldOK' /\ forecasts' = Forecast(history)'
    BY <1>4 DEF BuildOne, DemandInv, InputsOK, SoldOK, Forecast
  <2>2. lines' = [p \in Products |-> StoredLine(p)]'
        /\ plans' = [s \in {t \in Suppliers : Wanted(t) # {} /\ Leq(Zero, WantedTotal(t))} |->
                       PlanOf(s)]'
    <3>1. UNCHANGED <<inputs, scores, forecasts>>
      BY <1>4 DEF BuildOne
    <3> QED
      BY <1>4, <3>1, PlansUnchanged DEF BuildOne, DemandInv
  <2>3. orders' = [s \in {t \in DOMAIN plans : PlanLines(t) # {}} |->
                     Build(masters, s, LinesOf(s))]'
    BY <1>4 DEF BuildOne, LinesOf, PlanLines, Build, PickPrice
  <2>4. masters' \in Masters
    BY <1>4 DEF BuildOne
  <2>5. phase' = "ordered"
    BY <1>4 DEF BuildOne
  <2> QED
    BY <2>1, <2>2, <2>3, <2>4, <2>5 DEF DemandInv, Phases
<1>5. CASE RebuildFromExisting
  <2>1. InputsOK' /\ SoldOK' /\ forecasts' = Forecast(history)'
    BY <1>5 DEF RebuildFromExisting, DemandInv, InputsOK, SoldOK, Forecast
  <2>2. lines' = [p \in Products |-> StoredLine(p)]'
        /\ plans' = [s \in {t \in Suppliers : Wanted(t) # {} /\ Leq(Zero, WantedTotal(t))} |->
                       PlanOf(s)]'
    <3>1. UNCHANGED <<inputs, scores, forecasts>>
      BY <1>5 DEF RebuildFromExisting
    <3> QED
      BY <1>5, <3>1, PlansUnchanged DEF RebuildFromExisting, DemandInv
  <2>3. orders = [s \in {t \in DOMAIN plans : PlanLines(t) # {}} |->
                    Build(masters, s, LinesOf(s))]
    BY <1>5 DEF RebuildFromExisting, DemandInv
  <2>4. \A s \in DOMAIN orders : orders[s].qty = LinesOf(s)
    BY <2>3, BuiltQuantities
  <2>5. orders' = [s \in {t \in DOMAIN plans : PlanLines(t) # {}} |->
                     Build(masters', s, LinesOf(s))]
    BY <1>5, <2>3, <2>4 DEF RebuildFromExisting
  <2>6. orders' = [s \in {t \in DOMAIN plans : PlanLines(t) # {}} |->
                     Build(masters, s, LinesOf(s))]'
    <3>1. UNCHANGED <<plans, lines>>
      BY <1>5 DEF RebuildFromExisting
    <3>2. ASSUME NEW s
          PROVE  PlanLines(s)' = PlanLines(s) /\ LinesOf(s)' = LinesOf(s)
      BY <3>1 DEF PlanLines, LinesOf
    <3> HIDE DEF LinesOf
    <3>3. ASSUME NEW s
          PROVE  Build(masters, s, LinesOf(s))' = Build(masters', s, LinesOf(s))
      BY <3>2 DEF Build, PickPrice
    <3> QED
      BY <2>5, <3>1, <3>2, <3>3
  <2>7. masters' \in Masters
    BY <1>5 DEF RebuildFromExisting
  <2>8. phase' = "regenerated"
    BY <1>5 DEF RebuildFromExisting
  <2> QED
    BY <2>1, <2>2, <2>6, <2>7, <2>8 DEF DemandInv, Phases
<1>6. CASE UNCHANGED demandVars
  <2>1. InputsOK' = InputsOK /\ SoldOK' = SoldOK
        /\ Forecast(history)' = Forecast(history)
    BY <1>6 DEF demandVars, InputsOK, SoldOK, Forecast
  <2>2. UNCHANGED <<inputs, scores, forecasts>>
    BY <1>6 DEF demandVars
  <2>3. \A p : Compute(p)' = Compute(p)
    BY <2>2, ComputeUnchanged
  <2>4. [s \in {t \in DOMAIN plans : PlanLines(t) # {}} |-> Build(masters, s, LinesOf(s))]'
        = [s \in {t \in DOMAIN plans : PlanLines(t) # {}} |-> Build(masters, s, LinesOf(s))]
    BY <1>6 DEF demandVars, LinesOf, PlanLines, Build, PickPrice
  <2>5. [p \in Products |-> Compute(p)]' = [p \in Products |-> Compute(p)]
        /\ [p \in Products |-> StoredLine(p)]' = [p \in Products |-> StoredLine(p)]
        /\ [s \in {t \in Suppliers : Wanted(t) # {} /\ Leq(Zero, WantedTotal(t))} |-> PlanOf(s)]'
           = [s \in {t \in Suppliers : Wanted(t) # {} /\ Leq(Zero, WantedTotal(t))} |-> PlanOf(s)]
    BY <2>2, <2>3, PlansUnchanged
  <2>6. UNCHANGED <<phase, forecasts, lines, plans, masters, orders>>
    BY <1>6 DEF demandVars
  <2> QED
    BY <2>1, <2>4, <2>5, <2>6 DEF DemandInv
<1> QED
  BY <1>1, <1>2, <1>3, <1>4, <1>5, <1>6 DEF Next, vars, calculationVars, CalculationStep

(* A history that sold the same every day is forecast as it is, and twice the sales
   give twice the forecast (predict and computeStats of the moving average). *)
THEOREM ForecastAlwaysNeutral == Spec => []ForecastNeutral
<1>1. DemandInv => ForecastNeutral
  <2> SUFFICES ASSUME DemandInv, NEW p \in DOMAIN history, NEW day \in Horizons
               PROVE  LET sold == history[p]
                      IN  /\ \A d \in DOMAIN sold :
                                (\A e \in DOMAIN sold : sold[e] = sold[d])
                                   => Predict(sold, day) = Whole(sold[d])
                          /\ Predict([d \in DOMAIN sold |-> 2 * sold[d]], day) =
                                Times(Whole(2), Predict(sold, day))
    BY DEF ForecastNeutral
  <2> DEFINE sold == history[p]
  <2>1. IsHistory(sold)
    BY DEF DemandInv, SoldOK
  <2> HIDE DEF sold
  <2>2. ASSUME NEW d \in DOMAIN sold, \A e \in DOMAIN sold : sold[e] = sold[d]
        PROVE  Predict(sold, day) = Whole(sold[d])
    <3>1. sold[d] \in Nat
      BY <2>1 DEF IsHistory
    <3>2. DOMAIN sold # {}
      OBVIOUS
    <3> QED
      BY <2>1, <2>2, <3>1, <3>2, ConstantPredicted
  <2>3. Predict([d \in DOMAIN sold |-> 2 * sold[d]], day) = Times(Whole(2), Predict(sold, day))
    BY <2>1, DoublePredicted
  <2> QED
    BY <2>2, <2>3 DEF sold
<1> QED
  BY <1>1, DemandInvInit, DemandInvStep, PTL DEF Spec

---------------------------------------------------------------------------
(* What a line is computed from. *)
Need(p) == Times(DailyDemand(p), Whole(LeadTime(p) + CycleStockDays))
Have(p) == Plus(inputs[p].stock, inputs[p].transit)

LEMMA RoundedType ==
  ASSUME NEW x \in Ratios
  PROVE  Rounded(x) \in Int
<1> DEFINE n == 2 * x[1] + x[2]  d == 2 * x[2]
<1>1. n \in Int /\ d \in Int /\ d > 0
  BY RatioType DEF Positive
<1> HIDE DEF n, d
<1>2. n \div d \in Int
  BY <1>1
<1> QED
  BY <1>2 DEF n, d, Rounded

LEMMA DemandType ==
  ASSUME InputsOK, SoldOK, forecasts = Forecast(history), NEW p \in Products
  PROVE  DailyDemand(p) \in Ratios
<1>1. CASE p \in DOMAIN forecasts
  <2> DEFINE f == [day \in Horizons |-> forecasts[p][day]]
  <2>1. \A day \in Horizons : f[day] = Predict(history[p], day)
    BY <1>1 DEF Forecast
  <2>2. IsHistory(history[p])
    BY DEF InputsOK, SoldOK
  <2>3. \A day \in Horizons : f[day] \in Ratios
    BY <2>1, <2>2, PredictType
  <2>4. AsOf \in Nat /\ Horizon \in Nat \ {0}
    BY WindowAssumption
  <2>5. IsFiniteSet(Horizons) /\ AsOf \in Horizons
    BY <2>4, FS_Interval DEF Horizons
  <2>6. f = Restrict(f, Horizons)
    BY DEF Restrict
  <2> HIDE DEF f
  <2>7. Mean(Restrict(f, Horizons)) \in Ratios
    BY <2>3, <2>5, MeanType
  <2> QED
    BY <1>1, <2>6, <2>7 DEF DailyDemand, f
<1>2. CASE p \notin DOMAIN forecasts
  BY <1>2, ConstantRatios DEF DailyDemand, InputsOK
<1> QED
  BY <1>1, <1>2

LEMMA LeadTimeType ==
  ASSUME InputsOK, NEW p \in Products
  PROVE  LeadTime(p) \in Nat
<1> DEFINE row == inputs[p]
           score == IF row.supplier = NULL THEN NULL ELSE scores[row.supplier]
           given == row.lead # NULL /\ row.lead > 0
           scored == score # NULL /\ Rounded(score) > 0
<1>1. given => row.lead \in Int /\ row.lead > 0
  BY DEF InputsOK
<1>2. score # NULL => score \in Ratios
  BY DEF InputsOK
<1>3. score # NULL => Rounded(score) \in Int
  BY <1>2, RoundedType
<1>4. LeadTime(p) = IF given THEN row.lead
                    ELSE IF scored THEN Rounded(score) ELSE LeadTimeDefault
  BY DEF LeadTime
<1> HIDE DEF row, score
<1> QED
  BY <1>1, <1>3, <1>4 DEF LeadTimeDefault

(* A line asks for exactly what is short, or nothing is, or nothing is sold. *)
LEMMA ComputedFits ==
  ASSUME InputsOK, SoldOK, forecasts = Forecast(history), NEW p \in Products
  PROVE  LET x == Compute(p).reorder
         IN  /\ x \in Ratios /\ Leq(Zero, x)
             /\ Need(p) \in Ratios /\ Have(p) \in Ratios
             /\ x = Zero => Leq(Need(p), Have(p)) \/ Leq(DailyDemand(p), Zero)
             /\ Less(Zero, x) => Plus(Have(p), x) = Need(p)
<1> DEFINE demand == DailyDemand(p)
           days == LeadTime(p) + CycleStockDays
           x == Compute(p).reorder
           gap == Minus(Need(p), Have(p))
<1>1. demand \in Ratios
  BY DemandType
<1>2. days \in Nat
  BY LeadTimeType DEF CycleStockDays
<1>3. inputs[p].stock \in Ratios /\ inputs[p].transit \in Ratios
  BY DEF InputsOK
<1>4. x = IF Leq(demand, Zero) THEN Zero ELSE Greatest(Zero, gap)
  BY DEF Compute, Need, Have
<1>5. Need(p) = Times(demand, Whole(days))
  BY DEF Need
<1> HIDE DEF demand, days, x
<1>6. Need(p) \in Ratios
  BY <1>1, <1>2, <1>5, WholeRatio, OperationsClosed
<1>7. Have(p) \in Ratios
  BY <1>3, OperationsClosed DEF Have
<1>8. gap \in Ratios /\ Zero \in Ratios /\ Leq(Zero, Zero)
  BY <1>6, <1>7, OperationsClosed, ConstantRatios, OrderRatio
<1>9. Plus(Have(p), gap) = Need(p)
  BY <1>6, <1>7, <1>8, MinusLaws, PlusLaws
<1>10. Leq(gap, Zero) => Leq(Need(p), Have(p))
  <2>1. Leq(gap, Zero) <=> Leq(Need(p), Plus(Have(p), Zero))
    BY <1>6, <1>7, <1>8, MinusLaws
  <2>2. Plus(Have(p), Zero) = Have(p)
    BY <1>7, PlusLaws
  <2> QED
    BY <2>1, <2>2
<1> HIDE DEF gap
<1>11. CASE Leq(demand, Zero)
  BY <1>4, <1>6, <1>7, <1>8, <1>11 DEF Less, x, demand
<1>12. CASE ~Leq(demand, Zero) /\ Leq(Zero, gap)
  <2>1. x = gap
    BY <1>4, <1>12 DEF Greatest
  <2>2. gap = Zero => Leq(gap, Zero)
    BY <1>8
  <2> QED
    BY <1>6, <1>7, <1>8, <1>9, <1>10, <1>12, <2>1, <2>2 DEF x
<1>13. CASE ~Leq(demand, Zero) /\ ~Leq(Zero, gap)
  <2>1. x = Zero
    BY <1>4, <1>13 DEF Greatest
  <2>2. Leq(gap, Zero)
    BY <1>8, <1>13, OrderRatio
  <2> QED
    BY <1>6, <1>7, <1>8, <1>10, <2>1, <2>2 DEF Less, x
<1> QED
  BY <1>11, <1>12, <1>13

---------------------------------------------------------------------------
(* The orders of a run against its lines. *)
RunOK ==
  /\ InputsOK /\ SoldOK /\ forecasts = Forecast(history)
  /\ lines = [p \in Products |-> StoredLine(p)]
  /\ plans = [s \in {t \in Suppliers : Wanted(t) # {} /\ Leq(Zero, WantedTotal(t))} |->
                PlanOf(s)]
  /\ masters \in Masters
  /\ orders = [s \in {t \in DOMAIN plans : PlanLines(t) # {}} |->
                 Build(masters, s, LinesOf(s))]
Asked == [p \in Products |-> Compute(p).reorder]
KeptOf == [p \in Products |-> Stored(Compute(p).reorder, Scale)]

LEMMA AskedAndKept ==
  ASSUME RunOK
  PROVE  \A p \in Products :
           /\ Asked[p] = Compute(p).reorder /\ Asked[p] \in Ratios /\ Leq(Zero, Asked[p])
           /\ KeptOf[p] \in Ratios /\ Leq(Zero, KeptOf[p])
           /\ Leq(Asked[p], Plus(KeptOf[p], HalfUnit)) /\ Leq(KeptOf[p], Plus(Asked[p], HalfUnit))
           /\ Asked[p] = Zero \/ Less(Zero, Asked[p])
           /\ KeptOf[p] = Zero \/ (Less(Zero, KeptOf[p]) /\ Less(Zero, Asked[p]))
<1> SUFFICES ASSUME NEW p \in Products
             PROVE  /\ Asked[p] = Compute(p).reorder /\ Asked[p] \in Ratios /\ Leq(Zero, Asked[p])
                    /\ KeptOf[p] \in Ratios /\ Leq(Zero, KeptOf[p])
                    /\ Leq(Asked[p], Plus(KeptOf[p], HalfUnit))
                    /\ Leq(KeptOf[p], Plus(Asked[p], HalfUnit))
                    /\ Asked[p] = Zero \/ Less(Zero, Asked[p])
                    /\ KeptOf[p] = Zero \/ (Less(Zero, KeptOf[p]) /\ Less(Zero, Asked[p]))
  OBVIOUS
<1> DEFINE x == Compute(p).reorder
<1>1. x \in Ratios /\ Leq(Zero, x)
  BY ComputedFits DEF RunOK
<1>2. Asked[p] = x /\ KeptOf[p] = Stored(x, Scale)
  BY DEF Asked, KeptOf
<1> HIDE DEF x
<1>3. /\ Stored(x, Scale) \in Ratios /\ Leq(Zero, Stored(x, Scale))
      /\ Leq(x, Plus(Stored(x, Scale), HalfUnit))
      /\ Leq(Stored(x, Scale), Plus(x, HalfUnit))
      /\ x = Zero => Stored(x, Scale) = Zero
  BY <1>1, StoredNear
<1>4. \A y \in Ratios : Leq(Zero, y) => (y = Zero \/ Less(Zero, y))
  BY ConstantRatios, OrderRatio DEF Less
<1> QED
  BY <1>1, <1>2, <1>3, <1>4 DEF x

LEMMA WantedSums ==
  ASSUME RunOK, NEW s
  PROVE  /\ Wanted(s) = {p \in Products : inputs[p].supplier = s /\ Less(Zero, Asked[p])}
         /\ PlanLines(s) = {p \in Products : inputs[p].supplier = s /\ Less(Zero, KeptOf[p])}
         /\ PlanLines(s) \subseteq Wanted(s) /\ IsFiniteSet(Wanted(s)) /\ Wanted(s) \subseteq Products
         /\ \A p \in Wanted(s) \ PlanLines(s) : KeptOf[p] = Zero
         /\ WantedTotal(s) = Total(Restrict(Asked, Wanted(s)))
         /\ LinesOf(s) = Restrict(KeptOf, PlanLines(s))
         /\ WantedTotal(s) \in Ratios /\ Leq(Zero, WantedTotal(s))
<1>1. \A p \in Products : Compute(p).supplier = inputs[p].supplier /\ Asked[p] = Compute(p).reorder
  BY DEF Compute, Asked
<1>2. Wanted(s) = {p \in Products : inputs[p].supplier = s /\ Less(Zero, Asked[p])}
  BY <1>1 DEF Wanted
<1>3. \A p \in Products : lines[p].supplier = inputs[p].supplier /\ lines[p].reorder = KeptOf[p]
  BY <1>1 DEF RunOK, StoredLine, KeptOf
<1>4. PlanLines(s) = {p \in Products : inputs[p].supplier = s /\ Less(Zero, KeptOf[p])}
  BY <1>3 DEF PlanLines
<1>5. \A p \in Products : KeptOf[p] = Zero \/ (Less(Zero, KeptOf[p]) /\ Less(Zero, Asked[p]))
  BY AskedAndKept
<1>6. ~Less(Zero, Zero)
  BY ConstantRatios, OrderRatio DEF Less
<1>7. PlanLines(s) \subseteq Wanted(s) /\ \A p \in Wanted(s) \ PlanLines(s) : KeptOf[p] = Zero
  BY <1>2, <1>4, <1>5, <1>6
<1>8. IsFiniteSet(Wanted(s)) /\ Wanted(s) \subseteq Products
  BY <1>2, FS_Subset, WindowAssumption
<1>9. [p \in Wanted(s) |-> Compute(p).reorder] = Restrict(Asked, Wanted(s))
  BY <1>1, <1>8 DEF Restrict
<1>10. WantedTotal(s) = Total(Restrict(Asked, Wanted(s)))
  BY <1>9 DEF WantedTotal
<1>11. LinesOf(s) = Restrict(KeptOf, PlanLines(s))
  BY <1>3, <1>4 DEF LinesOf, Restrict
<1>12. \A p \in Wanted(s) : Asked[p] \in Ratios /\ Leq(Zero, Asked[p])
  BY <1>8, AskedAndKept
<1>13. WantedTotal(s) \in Ratios /\ Leq(Zero, WantedTotal(s))
  BY <1>8, <1>10, <1>12, TotalType, TotalNonNegative
<1> QED
  BY <1>2, <1>4, <1>7, <1>8, <1>10, <1>11, <1>13

LEMMA OrderedIsKept ==
  ASSUME RunOK, NEW p \in Products, inputs[p].supplier # NULL
  PROVE  Ordered(p) = KeptOf[p]
<1> DEFINE s == inputs[p].supplier
<1>1. s \in Suppliers
  BY DEF RunOK, InputsOK
<1>2. \A t \in DOMAIN orders : orders[t].qty = LinesOf(t)
  BY BuiltQuantities DEF RunOK
<1>3. LinesOf(s) = Restrict(KeptOf, PlanLines(s))
      /\ PlanLines(s) = {q \in Products : inputs[q].supplier = s /\ Less(Zero, KeptOf[q])}
  BY WantedSums
<1>4. CASE Less(Zero, KeptOf[p])
  <2>1. p \in PlanLines(s)
    BY <1>3, <1>4
  <2>2. Wanted(s) # {} /\ Leq(Zero, WantedTotal(s))
    BY <2>1, WantedSums
  <2>3. s \in DOMAIN orders
    BY <1>1, <2>1, <2>2 DEF RunOK
  <2>4. orders[s].qty = Restrict(KeptOf, PlanLines(s))
    BY <1>2, <1>3, <2>3
  <2>5. p \in DOMAIN orders[s].qty /\ orders[s].qty[p] = KeptOf[p]
    BY <2>1, <2>4 DEF Restrict
  <2> QED
    BY <2>3, <2>5 DEF Ordered
<1>5. CASE ~Less(Zero, KeptOf[p])
  <2>1. p \notin PlanLines(s)
    BY <1>3, <1>5
  <2>2. KeptOf[p] = Zero
    BY <1>5, AskedAndKept
  <2>3. s \in DOMAIN orders => p \notin DOMAIN orders[s].qty
    BY <1>2, <1>3, <2>1 DEF Restrict
  <2> QED
    BY <2>2, <2>3 DEF Ordered
<1> QED
  BY <1>4, <1>5

LEMMA NeedIsCovered == RunOK => NeedCovered
<1> SUFFICES ASSUME RunOK, NEW p \in Products, inputs[p].supplier # NULL
             PROVE  \/ Near(Plus(Have(p), Ordered(p)), Need(p), 1)
                    \/ /\ Ordered(p) = Zero
                       /\ Leq(Need(p), Have(p)) \/ Leq(DailyDemand(p), Zero)
  BY DEF NeedCovered, Need, Have
<1> DEFINE x == Asked[p]  k == KeptOf[p]  have == Have(p)  need == Need(p)
           none == Leq(DailyDemand(p), Zero)  h == HalfUnit
<1>1. Ordered(p) = k
  BY OrderedIsKept
<1>2. /\ x \in Ratios /\ k \in Ratios /\ Leq(x, Plus(k, h)) /\ Leq(k, Plus(x, h))
      /\ x = Zero \/ Less(Zero, x)
      /\ k = Zero \/ (Less(Zero, k) /\ Less(Zero, x))
  BY AskedAndKept
<1>3. /\ need \in Ratios /\ have \in Ratios
      /\ x = Zero => Leq(need, have) \/ none
      /\ Less(Zero, x) => Plus(have, x) = need
  BY ComputedFits DEF RunOK, Asked
<1> HIDE DEF x, k, have, need, none
<1>4. CASE x = Zero
  <2>1. ~Less(Zero, Zero)
    BY ConstantRatios, OrderRatio DEF Less
  <2> QED
    BY <1>1, <1>2, <1>3, <1>4, <2>1 DEF have, need, none
<1>5. CASE Less(Zero, x)
  <2>1. h \in Ratios /\ Slack(1) = h
    BY HalfUnitType, SlackLaws
  <2> HIDE DEF h
  <2>2. Plus(have, x) = need
    BY <1>3, <1>5
  <2>3. Plus(have, k) \in Ratios /\ Plus(k, h) \in Ratios /\ Plus(x, h) \in Ratios
    BY <1>2, <1>3, <2>1, OperationsClosed
  <2>4. Leq(have, have)
    BY <1>3, OrderRatio
  <2>5. Leq(Plus(have, k), Plus(have, Plus(x, h)))
        /\ Leq(Plus(have, x), Plus(have, Plus(k, h)))
    BY <1>2, <1>3, <2>3, <2>4, PlusMonotone
  <2>6. Plus(have, Plus(x, h)) = Plus(need, h)
        /\ Plus(have, Plus(k, h)) = Plus(Plus(have, k), h)
    BY <1>2, <1>3, <2>1, <2>2, PlusLaws
  <2>7. Leq(Plus(have, k), Plus(need, Slack(1)))
        /\ Leq(need, Plus(Plus(have, k), Slack(1)))
    BY <2>1, <2>2, <2>5, <2>6
  <2>8. Near(Plus(have, k), need, 1)
    BY <1>3, <2>3, <2>7, NearIff
  <2> QED
    BY <1>1, <2>8 DEF have, need
<1> QED
  BY <1>2, <1>4, <1>5

LEMMA PricesOfMasters ==
  ASSUME RunOK, NEW p \in Products, NEW s \in Suppliers
  PROVE  /\ PickPrice(masters, p, s) = NULL
              <=> masters.product[p] = NULL /\ masters.supplier[s] = NULL
         /\ PickPrice(masters, p, s) # NULL => PickPrice(masters, p, s) \in Ratios
<1>1. /\ masters.product[p] = NULL \/ masters.product[p] \in Ratios
      /\ masters.supplier[s] = NULL \/ masters.supplier[s] \in Ratios
  BY InputAssumption, FractionIsRatio DEF RunOK
<1> QED
  BY <1>1 DEF PickPrice

LEMMA AmountOfOrder ==
  ASSUME RunOK, NEW s \in Suppliers, PlanLines(s) # {}
  PROVE  Build(masters, s, LinesOf(s)).amount = NULL
           <=> \E p \in PlanLines(s) : masters.product[p] = NULL /\ masters.supplier[s] = NULL
<1> DEFINE L == PlanLines(s)
           qty == LinesOf(s)
           costs == [p \in L |-> Times(qty[p], PickPrice(masters, p, s))]
           priced == \A p \in L : PickPrice(masters, p, s) # NULL
<1>1. /\ L \subseteq Products /\ IsFiniteSet(L) /\ DOMAIN qty = L
      /\ \A p \in L : qty[p] \in Ratios /\ Less(Zero, qty[p])
  <2>1. /\ qty = Restrict(KeptOf, L)
        /\ L = {p \in Products : inputs[p].supplier = s /\ Less(Zero, KeptOf[p])}
        /\ L \subseteq Wanted(s) /\ IsFiniteSet(Wanted(s))
    BY WantedSums
  <2>2. IsFiniteSet(L)
    BY <2>1, FS_Subset
  <2>3. \A p \in L : qty[p] = KeptOf[p]
    BY <2>1 DEF Restrict
  <2>4. DOMAIN qty = L
    BY <2>1 DEF Restrict
  <2>5. \A p \in Products : KeptOf[p] \in Ratios
    BY AskedAndKept
  <2> HIDE DEF L, qty
  <2> QED
    BY <2>1, <2>2, <2>3, <2>4, <2>5
<1> HIDE DEF qty
<1>2. {p \in DOMAIN qty : Less(Zero, qty[p])} = L
  BY <1>1
<1>3. Build(masters, s, qty).amount = IF priced /\ L # {} THEN Total(costs) ELSE NULL
  BY <1>2 DEF Build
<1>4. priced => Total(costs) \in Ratios
  <2> SUFFICES ASSUME priced PROVE Total(costs) \in Ratios
    OBVIOUS
  <2>1. ASSUME NEW p \in L
        PROVE  costs[p] \in Ratios
    <3>1. PickPrice(masters, p, s) \in Ratios
      BY <1>1, PricesOfMasters
    <3> QED
      BY <1>1, <3>1, OperationsClosed
  <2>2. costs = Restrict(costs, L)
    BY DEF Restrict
  <2> HIDE DEF costs
  <2>3. Total(Restrict(costs, L)) \in Ratios
    BY <1>1, <2>1, TotalType
  <2> QED
    BY <2>2, <2>3
<1>5. NULL \notin Ratios
  BY WindowAssumption DEF Ratios, Positive
<1>6. priced <=> ~\E p \in L : masters.product[p] = NULL /\ masters.supplier[s] = NULL
  BY <1>1, PricesOfMasters
<1> HIDE DEF costs, priced
<1> QED
  BY <1>3, <1>4, <1>5, <1>6 DEF qty

LEMMA TotalOfOrder ==
  ASSUME RunOK, NEW s
  PROVE  Near(Total(LinesOf(s)), Stored(WantedTotal(s), Scale), Cardinality(Wanted(s)) + 1)
<1> DEFINE W == Wanted(s)
           L == PlanLines(s)
           n == Cardinality(W)
           asked == WantedTotal(s)
           kept == Total(LinesOf(s))
           st == Stored(asked, Scale)
           h == HalfUnit
<1>1. /\ L \subseteq W /\ IsFiniteSet(W) /\ W \subseteq Products
      /\ \A p \in W \ L : KeptOf[p] = Zero
      /\ asked = Total(Restrict(Asked, W)) /\ kept = Total(Restrict(KeptOf, L))
      /\ asked \in Ratios /\ Leq(Zero, asked)
  BY WantedSums
<1>2. \A p \in W : /\ Asked[p] \in Ratios /\ KeptOf[p] \in Ratios
                   /\ Leq(Asked[p], Plus(KeptOf[p], h)) /\ Leq(KeptOf[p], Plus(Asked[p], h))
  BY <1>1, AskedAndKept
<1> HIDE DEF W, L, asked, kept
<1>3. kept = Total(Restrict(KeptOf, W))
  BY <1>1, <1>2, TotalOfRest
<1>4. Leq(kept, Plus(asked, Slack(n))) /\ Leq(asked, Plus(kept, Slack(n)))
  BY <1>1, <1>2, <1>3, TotalWithin
<1>5. st \in Ratios /\ Leq(asked, Plus(st, h)) /\ Leq(st, Plus(asked, h))
  BY <1>1, StoredNear
<1>6. n \in Nat
  BY <1>1, FS_CardinalityType
<1> HIDE DEF st, n
<1>7. kept \in Ratios
  BY <1>1, <1>2, <1>3, TotalType
<1>8. h \in Ratios /\ Slack(n) \in Ratios /\ Slack(1) = h /\ Plus(Slack(1), Slack(n)) = Slack(1 + n)
  BY <1>6, HalfUnitType, SlackLaws
<1>9. Slack(n + 1) = Plus(h, Slack(n)) /\ Slack(n + 1) = Plus(Slack(n), h)
  <2>1. 1 + n = n + 1
    BY <1>6
  <2>2. Plus(h, Slack(n)) = Plus(Slack(n), h)
    BY <1>8, PlusLaws
  <2> QED
    BY <1>8, <2>1, <2>2
<1> HIDE DEF h
<1>10. /\ Plus(asked, Slack(n)) \in Ratios /\ Plus(kept, Slack(n)) \in Ratios
       /\ Plus(st, h) \in Ratios /\ Plus(asked, h) \in Ratios
       /\ Plus(Plus(st, h), Slack(n)) \in Ratios /\ Plus(Plus(kept, Slack(n)), h) \in Ratios
  BY <1>1, <1>5, <1>7, <1>8, OperationsClosed
<1>11. Leq(kept, Plus(st, Slack(n + 1)))
  <2>1. Leq(Plus(asked, Slack(n)), Plus(Plus(st, h), Slack(n)))
    BY <1>1, <1>5, <1>8, <1>10, PlusOrder
  <2>2. Leq(kept, Plus(Plus(st, h), Slack(n)))
    BY <1>4, <1>7, <1>10, <2>1, LeqTransitive
  <2>3. Plus(Plus(st, h), Slack(n)) = Plus(st, Plus(h, Slack(n)))
    BY <1>5, <1>8, PlusLaws
  <2> QED
    BY <1>9, <2>2, <2>3
<1>12. Leq(st, Plus(kept, Slack(n + 1)))
  <2>1. Leq(Plus(asked, h), Plus(Plus(kept, Slack(n)), h))
    BY <1>1, <1>4, <1>8, <1>10, PlusOrder
  <2>2. Leq(st, Plus(Plus(kept, Slack(n)), h))
    BY <1>5, <1>10, <2>1, LeqTransitive
  <2>3. Plus(Plus(kept, Slack(n)), h) = Plus(kept, Plus(Slack(n), h))
    BY <1>7, <1>8, PlusLaws
  <2> QED
    BY <1>9, <2>2, <2>3
<1>13. n + 1 \in Nat
  BY <1>6
<1> QED
  BY <1>5, <1>7, <1>11, <1>12, <1>13, NearIff DEF kept, st, asked, n, W

LEMMA OrdersFollowPlans == RunOK => OrderOfPlan
<1> SUFFICES ASSUME RunOK, NEW s \in DOMAIN orders
             PROVE  /\ Near(orders[s].total, plans[s].total, plans[s].count + 1)
                    /\ orders[s].amount = NULL <=>
                         \E p \in DOMAIN orders[s].qty :
                            masters.product[p] = NULL /\ masters.supplier[s] = NULL
  BY DEF OrderOfPlan
<1>1. s \in Suppliers /\ PlanLines(s) # {} /\ plans[s] = PlanOf(s)
      /\ orders[s] = Build(masters, s, LinesOf(s))
  BY DEF RunOK
<1>2. orders[s].qty = LinesOf(s) /\ DOMAIN LinesOf(s) = PlanLines(s)
  BY <1>1, BuiltQuantities DEF LinesOf
<1>3. orders[s].total = Total(LinesOf(s))
  <2>1. orders[s].total = Total(orders[s].qty)
    BY <1>1 DEF Build
  <2> QED
    BY <1>2, <2>1
<1>4. Near(orders[s].total, plans[s].total, plans[s].count + 1)
  BY <1>1, <1>3, TotalOfOrder DEF PlanOf
<1> QED
  BY <1>1, <1>2, <1>4, AmountOfOrder

(* The orders of a run, built or rebuilt, cover what the demand of the lead time and
   of a week is short of, add up to their plans but for the rounding of the columns,
   and have an amount exactly when every line has a price (Compute, BuildPlans,
   buildOne, rebuildFromExisting and Build of the order builder). *)
THEOREM OrdersAlwaysMeetDemand == Spec => []OrdersMeetDemand
<1>1. DemandInv => OrdersMeetDemand
  <2> SUFFICES ASSUME DemandInv, phase \in {"ordered", "regenerated"}
               PROVE  NeedCovered /\ OrderOfPlan
    BY DEF OrdersMeetDemand
  <2>1. RunOK
    BY DEF DemandInv, RunOK
  <2> QED
    BY <2>1, NeedIsCovered, OrdersFollowPlans
<1> QED
  BY <1>1, DemandInvInit, DemandInvStep, PTL DEF Spec
====
