--------------------------- MODULE FractionProofs ---------------------------
(***************************************************************************)
(* Lemmas about numbers and fractions that the components' proofs share.   *)
(* Greatest common divisors are recursive, and so are the folds and sums    *)
(* of other modules: their proofs go by the least number of a set.         *)
(***************************************************************************)
EXTENDS Fractions, TLAPS, WellFoundedInduction

-----------------------------------------------------------------------------
(* Numbers *)

LEMMA LeastNumber ==
  ASSUME NEW T \in SUBSET Nat, T # {}
  PROVE  \E x \in T : \A y \in T : x <= y
<1>1. PICK x \in T : \A y \in T : ~(<<y, x>> \in OpToRel(<, Nat))
  BY NatLessThanWellFounded, WFMin
<1>2. ASSUME NEW y \in T PROVE x <= y
  <2>1. ~(<<y, x>> \in OpToRel(<, Nat))
    BY <1>1
  <2>2. ~(y < x)
    BY <2>1 DEF OpToRel
  <2> QED BY <2>2
<1> QED BY <1>2

\* Induction over the numbers from a to b
LEMMA IntervalInduction ==
  ASSUME NEW a \in Int, NEW b \in Int, NEW S, a \in S,
         \A n \in a .. b - 1 : n \in S => n + 1 \in S
  PROVE  a .. b \subseteq S
<1> DEFINE T == {k \in Nat : a + k <= b /\ a + k \notin S}
<1>1. T = {}
  <2> SUFFICES ASSUME T # {} PROVE FALSE
    OBVIOUS
  <2>1. PICK k \in T : \A y \in T : k <= y
    BY LeastNumber
  <2>2. k \in Nat /\ a + k <= b /\ a + k \notin S
    BY <2>1
  <2>3. k # 0
    BY <2>2
  <2>4. k - 1 \in Nat /\ k - 1 \notin T
    BY <2>1, <2>2, <2>3
  <2>5. a + (k - 1) \in S /\ a + (k - 1) \in a .. b - 1
    BY <2>2, <2>4
  <2>6. (a + (k - 1)) + 1 \in S
    BY <2>5
  <2> QED BY <2>2, <2>6
<1>2. ASSUME NEW n \in a .. b PROVE n \in S
  <2>1. n - a \in Nat /\ a + (n - a) = n
    OBVIOUS
  <2>2. n - a \notin T
    BY <1>1
  <2> QED BY <2>1, <2>2
<1> QED BY <1>2

-----------------------------------------------------------------------------
(* Fractions *)

Divides(d, a) == \E k \in Nat : a = d * k

CommonDivisors(a, b) == {d \in Nat \ {0} : Divides(d, a) /\ Divides(d, b)}

\* A quotient and its remainder
LEMMA Quotient ==
  ASSUME NEW a \in Nat, NEW b \in Nat, b # 0
  PROVE  /\ a \div b \in Nat /\ a % b \in Nat /\ a % b < b
         /\ a = b * (a \div b) + (a % b)
<1>1. b > 0
  OBVIOUS
<1>2. a = b * (a \div b) + (a % b)
  BY <1>1
<1>3. a % b \in 0 .. b - 1
  BY <1>1
<1>4. a \div b \in Int
  BY <1>1
<1>5. a \div b >= 0
  BY <1>1, <1>2, <1>3, <1>4
<1> QED BY <1>2, <1>3, <1>4, <1>5

\* A divisor of b divides a exactly if it divides the remainder of a by b.
LEMMA DividesRemainder ==
  ASSUME NEW b \in Nat, NEW q \in Nat, NEW r \in Nat, NEW d \in Nat, d # 0, Divides(d, b)
  PROVE  Divides(d, b * q + r) <=> Divides(d, r)
<1>1. PICK m \in Nat : b = d * m
  BY DEF Divides
<1>2. b * q = d * (m * q) /\ m * q \in Nat
  BY <1>1
<1>3. ASSUME NEW k \in Nat, r = d * k
      PROVE  Divides(d, b * q + r)
  <2>1. b * q + r = d * (m * q + k) /\ m * q + k \in Nat
    BY <1>2, <1>3
  <2> QED BY <2>1 DEF Divides
<1>4. ASSUME NEW k \in Nat, b * q + r = d * k
      PROVE  Divides(d, r)
  <2> DEFINE z == m * q
  <2>1. z \in Nat /\ b * q = d * z
    BY <1>2
  <2> HIDE DEF z
  <2>2. d * z + r = d * k
    BY <1>4, <2>1
  <2>3. r = d * (k - z) /\ k - z \in Int
    BY <2>1, <2>2
  <2>4. k - z >= 0
    <3> SUFFICES ASSUME k - z < 0 PROVE FALSE
      BY <2>3
    <3>1. d * (k - z) < 0
      BY <2>3
    <3> QED BY <2>3, <3>1
  <2>5. PICK i \in Nat : i = k - z
    BY <2>3, <2>4
  <2>6. r = d * i
    BY <2>3, <2>5
  <2> QED BY <2>6 DEF Divides
<1> QED BY <1>3, <1>4 DEF Divides

\* What the recursion of Gcd defines
IsGcd(g) == g = [p \in Nat \X Nat |-> IF p[2] = 0 THEN p[1] ELSE g[<<p[2], p[1] % p[2]>>]]

\* The greatest common divisor is a function that satisfies it.
LEMMA GcdExists == \E g : IsGcd(g)
<1> DEFINE Greatest(S) == CHOOSE d \in S : \A e \in S : e <= d
           g == [p \in Nat \X Nat |->
                  IF p[2] = 0 THEN p[1] ELSE Greatest(CommonDivisors(p[1], p[2]))]
<1>1. ASSUME NEW a \in Nat, NEW b \in Nat, b # 0
      PROVE  g[<<a, b>>] = g[<<b, a % b>>]
  <2>1. PICK q \in Nat, r \in Nat : a \div b = q /\ a % b = r /\ r < b /\ a = b * q + r
    BY <1>1, Quotient
  <2>2. CommonDivisors(a, b) = CommonDivisors(b, r)
    <3>1. ASSUME NEW d \in Nat \ {0}, Divides(d, b)
          PROVE  Divides(d, a) <=> Divides(d, r)
      <4>1. Divides(d, b * q + r) <=> Divides(d, r)
        BY <3>1, DividesRemainder
      <4> QED BY <2>1, <4>1
    <3> QED BY <3>1 DEF CommonDivisors
  <2>3. <<a, b>> \in Nat \X Nat /\ <<b, r>> \in Nat \X Nat
    OBVIOUS
  <2>4. g[<<a, b>>] = Greatest(CommonDivisors(a, b))
    BY <1>1, <2>3
  <2>5. CASE r # 0
    <3>1. g[<<b, r>>] = Greatest(CommonDivisors(b, r))
      BY <2>3, <2>5
    <3> HIDE DEF g, Greatest
    <3> QED BY <2>1, <2>2, <2>4, <3>1
  <2>6. CASE r = 0
    <3>1. g[<<b, r>>] = b
      BY <2>3, <2>6
    <3>2. b \in CommonDivisors(a, b)
      <4>1. b = b * 1 /\ a = b * q
        BY <2>1, <2>6
      <4> QED BY <1>1, <4>1 DEF CommonDivisors, Divides
    <3>3. ASSUME NEW e \in CommonDivisors(a, b)
          PROVE  e <= b
      <4>1. e \in Nat /\ e # 0 /\ \E k \in Nat : b = e * k
        BY DEF CommonDivisors, Divides
      <4>2. PICK k \in Nat : b = e * k
        BY <4>1
      <4>3. k >= 1
        BY <1>1, <4>1, <4>2
      <4> QED BY <4>1, <4>2, <4>3
    <3>4. CommonDivisors(a, b) \subseteq Nat
      BY DEF CommonDivisors
    <3>5. Greatest(CommonDivisors(a, b)) = b
      <4> DEFINE D == CommonDivisors(a, b)
      <4>1. b \in D /\ (\A e \in D : e <= b) /\ D \subseteq Nat
        BY <3>2, <3>3, <3>4
      <4> HIDE DEF D
      <4>2. \E d \in D : \A e \in D : e <= d
        BY <4>1
      <4>3. Greatest(D) \in D /\ \A e \in D : e <= Greatest(D)
        BY <4>2
      <4> HIDE DEF Greatest
      <4>4. Greatest(D) \in Nat /\ b \in Nat /\ b <= Greatest(D) /\ Greatest(D) <= b
        BY <4>1, <4>3
      <4>5. Greatest(D) = b
        BY <4>4
      <4> QED BY <4>5 DEF D
    <3> HIDE DEF g, Greatest
    <3> QED BY <2>1, <2>4, <3>1, <3>5
  <2> QED BY <2>5, <2>6
<1>2. ASSUME NEW p \in Nat \X Nat
      PROVE  g[p] = IF p[2] = 0 THEN p[1] ELSE g[<<p[2], p[1] % p[2]>>]
  <2>1. PICK a \in Nat, b \in Nat : p = <<a, b>>
    OBVIOUS
  <2>2. CASE b = 0
    BY <2>1, <2>2
  <2>3. CASE b # 0
    <3>1. g[<<a, b>>] = g[<<b, a % b>>]
      BY <1>1, <2>3
    <3> HIDE DEF g
    <3> QED BY <2>1, <2>3, <3>1
  <2> QED BY <2>2, <2>3
<1>3. g = [p \in Nat \X Nat |-> g[p]]
  OBVIOUS
<1>4. IsGcd(g)
  <2> HIDE DEF g
  <2> QED BY <1>2, <1>3 DEF IsGcd
<1> QED BY <1>4

\* The recursion, one step of it
LEMMA GcdStep ==
  ASSUME NEW a \in Nat, NEW b \in Nat
  PROVE  Gcd[<<a, b>>] = IF b = 0 THEN a ELSE Gcd[<<b, a % b>>]
<1>1. Gcd = CHOOSE g : IsGcd(g)
  BY DEF Gcd, IsGcd
<1>2. IsGcd(Gcd)
  BY <1>1, GcdExists
<1>3. <<a, b>> \in Nat \X Nat /\ <<a, b>>[1] = a /\ <<a, b>>[2] = b
  OBVIOUS
<1>4. Gcd[<<a, b>>] = IF <<a, b>>[2] = 0 THEN <<a, b>>[1]
                      ELSE Gcd[<<<<a, b>>[2], <<a, b>>[1] % <<a, b>>[2]>>]
  BY <1>2, <1>3 DEF IsGcd
<1> QED BY <1>3, <1>4

\* What Gcd gives divides both numbers, and is positive where they are not both zero.
LEMMA GcdDivides ==
  ASSUME NEW a \in Nat, NEW b \in Nat, a > 0 \/ b > 0
  PROVE  Gcd[<<a, b>>] \in Nat \ {0} /\ Divides(Gcd[<<a, b>>], a) /\ Divides(Gcd[<<a, b>>], b)
<1> DEFINE Good(x, y) == (x > 0 \/ y > 0) =>
             /\ Gcd[<<x, y>>] \in Nat \ {0}
             /\ Divides(Gcd[<<x, y>>], x) /\ Divides(Gcd[<<x, y>>], y)
           T == {y \in Nat : \E x \in Nat : ~Good(x, y)}
<1>1. T = {}
  <2> SUFFICES ASSUME T # {} PROVE FALSE
    OBVIOUS
  <2> HIDE DEF Good
  <2>1. PICK y \in T : \A z \in T : y <= z
    BY LeastNumber
  <2>2. PICK x \in Nat : ~Good(x, y)
    BY <2>1
  <2> USE DEF Good
  <2>3. CASE y = 0
    <3>1. Gcd[<<x, 0>>] = x
      BY GcdStep
    <3>2. x = x * 1 /\ 0 = x * 0
      OBVIOUS
    <3> QED BY <2>2, <2>3, <3>1, <3>2 DEF Divides
  <2>4. CASE y # 0
    <3>1. PICK q \in Nat, r \in Nat : x \div y = q /\ x % y = r /\ r < y /\ x = y * q + r
      BY <2>4, Quotient
    <3>2. Gcd[<<x, y>>] = Gcd[<<y, r>>]
      BY <2>4, <3>1, GcdStep
    <3>3. Good(y, r)
      <4> HIDE DEF Good
      <4>1. r \notin T
        BY <2>1, <3>1
      <4> QED BY <3>1, <4>1
    <3> DEFINE d == Gcd[<<y, r>>]
    <3>4. d \in Nat \ {0} /\ Divides(d, y) /\ Divides(d, r)
      BY <2>4, <3>3
    <3> HIDE DEF d
    <3>5. Divides(d, x)
      <4>1. d \in Nat /\ d # 0
        BY <3>4
      <4>2. Divides(d, y * q + r) <=> Divides(d, r)
        BY <3>4, <4>1, DividesRemainder
      <4> QED BY <3>1, <3>4, <4>2
    <3>6. Gcd[<<x, y>>] = d
      BY <3>2 DEF d
    <3> QED BY <2>2, <3>4, <3>5, <3>6
  <2> QED BY <2>3, <2>4
<1> QED BY <1>1

\* A fraction in lowest terms is the one it was made from.
LEMMA FracIs ==
  ASSUME NEW n \in Int, NEW d \in Nat \ {0}
  PROVE  IsFrac(Frac(n, d)) /\ Frac(n, d)[1] * d = n * Frac(n, d)[2]
<1> DEFINE g == Gcd[<<IntAbs(n), IntAbs(d)>>]
<1>1. IntAbs(d) = d /\ IntAbs(n) \in Nat /\ (n = IntAbs(n) \/ n = -IntAbs(n))
  BY DEF IntAbs
<1>2. g \in Nat \ {0} /\ (\E k \in Nat : IntAbs(n) = g * k) /\ (\E m \in Nat : d = g * m)
  <2>1. ASSUME NEW a \in Nat, a = IntAbs(n)
        PROVE  Gcd[<<a, d>>] \in Nat \ {0} /\ Divides(Gcd[<<a, d>>], a) /\ Divides(Gcd[<<a, d>>], d)
    BY GcdDivides
  <2> QED BY <1>1, <2>1 DEF Divides
<1>3. Frac(n, d) = <<1 * (n \div g), 1 * (d \div g)>>
  BY DEF Frac
<1> HIDE DEF g
<1>4. PICK k \in Nat : IntAbs(n) = g * k
  BY <1>2
<1>5. PICK m \in Nat : d = g * m
  BY <1>2
<1>6. \A x \in Int : (g * x) \div g = x
  BY <1>2
<1>7. PICK j \in Int : n = g * j
  <2>1. n = g * k \/ n = g * (-k)
    BY <1>1, <1>2, <1>4
  <2> QED BY <2>1
<1>8. n \div g = j /\ d \div g = m /\ m > 0
  BY <1>2, <1>5, <1>6, <1>7
<1>9. Frac(n, d) = <<j, m>>
  BY <1>3, <1>8
<1>10. j * (g * m) = (g * j) * m
  BY <1>2
<1> QED BY <1>5, <1>7, <1>8, <1>9, <1>10 DEF IsFrac

\* A fraction is below another one exactly if what it was made from is.
LEMMA FracBelow ==
  ASSUME NEW n \in Int, NEW d \in Nat \ {0}, NEW b, IsFrac(b)
  PROVE  Frac(n, d) \prec b <=> <<n, d>> \prec b
<1>1. PICK j \in Int, m \in Nat \ {0} : Frac(n, d) = <<j, m>> /\ j * d = n * m
  <2>1. IsFrac(Frac(n, d)) /\ Frac(n, d)[1] * d = n * Frac(n, d)[2]
    BY FracIs
  <2>2. PICK f : f = Frac(n, d)
    OBVIOUS
  <2>3. f \in Int \X (Nat \ {0}) /\ f[1] * d = n * f[2]
    BY <2>1, <2>2 DEF IsFrac
  <2>4. f = <<f[1], f[2]>> /\ f[1] \in Int /\ f[2] \in Nat \ {0}
    BY <2>3
  <2> QED BY <2>2, <2>3, <2>4
<1>2. PICK p \in Int, q \in Nat \ {0} : b = <<p, q>>
  BY DEF IsFrac
<1>3. j * q < p * m <=> n * q < p * d
  <2>1. (j * q) * d = (n * q) * m
    <3>1. (j * q) * d = (j * d) * q /\ (n * q) * m = (n * m) * q
      OBVIOUS
    <3> QED BY <1>1, <3>1
  <2>2. (p * m) * d = (p * d) * m
    OBVIOUS
  <2>3. \A x, y \in Int, z \in Nat \ {0} : x < y <=> x * z < y * z
    OBVIOUS
  <2>4. j * q \in Int /\ p * m \in Int /\ n * q \in Int /\ p * d \in Int
    OBVIOUS
  <2>5. j * q < p * m <=> (j * q) * d < (p * m) * d
    BY <2>3, <2>4
  <2>6. n * q < p * d <=> (n * q) * m < (p * d) * m
    BY <2>3, <2>4
  <2> QED BY <2>1, <2>2, <2>5, <2>6
<1> QED BY <1>1, <1>2, <1>3 DEF \prec

\* A quotient and a remainder are the only ones.
LEMMA Remainder ==
  ASSUME NEW a \in Nat, NEW b \in Nat, b # 0, NEW q \in Nat, NEW r \in Nat, r < b, a = b * q + r
  PROVE  a \div b = q /\ a % b = r
<1>1. PICK p \in Nat, s \in Nat : a \div b = p /\ a % b = s /\ s < b /\ a = b * p + s
  BY Quotient
<1>2. b * p - b * q = r - s
  BY <1>1
<1>3. b * (p - q) = r - s /\ p - q \in Int
  BY <1>2
<1>4. p = q
  <2>1. CASE p - q >= 1
    <3>1. b * (p - q) >= b
      BY <2>1
    <3> QED BY <1>1, <1>3, <3>1
  <2>2. CASE p - q <= -1
    <3>1. b * (p - q) <= -b
      BY <2>2
    <3> QED BY <1>1, <1>3, <3>1
  <2>3. p - q >= 1 \/ p - q <= -1 \/ p - q = 0
    BY <1>3
  <2> QED BY <2>1, <2>2, <2>3
<1> QED BY <1>1, <1>2, <1>4

\* A factor of both numbers is one of their greatest common divisor.
LEMMA GcdTimes ==
  ASSUME NEW c \in Nat \ {0}, NEW a \in Nat, NEW b \in Nat
  PROVE  Gcd[<<c * a, c * b>>] = c * Gcd[<<a, b>>]
<1> DEFINE Good(x, y) == Gcd[<<c * x, c * y>>] = c * Gcd[<<x, y>>]
           T == {y \in Nat : \E x \in Nat : ~Good(x, y)}
<1>1. T = {}
  <2> SUFFICES ASSUME T # {} PROVE FALSE
    OBVIOUS
  <2> HIDE DEF Good
  <2>1. PICK y \in T : \A z \in T : y <= z
    BY LeastNumber
  <2>2. PICK x \in Nat : ~Good(x, y)
    BY <2>1
  <2>3. CASE y = 0
    <3>1. Gcd[<<x, 0>>] = x
      BY GcdStep
    <3>2. Gcd[<<c * x, 0>>] = c * x
      <4>1. PICK z \in Nat : z = c * x
        OBVIOUS
      <4> QED BY <4>1, GcdStep
    <3>3. c * 0 = 0
      OBVIOUS
    <3> QED BY <2>2, <2>3, <3>1, <3>2, <3>3 DEF Good
  <2>4. CASE y # 0
    <3>1. PICK q \in Nat, r \in Nat : x \div y = q /\ x % y = r /\ r < y /\ x = y * q + r
      BY <2>4, Quotient
    <3>2. Gcd[<<x, y>>] = Gcd[<<y, r>>]
      BY <2>4, <3>1, GcdStep
    <3>3. (c * x) % (c * y) = c * r
      <4>1. PICK u \in Nat, v \in Nat, w \in Nat : u = c * x /\ v = c * y /\ w = c * r
        BY <3>1
      <4>2. v # 0 /\ w < v
        BY <2>4, <3>1, <4>1
      <4>3. u = v * q + w
        <5>1. c * (y * q + r) = (c * y) * q + c * r
          OBVIOUS
        <5> QED BY <3>1, <4>1, <5>1
      <4>4. u % v = w
        BY <4>2, <4>3, Remainder
      <4> QED BY <4>1, <4>4
    <3>4. Gcd[<<c * x, c * y>>] = Gcd[<<c * y, c * r>>]
      <4>1. PICK u \in Nat, v \in Nat, w \in Nat : u = c * x /\ v = c * y /\ w = c * r
        BY <3>1
      <4>2. v # 0 /\ u % v = w
        BY <2>4, <3>3, <4>1
      <4>3. Gcd[<<u, v>>] = Gcd[<<v, w>>]
        BY <4>2, GcdStep
      <4> QED BY <4>1, <4>3
    <3>5. Good(y, r)
      <4>1. r \notin T
        BY <2>1, <3>1
      <4> QED BY <3>1, <4>1
    <3> QED BY <2>2, <3>2, <3>4, <3>5 DEF Good
  <2> QED BY <2>3, <2>4
<1> QED BY <1>1

\* A fraction does not change with a factor of both of its numbers.
LEMMA FracCancels ==
  ASSUME NEW n \in Int, NEW d \in Nat \ {0}, NEW c \in Nat \ {0}
  PROVE  Frac(c * n, c * d) = Frac(n, d)
<1>1. PICK a \in Nat : a = IntAbs(n) /\ (n = a \/ n = -a)
  BY DEF IntAbs
<1>2. PICK g \in Nat \ {0}, j \in Nat, k \in Nat : g = Gcd[<<a, d>>] /\ a = g * j /\ d = g * k
  <2>1. d \in Nat /\ d > 0
    OBVIOUS
  <2>2. Gcd[<<a, d>>] \in Nat \ {0} /\ Divides(Gcd[<<a, d>>], a) /\ Divides(Gcd[<<a, d>>], d)
    BY <2>1, GcdDivides
  <2> QED BY <2>2 DEF Divides
<1>3. IntAbs(c * n) = c * a /\ IntAbs(c * d) = c * d /\ IntAbs(d) = d
  BY <1>1 DEF IntAbs
<1>4. Gcd[<<c * a, c * d>>] = c * g
  BY <1>2, GcdTimes
<1>5. PICK h \in Nat \ {0} : h = c * g
  OBVIOUS
<1>6. \A i \in Int : (g * i) \div g = i /\ (h * i) \div h = i
  <2>1. g > 0 /\ h > 0
    OBVIOUS
  <2> QED BY <2>1
<1>7. \A z \in Int : c * (g * z) = h * z
  <2>1. \A z \in Int : c * (g * z) = (c * g) * z
    OBVIOUS
  <2> QED BY <1>5, <2>1
<1>8. PICK i \in Int : n = g * i
  <2>1. n = g * j \/ n = g * (-j)
    BY <1>1, <1>2
  <2>2. j \in Int /\ -j \in Int
    OBVIOUS
  <2> QED BY <2>1, <2>2
<1>9. n \div g = i /\ d \div g = k /\ (c * n) \div h = i /\ (c * d) \div h = k
  <2>1. n \div g = i /\ d \div g = k
    <3>1. (g * i) \div g = i /\ (g * k) \div g = k
      BY <1>6
    <3> QED BY <1>2, <1>8, <3>1
  <2>2. c * n = h * i /\ c * d = h * k
    <3>1. c * (g * i) = h * i /\ c * (g * k) = h * k
      BY <1>7
    <3> QED BY <1>2, <1>8, <3>1
  <2>3. (h * i) \div h = i /\ (h * k) \div h = k
    BY <1>6
  <2> QED BY <2>1, <2>2, <2>3
<1>10. Frac(n, d) = <<1 * i, 1 * k>>
  BY <1>1, <1>2, <1>3, <1>9 DEF Frac
<1>11. Frac(c * n, c * d) = <<1 * i, 1 * k>>
  <2>1. ~(c * d < 0)
    OBVIOUS
  <2> QED BY <1>3, <1>4, <1>5, <1>9, <2>1 DEF Frac
<1> QED BY <1>10, <1>11

\* Two fractions are one if they are the same number.
LEMMA FracSame ==
  ASSUME NEW n \in Int, NEW d \in Nat \ {0}, NEW m \in Int, NEW e \in Nat \ {0}
  PROVE  Frac(n, d) = Frac(m, e) <=> n * e = m * d
<1>1. ASSUME n * e = m * d
      PROVE  Frac(n, d) = Frac(m, e)
  <2>1. Frac(n, d) = Frac(e * n, e * d) /\ Frac(m, e) = Frac(d * m, d * e)
    BY FracCancels
  <2>2. e * n = d * m /\ e * d = d * e
    BY <1>1
  <2> QED BY <2>1, <2>2
<1>2. ASSUME Frac(n, d) = Frac(m, e)
      PROVE  n * e = m * d
  <2>1. PICK j \in Int, k \in Nat \ {0} : Frac(n, d) = <<j, k>> /\ j * d = n * k /\ j * e = m * k
    <3>1. PICK f : f = Frac(n, d)
      OBVIOUS
    <3>2. f \in Int \X (Nat \ {0}) /\ f[1] * d = n * f[2] /\ f[1] * e = m * f[2]
      BY <1>2, <3>1, FracIs DEF IsFrac
    <3>3. f = <<f[1], f[2]>> /\ f[1] \in Int /\ f[2] \in Nat \ {0}
      BY <3>2
    <3> QED BY <3>1, <3>2, <3>3
  <2>2. (n * e) * k = (m * d) * k
    <3>1. (n * e) * k = (n * k) * e /\ (m * d) * k = (m * k) * d
      OBVIOUS
    <3>2. (j * d) * e = (j * e) * d
      OBVIOUS
    <3> QED BY <2>1, <3>1, <3>2
  <2>3. \A x, y \in Int, z \in Nat \ {0} : x * z = y * z => x = y
    OBVIOUS
  <2>4. n * e \in Int /\ m * d \in Int
    OBVIOUS
  <2> QED BY <2>2, <2>3, <2>4
<1> QED BY <1>1, <1>2

LEMMA FracParts ==
  ASSUME NEW n \in Int, NEW d \in Nat \ {0}
  PROVE  \E j \in Int, k \in Nat \ {0} : Frac(n, d) = <<j, k>> /\ j * d = n * k
<1>1. PICK f : f = Frac(n, d)
  OBVIOUS
<1>2. f \in Int \X (Nat \ {0}) /\ f[1] * d = n * f[2]
  BY <1>1, FracIs DEF IsFrac
<1>3. f = <<f[1], f[2]>> /\ f[1] \in Int /\ f[2] \in Nat \ {0}
  BY <1>2
<1> QED BY <1>1, <1>2, <1>3

LEMMA Positive2 ==
  ASSUME NEW d \in Nat \ {0}, NEW e \in Nat \ {0}
  PROVE  d * e \in Nat \ {0}
OBVIOUS

\* The operations, on numbers that need not be in lowest terms
LEMMA FracPlus ==
  ASSUME NEW n \in Int, NEW d \in Nat \ {0}, NEW m \in Int, NEW e \in Nat \ {0}
  PROVE  Frac(n, d) ++ Frac(m, e) = Frac(n * e + m * d, d * e)
<1>1. PICK j \in Int, k \in Nat \ {0} : Frac(n, d) = <<j, k>> /\ j * d = n * k
  BY FracParts
<1>2. PICK p \in Int, q \in Nat \ {0} : Frac(m, e) = <<p, q>> /\ p * e = m * q
  BY FracParts
<1>3. PICK u \in Int, v \in Nat \ {0}, w \in Int, z \in Nat \ {0} :
        u = j * q + p * k /\ v = k * q /\ w = n * e + m * d /\ z = d * e
  BY Positive2
<1>4. u * z = w * v
  <2>1. (j * q + p * k) * (d * e) = (j * d) * (q * e) + (p * e) * (k * d)
    OBVIOUS
  <2>2. (n * e + m * d) * (k * q) = (n * k) * (q * e) + (m * q) * (k * d)
    OBVIOUS
  <2> QED BY <1>1, <1>2, <1>3, <2>1, <2>2
<1>5. Frac(u, v) = Frac(w, z)
  BY <1>4, FracSame
<1>6. <<j, k>> ++ <<p, q>> = Frac(j * q + p * k, k * q)
  BY DEF ++
<1> QED BY <1>1, <1>2, <1>3, <1>5, <1>6

LEMMA FracMinus ==
  ASSUME NEW n \in Int, NEW d \in Nat \ {0}, NEW m \in Int, NEW e \in Nat \ {0}
  PROVE  Frac(n, d) -- Frac(m, e) = Frac(n * e - m * d, d * e)
<1>1. PICK j \in Int, k \in Nat \ {0} : Frac(n, d) = <<j, k>> /\ j * d = n * k
  BY FracParts
<1>2. PICK p \in Int, q \in Nat \ {0} : Frac(m, e) = <<p, q>> /\ p * e = m * q
  BY FracParts
<1>3. PICK u \in Int, v \in Nat \ {0}, w \in Int, z \in Nat \ {0} :
        u = j * q - p * k /\ v = k * q /\ w = n * e - m * d /\ z = d * e
  BY Positive2
<1>4. u * z = w * v
  <2>1. (j * q - p * k) * (d * e) = (j * d) * (q * e) - (p * e) * (k * d)
    OBVIOUS
  <2>2. (n * e - m * d) * (k * q) = (n * k) * (q * e) - (m * q) * (k * d)
    OBVIOUS
  <2> QED BY <1>1, <1>2, <1>3, <2>1, <2>2
<1>5. Frac(u, v) = Frac(w, z)
  BY <1>4, FracSame
<1>6. <<j, k>> -- <<p, q>> = Frac(j * q - p * k, k * q)
  BY DEF --
<1> QED BY <1>1, <1>2, <1>3, <1>5, <1>6

LEMMA FracTimes ==
  ASSUME NEW n \in Int, NEW d \in Nat \ {0}, NEW m \in Int, NEW e \in Nat \ {0}
  PROVE  Frac(n, d) ** Frac(m, e) = Frac(n * m, d * e)
<1>1. PICK j \in Int, k \in Nat \ {0} : Frac(n, d) = <<j, k>> /\ j * d = n * k
  BY FracParts
<1>2. PICK p \in Int, q \in Nat \ {0} : Frac(m, e) = <<p, q>> /\ p * e = m * q
  BY FracParts
<1>3. PICK u \in Int, v \in Nat \ {0}, w \in Int, z \in Nat \ {0} :
        u = j * p /\ v = k * q /\ w = n * m /\ z = d * e
  BY Positive2
<1>4. u * z = w * v
  <2>1. (j * p) * (d * e) = (j * d) * (p * e) /\ (n * m) * (k * q) = (n * k) * (m * q)
    OBVIOUS
  <2> QED BY <1>1, <1>2, <1>3, <2>1
<1>5. Frac(u, v) = Frac(w, z)
  BY <1>4, FracSame
<1>6. <<j, k>> ** <<p, q>> = Frac(j * p, k * q)
  BY DEF **
<1> QED BY <1>1, <1>2, <1>3, <1>5, <1>6

LEMMA FracOver ==
  ASSUME NEW n \in Int, NEW d \in Nat \ {0}, NEW m \in Nat \ {0}, NEW e \in Nat \ {0}
  PROVE  Frac(n, d) // Frac(m, e) = Frac(n * e, d * m)
<1>1. PICK j \in Int, k \in Nat \ {0} : Frac(n, d) = <<j, k>> /\ j * d = n * k
  BY FracParts
<1>2. PICK p \in Int, q \in Nat \ {0} : Frac(m, e) = <<p, q>> /\ p * e = m * q
  <2>1. m \in Int
    OBVIOUS
  <2> QED BY <2>1, FracParts
<1>3. p \in Nat \ {0}
  <2>1. m * q > 0
    BY Positive2
  <2>2. p > 0
    BY <1>2, <2>1
  <2> QED BY <2>2
<1>4. PICK u \in Int, v \in Nat \ {0}, w \in Int, z \in Nat \ {0} :
        u = j * q /\ v = k * p /\ w = n * e /\ z = d * m
  BY <1>3, Positive2
<1>5. u * z = w * v
  <2>1. (j * q) * (d * m) = (j * d) * (m * q) /\ (n * e) * (k * p) = (n * k) * (p * e)
    OBVIOUS
  <2> QED BY <1>1, <1>2, <1>4, <2>1
<1>6. Frac(u, v) = Frac(w, z)
  BY <1>5, FracSame
<1>7. <<j, k>> // <<p, q>> = Frac(j * q, k * p)
  BY DEF //
<1> QED BY <1>1, <1>2, <1>4, <1>6, <1>7

LEMMA WholeIs ==
  ASSUME NEW n \in Int
  PROVE  Whole(n) = Frac(n, 1)
<1>1. PICK a \in Nat : a = IntAbs(n)
  BY DEF IntAbs
<1>2. Gcd[<<a, 1>>] = Gcd[<<1, a % 1>>] /\ a % 1 = 0 /\ Gcd[<<1, 0>>] = 1
  <2>1. a % 1 = 0
    OBVIOUS
  <2>2. Gcd[<<a, 1>>] = IF 1 = 0 THEN a ELSE Gcd[<<1, a % 1>>]
    BY GcdStep
  <2>3. Gcd[<<1, 0>>] = IF 0 = 0 THEN 1 ELSE Gcd[<<0, 1 % 0>>]
    BY GcdStep
  <2> QED BY <2>1, <2>2, <2>3
<1>3. n \div 1 = n /\ 1 \div 1 = 1 /\ IntAbs(1) = 1
  BY DEF IntAbs
<1> QED BY <1>1, <1>2, <1>3 DEF Frac, Whole

\* A fraction in lowest terms
Reduced(a) == \E n \in Int, d \in Nat \ {0} : a = Frac(n, d)

LEMMA Reduces ==
  ASSUME NEW a, NEW b, IsFrac(a), IsFrac(b)
  PROVE  /\ Reduced(a ++ b) /\ Reduced(a -- b) /\ Reduced(a ** b)
         /\ Zero \prec b => Reduced(a // b)
<1>1. PICK n \in Int, d \in Nat \ {0} : a = <<n, d>>
  BY DEF IsFrac
<1>2. PICK m \in Int, e \in Nat \ {0} : b = <<m, e>>
  BY DEF IsFrac
<1>3. d * e \in Nat \ {0} /\ n * e + m * d \in Int /\ n * e - m * d \in Int /\ n * m \in Int
  BY Positive2
<1>4. Reduced(a ++ b) /\ Reduced(a -- b) /\ Reduced(a ** b)
  BY <1>1, <1>2, <1>3 DEF ++, --, **, Reduced
<1>5. ASSUME Zero \prec b
      PROVE  Reduced(a // b)
  <2>1. m \in Nat \ {0}
    BY <1>2, <1>5 DEF Zero, Whole, \prec
  <2>2. d * m \in Nat \ {0} /\ n * e \in Int
    BY <2>1, Positive2
  <2>3. a // b = Frac(n * e, d * m)
    BY <1>1, <1>2 DEF //
  <2> QED BY <2>2, <2>3 DEF Reduced
<1> QED BY <1>4, <1>5

LEMMA ReducedIs ==
  ASSUME NEW a, Reduced(a)
  PROVE  IsFrac(a)
BY FracIs DEF Reduced

LEMMA WholeReduced ==
  ASSUME NEW n \in Int
  PROVE  Reduced(Whole(n)) /\ Reduced(Zero) /\ Reduced(One)
BY WholeIs DEF Reduced, Zero, One

-----------------------------------------------------------------------------
(* The laws of fractions in lowest terms *)

LEMMA PlusCommutes ==
  ASSUME NEW a, NEW b, Reduced(a), Reduced(b)
  PROVE  a ++ b = b ++ a
<1>1. PICK n \in Int, d \in Nat \ {0} : a = Frac(n, d)
  BY DEF Reduced
<1>2. PICK m \in Int, e \in Nat \ {0} : b = Frac(m, e)
  BY DEF Reduced
<1>3. a ++ b = Frac(n * e + m * d, d * e) /\ b ++ a = Frac(m * d + n * e, e * d)
  BY <1>1, <1>2, FracPlus
<1>4. n * e + m * d = m * d + n * e /\ d * e = e * d
  OBVIOUS
<1> QED BY <1>3, <1>4

LEMMA PlusAssociates ==
  ASSUME NEW a, NEW b, NEW c, Reduced(a), Reduced(b), Reduced(c)
  PROVE  (a ++ b) ++ c = a ++ (b ++ c)
<1>1. PICK n \in Int, d \in Nat \ {0} : a = Frac(n, d)
  BY DEF Reduced
<1>2. PICK m \in Int, e \in Nat \ {0} : b = Frac(m, e)
  BY DEF Reduced
<1>3. PICK p \in Int, q \in Nat \ {0} : c = Frac(p, q)
  BY DEF Reduced
<1>4. PICK u \in Int, v \in Nat \ {0}, w \in Int, z \in Nat \ {0} :
        u = n * e + m * d /\ v = d * e /\ w = m * q + p * e /\ z = e * q
  BY Positive2
<1>5. a ++ b = Frac(u, v) /\ b ++ c = Frac(w, z)
  <2>1. Frac(n, d) ++ Frac(m, e) = Frac(n * e + m * d, d * e)
    BY FracPlus
  <2>2. Frac(m, e) ++ Frac(p, q) = Frac(m * q + p * e, e * q)
    BY FracPlus
  <2> QED BY <1>1, <1>2, <1>3, <1>4, <2>1, <2>2
<1>6. Frac(u, v) ++ c = Frac(u * q + p * v, v * q) /\ a ++ Frac(w, z) = Frac(n * z + w * d, d * z)
  <2>1. Frac(u, v) ++ Frac(p, q) = Frac(u * q + p * v, v * q)
    BY FracPlus
  <2>2. Frac(n, d) ++ Frac(w, z) = Frac(n * z + w * d, d * z)
    BY FracPlus
  <2> QED BY <1>1, <1>3, <2>1, <2>2
<1>7. u * q + p * v = n * z + w * d /\ v * q = d * z
  <2>1. (n * e + m * d) * q + p * (d * e) = n * (e * q) + (m * q + p * e) * d
    OBVIOUS
  <2>2. (d * e) * q = d * (e * q)
    OBVIOUS
  <2> QED BY <1>4, <2>1, <2>2
<1> QED BY <1>5, <1>6, <1>7

LEMMA PlusZero ==
  ASSUME NEW a, Reduced(a)
  PROVE  a ++ Zero = a /\ Zero ++ a = a /\ a -- Zero = a
<1>1. PICK n \in Int, d \in Nat \ {0} : a = Frac(n, d)
  BY DEF Reduced
<1>2. Zero = Frac(0, 1)
  BY WholeIs DEF Zero
<1>3. /\ a ++ Zero = Frac(n * 1 + 0 * d, d * 1) /\ Zero ++ a = Frac(0 * d + n * 1, 1 * d)
      /\ a -- Zero = Frac(n * 1 - 0 * d, d * 1)
  BY <1>1, <1>2, FracPlus, FracMinus
<1>4. n * 1 + 0 * d = n /\ 0 * d + n * 1 = n /\ n * 1 - 0 * d = n /\ d * 1 = d /\ 1 * d = d
  OBVIOUS
<1> QED BY <1>1, <1>3, <1>4

LEMMA PlusMinus ==
  ASSUME NEW a, NEW b, Reduced(a), Reduced(b)
  PROVE  (a ++ b) -- b = a /\ (a -- b) ++ b = a
<1>1. PICK n \in Int, d \in Nat \ {0} : a = Frac(n, d)
  BY DEF Reduced
<1>2. PICK m \in Int, e \in Nat \ {0} : b = Frac(m, e)
  BY DEF Reduced
<1>3. PICK u \in Int, v \in Nat \ {0}, w \in Int :
        u = n * e + m * d /\ v = d * e /\ w = n * e - m * d
  BY Positive2
<1>4. a ++ b = Frac(u, v) /\ a -- b = Frac(w, v)
  BY <1>1, <1>2, <1>3, FracPlus, FracMinus
<1>5. PICK x \in Int, y \in Int, z \in Nat \ {0} : x = u * e - m * v /\ y = w * e + m * v /\ z = v * e
  BY Positive2
<1>6. Frac(u, v) -- b = Frac(x, z) /\ Frac(w, v) ++ b = Frac(y, z)
  <2>1. Frac(u, v) -- Frac(m, e) = Frac(u * e - m * v, v * e)
    BY FracMinus
  <2>2. Frac(w, v) ++ Frac(m, e) = Frac(w * e + m * v, v * e)
    BY FracPlus
  <2> QED BY <1>2, <1>5, <2>1, <2>2
<1>7. x * d = n * z /\ y * d = n * z
  <2>1. /\ ((n * e + m * d) * e - m * (d * e)) * d = n * ((d * e) * e)
        /\ ((n * e - m * d) * e + m * (d * e)) * d = n * ((d * e) * e)
    OBVIOUS
  <2> QED BY <1>3, <1>5, <2>1
<1>8. Frac(x, z) = Frac(n, d) /\ Frac(y, z) = Frac(n, d)
  BY <1>7, FracSame
<1> QED BY <1>1, <1>4, <1>6, <1>8

LEMMA TimesAssociates ==
  ASSUME NEW a, NEW b, NEW c, Reduced(a), Reduced(b), Reduced(c)
  PROVE  (a ** b) ** c = a ** (b ** c)
<1>1. PICK n \in Int, d \in Nat \ {0} : a = Frac(n, d)
  BY DEF Reduced
<1>2. PICK m \in Int, e \in Nat \ {0} : b = Frac(m, e)
  BY DEF Reduced
<1>3. PICK p \in Int, q \in Nat \ {0} : c = Frac(p, q)
  BY DEF Reduced
<1>4. PICK u \in Int, v \in Nat \ {0}, w \in Int, z \in Nat \ {0} :
        u = n * m /\ v = d * e /\ w = m * p /\ z = e * q
  BY Positive2
<1>5. a ** b = Frac(u, v) /\ b ** c = Frac(w, z)
  BY <1>1, <1>2, <1>3, <1>4, FracTimes
<1>6. Frac(u, v) ** c = Frac(u * p, v * q) /\ a ** Frac(w, z) = Frac(n * w, d * z)
  <2>1. Frac(u, v) ** Frac(p, q) = Frac(u * p, v * q)
    BY FracTimes
  <2>2. Frac(n, d) ** Frac(w, z) = Frac(n * w, d * z)
    BY FracTimes
  <2> QED BY <1>1, <1>3, <2>1, <2>2
<1>7. u * p = n * w /\ v * q = d * z
  BY <1>4
<1> QED BY <1>5, <1>6, <1>7

LEMMA TimesOne ==
  ASSUME NEW a, Reduced(a)
  PROVE  a ** One = a /\ One ** a = a /\ a ** Zero = Zero /\ Zero ** a = Zero
<1>1. PICK n \in Int, d \in Nat \ {0} : a = Frac(n, d)
  BY DEF Reduced
<1>2. Zero = Frac(0, 1) /\ One = Frac(1, 1)
  BY WholeIs DEF Zero, One
<1>3. /\ a ** One = Frac(n * 1, d * 1) /\ One ** a = Frac(1 * n, 1 * d)
      /\ a ** Zero = Frac(n * 0, d * 1) /\ Zero ** a = Frac(0 * n, 1 * d)
  BY <1>1, <1>2, FracTimes
<1>4. n * 1 = n /\ 1 * n = n /\ n * 0 = 0 /\ 0 * n = 0 /\ d * 1 = d /\ 1 * d = d
  OBVIOUS
<1>5. Frac(0, d) = Frac(0, 1)
  <2>1. 0 * 1 = 0 * d
    OBVIOUS
  <2> QED BY <2>1, FracSame
<1> QED BY <1>1, <1>2, <1>3, <1>4, <1>5

LEMMA Distributes ==
  ASSUME NEW a, NEW b, NEW c, Reduced(a), Reduced(b), Reduced(c)
  PROVE  /\ (a ++ b) ** c = (a ** c) ++ (b ** c) /\ (a -- b) ** c = (a ** c) -- (b ** c)
<1>1. PICK n \in Int, d \in Nat \ {0} : a = Frac(n, d)
  BY DEF Reduced
<1>2. PICK m \in Int, e \in Nat \ {0} : b = Frac(m, e)
  BY DEF Reduced
<1>3. PICK p \in Int, q \in Nat \ {0} : c = Frac(p, q)
  BY DEF Reduced
<1>4. PICK s \in Int, t \in Int, v \in Nat \ {0}, w \in Int, x \in Nat \ {0}, y \in Int, z \in Nat \ {0} :
        /\ s = n * e + m * d /\ t = n * e - m * d /\ v = d * e
        /\ w = n * p /\ x = d * q /\ y = m * p /\ z = e * q
  BY Positive2
<1>5. /\ a ++ b = Frac(s, v) /\ a -- b = Frac(t, v)
      /\ a ** c = Frac(w, x) /\ b ** c = Frac(y, z)
  <2>1. Frac(n, d) ++ Frac(m, e) = Frac(n * e + m * d, d * e)
    BY FracPlus
  <2>2. Frac(n, d) -- Frac(m, e) = Frac(n * e - m * d, d * e)
    BY FracMinus
  <2>3. Frac(n, d) ** Frac(p, q) = Frac(n * p, d * q)
    BY FracTimes
  <2>4. Frac(m, e) ** Frac(p, q) = Frac(m * p, e * q)
    BY FracTimes
  <2> QED BY <1>1, <1>2, <1>3, <1>4, <2>1, <2>2, <2>3, <2>4
<1>6. PICK i \in Int, j \in Int, k \in Nat \ {0}, f \in Int, g \in Int, h \in Nat \ {0} :
        /\ i = s * p /\ j = t * p /\ k = v * q
        /\ f = w * z + y * x /\ g = w * z - y * x /\ h = x * z
  BY Positive2
<1>7. /\ Frac(s, v) ** c = Frac(i, k) /\ Frac(t, v) ** c = Frac(j, k)
      /\ Frac(w, x) ++ Frac(y, z) = Frac(f, h) /\ Frac(w, x) -- Frac(y, z) = Frac(g, h)
  <2>1. Frac(s, v) ** Frac(p, q) = Frac(s * p, v * q)
    BY FracTimes
  <2>2. Frac(t, v) ** Frac(p, q) = Frac(t * p, v * q)
    BY FracTimes
  <2>3. Frac(w, x) ++ Frac(y, z) = Frac(w * z + y * x, x * z)
    BY FracPlus
  <2>4. Frac(w, x) -- Frac(y, z) = Frac(w * z - y * x, x * z)
    BY FracMinus
  <2> QED BY <1>3, <1>6, <2>1, <2>2, <2>3, <2>4
<1>8. i * h = f * k /\ j * h = g * k
  <2>1. ((n * e + m * d) * p) * ((d * q) * (e * q))
          = ((n * p) * (e * q) + (m * p) * (d * q)) * ((d * e) * q)
    OBVIOUS
  <2>2. ((n * e - m * d) * p) * ((d * q) * (e * q))
          = ((n * p) * (e * q) - (m * p) * (d * q)) * ((d * e) * q)
    OBVIOUS
  <2> QED BY <1>4, <1>6, <2>1, <2>2
<1>9. Frac(i, k) = Frac(f, h) /\ Frac(j, k) = Frac(g, h)
  BY <1>8, FracSame
<1> QED BY <1>5, <1>7, <1>9

LEMMA OverTimes ==
  ASSUME NEW a, NEW b, Reduced(a), Reduced(b), Zero \prec b
  PROVE  Reduced(a // b) /\ (a // b) ** b = a
<1>1. PICK n \in Int, d \in Nat \ {0} : a = Frac(n, d)
  BY DEF Reduced
<1>2. PICK m \in Int, e \in Nat \ {0} : b = Frac(m, e)
  BY DEF Reduced
<1>3. m \in Nat \ {0}
  <2>1. PICK p \in Int, q \in Nat \ {0} : Frac(m, e) = <<p, q>> /\ p * e = m * q
    BY FracParts
  <2>2. p > 0
    BY <1>2, <2>1 DEF Zero, Whole, \prec
  <2>3. m * q > 0
    BY <2>1, <2>2, Positive2
  <2>4. m > 0
    BY <2>3
  <2> QED BY <2>4
<1>4. PICK u \in Int, v \in Nat \ {0} : u = n * e /\ v = d * m
  BY <1>3, Positive2
<1>5. a // b = Frac(u, v)
  BY <1>1, <1>2, <1>3, <1>4, FracOver
<1>6. PICK w \in Int, z \in Nat \ {0} : w = u * m /\ z = v * e
  BY Positive2
<1>7. Frac(u, v) ** b = Frac(w, z)
  BY <1>2, <1>6, FracTimes
<1>8. w * d = n * z
  <2>1. ((n * e) * m) * d = n * ((d * m) * e)
    BY <1>3
  <2> QED BY <1>4, <1>6, <2>1
<1>9. Frac(w, z) = Frac(n, d)
  BY <1>8, FracSame
<1> QED BY <1>1, <1>5, <1>7, <1>9 DEF Reduced
-----------------------------------------------------------------------------
(* Fractions of one denominator, where a law of fractions is one of numbers *)

LEMMA ScaleFrac ==
  ASSUME NEW n \in Int, NEW d \in Nat \ {0}, NEW f \in Nat \ {0}
  PROVE  Frac(n, d) = Frac(n * f, d * f)
<1>1. PICK m \in Int, e \in Nat \ {0} : m = n * f /\ e = d * f
  BY Positive2
<1>2. n * (d * f) = (n * f) * d
  OBVIOUS
<1>3. n * e = m * d
  BY <1>1, <1>2
<1>4. Frac(n, d) = Frac(m, e)
  BY <1>3, FracSame
<1> QED BY <1>1, <1>4

LEMMA OneDenominator ==
  ASSUME NEW a, NEW b, Reduced(a), Reduced(b)
  PROVE  \E n, m \in Int, d \in Nat \ {0} : a = Frac(n, d) /\ b = Frac(m, d)
<1>1. PICK n \in Int, d \in Nat \ {0} : a = Frac(n, d)
  BY DEF Reduced
<1>2. PICK m \in Int, e \in Nat \ {0} : b = Frac(m, e)
  BY DEF Reduced
<1>3. Frac(n, d) = Frac(n * e, d * e)
  BY ScaleFrac
<1>4. Frac(m, e) = Frac(m * d, e * d)
  BY ScaleFrac
<1>5. e * d = d * e /\ n * e \in Int /\ m * d \in Int
  OBVIOUS
<1>6. d * e \in Nat \ {0}
  BY Positive2
<1> QED BY <1>1, <1>2, <1>3, <1>4, <1>5, <1>6

LEMMA OneDenominator4 ==
  ASSUME NEW a, NEW b, NEW c, NEW x, Reduced(a), Reduced(b), Reduced(c), Reduced(x)
  PROVE  \E n, m, p, q \in Int, d \in Nat \ {0} :
           a = Frac(n, d) /\ b = Frac(m, d) /\ c = Frac(p, d) /\ x = Frac(q, d)
<1>1. PICK n \in Int, m \in Int, d \in Nat \ {0} : a = Frac(n, d) /\ b = Frac(m, d)
  BY OneDenominator
<1>2. PICK p \in Int, q \in Int, e \in Nat \ {0} : c = Frac(p, e) /\ x = Frac(q, e)
  BY OneDenominator
<1>3. Frac(n, d) = Frac(n * e, d * e)
  BY ScaleFrac
<1>4. Frac(m, d) = Frac(m * e, d * e)
  BY ScaleFrac
<1>5. Frac(p, e) = Frac(p * d, e * d)
  BY ScaleFrac
<1>6. Frac(q, e) = Frac(q * d, e * d)
  BY ScaleFrac
<1>7. e * d = d * e /\ n * e \in Int /\ m * e \in Int /\ p * d \in Int /\ q * d \in Int
  OBVIOUS
<1>8. d * e \in Nat \ {0}
  BY Positive2
<1> QED BY <1>1, <1>2, <1>3, <1>4, <1>5, <1>6, <1>7, <1>8

LEMMA SameAdds ==
  ASSUME NEW n \in Int, NEW m \in Int, NEW d \in Nat \ {0}
  PROVE  /\ Frac(n, d) ++ Frac(m, d) = Frac(n + m, d)
         /\ Frac(n, d) -- Frac(m, d) = Frac(n - m, d)
<1>1. Frac(n, d) ++ Frac(m, d) = Frac(n * d + m * d, d * d)
  BY FracPlus
<1>2. Frac(n, d) -- Frac(m, d) = Frac(n * d - m * d, d * d)
  BY FracMinus
<1>3. Frac(n + m, d) = Frac((n + m) * d, d * d)
  BY ScaleFrac
<1>4. Frac(n - m, d) = Frac((n - m) * d, d * d)
  BY ScaleFrac
<1>5. (n + m) * d = n * d + m * d /\ (n - m) * d = n * d - m * d
  OBVIOUS
<1> QED BY <1>1, <1>2, <1>3, <1>4, <1>5

LEMMA SameEquals ==
  ASSUME NEW n \in Int, NEW m \in Int, NEW d \in Nat \ {0}, Frac(n, d) = Frac(m, d)
  PROVE  n = m
<1>1. n * d = m * d
  BY FracSame
<1> QED BY <1>1

LEMMA WholeTimes ==
  ASSUME NEW n \in Int, NEW d \in Nat \ {0}, NEW k \in Int
  PROVE  Frac(n, d) ** Whole(k) = Frac(n * k, d)
<1>1. Whole(k) = Frac(k, 1)
  BY WholeIs
<1>2. Frac(n, d) ** Frac(k, 1) = Frac(n * k, d * 1)
  BY FracTimes
<1>3. d * 1 = d
  OBVIOUS
<1> QED BY <1>1, <1>2, <1>3

-----------------------------------------------------------------------------
(* Sums *)

IsSum(f, q, n) == f = [k \in 0 .. n |-> IF k = 0 THEN Zero ELSE f[k - 1] ++ q[k]]

LEMMA SumExists ==
  ASSUME NEW q
  PROVE  \A n \in Nat : \E f : IsSum(f, q, n)
<1> DEFINE S == {n \in Int : \E f : IsSum(f, q, n)}
<1>1. 0 \in S
  <2> DEFINE f == [k \in 0 .. 0 |-> Zero]
  <2>1. IsSum(f, q, 0)
    BY DEF IsSum
  <2> QED BY <2>1
<1>2. ASSUME NEW n \in Nat, n \in S
      PROVE  n + 1 \in S
  <2>1. PICK f : IsSum(f, q, n)
    BY <1>2
  <2> DEFINE g == [k \in 0 .. n + 1 |-> IF k <= n THEN f[k] ELSE f[n] ++ q[k]]
  <2>2. ASSUME NEW k \in 0 .. n + 1
        PROVE  g[k] = IF k = 0 THEN Zero ELSE g[k - 1] ++ q[k]
    <3>1. CASE k = 0
      BY <2>1, <3>1 DEF IsSum
    <3>2. CASE k # 0
      <4>1. k - 1 \in 0 .. n + 1 /\ k - 1 <= n
        BY <3>2
      <4>2. g[k - 1] = f[k - 1]
        BY <4>1
      <4>3. CASE k <= n
        <5>1. k \in 0 .. n
          BY <4>3
        <5>2. f[k] = f[k - 1] ++ q[k]
          BY <2>1, <5>1, <3>2 DEF IsSum
        <5>3. g[k] = f[k]
          BY <4>3
        <5> QED BY <5>2, <5>3, <4>2, <3>2
      <4>4. CASE k = n + 1
        <5>1. g[k] = f[n] ++ q[k] /\ k - 1 = n
          BY <4>4
        <5> QED BY <5>1, <4>2, <3>2
      <4> QED BY <4>3, <4>4
    <3> QED BY <3>1, <3>2
  <2>3. g = [k \in 0 .. n + 1 |-> IF k = 0 THEN Zero ELSE g[k - 1] ++ q[k]]
    <3>1. g = [k \in 0 .. n + 1 |-> g[k]]
      OBVIOUS
    <3> HIDE DEF g
    <3> QED BY <2>2, <3>1
  <2>4. IsSum(g, q, n + 1)
    BY <2>3 DEF IsSum
  <2> HIDE DEF g
  <2> QED BY <2>4
<1>3. ASSUME NEW n \in Nat
      PROVE  \E f : IsSum(f, q, n)
  <2>1. 0 .. n \subseteq S
    <3>1. \A k \in 0 .. n - 1 : k \in S => k + 1 \in S
      <4> HIDE DEF S
      <4> QED BY <1>2
    <3> HIDE DEF S
    <3> QED BY <1>1, <3>1, IntervalInduction
  <2>2. n \in S
    BY <2>1
  <2> QED BY <2>2
<1> QED BY <1>3

\* The sums of the parts of a sequence from its beginning
LEMMA SumIs ==
  ASSUME NEW q, Len(q) \in Nat
  PROVE  \E f : /\ SumFrac(q) = f[Len(q)] /\ f[0] = Zero
               /\ \A k \in 1 .. Len(q) : f[k] = f[k - 1] ++ q[k]
<1> DEFINE f == CHOOSE g : IsSum(g, q, Len(q))
<1>2. IsSum(f, q, Len(q))
  BY SumExists
<1>3. SumFrac(q) = f[Len(q)]
  BY DEF SumFrac, IsSum
<1> HIDE DEF f
<1>4. f[0] = Zero /\ \A k \in 1 .. Len(q) : f[k] = f[k - 1] ++ q[k]
  BY <1>2 DEF IsSum
<1> QED BY <1>3, <1>4

LEMMA SumReduced ==
  ASSUME NEW q, Len(q) \in Nat, \A k \in 1 .. Len(q) : Reduced(q[k])
  PROVE  Reduced(SumFrac(q))
<1>1. PICK f : /\ SumFrac(q) = f[Len(q)] /\ f[0] = Zero
               /\ \A k \in 1 .. Len(q) : f[k] = f[k - 1] ++ q[k]
  BY SumIs
<1> DEFINE S == {k \in 0 .. Len(q) : Reduced(f[k])}
<1>2. 0 \in S
  BY <1>1, WholeReduced
<1>3. ASSUME NEW k \in 0 .. Len(q) - 1, k \in S
      PROVE  k + 1 \in S
  <2>1. k + 1 \in 1 .. Len(q) /\ (k + 1) - 1 = k /\ k + 1 \in 0 .. Len(q)
    OBVIOUS
  <2>2. f[k + 1] = f[k] ++ q[k + 1]
    BY <1>1, <2>1
  <2>3. Reduced(f[k]) /\ Reduced(q[k + 1])
    BY <1>3, <2>1
  <2>4. Reduced(f[k] ++ q[k + 1])
    BY <2>3, Reduces, ReducedIs
  <2> QED BY <2>1, <2>2, <2>4
<1>4. 0 .. Len(q) \subseteq S
  <2>1. 0 \in Int /\ Len(q) \in Int
    OBVIOUS
  <2>2. \A k \in 0 .. Len(q) - 1 : k \in S => k + 1 \in S
    BY <1>3
  <2> HIDE DEF S
  <2> QED BY <1>2, <2>1, <2>2, IntervalInduction
<1>5. Len(q) \in S
  BY <1>4
<1> QED BY <1>1, <1>5

LEMMA SumOne ==
  SumFrac(<<>>) = Zero
<1>1. Len(<<>>) = 0
  OBVIOUS
<1> QED BY <1>1, SumIs

\* The sum of two
LEMMA SumTwo ==
  ASSUME NEW q, Len(q) = 2, Reduced(q[1])
  PROVE  SumFrac(q) = q[1] ++ q[2]
<1>1. PICK n : n = Len(q)
  OBVIOUS
<1>2. n \in Nat /\ n = 2
  BY <1>1
<1>3. PICK f : SumFrac(q) = f[n] /\ f[0] = Zero /\ \A k \in 1 .. n : f[k] = f[k - 1] ++ q[k]
  BY <1>1, <1>2, SumIs
<1>4. f[1] = f[0] ++ q[1] /\ f[2] = f[1] ++ q[2]
  <2>1. 1 \in 1 .. n /\ 2 \in 1 .. n /\ 1 - 1 = 0 /\ 2 - 1 = 1
    BY <1>2
  <2> QED BY <1>3, <2>1
<1> QED BY <1>2, <1>3, <1>4, PlusZero

\* The sum of a sequence with one more at its end
LEMMA SumMore ==
  ASSUME NEW q, NEW r, Len(q) \in Nat, Len(r) = Len(q) + 1, \A k \in 1 .. Len(q) : r[k] = q[k]
  PROVE  SumFrac(r) = SumFrac(q) ++ r[Len(r)]
<1>1. PICK f : /\ SumFrac(q) = f[Len(q)] /\ f[0] = Zero
               /\ \A k \in 1 .. Len(q) : f[k] = f[k - 1] ++ q[k]
  BY SumIs
<1>2. PICK g : /\ SumFrac(r) = g[Len(r)] /\ g[0] = Zero
               /\ \A k \in 1 .. Len(r) : g[k] = g[k - 1] ++ r[k]
  BY SumIs
<1> DEFINE S == {k \in 0 .. Len(q) : g[k] = f[k]}
<1>3. 0 \in S
  BY <1>1, <1>2
<1>4. ASSUME NEW k \in 0 .. Len(q) - 1, k \in S
      PROVE  k + 1 \in S
  <2>1. /\ k + 1 \in 1 .. Len(q) /\ (k + 1) - 1 = k /\ k + 1 \in 0 .. Len(q)
        /\ k + 1 \in 1 .. Len(r)
    OBVIOUS
  <2>2. f[k + 1] = f[k] ++ q[k + 1] /\ g[k + 1] = g[k] ++ r[k + 1]
    BY <1>1, <1>2, <2>1
  <2>3. g[k] = f[k] /\ r[k + 1] = q[k + 1]
    BY <1>4, <2>1
  <2> QED BY <2>1, <2>2, <2>3
<1>5. 0 .. Len(q) \subseteq S
  <2>1. 0 \in Int /\ Len(q) \in Int
    OBVIOUS
  <2>2. \A k \in 0 .. Len(q) - 1 : k \in S => k + 1 \in S
    BY <1>4
  <2> HIDE DEF S
  <2> QED BY <1>3, <2>1, <2>2, IntervalInduction
<1>6. g[Len(q)] = f[Len(q)]
  <2>1. Len(q) \in S
    BY <1>5
  <2> QED BY <2>1
<1>7. Len(r) \in 1 .. Len(r) /\ Len(r) - 1 = Len(q)
  OBVIOUS
<1> QED BY <1>1, <1>2, <1>6, <1>7

LEMMA SquareStep ==
  ASSUME NEW a, NEW b, NEW c, NEW x, Reduced(a), Reduced(b), Reduced(c), Reduced(x), NEW k \in Nat
  PROVE  ((a -- (c ** b)) -- ((c ** b) -- ((c ** c) ** Whole(k)))) ++ ((x -- c) ** (x -- c))
           = ((a ++ (x ** x)) -- (c ** (b ++ x)))
               -- ((c ** (b ++ x)) -- ((c ** c) ** Whole(k + 1)))
<1>1. PICK A \in Int, B \in Int, C \in Int, X \in Int, d \in Nat \ {0} :
        a = Frac(A, d) /\ b = Frac(B, d) /\ c = Frac(C, d) /\ x = Frac(X, d)
  BY OneDenominator4
<1>2. PICK e \in Nat \ {0} : e = d * d
  BY Positive2
<1>3. a = Frac(A * d, e)
  BY <1>1, <1>2, ScaleFrac
<1>4. \A i, j \in Int : Frac(i, d) ** Frac(j, d) = Frac(i * j, e)
  BY <1>2, FracTimes
<1>5. \A i, j \in Int : /\ Frac(i, d) ++ Frac(j, d) = Frac(i + j, d)
                       /\ Frac(i, d) -- Frac(j, d) = Frac(i - j, d)
                       /\ Frac(i, e) ++ Frac(j, e) = Frac(i + j, e)
                       /\ Frac(i, e) -- Frac(j, e) = Frac(i - j, e)
  BY SameAdds
<1>6. \A i, j \in Int : Frac(i, e) ** Whole(j) = Frac(i * j, e)
  BY WholeTimes
<1>7. PICK cb \in Int, cc \in Int, xx \in Int, cbx \in Int, y \in Int, ad \in Int :
        /\ cb = C * B /\ cc = C * C /\ xx = X * X /\ cbx = C * (B + X) /\ y = (X - C) * (X - C)
        /\ ad = A * d
  OBVIOUS
<1>8. /\ c ** b = Frac(cb, e) /\ c ** c = Frac(cc, e) /\ x ** x = Frac(xx, e)
      /\ c ** (b ++ x) = Frac(cbx, e) /\ (x -- c) ** (x -- c) = Frac(y, e)
  <2>1. b ++ x = Frac(B + X, d) /\ x -- c = Frac(X - C, d)
    BY <1>1, <1>5
  <2>2. B + X \in Int /\ X - C \in Int
    OBVIOUS
  <2>3. Frac(C, d) ** Frac(B + X, d) = Frac(C * (B + X), e)
    BY <1>4, <2>2
  <2>4. Frac(X - C, d) ** Frac(X - C, d) = Frac((X - C) * (X - C), e)
    BY <1>4, <2>2
  <2>5. c ** b = Frac(C * B, e) /\ c ** c = Frac(C * C, e) /\ x ** x = Frac(X * X, e)
    BY <1>1, <1>4
  <2> QED BY <1>1, <1>7, <2>1, <2>3, <2>4, <2>5
<1>9. PICK p \in Int, q \in Int : p = cc * k /\ q = cc * (k + 1)
  OBVIOUS
<1>10. (c ** c) ** Whole(k) = Frac(p, e) /\ (c ** c) ** Whole(k + 1) = Frac(q, e)
  <2>1. k \in Int /\ k + 1 \in Int
    OBVIOUS
  <2>2. Frac(cc, e) ** Whole(k) = Frac(cc * k, e) /\ Frac(cc, e) ** Whole(k + 1) = Frac(cc * (k + 1), e)
    BY <1>6, <2>1
  <2> QED BY <1>8, <1>9, <2>2
<1>11. a -- (c ** b) = Frac(ad - cb, e) /\ a ++ (x ** x) = Frac(ad + xx, e)
  <2>1. Frac(ad, e) -- Frac(cb, e) = Frac(ad - cb, e) /\ Frac(ad, e) ++ Frac(xx, e) = Frac(ad + xx, e)
    BY <1>5
  <2> QED BY <1>3, <1>7, <1>8, <2>1
<1>12. /\ (c ** b) -- ((c ** c) ** Whole(k)) = Frac(cb - p, e)
       /\ (c ** (b ++ x)) -- ((c ** c) ** Whole(k + 1)) = Frac(cbx - q, e)
  BY <1>5, <1>8, <1>10
<1>13. (a -- (c ** b)) -- ((c ** b) -- ((c ** c) ** Whole(k))) = Frac((ad - cb) - (cb - p), e)
  <2>1. ad - cb \in Int /\ cb - p \in Int
    OBVIOUS
  <2>2. Frac(ad - cb, e) -- Frac(cb - p, e) = Frac((ad - cb) - (cb - p), e)
    BY <1>5, <2>1
  <2> QED BY <1>11, <1>12, <2>2
<1>14. /\ Frac((ad - cb) - (cb - p), e) ++ Frac(y, e) = Frac(((ad - cb) - (cb - p)) + y, e)
       /\ Frac(ad + xx, e) -- Frac(cbx, e) = Frac((ad + xx) - cbx, e)
  <2>1. (ad - cb) - (cb - p) \in Int /\ ad + xx \in Int
    OBVIOUS
  <2> QED BY <1>5, <2>1
<1>15. Frac((ad + xx) - cbx, e) -- Frac(cbx - q, e) = Frac(((ad + xx) - cbx) - (cbx - q), e)
  <2>1. (ad + xx) - cbx \in Int /\ cbx - q \in Int
    OBVIOUS
  <2> QED BY <1>5, <2>1
<1>16. ((ad - cb) - (cb - p)) + y = ((ad + xx) - cbx) - (cbx - q)
  <2>1. cbx = cb + C * X
    BY <1>7
  <2>2. y = xx - C * X - C * X + cc
    BY <1>7
  <2>3. q = p + cc
    BY <1>9
  <2> QED BY <2>1, <2>2, <2>3
<1> QED BY <1>8, <1>11, <1>12, <1>13, <1>14, <1>15, <1>16

\* The squares of the distances from a mean add up to those of the numbers less the mean's.
LEMMA SumOfSquares ==
  ASSUME NEW q, NEW s, NEW r, NEW c, NEW n \in Nat, Len(q) = n, Len(s) = n, Len(r) = n,
         Reduced(c), c ** Whole(n) = SumFrac(q),
         \A k \in 1 .. n : /\ Reduced(q[k]) /\ s[k] = q[k] ** q[k]
                          /\ r[k] = (q[k] -- c) ** (q[k] -- c)
  PROVE  SumFrac(r) = SumFrac(s) -- (c ** SumFrac(q))
<1>1. PICK f : SumFrac(q) = f[n] /\ f[0] = Zero /\ \A k \in 1 .. n : f[k] = f[k - 1] ++ q[k]
  BY SumIs
<1>2. PICK g : SumFrac(s) = g[n] /\ g[0] = Zero /\ \A k \in 1 .. n : g[k] = g[k - 1] ++ s[k]
  BY SumIs
<1>3. PICK h : SumFrac(r) = h[n] /\ h[0] = Zero /\ \A k \in 1 .. n : h[k] = h[k - 1] ++ r[k]
  BY SumIs
<1> DEFINE Spread(a, b, k) == (a -- (c ** b)) -- ((c ** b) -- ((c ** c) ** Whole(k)))
           S == {k \in 0 .. n : /\ Reduced(f[k]) /\ Reduced(g[k])
                               /\ h[k] = Spread(g[k], f[k], k)}
<1>4. Reduced(c ** c) /\ IsFrac(c)
  BY Reduces, ReducedIs
<1>5. 0 \in S
  <2>1. Whole(0) = Zero
    BY DEF Zero
  <2>2. c ** Zero = Zero /\ (c ** c) ** Zero = Zero
    BY <1>4, TimesOne
  <2>3. Zero -- Zero = Zero
    BY PlusZero, WholeReduced
  <2>4. Spread(Zero, Zero, 0) = Zero
    BY <2>1, <2>2, <2>3
  <2> HIDE DEF Spread
  <2>5. 0 \in 0 .. n /\ Reduced(Zero)
    BY WholeReduced
  <2> QED BY <1>1, <1>2, <1>3, <2>4, <2>5
<1>6. ASSUME NEW k \in 0 .. n - 1, k \in S
      PROVE  k + 1 \in S
  <2>1. k + 1 \in 1 .. n /\ (k + 1) - 1 = k /\ k + 1 \in 0 .. n /\ k \in Nat
    OBVIOUS
  <2>2. f[k + 1] = f[k] ++ q[k + 1] /\ g[k + 1] = g[k] ++ s[k + 1] /\ h[k + 1] = h[k] ++ r[k + 1]
    BY <1>1, <1>2, <1>3, <2>1
  <2>3. PICK x : x = q[k + 1] /\ Reduced(x) /\ s[k + 1] = x ** x /\ r[k + 1] = (x -- c) ** (x -- c)
    BY <2>1
  <2>4. Reduced(f[k]) /\ Reduced(g[k]) /\ h[k] = Spread(g[k], f[k], k)
    BY <1>6
  <2>5. Reduced(f[k] ++ x) /\ Reduced(x ** x) /\ Reduced(g[k] ++ (x ** x))
    BY <2>3, <2>4, Reduces, ReducedIs
  <2>6. Spread(g[k], f[k], k) ++ ((x -- c) ** (x -- c)) = Spread(g[k] ++ (x ** x), f[k] ++ x, k + 1)
    BY <2>1, <2>3, <2>4, SquareStep
  <2> HIDE DEF Spread
  <2>7. h[k + 1] = Spread(g[k + 1], f[k + 1], k + 1)
    BY <2>2, <2>3, <2>4, <2>6
  <2> QED BY <2>1, <2>2, <2>3, <2>5, <2>7
<1>7. n \in S
  <2>1. 0 \in Int /\ n \in Int
    OBVIOUS
  <2>2. \A k \in 0 .. n - 1 : k \in S => k + 1 \in S
    BY <1>6
  <2>3. 0 .. n \subseteq S
    <3> HIDE DEF S
    <3> QED BY <1>5, <2>1, <2>2, IntervalInduction
  <2> HIDE DEF S
  <2> QED BY <2>3
<1>8. /\ Reduced(SumFrac(q)) /\ Reduced(SumFrac(s))
      /\ SumFrac(r) = Spread(SumFrac(s), SumFrac(q), n)
  <2> HIDE DEF Spread
  <2> QED BY <1>1, <1>2, <1>3, <1>7
<1>9. (c ** c) ** Whole(n) = c ** SumFrac(q)
  BY WholeReduced, TimesAssociates
<1>10. Reduced(c ** SumFrac(q)) /\ Reduced(SumFrac(s) -- (c ** SumFrac(q)))
  BY <1>8, Reduces, ReducedIs
<1>11. PICK y : y = c ** SumFrac(q) /\ Reduced(y)
  BY <1>10
<1>12. y -- y = Zero
  <2>1. Zero ++ y = y /\ (Zero ++ y) -- y = Zero
    BY <1>11, PlusZero, PlusMinus, WholeReduced
  <2> QED BY <2>1
<1>13. (SumFrac(s) -- y) -- Zero = SumFrac(s) -- y
  BY <1>10, <1>11, PlusZero
<1> QED BY <1>8, <1>9, <1>11, <1>12, <1>13

\* A mean brought up to date by its distance from one more number
LEMMA RunningMean ==
  ASSUME NEW v, NEW y, Reduced(v), Reduced(y), NEW k \in Nat
  PROVE  /\ Reduced(v ++ ((y -- v) // Whole(k + 1)))
         /\ (v ++ ((y -- v) // Whole(k + 1))) ** Whole(k + 1) = (v ** Whole(k)) ++ y
<1>1. PICK w : w = Whole(k + 1) /\ Reduced(w) /\ Zero \prec w
  <2>1. Zero \prec Whole(k + 1)
    BY DEF Zero, Whole, \prec
  <2> QED BY <2>1, WholeReduced
<1>2. PICK u : u = y -- v /\ Reduced(u)
  BY Reduces, ReducedIs
<1>3. PICK z : z = u // w /\ Reduced(z) /\ z ** w = u
  BY <1>1, <1>2, OverTimes
<1>4. Reduced(v ++ z)
  BY <1>3, Reduces, ReducedIs
<1>5. (v ++ z) ** w = (v ** w) ++ u
  BY <1>1, <1>3, Distributes
<1>6. (v ** w) ++ u = (v ** Whole(k)) ++ y
  <2>1. PICK V \in Int, Y \in Int, d \in Nat \ {0} : v = Frac(V, d) /\ y = Frac(Y, d)
    BY OneDenominator
  <2>2. PICK i \in Int, j \in Int : i = V * (k + 1) /\ j = V * k
    OBVIOUS
  <2>3. v ** w = Frac(i, d) /\ v ** Whole(k) = Frac(j, d)
    <3>1. Frac(V, d) ** Whole(k + 1) = Frac(V * (k + 1), d)
      BY WholeTimes
    <3>2. Frac(V, d) ** Whole(k) = Frac(V * k, d)
      BY WholeTimes
    <3> QED BY <1>1, <2>1, <2>2, <3>1, <3>2
  <2>4. u = Frac(Y - V, d) /\ Frac(j, d) ++ Frac(Y, d) = Frac(j + Y, d)
    BY <1>2, <2>1, SameAdds
  <2>5. Frac(i, d) ++ Frac(Y - V, d) = Frac(i + (Y - V), d)
    <3>1. Y - V \in Int
      OBVIOUS
    <3> QED BY <3>1, SameAdds
  <2>6. i + (Y - V) = j + Y
    BY <2>2
  <2> QED BY <2>1, <2>3, <2>4, <2>5, <2>6
<1> QED BY <1>1, <1>2, <1>3, <1>4, <1>5, <1>6

\* With m the mean of k numbers and p that of one more, x, the two distances of x multiplied
\* are what x adds to the squares of the distances.
LEMMA TwoDistances ==
  ASSUME NEW m, NEW p, NEW x, NEW a, Reduced(m), Reduced(p), Reduced(x), Reduced(a), NEW k \in Nat,
         p ** Whole(k + 1) = (m ** Whole(k)) ++ x
  PROVE  (a -- (m ** (m ** Whole(k)))) ++ ((x -- m) ** (x -- p))
           = (a ++ (x ** x)) -- (p ** ((m ** Whole(k)) ++ x))
<1>1. PICK A \in Int, M \in Int, P \in Int, X \in Int, d \in Nat \ {0} :
        a = Frac(A, d) /\ m = Frac(M, d) /\ p = Frac(P, d) /\ x = Frac(X, d)
  BY OneDenominator4
<1>2. PICK e \in Nat \ {0} : e = d * d
  BY Positive2
<1> DEFINE Adds(z) == \A i, j \in Int : /\ Frac(i, z) ++ Frac(j, z) = Frac(i + j, z)
                                       /\ Frac(i, z) -- Frac(j, z) = Frac(i - j, z)
<1>a. Adds(d) /\ Adds(e)
  BY SameAdds
<1>3. PICK s \in Int, t \in Int, ad \in Int : s = M * k /\ t = P * (k + 1) /\ ad = A * d
  OBVIOUS
<1>4. m ** Whole(k) = Frac(s, d) /\ p ** Whole(k + 1) = Frac(t, d) /\ a = Frac(ad, e)
  <2>1. Frac(M, d) ** Whole(k) = Frac(M * k, d)
    BY WholeTimes
  <2>2. Frac(P, d) ** Whole(k + 1) = Frac(P * (k + 1), d)
    BY WholeTimes
  <2>3. Frac(A, d) = Frac(A * d, d * d)
    BY ScaleFrac
  <2> QED BY <1>1, <1>2, <1>3, <2>1, <2>2, <2>3
<1>5. (m ** Whole(k)) ++ x = Frac(s + X, d) /\ x -- m = Frac(X - M, d) /\ x -- p = Frac(X - P, d)
  BY <1>1, <1>4, <1>a
<1>6. t = s + X
  <2>1. Frac(t, d) = Frac(s + X, d) /\ s + X \in Int
    BY <1>4, <1>5
  <2> QED BY <2>1, SameEquals
<1>7. PICK ms \in Int, pt \in Int, y \in Int, xx \in Int :
        ms = M * s /\ pt = P * t /\ y = (X - M) * (X - P) /\ xx = X * X
  OBVIOUS
<1>8. /\ m ** (m ** Whole(k)) = Frac(ms, e) /\ p ** ((m ** Whole(k)) ++ x) = Frac(pt, e)
      /\ (x -- m) ** (x -- p) = Frac(y, e) /\ x ** x = Frac(xx, e)
  <2>1. Frac(M, d) ** Frac(s, d) = Frac(M * s, d * d) /\ Frac(P, d) ** Frac(t, d) = Frac(P * t, d * d)
    BY FracTimes
  <2>2. Frac(X - M, d) ** Frac(X - P, d) = Frac((X - M) * (X - P), d * d)
    <3>1. X - M \in Int /\ X - P \in Int
      OBVIOUS
    <3> QED BY <3>1, FracTimes
  <2>3. Frac(X, d) ** Frac(X, d) = Frac(X * X, d * d)
    BY FracTimes
  <2> QED BY <1>1, <1>2, <1>4, <1>5, <1>6, <1>7, <2>1, <2>2, <2>3
<1>9. /\ Frac(ad, e) -- Frac(ms, e) = Frac(ad - ms, e) /\ Frac(ad, e) ++ Frac(xx, e) = Frac(ad + xx, e)
  BY <1>a
<1>10. /\ Frac(ad - ms, e) ++ Frac(y, e) = Frac((ad - ms) + y, e)
       /\ Frac(ad + xx, e) -- Frac(pt, e) = Frac((ad + xx) - pt, e)
  <2>1. ad - ms \in Int /\ ad + xx \in Int
    OBVIOUS
  <2> QED BY <2>1, <1>a
<1>11. (ad - ms) + y = (ad + xx) - pt
  <2>1. PICK mp \in Int, xp \in Int, xm \in Int : mp = M * P /\ xp = X * P /\ xm = X * M
    OBVIOUS
  <2>2. y = ((xx - xp) - xm) + mp
    BY <1>7, <2>1
  <2>3. pt = P * s + xp
    BY <1>6, <1>7, <2>1
  <2>4. M * t = mp * k + mp
    BY <1>3, <2>1
  <2>5. M * t = ms + xm
    BY <1>6, <1>7, <2>1
  <2>6. P * s = mp * k
    BY <1>3, <2>1
  <2> QED BY <2>2, <2>3, <2>4, <2>5, <2>6
<1> QED BY <1>4, <1>8, <1>9, <1>10, <1>11

\* The sum of a sequence without its first
LEMMA SumTail ==
  ASSUME NEW q, NEW r, NEW n \in Nat, Len(q) = n + 1, Len(r) = n,
         \A k \in 1 .. n + 1 : Reduced(q[k]), \A k \in 1 .. n : r[k] = q[k + 1]
  PROVE  Reduced(SumFrac(r)) /\ SumFrac(q) = q[1] ++ SumFrac(r) /\ SumFrac(q) -- q[1] = SumFrac(r)
<1>1. PICK f : SumFrac(q) = f[n + 1] /\ f[0] = Zero /\ \A k \in 1 .. n + 1 : f[k] = f[k - 1] ++ q[k]
  <2>1. Len(q) \in Nat
    OBVIOUS
  <2>2. \E f : /\ SumFrac(q) = f[Len(q)] /\ f[0] = Zero
               /\ \A k \in 1 .. Len(q) : f[k] = f[k - 1] ++ q[k]
    BY <2>1, SumIs
  <2> QED BY <2>2
<1>2. PICK g : SumFrac(r) = g[n] /\ g[0] = Zero /\ \A k \in 1 .. n : g[k] = g[k - 1] ++ r[k]
  BY SumIs
<1>3. PICK a : a = q[1] /\ Reduced(a)
  OBVIOUS
<1> DEFINE S == {k \in 0 .. n : Reduced(g[k]) /\ f[k + 1] = a ++ g[k]}
<1>4. 0 \in S
  <2>1. 1 \in 1 .. n + 1 /\ 0 + 1 = 1 /\ 1 - 1 = 0 /\ 0 \in 0 .. n
    OBVIOUS
  <2>2. f[1] = Zero ++ a
    BY <1>1, <1>3, <2>1
  <2>3. Zero ++ a = a ++ Zero /\ Reduced(Zero)
    BY <1>3, PlusCommutes, WholeReduced
  <2> QED BY <1>2, <2>1, <2>2, <2>3
<1>5. ASSUME NEW k \in 0 .. n - 1, k \in S
      PROVE  k + 1 \in S
  <2>1. /\ k + 1 \in 1 .. n /\ (k + 1) - 1 = k /\ (k + 1) + 1 \in 1 .. n + 1
        /\ ((k + 1) + 1) - 1 = k + 1 /\ k + 1 \in 0 .. n
    OBVIOUS
  <2>2. PICK x : x = r[k + 1] /\ x = q[(k + 1) + 1] /\ Reduced(x)
    BY <2>1
  <2>3. g[k + 1] = g[k] ++ x
    BY <1>2, <2>1, <2>2
  <2>4. f[(k + 1) + 1] = f[k + 1] ++ x
    BY <1>1, <2>1, <2>2
  <2>5. Reduced(g[k]) /\ f[k + 1] = a ++ g[k]
    BY <1>5
  <2>6. (a ++ g[k]) ++ x = a ++ (g[k] ++ x)
    BY <1>3, <2>2, <2>5, PlusAssociates
  <2>7. Reduced(g[k] ++ x)
    BY <2>2, <2>5, Reduces, ReducedIs
  <2> QED BY <2>1, <2>3, <2>4, <2>5, <2>6, <2>7
<1>6. n \in S
  <2>1. 0 \in Int /\ n \in Int /\ n \in 0 .. n
    OBVIOUS
  <2>2. \A k \in 0 .. n - 1 : k \in S => k + 1 \in S
    BY <1>5
  <2> HIDE DEF S
  <2> QED BY <1>4, <2>1, <2>2, IntervalInduction
<1>7. PICK b : b = SumFrac(r) /\ Reduced(b) /\ SumFrac(q) = a ++ b
  BY <1>1, <1>2, <1>6
<1>8. (a ++ b) -- a = b
  <2>1. a ++ b = b ++ a /\ (b ++ a) -- a = b
    BY <1>3, <1>7, PlusCommutes, PlusMinus
  <2> QED BY <2>1
<1> QED BY <1>3, <1>7, <1>8

-----------------------------------------------------------------------------
(* The order of fractions *)

LEMMA PositiveFrac ==
  ASSUME NEW n \in Int, NEW d \in Nat \ {0}
  PROVE  (Zero \prec Frac(n, d) <=> n > 0) /\ (Frac(n, d) \preceq Zero <=> n <= 0)
<1>1. PICK j \in Int, k \in Nat \ {0} : Frac(n, d) = <<j, k>> /\ j * d = n * k
  BY FracParts
<1>2. (Zero \prec Frac(n, d) <=> j > 0) /\ (Frac(n, d) \preceq Zero <=> j <= 0)
  BY <1>1 DEF Zero, Whole, \prec, \preceq
<1>3. j > 0 <=> n > 0
  <2>1. j > 0 <=> j * d > 0
    OBVIOUS
  <2>2. n > 0 <=> n * k > 0
    OBVIOUS
  <2> QED BY <1>1, <2>1, <2>2
<1> QED BY <1>2, <1>3

LEMMA PositivePlus ==
  ASSUME NEW a, NEW b, Reduced(a), Reduced(b), Zero \prec a, ~(b \prec Zero)
  PROVE  Zero \prec (a ++ b)
<1>1. PICK n \in Int, m \in Int, d \in Nat \ {0} : a = Frac(n, d) /\ b = Frac(m, d)
  BY OneDenominator
<1>2. n > 0
  BY <1>1, PositiveFrac
<1>3. m >= 0
  <2>1. PICK j \in Int, k \in Nat \ {0} : Frac(m, d) = <<j, k>> /\ j * d = m * k
    BY FracParts
  <2>2. j >= 0
    BY <1>1, <2>1 DEF Zero, Whole, \prec
  <2>3. m * k >= 0
    BY <2>1, <2>2
  <2> QED BY <2>3
<1>4. a ++ b = Frac(n + m, d) /\ n + m \in Int
  BY <1>1, SameAdds
<1> QED BY <1>2, <1>3, <1>4, PositiveFrac

LEMMA NotNegative ==
  ASSUME NEW a, Reduced(a), Zero \preceq a
  PROVE  a # Zero => Zero \prec a
<1>1. PICK n \in Int, d \in Nat \ {0} : a = Frac(n, d)
  BY DEF Reduced
<1>2. PICK j \in Int, k \in Nat \ {0} : Frac(n, d) = <<j, k>> /\ j * d = n * k
  BY FracParts
<1>3. j >= 0
  BY <1>1, <1>2 DEF Zero, Whole, \preceq
<1>4. CASE j = 0
  <2>1. n * k = 0
    BY <1>2, <1>4
  <2>2. n = 0
    BY <2>1
  <2>3. Frac(0, d) = Frac(0, 1)
    <3>1. 0 * 1 = 0 * d
      OBVIOUS
    <3> QED BY <3>1, FracSame
  <2> QED BY <1>1, <2>2, <2>3, WholeIs DEF Zero
<1>5. CASE j # 0
  BY <1>1, <1>2, <1>3, <1>5 DEF Zero, Whole, \prec
<1> QED BY <1>4, <1>5

LEMMA OrderTotal ==
  ASSUME NEW a, NEW b, IsFrac(a), IsFrac(b)
  PROVE  a \preceq a /\ (a \preceq b \/ b \preceq a)
BY DEF IsFrac, \preceq

LEMMA OrderTransitive ==
  ASSUME NEW a, NEW b, NEW c, IsFrac(a), IsFrac(b), IsFrac(c), a \preceq b, b \preceq c
  PROVE  a \preceq c
<1>1. PICK n \in Int, d \in Nat \ {0} : a = <<n, d>>
  BY DEF IsFrac
<1>2. PICK m \in Int, e \in Nat \ {0} : b = <<m, e>>
  BY DEF IsFrac
<1>3. PICK p \in Int, q \in Nat \ {0} : c = <<p, q>>
  BY DEF IsFrac
<1>4. n * e <= m * d /\ m * q <= p * e
  BY <1>1, <1>2, <1>3 DEF \preceq
<1>5. \A x, y \in Int, z \in Nat \ {0} : x <= y <=> x * z <= y * z
  OBVIOUS
<1>6. (n * e) * q <= (m * d) * q /\ (m * q) * d <= (p * e) * d
  BY <1>4, <1>5
<1>7. (m * d) * q = (m * q) * d /\ (n * e) * q = (n * q) * e /\ (p * e) * d = (p * d) * e
  OBVIOUS
<1>8. (n * q) * e <= (p * d) * e
  BY <1>6, <1>7
<1>9. n * q <= p * d
  <2>1. n * q \in Int /\ p * d \in Int
    OBVIOUS
  <2> QED BY <1>5, <1>8, <2>1
<1> QED BY <1>1, <1>3, <1>9 DEF \preceq

\* Of finitely many fractions there is a greatest.
LEMMA GreatestOf ==
  ASSUME NEW q, NEW n \in Nat \ {0}, \A k \in 1 .. n : IsFrac(q[k])
  PROVE  \E k \in 1 .. n : \A j \in 1 .. n : q[j] \preceq q[k]
<1> DEFINE S == {m \in 1 .. n : \E k \in 1 .. m : \A j \in 1 .. m : q[j] \preceq q[k]}
<1>1. 1 \in S
  <2>1. q[1] \preceq q[1]
    BY OrderTotal
  <2> QED BY <2>1
<1>2. ASSUME NEW m \in 1 .. n - 1, m \in S
      PROVE  m + 1 \in S
  <2>1. PICK k \in 1 .. m : \A j \in 1 .. m : q[j] \preceq q[k]
    BY <1>2
  <2>2. IsFrac(q[k]) /\ IsFrac(q[m + 1]) /\ m + 1 \in 1 .. n /\ k \in 1 .. m + 1 /\ m + 1 \in 1 .. m + 1
    OBVIOUS
  <2>3. CASE q[m + 1] \preceq q[k]
    <3>1. \A j \in 1 .. m + 1 : q[j] \preceq q[k]
      BY <2>1, <2>3
    <3> QED BY <2>2, <3>1
  <2>4. CASE q[k] \preceq q[m + 1]
    <3>1. ASSUME NEW j \in 1 .. m + 1 PROVE q[j] \preceq q[m + 1]
      <4>1. CASE j = m + 1
        BY <4>1, <2>2, OrderTotal
      <4>2. CASE j \in 1 .. m
        <5>1. IsFrac(q[j]) /\ q[j] \preceq q[k]
          BY <4>2, <2>1
        <5> QED BY <5>1, <2>2, <2>4, OrderTransitive
      <4> QED BY <4>1, <4>2
    <3> QED BY <2>2, <3>1
  <2> QED BY <2>2, <2>3, <2>4, OrderTotal
<1>3. n \in S
  <2>1. 1 \in Int /\ n \in Int /\ n \in 1 .. n
    OBVIOUS
  <2>2. \A m \in 1 .. n - 1 : m \in S => m + 1 \in S
    BY <1>2
  <2> HIDE DEF S
  <2> QED BY <1>1, <2>1, <2>2, IntervalInduction
<1> QED BY <1>3

LEMMA MinusBelow ==
  ASSUME NEW a, NEW b, Reduced(a), Reduced(b), a \preceq b
  PROVE  (a -- b) \preceq Zero
<1>1. PICK n \in Int, d \in Nat \ {0} : a = <<n, d>>
  BY ReducedIs DEF IsFrac
<1>2. PICK m \in Int, e \in Nat \ {0} : b = <<m, e>>
  BY ReducedIs DEF IsFrac
<1>3. n * e <= m * d
  BY <1>1, <1>2 DEF \preceq
<1>4. a -- b = Frac(n * e - m * d, d * e) /\ d * e \in Nat \ {0} /\ n * e - m * d \in Int
  BY <1>1, <1>2, Positive2 DEF --
<1>5. n * e - m * d <= 0
  BY <1>3
<1> QED BY <1>4, <1>5, PositiveFrac

\* On one denominator, the order is that of the numerators,
LEMMA SameOrder ==
  ASSUME NEW n \in Int, NEW m \in Int, NEW d \in Nat \ {0}
  PROVE  Frac(n, d) \preceq Frac(m, d) <=> n <= m
<1>1. PICK j \in Int, k \in Nat \ {0} : Frac(n, d) = <<j, k>> /\ j * d = n * k
  BY FracParts
<1>2. PICK p \in Int, q \in Nat \ {0} : Frac(m, d) = <<p, q>> /\ p * d = m * q
  BY FracParts
<1>3. Frac(n, d) \preceq Frac(m, d) <=> j * q <= p * k
  BY <1>1, <1>2 DEF \preceq
<1>4. \A x, y \in Int, z \in Nat \ {0} : x <= y <=> x * z <= y * z
  OBVIOUS
<1>5. PICK c \in Nat \ {0} : c = k * q
  BY Positive2
<1>6. (j * q) * d = n * c /\ (p * k) * d = m * c
  <2>1. (j * q) * d = (j * d) * q /\ (p * k) * d = (p * d) * k
    OBVIOUS
  <2>2. (n * k) * q = n * c /\ (m * q) * k = m * c
    BY <1>5
  <2> QED BY <1>1, <1>2, <2>1, <2>2
<1>7. j * q \in Int /\ p * k \in Int
  OBVIOUS
<1>8. j * q <= p * k <=> n * c <= m * c
  BY <1>4, <1>6, <1>7
<1>9. n * c <= m * c <=> n <= m
  BY <1>4
<1> QED BY <1>3, <1>8, <1>9

\* and of two equal ones neither is below the other.
LEMMA OrderSame ==
  ASSUME NEW a, NEW b, Reduced(a), Reduced(b), a \preceq b, b \preceq a
  PROVE  a = b
<1>1. PICK n \in Int, m \in Int, d \in Nat \ {0} : a = Frac(n, d) /\ b = Frac(m, d)
  BY OneDenominator
<1>2. n <= m /\ m <= n
  BY <1>1, SameOrder
<1>3. n = m
  BY <1>2
<1> QED BY <1>1, <1>3

\* A difference keeps the order.
LEMMA MinusOrder ==
  ASSUME NEW a, NEW b, NEW c, Reduced(a), Reduced(b), Reduced(c), a \preceq b
  PROVE  (a -- c) \preceq (b -- c) /\ Reduced(a -- c) /\ Reduced(b -- c)
<1>1. PICK n \in Int, m \in Int, k \in Int, l \in Int, d \in Nat \ {0} :
        a = Frac(n, d) /\ b = Frac(m, d) /\ c = Frac(k, d) /\ c = Frac(l, d)
  BY OneDenominator4
<1>2. n <= m
  BY <1>1, SameOrder
<1>3. a -- c = Frac(n - k, d) /\ b -- c = Frac(m - k, d)
  <2>1. Frac(n, d) -- Frac(k, d) = Frac(n - k, d)
    BY SameAdds
  <2>2. Frac(m, d) -- Frac(k, d) = Frac(m - k, d)
    BY SameAdds
  <2> QED BY <1>1, <2>1, <2>2
<1>4. n - k <= m - k /\ n - k \in Int /\ m - k \in Int
  BY <1>2
<1>5. Frac(n - k, d) \preceq Frac(m - k, d)
  BY <1>4, SameOrder
<1> QED BY <1>3, <1>4, <1>5 DEF Reduced

\* The greater of two is one of them, and at least each.
LEMMA GreaterOf ==
  ASSUME NEW a, NEW b, Reduced(a), Reduced(b)
  PROVE  /\ MaxFrac(a, b) = a \/ MaxFrac(a, b) = b
         /\ Reduced(MaxFrac(a, b)) /\ a \preceq MaxFrac(a, b) /\ b \preceq MaxFrac(a, b)
<1>1. PICK n \in Int, d \in Nat \ {0} : a = <<n, d>>
  BY ReducedIs DEF IsFrac
<1>2. PICK m \in Int, e \in Nat \ {0} : b = <<m, e>>
  BY ReducedIs DEF IsFrac
<1> QED BY <1>1, <1>2 DEF MaxFrac, \prec, \preceq

LEMMA Transitive ==
  ASSUME NEW a, NEW b, NEW c, Reduced(a), Reduced(b), Reduced(c), a \preceq b, b \preceq c
  PROVE  a \preceq c
BY ReducedIs, OrderTransitive

-----------------------------------------------------------------------------
(* Shares of a sum *)

LEMMA OneOver ==
  ASSUME NEW a, NEW b, Reduced(a), Reduced(b), Zero \prec b, a ** b = b
  PROVE  a = One
<1>1. PICK n \in Int, m \in Int, d \in Nat \ {0} : a = Frac(n, d) /\ b = Frac(m, d)
  BY OneDenominator
<1>2. m > 0
  BY <1>1, PositiveFrac
<1>3. Frac(n, d) ** Frac(m, d) = Frac(n * m, d * d)
  BY FracTimes
<1>4. Frac(m, d) = Frac(m * d, d * d)
  BY ScaleFrac
<1>5. PICK e \in Nat \ {0}, p \in Int, q \in Int : e = d * d /\ p = n * m /\ q = m * d
  BY Positive2
<1>6. p = q
  BY <1>1, <1>3, <1>4, <1>5, SameEquals
<1>7. n = d
  <2>1. n * m = d * m
    BY <1>5, <1>6
  <2> QED BY <1>2, <2>1
<1>8. Frac(d, d) = Frac(1, 1)
  <2>1. d * 1 = 1 * d
    OBVIOUS
  <2> QED BY <2>1, FracSame
<1> QED BY <1>1, <1>7, <1>8, WholeIs DEF One

\* The sum of parts that are each multiplied
LEMMA SumTimes ==
  ASSUME NEW q, NEW r, NEW s, NEW n \in Nat, Len(q) = n, Len(r) = n, Reduced(s),
         \A k \in 1 .. n : Reduced(q[k]) /\ q[k] ** s = r[k]
  PROVE  Reduced(SumFrac(q)) /\ SumFrac(q) ** s = SumFrac(r)
<1>1. PICK f : SumFrac(q) = f[n] /\ f[0] = Zero /\ \A k \in 1 .. n : f[k] = f[k - 1] ++ q[k]
  BY SumIs
<1>2. PICK g : SumFrac(r) = g[n] /\ g[0] = Zero /\ \A k \in 1 .. n : g[k] = g[k - 1] ++ r[k]
  BY SumIs
<1> DEFINE S == {k \in 0 .. n : Reduced(f[k]) /\ f[k] ** s = g[k]}
<1>3. 0 \in S
  <2>1. 0 \in 0 .. n /\ Reduced(Zero) /\ Zero ** s = Zero
    BY WholeReduced, TimesOne
  <2> QED BY <1>1, <1>2, <2>1
<1>4. ASSUME NEW k \in 0 .. n - 1, k \in S
      PROVE  k + 1 \in S
  <2>1. k + 1 \in 1 .. n /\ (k + 1) - 1 = k /\ k + 1 \in 0 .. n
    OBVIOUS
  <2>2. PICK x : x = q[k + 1] /\ Reduced(x) /\ x ** s = r[k + 1]
    BY <2>1
  <2>3. f[k + 1] = f[k] ++ x /\ g[k + 1] = g[k] ++ (x ** s)
    BY <1>1, <1>2, <2>1, <2>2
  <2>4. Reduced(f[k]) /\ f[k] ** s = g[k]
    BY <1>4
  <2>5. (f[k] ++ x) ** s = (f[k] ** s) ++ (x ** s) /\ Reduced(f[k] ++ x)
    BY <2>2, <2>4, Distributes, Reduces, ReducedIs
  <2> QED BY <2>1, <2>3, <2>4, <2>5
<1>5. n \in S
  <2>1. 0 \in Int /\ n \in Int /\ n \in 0 .. n
    OBVIOUS
  <2>2. \A k \in 0 .. n - 1 : k \in S => k + 1 \in S
    BY <1>4
  <2> HIDE DEF S
  <2> QED BY <1>3, <2>1, <2>2, IntervalInduction
<1> QED BY <1>1, <1>2, <1>5

\* Parts of a sum, each divided by it, add up to one.
LEMMA SharesAddUp ==
  ASSUME NEW q, NEW r, NEW n \in Nat, Len(q) = n, Len(r) = n, Zero \prec SumFrac(r),
         \A k \in 1 .. n : Reduced(r[k]) /\ q[k] = r[k] // SumFrac(r)
  PROVE  SumFrac(q) = One
<1>1. PICK s : s = SumFrac(r) /\ Reduced(s) /\ Zero \prec s
  BY SumReduced
<1>2. \A k \in 1 .. n : Reduced(q[k]) /\ q[k] ** s = r[k]
  BY <1>1, OverTimes
<1>3. Reduced(SumFrac(q)) /\ SumFrac(q) ** s = s
  BY <1>1, <1>2, SumTimes
<1> QED BY <1>1, <1>3, OneOver

\* What is not negative stays so with what is not negative, and positive if either is.
LEMMA NotNegativePlus ==
  ASSUME NEW a, NEW b, Reduced(a), Reduced(b), Zero \preceq a, Zero \preceq b
  PROVE  Zero \preceq (a ++ b) /\ (Zero \prec a \/ Zero \prec b => Zero \prec (a ++ b))
<1>1. ASSUME NEW c, Reduced(c)
      PROVE  (Zero \preceq c <=> ~(c \prec Zero)) /\ (Zero \prec c => Zero \preceq c)
  <2>1. PICK n \in Int, d \in Nat \ {0} : c = <<n, d>>
    BY <1>1, ReducedIs DEF IsFrac
  <2> QED BY <2>1 DEF Zero, Whole, \prec, \preceq
<1>2. Reduced(a ++ b) /\ a ++ b = b ++ a
  BY PlusCommutes, Reduces, ReducedIs
<1>3. CASE Zero \prec a
  BY <1>1, <1>2, <1>3, PositivePlus
<1>4. CASE Zero \prec b
  BY <1>1, <1>2, <1>4, PositivePlus
<1>5. CASE ~(Zero \prec a) /\ ~(Zero \prec b)
  <2>1. a = Zero
    BY <1>5, NotNegative
  <2>2. a ++ b = b
    BY <2>1, PlusZero
  <2> QED BY <1>5, <2>2
<1> QED BY <1>3, <1>4, <1>5

\* A sum of what is not negative is positive if one of it is.
LEMMA SumPositive ==
  ASSUME NEW q, NEW n \in Nat \ {0}, Len(q) = n, NEW m \in 1 .. n, Zero \prec q[m],
         \A k \in 1 .. n : Reduced(q[k]) /\ Zero \preceq q[k]
  PROVE  Zero \prec SumFrac(q)
<1>1. PICK f : SumFrac(q) = f[n] /\ f[0] = Zero /\ \A k \in 1 .. n : f[k] = f[k - 1] ++ q[k]
  BY SumIs
<1> DEFINE S == {k \in 0 .. n : Reduced(f[k]) /\ Zero \preceq f[k] /\ (k >= m => Zero \prec f[k])}
<1>2. 0 \in S
  <2>1. Reduced(Zero) /\ Zero \preceq Zero
    BY WholeReduced DEF Zero, Whole, \preceq
  <2> QED BY <1>1, <2>1
<1>3. ASSUME NEW k \in 0 .. n - 1, k \in S
      PROVE  k + 1 \in S
  <2>1. k + 1 \in 1 .. n /\ (k + 1) - 1 = k /\ k + 1 \in 0 .. n
    OBVIOUS
  <2>2. PICK x : x = q[k + 1] /\ Reduced(x) /\ Zero \preceq x
    BY <2>1
  <2>3. PICK y : y = f[k]
    OBVIOUS
  <2>4. Reduced(y) /\ Zero \preceq y /\ (k >= m => Zero \prec y)
    BY <1>3, <2>3
  <2>5. f[k + 1] = y ++ x /\ Reduced(y ++ x)
    BY <1>1, <2>1, <2>2, <2>3, <2>4, Reduces, ReducedIs
  <2>6. Zero \preceq (y ++ x) /\ (Zero \prec y \/ Zero \prec x => Zero \prec (y ++ x))
    BY <2>2, <2>4, NotNegativePlus
  <2>7. k + 1 >= m => Zero \prec y \/ Zero \prec x
    <3>1. CASE k >= m
      BY <2>4, <3>1
    <3>2. CASE ~(k >= m)
      <4>1. k + 1 >= m => k + 1 = m
        BY <3>2
      <4> QED BY <2>2, <4>1
    <3> QED BY <3>1, <3>2
  <2> QED BY <2>1, <2>5, <2>6, <2>7
<1>4. n \in S
  <2>1. 0 \in Int /\ n \in Int /\ n \in 0 .. n
    OBVIOUS
  <2>2. \A k \in 0 .. n - 1 : k \in S => k + 1 \in S
    BY <1>3
  <2> HIDE DEF S
  <2> QED BY <1>2, <2>1, <2>2, IntervalInduction
<1>5. n >= m => Zero \prec f[n]
  BY <1>4
<1> QED BY <1>1, <1>5

-----------------------------------------------------------------------------
(* Fractions in lowest terms as a ring *)

Lowest == {Frac(n, d) : n \in Int, d \in Nat \ {0}}
LEMMA LowestIs ==
  ASSUME NEW a
  PROVE  a \in Lowest <=> Reduced(a)
BY DEF Lowest, Reduced

Minus1 == Zero -- One

\* The laws of a commutative ring, of fractions in lowest terms
LEMMA Ring ==
  /\ \A a, b \in Lowest : a ++ b \in Lowest /\ a -- b \in Lowest /\ a ** b \in Lowest
  /\ \A a, b \in Lowest : a ++ b = b ++ a
  /\ \A a, b, c \in Lowest : (a ++ b) ++ c = a ++ (b ++ c)
  /\ \A a, b \in Lowest : a ** b = b ** a
  /\ \A a, b, c \in Lowest : (a ** b) ** c = a ** (b ** c)
  /\ \A a, b, c \in Lowest : (a ++ b) ** c = (a ** c) ++ (b ** c)
  /\ \A a, b, c \in Lowest : c ** (a ++ b) = (c ** a) ++ (c ** b)
  /\ \A a \in Lowest : a ++ Zero = a /\ Zero ++ a = a /\ a ** One = a /\ One ** a = a
                       /\ a ** Zero = Zero /\ Zero ** a = Zero
  /\ Zero \in Lowest /\ One \in Lowest
<1>1. \A a, b \in Lowest : a ++ b \in Lowest /\ a -- b \in Lowest /\ a ** b \in Lowest
  BY LowestIs, ReducedIs, Reduces
<1>2. \A a, b \in Lowest : a ++ b = b ++ a
  BY LowestIs, PlusCommutes
<1>3. \A a, b, c \in Lowest : (a ++ b) ++ c = a ++ (b ++ c)
  BY LowestIs, PlusAssociates
<1>4. \A a, b \in Lowest : a ** b = b ** a
  <2>1. ASSUME NEW a \in Lowest, NEW b \in Lowest PROVE a ** b = b ** a
    <3>1. IsFrac(a) /\ IsFrac(b)
      BY LowestIs, ReducedIs
    <3>2. a[1] * b[1] = b[1] * a[1] /\ a[2] * b[2] = b[2] * a[2]
      BY <3>1 DEF IsFrac
    <3> QED BY <3>2 DEF **
  <2> QED BY <2>1
<1>5. \A a, b, c \in Lowest : (a ** b) ** c = a ** (b ** c)
  BY LowestIs, TimesAssociates
<1>6. \A a, b, c \in Lowest : (a ++ b) ** c = (a ** c) ++ (b ** c)
  BY LowestIs, Distributes
<1>7. \A a \in Lowest : a ++ Zero = a /\ Zero ++ a = a /\ a ** One = a /\ One ** a = a
                        /\ a ** Zero = Zero /\ Zero ** a = Zero
  BY LowestIs, PlusZero, TimesOne
<1>8. Zero \in Lowest /\ One \in Lowest
  <2>1. 0 \in Int
    OBVIOUS
  <2> QED BY <2>1, LowestIs, WholeReduced
<1>9. \A a, b, c \in Lowest : c ** (a ++ b) = (c ** a) ++ (c ** b)
  <2>1. ASSUME NEW a \in Lowest, NEW b \in Lowest, NEW c \in Lowest
        PROVE  c ** (a ++ b) = (c ** a) ++ (c ** b)
    BY <1>1, <1>4, <1>6
  <2> QED BY <2>1
<1> QED BY <1>1, <1>2, <1>3, <1>4, <1>5, <1>6, <1>7, <1>8, <1>9

\* Adding to each of two terms, and taking the terms out
TermsAdded(p, q, c, x, y, z) ==
  (p ++ (c ** q)) ++ (x ** (y ++ (c ** z))) = (p ++ (x ** y)) ++ (c ** (q ++ (x ** z)))
LEMMA AddTerms ==
  ASSUME NEW p \in Lowest, NEW q \in Lowest, NEW c \in Lowest, NEW x \in Lowest, NEW y \in Lowest,
         NEW z \in Lowest
  PROVE  TermsAdded(p, q, c, x, y, z)
<1>1. x ** (y ++ (c ** z)) = (x ** y) ++ (c ** (x ** z))
  <2>1. x ** (c ** z) = c ** (x ** z)
    <3>1. x ** (c ** z) = (x ** c) ** z /\ x ** c = c ** x /\ (c ** x) ** z = c ** (x ** z)
      BY Ring
    <3> QED BY <3>1
  <2>2. c ** z \in Lowest
    BY Ring
  <2> QED BY <2>1, <2>2, Ring
<1>2. c ** (q ++ (x ** z)) = (c ** q) ++ (c ** (x ** z))
  <2>1. x ** z \in Lowest
    BY Ring
  <2> QED BY <2>1, Ring
<1>3. PICK cq \in Lowest, xy \in Lowest, cxz \in Lowest :
        cq = c ** q /\ xy = x ** y /\ cxz = c ** (x ** z)
  <2>1. x ** z \in Lowest /\ c ** q \in Lowest /\ x ** y \in Lowest
    BY Ring
  <2> QED BY <2>1, Ring
<1>4. (p ++ cq) ++ (xy ++ cxz) = (p ++ xy) ++ (cq ++ cxz)
  <2>1. (p ++ cq) ++ (xy ++ cxz) = p ++ (cq ++ (xy ++ cxz))
    <3>1. xy ++ cxz \in Lowest
      BY Ring
    <3> QED BY <3>1, Ring
  <2>2. cq ++ (xy ++ cxz) = xy ++ (cq ++ cxz)
    <3>1. cq ++ (xy ++ cxz) = (cq ++ xy) ++ cxz /\ cq ++ xy = xy ++ cq
          /\ (xy ++ cq) ++ cxz = xy ++ (cq ++ cxz)
      BY Ring
    <3> QED BY <3>1
  <2>3. p ++ (xy ++ (cq ++ cxz)) = (p ++ xy) ++ (cq ++ cxz)
    <3>1. cq ++ cxz \in Lowest
      BY Ring
    <3> QED BY <3>1, Ring
  <2> QED BY <2>1, <2>2, <2>3
<1> QED BY <1>1, <1>2, <1>3, <1>4 DEF TermsAdded

\* Taking away is adding the opposite
LEMMA MinusIs ==
  ASSUME NEW a \in Lowest, NEW b \in Lowest
  PROVE  Minus1 \in Lowest /\ a -- b = a ++ (Minus1 ** b) /\ b ++ (Minus1 ** b) = Zero
<1>1. Minus1 \in Lowest
  BY Ring DEF Minus1
<1>2. PICK n \in Int, m \in Int, d \in Nat \ {0} : a = Frac(n, d) /\ b = Frac(m, d)
  BY LowestIs, OneDenominator
<1>3. Minus1 = Frac(-1, 1)
  <2>1. Minus1 = Frac(0 * 1 - 1 * 1, 1 * 1)
    BY DEF Minus1, Zero, One, Whole, --
  <2> QED BY <2>1
<1>4. Minus1 ** b = Frac(-m, d)
  <2>1. Frac(-1, 1) ** Frac(m, d) = Frac((-1) * m, 1 * d)
    BY FracTimes
  <2>2. (-1) * m = -m /\ 1 * d = d
    OBVIOUS
  <2> QED BY <1>2, <1>3, <2>1, <2>2
<1>5. a -- b = Frac(n - m, d) /\ a ++ (Minus1 ** b) = Frac(n + (-m), d)
  <2>1. -m \in Int
    OBVIOUS
  <2> QED BY <1>2, <1>4, <2>1, SameAdds
<1>6. n + (-m) = n - m
  OBVIOUS
<1>7. b ++ (Minus1 ** b) = Zero
  <2>1. b ++ (Minus1 ** b) = Frac(m + (-m), d)
    BY <1>2, <1>4, SameAdds
  <2>2. m + (-m) = 0
    OBVIOUS
  <2>3. Frac(0, d) = Frac(0, 1)
    <3>1. 0 * 1 = 0 * d
      OBVIOUS
    <3> QED BY <3>1, FracSame
  <2>4. Zero = Frac(0, 1)
    BY WholeIs DEF Zero
  <2> QED BY <2>1, <2>2, <2>3, <2>4
<1> QED BY <1>1, <1>5, <1>6, <1>7

\* Dividing is multiplying by the inverse
LEMMA OverIs ==
  ASSUME NEW b \in Lowest, Zero \prec b
  PROVE  /\ One // b \in Lowest /\ (One // b) ** b = One
         /\ \A a \in Lowest : a // b = (One // b) ** a /\ a // b \in Lowest
<1>1. One // b \in Lowest /\ (One // b) ** b = One
  <2>1. Reduced(One)
    BY Ring, LowestIs
  <2> QED BY <2>1, LowestIs, OverTimes
<1>2. ASSUME NEW a \in Lowest
      PROVE  a // b = (One // b) ** a /\ a // b \in Lowest
  <2>1. PICK q \in Lowest, t \in Lowest : q = a // b /\ t = One // b /\ q ** b = a /\ t ** b = One
    <3>1. a // b \in Lowest /\ (a // b) ** b = a
      BY LowestIs, OverTimes
    <3> QED BY <1>1, <3>1
  <2>2. t ** (q ** b) = q ** (t ** b)
    <3>1. t ** (q ** b) = (t ** q) ** b /\ t ** q = q ** t /\ (q ** t) ** b = q ** (t ** b)
      BY Ring
    <3> QED BY <3>1
  <2>3. q ** One = q
    BY Ring
  <2> QED BY <2>1, <2>2, <2>3
<1> QED BY <1>1, <1>2

LEMMA SquareIs ==
  ASSUME NEW a \in Lowest
  PROVE  Zero \preceq (a ** a)
<1>1. PICK n \in Int, d \in Nat \ {0} : a = Frac(n, d)
  BY LowestIs DEF Reduced
<1>2. a ** a = Frac(n * n, d * d) /\ n * n \in Int /\ d * d \in Nat \ {0}
  BY <1>1, FracTimes, Positive2
<1>3. n * n >= 0
  OBVIOUS
<1>4. PICK m \in Int, e \in Nat \ {0} : m = n * n /\ e = d * d
  BY <1>2
<1>5. Zero = Frac(0, e)
  <2>1. Zero = Frac(0, 1)
    BY WholeIs DEF Zero
  <2>2. 0 * e = 0 * 1
    OBVIOUS
  <2> QED BY <2>1, <2>2, FracSame
<1>6. Frac(0, e) \preceq Frac(m, e)
  BY <1>3, <1>4, SameOrder
<1> QED BY <1>2, <1>4, <1>5, <1>6

\* A number read as a fraction, and the same in lowest terms, multiply alike.
LEMMA Lowered ==
  ASSUME NEW a, IsFrac(a)
  PROVE  a ** One \in Lowest /\ \A v \in Lowest : a ** v = (a ** One) ** v /\ a ** v \in Lowest
<1>1. PICK n \in Int, d \in Nat \ {0} : a = <<n, d>>
  BY DEF IsFrac
<1>2. a ** One = Frac(n, d)
  <2>1. n * 1 = n /\ d * 1 = d
    OBVIOUS
  <2> QED BY <1>1, <2>1 DEF **, One, Whole
<1>3. ASSUME NEW v \in Lowest
      PROVE  a ** v = (a ** One) ** v /\ a ** v \in Lowest
  <2>1. PICK m \in Int, e \in Nat \ {0} : v = Frac(m, e)
    BY LowestIs DEF Reduced
  <2>2. PICK j \in Int, k \in Nat \ {0} : Frac(m, e) = <<j, k>> /\ j * e = m * k
    BY FracParts
  <2>3. a ** v = Frac(n * j, d * k)
    BY <1>1, <2>1, <2>2 DEF **
  <2>4. (a ** One) ** v = Frac(n * m, d * e)
    BY <1>2, <2>1, FracTimes
  <2>5. (n * j) * (d * e) = (n * m) * (d * k)
    <3>1. (n * j) * (d * e) = (n * d) * (j * e) /\ (n * m) * (d * k) = (n * d) * (m * k)
      OBVIOUS
    <3> QED BY <2>2, <3>1
  <2>6. n * j \in Int /\ n * m \in Int /\ d * k \in Nat \ {0} /\ d * e \in Nat \ {0}
    BY Positive2
  <2>7. PICK p \in Int, q \in Nat \ {0}, s \in Int, t \in Nat \ {0} :
          p = n * j /\ q = d * k /\ s = n * m /\ t = d * e
    BY <2>6
  <2>8. Frac(p, q) = Frac(s, t)
    BY <2>5, <2>7, FracSame
  <2> QED BY <2>3, <2>4, <2>6, <2>7, <2>8 DEF Lowest
<1>4. a ** One \in Lowest
  BY <1>2 DEF Lowest
<1> QED BY <1>3, <1>4
=============================================================================
