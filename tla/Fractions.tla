------------------------------ MODULE Fractions ------------------------------
(***************************************************************************)
(* Exact fractions in place of the floating-point numbers of the code, so  *)
(* that an algorithm can be compared with its definition without rounding. *)
(* A fraction is <<n, d>> in lowest terms with d > 0.                      *)
(***************************************************************************)
EXTENDS Integers, Sequences, SequencesExt

Gcd[p \in Nat \X Nat] == IF p[2] = 0 THEN p[1] ELSE Gcd[<<p[2], p[1] % p[2]>>]

IntAbs(n) == IF n < 0 THEN -n ELSE n

\* n / d in lowest terms
Frac(n, d) ==
  LET g == Gcd[<<IntAbs(n), IntAbs(d)>>]
      s == IF d < 0 THEN -1 ELSE 1
  IN <<s * (n \div g), s * (d \div g)>>

Whole(n) == <<n, 1>>
Zero     == Whole(0)
One      == Whole(1)

a ++ b == Frac(a[1] * b[2] + b[1] * a[2], a[2] * b[2])
a -- b == Frac(a[1] * b[2] - b[1] * a[2], a[2] * b[2])
a ** b == Frac(a[1] * b[1], a[2] * b[2])
a // b == Frac(a[1] * b[2], a[2] * b[1])

a \prec b   == a[1] * b[2] < b[1] * a[2]
a \preceq b == a[1] * b[2] <= b[1] * a[2]

MaxFrac(a, b) == IF a \prec b THEN b ELSE a
MinFrac(a, b) == IF a \prec b THEN a ELSE b
AbsFrac(a)    == <<IntAbs(a[1]), a[2]>>
Clamp(a, lo, hi) == MinFrac(MaxFrac(a, lo), hi)

SumFrac(q) ==
  LET sum[k \in 0 .. Len(q)] == IF k = 0 THEN Zero ELSE sum[k - 1] ++ q[k] IN sum[Len(q)]
MeanFrac(q) == IF q = <<>> THEN Zero ELSE SumFrac(q) // Whole(Len(q))

\* The truncation `as u64' of a fraction that is not negative, and saturates at 0 below
Truncated(a) == IF a[1] < 0 THEN 0 ELSE a[1] \div a[2]

IsFrac(a) == a \in Int \X (Nat \ {0})

\* The members of q at the places of T, in their order
Taken(q, T) ==
  LET f[k \in 0 .. Len(q)] ==
        IF k = 0 THEN <<>> ELSE IF k \in T THEN Append(f[k - 1], q[k]) ELSE f[k - 1]
  IN f[Len(q)]
=============================================================================
