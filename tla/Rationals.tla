----------------------------- MODULE Rationals -----------------------------
(***************************************************************************)
(* Exact arithmetic for the floating-point formulas of model/: a number is *)
(* a fraction <<n, d>> in lowest terms with d > 0, and float("inf") is     *)
(* <<1, 0>>.  Rounding is left out, and with it the tolerances (1e-9,      *)
(* 1e-12) the code adds to its comparisons.                                *)
(***************************************************************************)
EXTENDS Integers, Sequences

Seqs == INSTANCE SequencesExt  \* operators on sequences

Rational == Int \X Nat
Finite   == Int \X (Nat \ {0})

(* The numerator may be negative if the denominator is not 0.               *)
Gcd[a \in Rational] == IF a[2] = 0 THEN a[1] ELSE Gcd[<<a[2], a[1] % a[2]>>]

Divided(n, d, g) == <<n \div g, d \div g>>
Reduced(n, d) == Divided(n, d, Gcd[<<n, d>>])

Q(n) == <<n, 1>>
Zero == Q(0)
One  == Q(1)
Inf  == <<1, 0>>
Ratio(n, d) == Reduced(n, d)
LowestTerms == {a \in Finite : Reduced(a[1], a[2]) = a}

(* g divides both denominators; factors are cancelled crosswise before     *)
(* they are multiplied.  Both keep the numbers small.                      *)
Plus(a, b, g) ==
  Reduced(a[1] * (b[2] \div g) + b[1] * (a[2] \div g), a[2] * (b[2] \div g))
Times(a, b) == <<a[1] * b[1], a[2] * b[2]>>

a ++ b == Plus(a, b, Gcd[<<a[2], b[2]>>])
a -- b == a ++ <<-b[1], b[2]>>
a ** b == Times(Reduced(a[1], b[2]), Reduced(b[1], a[2]))
a // b == a ** <<b[2], b[1]>>   \* b is positive, or infinite

(* c is a pair of numbers.  Their whole parts come first, then the         *)
(* reciprocals of what is left, so that nothing is multiplied; n/0 is      *)
(* infinite.                                                               *)
AtMost[c \in Rational \X Rational] ==
  LET a == c[1]
      b == c[2]
  IN  \/ b[2] = 0
      \/ /\ a[2] # 0
         /\ \/ a[1] \div a[2] < b[1] \div b[2]
            \/ /\ a[1] \div a[2] = b[1] \div b[2]
               /\ AtMost[<< <<b[2], b[1] % b[2]>>, <<a[2], a[1] % a[2]>> >>]

a \preceq b == AtMost[<<a, b>>]
a \prec b   == ~(b \preceq a)

a \sqcap b == IF b \prec a THEN b ELSE a   \* min(a, b)
a \sqcup b == IF a \prec b THEN b ELSE a   \* max(a, b)

(* The guarded quotients of the code: x / y if y > 0 else 0, else inf.     *)
OverOrZero(a, b) == IF Zero \prec b THEN a // b ELSE Zero
OverOrInf(a, b)  == IF Zero \prec b THEN a // b ELSE Inf

(* int(a) for a >= 0.                                                      *)
Floor(a) == Q(a[1] \div a[2])

(* a ** n for a natural number n.                                          *)
Power(a, n) ==
  LET power[k \in 0..n[1]] == IF k = 0 THEN One ELSE power[k-1] ** a IN power[n[1]]

(* The sum of the first n numbers of xs, and sum(F(e) for e in seq).       *)
SumTo(xs, n) ==
  LET sum[k \in 0..n] == IF k = 0 THEN Zero ELSE sum[k-1] ++ xs[k] IN sum[n]
Total(F(_), seq) == SumTo([k \in DOMAIN seq |-> F(seq[k])], Len(seq))
Mean(F(_), seq)  == Total(F, seq) // Q(Len(seq))
=============================================================================
