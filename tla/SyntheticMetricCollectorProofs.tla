------------------- MODULE SyntheticMetricCollectorProofs -------------------
(***************************************************************************)
(* Proofs about the synthetic collector, for every configuration, every    *)
(* precision and range of the doubles, and any number of calls.            *)
(*                                                                         *)
(* Rounding is never unfolded beyond one lemma: a rounded integer is off   *)
(* by half a unit in the last place at most.  The error of a sample is the *)
(* sum of two of these, and the unit of the rounded sum is at most twice   *)
(* that of the exact one.                                                  *)
(***************************************************************************)
EXTENDS SyntheticMetricCollector, WellFoundedInduction, SequenceTheorems, TLAPS

\* A set of natural numbers has a least one.
LEMMA HasLeast ==
  ASSUME NEW T, T \subseteq Nat, T # {}
  PROVE  \E n \in T : \A m \in T : n <= m
<1> DEFINE R == {p \in Nat \X Nat : p[1] < p[2]}
<1>1. IsWellFoundedOn(R, Nat)
  BY NatLessThanWellFounded DEF OpToRel
<1>2. PICK n \in T : \A m \in T : <<m, n>> \notin R
  <2> HIDE DEF R
  <2> QED BY <1>1, WFMin
<1>3. \A m \in T : ~(m < n)
  BY <1>2
<1> QED BY <1>3

-----------------------------------------------------------------------------
(* Powers of two.  The library's theorems about recursive functions cannot *)
(* be used, so a least counterexample shows that the recursion defines one.*)

\* The powers up to 2^n at each of their positions.
Powers(f, n) == f = [k \in 0..n |-> IF k = 0 THEN 1 ELSE 2 * f[k - 1]]

\* For every n there are such powers.
LEMMA PowersExist ==
  ASSUME NEW N \in Nat
  PROVE  \E f : Powers(f, N)
<1> DEFINE B == {n \in Nat : ~ \E f : Powers(f, n)}
<1> SUFFICES ASSUME B # {} PROVE FALSE
  OBVIOUS
<1>1. PICK n \in B : \A m \in B : n <= m
  <2> HIDE DEF B
  <2>1. B \subseteq Nat
    BY DEF B
  <2> QED BY <2>1, HasLeast
<1>2. n \in Nat /\ ~ \E f : Powers(f, n)
  OBVIOUS
<1>3. CASE n = 0
  <2> DEFINE f == [k \in 0..0 |-> 1]
  <2>1. Powers(f, 0)
    BY DEF Powers
  <2> QED BY <1>2, <1>3, <2>1
<1>4. CASE n # 0
  <2>1. n - 1 \in Nat /\ ~(n <= n - 1)
    BY <1>2, <1>4
  <2>2. PICK f : Powers(f, n - 1)
    BY <1>1, <2>1
  <2> DEFINE g == [k \in 0..n |-> IF k = n THEN 2 * f[n - 1] ELSE f[k]]
  <2>3. \A k \in 0..(n - 1) : f[k] = IF k = 0 THEN 1 ELSE 2 * f[k - 1]
    BY <2>2 DEF Powers
  <2>4. ASSUME NEW k \in 0..n
        PROVE  g[k] = IF k = 0 THEN 1 ELSE 2 * g[k - 1]
    <3>1. CASE k = n
      <4>1. n - 1 \in 0..n /\ n - 1 # n /\ n \in 0..n
        BY <1>2, <1>4
      <4>2. g[n - 1] = f[n - 1] /\ g[n] = 2 * f[n - 1]
        BY <4>1
      <4> QED BY <3>1, <4>2, <1>4
    <3>2. CASE k # n /\ k # 0
      <4>1. k \in 0..(n - 1) /\ k - 1 \in 0..n /\ k - 1 # n
        BY <1>2, <3>2
      <4>2. g[k] = f[k] /\ g[k - 1] = f[k - 1]
        BY <3>2, <4>1
      <4> QED BY <3>2, <4>1, <4>2, <2>3
    <3>3. CASE k # n /\ k = 0
      <4>1. 0 \in 0..(n - 1)
        BY <1>2, <1>4
      <4>2. g[0] = f[0]
        BY <3>3
      <4> QED BY <3>3, <4>1, <4>2, <2>3
    <3> QED BY <3>1, <3>2, <3>3
  <2>5. g = [k \in 0..n |-> g[k]]
    OBVIOUS
  <2> HIDE DEF g
  <2>6. Powers(g, n)
    BY <2>4, <2>5 DEF Powers
  <2> QED BY <1>2, <2>6
<1> QED BY <1>3, <1>4

\* Two such tables agree where both are defined.
LEMMA PowersAgree ==
  ASSUME NEW m \in Nat, NEW n \in Nat, m <= n,
         NEW f, Powers(f, m), NEW g, Powers(g, n)
  PROVE  f[m] = g[m]
<1> DEFINE B == {k \in 0..m : f[k] # g[k]}
<1>1. /\ \A k \in 0..m : f[k] = IF k = 0 THEN 1 ELSE 2 * f[k - 1]
      /\ \A k \in 0..n : g[k] = IF k = 0 THEN 1 ELSE 2 * g[k - 1]
  BY DEF Powers
<1>2. ASSUME B # {} PROVE FALSE
  <2>1. PICK k \in B : \A j \in B : k <= j
    <3>1. B \subseteq Nat
      OBVIOUS
    <3> QED BY <1>2, <3>1, HasLeast
  <2>2. k \in 0..m /\ k \in 0..n /\ f[k] # g[k]
    OBVIOUS
  <2>3. k # 0
    BY <1>1, <2>2
  <2>4. k - 1 \in 0..m /\ ~(k <= k - 1)
    BY <2>2, <2>3
  <2>5. f[k - 1] = g[k - 1]
    BY <2>1, <2>4
  <2> QED BY <1>1, <2>2, <2>3, <2>5
<1>3. m \in 0..m
  OBVIOUS
<1> QED BY <1>2, <1>3

\* The recursion of PowerOfTwo defines a function.
LEMMA PowerOfTwoDef ==
  /\ PowerOfTwo[0] = 1
  /\ \A k \in Nat : PowerOfTwo[k + 1] = 2 * PowerOfTwo[k]
<1> DEFINE T(n) == CHOOSE f : Powers(f, n)
           P == [n \in Nat |-> T(n)[n]]
<1>1. \A n \in Nat : Powers(T(n), n)
  BY PowersExist
<1>2. ASSUME NEW n \in Nat PROVE P[n] = IF n = 0 THEN 1 ELSE 2 * P[n - 1]
  <2>1. PICK f : f = T(n) /\ Powers(f, n)
    BY <1>1
  <2>2. f[n] = IF n = 0 THEN 1 ELSE 2 * f[n - 1]
    <3>1. n \in 0..n
      OBVIOUS
    <3> QED BY <2>1, <3>1 DEF Powers
  <2>3. CASE n # 0
    <3>1. n - 1 \in Nat /\ n - 1 <= n
      BY <2>3
    <3>2. PICK g : g = T(n - 1) /\ Powers(g, n - 1)
      BY <1>1, <3>1
    <3>3. g[n - 1] = f[n - 1]
      BY <2>1, <3>1, <3>2, PowersAgree
    <3>4. P[n] = f[n] /\ P[n - 1] = g[n - 1]
      BY <2>1, <3>1, <3>2
    <3> QED BY <2>2, <2>3, <3>3, <3>4
  <2> QED BY <2>1, <2>2, <2>3
<1>3. P = [n \in Nat |-> IF n = 0 THEN 1 ELSE 2 * P[n - 1]]
  <2>1. P = [n \in Nat |-> P[n]]
    OBVIOUS
  <2> HIDE DEF P
  <2> QED BY <1>2, <2>1
<1> HIDE DEF P
<1>4. PowerOfTwo = [n \in Nat |-> IF n = 0 THEN 1 ELSE 2 * PowerOfTwo[n - 1]]
  BY <1>3 DEF PowerOfTwo
<1>5. \A n \in Nat : PowerOfTwo[n] = IF n = 0 THEN 1 ELSE 2 * PowerOfTwo[n - 1]
  BY <1>4
<1>6. PowerOfTwo[0] = 1
  BY <1>5
<1>7. ASSUME NEW k \in Nat PROVE PowerOfTwo[k + 1] = 2 * PowerOfTwo[k]
  <2>1. k + 1 \in Nat /\ k + 1 # 0 /\ (k + 1) - 1 = k
    OBVIOUS
  <2> QED BY <1>5, <2>1
<1> QED BY <1>6, <1>7

\* Powers of two are positive.
LEMMA PowerPositive ==
  ASSUME NEW k \in Nat
  PROVE  PowerOfTwo[k] \in Nat \ {0}
<1> DEFINE B == {n \in Nat : PowerOfTwo[n] \notin Nat \ {0}}
<1>1. ASSUME B # {} PROVE FALSE
  <2>1. PICK n \in B : \A m \in B : n <= m
    <3>1. B \subseteq Nat
      OBVIOUS
    <3> QED BY <1>1, <3>1, HasLeast
  <2>2. n \in Nat /\ PowerOfTwo[n] \notin Nat \ {0}
    OBVIOUS
  <2>3. n # 0
    BY <2>2, PowerOfTwoDef
  <2>4. n - 1 \in Nat /\ ~(n <= n - 1) /\ (n - 1) + 1 = n
    BY <2>2, <2>3
  <2>5. PowerOfTwo[n - 1] \in Nat \ {0} /\ PowerOfTwo[n] = 2 * PowerOfTwo[n - 1]
    BY <2>1, <2>4, PowerOfTwoDef
  <2> QED BY <2>2, <2>5
<1> QED BY <1>1

\* Powers of two grow without bound.
LEMMA PowerExceeds ==
  ASSUME NEW k \in Nat
  PROVE  k < PowerOfTwo[k]
<1> DEFINE B == {n \in Nat : ~(n < PowerOfTwo[n])}
<1>1. ASSUME B # {} PROVE FALSE
  <2>1. PICK n \in B : \A m \in B : n <= m
    <3>1. B \subseteq Nat
      OBVIOUS
    <3> QED BY <1>1, <3>1, HasLeast
  <2>2. n \in Nat /\ ~(n < PowerOfTwo[n])
    OBVIOUS
  <2>3. n # 0
    BY <2>2, PowerOfTwoDef
  <2>4. n - 1 \in Nat /\ ~(n <= n - 1) /\ (n - 1) + 1 = n
    BY <2>2, <2>3
  <2>5. n - 1 < PowerOfTwo[n - 1] /\ PowerOfTwo[n] = 2 * PowerOfTwo[n - 1]
    BY <2>1, <2>4, PowerOfTwoDef
  <2>6. PowerOfTwo[n - 1] \in Nat
    BY <2>4, PowerPositive
  <2> QED BY <2>2, <2>4, <2>5, <2>6
<1> QED BY <1>1

\* A larger exponent gives a larger power.
LEMMA PowerMonotone ==
  ASSUME NEW j \in Nat, NEW k \in Nat, j <= k
  PROVE  PowerOfTwo[j] <= PowerOfTwo[k]
<1> DEFINE B == {n \in Nat : j <= n /\ ~(PowerOfTwo[j] <= PowerOfTwo[n])}
<1>1. ASSUME B # {} PROVE FALSE
  <2>1. PICK n \in B : \A m \in B : n <= m
    <3>1. B \subseteq Nat
      OBVIOUS
    <3> QED BY <1>1, <3>1, HasLeast
  <2>2. n \in Nat /\ j <= n /\ ~(PowerOfTwo[j] <= PowerOfTwo[n])
    OBVIOUS
  <2>3. PowerOfTwo[j] \in Nat /\ PowerOfTwo[n] \in Nat
    BY <2>2, PowerPositive
  <2>4. n # j
    BY <2>2, <2>3
  <2>5. n - 1 \in Nat /\ j <= n - 1 /\ ~(n <= n - 1) /\ (n - 1) + 1 = n
    BY <2>2, <2>4
  <2>6. PowerOfTwo[j] <= PowerOfTwo[n - 1] /\ PowerOfTwo[n] = 2 * PowerOfTwo[n - 1]
    BY <2>1, <2>5, PowerOfTwoDef
  <2>7. PowerOfTwo[n - 1] \in Nat
    BY <2>5, PowerPositive
  <2> QED BY <2>2, <2>3, <2>6, <2>7
<1> QED BY <1>1

-----------------------------------------------------------------------------
(* Rounding.                                                               *)

\* The unit in the last place is the power of the least exponent whose range
\* of doubles holds the number.
LEMMA UlpProperties ==
  ASSUME NEW n \in Int
  PROVE  \E e \in Nat : /\ Ulp(n) = PowerOfTwo[e]
                        /\ Abs(n) < PowerOfTwo[e + kPrecision]
                        /\ e = 0 \/ Abs(n) >= PowerOfTwo[e - 1 + kPrecision]
<1> DEFINE a == Abs(n)
           OK(e) == /\ a < PowerOfTwo[e + kPrecision]
                    /\ e = 0 \/ a >= PowerOfTwo[e - 1 + kPrecision]
           T == {e \in Nat : a < PowerOfTwo[e + kPrecision]}
<1>1. a \in Nat /\ kPrecision \in Nat
  BY SyntheticAssumption DEF Abs
<1> HIDE DEF a
<1>2. a \in T
  <2>1. a + kPrecision \in Nat /\ a <= a + kPrecision
    BY <1>1
  <2>2. a + kPrecision < PowerOfTwo[a + kPrecision] /\ PowerOfTwo[a + kPrecision] \in Nat
    BY <2>1, PowerExceeds, PowerPositive
  <2> QED BY <1>1, <2>1, <2>2
<1>3. PICK e \in T : \A d \in T : e <= d
  <2>1. T \subseteq Nat /\ T # {}
    BY <1>2
  <2> HIDE DEF T
  <2> QED BY <2>1, HasLeast
<1>4. e \in 0..a
  BY <1>1, <1>2, <1>3
<1>5. OK(e)
  <2>1. CASE e # 0
    <3>1. e - 1 \in Nat /\ ~(e <= e - 1)
      BY <2>1
    <3>2. ~(a < PowerOfTwo[e - 1 + kPrecision])
      BY <1>3, <3>1
    <3>3. PowerOfTwo[e - 1 + kPrecision] \in Nat
      <4>1. e - 1 + kPrecision \in Nat
        BY <1>1, <3>1
      <4> QED BY <4>1, PowerPositive
    <3> QED BY <1>1, <3>2, <3>3
  <2> QED BY <2>1
<1> DEFINE chosen == CHOOSE d \in 0..a : OK(d)
<1>6. chosen \in 0..a /\ OK(chosen)
  <2> HIDE DEF OK
  <2> QED BY <1>4, <1>5
<1>7. Ulp(n) = PowerOfTwo[chosen]
  BY DEF Ulp, a
<1>8. chosen \in Nat
  BY <1>1, <1>6
<1> HIDE DEF chosen
<1> QED BY <1>6, <1>7, <1>8 DEF a

\* The unit is positive; it is one where the precision suffices.
LEMMA UlpPositive ==
  ASSUME NEW n \in Int
  PROVE  /\ Ulp(n) \in Nat \ {0}
         /\ Abs(n) < PowerOfTwo[kPrecision] => Ulp(n) = 1
<1>1. PICK e \in Nat : /\ Ulp(n) = PowerOfTwo[e]
                       /\ e = 0 \/ Abs(n) >= PowerOfTwo[e - 1 + kPrecision]
  BY UlpProperties
<1>2. ASSUME Abs(n) < PowerOfTwo[kPrecision] PROVE e = 0
  <2>1. ASSUME e # 0 PROVE FALSE
    <3>1. e - 1 + kPrecision \in Nat /\ kPrecision \in Nat /\ kPrecision <= e - 1 + kPrecision
      BY <2>1, SyntheticAssumption
    <3>2. PowerOfTwo[kPrecision] <= PowerOfTwo[e - 1 + kPrecision]
      BY <3>1, PowerMonotone
    <3>3. PowerOfTwo[kPrecision] \in Nat /\ PowerOfTwo[e - 1 + kPrecision] \in Nat
      BY <3>1, PowerPositive
    <3>4. Abs(n) \in Nat
      BY DEF Abs
    <3> QED BY <1>1, <1>2, <2>1, <3>2, <3>3, <3>4
  <2> QED BY <2>1
<1> QED BY <1>1, <1>2, PowerPositive, PowerOfTwoDef

\* A number that is larger by half a unit has at most twice the unit.
LEMMA UlpDoubles ==
  ASSUME NEW m \in Int, NEW n \in Int, 2 * Abs(m) <= 2 * Abs(n) + Ulp(n)
  PROVE  Ulp(m) <= 2 * Ulp(n)
<1>1. PICK e \in Nat : /\ Ulp(n) = PowerOfTwo[e]
                       /\ Abs(n) < PowerOfTwo[e + kPrecision]
  BY UlpProperties
<1>2. PICK d \in Nat : /\ Ulp(m) = PowerOfTwo[d]
                       /\ d = 0 \/ Abs(m) >= PowerOfTwo[d - 1 + kPrecision]
  BY UlpProperties
<1>3. d <= e + 1
  <2> SUFFICES ASSUME ~(d <= e + 1) PROVE FALSE
    OBVIOUS
  <2>1. /\ kPrecision \in Nat /\ e + kPrecision \in Nat /\ d - 1 + kPrecision \in Nat
        /\ (e + kPrecision) + 1 <= d - 1 + kPrecision /\ (e + kPrecision) + 1 \in Nat
        /\ e <= e + kPrecision /\ d # 0
    BY SyntheticAssumption
  <2>2. /\ PowerOfTwo[(e + kPrecision) + 1] = 2 * PowerOfTwo[e + kPrecision]
        /\ PowerOfTwo[(e + kPrecision) + 1] <= PowerOfTwo[d - 1 + kPrecision]
        /\ PowerOfTwo[e] <= PowerOfTwo[e + kPrecision]
    BY <2>1, PowerMonotone, PowerOfTwoDef
  <2>3. /\ PowerOfTwo[e + kPrecision] \in Nat \ {0} /\ PowerOfTwo[e] \in Nat
        /\ PowerOfTwo[d - 1 + kPrecision] \in Nat
    BY <2>1, PowerPositive
  <2>4. Abs(m) \in Nat /\ Abs(n) \in Nat
    BY DEF Abs
  <2>5. Abs(m) >= 2 * PowerOfTwo[e + kPrecision]
    <3>1. Abs(m) >= PowerOfTwo[d - 1 + kPrecision]
      BY <1>2, <2>1
    <3> QED BY <3>1, <2>2, <2>3, <2>4
  <2> QED BY <1>1, <2>2, <2>3, <2>4, <2>5
<1>4. PowerOfTwo[d] <= PowerOfTwo[e + 1] /\ PowerOfTwo[e + 1] = 2 * PowerOfTwo[e]
  BY <1>3, PowerMonotone, PowerOfTwoDef
<1> QED BY <1>1, <1>2, <1>4

\* A larger number has no smaller unit.
LEMMA UlpMonotone ==
  ASSUME NEW m \in Int, NEW n \in Int, Abs(m) <= Abs(n)
  PROVE  Ulp(m) <= Ulp(n)
<1>1. PICK e \in Nat : /\ Ulp(n) = PowerOfTwo[e]
                       /\ Abs(n) < PowerOfTwo[e + kPrecision]
  BY UlpProperties
<1>2. PICK d \in Nat : /\ Ulp(m) = PowerOfTwo[d]
                       /\ d = 0 \/ Abs(m) >= PowerOfTwo[d - 1 + kPrecision]
  BY UlpProperties
<1>3. d <= e
  <2> SUFFICES ASSUME ~(d <= e) PROVE FALSE
    OBVIOUS
  <2>1. /\ e + kPrecision \in Nat /\ d - 1 + kPrecision \in Nat
        /\ e + kPrecision <= d - 1 + kPrecision /\ d # 0
    BY SyntheticAssumption
  <2>2. PowerOfTwo[e + kPrecision] <= PowerOfTwo[d - 1 + kPrecision]
    BY <2>1, PowerMonotone
  <2>3. PowerOfTwo[e + kPrecision] \in Nat /\ PowerOfTwo[d - 1 + kPrecision] \in Nat
    BY <2>1, PowerPositive
  <2>4. Abs(m) \in Nat /\ Abs(n) \in Nat
    BY DEF Abs
  <2> QED BY <1>1, <1>2, <2>1, <2>2, <2>3, <2>4
<1> QED BY <1>1, <1>2, <1>3, PowerMonotone

\* Rounding to nearest is off by half a unit at most, and exact below the
\* precision.
LEMMA RoundingError ==
  ASSUME NEW n \in Int
  PROVE  /\ Rounded(n) \in Int
         /\ 2 * Abs(Rounded(n) - n) <= Ulp(n)
         /\ Abs(n) < PowerOfTwo[kPrecision] => Rounded(n) = n
<1> DEFINE u == Ulp(n)
           r == n % u
           below == n - r
           above == below + u
<1>1. u \in Nat \ {0} /\ (Abs(n) < PowerOfTwo[kPrecision] => u = 1)
  BY UlpPositive
<1> HIDE DEF u
<1>2. r \in 0..(u - 1)
  <2>1. \A m \in Nat \ {0} : \A x \in Int : x % m \in 0..(m - 1)
    OBVIOUS
  <2> QED BY <1>1, <2>1
<1> HIDE DEF r
<1>3. \/ Rounded(n) = below /\ 2 * (n - below) <= u
      \/ Rounded(n) = above /\ 2 * (n - below) >= u
  <2> DEFINE even == (below \div u) % 2 = 0
  <2>1. Rounded(n) = IF 2 * (n - below) < u \/ (2 * (n - below) = u /\ even)
                     THEN below ELSE above
    BY DEF Rounded, u, r
  <2> HIDE DEF even
  <2>2. n - below = r /\ r \in Int /\ u \in Int
    BY <1>1, <1>2
  <2> HIDE DEF above, below
  <2> QED BY <2>1, <2>2
<1>4. below \in Int /\ above \in Int /\ n - below = r /\ above - n = u - r
  BY <1>1, <1>2
<1>5. Rounded(n) \in Int
  BY <1>3, <1>4
<1>6. 2 * Abs(Rounded(n) - n) <= u
  <2>1. CASE Rounded(n) = below /\ 2 * (n - below) <= u
    BY <1>1, <1>2, <1>4, <2>1 DEF Abs
  <2>2. CASE Rounded(n) = above /\ 2 * (n - below) >= u
    BY <1>1, <1>2, <1>4, <2>2 DEF Abs
  <2> QED BY <1>3, <2>1, <2>2
<1>7. u = 1 => Rounded(n) = n
  BY <1>2, <1>3
<1> QED BY <1>1, <1>5, <1>6, <1>7 DEF u

\* A double is in range and as close to the number as rounding allows.
LEMMA DoubleError ==
  ASSUME NEW n \in Int, Double(n) # NonFinite
  PROVE  /\ Double(n) \in -kMaxFinite..kMaxFinite
         /\ 2 * Abs(Double(n) - n) <= Ulp(n)
         /\ Abs(n) < PowerOfTwo[kPrecision] => Double(n) = n
<1>1. Double(n) = Rounded(n) /\ ~(Abs(Rounded(n)) > kMaxFinite)
  BY DEF Double
<1>2. Rounded(n) \in Int /\ kMaxFinite \in Nat
  BY RoundingError, SyntheticAssumption
<1>3. Rounded(n) \in -kMaxFinite..kMaxFinite
  BY <1>1, <1>2 DEF Abs
<1> QED BY <1>1, <1>3, RoundingError

\* The error of a sample, whatever the index is: half a unit of the product, and
\* half a unit of the sum.
Accurate(k, value) ==
  LET product == k * step_
  IN  2 * Abs(value - (initial_value_ + product)) <=
        Ulp(product) + Ulp(Abs(initial_value_) + Abs(product)) * 2

\* The index is exact, the product and the sum are rounded once each.
LEMMA SampleIsAccurate ==
  ASSUME initial_value_ \in Int, step_ \in Int, NEW k \in 0..MaxIndex, k < MaxIndex,
         SampleValue(k) # NonFinite
  PROVE  SampleValue(k) \in -kMaxFinite..kMaxFinite /\ Accurate(k, SampleValue(k))
<1> DEFINE product == k * step_
           term    == Times(Double(k), step_)
           value   == Plus(initial_value_, term)
           whole   == Abs(initial_value_) + Abs(product)
<1>0. NonFinite \notin Int /\ kMaxFinite \in Nat
  BY SyntheticAssumption
<1>1. value # NonFinite /\ term # NonFinite /\ Double(k) # NonFinite
  BY DEF SampleValue, Plus, Times
<1>2. Double(k) = k
  <2>1. k \in Int /\ Abs(k) < PowerOfTwo[kPrecision]
    <3>1. PowerOfTwo[kPrecision] \in Nat /\ MaxIndex \in 0..PowerOfTwo[kPrecision]
      BY SyntheticAssumption, PowerPositive
    <3> QED BY <3>1 DEF Abs
  <2> QED BY <1>1, <2>1, DoubleError
<1>3. product \in Int /\ term = Double(product)
  <2>1. k \in Int
    OBVIOUS
  <2> QED BY <1>0, <1>2, <2>1 DEF Times
<1> HIDE DEF product
<1>4. term \in Int /\ 2 * Abs(term - product) <= Ulp(product)
  BY <1>0, <1>1, <1>3, DoubleError
<1>5. value = Double(initial_value_ + term)
  BY <1>0, <1>4 DEF Plus
<1> HIDE DEF term
<1>6. initial_value_ + term \in Int
  BY <1>4
<1>7. value \in -kMaxFinite..kMaxFinite /\ value \in Int
      /\ 2 * Abs(value - (initial_value_ + term)) <= Ulp(initial_value_ + term)
  BY <1>0, <1>1, <1>5, <1>6, DoubleError
<1>8. whole \in Nat /\ Abs(whole) = whole
  BY <1>3 DEF Abs
<1>9. /\ Ulp(product) \in Nat /\ Ulp(whole) \in Nat /\ Ulp(initial_value_ + term) \in Nat
  BY <1>3, <1>6, <1>8, UlpPositive
<1>10. Ulp(product) <= Ulp(whole)
  BY <1>3, <1>8, UlpMonotone DEF Abs
<1>11. Ulp(initial_value_ + term) <= 2 * Ulp(whole)
  <2>1. Abs(initial_value_ + term) <= Abs(initial_value_) + Abs(product) + Abs(term - product)
    BY <1>3, <1>4 DEF Abs
  <2>2. 2 * Abs(initial_value_ + term) <= 2 * Abs(whole) + Ulp(whole)
    <3>1. Abs(term - product) \in Int /\ Abs(initial_value_ + term) \in Int
      BY <1>3, <1>4 DEF Abs
    <3> HIDE DEF value
    <3> QED BY <1>4, <1>8, <1>9, <1>10, <2>1, <3>1
  <2> QED BY <1>6, <1>8, <2>2, UlpDoubles
<1>12. 2 * Abs(value - (initial_value_ + product)) <= Ulp(product) + Ulp(whole) * 2
  <2>1. Abs(value - (initial_value_ + product)) <=
          Abs(value - (initial_value_ + term)) + Abs(term - product)
    BY <1>3, <1>4, <1>7 DEF Abs
  <2>2. /\ Abs(value - (initial_value_ + product)) \in Int
        /\ Abs(value - (initial_value_ + term)) \in Int
        /\ Abs(term - product) \in Int
    BY <1>3, <1>4, <1>7 DEF Abs
  <2> QED BY <1>4, <1>7, <1>9, <1>11, <2>1, <2>2
<1>13. SampleValue(k) = value
  BY DEF SampleValue, term
<1> HIDE DEF value
<1> QED BY <1>7, <1>12, <1>13 DEF Accurate, product

-----------------------------------------------------------------------------
(* The collector.                                                          *)

IInv ==
  /\ TypeOK /\ NoDrift /\ NoValueSkipped
  /\ initial_value_ \in Int \cup {NonFinite} /\ step_ \in Int \cup {NonFinite}
  /\ samples # <<>> => initial_value_ \in Int /\ step_ \in Int
  /\ \A i \in DOMAIN samples : samples[i].index < sample_index_

\* A call that returns a sample.
LEMMA CollectKeepsIInv ==
  ASSUME IInv, sample_index_ < MaxIndex, Collect(SampleValue(sample_index_))
  PROVE  IInv'
<1> DEFINE k     == sample_index_
           value == SampleValue(k)
           L     == Len(samples)
<1>1. /\ value # NonFinite /\ initial_value_ \in Int /\ step_ \in Int
      /\ k' = k + 1 /\ UNCHANGED <<initial_value_, step_, thrown>>
      /\ samples' = Append(samples, [index |-> k, value |-> value])
  BY DEF Collect, Accepts, IInv
<1>2. k \in 0..MaxIndex /\ k' \in 0..MaxIndex /\ k \in Nat /\ MaxIndex \in Nat
  <2>1. MaxIndex \in Nat
    BY SyntheticAssumption, PowerPositive
  <2> QED BY <1>1, <2>1 DEF IInv, TypeOK
<1>3. value \in -kMaxFinite..kMaxFinite /\ Accurate(k, value)
  BY <1>1, <1>2, SampleIsAccurate
<1> HIDE DEF value
<1>4. PICK sample : sample = [index |-> k, value |-> value]
  OBVIOUS
<1>5. sample \in [index : 0..MaxIndex, value : -kMaxFinite..kMaxFinite]
      /\ sample.index = k /\ sample.value = value
  BY <1>2, <1>3, <1>4
<1>6. /\ samples \in Seq([index : 0..MaxIndex, value : -kMaxFinite..kMaxFinite])
      /\ L \in Nat /\ DOMAIN samples = 1..L
  BY LenProperties DEF IInv, TypeOK
<1>7. /\ samples' \in Seq([index : 0..MaxIndex, value : -kMaxFinite..kMaxFinite])
      /\ Len(samples') = L + 1
      /\ \A i \in 1..L : samples'[i] = samples[i]
      /\ samples'[L + 1] = sample
  BY <1>1, <1>4, <1>5, <1>6, AppendProperties
<1>8. DOMAIN samples' = 1..(L + 1) /\ samples' # <<>>
  <2>1. Len(samples') # 0 /\ Len(<<>>) = 0
    BY <1>6, <1>7
  <2> QED BY <1>7, <2>1, LenProperties
<1>9. \A i \in 1..(L + 1) : i \in 1..L \/ (i = L + 1 /\ i \notin 1..L)
  BY <1>6
<1>10. TypeOK'
  BY <1>2, <1>7 DEF TypeOK
<1>11. \A i \in 1..L : /\ samples[i].index \in Nat /\ samples[i].index < k
                       /\ Accurate(samples[i].index, samples[i].value)
  <2>1. \A i \in 1..L : samples[i] \in [index : 0..MaxIndex, value : -kMaxFinite..kMaxFinite]
    BY <1>6, ElementOfSeq
  <2>2. \A i \in 1..L : samples[i].index \in Nat
    BY <2>1
  <2>3. \A i \in 1..L : samples[i].index < k
    BY <1>6 DEF IInv
  <2>4. \A i \in 1..L : Accurate(samples[i].index, samples[i].value)
    <3>1. \A i \in DOMAIN samples : Accurate(samples[i].index, samples[i].value)
      BY ZenonT(30) DEF IInv, NoDrift, Accurate
    <3> QED BY <1>6, <3>1
  <2> QED BY <2>2, <2>3, <2>4
<1>12. NoDrift'
  <2>1. \A i \in 1..(L + 1) : Accurate(samples'[i].index, samples'[i].value)
    BY <1>3, <1>5, <1>7, <1>9, <1>11
  <2>2. \A j, v : Accurate(j, v)' <=> Accurate(j, v)
    BY <1>1 DEF Accurate
  <2> QED BY <1>1, <1>8, <2>1 DEF NoDrift, Accurate
<1>13. \A i \in 1..(L + 1) : samples'[i].index < k'
  BY <1>1, <1>2, <1>5, <1>7, <1>9, <1>11
<1>14. NoValueSkipped'
  <2> DEFINE S == {samples[i].index : i \in DOMAIN samples}
  <2>1. 0..k - 1 = thrown \cup S
    BY DEF IInv, NoValueSkipped
  <2>2. {samples'[i].index : i \in DOMAIN samples'} = S \cup {k}
    <3>1. \A i \in 1..L : i \in 1..(L + 1)
      BY <1>6
    <3>2. L + 1 \in 1..(L + 1)
      BY <1>6
    <3> QED BY <1>5, <1>6, <1>7, <1>8, <1>9, <3>1, <3>2
  <2>3. 0..k' - 1 = (0..k - 1) \cup {k}
    BY <1>1, <1>2
  <2>4. 0..k' - 1 = thrown' \cup {samples'[i].index : i \in DOMAIN samples'}
    <3> HIDE DEF S
    <3> QED BY <1>1, <2>1, <2>2, <2>3
  <2>5. ASSUME NEW i \in 1..(L + 1), NEW j \in 1..(L + 1), i < j
        PROVE  samples'[i].index < samples'[j].index
    <3>1. i \in 1..L
      BY <1>6, <2>5
    <3>2. CASE j \in 1..L
      BY <1>6, <1>7, <2>5, <3>1, <3>2 DEF IInv, NoValueSkipped
    <3>3. CASE j = L + 1
      BY <1>5, <1>7, <1>11, <3>1, <3>3
    <3> QED BY <1>9, <3>2, <3>3
  <2> QED BY <1>8, <2>4, <2>5 DEF NoValueSkipped
<1> QED BY <1>1, <1>8, <1>10, <1>12, <1>13, <1>14 DEF IInv

\* A call that throws uses up its index and hands out nothing.
LEMMA ThrowKeepsIInv ==
  ASSUME IInv, sample_index_ < MaxIndex, CollectThrows(SampleValue(sample_index_))
  PROVE  IInv'
<1> DEFINE k == sample_index_
<1>1. /\ k' = k + 1 /\ thrown' = thrown \cup {k}
      /\ UNCHANGED <<initial_value_, step_, samples>>
  BY DEF CollectThrows
<1>2. k \in 0..MaxIndex /\ k' \in 0..MaxIndex /\ k \in Nat
  <2>1. MaxIndex \in Nat
    BY SyntheticAssumption, PowerPositive
  <2> QED BY <1>1, <2>1 DEF IInv, TypeOK
<1>3. TypeOK' /\ NoDrift'
  BY <1>1, <1>2 DEF IInv, TypeOK, NoDrift
<1>4. NoValueSkipped'
  <2>1. 0..k' - 1 = (0..k - 1) \cup {k}
    BY <1>1, <1>2
  <2> QED BY <1>1, <2>1 DEF IInv, NoValueSkipped
<1>5. \A i \in DOMAIN samples : samples[i].index < k'
  <2> TAKE i \in DOMAIN samples
  <2>1. samples[i] \in [index : 0..MaxIndex, value : -kMaxFinite..kMaxFinite]
    BY ElementOfSeq, LenProperties DEF IInv, TypeOK
  <2>2. samples[i].index \in Int /\ samples[i].index < k
    BY <2>1 DEF IInv
  <2> QED BY <1>1, <1>2, <2>2
<1> QED BY <1>1, <1>3, <1>4, <1>5 DEF IInv

\* The conjunction holds in every reachable state.
LEMMA Invariance == Spec => []IInv
<1>1. Init => IInv
  <2> SUFFICES ASSUME Init PROVE IInv
    OBVIOUS
  <2>1. /\ samples = <<>> /\ DOMAIN samples = {} /\ thrown = {} /\ sample_index_ = 0
        /\ samples \in Seq([index : 0..MaxIndex, value : -kMaxFinite..kMaxFinite])
    BY EmptySeq DEF Init
  <2>2. 0 \in 0..MaxIndex /\ 0..0 - 1 = {}
    BY SyntheticAssumption, PowerPositive
  <2>3. initial_value_ \in Int \cup {NonFinite} /\ step_ \in Int \cup {NonFinite}
    BY SyntheticAssumption DEF Init
  <2> QED BY <2>1, <2>2, <2>3 DEF IInv, TypeOK, NoDrift, NoValueSkipped
<1>2. IInv /\ [Next]_vars => IInv'
  <2> SUFFICES ASSUME IInv, [Next]_vars PROVE IInv'
    OBVIOUS
  <2>1. CASE UNCHANGED vars
    BY <2>1 DEF vars, IInv, TypeOK, NoDrift, NoValueSkipped
  <2>2. CASE Next
    BY <2>1, <2>2, CollectKeepsIInv, ThrowKeepsIInv DEF Next, Refuse
  <2> QED BY <2>1, <2>2
<1> QED BY <1>1, <1>2, PTL DEF Spec

\* Every value handed out is finite and in the range of doubles.
THEOREM TypeCorrect == Spec => []TypeOK
<1>1. IInv => TypeOK
  BY DEF IInv
<1> QED BY <1>1, Invariance, PTL

\* "rounding from one sample never becomes input to the next sample"
\* (synthetic_metric_collector.cpp:25-26), for any number of calls.
THEOREM ErrorStaysBounded == Spec => []NoDrift
<1>1. IInv => NoDrift
  BY DEF IInv
<1> QED BY <1>1, Invariance, PTL

\* "failed calls do not skip sequence values" (synthetic_metric_collector.cpp:45):
\* only calls that throw leave a gap, for any sequence of calls.
THEOREM GapsAreThrows == Spec => []NoValueSkipped
<1>1. IInv => NoValueSkipped
  BY DEF IInv
<1> QED BY <1>1, Invariance, PTL
=============================================================================
