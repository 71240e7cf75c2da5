--------------------------- MODULE LeakageProofs ----------------------------
(***************************************************************************)
(* Proofs about the leakage assessment: for any number of traces, of any   *)
(* length, in sets of any sizes up to MaxTraces, whatever the values and   *)
(* the files, the statistics are those of the batch, and the verdict is    *)
(* the two-pass test on the dumps.                                         *)
(***************************************************************************)
EXTENDS Leakage, TLAPS, FiniteSetTheorems, SequenceTheorems,
        WellFoundedInduction

(* A set of natural numbers has a least one.                               *)
LEMMA LeastExists ==
    ASSUME NEW S, S \subseteq Nat, S # {}
    PROVE  \E x \in S : \A y \in S : x <= y
<1> DEFINE R == {p \in Nat \X Nat : p[1] < p[2]}
<1>1. IsWellFoundedOn(R, Nat)
  BY Zenon, NatLessThanWellFounded DEF OpToRel
<1>2. \A x, y \in Nat : y < x => <<y, x>> \in R
  <2>1. SUFFICES ASSUME NEW x \in Nat, NEW y \in Nat, y < x
                 PROVE  <<y, x>> \in R
    BY Zenon
  <2>2. <<y, x>> \in Nat \X Nat /\ <<y, x>>[1] = y /\ <<y, x>>[2] = x
    OBVIOUS
  <2>3. QED
    BY <2>1, <2>2
<1> HIDE DEF R
<1>3. PICK x \in S : \A y \in S : ~(<<y, x>> \in R)
  BY Zenon, <1>1, WFMin
<1>4. ASSUME NEW y \in S
      PROVE  x <= y
  <2>1. x \in Nat /\ y \in Nat /\ ~(<<y, x>> \in R)
    BY <1>3
  <2>2. ~(y < x)
    BY Zenon, <1>2, <2>1
  <2>3. QED
    BY <2>1, <2>2
<1>5. QED
  BY <1>4

(* Induction up to a bound, over a set: the library's rules are about an   *)
(* operator.                                                               *)
LEMMA UpTo ==
    ASSUME NEW N \in Nat, NEW G, 0 \in G,
           \A n \in 0 .. (N - 1) : n \in G => n + 1 \in G
    PROVE  \A n \in 0 .. N : n \in G
<1> DEFINE Bad == {n \in 0 .. N : n \notin G}
<1>1. SUFFICES ASSUME Bad # {} PROVE FALSE
  OBVIOUS
<1>2. Bad \subseteq Nat
  OBVIOUS
<1>3. PICK x \in Bad : \A y \in Bad : x <= y
  <2> HIDE DEF Bad
  <2>1. QED
    BY <1>1, <1>2, LeastExists
<1>4. x \in 0 .. N /\ x # 0
  OBVIOUS
<1>5. x - 1 \in 0 .. (N - 1) /\ (x - 1) + 1 = x /\ x - 1 < x
  BY <1>4
<1>6. x - 1 \notin G
  BY <1>4, <1>5
<1>7. x - 1 \in Bad
  BY <1>5, <1>6
<1>8. QED
  BY <1>3, <1>5, <1>7

(* The partial sums of n numbers, as their recursive definition says.      *)
Accumulates(s, f, n) ==
    /\ DOMAIN s = 0 .. n
    /\ s[0] = 0 /\ \A k \in 1 .. n : s[k] = s[k - 1] + f[k]

(* The recursive function of the partial sums is what its definition says, *)
(* for any number of summands.                                             *)
LEMMA PartialSumsExist ==
    ASSUME NEW f, NEW n \in Nat
    PROVE  Accumulates(T!PartialSums(f, n), f, n)
<1> DEFINE Run(s, m) == /\ s = [k \in 0 .. m |-> s[k]] /\ s[0] = 0
                        /\ \A k \in 1 .. m : s[k] = s[k - 1] + f[k]
           G == {m \in Nat : \E s : Run(s, m)}
           Step(s) == [k \in 0 .. n |-> IF k = 0 THEN 0 ELSE s[k - 1] + f[k]]
<1>1. 0 \in G
  <2> DEFINE s == [k \in 0 .. 0 |-> 0]
  <2>1. s[0] = 0 /\ s = [k \in 0 .. 0 |-> s[k]]
    OBVIOUS
  <2>2. Run(s, 0)
    BY <2>1
  <2>3. QED
    BY <2>2
<1>2. ASSUME NEW m \in 0 .. (n - 1), m \in G
      PROVE  m + 1 \in G
  <2>1. PICK s : Run(s, m)
    BY <1>2
  <2> DEFINE g == [k \in 0 .. (m + 1) |->
                      IF k = m + 1 THEN s[m] + f[m + 1] ELSE s[k]]
  <2>2. g = [k \in 0 .. (m + 1) |-> g[k]]
    OBVIOUS
  <2>3. g[0] = 0
    BY <1>2, <2>1
  <2>4. ASSUME NEW k \in 1 .. (m + 1)
        PROVE  g[k] = g[k - 1] + f[k]
    <3>1. k - 1 \in 0 .. (m + 1) /\ k - 1 # m + 1 /\ g[k - 1] = s[k - 1]
      BY <1>2, <2>4
    <3>2. CASE k = m + 1
      BY <1>2, <3>1, <3>2
    <3>3. CASE k # m + 1
      <4>1. k \in 1 .. m /\ g[k] = s[k]
        BY <1>2, <2>4, <3>3
      <4>2. QED
        BY <2>1, <3>1, <4>1
    <3>4. QED
      BY <3>2, <3>3
  <2> HIDE DEF g
  <2>5. Run(g, m + 1)
    BY <2>2, <2>3, <2>4
  <2>6. m + 1 \in Nat
    BY <1>2
  <2> HIDE DEF Run
  <2>7. QED
    BY <2>5, <2>6
<1>3. n \in G
  <2>1. n \in 0 .. n
    OBVIOUS
  <2> HIDE DEF G
  <2>2. QED
    BY <1>1, <1>2, <2>1, UpTo
<1>4. PICK s : Run(s, n)
  BY <1>3
<1>5. s = Step(s)
  <2>1. ASSUME NEW k \in 0 .. n
        PROVE  s[k] = Step(s)[k]
    <3>1. CASE k = 0
      BY <1>4, <3>1
    <3>2. CASE k # 0
      <4>1. k \in 1 .. n
        BY <3>2
      <4>2. QED
        BY <1>4, <3>2, <4>1
    <3>3. QED
      BY <3>1, <3>2
  <2>2. QED
    BY <1>4, <2>1
<1>6. T!PartialSums(f, n) = CHOOSE r : r = Step(r)
  BY Zenon DEF T!PartialSums
<1> DEFINE t == T!PartialSums(f, n)
<1>7. t = Step(t)
  <2> HIDE DEF Step
  <2>1. QED
    BY Zenon, <1>5, <1>6
<1> HIDE DEF t
<1>8. DOMAIN t = 0 .. n
  BY Zenon, <1>7
<1>9. \A k \in 0 .. n : t[k] = IF k = 0 THEN 0 ELSE t[k - 1] + f[k]
  BY Zenon, <1>7
<1>10. 0 \in 0 .. n /\ \A k \in 1 .. n : k \in 0 .. n /\ k # 0
  OBVIOUS
<1>11. t[0] = 0 /\ \A k \in 1 .. n : t[k] = t[k - 1] + f[k]
  BY Zenon, <1>9, <1>10
<1>12. QED
  BY Zenon, <1>8, <1>11 DEF Accumulates, t

(* A sum of integers is one; a sum of zeros is zero; and one more term is  *)
(* one more summand.                                                       *)
LEMMA SumIsInt ==
    ASSUME NEW n \in Nat, NEW f, \A k \in 1 .. n : f[k] \in Int
    PROVE  T!SumTo(f, n) \in Int
<1> DEFINE s == T!PartialSums(f, n)
           G == {m \in 0 .. n : s[m] \in Int}
<1>1. s[0] = 0 /\ \A k \in 1 .. n : s[k] = s[k - 1] + f[k]
  BY PartialSumsExist DEF Accumulates
<1> HIDE DEF s
<1>2. 0 \in G
  BY <1>1
<1>3. ASSUME NEW m \in 0 .. (n - 1), m \in G
      PROVE  m + 1 \in G
  <2>1. m + 1 \in 1 .. n /\ (m + 1) - 1 = m
    OBVIOUS
  <2>2. s[m + 1] = s[m] + f[m + 1] /\ f[m + 1] \in Int
    BY <1>1, <2>1
  <2>3. QED
    BY <1>3, <2>1, <2>2
<1>4. n \in G
  <2>1. n \in 0 .. n
    OBVIOUS
  <2> HIDE DEF G
  <2>2. QED
    BY <1>2, <1>3, <2>1, UpTo
<1>5. QED
  BY <1>4 DEF T!SumTo, s

(* A sum of zeros is zero.                                                 *)
LEMMA SumOfZeros ==
    ASSUME NEW n \in Nat, NEW f, \A k \in 1 .. n : f[k] = 0
    PROVE  T!SumTo(f, n) = 0
<1> DEFINE s == T!PartialSums(f, n)
           G == {m \in 0 .. n : s[m] = 0}
<1>1. s[0] = 0 /\ \A k \in 1 .. n : s[k] = s[k - 1] + f[k]
  BY PartialSumsExist DEF Accumulates
<1> HIDE DEF s
<1>2. 0 \in G
  BY <1>1
<1>3. ASSUME NEW m \in 0 .. (n - 1), m \in G
      PROVE  m + 1 \in G
  <2>1. m + 1 \in 1 .. n /\ (m + 1) - 1 = m
    OBVIOUS
  <2>2. s[m + 1] = s[m] + f[m + 1] /\ f[m + 1] = 0
    BY <1>1, <2>1
  <2>3. QED
    BY <1>3, <2>1, <2>2
<1>4. n \in G
  <2>1. n \in 0 .. n
    OBVIOUS
  <2> HIDE DEF G
  <2>2. QED
    BY <1>2, <1>3, <2>1, UpTo
<1>5. QED
  BY <1>4 DEF T!SumTo, s

(* A sum in which one zero becomes a value gains that value.               *)
LEMMA SumGains ==
    ASSUME NEW n \in Nat, NEW f, NEW g, NEW j \in 1 .. n, NEW v \in Int,
           \A k \in 1 .. n : f[k] \in Int,
           f[j] = 0, g[j] = v, \A k \in 1 .. n : k # j => g[k] = f[k]
    PROVE  T!SumTo(g, n) = T!SumTo(f, n) + v
<1> DEFINE s == T!PartialSums(f, n)
           t == T!PartialSums(g, n)
           G == {m \in 0 .. n : /\ s[m] \in Int
                                /\ t[m] = IF m < j THEN s[m] ELSE s[m] + v}
<1>1. /\ s[0] = 0 /\ \A k \in 1 .. n : s[k] = s[k - 1] + f[k]
      /\ t[0] = 0 /\ \A k \in 1 .. n : t[k] = t[k - 1] + g[k]
  BY PartialSumsExist DEF Accumulates
<1> HIDE DEF s, t
<1>2. 0 \in G
  BY <1>1
<1>3. ASSUME NEW m \in 0 .. (n - 1), m \in G
      PROVE  m + 1 \in G
  <2>1. m + 1 \in 1 .. n /\ (m + 1) - 1 = m
    OBVIOUS
  <2>2. /\ s[m + 1] = s[m] + f[m + 1] /\ f[m + 1] \in Int
        /\ t[m + 1] = t[m] + g[m + 1] /\ s[m] \in Int
        /\ t[m] = IF m < j THEN s[m] ELSE s[m] + v
    BY <1>1, <1>3, <2>1
  <2>3. CASE m + 1 = j
    BY <2>1, <2>2, <2>3
  <2>4. CASE m + 1 # j
    BY <2>1, <2>2, <2>4
  <2>5. QED
    BY <2>3, <2>4
<1>4. n \in G
  <2>1. n \in 0 .. n
    OBVIOUS
  <2> HIDE DEF G
  <2>2. QED
    BY <1>2, <1>3, <2>1, UpTo
<1>5. QED
  BY <1>4 DEF T!SumTo, s, t
-----------------------------------------------------------------------------
(* One more value v at a sample: c values before, of sum t and squares q.  *)
LEMMA SpreadIdentity ==
    ASSUME NEW c \in Int, NEW t \in Int, NEW q \in Int, NEW v \in Int
    PROVE  (c + 1) * (c * q - t * t) + (c * v - t) * (c * v - t)
               = c * ((c + 1) * (q + v * v) - (t + v) * (t + v))
  OBVIOUS

(* A factor that is not zero may be cancelled.                             *)
LEMMA Cancels ==
    ASSUME NEW c \in Int, c # 0, NEW x \in Int, NEW y \in Int, c * x = c * y
    PROVE  x = y
  OBVIOUS

(* A number that two successive numbers divide is a multiple of both.      *)
LEMMA BothDivide ==
    ASSUME NEW u \in Int, NEW c \in Int, NEW a \in Int, NEW b \in Int,
           u = c * a, u = (c + 1) * b
    PROVE  u = c * (c + 1) * (a - b)
<1>1. u = (c + 1) * u - c * u
  OBVIOUS
<1>2. (c + 1) * u = (c + 1) * (c * a) /\ c * u = c * ((c + 1) * b)
  OBVIOUS
<1>3. (c + 1) * (c * a) - c * ((c + 1) * b) = c * (c + 1) * (a - b)
  OBVIOUS
<1>4. QED
  BY <1>1, <1>2, <1>3

(* The unit of the means holds every count of a set a whole number of      *)
(* times.                                                                  *)
LEMMA Divides ==
    ASSUME UnitDivides, NEW n \in 1 .. MaxTraces
    PROVE  \E a \in Int : Unit = n * a
<1> DEFINE a == Unit \div n
<1>1. Unit \in Nat /\ n \in Nat \ {0} /\ Unit % n = 0
  BY DEF UnitDivides
<1>2. Unit = n * a + (Unit % n) /\ a \in Int
  BY <1>1
<1> HIDE DEF a
<1>3. Unit = n * a
  BY <1>1, <1>2
<1>4. QED
  BY Zenon, <1>2, <1>3

(* What Welford keeps of c values, of sum t and sum of squares q.          *)
Exact(c, mean, m2, t, q) ==
    /\ mean \in Int /\ m2 \in Int /\ t \in Int /\ q \in Int
    /\ c = 0 => mean = 0 /\ m2 = 0 /\ t = 0 /\ q = 0
    /\ c * mean = Unit * t
    /\ c * m2 = Unit * Unit * (c * q - t * t)

(* Welford's update of the mean and of the squared differences is exact:   *)
(* with g = Unit / (c (c + 1)) every division has no remainder.            *)
LEMMA WelfordIsExact ==
    ASSUME UnitDivides, NEW c \in 0 .. (MaxTraces - 1), NEW v \in Int,
           NEW mean, NEW m2, NEW t, NEW q, Exact(c, mean, m2, t, q)
    PROVE  LET delta == Unit * v - mean
               next  == mean + delta \div (c + 1)
               m3    == m2 + delta * (Unit * v - next)
           IN  Exact(c + 1, next, m3, t + v, q + v * v)
<1> DEFINE delta == Unit * v - mean
           next  == mean + delta \div (c + 1)
           m3    == m2 + delta * (Unit * v - next)
<1>0. /\ mean \in Int /\ m2 \in Int /\ t \in Int /\ q \in Int
      /\ c = 0 => mean = 0 /\ m2 = 0 /\ t = 0 /\ q = 0
      /\ c * mean = Unit * t
      /\ c * m2 = Unit * Unit * (c * q - t * t)
  BY Zenon DEF Exact
<1> USE <1>0
<1>1. Unit \in Int /\ c \in Nat
  BY DEF UnitDivides
<1>4. ASSUME next \in Int, m3 \in Int, (c + 1) * next = Unit * (t + v),
             (c + 1) * m3 = Unit * Unit
                                * ((c + 1) * (q + v * v) - (t + v) * (t + v))
      PROVE  Exact(c + 1, next, m3, t + v, q + v * v)
  <2>1. t + v \in Int /\ q + v * v \in Int /\ c + 1 # 0
    BY <1>1
  <2> HIDE DEF next, m3
  <2>2. QED
    BY Zenon, <1>4, <2>1 DEF Exact
<1>2. CASE c = 0
  <2>1. delta = Unit * v /\ delta \in Int
    BY <1>1, <1>2
  <2>2. delta \div (c + 1) = delta
    BY <1>2, <2>1
  <2> HIDE DEF delta
  <2>3. next = Unit * v
    BY <1>1, <1>2, <2>1, <2>2
  <2> HIDE DEF next
  <2>4. m3 = 0
    BY <1>1, <1>2, <2>1, <2>3
  <2> HIDE DEF m3
  <2>5. Unit * v \in Int
    BY <1>1
  <2>6. (c + 1) * next = Unit * (t + v)
    BY <1>1, <1>2, <2>3, <2>5
  <2>7. (c + 1) * (q + v * v) - (t + v) * (t + v) = 0
    BY <1>2
  <2>8. next \in Int /\ m3 \in Int
    BY <2>3, <2>4, <2>5
  <2>9. (c + 1) * m3 =
            Unit * Unit * ((c + 1) * (q + v * v) - (t + v) * (t + v))
    BY <1>1, <1>2, <2>4, <2>7
  <2>10. Exact(c + 1, next, m3, t + v, q + v * v)
    BY Zenon, <2>6, <2>8, <2>9, <1>4
  <2>11. QED
    BY Zenon, <2>10 DEF delta, next, m3
<1>3. CASE c # 0
  <2>1. c \in 1 .. MaxTraces /\ c + 1 \in 1 .. MaxTraces
    BY <1>1, <1>3 DEF UnitDivides
  <2>2. PICK a \in Int : Unit = c * a
    BY <2>1, Divides
  <2>3. PICK b \in Int : Unit = (c + 1) * b
    BY <2>1, Divides
  <2> DEFINE g == a - b
  <2>4. g \in Int /\ Unit = c * (c + 1) * g
    BY <1>1, <2>2, <2>3, BothDivide
  <2> HIDE DEF g
  <2> DEFINE w == c * v - t
  <2>5. w \in Int /\ c + 1 \in Int /\ c + 1 # 0
    BY <1>1
  <2>6. mean = (c + 1) * (g * t)
    <3>1. c * mean = c * ((c + 1) * (g * t))
      BY <1>1, <2>4
    <3>2. (c + 1) * (g * t) \in Int
      BY <1>1, <2>4
    <3>3. QED
      BY <1>1, <1>3, <3>1, <3>2, Cancels
  <2>7. m2 = (c * (c + 1) * (c + 1) * g * g) * (c * q - t * t)
    <3> DEFINE d == c * q - t * t
    <3>1. d \in Int
      BY <1>1
    <3>2. c * m2 = Unit * Unit * d
      OBVIOUS
    <3> HIDE DEF d
    <3>3. c * m2 = c * ((c * (c + 1) * (c + 1) * g * g) * d)
      BY <1>1, <2>4, <3>1, <3>2
    <3>4. (c * (c + 1) * (c + 1) * g * g) * d \in Int
      BY <1>1, <2>4, <3>1
    <3>5. m2 = (c * (c + 1) * (c + 1) * g * g) * d
      BY <1>1, <1>3, <3>3, <3>4, Cancels
    <3>6. QED
      BY <3>5 DEF d
  <2>8. delta = (c + 1) * (g * w)
    BY <1>1, <2>4, <2>6
  <2>9. delta \div (c + 1) = g * w
    <3>1. g * w \in Int
      BY <2>4, <2>5
    <3>2. \A x \in Int : ((c + 1) * x) \div (c + 1) = x
      BY <1>1
    <3>3. QED
      BY <2>8, <3>1, <3>2
  <2> HIDE DEF delta
  <2>10. next = (c * g) * (t + v)
    <3>1. next = (c + 1) * (g * t) + g * w
      BY <2>6, <2>9
    <3>2. (c + 1) * (g * t) + g * (c * v - t) = (c * g) * (t + v)
      BY <1>1, <2>4
    <3>3. QED
      BY <3>1, <3>2
  <2> HIDE DEF next
  <2>11. Unit * v - next = (c * g) * w
    BY <1>1, <2>4, <2>10
  <2>12. m3 = m2 + (c * (c + 1) * g * g) * (w * w)
    <3>1. m3 = m2 + ((c + 1) * (g * w)) * ((c * g) * w)
      BY <2>8, <2>11
    <3>2. ((c + 1) * (g * w)) * ((c * g) * w) = (c * (c + 1) * g * g) * (w * w)
      BY <1>1, <2>4, <2>5
    <3>3. QED
      BY <3>1, <3>2
  <2> HIDE DEF m3
  <2> DEFINE e == c * (c + 1) * g * g
             s == c * q - t * t
             r == (c + 1) * (q + v * v) - (t + v) * (t + v)
  <2>13. e \in Int /\ s \in Int /\ r \in Int /\ w * w \in Int
    BY <1>1, <2>4, <2>5
  <2>14. m2 = (c + 1) * (e * s)
    BY <1>1, <2>4, <2>7
  <2>15. m3 = (c + 1) * (e * s) + e * (w * w)
    BY <2>12, <2>14
  <2>16. (c + 1) * s + w * w = c * r
    BY <1>1, SpreadIdentity
  <2>17. Unit * Unit = c * (c + 1) * e
    BY <1>1, <2>4
  <2> HIDE DEF e, s, r, w
  <2>18. m3 = e * ((c + 1) * s + w * w)
    BY <1>1, <2>13, <2>15
  <2>19. m3 = e * (c * r)
    BY <2>16, <2>18
  <2>20. (c + 1) * m3 = (c * (c + 1) * e) * r
    BY <1>1, <2>13, <2>19
  <2>21. (c + 1) * m3 = Unit * Unit * r
    BY <2>17, <2>20
  <2>22. (c + 1) * next = Unit * (t + v)
    BY <1>1, <2>4, <2>10
  <2>23. next \in Int /\ m3 \in Int
    BY <1>1, <2>4, <2>10, <2>13, <2>19
  <2>24. (c + 1) * m3 = Unit * Unit
                            * ((c + 1) * (q + v * v) - (t + v) * (t + v))
    BY <2>21 DEF r
  <2>25. Exact(c + 1, next, m3, t + v, q + v * v)
    BY Zenon, <2>22, <2>23, <2>24, <1>4
  <2>26. QED
    BY Zenon, <2>25 DEF delta, next, m3
<1>5. QED
  BY <1>2, <1>3
-----------------------------------------------------------------------------
(* A statistic that holds some traces of a sample holds them and one more  *)
(* after update.                                                           *)
WelfordStates == [count : Nat, mean : Int, m2 : Int, nan : BOOLEAN]
Batch(of, w, set, i) ==
    /\ w.count = Cardinality(set)
    /\ w.nan = ~T!Numbers(of, set, i)
    /\ T!Numbers(of, set, i) =>
           /\ w.count * w.mean = Unit * T!Total(of, set, i)
           /\ w.count * w.m2 = Unit * Unit * T!Spread(of, set, i)
Kept(of, w, set, i) ==
    /\ w \in WelfordStates
    /\ w.count = 0 => w.mean = 0 /\ w.m2 = 0
    /\ Batch(of, w, set, i)

(* The modules of the tool count a set as the library does.                *)
LEMMA CountsAgree ==
    ASSUME NEW S
    PROVE  T!Cardinality(S) = Cardinality(S)
  BY Zenon DEF T!Cardinality, Cardinality

Counted(u, w, mean, m2) ==
    /\ u \in WelfordStates /\ u.count = w.count + 1
    /\ u.nan = w.nan /\ u.mean = mean /\ u.m2 = m2
Spoilt(u, w) == u \in WelfordStates /\ u.count = w.count + 1 /\ u.nan = TRUE

(* The fields of a Welford state after an update.                          *)
LEMMA StatesGain ==
    ASSUME NEW w \in WelfordStates, NEW mean \in Int, NEW m2 \in Int
    PROVE  /\ Counted([w EXCEPT !.count = @ + 1, !.mean = mean, !.m2 = m2],
                      w, mean, m2)
           /\ Spoilt([w EXCEPT !.count = @ + 1, !.nan = TRUE], w)
<1> DEFINE n == w.count + 1
           y == [w EXCEPT !.count = n]
           z == [y EXCEPT !.mean = mean]
           u == [z EXCEPT !.m2 = m2]
           x == [y EXCEPT !.nan = TRUE]
<1>1. n \in Nat /\ TRUE \in BOOLEAN
  BY DEF WelfordStates
<1> HIDE DEF n
<1>2. y \in WelfordStates /\ y.count = n /\ y.nan = w.nan
  BY <1>1 DEF WelfordStates
<1> HIDE DEF y
<1>3. x \in WelfordStates /\ x.count = n /\ x.nan = TRUE
  BY <1>1, <1>2 DEF WelfordStates
<1>4. z \in WelfordStates /\ z.count = n /\ z.nan = w.nan /\ z.mean = mean
  BY <1>2 DEF WelfordStates
<1> HIDE DEF z
<1>5. /\ u \in WelfordStates /\ u.count = n /\ u.nan = w.nan
      /\ u.mean = mean /\ u.m2 = m2
  BY <1>4 DEF WelfordStates
<1> HIDE DEF x, u
<1>6. Counted(u, w, mean, m2) /\ Spoilt(x, w)
  BY Zenon, <1>3, <1>5 DEF Counted, Spoilt, n
<1>7. QED
  BY <1>6 DEF x, u, z, y, n

(* One trace more adds its value to the sum of a sample, and the square of *)
(* it to the sum of squares.                                               *)
Gained(of, set, k, i) ==
    /\ T!Total(of, set, i) \in Int
    /\ T!Squares(of, set, i) \in Int
    /\ T!Total(of, set \cup {k}, i) = T!Total(of, set, i) + of[k][i]
    /\ T!Squares(of, set \cup {k}, i)
           = T!Squares(of, set, i) + of[k][i] * of[k][i]

(* The totals of a set of traces, with one trace more.                     *)
LEMMA TotalsGain ==
    ASSUME NEW of, Len(of) \in Nat, DOMAIN of = 1 .. Len(of),
           NEW set, NEW k \in DOMAIN of, k \notin set, NEW i,
           set \subseteq DOMAIN of,
           T!Numbers(of, set, i), of[k][i] \in Int
    PROVE  Gained(of, set, k, i)
<1> DEFINE n == Len(of)
           more == set \cup {k}
           v == of[k][i]
           f(s) == [j \in DOMAIN of |-> IF j \in s THEN of[j][i] ELSE 0]
           h(s) == [j \in DOMAIN of |->
                       IF j \in s THEN of[j][i] * of[j][i] ELSE 0]
<1>1. v \in Int /\ v * v \in Int /\ n \in Nat /\ DOMAIN of = 1 .. n
  OBVIOUS
<1>2. \A j \in set : of[j][i] \in Int
  BY DEF T!Numbers
<1>3. \A j \in 1 .. n : f(set)[j] \in Int /\ h(set)[j] \in Int
  BY <1>1, <1>2
<1>4. /\ f(set)[k] = 0 /\ f(more)[k] = v
      /\ h(set)[k] = 0 /\ h(more)[k] = v * v
  OBVIOUS
<1>5. \A j \in 1 .. n : j # k => /\ f(more)[j] = f(set)[j]
                                 /\ h(more)[j] = h(set)[j]
  BY <1>1
<1>6. /\ T!Total(of, set, i) = T!SumTo(f(set), n)
      /\ T!Total(of, more, i) = T!SumTo(f(more), n)
      /\ T!Squares(of, set, i) = T!SumTo(h(set), n)
      /\ T!Squares(of, more, i) = T!SumTo(h(more), n)
  BY Zenon DEF T!Total, T!Squares
<1>7. k \in 1 .. n
  BY <1>1
<1> DEFINE fs == f(set)
           fm == f(more)
           hs == h(set)
           hm == h(more)
<1>8. T!SumTo(fs, n) \in Int /\ T!SumTo(fm, n) = T!SumTo(fs, n) + v
  <2>1. \A j \in 1 .. n : fs[j] \in Int
    BY <1>3
  <2>2. fs[k] = 0 /\ fm[k] = v /\ \A j \in 1 .. n : j # k => fm[j] = fs[j]
    BY <1>4, <1>5
  <2> HIDE DEF fs, fm, v, n
  <2>3. T!SumTo(fs, n) \in Int
    BY Zenon, <1>1, <2>1, SumIsInt
  <2>4. T!SumTo(fm, n) = T!SumTo(fs, n) + v
    BY Zenon, <1>1, <1>7, <2>1, <2>2, SumGains
  <2>5. QED
    BY <2>3, <2>4
<1>9. T!SumTo(hs, n) \in Int /\ T!SumTo(hm, n) = T!SumTo(hs, n) + v * v
  <2>1. \A j \in 1 .. n : hs[j] \in Int
    BY <1>3
  <2>2. hs[k] = 0 /\ hm[k] = v * v /\ \A j \in 1 .. n : j # k => hm[j] = hs[j]
    BY <1>4, <1>5
  <2> DEFINE sq == v * v
  <2>3. sq \in Int /\ n \in Nat
    BY <1>1
  <2>4. hs[k] = 0 /\ hm[k] = sq /\ \A j \in 1 .. n : j # k => hm[j] = hs[j]
    BY <2>2
  <2> HIDE DEF hs, hm, v, n, sq
  <2>5. T!SumTo(hs, n) \in Int
    BY Zenon, <2>1, <2>3, SumIsInt
  <2>6. T!SumTo(hm, n) = T!SumTo(hs, n) + sq
    BY Zenon, <1>7, <2>1, <2>3, <2>4, SumGains
  <2>7. QED
    BY <2>5, <2>6 DEF sq
<1>10. QED
  BY <1>6, <1>8, <1>9 DEF Gained

(* Welford's update keeps statistics that are those of the batch, whatever *)
(* the value: update() of tvla.py, one trace at a time.                    *)
LEMMA Taking ==
    ASSUME UnitDivides, NEW of, Len(of) \in Nat, DOMAIN of = 1 .. Len(of),
           NEW set, set \subseteq DOMAIN of, NEW k \in DOMAIN of,
           k \notin set, IsFiniteSet(set), Cardinality(set) < MaxTraces,
           NEW i, NEW w, Kept(of, w, set, i)
    PROVE  Kept(of, T!update(w, of[k][i]), set \cup {k}, i)
<1> DEFINE v == of[k][i]
           more == set \cup {k}
           delta == Unit * v - w.mean
           next == w.mean + delta \div (w.count + 1)
           m3 == w.m2 + delta * (Unit * v - next)
           u == T!update(w, v)
<1>1. /\ w \in WelfordStates /\ Batch(of, w, set, i)
      /\ w.count = 0 => w.mean = 0 /\ w.m2 = 0
  BY Zenon DEF Kept
<1>2. /\ w.count = Cardinality(set)
      /\ w.nan = ~T!Numbers(of, set, i)
      /\ T!Numbers(of, set, i) =>
             /\ w.count * w.mean = Unit * T!Total(of, set, i)
             /\ w.count * w.m2 = Unit * Unit * T!Spread(of, set, i)
  BY Zenon, <1>1, CountsAgree DEF Batch
<1>3. Cardinality(more) = Cardinality(set) + 1 /\ Cardinality(set) \in Nat
  BY FS_AddElement, FS_CardinalityType
<1>4. T!Numbers(of, more, i) <=> T!Numbers(of, set, i) /\ v \in Int
  BY Zenon DEF T!Numbers
<1>5. u = IF w.nan \/ v \notin Int
          THEN [w EXCEPT !.count = @ + 1, !.nan = TRUE]
          ELSE [w EXCEPT !.count = @ + 1, !.mean = next, !.m2 = m3]
  BY Zenon DEF T!update
<1> HIDE DEF u
<1>6. w.count \in Nat /\ w.mean \in Int /\ w.m2 \in Int /\ w.nan \in BOOLEAN
  BY <1>1 DEF WelfordStates
<1>7. CASE w.nan \/ v \notin Int
  <2>1. u = [w EXCEPT !.count = @ + 1, !.nan = TRUE]
    BY Zenon, <1>5, <1>7
  <2>2. u \in WelfordStates /\ u.count = w.count + 1 /\ u.nan = TRUE
    BY Zenon, <1>1, <1>6, <2>1, StatesGain DEF Spoilt
  <2>3. ~T!Numbers(of, more, i)
    BY Zenon, <1>2, <1>4, <1>7
  <2>4. u.count = Cardinality(more) /\ u.count # 0
    BY <1>2, <1>3, <2>2
  <2>5. Batch(of, u, more, i)
    BY Zenon, <2>2, <2>3, <2>4, CountsAgree DEF Batch
  <2>6. QED
    BY Zenon, <2>2, <2>4, <2>5 DEF Kept, u, v, more
<1>8. CASE ~(w.nan \/ v \notin Int)
  <2> DEFINE c == w.count
             mean == w.mean
             m2 == w.m2
             t == T!Total(of, set, i)
             q == T!Squares(of, set, i)
             t2 == T!Total(of, more, i)
             q2 == T!Squares(of, more, i)
  <2>1. T!Numbers(of, set, i) /\ v \in Int /\ T!Numbers(of, more, i)
    BY Zenon, <1>2, <1>4, <1>6, <1>8
  <2>2. t \in Int /\ q \in Int /\ t2 = t + v /\ q2 = q + v * v
    <3>1. Gained(of, set, k, i)
      BY Zenon, <2>1, TotalsGain
    <3>2. QED
      BY Zenon, <3>1 DEF Gained
  <2>3. c \in 0 .. (MaxTraces - 1)
    BY <1>2, <1>3 DEF UnitDivides
  <2>4. /\ c * mean = Unit * t
        /\ c * m2 = Unit * Unit * (c * q - t * t)
    BY Zenon, <1>2, <2>1, CountsAgree DEF T!Spread
  <2>5. c = 0 => t = 0 /\ q = 0
    <3>1. SUFFICES ASSUME c = 0 PROVE t = 0 /\ q = 0
      OBVIOUS
    <3>2. set = {}
      BY <1>2, <3>1, FS_EmptySet
    <3> DEFINE n == Len(of)
               z == [j \in DOMAIN of |-> 0]
    <3>3. t = T!SumTo(z, n) /\ q = T!SumTo(z, n)
      BY <3>2 DEF T!Total, T!Squares
    <3>4. n \in Nat /\ \A j \in 1 .. n : z[j] = 0
      OBVIOUS
    <3>5. T!SumTo(z, n) = 0
      <4> HIDE DEF z, n
      <4>1. QED
        BY <3>4, SumOfZeros
    <3>6. QED
      BY <3>3, <3>5
  <2>6. c = 0 => mean = 0 /\ m2 = 0
    BY <1>1
  <2>7. u = [w EXCEPT !.count = @ + 1, !.mean = next, !.m2 = m3]
    BY Zenon, <1>5, <1>8
  <2>8. Exact(c + 1, next, m3, t + v, q + v * v)
    <3>1. Exact(c, mean, m2, t, q)
      BY Zenon, <1>6, <2>2, <2>4, <2>5, <2>6 DEF Exact
    <3> HIDE DEF c, mean, m2, t, q, v, t2, q2
    <3>2. QED
      BY Zenon, <2>1, <2>3, <3>1, WelfordIsExact DEF c, mean, m2
  <2> HIDE DEF next, m3
  <2>81. /\ next \in Int /\ m3 \in Int
         /\ (c + 1) * next = Unit * (t + v)
         /\ (c + 1) * m3 = Unit * Unit
                               * ((c + 1) * (q + v * v) - (t + v) * (t + v))
    BY Zenon, <2>8 DEF Exact
  <2>9. /\ u \in WelfordStates /\ u.count = c + 1 /\ u.nan = w.nan
        /\ u.mean = next /\ u.m2 = m3
    <3>1. Counted(u, w, next, m3)
      BY Zenon, <1>1, <2>7, <2>81, StatesGain
    <3>2. QED
      BY Zenon, <3>1 DEF Counted
  <2>10. u.count = Cardinality(more) /\ u.count # 0
    BY <1>2, <1>3, <2>9
  <2>11. T!Spread(of, more, i) = (c + 1) * q2 - t2 * t2
    BY Zenon, <2>9, <2>10, CountsAgree DEF T!Spread
  <2>12. /\ u.count * u.mean = Unit * t2
         /\ u.count * u.m2 = Unit * Unit * T!Spread(of, more, i)
    BY Zenon, <2>2, <2>81, <2>9, <2>11
  <2>13. u.nan = ~T!Numbers(of, more, i)
    BY Zenon, <1>2, <2>1, <2>9
  <2>14. Batch(of, u, more, i)
    BY Zenon, <2>10, <2>12, <2>13, CountsAgree DEF Batch
  <2>15. QED
    BY Zenon, <2>9, <2>10, <2>14 DEF Kept, u, v, more
<1>9. QED
  BY <1>7, <1>8
-----------------------------------------------------------------------------
(* Sequences of some elements.                                             *)
IsList(s) == \E S : s \in Seq(S)

(* A list has a length, and its places are the numbers up to it.           *)
LEMMA ListIs ==
    ASSUME NEW s, IsList(s)
    PROVE  Len(s) \in Nat /\ DOMAIN s = 1 .. Len(s)
<1>1. PICK S : s \in Seq(S)
  BY DEF IsList
<1>2. QED
  BY <1>1

(* Two lists, one after the other, are a list of both lengths.             *)
LEMMA ListTwo ==
    ASSUME NEW s, NEW t, IsList(s), IsList(t)
    PROVE  /\ IsList(s \o t) /\ Len(s \o t) = Len(s) + Len(t)
           /\ DOMAIN (s \o t) = 1 .. Len(s) + Len(t)
<1>1. PICK S, X : s \in Seq(S) /\ t \in Seq(X)
  BY DEF IsList
<1> DEFINE U == S \cup X
<1>2. s \in Seq(U) /\ t \in Seq(U)
  BY <1>1
<1>3. s \o t \in Seq(U) /\ Len(s \o t) = Len(s) + Len(t)
  BY <1>2
<1>4. IsList(s \o t)
  BY <1>3 DEF IsList
<1>5. QED
  BY <1>3, <1>4, ListIs

(* A list with one element more is a list.                                 *)
LEMMA ListMore ==
    ASSUME NEW s, NEW e, IsList(s)
    PROVE  IsList(Append(s, e))
<1>1. PICK S : s \in Seq(S)
  BY DEF IsList
<1>2. Append(s, e) \in Seq(S \cup {e})
  BY <1>1
<1>3. QED
  BY <1>2 DEF IsList

(* A function on the numbers up to n is a list of length n.                *)
LEMMA ListUpTo ==
    ASSUME NEW n \in Nat, NEW s, DOMAIN s = 1 .. n, s = [k \in 1 .. n |-> s[k]]
    PROVE  IsList(s) /\ Len(s) = n
<1> DEFINE S == {s[k] : k \in 1 .. n}
<1>1. s \in [1 .. n -> S]
  <2>1. \A k \in 1 .. n : s[k] \in S
    OBVIOUS
  <2> HIDE DEF S
  <2>2. QED
    BY Zenon, <2>1
<1> HIDE DEF S
<1>2. s \in Seq(S)
  BY <1>1
<1>3. QED
  BY <1>1, <1>2 DEF IsList

(* The places of the two sets among the series.                            *)
LEMMA SetPlaces ==
    ASSUME IsList(fixed_paths), IsList(random_paths)
    PROVE  LET f == Len(fixed_paths)
               r == Len(random_paths)
           IN  /\ f \in Nat /\ r \in Nat /\ Len(T!paths) = f + r
               /\ T!FixedSet = 1 .. f /\ T!RandomSet = f + 1 .. f + r
<1>1. /\ Len(fixed_paths) \in Nat /\ DOMAIN fixed_paths = 1 .. Len(fixed_paths)
      /\ Len(random_paths) \in Nat
  BY ListIs
<1>2. /\ Len(fixed_paths \o random_paths)
             = Len(fixed_paths) + Len(random_paths)
      /\ DOMAIN (fixed_paths \o random_paths)
             = 1 .. Len(fixed_paths) + Len(random_paths)
  BY ListTwo
<1>3. T!paths = fixed_paths \o random_paths
  BY Zenon DEF T!paths
<1>4. T!FixedSet = 1 .. Len(fixed_paths)
  BY Zenon, <1>1 DEF T!FixedSet
<1>5. T!RandomSet = (1 .. Len(fixed_paths) + Len(random_paths))
                          \ (1 .. Len(fixed_paths))
  BY Zenon, <1>2, <1>3, <1>4 DEF T!RandomSet
<1>6. QED
  BY <1>1, <1>2, <1>3, <1>4, <1>5

(* The inductive invariant.  The statistics of both sets cover the same    *)
(* samples and hold the traces taken so far.                               *)
Statistics ==
    /\ Len(series) = Len(fixed_paths) + Len(random_paths)
    /\ taken \in 0 .. Len(series)
    /\ DOMAIN random_stats = DOMAIN fixed_stats
    /\ \A i \in DOMAIN fixed_stats :
           /\ Kept(series, fixed_stats[i], T!FixedSet \cap (1 .. taken), i)
           /\ Kept(series, random_stats[i], T!RandomSet \cap (1 .. taken), i)
LInv ==
    /\ IsList(fixed_paths) /\ Len(fixed_paths) <= MaxTraces
    /\ IsList(random_paths) /\ Len(random_paths) <= MaxTraces
    /\ IsList(series)
    /\ phase \in {"start", "load"} => taken = 0
    /\ phase \in {"take", "reported"} => Statistics

(* The invariant is enough for StatisticsAreBatch.                         *)
LEMMA StatisticsHold ==
    ASSUME LInv
    PROVE  StatisticsAreBatch
<1> SUFFICES ASSUME phase \in {"take", "reported"},
                    NEW i \in DOMAIN fixed_stats
             PROVE  /\ T!HoldsBatch(fixed_stats[i],
                                      T!FixedSet \cap (1 .. taken), i)
                    /\ T!HoldsBatch(random_stats[i],
                                      T!RandomSet \cap (1 .. taken), i)
  BY Zenon DEF StatisticsAreBatch, T!StatisticsAreBatch
<1>1. /\ Kept(series, fixed_stats[i], T!FixedSet \cap (1 .. taken), i)
      /\ Kept(series, random_stats[i], T!RandomSet \cap (1 .. taken), i)
  BY Zenon DEF LInv, Statistics
<1>2. ASSUME NEW w, NEW set, Kept(series, w, set, i)
      PROVE  T!HoldsBatch(w, set, i)
  BY Zenon, <1>2, CountsAgree DEF Kept, Batch, T!HoldsBatch
<1>3. QED
  BY Zenon, <1>1, <1>2

(* The invariant holds when the conversion starts.                         *)
LEMMA Starts ==
    ASSUME UnitDivides, Init
    PROVE  LInv
<1>1. /\ fixed_paths = << >> /\ random_paths = << >> /\ series = << >>
      /\ taken = 0 /\ phase = "start"
  BY Zenon DEF Init, T!Idle
<1>2. IsList(<< >>) /\ Len(<< >>) = 0
  BY DEF IsList
<1>3. 0 <= MaxTraces
  BY DEF UnitDivides
<1>4. phase \notin {"take", "reported"}
  BY <1>1
<1>5. QED
  BY Zenon, <1>1, <1>2, <1>3, <1>4 DEF LInv

(* The expansion of the arguments yields lists of paths.                   *)
LEMMA ExpandKeeps ==
    ASSUME LInv, UnitDivides, T!Expand
    PROVE  LInv'
<1> USE DEF T!pathVars, T!statVars
<1>1. /\ phase = "start"
      /\ UNCHANGED <<series, fixed_stats, random_stats, taken>>
      /\ T!Bounded(args.fixed) /\ T!Bounded(args.random)
      /\ \/ phase' = "exited" /\ UNCHANGED <<fixed_paths, random_paths>>
         \/ /\ fixed_paths' = T!expand_inputs(args.fixed)
            /\ random_paths' = T!expand_inputs(args.random)
            /\ phase' = "load"
  BY Zenon DEF T!Expand, T!TvlaError, T!exit
<1>2. ASSUME NEW entries, T!Bounded(entries)
      PROVE  /\ IsList(T!expand_inputs(entries))
             /\ Len(T!expand_inputs(entries)) <= MaxTraces
  <2> DEFINE n == T!Cardinality(T!Found(entries))
             s == T!expand_inputs(entries)
  <2>1. n \in 0 .. MaxTraces
    BY Zenon, <1>2 DEF T!Bounded
  <2> DEFINE found == T!Found(entries)
             place(f) == T!Cardinality({g \in found : T!Earlier(g, f)})
             e(k) == (CHOOSE f \in found : place(f) = k - 1)[2]
  <2>2. DOMAIN s = 1 .. n /\ s = [k \in 1 .. n |-> s[k]]
    <3>1. s = [k \in 1 .. n |-> e(k)]
      BY Zenon DEF T!expand_inputs
    <3> HIDE DEF s, n, e
    <3>2. QED
      BY <3>1
  <2> HIDE DEF n, s
  <2>3. n \in Nat /\ n <= MaxTraces
    BY <2>1 DEF UnitDivides
  <2>4. IsList(s) /\ Len(s) = n
    BY Zenon, <2>2, <2>3, ListUpTo
  <2>5. QED
    BY Zenon, <2>3, <2>4 DEF s
<1>3. /\ IsList(fixed_paths') /\ Len(fixed_paths') <= MaxTraces
      /\ IsList(random_paths') /\ Len(random_paths') <= MaxTraces
  BY Zenon, <1>1, <1>2 DEF LInv
<1>4. taken' = 0 /\ IsList(series')
  BY <1>1 DEF LInv
<1>5. phase' \notin {"take", "reported"}
  BY <1>1
<1>6. QED
  BY Zenon, <1>3, <1>4, <1>5 DEF LInv

(* Loading a file leaves a list of series.                                 *)
LEMMA LoadKeeps ==
    ASSUME LInv, T!Load
    PROVE  LInv'
<1>1. /\ phase = "load"
      /\ UNCHANGED <<fixed_paths, random_paths, fixed_stats, random_stats,
                     taken>>
  BY Zenon DEF T!Load, T!pathVars, T!statVars
<1>2. \/ phase' = "exited" /\ UNCHANGED series
      \/ phase' = phase /\ \E e : series' = Append(series, e)
  BY Zenon DEF T!Load, T!Traceback, T!TvlaError, T!exit
<1>3. IsList(series') /\ phase' \notin {"take", "reported"}
  BY <1>1, <1>2, ListMore DEF LInv
<1>4. QED
  BY Zenon, <1>1, <1>3 DEF LInv

(* The statistics of no trace are those of a batch of none.                *)
LEMMA AlignKeeps ==
    ASSUME LInv, UnitDivides, T!Align
    PROVE  LInv'
<1>1. /\ phase = "load" /\ Len(series) = Len(T!paths)
      /\ UNCHANGED <<fixed_paths, random_paths, series>>
      /\ \/ phase' = "exited" /\ UNCHANGED taken
         \/ /\ fixed_stats' = [i \in 1 .. T!prefix |-> T!Welford]
            /\ random_stats' = [i \in 1 .. T!prefix |-> T!Welford]
            /\ phase' = "take" /\ UNCHANGED taken
  BY Zenon DEF T!Align, T!pathVars, T!statVars, T!TvlaError, T!exit
<1>2. taken' = 0 /\ phase' \notin {"start", "load"}
  BY <1>1 DEF LInv
<1>3. Len(series) = Len(fixed_paths) + Len(random_paths) /\ Len(series) \in Nat
  BY Zenon, <1>1, SetPlaces, ListIs DEF LInv
<1>4. CASE phase' = "exited"
  <2>1. phase' \notin {"take", "reported"}
    BY <1>4
  <2>2. QED
    BY Zenon, <1>1, <1>2, <2>1 DEF LInv
<1>5. CASE phase' # "exited"
  <2> DEFINE all == 1 .. T!prefix
             zero == T!Welford
  <2>1. /\ fixed_stats' = [i \in all |-> zero]
        /\ random_stats' = [i \in all |-> zero]
    BY Zenon, <1>1, <1>5
  <2>2. ASSUME NEW i
        PROVE  Kept(series, zero, {}, i)
    <3>1. zero = [count |-> 0, mean |-> 0, m2 |-> 0, nan |-> FALSE]
      BY Zenon DEF T!Welford
    <3> DEFINE n == Len(series)
               z == [j \in DOMAIN series |-> 0]
    <3>2. n \in Nat /\ DOMAIN series = 1 .. n
      BY Zenon, ListIs DEF LInv
    <3>3. T!Total(series, {}, i) = T!SumTo(z, n)
      BY DEF T!Total
    <3>4. T!Squares(series, {}, i) = T!SumTo(z, n)
      BY DEF T!Squares
    <3>5. \A j \in 1 .. n : z[j] = 0
      BY <3>2
    <3>6. T!SumTo(z, n) = 0
      <4> HIDE DEF z, n
      <4>1. QED
        BY <3>2, <3>5, SumOfZeros
    <3>7. T!Numbers(series, {}, i)
      BY DEF T!Numbers
    <3>8. Cardinality({}) = 0
      BY FS_EmptySet
    <3>9. T!Spread(series, {}, i) = 0
      BY <3>3, <3>4, <3>6, <3>8, CountsAgree DEF T!Spread
    <3>10. Unit \in Int
      BY DEF UnitDivides
    <3> HIDE DEF zero
    <3>11. /\ zero \in WelfordStates /\ zero.count = 0 /\ zero.mean = 0
           /\ zero.m2 = 0 /\ zero.nan = FALSE
      BY <3>1 DEF WelfordStates
    <3>12. /\ zero.count * zero.mean = Unit * T!Total(series, {}, i)
           /\ zero.count * zero.m2 = Unit * Unit * T!Spread(series, {}, i)
      BY <3>3, <3>6, <3>9, <3>10, <3>11
    <3>13. Batch(series, zero, {}, i)
      BY Zenon, <3>7, <3>8, <3>11, <3>12 DEF Batch
    <3>14. QED
      BY Zenon, <3>11, <3>13 DEF Kept
  <2> HIDE DEF zero
  <2>3. /\ T!FixedSet' \cap (1 .. taken') = {}
        /\ T!RandomSet' \cap (1 .. taken') = {}
    BY <1>2
  <2>4. Statistics'
    <3>1. taken' \in 0 .. Len(series')
      BY <1>1, <1>2, <1>3
    <3>2. Len(series') = Len(fixed_paths') + Len(random_paths')
      BY <1>1, <1>3
    <3>3. DOMAIN random_stats' = DOMAIN fixed_stats'
      BY <2>1
    <3>4. ASSUME NEW i \in DOMAIN fixed_stats'
          PROVE  /\ fixed_stats'[i] = zero /\ random_stats'[i] = zero
                 /\ series' = series
      BY <1>1, <2>1, <3>4
    <3>5. QED
      BY Zenon, <2>2, <2>3, <3>1, <3>2, <3>3, <3>4 DEF Statistics
  <2>5. QED
    BY Zenon, <1>1, <1>2, <2>4 DEF LInv
<1>6. QED
  BY Zenon, <1>4, <1>5

(* The traces of a set that are taken, with and without the next one.      *)
LEMMA TakenGains ==
    ASSUME NEW f \in Nat, NEW r \in Nat, NEW k \in 0 .. (f + r - 1)
    PROVE  LET low(n) == (1 .. f) \cap (1 .. n)
               high(n) == (f + 1 .. f + r) \cap (1 .. n)
           IN  /\ k < f => /\ low(k + 1) = low(k) \cup {k + 1}
                           /\ high(k + 1) = high(k)
                           /\ Cardinality(low(k)) < f
               /\ k >= f => /\ high(k + 1) = high(k) \cup {k + 1}
                            /\ low(k + 1) = low(k)
                            /\ Cardinality(high(k)) < r
               /\ IsFiniteSet(low(k)) /\ IsFiniteSet(high(k))
               /\ k + 1 \notin low(k) /\ k + 1 \notin high(k)
<1> DEFINE low(n) == (1 .. f) \cap (1 .. n)
           high(n) == (f + 1 .. f + r) \cap (1 .. n)
<1>1. k \in Nat /\ k + 1 \notin low(k) /\ k + 1 \notin high(k)
  OBVIOUS
<1>4. k \in Int /\ (k < f <=> ~(k >= f)) /\ (k >= f => k - f < r)
  OBVIOUS
<1>2. CASE k < f
  <2>1. low(k + 1) = low(k) \cup {k + 1} /\ high(k + 1) = high(k)
    BY <1>2
  <2>2. low(k) = 1 .. k /\ high(k) = 1 .. 0
    BY <1>2
  <2>3. IsFiniteSet(1 .. k) /\ Cardinality(1 .. k) = k
    BY <1>1, FS_Interval
  <2>4. IsFiniteSet(1 .. 0)
    BY FS_Interval
  <2>5. /\ IsFiniteSet(low(k)) /\ IsFiniteSet(high(k))
        /\ Cardinality(low(k)) < f /\ ~(k >= f)
    BY Zenon, <1>2, <2>2, <2>3, <2>4, <1>4
  <2>6. QED
    BY Zenon, <1>1, <1>2, <2>1, <2>5
<1>3. CASE k >= f
  <2>1. high(k + 1) = high(k) \cup {k + 1} /\ low(k + 1) = low(k)
    BY <1>3
  <2>2. low(k) = 1 .. f /\ high(k) = f + 1 .. k
    BY <1>3
  <2>3. IsFiniteSet(1 .. f)
    BY FS_Interval
  <2>4. IsFiniteSet(f + 1 .. k) /\ Cardinality(f + 1 .. k) = k - f
    <3>1. Cardinality(f + 1 .. k)
              = IF f + 1 > k THEN 0 ELSE k - (f + 1) + 1
      BY <1>1, FS_Interval
    <3>2. IsFiniteSet(f + 1 .. k)
      BY <1>1, FS_Interval
    <3>3. QED
      BY <1>1, <1>3, <3>1, <3>2
  <2>5. /\ IsFiniteSet(low(k)) /\ IsFiniteSet(high(k))
        /\ Cardinality(high(k)) < r /\ ~(k < f)
    BY Zenon, <1>3, <2>2, <2>3, <2>4, <1>4
  <2>6. QED
    BY Zenon, <1>1, <1>3, <2>1, <2>5
<1>5. QED
  BY <1>2, <1>3, <1>4

(* Taking a series gives every sample of its set the batch of one trace    *)
(* more, and leaves the other set.                                         *)
LEMMA TakeKeeps ==
    ASSUME LInv, UnitDivides, T!Take
    PROVE  LInv'
<1> DEFINE f == Len(fixed_paths)
           r == Len(random_paths)
           k == taken
           low(n) == (1 .. f) \cap (1 .. n)
           high(n) == (f + 1 .. f + r) \cap (1 .. n)
           Gain(stats) == [i \in DOMAIN stats |->
                              T!update(stats[i], series[k + 1][i])]
<1>1. /\ phase = "take" /\ taken < Len(series) /\ taken' = taken + 1
      /\ UNCHANGED <<fixed_paths, random_paths, series, phase>>
      /\ \/ /\ k < f /\ fixed_stats' = Gain(fixed_stats)
            /\ random_stats' = random_stats
         \/ /\ ~(k < f) /\ random_stats' = Gain(random_stats)
            /\ fixed_stats' = fixed_stats
  BY Zenon DEF T!Take, T!pathVars, T!Updated
<1>2. /\ IsList(fixed_paths) /\ IsList(random_paths) /\ IsList(series)
      /\ f <= MaxTraces /\ r <= MaxTraces
      /\ Len(series) = f + r /\ taken \in 0 .. Len(series)
      /\ DOMAIN random_stats = DOMAIN fixed_stats
  BY Zenon, <1>1 DEF LInv, Statistics
<1>3. /\ f \in Nat /\ r \in Nat /\ T!FixedSet = 1 .. f
      /\ T!RandomSet = f + 1 .. f + r
      /\ DOMAIN series = 1 .. Len(series)
  BY Zenon, <1>2, SetPlaces, ListIs
<1>4. \A i \in DOMAIN fixed_stats :
          /\ Kept(series, fixed_stats[i], low(k), i)
          /\ Kept(series, random_stats[i], high(k), i)
  BY Zenon, <1>1, <1>3 DEF LInv, Statistics
<1>5. k \in 0 .. (f + r - 1) /\ k + 1 \in DOMAIN series
  BY <1>1, <1>2, <1>3
<1>6. /\ k < f => /\ low(k + 1) = low(k) \cup {k + 1}
                  /\ high(k + 1) = high(k)
                  /\ Cardinality(low(k)) < f
      /\ k >= f => /\ high(k + 1) = high(k) \cup {k + 1}
                   /\ low(k + 1) = low(k)
                   /\ Cardinality(high(k)) < r
      /\ IsFiniteSet(low(k)) /\ IsFiniteSet(high(k))
      /\ k + 1 \notin low(k) /\ k + 1 \notin high(k)
  BY Zenon, <1>3, <1>5, TakenGains
<1>7. low(k) \subseteq DOMAIN series /\ high(k) \subseteq DOMAIN series
  BY <1>2, <1>3
<1>8. /\ k < f => Cardinality(low(k)) < MaxTraces
      /\ k >= f => Cardinality(high(k)) < MaxTraces
      /\ k < f \/ k >= f
  <2>1. MaxTraces \in Nat
    BY Zenon DEF UnitDivides
  <2>2. Cardinality(low(k)) \in Nat /\ Cardinality(high(k)) \in Nat
    BY Zenon, <1>6, FS_CardinalityType
  <2> HIDE DEF low, high
  <2>3. QED
    BY <1>2, <1>3, <1>5, <1>6, <2>1, <2>2
<1>9. /\ T!FixedSet' \cap (1 .. taken') = low(k + 1)
      /\ T!RandomSet' \cap (1 .. taken') = high(k + 1)
  <2>1. /\ T!FixedSet' = DOMAIN fixed_paths'
        /\ T!RandomSet' = DOMAIN (fixed_paths' \o random_paths')
                                \ DOMAIN fixed_paths'
        /\ T!FixedSet = DOMAIN fixed_paths
        /\ T!RandomSet = DOMAIN (fixed_paths \o random_paths)
                               \ DOMAIN fixed_paths
    BY Zenon DEF T!FixedSet, T!RandomSet, T!paths
  <2>2. T!FixedSet' = T!FixedSet /\ T!RandomSet' = T!RandomSet
    BY Zenon, <1>1, <2>1
  <2>3. QED
    BY Zenon, <1>1, <1>3, <2>2
<1> HIDE DEF low, high
<1>10. /\ DOMAIN fixed_stats' = DOMAIN fixed_stats
       /\ DOMAIN random_stats' = DOMAIN fixed_stats
  BY <1>1, <1>2
<1>11. ASSUME NEW i \in DOMAIN fixed_stats
       PROVE  /\ Kept(series, fixed_stats'[i], low(k + 1), i)
              /\ Kept(series, random_stats'[i], high(k + 1), i)
  <2> DEFINE a == fixed_stats[i]
             b == random_stats[i]
             a2 == T!update(a, series[k + 1][i])
             b2 == T!update(b, series[k + 1][i])
  <2>1. Kept(series, a, low(k), i) /\ Kept(series, b, high(k), i)
    BY Zenon, <1>4
  <2>2. Len(series) \in Nat /\ DOMAIN series = 1 .. Len(series)
    BY Zenon, <1>2, ListIs
  <2>3. CASE k < f
    <3>1. Kept(series, a2, low(k) \cup {k + 1}, i)
      BY Zenon, <1>5, <1>6, <1>7, <1>8, <2>1, <2>2, <2>3, Taking
    <3>2. fixed_stats'[i] = a2 /\ random_stats'[i] = b
      BY Zenon, <1>1, <2>3
    <3>3. QED
      BY Zenon, <1>6, <2>1, <2>3, <3>1, <3>2
  <2>4. CASE k >= f
    <3>1. Kept(series, b2, high(k) \cup {k + 1}, i)
      BY Zenon, <1>5, <1>6, <1>7, <1>8, <2>1, <2>2, <2>4, Taking
    <3>2. ~(k < f)
      BY <1>3, <1>5, <2>4
    <3>3. random_stats'[i] = b2 /\ fixed_stats'[i] = a
      BY Zenon, <1>1, <1>2, <3>2
    <3>4. QED
      BY Zenon, <1>6, <2>1, <2>4, <3>1, <3>3
  <2>5. QED
    BY Zenon, <1>8, <2>3, <2>4
<1>12. Statistics'
  <2>1. taken' \in 0 .. Len(series') /\ Len(series') = f + r
    BY <1>1, <1>2, <1>5
  <2>2. /\ series' = series
        /\ fixed_paths' = fixed_paths /\ random_paths' = random_paths
    BY <1>1
  <2>3. QED
    BY Zenon, <1>9, <1>10, <1>11, <2>1, <2>2 DEF Statistics
<1>13. phase' \notin {"start", "load"}
  BY <1>1
<1>14. QED
  BY Zenon, <1>1, <1>2, <1>12, <1>13 DEF LInv

(* What leaves the assessment alone.                                       *)
LEMMA OthersKeep ==
    ASSUME LInv, UNCHANGED assessVars
    PROVE  LInv'
<1>1. UNCHANGED <<fixed_paths, random_paths, series, fixed_stats,
                  random_stats, taken, phase>>
  BY DEF assessVars
<1>2. T!FixedSet' = T!FixedSet /\ T!RandomSet' = T!RandomSet
  BY Zenon, <1>1 DEF T!FixedSet, T!RandomSet, T!paths
<1>3. Statistics => Statistics'
  BY Zenon, <1>1, <1>2 DEF Statistics
<1>4. QED
  BY Zenon, <1>1, <1>3 DEF LInv

(* The report changes no statistics.                                       *)
LEMMA ReportKeeps ==
    ASSUME LInv, T!Report
    PROVE  LInv'
<1>1. /\ UNCHANGED <<fixed_paths, random_paths, series, fixed_stats,
                     random_stats, taken>>
      /\ phase = "take" /\ phase' = "reported"
  BY Zenon DEF T!Report, T!pathVars, T!statVars
<1>2. T!FixedSet' = T!FixedSet /\ T!RandomSet' = T!RandomSet
  BY Zenon, <1>1 DEF T!FixedSet, T!RandomSet, T!paths
<1>3. Statistics /\ phase' \notin {"start", "load"}
  BY <1>1 DEF LInv
<1>4. Statistics'
  BY Zenon, <1>1, <1>2, <1>3 DEF Statistics
<1>5. QED
  BY Zenon, <1>1, <1>3, <1>4 DEF LInv

(* The running statistics of every sample are the batch statistics.        *)
THEOREM StatisticsExact == Spec => []StatisticsAreBatch
<1> USE UnitAssumption
<1>1. Init => LInv
  BY Starts
<1>2. ASSUME LInv, [Next]_vars
      PROVE  LInv'
  <2>1. CASE Convert
    BY Zenon, <1>2, <2>1, OthersKeep DEF Convert, assessVars
  <2>2. CASE Publish \/ Fail
    BY Zenon, <1>2, <2>2, OthersKeep DEF Publish, Fail, End
  <2>3. CASE Assess
    BY Zenon, <1>2, <2>3, ExpandKeeps, LoadKeeps, AlignKeeps, TakeKeeps,
       ReportKeeps DEF Assess, T!Next
  <2>4. CASE UNCHANGED vars
    <3>1. UNCHANGED assessVars
      BY <2>4 DEF vars
    <3>2. QED
      BY Zenon, <1>2, <3>1, OthersKeep
  <2>5. QED
    BY Zenon, <1>2, <2>1, <2>2, <2>3, <2>4 DEF Next
<1>3. LInv => StatisticsAreBatch
  BY StatisticsHold
<1>4. QED
  BY <1>1, <1>2, <1>3, PTL DEF Spec
-----------------------------------------------------------------------------
(* A factor above zero keeps an order.                                     *)
LEMMA Scales ==
    ASSUME NEW p \in Int, p > 0, NEW x \in Int, NEW y \in Int
    PROVE  p * x > p * y <=> x > y
<1>1. CASE x > y
  <2>1. p * (x - y) > 0
    BY <1>1
  <2>2. p * (x - y) = p * x - p * y /\ p * x \in Int /\ p * y \in Int
    OBVIOUS
  <2>3. QED
    BY <1>1, <2>1, <2>2
<1>2. CASE ~(x > y)
  <2>1. p * (y - x) >= 0
    BY <1>2
  <2>2. p * (y - x) = p * y - p * x /\ p * x \in Int /\ p * y \in Int
    OBVIOUS
  <2>3. QED
    BY <1>2, <2>1, <2>2
<1>3. QED
  BY <1>1, <1>2

(* The comparison of the two means by their kept parts, and by the sums of *)
(* their values.                                                           *)
Kind(n, ma, va, k, mb, vb) ==
    LET na == n * (n - 1)
        nb == k * (k - 1)
        d  == ma - mb
        v  == va * nb + vb * na
    IN  (v = 0 /\ d # 0) \/ 4 * d * d * na * nb > 81 * v
Summed(n, ta, sa, k, tb, sb) ==
    LET d == ta * k - tb * n
    IN  4 * d * d * (n - 1) * (k - 1)
            > 81 * (sa * k * k * (k - 1) + sb * n * n * (n - 1))

(* The comparison of welch_t, made on the running statistics, is the one   *)
(* of the two-pass definition on the sums: the scale of the unit and the   *)
(* counts of the traces cancel.                                            *)
LEMMA WelchOfSums ==
    ASSUME NEW u \in Int, u > 0, NEW n \in Int, n >= 2, NEW k \in Int, k >= 2,
           NEW ma \in Int, NEW va \in Int, NEW ta \in Int, NEW sa \in Int,
           NEW mb \in Int, NEW vb \in Int, NEW tb \in Int, NEW sb \in Int,
           n * ma = u * ta, n * va = u * u * sa,
           k * mb = u * tb, k * vb = u * u * sb
    PROVE  Kind(n, ma, va, k, mb, vb) <=> Summed(n, ta, sa, k, tb, sb)
<1> DEFINE na == n * (n - 1)
           nb == k * (k - 1)
           d  == ma - mb
           v  == va * nb + vb * na
           e  == ta * k - tb * n
           w  == sa * k * k * (k - 1) + sb * n * n * (n - 1)
           h  == (n - 1) * (k - 1)
<1>1. /\ d \in Int /\ v \in Int /\ e \in Int /\ w \in Int /\ h \in Int
      /\ na \in Int /\ nb \in Int
  OBVIOUS
<1>2. n * k * d = u * e
  <2>1. n * k * ma = k * (u * ta) /\ n * k * mb = n * (u * tb)
    OBVIOUS
  <2>2. n * k * (ma - mb) = n * k * ma - n * k * mb
    OBVIOUS
  <2>3. k * (u * ta) - n * (u * tb) = u * (ta * k - tb * n)
    OBVIOUS
  <2>4. QED
    BY <2>1, <2>2, <2>3
<1>3. n * k * v = u * u * w
  <2>1. n * k * (va * nb) = (n * va) * (k * k * (k - 1))
    OBVIOUS
  <2>2. n * k * (vb * na) = (k * vb) * (n * n * (n - 1))
    OBVIOUS
  <2>3. (n * va) * (k * k * (k - 1)) = u * u * (sa * k * k * (k - 1))
    OBVIOUS
  <2>4. (k * vb) * (n * n * (n - 1)) = u * u * (sb * n * n * (n - 1))
    OBVIOUS
  <2>5. n * k * (va * nb + vb * na) = n * k * (va * nb) + n * k * (vb * na)
    OBVIOUS
  <2>6. u * u * (sa * k * k * (k - 1)) + u * u * (sb * n * n * (n - 1))
            = u * u * w
    OBVIOUS
  <2>7. QED
    BY <2>1, <2>2, <2>3, <2>4, <2>5, <2>6
<1>4. 4 * d * d * na * nb = 4 * d * d * (n * k * h)
  OBVIOUS
<1>5. n * k > 0 /\ n * k \in Int /\ u * u > 0 /\ u * u \in Int /\ h > 0
  OBVIOUS
<1> HIDE DEF d, v, e, w, h, na, nb
<1> DEFINE p == n * k
           q == u * u
           x == 4 * d * d * na * nb
           y == 4 * e * e * h
<1>6. p * x = q * y
  <2>1. p * x = 4 * (p * d) * (p * d) * h
    BY <1>1, <1>4, <1>5
  <2>2. p * d = u * e
    BY <1>2
  <2>3. 4 * (u * e) * (u * e) * h = q * y
    BY <1>1
  <2>4. QED
    BY <2>1, <2>2, <2>3
<1>7. p * (81 * v) = q * (81 * w)
  <2>1. p * (81 * v) = 81 * (p * v)
    BY <1>1, <1>5
  <2>2. 81 * (q * w) = q * (81 * w)
    BY <1>1, <1>5
  <2>3. p * v = q * w
    BY <1>3
  <2>4. QED
    BY <2>1, <2>2, <2>3
<1>8. x \in Int /\ y \in Int /\ 81 * v \in Int /\ 81 * w \in Int
  BY <1>1
<1>9. p \in Int /\ p > 0 /\ q \in Int /\ q > 0
  BY <1>5
<1>10. v = 0 /\ d # 0 => y > 81 * w
  <2>1. SUFFICES ASSUME v = 0, d # 0 PROVE y > 81 * w
    OBVIOUS
  <2>2. w = 0
    <3>1. q * w = p * v
      BY <1>3
    <3>2. q * w = 0
      BY <2>1, <3>1, <1>9
    <3> HIDE DEF q
    <3>3. QED
      BY <1>1, <1>9, <3>2
  <2>3. e # 0
    <3>1. p * d = u * e
      BY <1>2
    <3>2. p * d # 0
      <4> HIDE DEF p
      <4>1. QED
        BY <1>1, <1>9, <2>1
    <3>3. QED
      BY <3>1, <3>2, <1>1
  <2>4. e * e > 0 /\ e * e \in Int
    BY <1>1, <2>3
  <2>5. y = 4 * (e * e) * h
    BY <1>1
  <2>6. 4 * (e * e) * h > 0
    <3> DEFINE f == e * e
    <3>1. f \in Int /\ f > 0
      BY <2>4
    <3> HIDE DEF f
    <3>2. f * h > 0 /\ f * h \in Int
      BY <1>1, <1>5, <3>1
    <3>3. 4 * f * h = 4 * (f * h)
      BY <1>1, <3>1
    <3>4. 4 * f * h > 0
      BY <3>2, <3>3
    <3>5. QED
      BY <3>4 DEF f
  <2>7. QED
    BY <2>2, <2>5, <2>6
<1> HIDE DEF p, q, x, y
<1>11. x > 81 * v <=> y > 81 * w
  <2>1. p * x > p * (81 * v) <=> x > 81 * v
    BY <1>8, <1>9, Scales
  <2>2. q * y > q * (81 * w) <=> y > 81 * w
    BY <1>8, <1>9, Scales
  <2>3. QED
    BY <1>6, <1>7, <2>1, <2>2
<1>12. Kind(n, ma, va, k, mb, vb) <=> (v = 0 /\ d # 0) \/ x > 81 * v
  BY Zenon DEF Kind, x, v, d, na, nb
<1>13. y > 81 * w <=> Summed(n, ta, sa, k, tb, sb)
  <2>1. y = 4 * e * e * (n - 1) * (k - 1)
    BY <1>1 DEF y, h
  <2>2. QED
    BY Zenon, <2>1 DEF Summed, e, w
<1>14. QED
  BY Zenon, <1>10, <1>11, <1>12, <1>13
-----------------------------------------------------------------------------
(* The expansion lists files of the disk: with n entries found, the places *)
(* of the entries are the numbers 0 to n - 1.                              *)
LEMMA EntriesFinite ==
    ASSUME NEW entries, IsFiniteSet(DOMAIN entries), IsFiniteSet(DOMAIN disk)
    PROVE  IsFiniteSet(T!Found(entries))
<1>1. IsFiniteSet((DOMAIN entries) \X (DOMAIN disk))
  BY FS_Product
<1>2. T!Found(entries) \in SUBSET ((DOMAIN entries) \X (DOMAIN disk))
  BY DEF T!Found
<1>3. QED
  BY Zenon, <1>1, <1>2, FS_Subset

(* Every place of an expansion is a file of the disk: the places of the    *)
(* files found are the numbers below their count, each taken once.         *)
LEMMA ExpansionIsFound ==
    ASSUME NEW entries, DOMAIN entries \subseteq Nat, DOMAIN disk \subseteq Nat,
           IsFiniteSet(DOMAIN entries), IsFiniteSet(DOMAIN disk)
    PROVE  \A k \in 1 .. Cardinality(T!Found(entries)) :
               T!expand_inputs(entries)[k] \in DOMAIN disk
<1> DEFINE found == T!Found(entries)
           n == Cardinality(found)
           before(f) == {g \in found : T!Earlier(g, f)}
           place == [f \in found |-> Cardinality(before(f))]
<1>1. found \subseteq (DOMAIN entries) \X (DOMAIN disk)
  BY DEF T!Found
<1>2. \A f \in found : f[1] \in Nat /\ f[2] \in Nat /\ f[2] \in DOMAIN disk
                       /\ f = <<f[1], f[2]>>
  BY <1>1
<1>3. IsFiniteSet(found) /\ n \in Nat
  BY Zenon, EntriesFinite, FS_CardinalityType
<1> HIDE DEF found
<1>4. \A f \in found : ~T!Earlier(f, f)
  BY <1>2 DEF T!Earlier
<1>5. \A f, g \in found : f = g \/ T!Earlier(f, g) \/ T!Earlier(g, f)
  BY <1>2 DEF T!Earlier
<1>6. \A f, g, h \in found :
          T!Earlier(f, g) /\ T!Earlier(g, h) => T!Earlier(f, h)
  BY <1>2 DEF T!Earlier
<1>7. \A f \in found : /\ before(f) \in SUBSET found /\ f \notin before(f)
                       /\ IsFiniteSet(before(f))
                       /\ Cardinality(before(f)) \in Nat
  BY Zenon, <1>3, <1>4, FS_Subset, FS_CardinalityType
<1>8. \A f \in found : Cardinality(before(f)) < n
  <2> SUFFICES ASSUME NEW f \in found
               PROVE  Cardinality(before(f)) < n
    OBVIOUS
  <2>1. before(f) # found /\ before(f) \in SUBSET found
    BY Zenon, <1>7
  <2> DEFINE b == before(f)
  <2>2. Cardinality(b) <= n /\ (n = Cardinality(b) => found = b)
    <3> HIDE DEF b
    <3>1. b \in SUBSET found
      BY <2>1 DEF b
    <3>2. QED
      BY Zenon, <1>3, <3>1, FS_Subset
  <2>3. Cardinality(b) \in Nat
    BY Zenon, <1>7
  <2> HIDE DEF before
  <2>4. QED
    BY <1>3, <2>1, <2>2, <2>3
<1>9. ASSUME NEW f \in found, NEW g \in found, T!Earlier(f, g)
      PROVE  Cardinality(before(f)) < Cardinality(before(g))
  <2> DEFINE a == before(f)
             b == before(g)
  <2>1. a \in SUBSET b /\ f \in b /\ f \notin a
    BY Zenon, <1>4, <1>6, <1>9
  <2>2. IsFiniteSet(b) /\ Cardinality(a) \in Nat /\ Cardinality(b) \in Nat
    BY Zenon, <1>7
  <2> HIDE DEF a, b
  <2>3. /\ Cardinality(a) <= Cardinality(b)
        /\ Cardinality(b) = Cardinality(a) => b = a
    BY Zenon, <2>1, <2>2, FS_Subset
  <2>4. Cardinality(a) < Cardinality(b)
    BY <2>1, <2>2, <2>3
  <2>5. QED
    BY Zenon, <2>4 DEF a, b
<1>10. place \in [found -> 0 .. n - 1]
  <2>1. \A f \in found : Cardinality(before(f)) \in 0 .. n - 1
    <3> HIDE DEF before
    <3>1. QED
      BY <1>3, <1>7, <1>8
  <2> HIDE DEF before, n
  <2>2. QED
    BY <2>1
<1>11. ASSUME NEW f \in found, NEW g \in found, f # g
       PROVE  place[f] # place[g]
  <2>1. place[f] = Cardinality(before(f)) /\ place[g] = Cardinality(before(g))
    BY Zenon
  <2>2. \/ Cardinality(before(f)) < Cardinality(before(g))
        \/ Cardinality(before(g)) < Cardinality(before(f))
    BY Zenon, <1>5, <1>9, <1>11
  <2>3. Cardinality(before(f)) \in Nat /\ Cardinality(before(g)) \in Nat
    BY Zenon, <1>7
  <2> HIDE DEF before, place
  <2>4. QED
    BY <2>1, <2>2, <2>3
<1>12. IsFiniteSet(0 .. n - 1) /\ Cardinality(0 .. n - 1) = n
  <2> HIDE DEF n
  <2>1. Cardinality(0 .. n - 1) = IF 0 > n - 1 THEN 0 ELSE n - 1 - 0 + 1
    BY <1>3, FS_Interval
  <2>2. IsFiniteSet(0 .. n - 1)
    BY <1>3, FS_Interval
  <2>3. QED
    BY <1>3, <2>1, <2>2
<1> DEFINE slots == 0 .. n - 1
<1>13. place \in Injection(found, slots)
  <2> HIDE DEF place, slots
  <2>1. place \in [found -> slots]
    BY Zenon, <1>10 DEF slots
  <2>2. DOMAIN place = found
    BY Zenon, <2>1
  <2>3. QED
    BY Zenon, <1>11, <2>1, <2>2 DEF Injection, IsInjective
<1>14. place \in Surjection(found, slots)
  <2> HIDE DEF place, slots
  <2>1. Cardinality(found) = Cardinality(slots) /\ IsFiniteSet(slots)
    BY Zenon, <1>12 DEF slots, n
  <2>2. QED
    BY Zenon, <1>13, <2>1, FS_Injection
<1>15. \A j \in slots : \E f \in found : place[f] = j
  BY Zenon, <1>14 DEF Surjection
<1>16. ASSUME NEW k \in 1 .. n
       PROVE  T!expand_inputs(entries)[k] \in DOMAIN disk
  <2> DEFINE j == k - 1
             first == CHOOSE f \in found : Cardinality(before(f)) = j
  <2>1. j \in slots
    BY <1>3, <1>16
  <2>2. \E f \in found : Cardinality(before(f)) = j
    <3>1. PICK f \in found : place[f] = j
      BY Zenon, <1>15, <2>1
    <3>2. QED
      BY Zenon, <3>1
  <2>3. first \in found
    BY Zenon, <2>2
  <2>4. first[2] \in DOMAIN disk
    BY Zenon, <1>2, <2>3
  <2>5. T!expand_inputs(entries)[k] = first[2]
    BY Zenon, CountsAgree DEF T!expand_inputs, found, n
  <2>6. QED
    BY Zenon, <2>4, <2>5
<1>17. QED
  BY Zenon, <1>16 DEF found, n
-----------------------------------------------------------------------------
(* What is loaded of the dumps.  Until the conversion has ended nothing is *)
(* assessed; then the disk stays as it is, its traces are those counted,   *)
(* and the series are the traces of the paths, in their order.             *)
Loaded ==
    /\ Len(fixed_paths) >= 2 /\ Len(random_paths) >= 2
    /\ \A k \in DOMAIN T!paths : T!paths[k] \in DOMAIN disk
    /\ Len(series) <= Len(T!paths)
    /\ \A k \in DOMAIN series :
           /\ disk[T!paths[k]].kind = "trace"
           /\ series[k] = disk[T!paths[k]].series
Traces ==
    /\ IsFiniteSet(DOMAIN disk) /\ DOMAIN disk \subseteq Nat
    /\ args \in Commands
    /\ DOMAIN counted = {p \in DOMAIN disk : disk[p].kind = "trace"}
    /\ \A p \in DOMAIN counted : counted[p] = disk[p].series
DInv ==
    /\ LInv
    /\ phase = "start" => series = << >>
    /\ stage # "ended" => phase = "start"
    /\ stage = "ended" => Traces
    /\ phase \in {"load", "take", "reported"} => Loaded
    /\ phase \in {"take", "reported"} =>
           DOMAIN fixed_stats = 1 .. T!prefix
    /\ VerdictOnDumps

(* The report on sequences that the statistics hold in full.               *)
LEMMA PointIsVerdict ==
    ASSUME UnitDivides, Loaded, IsList(fixed_paths), IsList(random_paths),
           IsList(series), NEW i, NEW a, NEW b,
           Kept(series, a, T!FixedSet, i), Kept(series, b, T!RandomSet, i),
           Len(series) = Len(T!paths)
    PROVE  T!welch_t(a, b).exceeds <=> T!Differs(series, i)
<1> DEFINE n == Len(fixed_paths)
           k == Len(random_paths)
           S == T!FixedSet
           R == T!RandomSet
           ta == T!Total(series, S, i)
           tb == T!Total(series, R, i)
           sa == T!Spread(series, S, i)
           sb == T!Spread(series, R, i)
           numbers == T!Numbers(series, DOMAIN series, i)
<1>1. /\ n \in Int /\ n >= 2 /\ k \in Int /\ k >= 2
      /\ S = 1 .. n /\ R = n + 1 .. n + k
      /\ DOMAIN series = 1 .. n + k
  <2>1. /\ n \in Nat /\ k \in Nat /\ S = 1 .. n /\ R = n + 1 .. n + k
        /\ Len(series) = n + k
    BY Zenon, SetPlaces
  <2>2. DOMAIN series = 1 .. n + k
    BY Zenon, <2>1, ListIs
  <2>3. n >= 2 /\ k >= 2
    BY Zenon DEF Loaded
  <2>4. QED
    BY <2>1, <2>2, <2>3
<1>2. /\ IsFiniteSet(S) /\ Cardinality(S) = n
      /\ IsFiniteSet(R) /\ Cardinality(R) = k
  <2>1. IsFiniteSet(1 .. n) /\ Cardinality(1 .. n) = n
    <3> HIDE DEF n
    <3>1. QED
      BY <1>1, FS_Interval
  <2>2. IsFiniteSet(n + 1 .. n + k)
    <3> HIDE DEF n, k
    <3>1. QED
      BY <1>1, FS_Interval
  <2>3. Cardinality(n + 1 .. n + k) = k
    <3> HIDE DEF n, k
    <3>1. Cardinality(n + 1 .. n + k)
              = IF n + 1 > n + k THEN 0 ELSE n + k - (n + 1) + 1
      BY <1>1, FS_Interval
    <3>2. QED
      BY <1>1, <3>1
  <2>4. QED
    BY Zenon, <1>1, <2>1, <2>2, <2>3
<1>3. /\ a \in WelfordStates /\ b \in WelfordStates
      /\ a.count = n /\ b.count = k
      /\ a.nan = ~T!Numbers(series, S, i)
      /\ b.nan = ~T!Numbers(series, R, i)
      /\ T!Numbers(series, S, i) => /\ a.count * a.mean = Unit * ta
                                    /\ a.count * a.m2 = Unit * Unit * sa
      /\ T!Numbers(series, R, i) => /\ b.count * b.mean = Unit * tb
                                    /\ b.count * b.m2 = Unit * Unit * sb
  BY Zenon, <1>2 DEF Kept, Batch
<1>4. DOMAIN series = S \cup R
  BY <1>1
<1>5. numbers <=> T!Numbers(series, S, i) /\ T!Numbers(series, R, i)
  BY Zenon, <1>4 DEF T!Numbers
<1>6. T!Differs(series, i) <=> numbers /\ Summed(n, ta, sa, k, tb, sb)
  BY Zenon, <1>2, CountsAgree DEF T!Differs, Summed
<1>7. T!welch_t(a, b).exceeds <=>
          /\ ~(a.nan \/ b.nan)
          /\ Kind(a.count, a.mean, a.m2, b.count, b.mean, b.m2)
  <2> DEFINE na == a.count * (a.count - 1)
             nb == b.count * (b.count - 1)
             v == a.m2 * nb + b.m2 * na
             d == a.mean - b.mean
             w == T!welch_t(a, b)
             nan == a.nan \/ b.nan
             degenerate == ~nan /\ v = 0 /\ d # 0
             far == 4 * d * d * na * nb > 81 * v
             exceeds == degenerate \/ (~nan /\ far)
  <2>1. w = [degenerate |-> degenerate, exceeds |-> exceeds]
    BY Zenon DEF T!welch_t
  <2>2. w.exceeds = exceeds
    <3> HIDE DEF w, exceeds, degenerate
    <3>1. QED
      BY Zenon, <2>1
  <2>3. Kind(a.count, a.mean, a.m2, b.count, b.mean, b.m2)
            <=> (v = 0 /\ d # 0) \/ far
    BY Zenon DEF Kind
  <2>4. w = T!welch_t(a, b)
    BY Zenon
  <2> HIDE DEF v, d, w, far
  <2>5. QED
    BY Zenon, <2>2, <2>3, <2>4
<1>8. CASE ~numbers
  BY Zenon, <1>3, <1>5, <1>6, <1>7, <1>8
<1>9. CASE numbers
  <2>1. /\ n * a.mean = Unit * ta /\ n * a.m2 = Unit * Unit * sa
        /\ k * b.mean = Unit * tb /\ k * b.m2 = Unit * Unit * sb
    BY Zenon, <1>3, <1>5, <1>9
  <2>2. ~(a.nan \/ b.nan)
    BY Zenon, <1>3, <1>5, <1>9
  <2>3. Unit \in Int /\ Unit > 0
    BY DEF UnitDivides
  <2>4. a.mean \in Int /\ a.m2 \in Int /\ b.mean \in Int /\ b.m2 \in Int
    BY <1>3 DEF WelfordStates
  <2>5. ta \in Int /\ tb \in Int /\ sa \in Int /\ sb \in Int
    <3>1. ASSUME NEW set, set \subseteq DOMAIN series, IsFiniteSet(set),
                 T!Numbers(series, set, i)
          PROVE  /\ T!Total(series, set, i) \in Int
                 /\ T!Spread(series, set, i) \in Int
      <4> DEFINE m == Len(series)
                 f == [j \in DOMAIN series |->
                          IF j \in set THEN series[j][i] ELSE 0]
                 g == [j \in DOMAIN series |->
                          IF j \in set THEN series[j][i] * series[j][i] ELSE 0]
      <4>1. m \in Nat /\ DOMAIN series = 1 .. m
        BY Zenon, ListIs
      <4>2. \A j \in set : series[j][i] \in Int
        BY Zenon, <3>1 DEF T!Numbers
      <4>3. \A j \in 1 .. m : f[j] \in Int /\ g[j] \in Int
        BY <4>1, <4>2
      <4>4. /\ T!Total(series, set, i) = T!SumTo(f, m)
            /\ T!Squares(series, set, i) = T!SumTo(g, m)
        BY Zenon DEF T!Total, T!Squares
      <4> HIDE DEF f, g, m
      <4>5. T!SumTo(f, m) \in Int /\ T!SumTo(g, m) \in Int
        BY Zenon, <4>1, <4>3, SumIsInt
      <4>6. T!Cardinality(set) \in Int
        BY <3>1, CountsAgree, FS_CardinalityType
      <4>7. QED
        BY <4>4, <4>5, <4>6 DEF T!Spread
    <3>2. S \subseteq DOMAIN series /\ R \subseteq DOMAIN series
      BY Zenon, <1>4
    <3>3. QED
      BY Zenon, <1>2, <1>5, <1>9, <3>1, <3>2
  <2> HIDE DEF n, k, ta, tb, sa, sb
  <2>6. Kind(n, a.mean, a.m2, k, b.mean, b.m2) <=> Summed(n, ta, sa, k, tb, sb)
    BY <1>1, <2>1, <2>3, <2>4, <2>5, WelchOfSums
  <2>7. QED
    BY Zenon, <1>3, <1>6, <1>7, <1>9, <2>2, <2>6
<1>10. QED
  BY Zenon, <1>8, <1>9
-----------------------------------------------------------------------------
(* The two cases of the verdict, over the activity recounted from the      *)
(* dumps.                                                                  *)
Recounted == [k \in DOMAIN T!paths |-> counted[T!paths[k]]]
Shortest(of) ==
    CHOOSE n \in {Len(of[k]) : k \in DOMAIN of} :
        \A m \in {Len(of[k]) : k \in DOMAIN of} : n <= m
Exceeding(of) == {i \in 1 .. Shortest(of) : T!Differs(of, i)}
ReportOf(of) ==
    /\ DOMAIN points = 1 .. Shortest(of)
    /\ {i \in DOMAIN points : points[i].exceeds} = Exceeding(of)
    /\ code = IF Exceeding(of) # {} /\ args.fail_on_leakage THEN 1 ELSE 0
ExitOf(of) ==
    \/ T!Lacks(args.fixed) \/ T!Lacks(args.random)
    \/ \E k \in DOMAIN T!paths : T!paths[k] \notin DOMAIN counted
    \/ /\ ~args.truncate
       /\ \E k \in DOMAIN T!paths : Len(of[k]) # Shortest(of)

(* VerdictOnDumps, in its parts, now and in the next state.                *)
LEMMA VerdictParts ==
    /\ VerdictOnDumps <=> /\ phase = "reported" => ReportOf(Recounted)
                          /\ phase = "exited" => ExitOf(Recounted)
    /\ VerdictOnDumps' <=> /\ phase' = "reported" => ReportOf(Recounted)'
                           /\ phase' = "exited" => ExitOf(Recounted)'
  BY Zenon DEF VerdictOnDumps, Recounted, Shortest, Exceeding, ReportOf,
     ExitOf

(* A step of the conversion says nothing of the verdict.                   *)
LEMMA VerdictStays ==
    ASSUME UNCHANGED <<disk, args, counted>>, UNCHANGED assessVars
    PROVE  VerdictOnDumps => VerdictOnDumps'
<1>1. UNCHANGED <<disk, args, counted, fixed_paths, random_paths, points,
                  phase, code>>
  BY DEF assessVars
<1>2. /\ T!FixedSet' = T!FixedSet /\ T!RandomSet' = T!RandomSet
      /\ T!paths' = T!paths
  BY Zenon, <1>1 DEF T!FixedSet, T!RandomSet, T!paths
<1>3. /\ T!Lacks(args.fixed)' <=> T!Lacks(args.fixed)
      /\ T!Lacks(args.random)' <=> T!Lacks(args.random)
  BY <1>1 DEF T!Lacks, T!NotMatched, T!Matches, T!Found
<1>4. Recounted' = Recounted
  BY Zenon, <1>1, <1>2 DEF Recounted
<1> DEFINE of == Recounted
<1>5. Exceeding(of)' = Exceeding(of) /\ Shortest(of)' = Shortest(of)
  BY <1>2, <1>4 DEF Exceeding, Shortest, T!Differs
<1>6. ReportOf(of) => ReportOf(of)'
  BY Zenon, <1>1, <1>5 DEF ReportOf
<1>7. ExitOf(of) => ExitOf(of)'
  <2> HIDE DEF of
  <2>1. of' = of
    BY Zenon, <1>4 DEF of
  <2>2. QED
    BY Zenon, <1>1, <1>2, <1>3, <1>5, <2>1 DEF ExitOf
<1>8. QED
  BY Zenon, <1>1, <1>6, <1>7, VerdictParts

(* Every series that is loaded is the activity recounted from its dump.    *)
LEMMA SeriesAreRecounted ==
    ASSUME Traces, Loaded, IsList(series), Len(series) = Len(T!paths),
           IsList(fixed_paths), IsList(random_paths)
    PROVE  Recounted = series /\ DOMAIN series = DOMAIN T!paths
<1>1. DOMAIN series = 1 .. Len(series) /\ DOMAIN T!paths = 1 .. Len(T!paths)
  BY Zenon, ListIs, ListTwo DEF T!paths
<1>2. \A k \in DOMAIN series : series[k] = counted[T!paths[k]]
  <2> SUFFICES ASSUME NEW k \in DOMAIN series
               PROVE  series[k] = counted[T!paths[k]]
    OBVIOUS
  <2>1. T!paths[k] \in DOMAIN disk
    BY Zenon, <1>1 DEF Loaded
  <2>2. T!paths[k] \in DOMAIN counted
    BY Zenon, <2>1 DEF Loaded, Traces
  <2>3. QED
    BY Zenon, <2>2 DEF Loaded, Traces
<1>3. series = [k \in DOMAIN series |-> series[k]]
  <2>1. PICK S : series \in Seq(S)
    BY DEF IsList
  <2>2. QED
    BY <2>1
<1>4. QED
  BY Zenon, <1>1, <1>2, <1>3 DEF Recounted

(* The files, by the library's finite sets.                                *)
LEMMA FilesFinite ==
    ASSUME FilesAreNumbered
    PROVE  /\ Out \in Nat
           /\ \A d \in Disks : DOMAIN d \subseteq Nat /\ IsFiniteSet(DOMAIN d)
           /\ \A c \in Commands : \A entries \in {c.fixed, c.random} :
                  DOMAIN entries \subseteq Nat /\ IsFiniteSet(DOMAIN entries)
<1>1. \A S : IsFiniteSet(S) <=> IsFiniteSet(S)
  BY Zenon DEF IsFiniteSet, IsFiniteSet
<1>2. QED
  BY Zenon, <1>1 DEF FilesAreNumbered

(* The conversion does not assess, and its end hands over the traces.      *)
LEMMA ConvertStays ==
    ASSUME DInv, Convert
    PROVE  DInv'
<1>1. /\ UNCHANGED <<disk, args, counted>> /\ UNCHANGED assessVars
      /\ A!Next
  BY Zenon DEF Convert
<1>2. stage # "ended" /\ stage' # "ended"
  <2> USE DEF A!fail
  <2>1. CASE A!ReadToken
    BY <2>1 DEF A!ReadToken, A!AfterToken
  <2>2. CASE A!EndHeader
    BY Zenon, <2>2 DEF A!EndHeader
  <2>3. CASE A!Dump
    <3>1. stage = "body" /\ \E l : A!ReadLine(l)
      BY Zenon, <2>3 DEF A!Dump, A!DumpLine
    <3>2. stage' \in {"body", "error"}
      BY Zenon, <3>1 DEF A!ReadLine, A!ReadStamp, A!ReadChange
    <3>3. QED
      BY Zenon, <3>1, <3>2
  <2>4. CASE A!EndOfFile
    BY Zenon, <2>4 DEF A!EndOfFile
  <2>5. CASE A!SampleBlock
    BY Zenon, <2>5 DEF A!SampleBlock
  <2>6. CASE A!Generate
    BY Zenon, <2>6 DEF A!Generate
  <2>7. CASE A!NoHeaderEnd
    BY Zenon, <2>7 DEF A!NoHeaderEnd
  <2>8. QED
    BY Zenon, <1>1, <2>1, <2>2, <2>3, <2>4, <2>5, <2>6, <2>7 DEF A!Next
<1>3. UNCHANGED <<series, phase>>
  BY <1>1 DEF assessVars
<1>4. phase = "start" /\ phase' = "start" /\ series' = << >>
  BY Zenon, <1>2, <1>3 DEF DInv
<1>5. LInv' /\ VerdictOnDumps'
  BY Zenon, <1>1, OthersKeep, VerdictStays DEF DInv
<1>6. phase' \notin {"load", "take", "reported"}
  BY <1>4
<1>7. QED
  BY Zenon, <1>2, <1>4, <1>5, <1>6 DEF DInv

(* The trace that is published is the activity of its dump, and a failed   *)
(* conversion leaves the files of earlier simulations.                     *)
LEMMA ConvertEnds ==
    ASSUME DInv, FilesAreNumbered, TraceIsWaveform,
           Publish \/ Fail
    PROVE  DInv'
<1>1. /\ stage # "ended" /\ stage' = "ended" /\ args' \in Commands
      /\ UNCHANGED assessVars
  BY Zenon DEF Publish, Fail, End
<1>2. UNCHANGED <<series, phase>>
  BY <1>1 DEF assessVars
<1>3. phase' = "start" /\ series' = << >>
  BY Zenon, <1>1, <1>2 DEF DInv
<1>4. LInv'
  BY Zenon, <1>1, OthersKeep DEF DInv
<1>5. phase' \notin {"load", "take", "reported", "exited"}
  BY <1>3
<1>6. VerdictOnDumps'
  BY Zenon, <1>5, VerdictParts
<1>7. Traces'
  <2>1. CASE Fail
    <3>1. disk' \in Disks /\ counted' = Series(disk')
      BY Zenon, <2>1 DEF Fail
    <3>2. IsFiniteSet(DOMAIN disk') /\ DOMAIN disk' \subseteq Nat
      BY Zenon, <3>1, FilesFinite
    <3>3. /\ DOMAIN counted' = {p \in DOMAIN disk' : disk'[p].kind = "trace"}
          /\ \A p \in DOMAIN counted' : counted'[p] = disk'[p].series
      BY Zenon, <3>1 DEF Series
    <3>4. QED
      BY Zenon, <1>1, <3>2, <3>3 DEF Traces
  <2>2. CASE Publish
    <3> DEFINE file == [kind |-> "trace", series |-> trace.per_cycle]
    <3>1. PICK earlier \in Disks :
              /\ disk' = A!Put(earlier, Out, file)
              /\ counted' = A!Put(Series(earlier), Out, A!Recount)
      BY Zenon, <2>2 DEF Publish
    <3>2. stage = "written"
      BY Zenon, <2>2 DEF Publish
    <3>3. trace.per_cycle = A!Recount
      BY Zenon, <3>2 DEF TraceIsWaveform, A!TraceIsWaveform
    <3>4. file.kind = "trace" /\ file.series = A!Recount
      BY Zenon, <3>3
    <3> HIDE DEF file
    <3> DEFINE series1 == Series(earlier)
    <3>5. /\ DOMAIN series1 = {p \in DOMAIN earlier : earlier[p].kind = "trace"}
          /\ \A p \in DOMAIN series1 : series1[p] = earlier[p].series
      BY Zenon DEF Series
    <3> HIDE DEF series1
    <3>6. /\ DOMAIN disk' = DOMAIN earlier \cup {Out}
          /\ \A p \in DOMAIN disk' :
                 disk'[p] = IF p = Out THEN file ELSE earlier[p]
      BY Zenon, <3>1 DEF A!Put
    <3>7. /\ DOMAIN counted' = DOMAIN series1 \cup {Out}
          /\ \A p \in DOMAIN counted' :
                 counted'[p] = IF p = Out THEN A!Recount ELSE series1[p]
      BY Zenon, <3>1 DEF A!Put, series1
    <3>8. IsFiniteSet(DOMAIN disk') /\ DOMAIN disk' \subseteq Nat
      <4>1. /\ Out \in Nat /\ DOMAIN earlier \subseteq Nat
            /\ IsFiniteSet(DOMAIN earlier)
        BY Zenon, FilesFinite
      <4>2. IsFiniteSet(DOMAIN earlier \cup {Out})
        BY Zenon, <4>1, FS_AddElement
      <4>3. QED
        BY Zenon, <3>6, <4>1, <4>2
    <3>9. /\ DOMAIN counted' = {p \in DOMAIN disk' : disk'[p].kind = "trace"}
          /\ \A p \in DOMAIN counted' : counted'[p] = disk'[p].series
      BY Zenon, <3>4, <3>5, <3>6, <3>7
    <3>10. QED
      BY Zenon, <1>1, <3>8, <3>9 DEF Traces
  <2>3. QED
    BY Zenon, <2>1, <2>2
<1>8. QED
  BY Zenon, <1>1, <1>3, <1>4, <1>5, <1>6, <1>7 DEF DInv

(* The elements of two sequences, one after the other.                     *)
LEMMA OfBoth ==
    ASSUME NEW s, NEW t, NEW S, IsList(s), IsList(t),
           \A k \in 1 .. Len(s) : s[k] \in S, \A k \in 1 .. Len(t) : t[k] \in S
    PROVE  \A k \in DOMAIN (s \o t) : (s \o t)[k] \in S
<1>1. PICK X, Y : s \in Seq(X) /\ t \in Seq(Y)
  BY DEF IsList
<1> DEFINE U == X \cup Y
<1>2. s \in Seq(U) /\ t \in Seq(U)
  BY <1>1
<1> HIDE DEF U
<1>3. \A k \in 1 .. Len(s) + Len(t) :
          (s \o t)[k] = IF k <= Len(s) THEN s[k] ELSE t[k - Len(s)]
  BY <1>2
<1>4. /\ Len(s) \in Nat /\ Len(t) \in Nat
      /\ DOMAIN (s \o t) = 1 .. Len(s) + Len(t)
  BY Zenon, ListIs, ListTwo
<1>5. ASSUME NEW k \in 1 .. Len(s) + Len(t)
      PROVE  (s \o t)[k] \in S
  <2>1. CASE k <= Len(s)
    <3>1. k \in 1 .. Len(s)
      BY <1>4, <2>1
    <3>2. QED
      BY <1>3, <2>1, <3>1
  <2>2. CASE ~(k <= Len(s))
    <3>1. k - Len(s) \in 1 .. Len(t)
      BY <1>4, <2>2
    <3>2. QED
      BY <1>3, <2>2, <3>1
  <2>3. QED
    BY <2>1, <2>2
<1>6. QED
  BY Zenon, <1>4, <1>5

(* The assessment, step by step.                                           *)
LEMMA ExpandKnows ==
    ASSUME DInv, LInv', UnitDivides, FilesAreNumbered, stage = "ended",
           T!Expand, UNCHANGED <<stage, counted>>
    PROVE  DInv'
<1>1. /\ phase = "start" /\ UNCHANGED <<disk, args, series>>
      /\ T!Bounded(args.fixed) /\ T!Bounded(args.random)
      /\ \/ /\ T!Lacks(args.fixed) \/ T!Lacks(args.random)
            /\ phase' = "exited"
         \/ /\ ~T!Lacks(args.fixed) /\ ~T!Lacks(args.random)
            /\ fixed_paths' = T!expand_inputs(args.fixed)
            /\ random_paths' = T!expand_inputs(args.random)
            /\ phase' = "load"
  BY Zenon DEF T!Expand, T!TvlaError, T!exit
<1>2. Traces /\ Traces' /\ series' = << >>
  BY Zenon, <1>1 DEF DInv, Traces
<1>3. phase' # "start" /\ phase' \notin {"take", "reported"} /\ stage' = "ended"
  BY <1>1
<1>4. CASE phase' = "exited"
  <2>1. T!Lacks(args.fixed) \/ T!Lacks(args.random)
    BY Zenon, <1>1, <1>4
  <2>2. /\ T!Lacks(args.fixed)' <=> T!Lacks(args.fixed)
        /\ T!Lacks(args.random)' <=> T!Lacks(args.random)
    BY <1>1 DEF T!Lacks, T!NotMatched, T!Matches, T!Found
  <2>3. VerdictOnDumps'
    BY Zenon, <1>3, <2>1, <2>2, VerdictParts DEF ExitOf
  <2>4. phase' # "load"
    BY <1>4
  <2>5. QED
    BY Zenon, <1>2, <1>3, <2>3, <2>4 DEF DInv
<1>5. CASE phase' # "exited"
  <2>1. phase' = "load"
    BY Zenon, <1>1, <1>5
  <2>2. ASSUME NEW entries \in {args.fixed, args.random}
        PROVE  LET s == T!expand_inputs(entries)
               IN  /\ IsList(s) /\ Len(s) >= 2
                   /\ \A k \in 1 .. Len(s) : s[k] \in DOMAIN disk
    <3> DEFINE s == T!expand_inputs(entries)
               found == T!Found(entries)
               n == Cardinality(found)
    <3>1. /\ DOMAIN entries \subseteq Nat /\ IsFiniteSet(DOMAIN entries)
          /\ DOMAIN disk \subseteq Nat /\ IsFiniteSet(DOMAIN disk)
      BY Zenon, <1>2, FilesFinite DEF Traces
    <3>2. \A k \in 1 .. n : s[k] \in DOMAIN disk
      BY Zenon, <3>1, ExpansionIsFound
    <3>3. n \in Nat
      BY Zenon, <3>1, EntriesFinite, FS_CardinalityType
    <3>4. ~(n < 2)
      BY Zenon, <1>1, <1>5, CountsAgree DEF T!Lacks
    <3>5. DOMAIN s = 1 .. n /\ s = [k \in 1 .. n |-> s[k]]
      <4> DEFINE place(f) ==
                     T!Cardinality({g \in found : T!Earlier(g, f)})
                 e(k) == (CHOOSE f \in found : place(f) = k - 1)[2]
      <4>1. s = [k \in 1 .. n |-> e(k)]
        BY Zenon, CountsAgree DEF T!expand_inputs
      <4> HIDE DEF s, n, e
      <4>2. QED
        BY <4>1
    <3> HIDE DEF s, n
    <3>6. IsList(s) /\ Len(s) = n
      BY Zenon, <3>3, <3>5, ListUpTo
    <3>7. /\ IsList(s) /\ Len(s) >= 2
          /\ \A k \in 1 .. Len(s) : s[k] \in DOMAIN disk
      BY <3>2, <3>3, <3>4, <3>6
    <3>8. QED
      BY Zenon, <3>7 DEF s
  <2>3. /\ IsList(fixed_paths') /\ Len(fixed_paths') >= 2
        /\ IsList(random_paths') /\ Len(random_paths') >= 2
        /\ \A k \in 1 .. Len(fixed_paths') : fixed_paths'[k] \in DOMAIN disk
        /\ \A k \in 1 .. Len(random_paths') : random_paths'[k] \in DOMAIN disk
    BY Zenon, <1>1, <1>5, <2>2
  <2>4. \A k \in DOMAIN T!paths' : T!paths'[k] \in DOMAIN disk'
    BY Zenon, <1>1, <2>3, OfBoth DEF T!paths
  <2>5. Len(series') <= Len(T!paths') /\ DOMAIN series' = {}
    <3>1. Len(T!paths') = Len(fixed_paths') + Len(random_paths')
      BY Zenon, <2>3, ListTwo DEF T!paths
    <3>2. Len(fixed_paths') \in Nat /\ Len(random_paths') \in Nat
      BY Zenon, <2>3, ListIs
    <3>3. Len(series') = 0 /\ DOMAIN series' = {}
      BY <1>2
    <3>4. QED
      BY <3>1, <3>2, <3>3
  <2>6. Loaded'
    BY Zenon, <2>3, <2>4, <2>5 DEF Loaded
  <2>7. VerdictOnDumps'
    BY Zenon, <1>3, <1>5, VerdictParts
  <2>8. QED
    BY Zenon, <1>2, <1>3, <2>6, <2>7 DEF DInv
<1>6. QED
  BY Zenon, <1>4, <1>5

(* A loaded series is the activity recounted for its path, and an          *)
(* assessment that stops here met a file without one.                      *)
LEMMA LoadKnows ==
    ASSUME DInv, LInv', stage = "ended", T!Load, UNCHANGED <<stage, counted>>
    PROVE  DInv'
<1> DEFINE next == Len(series) + 1
           file == disk[T!paths[next]]
<1>1. /\ phase = "load" /\ Len(series) < Len(T!paths)
      /\ UNCHANGED <<disk, args, fixed_paths, random_paths>>
      /\ \/ /\ file.kind \in {"not_json", "no_series"} /\ phase' = "exited"
         \/ /\ file.kind = "trace" /\ series' = Append(series, file.series)
            /\ phase' = phase
  BY Zenon DEF T!Load, T!Traceback, T!TvlaError, T!exit, T!pathVars
<1>2. Traces /\ Traces' /\ Loaded /\ LInv
  BY Zenon, <1>1 DEF DInv, Traces
<1>3. phase' # "start" /\ phase' \notin {"take", "reported"} /\ stage' = "ended"
  BY <1>1
<1>4. T!paths' = T!paths
  BY Zenon, <1>1 DEF T!paths
<1>5. next \in DOMAIN T!paths
  <2>1. Len(series) \in Nat /\ DOMAIN T!paths = 1 .. Len(T!paths)
    BY Zenon, <1>2, ListIs, ListTwo DEF LInv, T!paths
  <2>2. Len(T!paths) \in Nat
    BY Zenon, <1>2, ListIs, ListTwo DEF LInv, T!paths
  <2>3. QED
    BY <1>1, <2>1, <2>2
<1>6. CASE phase' = "exited"
  <2>1. file.kind # "trace"
    <3>1. file.kind \in {"not_json", "no_series"}
      BY Zenon, <1>1, <1>6
    <3>2. "not_json" # "trace" /\ "no_series" # "trace"
      BY Zenon
    <3>3. QED
      BY Zenon, <3>1, <3>2
  <2>2. T!paths[next] \notin DOMAIN counted
    BY Zenon, <1>2, <2>1 DEF Traces
  <2>3. ExitOf(Recounted)'
    BY Zenon, <1>4, <1>5, <2>2 DEF ExitOf
  <2>4. VerdictOnDumps'
    BY Zenon, <1>3, <2>3, VerdictParts
  <2>5. phase' # "load"
    BY <1>6
  <2>6. QED
    BY Zenon, <1>2, <1>3, <2>4, <2>5 DEF DInv
<1>7. CASE phase' # "exited"
  <2>1. file.kind = "trace" /\ series' = Append(series, file.series)
    BY Zenon, <1>1, <1>7
  <2>2. PICK S : series \in Seq(S)
    BY Zenon, <1>2 DEF LInv, IsList
  <2> DEFINE U == S \cup {file.series}
  <2>3. series \in Seq(U) /\ file.series \in U
    BY <2>2
  <2> HIDE DEF U, file
  <2>4. /\ Len(series') = Len(series) + 1
        /\ DOMAIN series' = DOMAIN series \cup {Len(series) + 1}
        /\ \A k \in DOMAIN series : series'[k] = series[k]
        /\ series'[Len(series) + 1] = file.series
    BY <2>1, <2>3
  <2>5. Len(series') <= Len(T!paths')
    <3>1. Len(series) \in Nat /\ Len(T!paths) \in Nat
      BY Zenon, <1>2, ListIs, ListTwo DEF LInv, T!paths
    <3>2. QED
      BY <1>1, <1>4, <2>4, <3>1
  <2>6. \A k \in DOMAIN series' : /\ disk'[T!paths'[k]].kind = "trace"
                                  /\ series'[k] = disk'[T!paths'[k]].series
    BY Zenon, <1>1, <1>2, <1>4, <2>1, <2>4 DEF Loaded, file
  <2>7. Loaded'
    BY Zenon, <1>1, <1>2, <1>4, <2>5, <2>6 DEF Loaded
  <2>8. VerdictOnDumps'
    BY Zenon, <1>3, <1>7, VerdictParts
  <2>9. QED
    BY Zenon, <1>2, <1>3, <2>7, <2>8 DEF DInv
<1>8. QED
  BY Zenon, <1>6, <1>7

(* The common length is the shortest of the recounted ones, and an         *)
(* assessment that stops here met two lengths.                             *)
LEMMA AlignKnows ==
    ASSUME DInv, LInv', stage = "ended", T!Align, UNCHANGED <<stage, counted>>
    PROVE  DInv'
<1>1. /\ phase = "load" /\ Len(series) = Len(T!paths)
      /\ UNCHANGED <<disk, args, fixed_paths, random_paths, series>>
      /\ \/ /\ ~args.truncate /\ T!Cardinality(T!lengths) # 1
            /\ phase' = "exited"
         \/ /\ fixed_stats' = [i \in 1 .. T!prefix |-> T!Welford]
            /\ phase' = "take"
  BY Zenon DEF T!Align, T!pathVars, T!TvlaError, T!exit
<1>2. Traces /\ Traces' /\ Loaded /\ LInv
  BY Zenon, <1>1 DEF DInv, Traces
<1>3. T!paths' = T!paths
  BY Zenon, <1>1 DEF T!paths
<1>4. Loaded'
  BY Zenon, <1>1, <1>2, <1>3 DEF Loaded
<1>5. phase' # "start" /\ phase' # "reported" /\ stage' = "ended"
  BY <1>1
<1>6. CASE phase' = "exited"
  <2> DEFINE of == Recounted
             low == Shortest(of)
  <2>1. of = series /\ DOMAIN series = DOMAIN T!paths
    BY Zenon, <1>1, <1>2, SeriesAreRecounted DEF LInv
  <2>2. ~args.truncate /\ Cardinality(T!lengths) # 1
    BY Zenon, <1>1, <1>6, CountsAgree
  <2>3. \E k \in DOMAIN series : Len(series[k]) # low
    <3>1. SUFFICES ASSUME \A k \in DOMAIN series : Len(series[k]) = low
                   PROVE  FALSE
      OBVIOUS
    <3>2. 1 \in DOMAIN series
      <4>1. /\ Len(series) = Len(fixed_paths) + Len(random_paths)
            /\ DOMAIN series = 1 .. Len(series)
        BY Zenon, <1>1, <1>2, SetPlaces, ListIs DEF LInv
      <4>2. /\ Len(fixed_paths) \in Nat /\ Len(random_paths) \in Nat
            /\ Len(fixed_paths) >= 2
        BY Zenon, <1>2, ListIs DEF LInv, Loaded
      <4>3. QED
        BY <4>1, <4>2
    <3>3. T!lengths = {low}
      BY Zenon, <3>1, <3>2 DEF T!lengths
    <3>4. Cardinality({low}) = 1
      BY Zenon, FS_Singleton
    <3>5. QED
      BY Zenon, <2>2, <3>3, <3>4
  <2>4. \E k \in DOMAIN T!paths : Len(of[k]) # Shortest(of)
    BY Zenon, <2>1, <2>3
  <2>5. Recounted' = Recounted /\ Shortest(Recounted)' = Shortest(Recounted)
    <3>1. Recounted' = Recounted
      BY Zenon, <1>1, <1>3 DEF Recounted
    <3>2. QED
      BY Zenon, <3>1 DEF Shortest
  <2>6. ExitOf(Recounted)'
    BY Zenon, <1>1, <1>3, <2>2, <2>4, <2>5 DEF ExitOf
  <2>7. VerdictOnDumps'
    BY Zenon, <1>5, <2>6, VerdictParts
  <2>8. phase' \notin {"take", "reported"}
    BY <1>6
  <2>9. QED
    BY Zenon, <1>2, <1>4, <1>5, <2>7, <2>8 DEF DInv
<1>7. CASE phase' # "exited"
  <2>1. T!prefix' = T!prefix
    BY Zenon, <1>1 DEF T!prefix, T!lengths
  <2>2. DOMAIN fixed_stats' = 1 .. T!prefix'
    BY Zenon, <1>1, <1>7, <2>1
  <2>3. VerdictOnDumps'
    BY Zenon, <1>5, <1>7, VerdictParts
  <2>4. QED
    BY Zenon, <1>2, <1>4, <1>5, <2>2, <2>3 DEF DInv
<1>8. QED
  BY Zenon, <1>6, <1>7

(* Taking a series changes nothing the verdict is about.                   *)
LEMMA TakeKnows ==
    ASSUME DInv, LInv', stage = "ended", T!Take, UNCHANGED <<stage, counted>>
    PROVE  DInv'
<1>1. /\ phase = "take" /\ phase' = phase
      /\ UNCHANGED <<disk, args, fixed_paths, random_paths, series>>
      /\ DOMAIN fixed_stats' = DOMAIN fixed_stats
  BY Zenon DEF T!Take, T!pathVars, T!Updated
<1>2. /\ Traces' /\ Loaded
      /\ DOMAIN fixed_stats = 1 .. T!prefix
  BY Zenon, <1>1 DEF DInv, Traces
<1>3. T!paths' = T!paths /\ T!prefix' = T!prefix
  BY Zenon, <1>1 DEF T!paths, T!prefix, T!lengths
<1>4. Loaded'
  BY Zenon, <1>1, <1>2, <1>3 DEF Loaded
<1>5. phase' # "start" /\ phase' \notin {"reported", "exited"}
  BY <1>1
<1>6. VerdictOnDumps'
  BY Zenon, <1>5, VerdictParts
<1>7. QED
  BY Zenon, <1>1, <1>2, <1>3, <1>4, <1>5, <1>6 DEF DInv

(* The report marks the samples at which the two-pass test on the          *)
(* recounted activity exceeds the threshold.                               *)
LEMMA ReportKnows ==
    ASSUME DInv, LInv', UnitDivides, stage = "ended", T!Report,
           UNCHANGED <<stage, counted>>
    PROVE  DInv'
<1>1. /\ phase = "take" /\ taken = Len(series) /\ phase' = "reported"
      /\ UNCHANGED <<disk, args, fixed_paths, random_paths, series,
                     fixed_stats>>
      /\ points' = [i \in DOMAIN fixed_stats |->
                       T!welch_t(fixed_stats[i], random_stats[i])]
      /\ code' = T!status(points')
  BY Zenon DEF T!Report, T!pathVars, T!statVars
<1>2. /\ Traces /\ Traces' /\ Loaded /\ LInv /\ Statistics
      /\ DOMAIN fixed_stats = 1 .. T!prefix
  BY Zenon, <1>1 DEF DInv, Traces, LInv
<1>3. T!paths' = T!paths /\ T!prefix' = T!prefix
  BY Zenon, <1>1 DEF T!paths, T!prefix, T!lengths
<1>4. Loaded'
  BY Zenon, <1>1, <1>2, <1>3 DEF Loaded
<1>5. phase' \notin {"start", "exited"}
  BY <1>1
<1>6. /\ IsList(fixed_paths) /\ IsList(random_paths) /\ IsList(series)
      /\ Len(series) = Len(fixed_paths) + Len(random_paths)
  BY Zenon, <1>2 DEF LInv, Statistics
<1>7. Len(series) = Len(T!paths)
  BY Zenon, <1>6, SetPlaces
<1>8. Recounted = series
  BY Zenon, <1>2, <1>6, <1>7, SeriesAreRecounted
<1>9. /\ T!FixedSet \cap (1 .. taken) = T!FixedSet
      /\ T!RandomSet \cap (1 .. taken) = T!RandomSet
  <2> DEFINE f == Len(fixed_paths)
             r == Len(random_paths)
  <2>1. /\ f \in Nat /\ r \in Nat /\ T!FixedSet = 1 .. f
        /\ T!RandomSet = f + 1 .. f + r
    BY Zenon, <1>6, SetPlaces
  <2>2. taken = f + r
    BY Zenon, <1>1, <1>6
  <2> HIDE DEF f, r
  <2>3. QED
    BY <2>1, <2>2
<1>10. ASSUME NEW i \in DOMAIN fixed_stats
       PROVE  points'[i].exceeds <=> T!Differs(series, i)
  <2> DEFINE a == fixed_stats[i]
             b == random_stats[i]
  <2>1. Kept(series, a, T!FixedSet, i) /\ Kept(series, b, T!RandomSet, i)
    BY Zenon, <1>2, <1>9 DEF Statistics
  <2>2. points'[i] = T!welch_t(a, b)
    BY Zenon, <1>1
  <2> HIDE DEF a, b
  <2>3. QED
    BY Zenon, <1>2, <1>6, <1>7, <2>1, <2>2, PointIsVerdict
<1>11. Shortest(series) = T!prefix
  BY Zenon DEF Shortest, T!prefix, T!lengths
<1>12. DOMAIN points' = 1 .. Shortest(series)
  BY Zenon, <1>1, <1>2, <1>11
<1>13. {i \in DOMAIN points' : points'[i].exceeds} = Exceeding(series)
  BY Zenon, <1>2, <1>10, <1>11, <1>12 DEF Exceeding
<1>14. code' = IF Exceeding(series) # {} /\ args.fail_on_leakage THEN 1 ELSE 0
  <2>1. T!leaking(points') <=> Exceeding(series) # {}
    BY Zenon, <1>13 DEF T!leaking
  <2>2. code' = IF args.fail_on_leakage /\ T!leaking(points') THEN 1 ELSE 0
    BY Zenon, <1>1 DEF T!status
  <2>3. QED
    BY Zenon, <2>1, <2>2
<1>15. Recounted' = series
  BY Zenon, <1>1, <1>3, <1>8 DEF Recounted
<1>16. Exceeding(Recounted)' = Exceeding(series)
  <2>1. T!FixedSet' = T!FixedSet /\ T!RandomSet' = T!RandomSet
    BY Zenon, <1>1, <1>3 DEF T!FixedSet, T!RandomSet
  <2>2. \A i : T!Differs(series, i)' <=> T!Differs(series, i)
    BY Zenon, <1>1, <2>1 DEF T!Differs
  <2>3. QED
    BY Zenon, <1>1, <1>15, <2>2 DEF Exceeding, Shortest
<1>17. Shortest(Recounted)' = Shortest(series)
  BY Zenon, <1>15 DEF Shortest
<1>18. ReportOf(Recounted)'
  BY Zenon, <1>1, <1>12, <1>13, <1>14, <1>16, <1>17 DEF ReportOf
<1>19. VerdictOnDumps'
  BY Zenon, <1>5, <1>18, VerdictParts
<1>20. QED
  BY Zenon, <1>1, <1>2, <1>3, <1>4, <1>5, <1>19 DEF DInv
-----------------------------------------------------------------------------
(* Cardinalities, as the conversion's module names them.                   *)
LEMMA SameSizes ==
    /\ \A S : A!Cardinality(S) = Cardinality(S)
    /\ \A S : A!IsFiniteSet(S) <=> IsFiniteSet(S)
<1>1. \A S : A!Cardinality(S) = Cardinality(S)
  BY Zenon DEF A!Cardinality, Cardinality
<1>2. \A S : A!IsFiniteSet(S) <=> IsFiniteSet(S)
  BY Zenon DEF A!IsFiniteSet, IsFiniteSet
<1>3. QED
  BY Zenon, <1>1, <1>2

(* A set that is listed without repetition has as many elements.           *)
LEMMA ListedSize ==
    ASSUME NEW n \in Nat, NEW S, NEW q \in [1 .. n -> S],
           \A x \in S : \E k \in 1 .. n : q[k] = x,
           \A i, j \in 1 .. n : q[i] = q[j] => i = j
    PROVE  IsFiniteSet(S) /\ Cardinality(S) = n
<1>1. IsFiniteSet(1 .. n) /\ Cardinality(1 .. n) = n
  BY FS_Interval
<1>2. q \in Bijection(1 .. n, S)
  <2>1. q \in Injection(1 .. n, S)
    BY Zenon DEF Injection, IsInjective
  <2>2. q \in Surjection(1 .. n, S)
    BY Zenon DEF Surjection
  <2>3. QED
    BY Zenon, <2>1, <2>2 DEF Bijection
<1>3. ExistsBijection(1 .. n, S)
  BY Zenon, <1>2 DEF ExistsBijection
<1>4. QED
  BY Zenon, <1>1, <1>3, FS_Bijection

(* A one-to-one map between two sets makes them as large.                  *)
LEMMA MappedSize ==
    ASSUME NEW S, NEW X, IsFiniteSet(S), NEW f \in [S -> X],
           \A x \in X : \E s \in S : f[s] = x,
           \A s, t \in S : f[s] = f[t] => s = t
    PROVE  IsFiniteSet(X) /\ Cardinality(X) = Cardinality(S)
<1>1. f \in Injection(S, X)
  BY Zenon DEF Injection, IsInjective
<1>2. f \in Surjection(S, X)
  BY Zenon DEF Surjection
<1>3. ExistsBijection(S, X)
  BY Zenon, <1>1, <1>2 DEF Bijection, ExistsBijection
<1>4. QED
  BY Zenon, <1>3, FS_Bijection

(* The numbers of a set in ascending order are its ascending listing.      *)
LEMMA AscendingIs ==
    ASSUME NEW n \in Nat, NEW S, S \subseteq Int, NEW q \in [1 .. n -> S],
           \A x \in S : \E k \in 1 .. n : q[k] = x,
           \A i, j \in 1 .. n : i < j => q[i] < q[j]
    PROVE  /\ A!Ascending(S) = q
           /\ IsFiniteSet(S) /\ Cardinality(S) = n
<1> DEFINE below(x) == {y \in S : y < x}
<1>1. \A i, j \in 1 .. n : q[i] < q[j] <=> i < j
  <2> SUFFICES ASSUME NEW i \in 1 .. n, NEW j \in 1 .. n, q[i] < q[j]
               PROVE  i < j
    OBVIOUS
  <2>1. q[i] \in Int /\ q[j] \in Int
    OBVIOUS
  <2>2. ~(j < i) /\ i # j
    BY <2>1
  <2>3. QED
    BY <2>2
<1>2. \A i, j \in 1 .. n : q[i] = q[j] => i = j
  <2> SUFFICES ASSUME NEW i \in 1 .. n, NEW j \in 1 .. n, q[i] = q[j]
               PROVE  i = j
    OBVIOUS
  <2>1. q[i] \in Int /\ q[j] \in Int
    OBVIOUS
  <2>2. ~(i < j) /\ ~(j < i)
    BY <2>1
  <2>3. QED
    BY <2>2
<1>3. IsFiniteSet(S) /\ Cardinality(S) = n
  BY Zenon, <1>2, ListedSize
<1>4. ASSUME NEW k \in 1 .. n
      PROVE  Cardinality(below(q[k])) = k - 1
  <2> DEFINE p == [i \in 1 .. (k - 1) |-> q[i]]
             B == below(q[k])
  <2>1. \A i \in 1 .. (k - 1) : i \in 1 .. n /\ i < k
    OBVIOUS
  <2>2. p \in [1 .. (k - 1) -> B]
    BY <1>1, <2>1
  <2>3. \A x \in B : \E i \in 1 .. (k - 1) : p[i] = x
    <3> SUFFICES ASSUME NEW x \in B PROVE \E i \in 1 .. (k - 1) : p[i] = x
      OBVIOUS
    <3>1. PICK i \in 1 .. n : q[i] = x
      OBVIOUS
    <3>2. i < k
      BY <1>1, <3>1
    <3>3. i \in 1 .. (k - 1)
      BY <3>2
    <3>4. QED
      BY <3>1, <3>3
  <2>4. \A i, j \in 1 .. (k - 1) : p[i] = p[j] => i = j
    BY <1>2, <2>1
  <2>5. k - 1 \in Nat
    OBVIOUS
  <2> HIDE DEF p, B
  <2>6. Cardinality(B) = k - 1
    BY Zenon, <2>2, <2>3, <2>4, <2>5, ListedSize
  <2>7. QED
    BY <2>6 DEF B
<1> HIDE DEF below
<1>5. ASSUME NEW k \in 1 .. n
      PROVE  (CHOOSE x \in S : A!Cardinality(below(x)) = k - 1) = q[k]
  <2>1. q[k] \in S /\ A!Cardinality(below(q[k])) = k - 1
    BY Zenon, <1>4, SameSizes
  <2>2. \A x \in S : A!Cardinality(below(x)) = k - 1 => x = q[k]
    <3> SUFFICES ASSUME NEW x \in S, A!Cardinality(below(x)) = k - 1
                 PROVE  x = q[k]
      OBVIOUS
    <3>1. PICK i \in 1 .. n : q[i] = x
      OBVIOUS
    <3>2. A!Cardinality(below(x)) = i - 1
      BY Zenon, <1>4, <3>1, SameSizes
    <3>3. QED
      BY <3>1, <3>2
  <2>3. QED
    BY Zenon, <2>1, <2>2
<1>6. A!Ascending(S) =
          [k \in 1 .. n |-> CHOOSE x \in S : A!Cardinality(below(x)) = k - 1]
  <2>1. A!Cardinality(S) = n
    BY Zenon, <1>3, SameSizes
  <2>2. QED
    BY Zenon, <2>1 DEF A!Ascending, below
<1>7. q = [k \in 1 .. n |-> q[k]]
  OBVIOUS
<1>8. QED
  BY Zenon, <1>3, <1>5, <1>6, <1>7

-----------------------------------------------------------------------------
(* The number of tokens of a kind, one token further.                      *)
LEMMA CountNext ==
    ASSUME NEW h, NEW kind, NEW n \in Nat, NEW from \in 1 .. n + 1
    PROVE  /\ A!Count(h, kind, from, n) \in Nat
           /\ h[n + 1].token = kind =>
                  A!Count(h, kind, from, n + 1) = A!Count(h, kind, from, n) + 1
           /\ h[n + 1].token # kind =>
                  A!Count(h, kind, from, n + 1) = A!Count(h, kind, from, n)
<1> DEFINE S == {k \in from .. n : h[k].token = kind}
           X == {k \in from .. n + 1 : h[k].token = kind}
<1>1. IsFiniteSet(from .. n) /\ S \in SUBSET (from .. n)
  BY FS_Interval
<1>2. IsFiniteSet(S) /\ Cardinality(S) \in Nat
  BY Zenon, <1>1, FS_Subset, FS_CardinalityType
<1>3. n + 1 \notin S
  OBVIOUS
<1>4. X = IF h[n + 1].token = kind THEN S \cup {n + 1} ELSE S
  OBVIOUS
<1>5. A!Count(h, kind, from, n) = Cardinality(S)
  BY Zenon, SameSizes DEF A!Count
<1>6. A!Count(h, kind, from, n + 1) = Cardinality(X)
  BY Zenon, SameSizes DEF A!Count
<1> HIDE DEF S, X
<1>7. Cardinality(S \cup {n + 1}) = Cardinality(S) + 1
  BY Zenon, <1>2, <1>3, FS_AddElement
<1>8. QED
  BY <1>2, <1>4, <1>5, <1>6, <1>7

(* There are none before the first.                                        *)
LEMMA CountNone ==
    ASSUME NEW h, NEW kind, NEW n \in Nat
    PROVE  A!Count(h, kind, n + 1, n) = 0
<1>1. {k \in n + 1 .. n : h[k].token = kind} = {}
  OBVIOUS
<1>2. QED
  BY Zenon, <1>1, SameSizes, FS_EmptySet DEF A!Count

(* The scopes that are open one token further.                             *)
LEMMA OpenNext ==
    ASSUME NEW h, NEW n \in Nat
    PROVE  \A j : j \in A!OpenScopes(h, n + 1) <=>
               \/ /\ j \in A!OpenScopes(h, n)
                  /\ A!Count(h, "upscope", j + 1, n + 1)
                         <= A!Count(h, "scope", j + 1, n + 1)
               \/ j = n + 1 /\ h[n + 1].token = "scope"
<1> DEFINE fits(j, k) == A!Count(h, "upscope", j + 1, k)
                             <= A!Count(h, "scope", j + 1, k)
           opens(j) == h[j].token = "scope"
<1>1. \A m : A!OpenScopes(h, m) =
          {j \in 1 .. m : opens(j) /\ \A k \in j .. m : fits(j, k)}
  BY Zenon DEF A!OpenScopes
<1>2. fits(n + 1, n + 1)
  <2>1. n + 1 \in Nat
    OBVIOUS
  <2>2. /\ A!Count(h, "upscope", (n + 1) + 1, n + 1) = 0
        /\ A!Count(h, "scope", (n + 1) + 1, n + 1) = 0
    BY Zenon, <2>1, CountNone
  <2>3. QED
    BY <2>2
<1>3. opens(n + 1) <=> h[n + 1].token = "scope"
  OBVIOUS
<1> HIDE DEF fits, opens
<1>4. \A j : j \in {i \in 1 .. n + 1 :
                      opens(i) /\ \A k \in i .. n + 1 : fits(i, k)}
          <=> \/ /\ j \in {i \in 1 .. n :
                              opens(i) /\ \A k \in i .. n : fits(i, k)}
                 /\ fits(j, n + 1)
              \/ j = n + 1 /\ opens(n + 1)
  BY <1>2
<1>5. QED
  BY Zenon, <1>1, <1>3, <1>4 DEF fits

(* The names of the stack are those of the open scopes st, the outermost   *)
(* first, and each is followed by as many that are still open.             *)
Stacked(h, n, st, names) ==
    /\ IsList(names) /\ st \in [1 .. Len(names) -> A!OpenScopes(h, n)]
    /\ \A j \in A!OpenScopes(h, n) : \E e \in 1 .. Len(names) : st[e] = j
    /\ \A e, f \in 1 .. Len(names) : e < f => st[e] < st[f]
    /\ \A e \in 1 .. Len(names) :
           /\ names[e] = h[st[e]].name
           /\ A!Count(h, "scope", st[e] + 1, n) =
                  A!Count(h, "upscope", st[e] + 1, n) + (Len(names) - e)

(* An open scope is a position before.                                     *)
LEMMA OpenBefore ==
    ASSUME NEW h, NEW n \in Nat
    PROVE  A!OpenScopes(h, n) \subseteq 1 .. n
  BY DEF A!OpenScopes

(* Before the first token no scope is open.                                *)
LEMMA StackStarts ==
    ASSUME NEW h
    PROVE  Stacked(h, 0, << >>, << >>)
<1>1. IsList(<< >>) /\ Len(<< >>) = 0
  BY DEF IsList
<1>2. A!OpenScopes(h, 0) = {}
  BY OpenBefore
<1>3. QED
  BY <1>1, <1>2 DEF Stacked

(* A scope is opened: it is the innermost.                                 *)
LEMMA StackOpens ==
    ASSUME NEW h, NEW n \in Nat, NEW st, NEW names, Stacked(h, n, st, names),
           h[n + 1].token = "scope"
    PROVE  \E s : Stacked(h, n + 1, s, Append(names, h[n + 1].name))
<1> DEFINE d == Len(names)
           s == [e \in 1 .. d + 1 |-> IF e = d + 1 THEN n + 1 ELSE st[e]]
           more == Append(names, h[n + 1].name)
<1>1. d \in Nat /\ IsList(names) /\ DOMAIN names = 1 .. d
  BY Zenon, ListIs DEF Stacked
<1>2. /\ IsList(more) /\ Len(more) = d + 1
      /\ \A e \in 1 .. d + 1 : more[e] = IF e = d + 1 THEN h[n + 1].name
                                         ELSE names[e]
  <2>1. PICK X : names \in Seq(X)
    BY <1>1 DEF IsList
  <2>2. QED
    BY <1>1, <2>1, ListMore
<1> HIDE DEF more
<1>3. \A j \in 1 .. n :
          /\ A!Count(h, "scope", j + 1, n + 1)
                 = A!Count(h, "scope", j + 1, n) + 1
          /\ A!Count(h, "upscope", j + 1, n + 1)
                 = A!Count(h, "upscope", j + 1, n)
          /\ A!Count(h, "upscope", j + 1, n) \in Nat
          /\ A!Count(h, "scope", j + 1, n) \in Nat
  <2> SUFFICES ASSUME NEW j \in 1 .. n
               PROVE  /\ A!Count(h, "scope", j + 1, n + 1)
                             = A!Count(h, "scope", j + 1, n) + 1
                      /\ A!Count(h, "upscope", j + 1, n + 1)
                             = A!Count(h, "upscope", j + 1, n)
                      /\ A!Count(h, "upscope", j + 1, n) \in Nat
                      /\ A!Count(h, "scope", j + 1, n) \in Nat
    OBVIOUS
  <2>1. j + 1 \in 1 .. n + 1 /\ h[n + 1].token # "upscope"
    OBVIOUS
  <2>2. QED
    BY Zenon, <2>1, CountNext
<1>4. \A e \in 1 .. d : st[e] \in A!OpenScopes(h, n) /\ st[e] \in 1 .. n
  BY OpenBefore DEF Stacked
<1>5. \A j \in A!OpenScopes(h, n) : j \in A!OpenScopes(h, n + 1)
  <2> SUFFICES ASSUME NEW j \in A!OpenScopes(h, n)
               PROVE  j \in A!OpenScopes(h, n + 1)
    OBVIOUS
  <2>1. j \in 1 .. n
    BY OpenBefore
  <2>2. PICK e \in 1 .. d : st[e] = j
    BY DEF Stacked
  <2>3. A!Count(h, "scope", j + 1, n)
            = A!Count(h, "upscope", j + 1, n) + (d - e)
    BY <2>2 DEF Stacked
  <2> DEFINE ups == A!Count(h, "upscope", j + 1, n)
             scopes == A!Count(h, "scope", j + 1, n)
  <2>4. /\ A!Count(h, "upscope", j + 1, n + 1) = ups /\ ups \in Nat
        /\ A!Count(h, "scope", j + 1, n + 1) = scopes + 1
        /\ scopes = ups + (d - e) /\ e \in 1 .. d /\ d \in Nat
    BY Zenon, <1>1, <1>3, <2>1, <2>2, <2>3
  <2> HIDE DEF ups, scopes, d
  <2>5. A!Count(h, "upscope", j + 1, n + 1) <= A!Count(h, "scope", j + 1, n + 1)
    BY <2>4
  <2>6. QED
    BY Zenon, <2>5, OpenNext
<1>6. n + 1 \in A!OpenScopes(h, n + 1)
  BY Zenon, OpenNext
<1>7. s \in [1 .. d + 1 -> A!OpenScopes(h, n + 1)]
  <2> SUFFICES ASSUME NEW e \in 1 .. d + 1
               PROVE  s[e] \in A!OpenScopes(h, n + 1)
    OBVIOUS
  <2>1. CASE e = d + 1
    BY <1>6, <2>1
  <2>2. CASE e # d + 1
    <3>1. e \in 1 .. d /\ s[e] = st[e]
      BY <1>1, <2>2
    <3>2. QED
      BY Zenon, <1>4, <1>5, <3>1
  <2>3. QED
    BY <2>1, <2>2
<1>8. \A j \in A!OpenScopes(h, n + 1) : \E e \in 1 .. d + 1 : s[e] = j
  <2> SUFFICES ASSUME NEW j \in A!OpenScopes(h, n + 1)
               PROVE  \E e \in 1 .. d + 1 : s[e] = j
    OBVIOUS
  <2>1. CASE j = n + 1
    <3>1. d + 1 \in 1 .. d + 1 /\ s[d + 1] = n + 1
      BY <1>1
    <3>2. QED
      BY Zenon, <2>1, <3>1
  <2>2. CASE j # n + 1
    <3>1. j \in A!OpenScopes(h, n)
      BY Zenon, <2>2, OpenNext
    <3>2. PICK e \in 1 .. d : st[e] = j
      BY <3>1 DEF Stacked
    <3>3. e \in 1 .. d + 1 /\ s[e] = j
      BY <1>1, <3>2
    <3>4. QED
      BY <3>3
  <2>3. QED
    BY <2>1, <2>2
<1>9. \A e, f \in 1 .. d + 1 : e < f => s[e] < s[f]
  <2> SUFFICES ASSUME NEW e \in 1 .. d + 1, NEW f \in 1 .. d + 1, e < f
               PROVE  s[e] < s[f]
    OBVIOUS
  <2>1. e \in 1 .. d /\ s[e] = st[e] /\ st[e] \in 1 .. n
    BY <1>1, <1>4
  <2>2. CASE f = d + 1
    BY <2>1, <2>2
  <2>3. CASE f # d + 1
    <3>1. f \in 1 .. d /\ s[f] = st[f]
      BY <1>1, <2>3
    <3>2. QED
      BY <2>1, <3>1 DEF Stacked
  <2>4. QED
    BY <2>2, <2>3
<1>10. ASSUME NEW e \in 1 .. d + 1
       PROVE  /\ more[e] = h[s[e]].name
              /\ A!Count(h, "scope", s[e] + 1, n + 1) =
                     A!Count(h, "upscope", s[e] + 1, n + 1) + ((d + 1) - e)
  <2>1. CASE e = d + 1
    <3>1. s[e] = n + 1 /\ n + 1 \in Nat
      BY <2>1
    <3>2. /\ A!Count(h, "upscope", (n + 1) + 1, n + 1) = 0
          /\ A!Count(h, "scope", (n + 1) + 1, n + 1) = 0
      BY Zenon, <3>1, CountNone
    <3>3. more[e] = h[s[e]].name
      BY Zenon, <1>2, <2>1, <3>1
    <3>4. QED
      BY <1>1, <2>1, <3>1, <3>2, <3>3
  <2>2. CASE e # d + 1
    <3>1. e \in 1 .. d /\ s[e] = st[e] /\ st[e] \in 1 .. n
      BY <1>1, <1>4, <2>2
    <3>2. /\ names[e] = h[st[e]].name
          /\ A!Count(h, "scope", st[e] + 1, n) =
                 A!Count(h, "upscope", st[e] + 1, n) + (d - e)
      BY Zenon, <3>1 DEF Stacked
    <3>3. more[e] = h[s[e]].name
      BY Zenon, <1>2, <2>2, <3>1, <3>2
    <3> DEFINE j == st[e]
    <3>4. j \in 1 .. n /\ s[e] = j
      BY <3>1
    <3>5. A!Count(h, "scope", j + 1, n) =
                 A!Count(h, "upscope", j + 1, n) + (d - e)
      BY <3>2
    <3> HIDE DEF j, s
    <3>6. A!Count(h, "scope", j + 1, n + 1) =
                 A!Count(h, "upscope", j + 1, n + 1) + ((d + 1) - e)
      BY <1>1, <1>3, <3>4, <3>5
    <3>7. QED
      BY Zenon, <3>3, <3>4, <3>6
  <2>3. QED
    BY <2>1, <2>2
<1> HIDE DEF s, d
<1>11. Stacked(h, n + 1, s, more)
  BY Zenon, <1>2, <1>7, <1>8, <1>9, <1>10 DEF Stacked
<1>12. QED
  BY Zenon, <1>11 DEF more

(* A scope is closed: the innermost, if there is one.                      *)
LEMMA StackCloses ==
    ASSUME NEW h, NEW n \in Nat, NEW st, NEW names, Stacked(h, n, st, names),
           h[n + 1].token = "upscope"
    PROVE  \E s : Stacked(h, n + 1, s, IF names = << >> THEN names
                                       ELSE SubSeq(names, 1, Len(names) - 1))
<1> DEFINE d == Len(names)
<1>1. d \in Nat /\ IsList(names) /\ DOMAIN names = 1 .. d
  BY Zenon, ListIs DEF Stacked
<1>2. ASSUME NEW j \in 1 .. n
      PROVE  /\ A!Count(h, "scope", j + 1, n + 1)
                    = A!Count(h, "scope", j + 1, n)
             /\ A!Count(h, "upscope", j + 1, n + 1)
                    = A!Count(h, "upscope", j + 1, n) + 1
             /\ A!Count(h, "upscope", j + 1, n) \in Nat
             /\ A!Count(h, "scope", j + 1, n) \in Nat
  <2>1. j + 1 \in 1 .. n + 1 /\ h[n + 1].token # "scope"
    OBVIOUS
  <2>2. QED
    BY Zenon, <2>1, CountNext
<1>3. \A e \in 1 .. d : st[e] \in A!OpenScopes(h, n) /\ st[e] \in 1 .. n
  BY OpenBefore DEF Stacked
<1>4. ASSUME NEW e \in 1 .. d
      PROVE  /\ A!Count(h, "scope", st[e] + 1, n + 1) + 1
                    = A!Count(h, "upscope", st[e] + 1, n + 1) + (d - e)
             /\ st[e] \in A!OpenScopes(h, n + 1) <=> e < d
  <2> DEFINE j == st[e]
             ups == A!Count(h, "upscope", j + 1, n)
             scopes == A!Count(h, "scope", j + 1, n)
             more == A!Count(h, "upscope", j + 1, n + 1)
             same == A!Count(h, "scope", j + 1, n + 1)
  <2>1. j \in 1 .. n /\ j \in A!OpenScopes(h, n)
    BY <1>3
  <2>2. more = ups + 1 /\ same = scopes /\ ups \in Nat /\ scopes \in Nat
    BY Zenon, <1>2, <2>1
  <2>3. scopes = ups + (d - e)
    BY DEF Stacked
  <2>4. j # n + 1
    BY <2>1
  <2>5. j \in A!OpenScopes(h, n + 1) <=> more <= same
    BY Zenon, <2>1, <2>4, OpenNext
  <2>6. e \in 1 .. d
    OBVIOUS
  <2> HIDE DEF ups, scopes, more, same, d
  <2>7. same + 1 = more + (d - e) /\ (more <= same <=> e < d)
    BY <1>1, <2>2, <2>3, <2>6
  <2>8. QED
    BY Zenon, <2>5, <2>7 DEF more, same
<1>5. \A j \in A!OpenScopes(h, n + 1) : j \in A!OpenScopes(h, n)
  <2> SUFFICES ASSUME NEW j \in A!OpenScopes(h, n + 1)
               PROVE  j \in A!OpenScopes(h, n)
    OBVIOUS
  <2>1. h[n + 1].token # "scope"
    OBVIOUS
  <2>2. QED
    BY Zenon, <2>1, OpenNext
<1>6. CASE names = << >>
  <2>1. d = 0
    BY <1>6
  <2>2. A!OpenScopes(h, n) = {}
    BY <2>1 DEF Stacked
  <2>3. A!OpenScopes(h, n + 1) = {}
    BY Zenon, <1>5, <2>2
  <2>4. st \in [1 .. d -> {}]
    BY Zenon, <2>2 DEF Stacked
  <2>5. Stacked(h, n + 1, st, names)
    BY <1>1, <2>1, <2>3, <2>4 DEF Stacked
  <2>6. QED
    BY Zenon, <1>6, <2>5
<1>7. CASE names # << >>
  <2> DEFINE less == SubSeq(names, 1, d - 1)
             s == [e \in 1 .. d - 1 |-> st[e]]
  <2>1. d # 0
    <3>1. PICK X : names \in Seq(X)
      BY <1>1 DEF IsList
    <3>2. QED
      BY <1>7, <3>1
  <2>2. /\ IsList(less) /\ Len(less) = d - 1
        /\ \A e \in 1 .. d - 1 : less[e] = names[e]
    <3>1. PICK X : names \in Seq(X)
      BY <1>1 DEF IsList
    <3>2. \A k \in 1 .. d - 1 : names[k] \in X
      BY <1>1, <3>1
    <3>3. less \in Seq(X) /\ Len(less) = d - 1
      BY <1>1, <2>1, <3>1
    <3>4. \A e \in 1 .. d - 1 : less[e] = names[e]
      BY <1>1, <2>1, <3>1
    <3>5. QED
      BY <3>3, <3>4 DEF IsList
  <2> HIDE DEF less
  <2>3. \A e \in 1 .. d - 1 : e \in 1 .. d /\ e < d /\ s[e] = st[e]
    BY <1>1
  <2>4. s \in [1 .. d - 1 -> A!OpenScopes(h, n + 1)]
    BY <1>4, <2>3
  <2>5. \A j \in A!OpenScopes(h, n + 1) : \E e \in 1 .. d - 1 : s[e] = j
    <3> SUFFICES ASSUME NEW j \in A!OpenScopes(h, n + 1)
                 PROVE  \E e \in 1 .. d - 1 : s[e] = j
      OBVIOUS
    <3>1. PICK e \in 1 .. d : st[e] = j
      BY <1>5 DEF Stacked
    <3>2. e < d
      BY Zenon, <1>4, <3>1
    <3>3. e \in 1 .. d - 1
      BY <1>1, <3>2
    <3>4. QED
      BY <2>3, <3>1, <3>3
  <2>6. \A e, f \in 1 .. d - 1 : e < f => s[e] < s[f]
    BY <2>3 DEF Stacked
  <2>7. ASSUME NEW e \in 1 .. d - 1
        PROVE  /\ less[e] = h[s[e]].name
               /\ A!Count(h, "scope", s[e] + 1, n + 1) =
                      A!Count(h, "upscope", s[e] + 1, n + 1) + ((d - 1) - e)
    <3>1. e \in 1 .. d /\ s[e] = st[e] /\ less[e] = names[e]
      BY Zenon, <2>2, <2>3
    <3>2. less[e] = h[s[e]].name
      BY Zenon, <3>1 DEF Stacked
    <3>3. st[e] \in 1 .. n
      BY <1>3, <3>1
    <3>4. A!Count(h, "scope", st[e] + 1, n + 1) \in Nat
      BY Zenon, <1>2, <3>3
    <3>5. A!Count(h, "upscope", st[e] + 1, n + 1) \in Nat
      BY <1>2, <3>3
    <3> DEFINE x == A!Count(h, "scope", st[e] + 1, n + 1)
               y == A!Count(h, "upscope", st[e] + 1, n + 1)
    <3>6. x + 1 = y + (d - e) /\ x \in Nat /\ y \in Nat
      BY Zenon, <1>4, <3>1, <3>4, <3>5
    <3> HIDE DEF x, y, d, s, less
    <3>7. x = y + ((d - 1) - e)
      BY <1>1, <3>1, <3>6
    <3>8. QED
      BY Zenon, <3>1, <3>2, <3>7 DEF x, y
  <2> HIDE DEF s, d
  <2>8. Stacked(h, n + 1, s, less)
    BY Zenon, <2>2, <2>4, <2>5, <2>6, <2>7 DEF Stacked
  <2>9. QED
    BY Zenon, <1>7, <2>8 DEF less, d
<1>8. QED
  BY <1>6, <1>7

(* Any other token leaves the scopes as they are.                          *)
LEMMA StackStays ==
    ASSUME NEW h, NEW n \in Nat, NEW st, NEW names, Stacked(h, n, st, names),
           h[n + 1].token # "upscope", h[n + 1].token # "scope"
    PROVE  Stacked(h, n + 1, st, names)
<1>1. ASSUME NEW j \in 1 .. n
      PROVE  /\ A!Count(h, "scope", j + 1, n + 1)
                    = A!Count(h, "scope", j + 1, n)
             /\ A!Count(h, "upscope", j + 1, n + 1)
                    = A!Count(h, "upscope", j + 1, n)
             /\ A!Count(h, "upscope", j + 1, n) \in Nat
             /\ A!Count(h, "scope", j + 1, n) \in Nat
  <2>1. j + 1 \in 1 .. n + 1
    OBVIOUS
  <2>2. QED
    BY Zenon, <2>1, CountNext
<1>2. \A e \in 1 .. Len(names) : st[e] \in 1 .. n
  BY OpenBefore DEF Stacked
<1>3. Len(names) \in Nat
  BY Zenon, ListIs DEF Stacked
<1>4. ASSUME NEW j \in A!OpenScopes(h, n)
      PROVE  j \in A!OpenScopes(h, n + 1)
  <2>1. PICK e \in 1 .. Len(names) : st[e] = j
    BY DEF Stacked
  <2> DEFINE ups == A!Count(h, "upscope", j + 1, n)
             scopes == A!Count(h, "scope", j + 1, n)
             d == Len(names)
  <2>2. j \in 1 .. n
    BY OpenBefore
  <2>3. /\ A!Count(h, "upscope", j + 1, n + 1) = ups /\ ups \in Nat
        /\ A!Count(h, "scope", j + 1, n + 1) = scopes
    BY Zenon, <1>1, <2>2
  <2>4. scopes = ups + (d - e) /\ e \in 1 .. d /\ d \in Nat
    BY Zenon, <1>3, <2>1 DEF Stacked
  <2> HIDE DEF ups, scopes, d
  <2>5. A!Count(h, "upscope", j + 1, n + 1) <= A!Count(h, "scope", j + 1, n + 1)
    BY <2>3, <2>4
  <2>6. QED
    BY Zenon, <2>5, OpenNext
<1>5. A!OpenScopes(h, n + 1) = A!OpenScopes(h, n)
  <2>1. \A j \in A!OpenScopes(h, n + 1) : j \in A!OpenScopes(h, n)
    BY Zenon, OpenNext
  <2>2. QED
    BY Zenon, <1>4, <2>1
<1>6. QED
  BY Zenon, <1>1, <1>2, <1>5 DEF Stacked

(* The path of a declaration is the stack and its name.                    *)
LEMMA PathIs ==
    ASSUME NEW h, NEW n \in Nat, NEW st, NEW names, Stacked(h, n, st, names)
    PROVE  A!PathOf(h, n + 1) = Append(names, h[n + 1].name)
<1>1. Len(names) \in Nat /\ DOMAIN names = 1 .. Len(names)
  BY Zenon, ListIs DEF Stacked
<1>2. A!OpenScopes(h, n) \subseteq Int
  BY OpenBefore
<1>3. A!Ascending(A!OpenScopes(h, n)) = st
  BY Zenon, <1>1, <1>2, AscendingIs DEF Stacked
<1>4. (n + 1) - 1 = n
  OBVIOUS
<1>5. DOMAIN st = 1 .. Len(names)
  BY DEF Stacked
<1>6. [k \in DOMAIN st |-> h[st[k]].name] = names
  <2>1. PICK X : names \in Seq(X)
    BY DEF Stacked, IsList
  <2>2. names = [k \in 1 .. Len(names) |-> names[k]]
    BY <2>1
  <2>3. \A k \in 1 .. Len(names) : names[k] = h[st[k]].name
    BY Zenon DEF Stacked
  <2>4. QED
    BY Zenon, <1>5, <2>2, <2>3
<1>7. QED
  BY Zenon, <1>3, <1>4, <1>6 DEF A!PathOf

-----------------------------------------------------------------------------
(* The variables are the declarations among the first n tokens of the      *)
(* header, each once: the k-th is that of token pos[k].                    *)
DeclaredUpTo(h, n) == {i \in 1 .. n : h[i].token = "var"}
Entry(h, i) ==
    [ident |-> h[i].ident, name |-> h[i].name, path |-> A!PathOf(h, i),
     width |-> h[i].width, type |-> h[i].type]
Lists(vs, h, n, pos) ==
    /\ IsList(vs) /\ pos \in [DOMAIN vs -> DeclaredUpTo(h, n)]
    /\ \A i \in DeclaredUpTo(h, n) : \E k \in DOMAIN vs : pos[k] = i
    /\ \A k, l \in DOMAIN vs : pos[k] = pos[l] => k = l
    /\ \A k \in DOMAIN vs : vs[k] = Entry(h, pos[k])

(* Before the first token nothing is declared.                             *)
LEMMA ListStarts ==
    ASSUME NEW h
    PROVE  Lists(<< >>, h, 0, << >>)
<1>1. IsList(<< >>) /\ DOMAIN << >> = {}
  BY DEF IsList
<1>2. DeclaredUpTo(h, 0) = {}
  BY DEF DeclaredUpTo
<1>3. QED
  BY <1>1, <1>2 DEF Lists

(* One more declaration is one more variable, of the stack's path.         *)
LEMMA ListGains ==
    ASSUME NEW h, NEW n \in Nat, NEW vs, NEW pos, Lists(vs, h, n, pos),
           h[n + 1].token = "var"
    PROVE  \E p : Lists(Append(vs, Entry(h, n + 1)), h, n + 1, p)
<1> DEFINE d == Len(vs)
           e == Entry(h, n + 1)
           more == Append(vs, e)
           p == [k \in 1 .. d + 1 |-> IF k = d + 1 THEN n + 1 ELSE pos[k]]
           was == DeclaredUpTo(h, n)
           now == DeclaredUpTo(h, n + 1)
<1>1. d \in Nat /\ IsList(vs) /\ DOMAIN vs = 1 .. d
  BY Zenon, ListIs DEF Lists
<1>2. /\ IsList(more) /\ DOMAIN more = 1 .. d + 1
      /\ more[d + 1] = e /\ \A k \in 1 .. d : more[k] = vs[k]
  <2>1. PICK X : vs \in Seq(X)
    BY <1>1 DEF IsList
  <2> HIDE DEF e
  <2>2. /\ DOMAIN more = 1 .. d + 1
        /\ more[d + 1] = e /\ \A k \in 1 .. d : more[k] = vs[k]
    BY <1>1, <2>1
  <2>3. QED
    BY <1>1, <2>2, ListMore
<1>3. now = was \cup {n + 1} /\ n + 1 \notin was
  BY DEF DeclaredUpTo
<1> HIDE DEF was, now, e, more
<1>4. /\ p[d + 1] = n + 1 /\ DOMAIN p = 1 .. d + 1
      /\ \A k \in 1 .. d : p[k] = pos[k]
  BY <1>1
<1>5. pos \in [1 .. d -> was] /\ \A k \in 1 .. d : pos[k] \in was
  BY Zenon, <1>1 DEF Lists, was
<1>6. 1 .. d + 1 = (1 .. d) \cup {d + 1} /\ d + 1 \notin 1 .. d
  BY <1>1
<1>7. p = [k \in 1 .. d + 1 |-> p[k]]
  OBVIOUS
<1> HIDE DEF p
<1>8. p \in [DOMAIN more -> now]
  <2>1. \A k \in 1 .. d + 1 : p[k] \in now
    BY Zenon, <1>3, <1>4, <1>5, <1>6
  <2>2. QED
    BY Zenon, <1>2, <1>7, <2>1
<1>9. \A i \in now : \E k \in DOMAIN more : p[k] = i
  <2> SUFFICES ASSUME NEW i \in now PROVE \E k \in DOMAIN more : p[k] = i
    OBVIOUS
  <2>1. CASE i = n + 1
    BY Zenon, <1>2, <1>4, <1>6, <2>1
  <2>2. CASE i # n + 1
    <3>1. i \in was
      BY Zenon, <1>3, <2>2
    <3>2. PICK k \in 1 .. d : pos[k] = i
      BY Zenon, <1>1, <3>1 DEF Lists, was
    <3>3. QED
      BY Zenon, <1>2, <1>4, <1>6, <3>2
  <2>3. QED
    BY <2>1, <2>2
<1>10. ASSUME NEW k \in DOMAIN more, NEW l \in DOMAIN more, p[k] = p[l]
       PROVE  k = l
  <2>1. k \in 1 .. d \/ k = d + 1
    BY Zenon, <1>2, <1>6
  <2>2. l \in 1 .. d \/ l = d + 1
    BY Zenon, <1>2, <1>6
  <2>3. \A j \in 1 .. d : p[j] # p[d + 1]
    BY Zenon, <1>3, <1>4, <1>5
  <2>4. k \in 1 .. d /\ l \in 1 .. d => k = l
    BY Zenon, <1>1, <1>4, <1>10 DEF Lists
  <2>5. QED
    BY Zenon, <1>10, <2>1, <2>2, <2>3, <2>4
<1>11. \A k \in DOMAIN more : more[k] = Entry(h, p[k])
  <2>1. \A k \in 1 .. d : more[k] = Entry(h, p[k])
    BY Zenon, <1>1, <1>2, <1>4 DEF Lists
  <2>2. more[d + 1] = Entry(h, p[d + 1])
    BY Zenon, <1>2, <1>4 DEF e
  <2>3. QED
    BY Zenon, <1>2, <1>6, <2>1, <2>2
<1>12. Lists(more, h, n + 1, p)
  BY Zenon, <1>2, <1>8, <1>9, <1>10, <1>11 DEF Lists, now
<1>13. QED
  BY Zenon, <1>12 DEF more, e

(* Any other token leaves the variables as they are.                       *)
LEMMA ListStays ==
    ASSUME NEW h, NEW n \in Nat, NEW vs, NEW pos, Lists(vs, h, n, pos),
           h[n + 1].token # "var"
    PROVE  Lists(vs, h, n + 1, pos)
<1>1. DeclaredUpTo(h, n + 1) = DeclaredUpTo(h, n)
  BY DEF DeclaredUpTo
<1>2. QED
  BY Zenon, <1>1 DEF Lists

(* The timescale is that of the last of the first n tokens that has one.   *)
Scaled(h, n, scale) ==
    LET of == {i \in 1 .. n : h[i].token = "timescale"}
    IN  \/ of = {} /\ scale = A!Missing
        \/ \E i \in of : scale = h[i].scale /\ \A j \in of : j <= i

(* One token more: the last timescale counts.                              *)
LEMMA ScaleNext ==
    ASSUME NEW h, NEW n \in Nat, NEW scale, Scaled(h, n, scale)
    PROVE  Scaled(h, n + 1, IF h[n + 1].token = "timescale" THEN h[n + 1].scale
                            ELSE scale)
<1> DEFINE was == {i \in 1 .. n : h[i].token = "timescale"}
           now == {i \in 1 .. n + 1 : h[i].token = "timescale"}
<1>1. CASE h[n + 1].token = "timescale"
  <2>1. n + 1 \in now /\ \A j \in now : j <= n + 1
    BY <1>1
  <2> HIDE DEF now
  <2>2. Scaled(h, n + 1, h[n + 1].scale)
    BY Zenon, <2>1 DEF Scaled, now
  <2>3. QED
    BY Zenon, <1>1, <2>2
<1>2. CASE h[n + 1].token # "timescale"
  <2>1. now = was
    BY <1>2
  <2> HIDE DEF now, was
  <2>2. Scaled(h, n + 1, scale)
    BY Zenon, <2>1 DEF Scaled, now, was
  <2>3. QED
    BY Zenon, <1>2, <2>2
<1>3. QED
  BY <1>1, <1>2

(* What the header has told, n tokens of it read.                          *)
HeaderRead(n) ==
    /\ IsList(sim.header) /\ IsList(header)
    /\ Len(header) = Len(sim.header) - n
    /\ \A i \in 1 .. Len(header) : header[i] = sim.header[n + i]
Whole(t) == t.token \notin {"malformed", "unclosed"}
HeaderInv ==
    \E n \in 0 .. Len(sim.header) :
        /\ HeaderRead(n) /\ Scaled(sim.header, n, timescale)
        /\ \A i \in 1 .. n : Whole(sim.header[i])
        /\ \E st : Stacked(sim.header, n, st, scope)
        /\ \E pos : Lists(variables, sim.header, n, pos)

(* The header is about to be read.                                         *)
LEMMA HeaderStarts ==
    ASSUME header = sim.header, IsList(sim.header), scope = << >>,
           variables = << >>, timescale = A!Missing
    PROVE  HeaderInv
<1>1. Len(sim.header) \in Nat
  BY Zenon, ListIs
<1>2. 0 \in 0 .. Len(sim.header) /\ HeaderRead(0)
  BY <1>1 DEF HeaderRead
<1>3. Scaled(sim.header, 0, timescale)
  <2>1. {i \in 1 .. 0 : sim.header[i].token = "timescale"} = {}
    OBVIOUS
  <2>2. QED
    BY Zenon, <2>1 DEF Scaled
<1>4. \A i \in 1 .. 0 : Whole(sim.header[i])
  OBVIOUS
<1>5. QED
  BY Zenon, <1>2, <1>3, <1>4, StackStarts, ListStarts DEF HeaderInv

(* A token is read: every declaration has its path, whatever was opened    *)
(* and closed before it.                                                   *)
LEMMA TokenKeeps ==
    ASSUME HeaderInv, A!ReadToken, Whole(Head(header))
    PROVE  HeaderInv'
<1> DEFINE h == sim.header
           t == Head(header)
<1>1. PICK n \in 0 .. Len(h) :
          /\ HeaderRead(n) /\ Scaled(h, n, timescale)
          /\ \A i \in 1 .. n : Whole(h[i])
          /\ \E st : Stacked(h, n, st, scope)
          /\ \E pos : Lists(variables, h, n, pos)
  BY DEF HeaderInv
<1>2. PICK st : Stacked(h, n, st, scope)
  BY <1>1
<1>3. PICK pos : Lists(variables, h, n, pos)
  BY <1>1
<1>4. /\ header # << >> /\ header' = Tail(header) /\ sim' = sim
      /\ scope' = CASE t.token = "scope"   -> Append(scope, t.name)
                    [] t.token = "upscope" -> A!upscope
                    [] OTHER -> scope
      /\ variables' = IF t.token = "var"
                      THEN Append(variables,
                                  [ident |-> t.ident, name |-> t.name,
                                   path |-> Append(scope, t.name),
                                   width |-> t.width, type |-> t.type])
                      ELSE variables
      /\ timescale' = IF t.token = "timescale" THEN t.scale ELSE timescale
  BY Zenon DEF A!ReadToken
<1>5. n \in Nat /\ Len(h) \in Nat /\ n \in 0 .. Len(h)
  BY <1>1, ListIs DEF HeaderRead
<1>6. /\ t = h[n + 1] /\ n + 1 \in 0 .. Len(h)
      /\ IsList(Tail(header)) /\ Len(Tail(header)) = Len(h) - (n + 1)
      /\ \A i \in 1 .. Len(Tail(header)) : Tail(header)[i] = h[(n + 1) + i]
  <2>1. PICK X : header \in Seq(X)
    BY <1>1 DEF HeaderRead, IsList
  <2>2. Len(header) \in Nat /\ Len(header) # 0
    BY <1>4, <2>1
  <2>3. Len(header) = Len(h) - n
            /\ \A i \in 1 .. Len(header) : header[i] = h[n + i]
    BY <1>1 DEF HeaderRead
  <2>4. 1 \in 1 .. Len(header)
    BY <2>2
  <2>5. t = header[1]
    BY <2>1, <2>2
  <2>6. /\ Tail(header) \in Seq(X) /\ Len(Tail(header)) = Len(header) - 1
        /\ \A i \in 1 .. Len(header) - 1 : Tail(header)[i] = header[i + 1]
    BY <1>4, <2>1
  <2>7. n + 1 \in 0 .. Len(h)
    BY <1>5, <2>2, <2>3
  <2>8. \A i \in 1 .. Len(header) - 1 : Tail(header)[i] = h[(n + 1) + i]
    <3> SUFFICES ASSUME NEW i \in 1 .. Len(header) - 1
                 PROVE  Tail(header)[i] = h[(n + 1) + i]
      OBVIOUS
    <3>1. i + 1 \in 1 .. Len(header) /\ n + (i + 1) = (n + 1) + i
      BY <1>5, <2>2
    <3>2. QED
      BY <2>3, <2>6, <3>1
  <2>9. Len(Tail(header)) = Len(h) - (n + 1)
    BY <1>5, <2>3, <2>6
  <2>10. IsList(Tail(header))
    BY Zenon, <2>6 DEF IsList
  <2>11. QED
    BY <2>3, <2>4, <2>5, <2>6, <2>7, <2>8, <2>9, <2>10
<1>7. HeaderRead(n + 1)'
  BY Zenon, <1>1, <1>4, <1>6 DEF HeaderRead
<1>8. Scaled(h, n + 1, timescale')
  BY Zenon, <1>1, <1>4, <1>5, <1>6, ScaleNext
<1> HIDE DEF h, t
<1>9. \E s : Stacked(h, n + 1, s, scope')
  <2>1. CASE t.token = "scope"
    <3>1. scope' = Append(scope, h[n + 1].name)
      BY Zenon, <1>4, <1>6, <2>1
    <3>2. QED
      BY Zenon, <1>2, <1>5, <1>6, <2>1, <3>1, StackOpens
  <2>2. CASE t.token = "upscope"
    <3>1. t.token # "scope"
      BY <2>2
    <3>2. scope' = A!upscope
      BY Zenon, <1>4, <2>2, <3>1
    <3>3. A!upscope = IF scope = << >> THEN scope
                      ELSE SubSeq(scope, 1, Len(scope) - 1)
      BY DEF A!upscope, A!Front
    <3>4. QED
      BY Zenon, <1>2, <1>5, <1>6, <2>2, <3>2, <3>3, StackCloses
  <2>3. CASE t.token # "scope" /\ t.token # "upscope"
    <3>1. scope' = scope
      BY Zenon, <1>4, <2>3
    <3>2. QED
      BY Zenon, <1>2, <1>5, <1>6, <2>3, <3>1, StackStays
  <2>4. QED
    BY <2>1, <2>2, <2>3
<1>10. \E p : Lists(variables', h, n + 1, p)
  <2>1. CASE t.token = "var"
    <3>1. A!PathOf(h, n + 1) = Append(scope, t.name)
      BY Zenon, <1>2, <1>5, <1>6, PathIs
    <3>2. variables' = Append(variables, Entry(h, n + 1))
      BY Zenon, <1>4, <1>6, <2>1, <3>1 DEF Entry
    <3>3. QED
      BY Zenon, <1>3, <1>5, <1>6, <2>1, <3>2, ListGains
  <2>2. CASE t.token # "var"
    <3>1. variables' = variables
      BY Zenon, <1>4, <2>2
    <3>2. QED
      BY Zenon, <1>3, <1>5, <1>6, <2>2, <3>1, ListStays
  <2>3. QED
    BY <2>1, <2>2
<1>11. sim'.header = h
  BY Zenon, <1>4 DEF h
<1>12. \A i \in 1 .. n + 1 : Whole(h[i])
  <2>1. \A i \in 1 .. n + 1 : i \in 1 .. n \/ i = n + 1
    BY <1>5
  <2>2. Whole(h[n + 1])
    BY Zenon, <1>6 DEF t
  <2>3. QED
    BY Zenon, <1>1, <2>1, <2>2 DEF h
<1>13. QED
  BY Zenon, <1>6, <1>7, <1>8, <1>9, <1>10, <1>11, <1>12 DEF HeaderInv

(* The header is read: the variables are all declarations, each once.      *)
Declared ==
    \E pos : Lists(variables, sim.header, Len(sim.header), pos)
(* At its end the timescale is that of the dump.                           *)
LEMMA HeaderEnds ==
    ASSUME HeaderInv, header = << >>, sim.ending = "closed"
    PROVE  Declared /\ timescale = A!Scale /\ A!WellFormed
<1> DEFINE h == sim.header
           of == {i \in DOMAIN h : h[i].token = "timescale"}
<1>1. PICK n \in 0 .. Len(h) :
          /\ HeaderRead(n) /\ Scaled(h, n, timescale)
          /\ \A i \in 1 .. n : Whole(h[i])
          /\ \E pos : Lists(variables, h, n, pos)
  BY DEF HeaderInv
<1>2. n = Len(h) /\ DOMAIN h = 1 .. Len(h)
  <2>1. Len(h) \in Nat /\ DOMAIN h = 1 .. Len(h) /\ Len(header) = Len(h) - n
    BY Zenon, <1>1, ListIs DEF HeaderRead
  <2>2. Len(header) = 0
    OBVIOUS
  <2>3. QED
    BY <2>1, <2>2
<1>3. of = {i \in 1 .. n : h[i].token = "timescale"} /\ of \subseteq Int
  BY <1>2
<1>4. A!Scale = IF of = {} THEN A!Missing ELSE h[A!Max(of)].scale
  BY Zenon DEF A!Scale
<1> HIDE DEF of
<1>5. \/ of = {} /\ timescale = A!Missing
      \/ \E i \in of : timescale = h[i].scale /\ \A j \in of : j <= i
  BY Zenon, <1>1, <1>3 DEF Scaled
<1>6. ASSUME NEW i \in of, \A j \in of : j <= i
      PROVE  A!Max(of) = i
  <2>1. \A j \in of : i >= j
    BY <1>3, <1>6
  <2>2. ASSUME NEW m \in of, \A j \in of : m >= j
        PROVE  m = i
    <3>1. m >= i /\ i >= m /\ m \in Int /\ i \in Int
      BY <1>3, <2>1, <2>2
    <3>2. QED
      BY <3>1
  <2>3. QED
    BY Zenon, <2>1, <2>2 DEF A!Max
<1>7. timescale = A!Scale
  BY Zenon, <1>4, <1>5, <1>6
<1>8. A!WellFormed
  BY Zenon, <1>1, <1>2 DEF A!WellFormed, Whole
<1>9. QED
  BY Zenon, <1>1, <1>2, <1>7, <1>8 DEF Declared

-----------------------------------------------------------------------------
(* What the assumption says of the simulation at hand.                     *)
LEMMA SimulationIs ==
    ASSUME A!AreSimulations, sim \in Simulations
    PROVE  /\ IsFiniteSet(Times) /\ Times \subseteq Nat /\ 0 \in Times
           /\ IsList(PathOrder)
           /\ \A i, j \in DOMAIN PathOrder : PathOrder[i] = PathOrder[j]
                  => i = j
           /\ IsList(sim.header) /\ IsList(sim.script)
           /\ A!IsCommand(A!opt)
           /\ \A i \in A!Declarations : A!IsDeclaration(sim.header, i)
           /\ \A i \in DOMAIN sim.header :
                  sim.header[i].token = "timescale" =>
                      A!IsTimescale(sim.header[i].scale)
           /\ \A i \in DOMAIN sim.header :
                  sim.header[i].token = "unclosed" => i = Len(sim.header)
           /\ \A n \in DOMAIN sim.script : \A l \in sim.script[n] :
                  A!IsLine(l, sim.header)
<1>1. A!IsSimulation(sim)
  BY Zenon DEF A!AreSimulations
<1>2. IsList(sim.header) /\ IsList(sim.script)
  BY Zenon, <1>1 DEF A!IsSimulation, A!IsSequence, IsList
<1>3. IsList(PathOrder)
  BY Zenon DEF A!AreSimulations, A!IsSequence, IsList
<1>4. IsFiniteSet(Times)
  BY Zenon, SameSizes DEF A!AreSimulations
<1>5. QED
  BY Zenon, <1>1, <1>2, <1>3, <1>4
     DEF A!AreSimulations, A!IsSimulation, A!Declarations, A!opt

(* A token that is not whole ends the conversion, and the header is not    *)
(* well formed: it is cut when the token is a declaration without its end. *)
LEMMA TokenFails ==
    ASSUME A!AreSimulations, sim \in Simulations, HeaderInv, A!ReadToken,
           ~Whole(Head(header))
    PROVE  \/ stage' = "error" /\ ~A!WellFormed /\ ~A!HeaderCut
           \/ stage' = "uncaught" /\ A!HeaderCut
<1> DEFINE h == sim.header
           t == Head(header)
<1>1. PICK n \in 0 .. Len(h) :
          HeaderRead(n) /\ \A i \in 1 .. n : Whole(h[i])
  BY DEF HeaderInv
<1>2. header # << >> /\ sim.ending = "closed" /\ stage' = A!AfterToken(t)
  BY Zenon DEF A!ReadToken
<1>3. Len(h) \in Nat /\ DOMAIN h = 1 .. Len(h)
  BY Zenon, <1>1, ListIs DEF HeaderRead
<1>4. n + 1 \in DOMAIN h /\ t = h[n + 1]
  <2>1. PICK X : header \in Seq(X)
    BY <1>1 DEF HeaderRead, IsList
  <2>2. Len(header) \in Nat /\ Len(header) # 0 /\ t = header[1]
    BY <1>2, <2>1
  <2>3. Len(header) = Len(h) - n
            /\ \A i \in 1 .. Len(header) : header[i] = h[n + i]
    BY <1>1 DEF HeaderRead
  <2>4. 1 \in 1 .. Len(header) /\ n + 1 \in 1 .. Len(h)
    BY <1>1, <1>3, <2>2, <2>3
  <2>5. QED
    BY <1>3, <2>2, <2>3, <2>4
<1>5. t.token \in {"malformed", "unclosed"}
  BY Zenon DEF Whole
<1> HIDE DEF t
<1>6. CASE t.token = "malformed"
  <2>1. stage' = "error"
    BY <1>2, <1>6 DEF A!AfterToken
  <2>2. ~A!WellFormed /\ ~A!HeaderCut
    BY <1>4, <1>6 DEF A!WellFormed, A!HeaderCut
  <2>3. QED
    BY Zenon, <2>1, <2>2
<1>7. CASE t.token = "unclosed"
  <2>1. stage' = "uncaught"
    BY <1>2, <1>7 DEF A!AfterToken
  <2>2. n + 1 = Len(h)
    BY Zenon, <1>4, <1>7, SimulationIs
  <2>3. \A i \in DOMAIN h : h[i].token # "malformed"
    <3> SUFFICES ASSUME NEW i \in DOMAIN h
                 PROVE  h[i].token # "malformed"
      OBVIOUS
    <3>1. i \in 1 .. n \/ i = n + 1
      BY <1>1, <1>3, <2>2
    <3>2. QED
      BY <1>1, <1>4, <1>7, <3>1 DEF Whole
  <2>4. A!HeaderCut
    BY Zenon, <1>2, <1>4, <1>7, <2>3 DEF A!HeaderCut
  <2>5. QED
    BY Zenon, <2>1, <2>4
<1>8. QED
  BY Zenon, <1>5, <1>6, <1>7

(* The variables and the declarations of the header: the k-th variable is  *)
(* that of declaration pos[k].                                             *)
Listed(pos) ==
    /\ DOMAIN variables = 1 .. Len(variables) /\ Len(variables) \in Nat
    /\ pos \in [DOMAIN variables -> A!Declarations]
    /\ \A i \in A!Declarations : \E k \in DOMAIN variables : pos[k] = i
    /\ \A k, l \in DOMAIN variables : pos[k] = pos[l] => k = l
    /\ \A k \in DOMAIN variables :
           /\ pos[k] \in A!Declarations
           /\ variables[k].ident = A!NetOf(pos[k])
           /\ variables[k].name = sim.header[pos[k]].name
           /\ variables[k].path = A!DeclaredPath(pos[k])
           /\ variables[k].width = sim.header[pos[k]].width
           /\ variables[k].type = sim.header[pos[k]].type

(* Each variable is that of one declaration, and each declaration has one. *)
LEMMA ListedIs ==
    ASSUME Declared, IsList(sim.header)
    PROVE  \E pos : Listed(pos)
<1> DEFINE h == sim.header
<1>1. PICK pos : Lists(variables, h, Len(h), pos)
  BY DEF Declared
<1>2. A!Declarations = DeclaredUpTo(h, Len(h))
  <2>1. DOMAIN h = 1 .. Len(h)
    BY Zenon, ListIs
  <2>2. QED
    BY Zenon, <2>1 DEF A!Declarations, A!DeclarationsOf, DeclaredUpTo
<1>3. /\ pos \in [DOMAIN variables -> A!Declarations]
      /\ \A i \in A!Declarations : \E k \in DOMAIN variables : pos[k] = i
      /\ \A k, l \in DOMAIN variables : pos[k] = pos[l] => k = l
      /\ \A k \in DOMAIN variables : variables[k] = Entry(h, pos[k])
  BY Zenon, <1>1, <1>2 DEF Lists
<1>4. \A i : /\ Entry(h, i).ident = A!NetOf(i) /\ Entry(h, i).name = h[i].name
             /\ Entry(h, i).path = A!DeclaredPath(i)
             /\ Entry(h, i).width = h[i].width /\ Entry(h, i).type = h[i].type
  BY DEF Entry, A!NetOf, A!DeclaredPath
<1>5. DOMAIN variables = 1 .. Len(variables) /\ Len(variables) \in Nat
  BY Zenon, <1>1, ListIs DEF Lists
<1>6. Listed(pos)
  <2> SUFFICES ASSUME NEW k \in DOMAIN variables
               PROVE  /\ pos[k] \in A!Declarations
                      /\ variables[k] = Entry(h, pos[k])
    BY Zenon, <1>3, <1>4, <1>5 DEF Listed
  <2>1. QED
    BY Zenon, <1>3
<1>7. QED
  BY <1>6

(* A path is not empty.                                                    *)
LEMMA PathNotEmpty ==
    ASSUME NEW h, NEW i \in Nat, i > 0
    PROVE  A!PathOf(h, i) # << >>
<1> DEFINE open == A!Ascending(A!OpenScopes(h, i - 1))
           s == [k \in DOMAIN open |-> h[open[k]].name]
<1>1. A!PathOf(h, i) = Append(s, h[i].name)
  BY Zenon DEF A!PathOf
<1>2. DOMAIN open = 1 .. A!Cardinality(A!OpenScopes(h, i - 1))
  BY Zenon DEF A!Ascending
<1>3. A!Cardinality(A!OpenScopes(h, i - 1)) \in Nat
  <2> DEFINE S == A!OpenScopes(h, i - 1)
  <2>1. i - 1 \in Nat /\ 1 \in Int /\ i - 1 \in Int
    OBVIOUS
  <2>2. S \in SUBSET (1 .. i - 1)
    BY Zenon, <2>1, OpenBefore
  <2> HIDE DEF S
  <2>3. IsFiniteSet(S)
    BY Zenon, <2>1, <2>2, FS_Interval, FS_Subset
  <2>4. Cardinality(S) \in Nat
    BY Zenon, <2>3, FS_CardinalityType
  <2>5. QED
    BY Zenon, <2>4, SameSizes DEF S
<1> HIDE DEF open
<1>4. IsList(s)
  <2>1. s = [k \in DOMAIN open |-> s[k]] /\ DOMAIN s = DOMAIN open
    OBVIOUS
  <2> HIDE DEF s
  <2>2. QED
    BY Zenon, <1>2, <1>3, <2>1, ListUpTo
<1> HIDE DEF s
<1>5. PICK X : s \in Seq(X)
  BY <1>4 DEF IsList
<1> QED
  BY <1>1, <1>5

(* A signal of the command line is found exactly when its name names one   *)
(* net of the dump, and it is that net.                                    *)
LEMMA NamesFound ==
    ASSUME NEW pos, Listed(pos), NEW spec,
           \A i \in A!Declarations : A!DeclaredPath(i) # << >>
    PROVE  /\ spec = << >> => A!Names(spec) = {} /\ A!Resolve(spec) = A!None
           /\ spec # << >> => A!Resolve(spec) =
                  IF A!Cardinality(A!Names(spec)) = 1 THEN A!NetNamed(spec)
                  ELSE "unresolved"
<1> DEFINE E == {v.ident : v \in {w \in A!ToSet(variables) : w.path = spec}}
           N == {v.ident : v \in {w \in A!ToSet(variables) : <<w.name>> = spec}}
           e == {A!NetOf(i) : i \in {j \in A!Declarations :
                                         A!DeclaredPath(j) = spec}}
           n == {A!NetOf(i) : i \in {j \in A!Declarations :
                                         <<sim.header[j].name>> = spec}}
<1>1. \A w : w \in A!ToSet(variables) <=>
                 \E k \in DOMAIN variables : w = variables[k]
  BY Zenon DEF A!ToSet
<1>2. \A x : x \in E <=> \E k \in DOMAIN variables :
                 variables[k].path = spec /\ x = variables[k].ident
  <2>1. ASSUME NEW x \in E
        PROVE  \E k \in DOMAIN variables :
                   variables[k].path = spec /\ x = variables[k].ident
    <3>1. PICK w \in A!ToSet(variables) :
              w.path = spec /\ x = w.ident
      BY Zenon
    <3>2. PICK k \in DOMAIN variables : w = variables[k]
      BY Zenon, <1>1
    <3>3. QED
      BY Zenon, <3>1, <3>2
  <2>2. ASSUME NEW k \in DOMAIN variables, variables[k].path = spec
        PROVE  variables[k].ident \in E
    <3>1. variables[k] \in A!ToSet(variables)
      BY Zenon, <1>1
    <3>2. QED
      BY Zenon, <2>2, <3>1
  <2>3. QED
    BY Zenon, <2>1, <2>2
<1>3. \A x : x \in N <=> \E k \in DOMAIN variables :
                 <<variables[k].name>> = spec /\ x = variables[k].ident
  <2>1. ASSUME NEW x \in N
        PROVE  \E k \in DOMAIN variables :
                   <<variables[k].name>> = spec /\ x = variables[k].ident
    <3>1. PICK w \in A!ToSet(variables) :
              <<w.name>> = spec /\ x = w.ident
      BY Zenon
    <3>2. PICK k \in DOMAIN variables : w = variables[k]
      BY Zenon, <1>1
    <3>3. QED
      BY Zenon, <3>1, <3>2
  <2>2. ASSUME NEW k \in DOMAIN variables, <<variables[k].name>> = spec
        PROVE  variables[k].ident \in N
    <3>1. variables[k] \in A!ToSet(variables)
      BY Zenon, <1>1
    <3>2. QED
      BY Zenon, <2>2, <3>1
  <2>3. QED
    BY Zenon, <2>1, <2>2
<1>4. \A x : x \in e <=> \E i \in A!Declarations :
                 A!DeclaredPath(i) = spec /\ x = A!NetOf(i)
  BY Zenon
<1>5. \A x : x \in n <=> \E i \in A!Declarations :
                 <<sim.header[i].name>> = spec /\ x = A!NetOf(i)
  BY Zenon
<1> HIDE DEF E, N, e, n
<1>6. E = e
  <2>1. ASSUME NEW x \in E PROVE x \in e
    <3>1. PICK k \in DOMAIN variables :
              variables[k].path = spec /\ x = variables[k].ident
      BY Zenon, <1>2, <1>3
    <3>2. /\ pos[k] \in A!Declarations /\ variables[k].ident = A!NetOf(pos[k])
          /\ variables[k].path = A!DeclaredPath(pos[k])
          /\ variables[k].name = sim.header[pos[k]].name
      BY Zenon DEF Listed
    <3>3. QED
      BY Zenon, <1>4, <1>5, <3>1, <3>2
  <2>2. ASSUME NEW x \in e PROVE x \in E
    <3>1. PICK i \in A!Declarations : A!DeclaredPath(i) = spec /\ x = A!NetOf(i)
      BY Zenon, <1>4, <1>5
    <3>2. PICK k \in DOMAIN variables : pos[k] = i
      BY Zenon DEF Listed
    <3>3. /\ variables[k].ident = A!NetOf(pos[k])
          /\ variables[k].path = A!DeclaredPath(pos[k])
          /\ variables[k].name = sim.header[pos[k]].name
      BY Zenon DEF Listed
    <3>4. variables[k].path = spec /\ x = variables[k].ident
      BY Zenon, <3>1, <3>2, <3>3
    <3>5. QED
      BY Zenon, <1>2, <1>3, <3>4
  <2>3. QED
    BY Zenon, <2>1, <2>2
<1>7. N = n
  <2>1. ASSUME NEW x \in N PROVE x \in n
    <3>1. PICK k \in DOMAIN variables :
              <<variables[k].name>> = spec /\ x = variables[k].ident
      BY Zenon, <1>2, <1>3
    <3>2. /\ pos[k] \in A!Declarations /\ variables[k].ident = A!NetOf(pos[k])
          /\ variables[k].path = A!DeclaredPath(pos[k])
          /\ variables[k].name = sim.header[pos[k]].name
      BY Zenon DEF Listed
    <3>3. QED
      BY Zenon, <1>4, <1>5, <3>1, <3>2
  <2>2. ASSUME NEW x \in n PROVE x \in N
    <3>1. PICK i \in A!Declarations :
              <<sim.header[i].name>> = spec /\ x = A!NetOf(i)
      BY Zenon, <1>4, <1>5
    <3>2. PICK k \in DOMAIN variables : pos[k] = i
      BY Zenon DEF Listed
    <3>3. /\ variables[k].ident = A!NetOf(pos[k])
          /\ variables[k].path = A!DeclaredPath(pos[k])
          /\ variables[k].name = sim.header[pos[k]].name
      BY Zenon DEF Listed
    <3>4. <<variables[k].name>> = spec /\ x = variables[k].ident
      BY Zenon, <3>1, <3>2, <3>3
    <3>5. QED
      BY Zenon, <1>2, <1>3, <3>4
  <2>3. QED
    BY Zenon, <2>1, <2>2
<1> DEFINE found == IF E # {} THEN E ELSE N
<1>8. A!Names(spec) = found
  BY Zenon, <1>6, <1>7 DEF A!Names, e, n
<1>10. A!Resolve(spec) =
           IF spec = << >> THEN A!None
           ELSE IF A!Cardinality(found) = 1 THEN CHOOSE ident \in found : TRUE
           ELSE "unresolved"
  BY Zenon DEF A!Resolve, A!NotGiven, E, N
<1>11. A!NetNamed(spec) = CHOOSE net \in A!Names(spec) : TRUE
  BY Zenon DEF A!NetNamed
<1>12. spec = << >> => found = {}
  <2> SUFFICES ASSUME spec = << >> PROVE found = {}
    OBVIOUS
  <2>1. \A x : <<x>> # << >>
    OBVIOUS
  <2>2. \A x : x \notin e /\ x \notin n
    BY Zenon, <1>4, <1>5, <2>1
  <2>3. e = {} /\ n = {}
    BY Zenon, <2>2
  <2>4. QED
    BY Zenon, <1>6, <1>7, <2>3
<1> HIDE DEF found
<1>13. QED
  BY Zenon, <1>8, <1>10, <1>11, <1>12

-----------------------------------------------------------------------------
Nets == {A!NetOf(i) : i \in A!Declarations}

(* The paths of the declarations have a rank.                              *)
LEMMA RankIs ==
    ASSUME A!AreSimulations, sim \in Simulations, NEW i \in A!Declarations
    PROVE  /\ A!Rank(A!DeclaredPath(i)) \in Nat
           /\ PathOrder[A!Rank(A!DeclaredPath(i))] = A!DeclaredPath(i)
<1>1. A!DeclaredPath(i) \in A!ToSet(PathOrder)
  BY Zenon, SimulationIs DEF A!IsDeclaration, A!DeclaredPath
<1>2. PICK r \in DOMAIN PathOrder : PathOrder[r] = A!DeclaredPath(i)
  BY Zenon, <1>1 DEF A!ToSet
<1>3. /\ A!Rank(A!DeclaredPath(i)) \in DOMAIN PathOrder
      /\ PathOrder[A!Rank(A!DeclaredPath(i))] = A!DeclaredPath(i)
  BY Zenon, <1>2 DEF A!Rank
<1>4. DOMAIN PathOrder = 1 .. Len(PathOrder) /\ Len(PathOrder) \in Nat
  BY Zenon, SimulationIs, ListIs
<1>5. QED
  BY <1>3, <1>4

(* Declarations are positions of the header, and their paths not empty.    *)
LEMMA DeclarationIs ==
    ASSUME IsList(sim.header), NEW i \in A!Declarations
    PROVE  i \in Nat /\ i > 0 /\ A!DeclaredPath(i) # << >>
<1>1. DOMAIN sim.header = 1 .. Len(sim.header) /\ Len(sim.header) \in Nat
  BY Zenon, ListIs
<1>2. i \in DOMAIN sim.header
  BY Zenon DEF A!Declarations, A!DeclarationsOf
<1>3. i \in Nat /\ i > 0
  BY <1>1, <1>2
<1>4. QED
  BY Zenon, <1>3, PathNotEmpty DEF A!DeclaredPath

(* A signal that is found is a net of the dump.                            *)
LEMMA FoundIs ==
    ASSUME A!AreSimulations, sim \in Simulations, Declared, NEW s
    PROVE  /\ A!Found(s) => /\ A!opt[s] # << >>
                            /\ A!Ident(s) = A!NetNamed(A!opt[s])
                            /\ A!Ident(s) \in Nets /\ A!Ident(s) # "unresolved"
           /\ A!opt[s] # << >> /\ ~A!Found(s) => A!Ident(s) = "unresolved"
           /\ A!opt[s] = << >> => A!Ident(s) # "unresolved"
<1>1. IsList(sim.header)
  BY Zenon, SimulationIs
<1>2. PICK pos : Listed(pos)
  BY Zenon, <1>1, ListedIs
<1>3. \A i \in A!Declarations : A!DeclaredPath(i) # << >>
  BY Zenon, <1>1, DeclarationIs
<1> DEFINE spec == A!opt[s]
<1>4. A!Found(s) <=> A!Cardinality(A!Names(spec)) = 1
  BY Zenon DEF A!Found
<1>5. A!Ident(s) = A!Resolve(spec)
  BY Zenon DEF A!Ident
<1> HIDE DEF spec
<1>6. /\ spec = << >> => A!Names(spec) = {} /\ A!Resolve(spec) = A!None
      /\ spec # << >> => A!Resolve(spec) =
             IF A!Cardinality(A!Names(spec)) = 1 THEN A!NetNamed(spec)
             ELSE "unresolved"
  BY Zenon, <1>2, <1>3, NamesFound
<1>7. A!Cardinality({}) = 0
  BY Zenon, SameSizes, FS_EmptySet
<1>8. A!None # "unresolved"
  BY DEF A!None
<1>9. ASSUME A!Cardinality(A!Names(spec)) = 1
      PROVE  A!NetNamed(spec) \in Nets /\ A!NetNamed(spec) # "unresolved"
  <2>1. A!Names(spec) # {}
    BY <1>7, <1>9
  <2>2. A!NetNamed(spec) \in A!Names(spec)
    BY Zenon, <2>1 DEF A!NetNamed
  <2>3. A!Names(spec) \subseteq Nets
    BY Zenon DEF A!Names, Nets
  <2>4. PICK i \in A!Declarations : A!NetNamed(spec) = A!NetOf(i)
    BY Zenon, <2>2, <2>3 DEF Nets
  <2>5. A!NetOf(i) # "unresolved"
    BY Zenon, SimulationIs DEF A!IsDeclaration, A!NetOf
  <2>6. QED
    BY Zenon, <2>2, <2>3, <2>4, <2>5
<1>10. spec = << >> => A!Cardinality(A!Names(spec)) # 1
  BY <1>6, <1>7
<1>11. QED
  BY Zenon, <1>4, <1>5, <1>6, <1>8, <1>9, <1>10 DEF spec

(* The variables that may be counted are the declarations that may.        *)
LEMMA EligibleIs ==
    ASSUME NEW pos, Listed(pos), A!Ident("clock") = A!NetNamed(A!opt["clock"]),
           NEW k \in DOMAIN variables
    PROVE  A!Eligible(k) <=> pos[k] \in A!Counted
<1>1. /\ pos[k] \in A!Declarations
      /\ variables[k].ident = A!NetOf(pos[k])
      /\ variables[k].path = A!DeclaredPath(pos[k])
      /\ variables[k].type = sim.header[pos[k]].type
  BY Zenon DEF Listed
<1>2. A!togglable(variables[k]) <=>
          sim.header[pos[k]].type \notin A!NON_TOGGLING_VAR_TYPES
  BY Zenon, <1>1 DEF A!togglable
<1>3. QED
  BY Zenon, <1>1, <1>2 DEF A!Eligible, A!Counted

(* One variable comes before another when its path has the lower rank, or  *)
(* the same path was declared earlier.                                     *)
Ranked(k) == A!Rank(variables[k].path)
(* The order of the selection is that of the ranks.                        *)
LEMMA BeforeIs ==
    ASSUME A!AreSimulations, sim \in Simulations, NEW pos, Listed(pos),
           NEW j \in DOMAIN variables, NEW k \in DOMAIN variables
    PROVE  /\ Ranked(k) \in Nat /\ PathOrder[Ranked(k)] = variables[k].path
           /\ A!Before(j, k) <=> \/ Ranked(j) < Ranked(k)
                                 \/ Ranked(j) = Ranked(k) /\ j < k
<1>1. /\ pos[k] \in A!Declarations /\ variables[k].path = A!DeclaredPath(pos[k])
      /\ pos[j] \in A!Declarations /\ variables[j].path = A!DeclaredPath(pos[j])
  BY Zenon DEF Listed
<1>2. /\ Ranked(k) \in Nat /\ PathOrder[Ranked(k)] = variables[k].path
      /\ Ranked(j) \in Nat /\ PathOrder[Ranked(j)] = variables[j].path
  BY Zenon, <1>1, RankIs DEF Ranked
<1>3. variables[j].path = variables[k].path <=> Ranked(j) = Ranked(k)
  BY Zenon, <1>2 DEF Ranked
<1>4. QED
  BY Zenon, <1>2, <1>3 DEF A!Before, Ranked

(* Of the variables of a net that may be counted, one comes first.         *)
LEMMA FirstExists ==
    ASSUME A!AreSimulations, sim \in Simulations, NEW pos, Listed(pos),
           NEW S, S \subseteq DOMAIN variables, S # {}
    PROVE  \E k \in S : \A j \in S : ~A!Before(j, k)
<1> DEFINE R == {Ranked(k) : k \in S}
<1>1. \A k \in S : Ranked(k) \in Nat
  BY Zenon, BeforeIs
<1>2. PICK r \in R : \A q \in R : r <= q
  <2>1. R \subseteq Nat /\ R # {}
    BY Zenon, <1>1
  <2> HIDE DEF R
  <2>2. QED
    BY Zenon, <2>1, LeastExists
<1> DEFINE F == {k \in S : Ranked(k) = r}
<1>3. PICK k \in F : \A j \in F : k <= j
  <2>1. F \subseteq Nat
    BY DEF Listed
  <2>2. F # {}
    BY Zenon, <1>2
  <2> HIDE DEF F
  <2>3. QED
    BY Zenon, <2>1, <2>2, LeastExists
<1>4. k \in S /\ Ranked(k) = r
  BY Zenon, <1>3
<1>5. ASSUME NEW j \in S PROVE ~A!Before(j, k)
  <2>1. A!Before(j, k) <=> \/ Ranked(j) < Ranked(k)
                           \/ Ranked(j) = Ranked(k) /\ j < k
    BY Zenon, <1>4, BeforeIs
  <2>2. r <= Ranked(j) /\ Ranked(j) \in Nat /\ r \in Nat
    BY Zenon, <1>1, <1>2, <1>4
  <2>3. Ranked(j) = r => k <= j
    BY Zenon, <1>3
  <2>4. j \in Nat /\ k \in Nat
    BY <1>4 DEF Listed
  <2>5. QED
    BY <1>4, <2>1, <2>2, <2>3, <2>4
<1>6. QED
  BY Zenon, <1>4, <1>5

(* The selection: one variable for each unit of the count, with the path   *)
(* that decides the unit's weight.                                         *)
Chosen(k) ==
    \A j \in DOMAIN variables :
        A!Eligible(j) /\ variables[j].ident = variables[k].ident =>
            ~A!Before(j, k)
(* One variable is selected for each unit that may be counted.             *)
LEMMA SelectionIs ==
    ASSUME A!AreSimulations, sim \in Simulations, NEW pos, Listed(pos),
           A!Ident("clock") = A!NetNamed(A!opt["clock"])
    PROVE  /\ A!select_signals \subseteq DOMAIN variables
           /\ \A k \in A!select_signals : pos[k] \in A!Counted
           /\ \A i \in A!Counted : \E k \in A!select_signals :
                  A!UnitOf(pos[k]) = A!UnitOf(i)
           /\ \A k, l \in A!select_signals :
                  A!UnitOf(pos[k]) = A!UnitOf(pos[l]) => k = l
           /\ \A k \in A!select_signals :
                  /\ A!FirstPath(A!UnitOf(pos[k])) = variables[k].path
                  /\ pos[k] \in A!UnitOf(pos[k])
                  /\ \A i \in A!UnitOf(pos[k]) :
                         i \in A!Counted /\ A!NetOf(i) = variables[k].ident
<1>1. \A k : k \in A!select_signals <=>
          k \in DOMAIN variables /\ A!Eligible(k)
              /\ (A!opt.count_aliases \/ Chosen(k))
  BY Zenon DEF A!select_signals, Chosen
<1>2. \A k \in DOMAIN variables :
          /\ A!Eligible(k) <=> pos[k] \in A!Counted
          /\ pos[k] \in A!Declarations
          /\ variables[k].ident = A!NetOf(pos[k])
          /\ variables[k].path = A!DeclaredPath(pos[k])
  BY Zenon, EligibleIs DEF Listed
<1>3. \A i \in A!Counted : i \in A!Declarations
  BY Zenon DEF A!Counted
<1>4. \A i : A!UnitOf(i) = IF A!opt.count_aliases THEN {i}
                           ELSE {j \in A!Counted : A!NetOf(j) = A!NetOf(i)}
  BY Zenon DEF A!UnitOf
<1>5. ASSUME NEW i \in A!Counted
      PROVE  \E k \in A!select_signals : A!UnitOf(pos[k]) = A!UnitOf(i)
  <2>1. PICK l \in DOMAIN variables : pos[l] = i
    BY Zenon, <1>3 DEF Listed
  <2>2. CASE A!opt.count_aliases
    BY Zenon, <1>1, <1>2, <2>1, <2>2
  <2>3. CASE ~A!opt.count_aliases
    <3> DEFINE S == {k \in DOMAIN variables :
                        A!Eligible(k) /\ variables[k].ident = A!NetOf(i)}
    <3>1. S \subseteq DOMAIN variables /\ l \in S
      BY Zenon, <1>2, <2>1
    <3>2. PICK k \in S : \A j \in S : ~A!Before(j, k)
      <4> HIDE DEF S
      <4>1. S # {}
        BY Zenon, <3>1
      <4>2. QED
        BY Zenon, <3>1, <4>1, FirstExists
    <3>3. k \in DOMAIN variables /\ A!Eligible(k)
              /\ variables[k].ident = A!NetOf(i)
      BY Zenon, <3>2
    <3>4. Chosen(k)
      BY Zenon, <3>2, <3>3 DEF Chosen
    <3>5. k \in A!select_signals /\ A!NetOf(pos[k]) = A!NetOf(i)
      BY Zenon, <1>1, <1>2, <3>3, <3>4
    <3>6. A!UnitOf(pos[k]) = A!UnitOf(i)
      BY <1>4, <2>3, <3>5
    <3>7. QED
      BY Zenon, <3>5, <3>6
  <2>4. QED
    BY Zenon, <2>2, <2>3
<1>6. ASSUME NEW k \in A!select_signals
      PROVE  /\ k \in DOMAIN variables /\ pos[k] \in A!Counted
             /\ A!Eligible(k) /\ pos[k] \in A!UnitOf(pos[k])
             /\ \A i \in A!UnitOf(pos[k]) :
                    i \in A!Counted /\ A!NetOf(i) = variables[k].ident
             /\ A!opt.count_aliases \/ Chosen(k)
  <2>1. k \in DOMAIN variables /\ A!Eligible(k) /\ pos[k] \in A!Counted
    BY Zenon, <1>1, <1>2
  <2>2. variables[k].ident = A!NetOf(pos[k])
    BY Zenon, <1>2, <2>1
  <2>3. QED
    BY Zenon, <1>1, <1>4, <2>1, <2>2
<1>7. ASSUME NEW k \in A!select_signals, NEW l \in A!select_signals,
             A!UnitOf(pos[k]) = A!UnitOf(pos[l])
      PROVE  k = l
  <2>1. CASE A!opt.count_aliases
    <3>1. pos[k] = pos[l]
      BY Zenon, <1>4, <1>7, <2>1
    <3>2. QED
      BY Zenon, <1>6, <3>1 DEF Listed
  <2>2. CASE ~A!opt.count_aliases
    <3>1. variables[k].ident = variables[l].ident
      BY Zenon, <1>6, <1>7
    <3>2. ~A!Before(k, l) /\ ~A!Before(l, k)
      BY Zenon, <1>6, <2>2, <3>1 DEF Chosen
    <3>3. k \in DOMAIN variables /\ l \in DOMAIN variables
      BY Zenon, <1>6
    <3>4. /\ Ranked(k) \in Nat /\ Ranked(l) \in Nat
          /\ A!Before(k, l) <=> \/ Ranked(k) < Ranked(l)
                                \/ Ranked(k) = Ranked(l) /\ k < l
          /\ A!Before(l, k) <=> \/ Ranked(l) < Ranked(k)
                                \/ Ranked(l) = Ranked(k) /\ l < k
      BY Zenon, <3>3, BeforeIs
    <3>5. k \in Nat /\ l \in Nat
      BY <3>3 DEF Listed
    <3>6. QED
      BY <3>2, <3>4, <3>5
  <2>3. QED
    BY Zenon, <2>1, <2>2
<1>8. ASSUME NEW k \in A!select_signals
      PROVE  A!FirstPath(A!UnitOf(pos[k])) = variables[k].path
  <2> DEFINE U == A!UnitOf(pos[k])
             R == {A!Rank(A!DeclaredPath(i)) : i \in U}
  <2>1. k \in DOMAIN variables /\ A!FirstPath(U) = PathOrder[A!Min(R)]
    BY Zenon, <1>6 DEF A!FirstPath
  <2>2. /\ Ranked(k) = A!Rank(A!DeclaredPath(pos[k])) /\ Ranked(k) \in Nat
        /\ PathOrder[Ranked(k)] = variables[k].path
    <3>1. Ranked(k) = A!Rank(A!DeclaredPath(pos[k]))
      BY Zenon, <1>2, <2>1 DEF Ranked
    <3>2. QED
      BY Zenon, <2>1, <3>1, BeforeIs
  <2>3. Ranked(k) \in R
    BY Zenon, <1>6, <2>2
  <2>4. \A r \in R : r \in Nat /\ Ranked(k) <= r
    <3> SUFFICES ASSUME NEW i \in U
                 PROVE  /\ A!Rank(A!DeclaredPath(i)) \in Nat
                        /\ Ranked(k) <= A!Rank(A!DeclaredPath(i))
      BY Zenon
    <3>1. i \in A!Counted /\ A!NetOf(i) = variables[k].ident
      BY Zenon, <1>6
    <3>2. PICK j \in DOMAIN variables : pos[j] = i
      BY Zenon, <1>3, <3>1 DEF Listed
    <3>3. /\ A!Eligible(j) /\ variables[j].ident = variables[k].ident
          /\ Ranked(j) = A!Rank(A!DeclaredPath(i)) /\ Ranked(j) \in Nat
      <4>1. A!Eligible(j) /\ variables[j].ident = variables[k].ident
        BY Zenon, <1>2, <3>1, <3>2
      <4>2. Ranked(j) = A!Rank(A!DeclaredPath(i))
        BY Zenon, <1>2, <3>2 DEF Ranked
      <4>3. QED
        BY Zenon, <4>1, <4>2, BeforeIs
    <3>4. CASE A!opt.count_aliases
      <4>1. i = pos[k]
        BY Zenon, <1>4, <3>4
      <4>2. Ranked(k) = A!Rank(A!DeclaredPath(i))
        BY Zenon, <2>2, <4>1
      <4>3. QED
        BY <2>2, <4>2
    <3>5. CASE ~A!opt.count_aliases
      <4>1. ~A!Before(j, k)
        BY Zenon, <1>6, <3>3, <3>5 DEF Chosen
      <4>2. ~(Ranked(j) < Ranked(k))
        BY Zenon, <2>1, <4>1, BeforeIs
      <4>3. QED
        BY <2>2, <3>3, <4>2
    <3>6. QED
      BY Zenon, <3>4, <3>5
  <2> HIDE DEF R
  <2>5. A!Min(R) = Ranked(k)
    <3>1. \A y \in R : Ranked(k) <= y
      BY Zenon, <2>4
    <3>2. ASSUME NEW m \in R, \A y \in R : m <= y
          PROVE  m = Ranked(k)
      <4>1. m <= Ranked(k) /\ Ranked(k) <= m /\ m \in Nat
        BY Zenon, <2>3, <2>4, <3>2
      <4>2. QED
        BY <2>2, <4>1
    <3>3. QED
      BY Zenon, <2>3, <3>1, <3>2 DEF A!Min
  <2>6. QED
    BY Zenon, <2>1, <2>2, <2>5
<1>9. QED
  BY Zenon, <1>1, <1>5, <1>6, <1>7, <1>8

-----------------------------------------------------------------------------
(* The sums of the conversion are those of the assessment.                 *)
LEMMA SameSums ==
    ASSUME NEW f, NEW n \in Nat
    PROVE  /\ A!SumTo(f, n) = A!PartialSums(f, n)[n]
           /\ Accumulates(A!PartialSums(f, n), f, n)
<1>1. A!PartialSums(f, n) = T!PartialSums(f, n)
  BY Zenon DEF A!PartialSums, T!PartialSums
<1>2. QED
  BY Zenon, <1>1, PartialSumsExist DEF A!SumTo

(* Disjoint sets have together as many elements as the sum of their sizes. *)
LEMMA SumOfSizes ==
    ASSUME NEW n \in Nat, NEW P, NEW f,
           \A k \in 1 .. n : IsFiniteSet(P[k]) /\ f[k] = Cardinality(P[k]),
           \A k, l \in 1 .. n : k # l => P[k] \cap P[l] = {}
    PROVE  Cardinality(UNION {P[k] : k \in 1 .. n}) = A!SumTo(f, n)
<1> DEFINE s == A!PartialSums(f, n)
           Up(m) == UNION {P[k] : k \in 1 .. m}
           G == {m \in 0 .. n : IsFiniteSet(Up(m)) /\ Cardinality(Up(m)) = s[m]}
<1>1. /\ A!SumTo(f, n) = s[n] /\ s[0] = 0
      /\ \A k \in 1 .. n : s[k] = s[k - 1] + f[k]
  BY Zenon, SameSums DEF Accumulates
<1> HIDE DEF s
<1>2. 0 \in G
  <2>1. Up(0) = {}
    OBVIOUS
  <2> HIDE DEF Up
  <2>2. IsFiniteSet(Up(0)) /\ Cardinality(Up(0)) = s[0] /\ 0 \in 0 .. n
    BY <1>1, <2>1, FS_EmptySet
  <2>3. QED
    BY Zenon, <2>2
<1>3. ASSUME NEW m \in 0 .. (n - 1), m \in G
      PROVE  m + 1 \in G
  <2>1. m + 1 \in 1 .. n /\ m + 1 \in 0 .. n /\ (m + 1) - 1 = m
    OBVIOUS
  <2>2. Up(m + 1) = Up(m) \cup P[m + 1]
    <3>1. \A k : k \in 1 .. m + 1 <=> k \in 1 .. m \/ k = m + 1
      OBVIOUS
    <3>2. \A x : x \in Up(m + 1) <=> \E k \in 1 .. m + 1 : x \in P[k]
      BY Zenon
    <3>3. \A x : x \in Up(m) <=> \E k \in 1 .. m : x \in P[k]
      BY Zenon
    <3> HIDE DEF Up
    <3>4. QED
      BY Zenon, <3>1, <3>2, <3>3
  <2>3. Up(m) \cap P[m + 1] = {}
    <3> SUFFICES ASSUME NEW k \in 1 .. m PROVE P[k] \cap P[m + 1] = {}
      BY Zenon
    <3>1. k \in 1 .. n /\ m + 1 \in 1 .. n /\ k # m + 1
      OBVIOUS
    <3>2. QED
      BY Zenon, <3>1
  <2>4. IsFiniteSet(Up(m)) /\ Cardinality(Up(m)) = s[m]
    BY Zenon, <1>3
  <2> HIDE DEF Up
  <2> DEFINE U == Up(m)
             Q == P[m + 1]
  <2>5. /\ IsFiniteSet(Q) /\ f[m + 1] = Cardinality(Q)
        /\ s[m + 1] = s[m] + f[m + 1]
    BY Zenon, <1>1, <2>1
  <2>6. Cardinality(Q) \in Nat /\ Cardinality(U) \in Nat
    BY Zenon, <2>4, <2>5, FS_CardinalityType
  <2>7. /\ IsFiniteSet(U \cup Q)
        /\ Cardinality(U \cup Q) = Cardinality(U) + Cardinality(Q)
                                       - Cardinality(U \cap Q)
    BY Zenon, <2>4, <2>5, FS_Union
  <2>8. Cardinality(U \cap Q) = 0
    BY Zenon, <2>3, FS_EmptySet
  <2> DEFINE c == Cardinality(U \cup Q)
             u == Cardinality(U)
             q == Cardinality(Q)
             i == Cardinality(U \cap Q)
  <2>9. c = u + q - i /\ i = 0 /\ u \in Nat /\ q \in Nat /\ u = s[m]
        /\ s[m + 1] = s[m] + q
    BY Zenon, <2>4, <2>5, <2>6, <2>7, <2>8
  <2> HIDE DEF c, u, q, i
  <2>10. c = s[m + 1]
    BY <2>9
  <2>11. QED
    BY Zenon, <2>1, <2>2, <2>7, <2>10 DEF c
<1>4. n \in G
  <2>1. n \in 0 .. n
    OBVIOUS
  <2> HIDE DEF G
  <2>2. QED
    BY <1>2, <1>3, <2>1, UpTo
<1>5. QED
  BY Zenon, <1>1, <1>4

(* The triples of one thing, n numbers and w copies.                       *)
LEMMA TripleSize ==
    ASSUME NEW u, NEW D, IsFiniteSet(D), NEW w \in Nat
    PROVE  /\ IsFiniteSet({u} \X D \X (1 .. w))
           /\ Cardinality({u} \X D \X (1 .. w)) = w * Cardinality(D)
<1> DEFINE S == D \X (1 .. w)
           X == {u} \X D \X (1 .. w)
           f == [p \in S |-> <<u, p[1], p[2]>>]
<1>1. IsFiniteSet(1 .. w) /\ Cardinality(1 .. w) = w
  BY FS_Interval
<1>2. IsFiniteSet(S) /\ Cardinality(S) = Cardinality(D) * w
  BY Zenon, <1>1, FS_Product
<1>3. Cardinality(D) \in Nat
  BY Zenon, FS_CardinalityType
<1>4. f \in [S -> X]
  OBVIOUS
<1>5. \A x \in X : \E p \in S : f[p] = x
  <2> SUFFICES ASSUME NEW x \in X PROVE \E p \in S : f[p] = x
    OBVIOUS
  <2>1. <<x[2], x[3]>> \in S /\ x = <<u, x[2], x[3]>>
    OBVIOUS
  <2>2. f[<<x[2], x[3]>>] = x
    BY <2>1
  <2>3. QED
    BY <2>1, <2>2
<1>6. \A p, r \in S : f[p] = f[r] => p = r
  <2> SUFFICES ASSUME NEW p \in S, NEW r \in S, f[p] = f[r] PROVE p = r
    OBVIOUS
  <2>1. p = <<p[1], p[2]>> /\ r = <<r[1], r[2]>>
    OBVIOUS
  <2>2. p[1] = r[1] /\ p[2] = r[2]
    OBVIOUS
  <2>3. QED
    BY <2>1, <2>2
<1> HIDE DEF S, X, f
<1>7. IsFiniteSet(X) /\ Cardinality(X) = Cardinality(S)
  BY Zenon, <1>2, <1>4, <1>5, <1>6, MappedSize
<1> DEFINE d == Cardinality(D)
<1>8. d * w = w * d
  <2> HIDE DEF d
  <2>1. QED
    BY <1>3 DEF d
<1>9. QED
  BY Zenon, <1>2, <1>7, <1>8 DEF X
-----------------------------------------------------------------------------
(* The distance of two bit strings of one length.                          *)
LEMMA NormalIs ==
    ASSUME NEW text, IsList(text), Len(text) > 0
    PROVE  A!_normalise_vector(text, Len(text)) = text
<1>1. PICK X : text \in Seq(X)
  BY DEF IsList
<1> DEFINE w == Len(text)
           fill == IF Head(text) \in {"x", "z"} THEN Head(text) ELSE "0"
           e == [i \in 1 .. w - w |-> fill]
<1>2. text # << >> /\ w \in Nat /\ ~(w > w)
  BY <1>1
<1>3. A!_normalise_vector(text, w) = e \o text
  BY <1>2 DEF A!_normalise_vector
<1>4. e = << >>
  <2> HIDE DEF fill
  <2>1. w - w = 0
    BY <1>2
  <2>2. QED
    BY <2>1
<1> HIDE DEF e
<1>5. QED
  BY <1>1, <1>3, <1>4

(* The Hamming distance of two values of the same width.                   *)
LEMMA HammingIs ==
    ASSUME NEW p, NEW c, IsList(p), IsList(c), Len(p) > 0, Len(c) = Len(p),
           NEW D, \A i : i \in D <=> i \in 1 .. Len(p) /\ p[i] # c[i]
    PROVE  A!hamming_distance(p, c) = Cardinality(D)
<1> DEFINE w == Len(p)
<1>1. A!Max({Len(p), Len(c)}) = w
  <2>1. w \in Nat
    BY ListIs
  <2> HIDE DEF w
  <2>2. {w, w} = {w} /\ w >= w
    BY <2>1
  <2>3. A!Max({w}) = w
    BY <2>2 DEF A!Max
  <2>4. QED
    BY <2>2, <2>3 DEF w
<1>2. A!_normalise_vector(p, w) = p
  BY Zenon, NormalIs
<1>3. A!_normalise_vector(c, w) = c
  BY Zenon, NormalIs
<1>4. A!hamming_distance(p, c) = A!Cardinality({i \in 1 .. w : p[i] # c[i]})
  BY Zenon, <1>1, <1>2, <1>3 DEF A!hamming_distance
<1>5. D = {i \in 1 .. w : p[i] # c[i]}
  BY Zenon
<1>6. QED
  BY Zenon, <1>4, <1>5, SameSizes

(* A set of numbers up to n has a largest.                                 *)
LEMMA LargestIs ==
    ASSUME NEW n \in Nat, NEW m, m \subseteq 0 .. n, m # {}
    PROVE  A!Max(m) \in m /\ \A y \in m : A!Max(m) >= y
<1> DEFINE D == {d \in Nat : \E k \in m : d = n - k}
<1>1. D \subseteq Nat /\ D # {}
  <2>1. PICK k \in m : TRUE
    OBVIOUS
  <2>2. n - k \in D
    OBVIOUS
  <2>3. QED
    BY <2>2
<1>2. PICK d \in D : \A e \in D : d <= e
  <2> HIDE DEF D
  <2>1. QED
    BY Zenon, <1>1, LeastExists
<1>3. PICK k \in m : d = n - k
  BY <1>2
<1>4. \A j \in m : k >= j
  <2> SUFFICES ASSUME NEW j \in m PROVE k >= j
    OBVIOUS
  <2>1. n - j \in D
    OBVIOUS
  <2>2. d <= n - j
    BY <1>2, <2>1
  <2>3. QED
    BY <1>3, <2>2
<1>5. QED
  BY Zenon, <1>4 DEF A!Max

(* The weight of a path is a number.                                       *)
LEMMA WeightIs ==
    ASSUME A!IsCommand(A!opt), NEW path
    PROVE  A!Weight(path) \in Nat
<1> DEFINE m == {k \in DOMAIN A!opt.weights : path \in A!opt.weights[k].paths}
           n == Len(A!opt.weights)
<1>1. IsList(A!opt.weights)
          /\ \A k \in DOMAIN A!opt.weights : A!opt.weights[k].factor \in Nat
  BY Zenon DEF A!IsCommand, A!IsSequence, IsList
<1>2. n \in Nat /\ DOMAIN A!opt.weights = 1 .. n
  BY Zenon, <1>1, ListIs
<1>3. A!Weight(path) = IF m = {} THEN 1 ELSE A!opt.weights[A!Max(m)].factor
  BY Zenon DEF A!Weight
<1>4. m \subseteq 0 .. n /\ m \subseteq DOMAIN A!opt.weights
  BY <1>2
<1> HIDE DEF m, n
<1>5. m # {} => A!Max(m) \in m
  BY Zenon, <1>2, <1>4, LargestIs
<1>6. CASE m = {}
  BY <1>3, <1>6
<1>7. CASE m # {}
  BY Zenon, <1>1, <1>3, <1>4, <1>5, <1>7
<1>8. QED
  BY <1>6, <1>7

-----------------------------------------------------------------------------
(* A net has the width that each of its declarations gives, in the dump    *)
(* and in the parser's table.                                              *)
LEMMA WidthIs ==
    ASSUME A!AreSimulations, sim \in Simulations, NEW i \in A!Declarations
    PROVE  /\ A!WidthOf(A!NetOf(i)) = sim.header[i].width
           /\ A!WidthOf(A!NetOf(i)) \in Nat \ {0}
<1> DEFINE j == CHOOSE k \in A!Declarations : A!NetOf(k) = A!NetOf(i)
<1>1. j \in A!Declarations /\ A!NetOf(j) = A!NetOf(i)
  BY Zenon
<1>2. A!WidthOf(A!NetOf(i)) = sim.header[j].width
  BY Zenon DEF A!WidthOf
<1> HIDE DEF j
<1>3. A!IsDeclaration(sim.header, i) /\ i \in A!DeclarationsOf(sim.header)
  BY Zenon, SimulationIs DEF A!Declarations
<1>4. A!IsDeclaration(sim.header, j)
          /\ sim.header[j].ident = sim.header[i].ident
  BY Zenon, <1>1, SimulationIs DEF A!NetOf
<1>5. QED
  BY Zenon, <1>2, <1>3, <1>4 DEF A!IsDeclaration

(* The parser knows the width of a declared net.                           *)
LEMMA WidthsAre ==
    ASSUME A!AreSimulations, sim \in Simulations, NEW pos, Listed(pos),
           NEW net \in Nets
    PROVE  A!widths(net) = A!WidthOf(net)
<1> DEFINE of == {i \in DOMAIN variables : variables[i].ident = net}
<1>1. PICK i \in A!Declarations : net = A!NetOf(i)
  BY Zenon DEF Nets
<1>2. PICK k \in DOMAIN variables : pos[k] = i
  BY Zenon DEF Listed
<1>3. k \in of
  BY Zenon, <1>1, <1>2 DEF Listed
<1>4. A!widths(net) = IF of = {} THEN 0 ELSE variables[A!Min(of)].width
  BY Zenon DEF A!widths
<1>5. A!Min(of) \in of
  <2>1. of \subseteq Nat /\ of # {}
    BY <1>3 DEF Listed
  <2> HIDE DEF of
  <2>2. \E x \in of : \A y \in of : x <= y
    BY Zenon, <2>1, LeastExists
  <2>3. QED
    BY Zenon, <2>2 DEF A!Min
<1> DEFINE m == A!Min(of)
<1>6. m \in DOMAIN variables /\ variables[m].ident = net
  BY Zenon, <1>5
<1>7. A!widths(net) = variables[m].width
  BY Zenon, <1>3, <1>4
<1> HIDE DEF m
<1>8. /\ pos[m] \in A!Declarations /\ A!NetOf(pos[m]) = net
      /\ variables[m].width = sim.header[pos[m]].width
  BY Zenon, <1>6 DEF Listed
<1>9. QED
  BY Zenon, <1>7, <1>8, WidthIs

(* It knows none of a net that is not declared.                            *)
LEMMA WidthsNone ==
    ASSUME NEW pos, Listed(pos), NEW net, net \notin Nets
    PROVE  A!widths(net) = 0
<1>1. ASSUME NEW k \in DOMAIN variables
      PROVE  variables[k].ident # net
  <2>1. pos[k] \in A!Declarations /\ variables[k].ident = A!NetOf(pos[k])
    BY Zenon DEF Listed
  <2>2. QED
    BY Zenon, <2>1 DEF Nets
<1>2. {i \in DOMAIN variables : variables[i].ident = net} = {}
  BY Zenon, <1>1
<1>3. QED
  BY Zenon, <1>2 DEF A!widths

(* Two sequences make a third when they hold what it holds.                *)
LEMMA JoinIs ==
    ASSUME NEW s, NEW t, NEW v, IsList(s), IsList(t), IsList(v),
           Len(v) = Len(s) + Len(t),
           \A i \in 1 .. Len(s) : s[i] = v[i],
           \A i \in 1 .. Len(t) : t[i] = v[Len(s) + i]
    PROVE  s \o t = v
<1>1. PICK S, X, V : s \in Seq(S) /\ t \in Seq(X) /\ v \in Seq(V)
  BY DEF IsList
<1> DEFINE U == S \cup X \cup V
           c == s \o t
<1>2. s \in Seq(U) /\ t \in Seq(U) /\ v \in Seq(U)
  BY <1>1
<1> HIDE DEF U
<1>3. c \in Seq(U) /\ Len(c) = Len(v) /\ Len(v) \in Nat /\ Len(s) \in Nat
  BY <1>2
<1>4. ASSUME NEW i \in 1 .. Len(v)
      PROVE  c[i] = v[i]
  <2>1. CASE i <= Len(s)
    BY <1>2, <2>1
  <2>2. CASE ~(i <= Len(s))
    <3>1. c[i] = t[i - Len(s)]
      BY <1>2, <2>2
    <3>2. i - Len(s) \in 1 .. Len(t) /\ Len(s) + (i - Len(s)) = i
      BY <1>2, <2>2
    <3>3. QED
      BY <3>1, <3>2
  <2>3. QED
    BY <2>1, <2>2
<1> HIDE DEF c
<1>5. c = v
  BY <1>2, <1>3, <1>4
<1>6. QED
  BY <1>5 DEF c

(* The value a literal stands for is what the parser records for it.       *)
LEMMA AbbreviationIs ==
    ASSUME NEW text, NEW value, A!Abbreviates(text, value)
    PROVE  A!_normalise_vector(text, Len(value)) = value
<1> DEFINE w == Len(value)
           n == Len(text)
<1>1. /\ IsList(text) /\ IsList(value) /\ text # << >> /\ w - n >= 0
      /\ \A i \in 1 .. n : value[(w - n) + i] = text[i]
      /\ \A i \in 1 .. w - n :
             value[i] = IF text[1] \in {"x", "z"} THEN text[1] ELSE "0"
  BY Zenon DEF A!Abbreviates, A!IsSequence, IsList
<1>2. PICK X, Y : text \in Seq(X) /\ value \in Seq(Y)
  BY <1>1 DEF IsList
<1>3. w \in Nat /\ n \in Nat /\ n > 0 /\ ~(n > w) /\ Head(text) = text[1]
  BY <1>1, <1>2
<1> DEFINE fill == IF Head(text) \in {"x", "z"} THEN Head(text) ELSE "0"
           e == [i \in 1 .. w - n |-> fill]
<1>4. A!_normalise_vector(text, w) = e \o text
  BY Zenon, <1>1, <1>3 DEF A!_normalise_vector
<1>5. IsList(e) /\ Len(e) = w - n /\ \A i \in 1 .. w - n : e[i] = fill
  <2> HIDE DEF fill
  <2>1. DOMAIN e = 1 .. w - n /\ e = [k \in 1 .. w - n |-> e[k]]
            /\ w - n \in Nat
    BY <1>3
  <2>2. \A i \in 1 .. w - n : e[i] = fill
    OBVIOUS
  <2> HIDE DEF e, w, n
  <2>3. QED
    BY Zenon, <2>1, <2>2, ListUpTo
<1>6. \A i \in 1 .. w - n : e[i] = value[i]
  BY Zenon, <1>1, <1>3, <1>5
<1> HIDE DEF e, fill
<1>7. w = Len(e) + n
  BY <1>3, <1>5
<1>8. e \o text = value
  <2>1. /\ \A i \in 1 .. Len(e) : e[i] = value[i]
        /\ \A i \in 1 .. n : text[i] = value[Len(e) + i]
    BY <1>1, <1>3, <1>5, <1>6
  <2>2. QED
    BY Zenon, <1>1, <1>5, <1>7, <2>1, JoinIs
<1>9. QED
  BY Zenon, <1>4, <1>8

(* What a counted net holds is as wide as the net.                         *)
Countable(net) ==
    \E i \in A!Declarations :
        A!NetOf(i) = net /\ sim.header[i].type \notin A!NON_TOGGLING_VAR_TYPES
Fits(net, v) == Countable(net) => IsList(v) /\ Len(v) = A!WidthOf(net)

(* The values of the selected signals just before a time, and the toggles  *)
(* between two times.                                                      *)
Shot(t) == [i \in A!select_signals |-> A!ValueAt(variables[i].ident, t)]
Fitting(t) == \A net \in Nets : Fits(net, A!ValueAt(net, t))

(* A selected signal is a net that may be counted, and has its width.      *)
LEMMA SignalIs ==
    ASSUME A!AreSimulations, sim \in Simulations, NEW pos, Listed(pos),
           A!Ident("clock") = A!NetNamed(A!opt["clock"]),
           NEW k \in A!select_signals
    PROVE  /\ k \in DOMAIN variables /\ variables[k].ident \in Nets
           /\ Countable(variables[k].ident)
           /\ variables[k].width = A!WidthOf(variables[k].ident)
           /\ A!WidthOf(variables[k].ident) \in Nat \ {0}
           /\ \A a, b, i : i \in A!Switches(A!UnitOf(pos[k]), a, b) <=>
                  /\ i \in 1 .. A!WidthOf(variables[k].ident)
                  /\ A!ValueAt(variables[k].ident, a)[i]
                         # A!ValueAt(variables[k].ident, b)[i]
<1>1. /\ A!select_signals \subseteq DOMAIN variables
      /\ pos[k] \in A!Counted /\ pos[k] \in A!UnitOf(pos[k])
      /\ \A i \in A!UnitOf(pos[k]) : A!NetOf(i) = variables[k].ident
  BY Zenon, SelectionIs
<1>2. k \in DOMAIN variables
  BY Zenon, <1>1
<1>3. /\ pos[k] \in A!Declarations /\ variables[k].ident = A!NetOf(pos[k])
      /\ variables[k].width = sim.header[pos[k]].width
  BY Zenon, <1>2 DEF Listed
<1>4. sim.header[pos[k]].type \notin A!NON_TOGGLING_VAR_TYPES
  BY Zenon, <1>1 DEF A!Counted
<1>5. /\ A!WidthOf(variables[k].ident) = variables[k].width
      /\ A!WidthOf(variables[k].ident) \in Nat \ {0}
  BY Zenon, <1>3, WidthIs
<1>6. A!NetOf(CHOOSE i \in A!UnitOf(pos[k]) : TRUE) = variables[k].ident
  BY Zenon, <1>1
<1>7. ASSUME NEW a, NEW b, NEW i
      PROVE  i \in A!Switches(A!UnitOf(pos[k]), a, b) <=>
                 /\ i \in 1 .. A!WidthOf(variables[k].ident)
                 /\ A!ValueAt(variables[k].ident, a)[i]
                        # A!ValueAt(variables[k].ident, b)[i]
  BY Zenon, <1>6 DEF A!Switches
<1>8. QED
  BY Zenon, <1>2, <1>3, <1>4, <1>5, <1>7 DEF Nets, Countable

(* The toggles of the tool are the switches of the waveform.               *)
LEMMA TogglesAre ==
    ASSUME A!AreSimulations, sim \in Simulations, NEW pos, Listed(pos),
           A!Ident("clock") = A!NetNamed(A!opt["clock"]),
           NEW a, NEW b, Fitting(a), Fitting(b)
    PROVE  A!Toggles(Shot(a), Shot(b)) = A!Switched(a, b)
<1> DEFINE n == Len(variables)
           S == A!select_signals
           U(k) == A!UnitOf(pos[k])
           W(k) == A!Weight(variables[k].path)
           D(k) == A!Switches(U(k), a, b)
           Q(k) == {U(k)} \X D(k) \X (1 .. W(k))
           P == [k \in 1 .. n |-> IF k \in S THEN Q(k) ELSE {}]
           f == [i \in DOMAIN variables |->
                    IF i \in S
                    THEN W(i) * A!hamming_distance(Shot(a)[i], Shot(b)[i])
                    ELSE 0]
<1>1. n \in Nat /\ DOMAIN variables = 1 .. n
  BY DEF Listed
<1>2. A!Toggles(Shot(a), Shot(b)) = A!SumTo(f, n)
  BY Zenon DEF A!Toggles
<1>3. \A k \in S : k \in 1 .. n
  BY Zenon, <1>1, SignalIs
<1>4. ASSUME NEW k \in S
      PROVE  /\ IsFiniteSet(D(k)) /\ W(k) \in Nat
             /\ A!hamming_distance(Shot(a)[k], Shot(b)[k]) = Cardinality(D(k))
  <2> DEFINE net == variables[k].ident
             w == A!WidthOf(net)
             p == A!ValueAt(net, a)
             c == A!ValueAt(net, b)
  <2>1. /\ net \in Nets /\ Countable(net) /\ w \in Nat \ {0}
        /\ \A i : i \in D(k) <=> i \in 1 .. w /\ p[i] # c[i]
    BY Zenon, SignalIs
  <2>2. Shot(a)[k] = p /\ Shot(b)[k] = c
    BY DEF Shot
  <2>3. IsList(p) /\ IsList(c) /\ Len(p) = w /\ Len(c) = w
    BY Zenon, <2>1 DEF Fitting, Fits
  <2> HIDE DEF net, w, p, c, D
  <2>4. A!hamming_distance(p, c) = Cardinality(D(k))
    <3>1. /\ Len(p) > 0 /\ Len(c) = Len(p)
          /\ \A i : i \in D(k) <=> i \in 1 .. Len(p) /\ p[i] # c[i]
      BY <2>1, <2>3
    <3> DEFINE E == D(k)
    <3>2. \A i : i \in E <=> i \in 1 .. Len(p) /\ p[i] # c[i]
      BY Zenon, <3>1
    <3>3. Len(p) > 0 /\ Len(c) = Len(p)
      BY Zenon, <3>1
    <3> HIDE DEF E
    <3>4. A!hamming_distance(p, c) = Cardinality(E)
      BY SMTT(20), <2>3, <3>2, <3>3, HammingIs
    <3>5. QED
      BY Zenon, <3>4 DEF E
  <2>5. IsFiniteSet(D(k))
    <3>1. w \in Int /\ 1 \in Int
      BY <2>1
    <3>2. IsFiniteSet(1 .. w)
      BY Zenon, <3>1, FS_Interval
    <3>3. D(k) \in SUBSET (1 .. w)
      BY <2>1
    <3>4. QED
      BY Zenon, <3>2, <3>3, FS_Subset
  <2>6. W(k) \in Nat
    BY Zenon, WeightIs, SimulationIs
  <2>7. QED
    BY Zenon, <2>1, <2>2, <2>4, <2>5, <2>6
<1>5. ASSUME NEW k \in S
      PROVE  IsFiniteSet(Q(k)) /\ f[k] = Cardinality(Q(k))
  <2>1. f[k] = W(k) * A!hamming_distance(Shot(a)[k], Shot(b)[k])
    <3>1. k \in DOMAIN variables
      BY Zenon, <1>1, <1>3
    <3>2. QED
      BY Zenon, <3>1
  <2> HIDE DEF f, D, W, U
  <2>2. IsFiniteSet(D(k)) /\ W(k) \in Nat /\ f[k] = W(k) * Cardinality(D(k))
    BY Zenon, <1>4, <2>1
  <2>3. IsFiniteSet(Q(k)) /\ Cardinality(Q(k)) = W(k) * Cardinality(D(k))
    BY Zenon, <2>2, TripleSize
  <2>4. QED
    BY Zenon, <2>2, <2>3
<1> HIDE DEF Q
<1>6. \A k \in 1 .. n : IsFiniteSet(P[k]) /\ f[k] = Cardinality(P[k])
  <2> SUFFICES ASSUME NEW k \in 1 .. n
               PROVE  IsFiniteSet(P[k]) /\ f[k] = Cardinality(P[k])
    OBVIOUS
  <2>1. CASE k \in S
    <3>1. P[k] = Q(k)
      BY Zenon, <2>1
    <3> HIDE DEF P, f
    <3>2. QED
      BY Zenon, <1>5, <2>1, <3>1
  <2>2. CASE k \notin S
    <3>1. P[k] = {}
      BY Zenon, <2>2
    <3>2. f[k] = 0
      BY Zenon, <1>1, <2>2
    <3> HIDE DEF P, f
    <3>3. QED
      BY Zenon, <3>1, <3>2, FS_EmptySet
  <2>3. QED
    BY Zenon, <2>1, <2>2
<1>7. \A k \in S : \A x \in Q(k) : x[1] = U(k)
  BY DEF Q
<1>8. \A k, l \in 1 .. n : k # l => P[k] \cap P[l] = {}
  <2> SUFFICES ASSUME NEW k \in 1 .. n, NEW l \in 1 .. n, k # l,
                      NEW x, x \in P[k], x \in P[l]
               PROVE  FALSE
    BY Zenon
  <2>1. k \in S /\ l \in S /\ x \in Q(k) /\ x \in Q(l)
    <3> HIDE DEF Q, S
    <3>1. QED
      OBVIOUS
  <2>2. U(k) = U(l)
    BY Zenon, <1>7, <2>1
  <2>3. k = l
    BY Zenon, <2>1, <2>2, SelectionIs
  <2>4. QED
    BY Zenon, <2>3
<1>9. Cardinality(UNION {P[k] : k \in 1 .. n}) = A!SumTo(f, n)
  <2> HIDE DEF P, f, n
  <2>1. QED
    BY Zenon, <1>1, <1>6, <1>8, SumOfSizes
<1> DEFINE V(unit) == {unit} \X A!Switches(unit, a, b)
                             \X (1 .. A!Weight(A!FirstPath(unit)))
<1>10. \A k \in S : V(U(k)) = Q(k)
  <2> SUFFICES ASSUME NEW k \in S PROVE V(U(k)) = Q(k)
    OBVIOUS
  <2>1. A!FirstPath(U(k)) = variables[k].path
    BY Zenon, SelectionIs
  <2>2. QED
    BY Zenon, <2>1 DEF Q
<1>11. \A unit : unit \in A!Units <=> \E k \in S : unit = U(k)
  <2>1. \A unit : unit \in A!Units <=> \E i \in A!Counted : unit = A!UnitOf(i)
    BY Zenon DEF A!Units
  <2>2. /\ \A i \in A!Counted : \E k \in S : A!UnitOf(pos[k]) = A!UnitOf(i)
        /\ \A k \in S : pos[k] \in A!Counted
    BY Zenon, SelectionIs
  <2>3. QED
    BY Zenon, <2>1, <2>2
<1>12. UNION {V(unit) : unit \in A!Units} = UNION {P[k] : k \in 1 .. n}
  <2>1. ASSUME NEW unit \in A!Units, NEW x \in V(unit)
        PROVE  \E k \in 1 .. n : x \in P[k]
    <3>1. PICK k \in S : unit = U(k)
      BY Zenon, <1>11
    <3> HIDE DEF V, U
    <3>2. k \in 1 .. n /\ x \in Q(k)
      BY Zenon, <1>3, <1>10, <3>1
    <3>3. QED
      BY Zenon, <3>1, <3>2
  <2>2. ASSUME NEW k \in 1 .. n, NEW x \in P[k]
        PROVE  \E unit \in A!Units : x \in V(unit)
    <3>1. k \in S /\ x \in Q(k)
      <4> HIDE DEF Q, S
      <4>1. QED
        OBVIOUS
    <3>2. U(k) \in A!Units
      BY Zenon, <1>11, <3>1
    <3> HIDE DEF V, U
    <3>3. x \in V(U(k))
      BY Zenon, <1>10, <3>1
    <3>4. QED
      BY Zenon, <3>2, <3>3
  <2> DEFINE X == UNION {V(unit) : unit \in A!Units}
             Y == UNION {P[k] : k \in 1 .. n}
  <2>3. \A x : x \in X <=> \E unit \in A!Units : x \in V(unit)
    BY Zenon
  <2>4. \A x : x \in Y <=> \E k \in 1 .. n : x \in P[k]
    BY Zenon
  <2> HIDE DEF V, P, n, X, Y
  <2>5. X = Y
    BY Zenon, <2>1, <2>2, <2>3, <2>4
  <2>6. QED
    BY Zenon, <2>5 DEF X, Y
<1>13. A!Switched(a, b) = A!Cardinality(UNION {V(unit) : unit \in A!Units})
  BY Zenon DEF A!Switched
<1> HIDE DEF V, P, f, n
<1>14. QED
  BY Zenon, <1>2, <1>9, <1>12, <1>13, SameSizes

-----------------------------------------------------------------------------
(* The blocks of the parser and the waveform agree: the times of the       *)
(* blocks ascend to that of the dump, and a block holds the changes of its *)
(* time, each the value that its net took.                                 *)
Same(net, c, v) ==
    /\ net \in DOMAIN c <=> net \in DOMAIN v
    /\ net \in DOMAIN c => c[net] = v[net] /\ Fits(net, v[net])
IsBlock(b) == b = [time |-> b.time, changes |-> b.changes]
Blocked(bs, now, w) ==
    /\ IsList(bs) /\ Len(bs) > 0 /\ bs[1].time = 0 /\ bs[Len(bs)].time = now
    /\ DOMAIN w = Times
    /\ \A k \in 1 .. Len(bs) : IsBlock(bs[k]) /\ bs[k].time \in Times
    /\ \A j, k \in 1 .. Len(bs) : j < k => bs[j].time < bs[k].time
    /\ \A t \in Times, net \in Nets :
           net \in DOMAIN w[t] => \E k \in 1 .. Len(bs) : bs[k].time = t
    /\ \A k \in 1 .. Len(bs), net \in Nets :
           Same(net, bs[k].changes, w[bs[k].time])

(* An empty dump has one block, at time 0.                                 *)
LEMMA BlockStarts ==
    ASSUME 0 \in Times
    PROVE  Blocked(<<[time |-> 0, changes |-> << >>]>>, 0,
                   [t \in Times |-> << >>])
<1> DEFINE e == [time |-> 0, changes |-> << >>]
           bs == <<e>>
           w == [t \in Times |-> << >>]
<1>1. e.time = 0 /\ e.changes = << >> /\ IsBlock(e)
  BY DEF IsBlock
<1> HIDE DEF e
<1>2. bs \in Seq({e}) /\ Len(bs) = 1 /\ bs[1] = e
  OBVIOUS
<1>3. IsList(bs)
  BY Zenon, <1>2 DEF IsList
<1>4. \A t \in Times : w[t] = << >>
  OBVIOUS
<1>5. \A k : k \in 1 .. Len(bs) <=> k = 1
  BY <1>2
<1>6. DOMAIN w = Times /\ \A x : x \notin DOMAIN << >>
  OBVIOUS
<1> HIDE DEF bs, w
<1>7. \A k \in 1 .. Len(bs), net \in Nets :
          Same(net, bs[k].changes, w[bs[k].time])
  BY Zenon, <1>1, <1>2, <1>4, <1>5, <1>6 DEF Same
<1>8. \A j, k \in 1 .. Len(bs) : ~(j < k)
  BY <1>5
<1>9. Len(bs) > 0 /\ bs[1].time = 0 /\ bs[Len(bs)].time = 0
  BY <1>1, <1>2
<1>10. Blocked(bs, 0, w)
  BY Zenon, <1>1, <1>2, <1>3, <1>4, <1>5, <1>6, <1>7, <1>8, <1>9 DEF Blocked
<1>11. QED
  BY Zenon, <1>10 DEF bs, w, e

(* A later time starts a block without changes.                            *)
LEMMA BlockStamps ==
    ASSUME Times \subseteq Nat, NEW bs, NEW now, NEW w, Blocked(bs, now, w),
           NEW time \in Times, time > now
    PROVE  Blocked(Append(bs, [time |-> time, changes |-> << >>]), time, w)
<1> DEFINE n == Len(bs)
           e == [time |-> time, changes |-> << >>]
           more == Append(bs, e)
<1>1. e.time = time /\ e.changes = << >> /\ IsBlock(e)
  BY DEF IsBlock
<1> HIDE DEF e
<1>2. /\ IsList(bs) /\ n > 0 /\ n \in Nat /\ bs[1].time = 0 /\ bs[n].time = now
      /\ DOMAIN w = Times
      /\ \A k \in 1 .. n : IsBlock(bs[k]) /\ bs[k].time \in Times
      /\ \A j, k \in 1 .. n : j < k => bs[j].time < bs[k].time
      /\ \A t \in Times, net \in Nets :
             net \in DOMAIN w[t] => \E k \in 1 .. n : bs[k].time = t
      /\ \A k \in 1 .. n, net \in Nets : Same(net, bs[k].changes, w[bs[k].time])
  BY Zenon, ListIs DEF Blocked
<1>3. /\ IsList(more) /\ Len(more) = n + 1 /\ more[n + 1] = e
      /\ \A k \in 1 .. n : more[k] = bs[k]
  <2>1. PICK X : bs \in Seq(X)
    BY <1>2 DEF IsList
  <2>2. Len(more) = n + 1 /\ more[n + 1] = e
            /\ \A k \in 1 .. n : more[k] = bs[k]
    BY <1>2, <2>1
  <2>3. QED
    BY <1>2, <2>2, ListMore
<1>4. \A k : k \in 1 .. n + 1 <=> k \in 1 .. n \/ k = n + 1
  BY <1>2
<1> HIDE DEF more
<1>5. \A k \in 1 .. n : bs[k].time < time
  <2> SUFFICES ASSUME NEW k \in 1 .. n PROVE bs[k].time < time
    OBVIOUS
  <2>1. n \in 1 .. n /\ k \in Int /\ n \in Int
    BY <1>2
  <2>2. bs[k].time \in Nat /\ now \in Nat /\ time \in Nat
    BY <1>2, <2>1
  <2>3. k = n \/ bs[k].time < now
    <3>1. k = n \/ k < n
      BY <1>2
    <3>2. QED
      BY Zenon, <1>2, <2>1, <3>1
  <2>4. k = n => bs[k].time = now
    BY Zenon, <1>2
  <2> DEFINE x == bs[k].time
  <2>5. x \in Nat /\ (x = now \/ x < now)
    BY Zenon, <2>2, <2>3, <2>4
  <2> HIDE DEF x
  <2>6. x < time
    BY <2>2, <2>5
  <2>7. QED
    BY Zenon, <2>6 DEF x
<1>6. \A k \in 1 .. n + 1 : IsBlock(more[k]) /\ more[k].time \in Times
  BY Zenon, <1>1, <1>2, <1>3, <1>4
<1>7. \A j, k \in 1 .. n + 1 : j < k => more[j].time < more[k].time
  <2> SUFFICES ASSUME NEW j \in 1 .. n + 1, NEW k \in 1 .. n + 1, j < k
               PROVE  more[j].time < more[k].time
    OBVIOUS
  <2>1. j \in 1 .. n
    BY <1>2
  <2>2. CASE k \in 1 .. n
    BY Zenon, <1>2, <1>3, <2>1, <2>2
  <2>3. CASE k = n + 1
    BY Zenon, <1>1, <1>3, <1>5, <2>1, <2>3
  <2>4. QED
    BY Zenon, <1>4, <2>2, <2>3
<1>8. \A t \in Times, net \in Nets :
          net \in DOMAIN w[t] => \E k \in 1 .. n + 1 : more[k].time = t
  <2> SUFFICES ASSUME NEW t \in Times, NEW net \in Nets, net \in DOMAIN w[t]
               PROVE  \E k \in 1 .. n + 1 : more[k].time = t
    OBVIOUS
  <2>1. PICK k \in 1 .. n : bs[k].time = t
    BY Zenon, <1>2
  <2>2. QED
    BY Zenon, <1>3, <1>4, <2>1
<1>9. \A k \in 1 .. n + 1, net \in Nets :
          Same(net, more[k].changes, w[more[k].time])
  <2> SUFFICES ASSUME NEW k \in 1 .. n + 1, NEW net \in Nets
               PROVE  Same(net, more[k].changes, w[more[k].time])
    OBVIOUS
  <2>1. CASE k \in 1 .. n
    BY Zenon, <1>2, <1>3, <2>1
  <2>2. CASE k = n + 1
    <3>1. net \notin DOMAIN w[time]
      <4>1. SUFFICES ASSUME net \in DOMAIN w[time] PROVE FALSE
        OBVIOUS
      <4>2. PICK j \in 1 .. n : bs[j].time = time
        BY Zenon, <1>2, <4>1
      <4>3. time < time /\ time \in Nat
        BY Zenon, <1>5, <4>2
      <4>4. QED
        BY <4>3
    <3>2. net \notin DOMAIN << >>
      OBVIOUS
    <3>3. QED
      BY Zenon, <1>1, <1>3, <2>2, <3>1, <3>2 DEF Same
  <2>3. QED
    BY Zenon, <1>4, <2>1, <2>2
<1>10. Len(more) > 0 /\ more[1].time = 0 /\ more[Len(more)].time = time
  <2>1. 1 \in 1 .. n /\ n + 1 > 0
    BY <1>2
  <2>2. QED
    BY Zenon, <1>1, <1>2, <1>3, <2>1
<1>11. Blocked(more, time, w)
  BY Zenon, <1>2, <1>3, <1>6, <1>7, <1>8, <1>9, <1>10 DEF Blocked
<1>12. QED
  BY Zenon, <1>11 DEF more, e

(* What an assignment to one key leaves.                                   *)
LEMMA PutIs ==
    ASSUME NEW f, NEW x, NEW v
    PROVE  /\ x \in DOMAIN A!Put(f, x, v) /\ A!Put(f, x, v)[x] = v
           /\ \A y : y # x => /\ y \in DOMAIN A!Put(f, x, v) <=> y \in DOMAIN f
                              /\ y \in DOMAIN f => A!Put(f, x, v)[y] = f[y]
<1> DEFINE g == [y \in DOMAIN f \cup {x} |-> IF y = x THEN v ELSE f[y]]
<1>1. A!Put(f, x, v) = g
  BY Zenon DEF A!Put
<1>2. /\ x \in DOMAIN g /\ g[x] = v
      /\ \A y : y # x => /\ y \in DOMAIN g <=> y \in DOMAIN f
                         /\ y \in DOMAIN f => g[y] = f[y]
  OBVIOUS
<1> HIDE DEF g
<1>3. QED
  BY Zenon, <1>1, <1>2

(* A change is recorded in the last block, and of a declared net only as   *)
(* the value it took.                                                      *)
LEMMA BlockRecords ==
    ASSUME Times \subseteq Nat, NEW bs, NEW now, NEW w, Blocked(bs, now, w),
           NEW ident, NEW text, NEW value,
           ident \in Nets => text = value /\ Fits(ident, value)
    PROVE  Blocked([bs EXCEPT ![Len(bs)].changes = A!Put(@, ident, text)], now,
                   [w EXCEPT ![now] = A!Put(@, ident, value)])
<1> DEFINE n == Len(bs)
           c == A!Put(bs[n].changes, ident, text)
           u == A!Put(w[now], ident, value)
           e == [bs[n] EXCEPT !.changes = c]
           nbs == [bs EXCEPT ![n].changes = A!Put(@, ident, text)]
           nw == [w EXCEPT ![now] = A!Put(@, ident, value)]
<1>1. /\ IsList(bs) /\ n > 0 /\ n \in Nat /\ bs[1].time = 0 /\ bs[n].time = now
      /\ DOMAIN w = Times /\ DOMAIN bs = 1 .. n
      /\ \A k \in 1 .. n : IsBlock(bs[k]) /\ bs[k].time \in Times
      /\ \A j, k \in 1 .. n : j < k => bs[j].time < bs[k].time
      /\ \A t \in Times, net \in Nets :
             net \in DOMAIN w[t] => \E k \in 1 .. n : bs[k].time = t
      /\ \A k \in 1 .. n, net \in Nets : Same(net, bs[k].changes, w[bs[k].time])
  BY Zenon, ListIs DEF Blocked
<1>2. n \in 1 .. n /\ now \in Times
  <2>1. n \in 1 .. n
    BY <1>1
  <2>2. QED
    BY Zenon, <1>1, <2>1
<1>3. e.time = bs[n].time /\ e.changes = c /\ IsBlock(e)
  <2>1. bs[n] = [time |-> bs[n].time, changes |-> bs[n].changes]
    BY Zenon, <1>1, <1>2 DEF IsBlock
  <2> DEFINE b == bs[n]
  <2>2. b = [time |-> b.time, changes |-> b.changes]
    BY Zenon, <2>1
  <2> HIDE DEF b, c
  <2>3. e = [time |-> b.time, changes |-> c]
    BY <2>2 DEF b
  <2>4. QED
    BY <2>3 DEF IsBlock, b
<1>4. /\ IsList(nbs) /\ Len(nbs) = n
      /\ nbs[n] = e /\ \A k \in 1 .. n : k # n => nbs[k] = bs[k]
  <2> DEFINE f == [bs EXCEPT ![n] = e]
  <2>1. nbs = f
    BY Zenon
  <2> HIDE DEF e, nbs
  <2>2. DOMAIN f = 1 .. n /\ f = [k \in 1 .. n |-> f[k]]
    BY <1>1
  <2>3. f[n] = e /\ \A k \in 1 .. n : k # n => f[k] = bs[k]
    BY <1>1, <1>2
  <2> HIDE DEF f, n
  <2>4. IsList(f) /\ Len(f) = n
    BY Zenon, <1>1, <2>2, ListUpTo
  <2>5. QED
    BY Zenon, <2>1, <2>3, <2>4
<1>5. /\ DOMAIN nw = Times /\ nw[now] = u
      /\ \A t \in Times : t # now => nw[t] = w[t]
  <2> DEFINE f == [w EXCEPT ![now] = u]
  <2>1. nw = f
    BY Zenon
  <2> HIDE DEF u, nw
  <2>2. /\ DOMAIN f = Times /\ f[now] = u
        /\ \A t \in Times : t # now => f[t] = w[t]
    BY Zenon, <1>1, <1>2
  <2>3. QED
    BY Zenon, <2>1, <2>2
<1> HIDE DEF nbs, nw, e
<1>6. ASSUME NEW net \in Nets
      PROVE  Same(net, c, u)
  <2>1. Same(net, bs[n].changes, w[now])
    BY Zenon, <1>1, <1>2
  <2>2. CASE net = ident
    <3>1. net \in DOMAIN c /\ c[net] = text /\ net \in DOMAIN u
              /\ u[net] = value
      BY <2>2, PutIs
    <3>2. QED
      BY Zenon, <1>6, <2>2, <3>1 DEF Same
  <2>3. CASE net # ident
    <3>1. /\ net \in DOMAIN c <=> net \in DOMAIN bs[n].changes
          /\ net \in DOMAIN bs[n].changes => c[net] = bs[n].changes[net]
          /\ net \in DOMAIN u <=> net \in DOMAIN w[now]
          /\ net \in DOMAIN w[now] => u[net] = w[now][net]
      BY <2>3, PutIs
    <3> HIDE DEF c, u
    <3>2. QED
      BY Zenon, <2>1, <3>1 DEF Same
  <2>4. QED
    BY Zenon, <2>2, <2>3
<1> HIDE DEF c, u
<1>7. ASSUME NEW k \in 1 .. n
      PROVE  /\ nbs[k].time = bs[k].time /\ nbs[k].time \in Times
                    /\ IsBlock(nbs[k])
             /\ \A net \in Nets : Same(net, nbs[k].changes, nw[nbs[k].time])
  <2>1. CASE k = n
    <3>1. nbs[k].time = now /\ bs[k].time = now /\ nbs[k].changes = c
              /\ IsBlock(nbs[k])
      BY Zenon, <1>1, <1>3, <1>4, <2>1
    <3>2. nw[nbs[k].time] = u
      BY Zenon, <1>5, <3>1
    <3>3. QED
      BY Zenon, <1>2, <1>6, <3>1, <3>2
  <2>2. CASE k # n
    <3>1. nbs[k] = bs[k]
      BY Zenon, <1>4, <2>2
    <3>2. k < n
      <4>1. n \in Nat /\ k \in 1 .. n /\ k # n
        BY Zenon, <1>1, <1>7, <2>2
      <4> HIDE DEF n
      <4>2. QED
        BY <4>1
    <3>3. bs[k].time < bs[n].time
      BY Zenon, <1>1, <1>2, <3>2
    <3>4. bs[k].time \in Nat /\ now \in Nat
      BY Zenon, <1>1, <1>2
    <3> DEFINE x == bs[k].time
    <3>5. x \in Nat /\ now \in Nat /\ x < now
      BY Zenon, <1>1, <3>3, <3>4
    <3> HIDE DEF x
    <3>6. x # now
      BY <3>5
    <3>7. nw[bs[k].time] = w[bs[k].time]
      BY Zenon, <1>1, <1>5, <3>6 DEF x
    <3>8. QED
      BY Zenon, <1>1, <3>1, <3>7
  <2>3. QED
    BY Zenon, <2>1, <2>2
<1>8. \A t \in Times, net \in Nets :
          net \in DOMAIN nw[t] => \E k \in 1 .. n : nbs[k].time = t
  <2> SUFFICES ASSUME NEW t \in Times, NEW net \in Nets, net \in DOMAIN nw[t]
               PROVE  \E k \in 1 .. n : nbs[k].time = t
    OBVIOUS
  <2>1. CASE t = now
    BY Zenon, <1>1, <1>2, <1>7, <2>1
  <2>2. CASE t # now
    <3>1. net \in DOMAIN w[t]
      BY Zenon, <1>5, <2>2
    <3>2. PICK k \in 1 .. n : bs[k].time = t
      BY Zenon, <1>1, <3>1
    <3>3. QED
      BY Zenon, <1>7, <3>2
  <2>3. QED
    BY Zenon, <2>1, <2>2
<1>9. nbs[1].time = 0 /\ nbs[n].time = now
  <2>1. 1 \in 1 .. n
    BY <1>1
  <2>2. QED
    BY Zenon, <1>1, <1>2, <1>7, <2>1
<1>10. Blocked(nbs, now, nw)
  BY Zenon, <1>1, <1>4, <1>5, <1>7, <1>8, <1>9 DEF Blocked
<1>11. QED
  BY Zenon, <1>10 DEF nbs, nw

(* A change of a net that is not declared leaves no trace.                 *)
LEMMA BlockMisses ==
    ASSUME NEW bs, NEW now \in Times, NEW w, Blocked(bs, now, w),
           NEW ident, NEW value, ident \notin Nets
    PROVE  Blocked(bs, now, [w EXCEPT ![now] = A!Put(@, ident, value)])
<1> DEFINE u == A!Put(w[now], ident, value)
           nw == [w EXCEPT ![now] = A!Put(@, ident, value)]
<1>1. DOMAIN w = Times
  BY Zenon DEF Blocked
<1>2. /\ DOMAIN nw = Times /\ nw[now] = u
      /\ \A t \in Times : t # now => nw[t] = w[t]
  <2> DEFINE f == [w EXCEPT ![now] = u]
  <2>1. nw = f
    BY Zenon
  <2> HIDE DEF u, nw
  <2>2. /\ DOMAIN f = Times /\ f[now] = u
        /\ \A t \in Times : t # now => f[t] = w[t]
    BY Zenon, <1>1
  <2>3. QED
    BY Zenon, <2>1, <2>2
<1> HIDE DEF nw
<1>3. ASSUME NEW t \in Times, NEW net \in Nets
      PROVE  /\ net \in DOMAIN nw[t] <=> net \in DOMAIN w[t]
             /\ net \in DOMAIN nw[t] => nw[t][net] = w[t][net]
  <2>1. CASE t = now
    BY <1>2, <2>1, PutIs
  <2>2. CASE t # now
    BY Zenon, <1>2, <2>2
  <2>3. QED
    BY Zenon, <2>1, <2>2
<1>4. ASSUME NEW k \in 1 .. Len(bs), NEW net \in Nets
      PROVE  Same(net, bs[k].changes, nw[bs[k].time])
  <2>1. bs[k].time \in Times /\ Same(net, bs[k].changes, w[bs[k].time])
    BY Zenon DEF Blocked
  <2>2. QED
    BY Zenon, <1>3, <2>1 DEF Same
<1>5. \A t \in Times, net \in Nets :
          net \in DOMAIN nw[t] => \E k \in 1 .. Len(bs) : bs[k].time = t
  BY Zenon, <1>3 DEF Blocked
<1>6. Blocked(bs, now, nw)
  BY Zenon, <1>2, <1>4, <1>5 DEF Blocked
<1>7. QED
  BY Zenon, <1>6 DEF nw

(* The body of the dump, as far as it was read.                            *)
BodyInv ==
    /\ dumped = [lines |-> dumped.lines, now |-> dumped.now, stray |-> FALSE]
    /\ dumped.lines \in Nat
    /\ Blocked(blocks, dumped.now, wave)

(* Blocks and waveform of the next state agree, read with its header.      *)
LEMMA BlockedNext ==
    ASSUME sim' = sim, Blocked(blocks', dumped'.now, wave')
    PROVE  Blocked(blocks, dumped.now, wave)'
<1>1. /\ Nets' = Nets
      /\ \A net : A!WidthOf(net)' = A!WidthOf(net)
      /\ \A net : Countable(net)' <=> Countable(net)
  <2>1. Nets' = Nets
    BY DEF Nets, A!Declarations, A!NetOf
  <2>2. ASSUME NEW net
        PROVE  /\ A!WidthOf(net)' = A!WidthOf(net)
               /\ Countable(net)' <=> Countable(net)
    BY DEF A!WidthOf, A!Declarations, A!NetOf, Countable,
        A!NON_TOGGLING_VAR_TYPES
  <2>3. QED
    BY Zenon, <2>1, <2>2
<1>2. \A net, v : Fits(net, v)' <=> Fits(net, v)
  BY <1>1 DEF Fits
<1>3. \A net, c, v : Same(net, c, v)' <=> Same(net, c, v)
  BY <1>2 DEF Same
<1>4. QED
  BY <1>1, <1>3 DEF Blocked

(* A line of the dump is read.                                             *)
LEMMA DumpKeeps ==
    ASSUME A!AreSimulations, sim \in Simulations, Declared, BodyInv, A!Dump
    PROVE  /\ sim' = sim /\ header' = header /\ variables' = variables
           /\ timescale' = timescale /\ trace' = trace
           /\ values' = values /\ previous_clock' = previous_clock
           /\ previous_snapshot' = previous_snapshot
           /\ next_block' = next_block /\ samples' = samples
           /\ \/ stage' = "body" /\ BodyInv'
              \/ stage' = "error" /\ dumped'.stray
<1>1. /\ IsList(sim.header) /\ IsList(sim.script) /\ Times \subseteq Nat
      /\ \A n \in DOMAIN sim.script : \A l \in sim.script[n] :
             A!IsLine(l, sim.header)
  BY Zenon, SimulationIs
<1>2. PICK l \in sim.script[dumped.lines + 1] : A!DumpLine(l)
  BY Zenon DEF A!Dump
<1>3. A!IsLine(l, sim.header)
  <2>1. dumped.lines < Len(sim.script) /\ dumped.lines \in Nat
    BY Zenon DEF A!Dump, BodyInv
  <2>2. DOMAIN sim.script = 1 .. Len(sim.script) /\ Len(sim.script) \in Nat
    BY Zenon, <1>1, ListIs
  <2>3. dumped.lines + 1 \in DOMAIN sim.script
    BY <2>1, <2>2
  <2>4. QED
    BY Zenon, <1>1, <2>3
<1>4. /\ A!ReadLine(l) /\ stage = "body"
      /\ wave' = IF A!Visible(l)
                 THEN [wave EXCEPT ![dumped.now] = A!Put(@, l.ident, l.value)]
                 ELSE wave
      /\ dumped' = [dumped EXCEPT
                      !.lines = @ + 1,
                      !.stray = @ \/ (~in_comment /\ A!Stray(l)),
                      !.now = IF ~in_comment /\ l.line = "stamp" THEN l.time
                              ELSE @]
      /\ sim' = sim /\ header' = header /\ variables' = variables
      /\ timescale' = timescale /\ trace' = trace
      /\ values' = values /\ previous_clock' = previous_clock
      /\ previous_snapshot' = previous_snapshot
      /\ next_block' = next_block /\ samples' = samples
  BY Zenon, <1>2 DEF A!DumpLine, A!Dump, A!sampleVars
<1> DEFINE now == dumped.now
<1>5. /\ dumped.stray = FALSE /\ dumped.lines \in Nat
      /\ Blocked(blocks, now, wave)
  BY DEF BodyInv
<1>6. /\ dumped'.lines = dumped.lines + 1
      /\ dumped'.stray = (~in_comment /\ A!Stray(l))
      /\ dumped'.now = IF ~in_comment /\ l.line = "stamp" THEN l.time ELSE now
      /\ dumped' = [lines |-> dumped'.lines, now |-> dumped'.now,
                    stray |-> dumped'.stray]
  <2> DEFINE d == [lines |-> dumped.lines, now |-> dumped.now, stray |-> FALSE]
  <2>1. dumped = d
    BY Zenon DEF BodyInv
  <2>2. dumped' = [d EXCEPT
                      !.lines = @ + 1,
                      !.stray = @ \/ (~in_comment /\ A!Stray(l)),
                      !.now = IF ~in_comment /\ l.line = "stamp" THEN l.time
                              ELSE @]
    BY Zenon, <1>4, <2>1
  <2>3. dumped' = [lines |-> dumped.lines + 1,
                   now |-> IF ~in_comment /\ l.line = "stamp"
                           THEN l.time ELSE now,
                   stray |-> (~in_comment /\ A!Stray(l))]
    BY <2>2
  <2>4. QED
    BY <2>3
<1>7. ASSUME stage' = stage, ~(~in_comment /\ A!Stray(l)),
             Blocked(blocks', dumped'.now, wave')
      PROVE  stage' = "body" /\ BodyInv'
  <2>1. dumped'.stray = FALSE /\ dumped'.lines \in Nat
    <3>1. dumped'.stray = FALSE
      BY Zenon, <1>6, <1>7
    <3>2. dumped'.lines = dumped.lines + 1 /\ dumped.lines \in Nat
      BY Zenon, <1>5, <1>6
    <3>3. QED
      BY <3>1, <3>2
  <2>2. dumped' = [lines |-> dumped'.lines, now |-> dumped'.now,
                   stray |-> FALSE]
    BY Zenon, <1>6, <2>1
  <2>3. Blocked(blocks, dumped.now, wave)'
    BY Zenon, <1>4, <1>7, BlockedNext
  <2>4. QED
    BY Zenon, <1>4, <1>7, <2>1, <2>2, <2>3 DEF BodyInv
<1> DEFINE goal == \/ stage' = "body" /\ BodyInv'
                   \/ stage' = "error" /\ dumped'.stray
<1>8. IsList(blocks) /\ A!Last(blocks) = blocks[Len(blocks)]
          /\ A!Last(blocks).time = now
      /\ now \in Times
  <2>1. /\ IsList(blocks) /\ blocks[Len(blocks)].time = now /\ Len(blocks) > 0
        /\ \A k \in 1 .. Len(blocks) : blocks[k].time \in Times
    BY Zenon, <1>5 DEF Blocked
  <2>2. A!Last(blocks) = blocks[Len(blocks)]
    BY Zenon DEF A!Last
  <2>3. Len(blocks) \in 1 .. Len(blocks)
    BY <2>1, ListIs
  <2>4. QED
    BY Zenon, <2>1, <2>2, <2>3
<1>9. CASE in_comment
  <2>1. blocks' = blocks /\ stage' = stage /\ wave' = wave /\ dumped'.now = now
    BY Zenon, <1>4, <1>6, <1>9 DEF A!ReadLine, A!Visible
  <2>2. goal
    BY Zenon, <1>5, <1>7, <1>9, <2>1
  <2>3. QED
    BY Zenon, <1>4, <2>2
<1>10. CASE ~in_comment /\ l.line = "stamp"
  <2>1. A!ReadStamp(l.time) /\ ~A!Visible(l) /\ l.line # "garbage"
    BY <1>4, <1>10 DEF A!ReadLine, A!Visible
  <2>2. wave' = wave /\ dumped'.now = l.time
    BY Zenon, <1>4, <1>6, <1>10, <2>1
  <2>3. l.time \in Times
    BY Zenon, <1>3, <1>10 DEF A!IsLine
  <2>4. l.time \in Nat /\ now \in Nat
    BY Zenon, <1>1, <1>8, <2>3
  <2> DEFINE t == l.time
  <2>5. A!Stray(l) <=> t < now
    BY Zenon, <1>10, <2>1 DEF A!Stray
  <2>6. /\ IF t < now THEN stage' = "error" ELSE stage' = stage
        /\ blocks' = IF t > now
                     THEN Append(blocks, [time |-> t, changes |-> << >>])
                     ELSE blocks
    BY Zenon, <1>8, <2>1 DEF A!ReadStamp, A!fail
  <2> HIDE DEF t
  <2>7. CASE t < now
    <3>1. stage' = "error" /\ dumped'.stray
      BY Zenon, <1>6, <1>10, <2>5, <2>6, <2>7
    <3>2. QED
      BY Zenon, <1>4, <3>1
  <2>8. CASE t = now
    <3>1. blocks' = blocks /\ stage' = stage /\ ~A!Stray(l)
      BY <2>4, <2>5, <2>6, <2>8 DEF t
    <3>2. Blocked(blocks', dumped'.now, wave')
      BY Zenon, <1>5, <2>2, <2>8, <3>1 DEF t
    <3>3. goal
      BY Zenon, <1>7, <3>1, <3>2
    <3>4. QED
      BY Zenon, <1>4, <3>3
  <2>9. CASE t > now
    <3>1. /\ blocks' = Append(blocks, [time |-> t, changes |-> << >>])
          /\ stage' = stage /\ ~A!Stray(l)
      BY <2>4, <2>5, <2>6, <2>9 DEF t
    <3>2. Blocked(Append(blocks, [time |-> t, changes |-> << >>]), t, wave)
      BY Zenon, <1>1, <1>5, <2>3, <2>9, BlockStamps DEF t
    <3>3. Blocked(blocks', dumped'.now, wave')
      BY Zenon, <2>2, <3>1, <3>2 DEF t
    <3>4. goal
      BY Zenon, <1>7, <3>1, <3>3
    <3>5. QED
      BY Zenon, <1>4, <3>4
  <2>10. QED
    BY <2>4, <2>7, <2>8, <2>9 DEF t
<1>11. CASE ~in_comment /\ l.line \in {"scalar", "vector", "real"}
  <2>1. /\ A!ReadChange(l) /\ A!Visible(l) /\ l.line # "stamp" /\ ~A!Stray(l)
    BY <1>4, <1>11 DEF A!ReadLine, A!Visible, A!Stray
  <2>2. /\ wave' = [wave EXCEPT ![now] = A!Put(@, l.ident, l.value)]
        /\ dumped'.now = now /\ stage' = stage
    BY Zenon, <1>4, <1>6, <2>1 DEF A!ReadChange
  <2> DEFINE width == A!widths(l.ident)
             text == CASE l.line = "vector" ->
                         A!_normalise_vector(l.text, width)
                       [] l.line = "scalar" ->
                              A!_normalise_vector(l.text, A!Max({width, 1}))
                       [] l.line = "real" -> l.text
  <2>3. \/ l.line = "vector" /\ width = 0 /\ blocks' = blocks
        \/ ~(l.line = "vector" /\ width = 0) /\ A!Record(l.ident, text)
    <3>1. PICK pos : Listed(pos)
      BY Zenon, <1>1, ListedIs
    <3>2. width \in Nat
      <4>1. CASE l.ident \in Nets
        <5>1. PICK i \in A!Declarations : A!NetOf(i) = l.ident
          BY Zenon, <4>1 DEF Nets
        <5>2. width = A!WidthOf(l.ident) /\ A!WidthOf(l.ident) \in Nat
          BY Zenon, <3>1, <4>1, <5>1, WidthIs, WidthsAre
        <5>3. QED
          BY Zenon, <5>2
      <4>2. CASE l.ident \notin Nets
        BY <3>1, <4>2, WidthsNone
      <4>3. QED
        BY Zenon, <4>1, <4>2
    <3> DEFINE long == A!_normalise_vector(l.text, width)
               short == A!_normalise_vector(l.text, A!Max({width, 1}))
    <3>3. /\ CASE l.line = "vector" /\ width = 0 -> blocks' = blocks
               [] l.line = "vector" /\ width > 0 -> A!Record(l.ident, long)
               [] l.line = "scalar" -> A!Record(l.ident, short)
               [] l.line = "real" -> A!Record(l.ident, l.text)
      BY Zenon, <2>1 DEF A!ReadChange
    <3> HIDE DEF width, long, short
    <3>4. CASE l.line = "vector" /\ width = 0
      BY <3>3, <3>4
    <3>5. CASE l.line = "vector" /\ width # 0
      <4>1. width > 0 /\ text = long
        BY <3>2, <3>5 DEF long
      <4>2. A!Record(l.ident, long)
        BY <3>3, <3>5, <4>1
      <4>3. QED
        BY Zenon, <3>5, <4>1, <4>2
    <3>6. CASE l.line = "scalar"
      <4>1. text = short
        BY <3>6 DEF short
      <4>2. A!Record(l.ident, short)
        BY <3>3, <3>6
      <4>3. l.line # "vector"
        BY <3>6
      <4>4. QED
        BY Zenon, <4>1, <4>2, <4>3
    <3>7. CASE l.line = "real"
      <4>1. text = l.text
        BY <3>7
      <4>2. A!Record(l.ident, l.text)
        BY <3>3, <3>7
      <4>3. l.line # "vector"
        BY <3>7
      <4>4. QED
        BY Zenon, <4>1, <4>2, <4>3
    <3>8. QED
      BY Zenon, <1>11, <3>4, <3>5, <3>6, <3>7
  <2>4. ASSUME l.ident \in Nets
        PROVE  width # 0 /\ text = l.value /\ Fits(l.ident, l.value)
    <3>1. PICK i \in A!Declarations : A!NetOf(i) = l.ident
      BY Zenon, <2>4 DEF Nets
    <3>2. PICK pos : Listed(pos)
      BY Zenon, <1>1, ListedIs
    <3>3. /\ width = A!WidthOf(l.ident) /\ width \in Nat \ {0}
          /\ width = sim.header[i].width
      BY Zenon, <2>4, <3>1, <3>2, WidthIs, WidthsAre
    <3> HIDE DEF width
    <3>4. CASE l.line = "real"
      <4>1. text = l.text
        BY <3>4
      <4>2. \A j \in A!Declarations : A!NetOf(j) = l.ident =>
                sim.header[j].type \in A!NON_TOGGLING_VAR_TYPES
        BY Zenon, <1>3, <3>4, <1>11 DEF A!IsLine, A!Declarations, A!NetOf
      <4>3. ~Countable(l.ident)
        BY Zenon, <4>2 DEF Countable
      <4>4. l.value = l.text
        BY Zenon, <1>3, <1>11, <3>1, <3>4 DEF A!IsLine, A!Declarations, A!NetOf
      <4>5. QED
        BY <3>3, <4>1, <4>3, <4>4 DEF Fits
    <3>5. CASE l.line # "real"
      <4>1. A!Abbreviates(l.text, l.value) /\ Len(l.value) = width
        BY Zenon, <1>3, <1>11, <3>1, <3>3, <3>5 DEF A!IsLine, A!Declarations,
            A!NetOf
      <4>2. A!_normalise_vector(l.text, width) = l.value
        BY Zenon, <4>1, AbbreviationIs
      <4>3. A!Max({width, 1}) = width
        <5>1. /\ width \in {width, 1} /\ \A y \in {width, 1} : width >= y
              /\ \A x \in {width, 1} : (\A y \in {width, 1} : x >= y)
                     => x = width
          BY <3>3
        <5>2. QED
          BY Zenon, <5>1 DEF A!Max
      <4>4. text = l.value
        BY <1>11, <3>5, <4>2, <4>3
      <4>5. IsList(l.value)
        BY Zenon, <4>1 DEF A!Abbreviates, A!IsSequence, IsList
      <4>6. QED
        BY <3>3, <4>1, <4>4, <4>5 DEF Fits
    <3>6. QED
      BY Zenon, <3>4, <3>5
  <2> HIDE DEF width, text
  <2>5. CASE l.line = "vector" /\ width = 0
    <3>1. l.ident \notin Nets /\ blocks' = blocks
      BY Zenon, <2>3, <2>4, <2>5
    <3>2. Blocked(blocks, now,
                  [wave EXCEPT ![now] = A!Put(@, l.ident, l.value)])
      BY Zenon, <1>5, <1>8, <3>1, BlockMisses
    <3>3. Blocked(blocks', dumped'.now, wave')
      BY Zenon, <2>2, <3>1, <3>2
    <3>4. goal
      BY Zenon, <1>7, <2>1, <2>2, <3>3
    <3>5. QED
      BY Zenon, <1>4, <3>4
  <2>6. CASE ~(l.line = "vector" /\ width = 0)
    <3>1. blocks' = [blocks EXCEPT ![Len(blocks)].changes =
                                       A!Put(@, l.ident, text)]
      BY Zenon, <2>3, <2>6 DEF A!Record
    <3>2. Blocked([blocks EXCEPT ![Len(blocks)].changes =
                                     A!Put(@, l.ident, text)],
                  now, [wave EXCEPT ![now] = A!Put(@, l.ident, l.value)])
      BY Zenon, <1>1, <1>5, <2>4, BlockRecords
    <3>3. Blocked(blocks', dumped'.now, wave')
      BY Zenon, <2>2, <3>1, <3>2
    <3>4. goal
      BY Zenon, <1>7, <2>1, <2>2, <3>3
    <3>5. QED
      BY Zenon, <1>4, <3>4
  <2>7. QED
    BY Zenon, <2>5, <2>6
<1>12. CASE ~in_comment /\ l.line \in {"$comment", "$end", "blank"}
  <2>1. /\ blocks' = blocks /\ stage' = stage /\ ~A!Visible(l) /\ ~A!Stray(l)
        /\ l.line # "stamp"
    BY <1>4, <1>12 DEF A!ReadLine, A!Visible, A!Stray
  <2>2. goal
    BY Zenon, <1>4, <1>5, <1>6, <1>7, <2>1
  <2>3. QED
    BY Zenon, <1>4, <2>2
<1>13. CASE ~in_comment /\ l.line = "garbage"
  <2>1. stage' = "error" /\ A!Stray(l)
    BY <1>4, <1>13 DEF A!ReadLine, A!Stray, A!fail
  <2>2. dumped'.stray
    BY Zenon, <1>6, <1>13, <2>1
  <2>3. QED
    BY Zenon, <1>4, <2>1, <2>2
<1>14. QED
  BY Zenon, <1>4, <1>9, <1>10, <1>11, <1>12, <1>13 DEF A!ReadLine

-----------------------------------------------------------------------------
(* The value of a net: what it last took, and kept since.                  *)
LEMMA ValueIs ==
    ASSUME Times \subseteq Nat, NEW net, NEW t \in Nat
    PROVE  \/ A!Changes(net, t) = {} /\ A!ValueAt(net, t) = A!Xs(A!WidthOf(net))
           \/ \E m \in A!Changes(net, t) :
                  /\ A!ValueAt(net, t) = wave[m][net]
                  /\ \A y \in A!Changes(net, t) : m >= y
<1> DEFINE C == A!Changes(net, t)
<1>1. A!ValueAt(net, t) = IF C = {} THEN A!Xs(A!WidthOf(net))
                          ELSE wave[A!Max(C)][net]
  BY Zenon DEF A!ValueAt
<1>2. C \subseteq 0 .. t
  <2> SUFFICES ASSUME NEW y \in C PROVE y \in 0 .. t
    OBVIOUS
  <2>1. y \in Times /\ y < t
    BY Zenon DEF A!Changes
  <2>2. QED
    BY <2>1
<1> HIDE DEF C
<1>3. C # {} => A!Max(C) \in C /\ \A y \in C : A!Max(C) >= y
  BY Zenon, <1>2, LargestIs
<1>4. QED
  BY Zenon, <1>1, <1>3 DEF C

(* A net keeps its value over times at which it does not change.           *)
LEMMA ValueStays ==
    ASSUME Times \subseteq Nat, NEW net, NEW a \in Nat, NEW b \in Nat, a <= b,
           \A t \in Times : a <= t /\ t < b => net \notin DOMAIN wave[t]
    PROVE  /\ A!Changes(net, a) = A!Changes(net, b)
           /\ A!ValueAt(net, a) = A!ValueAt(net, b)
<1>1. A!Changes(net, a) = A!Changes(net, b)
  <2>1. ASSUME NEW t \in Times, net \in DOMAIN wave[t]
        PROVE  t < a <=> t < b
    <3>1. t \in Nat /\ ~(a <= t /\ t < b)
      BY <2>1
    <3>2. QED
      BY <3>1
  <2>2. QED
    BY Zenon, <2>1 DEF A!Changes
<1>2. QED
  BY Zenon, <1>1 DEF A!ValueAt

(* A net that changes at a time has the value it then took.                *)
LEMMA ValueChanges ==
    ASSUME Times \subseteq Nat, NEW t \in Times, NEW net, net \in DOMAIN wave[t]
    PROVE  A!Changes(net, t + 1) # {} /\ A!ValueAt(net, t + 1) = wave[t][net]
<1> DEFINE C == A!Changes(net, t + 1)
<1>1. t \in C /\ \A y \in C : y \in Nat /\ y <= t
  BY DEF A!Changes
<1>2. t + 1 \in Nat /\ t \in Nat
  OBVIOUS
<1> HIDE DEF C
<1>3. PICK m \in C : A!ValueAt(net, t + 1) = wave[m][net] /\ \A y \in C : m >= y
  BY Zenon, <1>1, <1>2, ValueIs DEF C
<1>4. m = t
  BY <1>1, <1>2, <1>3
<1>5. QED
  BY Zenon, <1>1, <1>3, <1>4 DEF C

(* What a counted net holds at any time is as wide as the net.             *)
LEMMA ValuesFit ==
    ASSUME A!AreSimulations, sim \in Simulations,
           Blocked(blocks, dumped.now, wave), NEW t \in Nat
    PROVE  Fitting(t)
<1> SUFFICES ASSUME NEW net \in Nets PROVE Fits(net, A!ValueAt(net, t))
  BY Zenon DEF Fitting
<1>1. Times \subseteq Nat
  BY Zenon, SimulationIs
<1>2. CASE A!ValueAt(net, t) = A!Xs(A!WidthOf(net))
  <2> DEFINE w == A!WidthOf(net)
             v == A!Xs(w)
  <2>1. w \in Nat
    BY Zenon, WidthIs DEF Nets
  <2> HIDE DEF w
  <2>2. DOMAIN v = 1 .. w /\ v = [k \in 1 .. w |-> v[k]]
    BY DEF A!Xs
  <2> HIDE DEF v
  <2>3. IsList(v) /\ Len(v) = w
    BY Zenon, <2>1, <2>2, ListUpTo
  <2>4. QED
    BY Zenon, <1>2, <2>3 DEF Fits, v, w
<1>3. ASSUME NEW m \in A!Changes(net, t), A!ValueAt(net, t) = wave[m][net]
      PROVE  Fits(net, A!ValueAt(net, t))
  <2>1. m \in Times /\ net \in DOMAIN wave[m]
    BY Zenon DEF A!Changes
  <2>2. PICK k \in 1 .. Len(blocks) : blocks[k].time = m
    BY Zenon, <2>1 DEF Blocked
  <2>3. Same(net, blocks[k].changes, wave[m])
    BY Zenon, <2>2 DEF Blocked
  <2>4. QED
    BY Zenon, <1>3, <2>1, <2>3 DEF Same
<1>4. QED
  BY Zenon, <1>1, <1>2, <1>3, ValueIs

(* The values known of the declared nets are those just before time t.     *)
Holds(vals, t) ==
    \A net \in Nets :
        /\ net \in DOMAIN vals <=> A!Changes(net, t) # {}
        /\ net \in DOMAIN vals => vals[net] = A!ValueAt(net, t)

(* Nothing is known before time 0.                                         *)
LEMMA HoldsInitially ==
    ASSUME Times \subseteq Nat
    PROVE  Holds(<< >>, 0)
<1>1. ASSUME NEW net
      PROVE  A!Changes(net, 0) = {}
  <2>1. \A t \in Times : ~(t < 0)
    OBVIOUS
  <2>2. QED
    BY Zenon, <2>1 DEF A!Changes
<1>2. \A x : x \notin DOMAIN << >>
  OBVIOUS
<1>3. QED
  BY Zenon, <1>1, <1>2 DEF Holds

(* What is known stays right over times without a change.                  *)
LEMMA HoldsOn ==
    ASSUME Times \subseteq Nat, NEW vals, NEW a \in Nat, NEW b \in Nat, a <= b,
           Holds(vals, a),
           \A t \in Times, net \in Nets :
               a <= t /\ t < b => net \notin DOMAIN wave[t]
    PROVE  Holds(vals, b)
<1> SUFFICES ASSUME NEW net \in Nets
             PROVE  /\ net \in DOMAIN vals <=> A!Changes(net, b) # {}
                    /\ net \in DOMAIN vals => vals[net] = A!ValueAt(net, b)
  BY Zenon DEF Holds
<1>1. /\ A!Changes(net, a) = A!Changes(net, b)
      /\ A!ValueAt(net, a) = A!ValueAt(net, b)
  BY Zenon, ValueStays
<1>2. QED
  BY Zenon, <1>1 DEF Holds

(* dict.update.                                                            *)
LEMMA UpdatedIs ==
    ASSUME NEW f, NEW g
    PROVE  \A x : /\ x \in DOMAIN A!Updated(f, g)
                         <=> x \in DOMAIN f \/ x \in DOMAIN g
                  /\ x \in DOMAIN g => A!Updated(f, g)[x] = g[x]
                  /\ x \in DOMAIN f /\ x \notin DOMAIN g =>
                         A!Updated(f, g)[x] = f[x]
<1> DEFINE u == [x \in DOMAIN f \cup DOMAIN g |->
                    IF x \in DOMAIN g THEN g[x] ELSE f[x]]
<1>1. A!Updated(f, g) = u
  BY Zenon DEF A!Updated
<1>2. \A x : /\ x \in DOMAIN u <=> x \in DOMAIN f \/ x \in DOMAIN g
             /\ x \in DOMAIN g => u[x] = g[x]
             /\ x \in DOMAIN f /\ x \notin DOMAIN g => u[x] = f[x]
  OBVIOUS
<1> HIDE DEF u
<1>3. QED
  BY Zenon, <1>1, <1>2

(* The values after the changes of a time.                                 *)
LEMMA HoldsNext ==
    ASSUME Times \subseteq Nat, NEW vals, NEW t \in Times, Holds(vals, t),
           NEW c, \A net \in Nets : Same(net, c, wave[t])
    PROVE  Holds(A!Updated(vals, c), t + 1)
<1> DEFINE u == A!Updated(vals, c)
<1> SUFFICES ASSUME NEW net \in Nets
             PROVE  /\ net \in DOMAIN u <=> A!Changes(net, t + 1) # {}
                    /\ net \in DOMAIN u => u[net] = A!ValueAt(net, t + 1)
  BY Zenon DEF Holds
<1>1. \A x : /\ x \in DOMAIN u <=> x \in DOMAIN vals \/ x \in DOMAIN c
             /\ x \in DOMAIN c => u[x] = c[x]
             /\ x \in DOMAIN vals /\ x \notin DOMAIN c => u[x] = vals[x]
  BY Zenon, UpdatedIs
<1> HIDE DEF u
<1>2. Same(net, c, wave[t])
  BY Zenon
<1>3. CASE net \in DOMAIN wave[t]
  <2>1. A!Changes(net, t + 1) # {} /\ A!ValueAt(net, t + 1) = wave[t][net]
    BY Zenon, <1>3, ValueChanges
  <2>2. QED
    BY Zenon, <1>1, <1>2, <1>3, <2>1 DEF Same
<1>4. CASE net \notin DOMAIN wave[t]
  <2>1. t \in Nat /\ t + 1 \in Nat /\ t <= t + 1
    OBVIOUS
  <2>2. \A s \in Times : t <= s /\ s < t + 1 => net \notin DOMAIN wave[s]
    <3>1. \A s \in Times : t <= s /\ s < t + 1 => s = t
      OBVIOUS
    <3>2. QED
      BY Zenon, <1>4, <3>1
  <2>3. /\ A!Changes(net, t) = A!Changes(net, t + 1)
        /\ A!ValueAt(net, t) = A!ValueAt(net, t + 1)
    BY Zenon, <2>1, <2>2, ValueStays
  <2>4. QED
    BY Zenon, <1>1, <1>2, <1>4, <2>3 DEF Same, Holds
<1>5. QED
  BY Zenon, <1>3, <1>4

-----------------------------------------------------------------------------
(* The values of the selected signals, read from what is known at a time.  *)
LEMMA SnapshotIs ==
    ASSUME A!AreSimulations, sim \in Simulations, NEW pos, Listed(pos),
           A!Ident("clock") = A!NetNamed(A!opt["clock"]),
           NEW vals, NEW t, Holds(vals, t)
    PROVE  A!SnapshotOf(vals) = Shot(t)
<1> DEFINE read(i) == A!Get(vals, variables[i].ident, A!Xs(variables[i].width))
           value(i) == A!ValueAt(variables[i].ident, t)
<1>1. ASSUME NEW i \in A!select_signals
      PROVE  read(i) = value(i)
  <2> DEFINE net == variables[i].ident
  <2>1. net \in Nets /\ variables[i].width = A!WidthOf(net)
    BY Zenon, SignalIs
  <2>2. CASE net \in DOMAIN vals
    BY Zenon, <2>1, <2>2 DEF A!Get, Holds
  <2>3. CASE net \notin DOMAIN vals
    <3>1. read(i) = A!Xs(A!WidthOf(net))
      BY Zenon, <2>1, <2>3 DEF A!Get
    <3>2. A!Changes(net, t) = {}
      BY Zenon, <2>1, <2>3 DEF Holds
    <3>3. QED
      BY Zenon, <3>1, <3>2 DEF A!ValueAt
  <2>4. QED
    BY Zenon, <2>2, <2>3
<1>2. A!SnapshotOf(vals) = [i \in A!select_signals |-> read(i)]
  BY Zenon DEF A!SnapshotOf
<1>3. Shot(t) = [i \in A!select_signals |-> value(i)]
  BY Zenon DEF Shot
<1> HIDE DEF read, value
<1>4. QED
  BY Zenon, <1>1, <1>2, <1>3

(* A symbol other than x is read of a net exactly when the net holds it.   *)
LEMMA SymbolIs ==
    ASSUME A!AreSimulations, sim \in Simulations, NEW net \in Nets,
           NEW vals, NEW t, Holds(vals, t), NEW symbol, symbol # "x"
    PROVE  A!Get(vals, net, <<"x">>) = <<symbol>>
               <=> A!ValueAt(net, t) = <<symbol>>
<1>1. CASE net \in DOMAIN vals
  BY Zenon, <1>1 DEF A!Get, Holds
<1>2. CASE net \notin DOMAIN vals
  <2>1. A!Get(vals, net, <<"x">>) = <<"x">>
    BY Zenon, <1>2 DEF A!Get
  <2>2. A!Changes(net, t) = {}
    BY Zenon, <1>2 DEF Holds
  <2> DEFINE w == A!WidthOf(net)
  <2>3. A!ValueAt(net, t) = A!Xs(w)
    BY Zenon, <2>2 DEF A!ValueAt
  <2>4. w \in Nat \ {0}
    BY Zenon, WidthIs DEF Nets
  <2> HIDE DEF w
  <2>5. A!Xs(w)[1] = "x"
    BY <2>4 DEF A!Xs
  <2>6. <<symbol>>[1] = symbol /\ <<"x">>[1] = "x"
    OBVIOUS
  <2>7. A!Xs(w) # <<symbol>> /\ <<"x">> # <<symbol>>
    BY Zenon, <2>5, <2>6
  <2>8. QED
    BY Zenon, <2>1, <2>3, <2>7
<1>3. QED
  BY Zenon, <1>1, <1>2

Reads(bits, m) == A!ToSet(bits) \subseteq {"0", "1"} /\ A!Number(bits) = m
(* A modulus is read of a net exactly when the net holds it.               *)
LEMMA ModulusIs ==
    ASSUME A!AreSimulations, sim \in Simulations, NEW net \in Nets,
           NEW vals, NEW t, Holds(vals, t), NEW m
    PROVE  Reads(A!Get(vals, net, <<"x">>), m) <=> Reads(A!ValueAt(net, t), m)
<1>1. CASE net \in DOMAIN vals
  BY Zenon, <1>1 DEF A!Get, Holds
<1>2. CASE net \notin DOMAIN vals
  <2>1. A!Get(vals, net, <<"x">>) = <<"x">>
    BY Zenon, <1>2 DEF A!Get
  <2>2. A!Changes(net, t) = {}
    BY Zenon, <1>2 DEF Holds
  <2> DEFINE w == A!WidthOf(net)
  <2>3. A!ValueAt(net, t) = A!Xs(w)
    BY Zenon, <2>2 DEF A!ValueAt
  <2>4. w \in Nat \ {0}
    BY Zenon, WidthIs DEF Nets
  <2> HIDE DEF w
  <2>5. 1 \in DOMAIN A!Xs(w) /\ A!Xs(w)[1] = "x"
    BY <2>4 DEF A!Xs
  <2>6. 1 \in DOMAIN <<"x">> /\ <<"x">>[1] = "x"
    OBVIOUS
  <2>7. "x" \in A!ToSet(A!Xs(w)) /\ "x" \in A!ToSet(<<"x">>)
    BY Zenon, <2>5, <2>6 DEF A!ToSet
  <2>8. "x" \notin {"0", "1"}
    OBVIOUS
  <2>9. ~Reads(A!Xs(w), m) /\ ~Reads(<<"x">>, m)
    BY Zenon, <2>7, <2>8 DEF Reads
  <2>10. QED
    BY Zenon, <2>1, <2>3, <2>9
<1>3. QED
  BY Zenon, <1>1, <1>2

(* The command line names what the dump has.                               *)
Settled ==
    /\ timescale = A!Scale /\ A!Scale.parts > 0
    /\ A!Found("clock")
    /\ \A s \in A!Controls : A!opt[s] = A!NotGiven \/ A!Found(s)
    /\ A!Counted # {}

(* A control signal that was asked for is its net.                         *)
LEMMA ControlIs ==
    ASSUME A!AreSimulations, sim \in Simulations, Declared, Settled,
           NEW s \in A!Controls \cup {"clock"}, A!opt[s] # A!NotGiven
    PROVE  A!Ident(s) = A!NetNamed(A!opt[s]) /\ A!Ident(s) \in Nets
<1>1. A!Found(s)
  BY Zenon DEF Settled
<1>2. QED
  BY Zenon, <1>1, FoundIs

(* The state of a sample is that of the control nets.                      *)
LEMMA ClassifyIs ==
    ASSUME A!AreSimulations, sim \in Simulations, Declared, Settled,
           NEW vals, NEW t, Holds(vals, t)
    PROVE  A!classify(vals) = A!StateBefore(t)
<1> DEFINE Is(s, y) == /\ A!opt[s] # A!NotGiven
                       /\ A!Get(vals, A!Ident(s), <<"x">>) = <<y>>
           Was(s, y) == /\ A!opt[s] # A!NotGiven
                        /\ A!ValueAt(A!NetNamed(A!opt[s]), t) = <<y>>
           raw == IF A!opt["modulus"] = A!NotGiven THEN <<"x">>
                  ELSE A!Get(vals, A!Ident("modulus"), <<"x">>)
           Selects(m) == A!ToSet(raw) \subseteq {"0", "1"} /\ A!Number(raw) = m
           Selected(m) ==
               /\ A!opt["modulus"] # A!NotGiven
               /\ Reads(A!ValueAt(A!NetNamed(A!opt["modulus"]), t), m)
           hot == IF A!opt.reset_active_high THEN "1" ELSE "0"
<1>1. ASSUME NEW s \in A!Controls, NEW y, y # "x"
      PROVE  Is(s, y) <=> Was(s, y)
  <2>1. CASE A!opt[s] = A!NotGiven
    BY Zenon, <2>1
  <2>2. CASE A!opt[s] # A!NotGiven
    <3>1. A!Ident(s) = A!NetNamed(A!opt[s]) /\ A!Ident(s) \in Nets
      BY Zenon, <2>2, ControlIs
    <3>2. A!Get(vals, A!Ident(s), <<"x">>) = <<y>>
              <=> A!ValueAt(A!Ident(s), t) = <<y>>
      BY Zenon, <1>1, <3>1, SymbolIs
    <3>3. QED
      BY Zenon, <3>1, <3>2
  <2>3. QED
    BY Zenon, <2>1, <2>2
<1>2. ASSUME NEW m
      PROVE  Selects(m) <=> Selected(m)
  <2>1. CASE A!opt["modulus"] = A!NotGiven
    <3>1. raw = <<"x">>
      BY Zenon, <2>1
    <3>2. 1 \in DOMAIN <<"x">> /\ <<"x">>[1] = "x" /\ "x" \notin {"0", "1"}
      OBVIOUS
    <3>3. "x" \in A!ToSet(<<"x">>)
      BY Zenon, <3>2 DEF A!ToSet
    <3> HIDE DEF raw
    <3>4. QED
      BY Zenon, <2>1, <3>1, <3>2, <3>3
  <2>2. CASE A!opt["modulus"] # A!NotGiven
    <3>1. /\ A!Ident("modulus") = A!NetNamed(A!opt["modulus"])
          /\ A!Ident("modulus") \in Nets
      BY Zenon, <2>2, ControlIs DEF A!Controls
    <3>2. raw = A!Get(vals, A!Ident("modulus"), <<"x">>)
      BY Zenon, <2>2
    <3> HIDE DEF raw
    <3>3. Reads(raw, m) <=> Reads(A!ValueAt(A!Ident("modulus"), t), m)
      BY Zenon, <3>1, <3>2, ModulusIs
    <3>4. QED
      BY Zenon, <2>2, <3>1, <3>3 DEF Reads
  <2>3. QED
    BY Zenon, <2>1, <2>2
<1>3. A!classify(vals) =
          IF Is("reset", hot) THEN "zeroize"
          ELSE IF Is("fault", "1") THEN "fault"
          ELSE IF ~Is("busy", "1") THEN "idle"
          ELSE IF Selects(A!opt.kem_modulus) THEN "kem"
          ELSE IF Selects(A!opt.dsa_modulus) THEN "dsa"
          ELSE A!opt.default_active_state
  BY Zenon DEF A!classify
<1>4. A!StateBefore(t) =
          IF Was("reset", hot) THEN "zeroize"
          ELSE IF Was("fault", "1") THEN "fault"
          ELSE IF ~Was("busy", "1") THEN "idle"
          ELSE IF Selected(A!opt.kem_modulus) THEN "kem"
          ELSE IF Selected(A!opt.dsa_modulus) THEN "dsa"
          ELSE A!opt.default_active_state
  BY Zenon DEF A!StateBefore, Reads
<1>5. /\ hot # "x" /\ "1" # "x"
      /\ "reset" \in A!Controls /\ "fault" \in A!Controls
             /\ "busy" \in A!Controls
  BY DEF A!Controls
<1> HIDE DEF hot, Is, Was, Selects, Selected
<1>6. /\ Is("reset", hot) <=> Was("reset", hot)
      /\ Is("fault", "1") <=> Was("fault", "1")
      /\ Is("busy", "1") <=> Was("busy", "1")
  BY Zenon, <1>1, <1>5
<1>7. QED
  BY <1>2, <1>3, <1>4, <1>6

-----------------------------------------------------------------------------
(* The blocks that were sampled are those of the times before Upto.        *)
Upto == IF next_block = 1 THEN 0 ELSE blocks[next_block - 1].time + 1

(* No block lies between those that were sampled and the next.             *)
LEMMA GapIs ==
    ASSUME Times \subseteq Nat, Blocked(blocks, dumped.now, wave),
           next_block \in 1 .. Len(blocks)
    PROVE  /\ Upto \in Nat /\ Upto <= blocks[next_block].time
           /\ blocks[next_block].time \in Times
           /\ \A j \in 1 .. Len(blocks) :
                  blocks[j].time < blocks[next_block].time + 1 =>
                      \/ blocks[j].time < Upto
                      \/ blocks[j].time = blocks[next_block].time
<1> DEFINE k == next_block
           n == Len(blocks)
           at(j) == blocks[j].time
<1>1. /\ n \in Nat /\ \A j \in 1 .. n : at(j) \in Times
      /\ \A i, j \in 1 .. n : i < j => at(i) < at(j)
  BY Zenon, ListIs DEF Blocked
<1>2. \A j \in 1 .. n : at(j) \in Nat
  BY Zenon, <1>1
<1>3. Upto = IF k = 1 THEN 0 ELSE at(k - 1) + 1
  BY Zenon DEF Upto
<1>4. k \in 1 .. n /\ (k # 1 => k - 1 \in 1 .. n /\ k - 1 < k)
  BY <1>1
<1> HIDE DEF at, k, n
<1>5. Upto \in Nat /\ Upto <= at(k)
  <2>1. CASE k = 1
    BY <1>2, <1>3, <1>4, <2>1
  <2>2. CASE k # 1
    <3>1. at(k - 1) \in Nat /\ at(k) \in Nat /\ at(k - 1) < at(k)
      BY Zenon, <1>1, <1>2, <1>4, <2>2
    <3> DEFINE x == at(k - 1)
               y == at(k)
    <3>2. x \in Nat /\ y \in Nat /\ x < y /\ Upto = x + 1
      BY Zenon, <1>3, <2>2, <3>1
    <3> HIDE DEF x, y
    <3>3. Upto \in Nat /\ Upto <= y
      BY <3>2
    <3>4. QED
      BY Zenon, <3>3 DEF y
  <2>3. QED
    BY Zenon, <2>1, <2>2
<1>6. ASSUME NEW j \in 1 .. n, at(j) < at(k) + 1
      PROVE  at(j) < Upto \/ at(j) = at(k)
  <2>1. j \in Int /\ k \in Int
    BY <1>1, <1>4
  <2>2. CASE j = k
    BY Zenon, <2>2
  <2>3. CASE j > k
    <3>1. k < j
      BY <2>1, <2>3
    <3>2. at(k) < at(j) /\ at(k) \in Nat /\ at(j) \in Nat
      BY Zenon, <1>1, <1>2, <1>4, <3>1
    <3> DEFINE x == at(j)
               y == at(k)
    <3>3. y < x /\ x < y + 1 /\ x \in Nat /\ y \in Nat
      BY Zenon, <1>6, <3>2
    <3> HIDE DEF x, y
    <3>4. FALSE
      BY <3>3
    <3>5. QED
      BY <3>4
  <2>4. CASE j < k
    <3>1. k # 1 /\ k - 1 \in 1 .. n /\ (j = k - 1 \/ j < k - 1)
      BY <1>1, <1>4, <2>4
    <3>2. j < k - 1 => at(j) < at(k - 1)
      BY Zenon, <1>1, <3>1
    <3> DEFINE x == at(j)
               y == at(k - 1)
    <3>3. x \in Nat /\ y \in Nat /\ (x = y \/ x < y) /\ Upto = y + 1
      BY Zenon, <1>2, <1>3, <3>1, <3>2
    <3> HIDE DEF x, y
    <3>4. x < Upto
      BY <3>3
    <3>5. QED
      BY Zenon, <3>4 DEF x
  <2>5. QED
    BY <2>1, <2>2, <2>3, <2>4
<1>7. QED
  BY Zenon, <1>1, <1>4, <1>5, <1>6 DEF at, k, n

Clock == A!NetNamed(A!opt["clock"])
(* An edge of the clock is at the time of a block.                         *)
LEMMA EdgeIs ==
    ASSUME Times \subseteq Nat, Blocked(blocks, dumped.now, wave),
           Clock \in Nets, NEW e \in A!Edges
    PROVE  \E j \in 1 .. Len(blocks) : blocks[j].time = e
<1>1. /\ e \in Times /\ A!ValueAt(Clock, e + 1) = <<"1">>
      /\ A!ValueAt(Clock, e) # <<"1">>
  BY Zenon DEF A!Edges, Clock
<1>2. e \in Nat /\ e + 1 \in Nat /\ e <= e + 1
  BY <1>1
<1>3. Clock \in DOMAIN wave[e]
  <2>1. SUFFICES ASSUME Clock \notin DOMAIN wave[e] PROVE FALSE
    OBVIOUS
  <2>2. \A t \in Times : e <= t /\ t < e + 1 => t = e
    BY <1>2
  <2>3. \A t \in Times : e <= t /\ t < e + 1 => Clock \notin DOMAIN wave[t]
    BY Zenon, <2>1, <2>2
  <2>4. A!ValueAt(Clock, e) = A!ValueAt(Clock, e + 1)
    BY Zenon, <1>2, <2>3, ValueStays
  <2>5. QED
    BY Zenon, <1>1, <2>4
<1>4. QED
  BY Zenon, <1>1, <1>3 DEF Blocked

(* The samples are those of the edges es, all that are before a time.      *)
SampleOf(es, j) ==
    [timestamp_ns |-> A!_time_to_ns(es[j]), state |-> A!StateBefore(es[j]),
     toggles |-> A!Switched(A!CycleStart(es, j), es[j] + 1)]
Sampled(es, upto, of, snapshot) ==
    /\ IsList(of) /\ DOMAIN es = 1 .. Len(of)
    /\ \A j \in 1 .. Len(of) : /\ es[j] \in A!Edges /\ es[j] < upto
                               /\ A!Representable(es[j])
                               /\ of[j] = SampleOf(es, j)
    /\ \A e \in A!Edges : e < upto => \E j \in 1 .. Len(of) : es[j] = e
    /\ \A i, j \in 1 .. Len(of) : i < j => es[i] < es[j]
    /\ snapshot = IF Len(of) = 0 THEN << >> ELSE Shot(es[Len(of)] + 1)
SampleInv ==
    /\ next_block \in 1 .. Len(blocks) + 1
    /\ Holds(values, Upto)
    /\ previous_clock = <<"1">> <=> A!ValueAt(Clock, Upto) = <<"1">>
    /\ \E es : Sampled(es, Upto, samples, previous_snapshot)

(* The waveform does not change any more, and neither does what is counted *)
(* between two times.                                                      *)
LEMMA SwitchedStays ==
    ASSUME sim' = sim, wave' = wave, NEW a, NEW b
    PROVE  A!Switched(a, b)' = A!Switched(a, b)
  BY DEF A!Switched, A!Units, A!UnitOf, A!Counted, A!Switches, A!Weight,
         A!FirstPath, A!Rank, A!ValueAt, A!Changes, A!NetNamed, A!Names, A!opt,
         A!WidthOf, A!Declarations, A!NetOf, A!DeclaredPath

(* Nothing that is read of the waveform changes while it does not.         *)
LEMMA WaveformStays ==
    ASSUME sim' = sim, wave' = wave, variables' = variables,
           timescale' = timescale
    PROVE  /\ A!Edges' = A!Edges /\ Clock' = Clock /\ Nets' = Nets
           /\ \A a, b : A!Switched(a, b)' = A!Switched(a, b)
           /\ \A a : A!StateBefore(a)' = A!StateBefore(a)
           /\ \A a : Shot(a)' = Shot(a)
           /\ \A a : A!_time_to_ns(a)' = A!_time_to_ns(a)
           /\ \A a : A!Representable(a)' <=> A!Representable(a)
           /\ \A net, a : /\ A!Changes(net, a)' = A!Changes(net, a)
                          /\ A!ValueAt(net, a)' = A!ValueAt(net, a)
<1>1. A!Edges' = A!Edges /\ Clock' = Clock /\ Nets' = Nets
  BY DEF A!Edges, Clock, Nets, A!ValueAt, A!Changes, A!NetNamed, A!Names,
         A!opt, A!WidthOf, A!Declarations, A!NetOf, A!DeclaredPath
<1>2. ASSUME NEW a
      PROVE  A!StateBefore(a)' = A!StateBefore(a)
  BY DEF A!StateBefore, A!ValueAt, A!Changes, A!NetNamed, A!Names, A!opt,
         A!WidthOf, A!Declarations, A!NetOf, A!DeclaredPath
<1>3. ASSUME NEW a
      PROVE  Shot(a)' = Shot(a)
  BY DEF Shot, A!select_signals, A!Eligible, A!Ident, A!Resolve, A!Before,
         A!Rank, A!ValueAt, A!Changes, A!NetNamed, A!Names, A!opt, A!WidthOf,
         A!Declarations, A!NetOf, A!DeclaredPath, A!togglable
<1>4. ASSUME NEW a
      PROVE  /\ A!_time_to_ns(a)' = A!_time_to_ns(a)
             /\ A!Representable(a)' <=> A!Representable(a)
  BY DEF A!_time_to_ns, A!Representable
<1>5. ASSUME NEW net, NEW a
      PROVE  /\ A!Changes(net, a)' = A!Changes(net, a)
             /\ A!ValueAt(net, a)' = A!ValueAt(net, a)
  BY DEF A!ValueAt, A!Changes, A!WidthOf, A!Declarations, A!NetOf
<1>6. QED
  BY Zenon, <1>1, <1>2, <1>3, <1>4, <1>5, SwitchedStays

(* The invariant of sampling, read in the next state.                      *)
LEMMA SampleInvNext ==
    ASSUME sim' = sim, wave' = wave, variables' = variables,
           timescale' = timescale, NEW t, Upto' = t,
           next_block' \in 1 .. Len(blocks') + 1, Holds(values', t),
           previous_clock' = <<"1">> <=> A!ValueAt(Clock, t) = <<"1">>,
           NEW es, Sampled(es, t, samples', previous_snapshot')
    PROVE  SampleInv'
<1>1. Holds(values, Upto)'
  <2>1. Nets' = Nets
    BY Zenon, WaveformStays
  <2>2. \A net : /\ A!Changes(net, t)' = A!Changes(net, t)
                 /\ A!ValueAt(net, t)' = A!ValueAt(net, t)
    BY Zenon, WaveformStays
  <2>3. QED
    BY Zenon, <2>1, <2>2 DEF Holds
<1>2. (previous_clock = <<"1">> <=> A!ValueAt(Clock, Upto) = <<"1">>)'
  BY Zenon, WaveformStays
<1>3. Sampled(es, Upto, samples, previous_snapshot)'
  <2>1. \A j : SampleOf(es, j)' = SampleOf(es, j)
    BY Zenon, WaveformStays DEF SampleOf, A!CycleStart
  <2>2. /\ A!Edges' = A!Edges /\ \A a : Shot(a)' = Shot(a)
        /\ \A a : A!Representable(a)' <=> A!Representable(a)
    BY Zenon, WaveformStays
  <2>3. QED
    BY Zenon, <2>1, <2>2 DEF Sampled
<1>4. QED
  BY Zenon, <1>1, <1>2, <1>3 DEF SampleInv

(* One edge more.                                                          *)
LEMMA SampledGains ==
    ASSUME NEW es, NEW upto \in Nat, NEW of, NEW snapshot,
           Sampled(es, upto, of, snapshot), A!Edges \subseteq Nat,
           NEW t \in A!Edges, upto <= t, A!Representable(t),
           \A e \in A!Edges : e < t + 1 => e < upto \/ e = t,
           NEW more, NEW g,
           g = [j \in 1 .. Len(of) + 1 |->
                   IF j = Len(of) + 1 THEN t ELSE es[j]],
           more = Append(of, SampleOf(g, Len(of) + 1))
    PROVE  Sampled(g, t + 1, more, Shot(t + 1))
<1> DEFINE n == Len(of)
           x == SampleOf(g, n + 1)
<1>1. /\ IsList(of) /\ n \in Nat /\ DOMAIN es = 1 .. n
      /\ \A j \in 1 .. n : /\ es[j] \in A!Edges /\ es[j] < upto
                           /\ A!Representable(es[j]) /\ of[j] = SampleOf(es, j)
      /\ \A e \in A!Edges : e < upto => \E j \in 1 .. n : es[j] = e
      /\ \A i, j \in 1 .. n : i < j => es[i] < es[j]
  BY Zenon, ListIs DEF Sampled
<1>2. /\ IsList(more) /\ Len(more) = n + 1 /\ more[n + 1] = x
      /\ \A j \in 1 .. n : more[j] = of[j]
  <2>1. PICK X : of \in Seq(X)
    BY <1>1 DEF IsList
  <2> HIDE DEF x
  <2>2. more = Append(of, x)
    BY DEF x
  <2>3. Len(more) = n + 1 /\ more[n + 1] = x
            /\ \A k \in 1 .. n : more[k] = of[k]
    BY <2>1, <2>2
  <2>4. QED
    BY <1>1, <2>2, <2>3, ListMore
<1>3. /\ g[n + 1] = t /\ DOMAIN g = 1 .. n + 1
      /\ \A j \in 1 .. n : g[j] = es[j]
  BY <1>1
<1>4. \A j : j \in 1 .. n + 1 <=> j \in 1 .. n \/ j = n + 1
  BY <1>1
<1> HIDE DEF n, x
<1>5. \A j \in 1 .. n : SampleOf(g, j) = SampleOf(es, j)
  <2> SUFFICES ASSUME NEW j \in 1 .. n PROVE SampleOf(g, j) = SampleOf(es, j)
    OBVIOUS
  <2>1. j = 1 \/ j - 1 \in 1 .. n
    BY <1>1
  <2>2. A!CycleStart(g, j) = A!CycleStart(es, j)
    <3>1. CASE j = 1
      <4>1. g[1] = es[1]
        BY Zenon, <1>3, <3>1
      <4>2. QED
        BY Zenon, <3>1, <4>1 DEF A!CycleStart
    <3>2. CASE j # 1
      <4>1. g[j - 1] = es[j - 1]
        BY Zenon, <1>3, <2>1, <3>2
      <4>2. A!CycleStart(g, j) = g[j - 1] + 1
                /\ A!CycleStart(es, j) = es[j - 1] + 1
        BY Zenon, <3>2 DEF A!CycleStart
      <4>3. QED
        BY <4>1, <4>2
    <3>3. QED
      BY Zenon, <3>1, <3>2
  <2>3. QED
    BY Zenon, <1>3, <2>2 DEF SampleOf
<1>6. t < t + 1 /\ t \in Nat /\ \A e \in Nat : e < upto => e < t /\ e < t + 1
  <2>1. t \in Nat
    OBVIOUS
  <2>2. QED
    BY <2>1
<1>7. ASSUME NEW j \in 1 .. n + 1
      PROVE  /\ g[j] \in A!Edges /\ g[j] < t + 1 /\ A!Representable(g[j])
             /\ more[j] = SampleOf(g, j)
  <2>1. CASE j = n + 1
    BY Zenon, <1>2, <1>3, <1>6, <2>1 DEF x
  <2>2. CASE j \in 1 .. n
    <3>1. g[j] \in Nat
      BY Zenon, <1>1, <1>3, <2>2
    <3>2. QED
      BY Zenon, <1>1, <1>2, <1>3, <1>5, <1>6, <2>2, <3>1
  <2>3. QED
    BY Zenon, <1>4, <2>1, <2>2
<1>8. \A e \in A!Edges : e < t + 1 => \E j \in 1 .. n + 1 : g[j] = e
  BY Zenon, <1>1, <1>3, <1>4
<1>9. \A i, j \in 1 .. n + 1 : i < j => g[i] < g[j]
  <2> SUFFICES ASSUME NEW i \in 1 .. n + 1, NEW j \in 1 .. n + 1, i < j
               PROVE  g[i] < g[j]
    OBVIOUS
  <2>1. i \in 1 .. n
    BY <1>1
  <2>2. CASE j \in 1 .. n
    BY Zenon, <1>1, <1>3, <2>1, <2>2
  <2>3. CASE j = n + 1
    <3>1. es[i] \in Nat /\ es[i] < upto
      BY Zenon, <1>1, <2>1
    <3>2. QED
      BY Zenon, <1>3, <1>6, <2>1, <2>3, <3>1
  <2>4. QED
    BY Zenon, <1>4, <2>2, <2>3
<1>10. n + 1 # 0
  BY <1>1
<1>11. QED
  BY Zenon, <1>2, <1>3, <1>7, <1>8, <1>9, <1>10 DEF Sampled

(* A block without an edge.                                                *)
LEMMA SampledStays ==
    ASSUME NEW es, NEW upto \in Nat, NEW of, NEW snapshot,
           Sampled(es, upto, of, snapshot), A!Edges \subseteq Nat,
           NEW t \in Nat, t \notin A!Edges, upto <= t,
           \A e \in A!Edges : e < t + 1 => e < upto \/ e = t
    PROVE  Sampled(es, t + 1, of, snapshot)
<1>1. \A j \in 1 .. Len(of) : es[j] < t + 1
  <2> SUFFICES ASSUME NEW j \in 1 .. Len(of) PROVE es[j] < t + 1
    OBVIOUS
  <2>1. es[j] \in Nat /\ es[j] < upto
    BY Zenon DEF Sampled
  <2>2. QED
    BY <2>1
<1>2. \A e \in A!Edges : e < t + 1 => \E j \in 1 .. Len(of) : es[j] = e
  BY Zenon DEF Sampled
<1>3. QED
  BY Zenon, <1>1, <1>2 DEF Sampled

(* A block is sampled.                                                     *)
LEMMA SampleKeeps ==
    ASSUME A!AreSimulations, sim \in Simulations, Declared, BodyInv, Settled,
           SampleInv, A!SampleBlock
    PROVE  /\ sim' = sim /\ variables' = variables /\ timescale' = timescale
           /\ blocks' = blocks /\ dumped' = dumped /\ wave' = wave
           /\ trace' = trace
           /\ \/ stage' = "sample" /\ SampleInv'
              \/ stage' = "error" /\ \E e \in A!Edges : ~A!Representable(e)
<1> DEFINE b == blocks[next_block]
           t == b.time
           U == Upto
           now == A!Updated(values, b.changes)
           clock == A!Get(now, A!Ident("clock"), <<"x">>)
           rising == clock = <<"1">> /\ previous_clock # <<"1">>
<1>1. /\ sim' = sim /\ variables' = variables /\ timescale' = timescale
      /\ blocks' = blocks /\ dumped' = dumped /\ wave' = wave /\ trace' = trace
      /\ stage = "sample" /\ next_block <= Len(blocks)
      /\ next_block' = next_block + 1
      /\ values' = now /\ previous_clock' = clock
      /\ IF rising /\ ~A!Representable(t)
         THEN stage' = "error" /\ samples' = samples
                  /\ previous_snapshot' = previous_snapshot
         ELSE /\ stage' = stage
              /\ IF rising
                 THEN /\ previous_snapshot' = A!SnapshotOf(now)
                      /\ samples' = Append(samples, A!Sample(b, now))
                 ELSE samples' = samples
                     /\ previous_snapshot' = previous_snapshot
  BY Zenon DEF A!SampleBlock, A!parseVars, A!fail
<1>2. /\ Times \subseteq Nat /\ IsList(sim.header)
      /\ Blocked(blocks, dumped.now, wave) /\ Len(blocks) \in Nat
  BY Zenon, SimulationIs, ListIs DEF BodyInv, Blocked
<1>3. /\ next_block \in 1 .. Len(blocks)
      /\ next_block + 1 \in 1 .. Len(blocks) + 1
      /\ next_block + 1 # 1 /\ (next_block + 1) - 1 = next_block
  BY <1>1, <1>2 DEF SampleInv
<1>4. /\ U \in Nat /\ U <= t /\ t \in Times
      /\ \A j \in 1 .. Len(blocks) :
             blocks[j].time < t + 1 => blocks[j].time < U \/ blocks[j].time = t
  BY Zenon, <1>2, <1>3, GapIs
<1>5. t \in Nat /\ t + 1 \in Nat
  <2>1. t \in Nat
    BY Zenon, <1>2, <1>4
  <2> HIDE DEF t
  <2>2. QED
    BY <2>1
<1>6. A!Ident("clock") = Clock /\ Clock \in Nets
  <2>1. A!Found("clock")
    BY Zenon DEF Settled
  <2>2. A!Ident("clock") = Clock /\ A!Ident("clock") \in Nets
    BY Zenon, <2>1, FoundIs DEF Clock
  <2>3. QED
    BY Zenon, <2>2
<1>7. PICK pos : Listed(pos)
  BY Zenon, <1>2, ListedIs
<1> HIDE DEF U, t, now, clock
<1>8. \A s \in Times, net \in Nets :
          U <= s /\ s < t => net \notin DOMAIN wave[s]
  <2> SUFFICES ASSUME NEW s \in Times, NEW net \in Nets, U <= s, s < t,
                      net \in DOMAIN wave[s]
               PROVE  FALSE
    BY Zenon
  <2>1. PICK j \in 1 .. Len(blocks) : blocks[j].time = s
    BY Zenon, <1>2 DEF Blocked
  <2>2. s < t + 1 /\ s # t /\ ~(s < U)
    BY <1>2, <1>4, <1>5
  <2>3. QED
    BY Zenon, <1>4, <2>1, <2>2
<1>9. Holds(values, t)
  BY Zenon, <1>2, <1>4, <1>5, <1>8, HoldsOn DEF SampleInv, U
<1>10. Holds(now, t + 1)
  <2>1. \A net \in Nets : Same(net, b.changes, wave[t])
    BY Zenon, <1>2, <1>3 DEF Blocked, t
  <2>2. QED
    BY Zenon, <1>2, <1>4, <1>9, <2>1, HoldsNext DEF now
<1>11. clock = <<"1">> <=> A!ValueAt(Clock, t + 1) = <<"1">>
  <2>1. "1" # "x"
    OBVIOUS
  <2>2. A!Get(now, Clock, <<"x">>) = <<"1">>
            <=> A!ValueAt(Clock, t + 1) = <<"1">>
    BY Zenon, <1>6, <1>10, <2>1, SymbolIs
  <2>3. QED
    BY Zenon, <1>6, <2>2 DEF clock
<1>12. previous_clock = <<"1">> <=> A!ValueAt(Clock, t) = <<"1">>
  <2>1. \A s \in Times : U <= s /\ s < t => Clock \notin DOMAIN wave[s]
    BY Zenon, <1>6, <1>8
  <2>2. A!ValueAt(Clock, U) = A!ValueAt(Clock, t)
    BY Zenon, <1>2, <1>4, <1>5, <2>1, ValueStays
  <2>3. QED
    BY Zenon, <2>2 DEF SampleInv, U
<1>13. rising <=> t \in A!Edges
  <2>1. t \in A!Edges <=> /\ A!ValueAt(Clock, t + 1) = <<"1">>
                          /\ A!ValueAt(Clock, t) # <<"1">>
    BY Zenon, <1>4 DEF A!Edges, Clock
  <2>2. QED
    BY Zenon, <1>11, <1>12, <2>1
<1> HIDE DEF rising
<1>14. \A e \in A!Edges : e \in Nat /\ (e < t + 1 => e < U \/ e = t)
  <2> SUFFICES ASSUME NEW e \in A!Edges
               PROVE  e \in Nat /\ (e < t + 1 => e < U \/ e = t)
    OBVIOUS
  <2>1. PICK j \in 1 .. Len(blocks) : blocks[j].time = e
    BY Zenon, <1>2, <1>6, EdgeIs
  <2>2. e \in Times
    BY Zenon DEF A!Edges
  <2>3. QED
    BY Zenon, <1>2, <1>4, <2>1, <2>2
<1>15. Upto' = t + 1
  BY Zenon, <1>1, <1>3 DEF Upto, t
<1>16. PICK es : Sampled(es, U, samples, previous_snapshot)
  BY Zenon DEF SampleInv, U
<1>17. CASE rising /\ ~A!Representable(t)
  BY Zenon, <1>1, <1>13, <1>17
<1> DEFINE goal == \E g : Sampled(g, t + 1, samples', previous_snapshot')
<1>18. ASSUME stage' = "sample", goal
       PROVE  stage' = "sample" /\ SampleInv'
  <2>1. PICK g : Sampled(g, t + 1, samples', previous_snapshot')
    BY Zenon, <1>18
  <2>2. next_block' \in 1 .. Len(blocks') + 1 /\ Holds(values', t + 1)
    BY Zenon, <1>1, <1>3, <1>10
  <2>3. previous_clock' = <<"1">> <=> A!ValueAt(Clock, t + 1) = <<"1">>
    BY Zenon, <1>1, <1>11
  <2> DEFINE s == t + 1
  <2>4. /\ Upto' = s /\ Holds(values', s)
        /\ previous_clock' = <<"1">> <=> A!ValueAt(Clock, s) = <<"1">>
        /\ Sampled(g, s, samples', previous_snapshot')
    BY Zenon, <1>15, <2>1, <2>2, <2>3
  <2> HIDE DEF s, goal
  <2>5. SampleInv'
    BY Zenon, <1>1, <2>2, <2>4, SampleInvNext
  <2>6. QED
    BY Zenon, <1>18, <2>5
<1>19. CASE ~rising
  <2>1. stage' = "sample" /\ samples' = samples
            /\ previous_snapshot' = previous_snapshot
    BY Zenon, <1>1, <1>19
  <2>2. t \notin A!Edges
    BY Zenon, <1>13, <1>19
  <2>3. A!Edges \subseteq Nat
    BY Zenon, <1>14
  <2>4. Sampled(es, t + 1, samples, previous_snapshot)
    BY Zenon, <1>4, <1>5, <1>14, <1>16, <2>2, <2>3, SampledStays
  <2>5. goal
    BY Zenon, <2>1, <2>4
  <2>6. QED
    BY Zenon, <1>1, <1>18, <2>1, <2>5
<1>20. CASE rising /\ A!Representable(t)
  <2> DEFINE n == Len(samples)
             g == [j \in 1 .. n + 1 |-> IF j = n + 1 THEN t ELSE es[j]]
             a == A!CycleStart(g, n + 1)
  <2>1. /\ stage' = "sample" /\ previous_snapshot' = A!SnapshotOf(now)
        /\ samples' = Append(samples, A!Sample(b, now))
    BY Zenon, <1>1, <1>20
  <2>2. t \in A!Edges /\ A!Edges \subseteq Nat
    BY Zenon, <1>13, <1>14, <1>20
  <2>3. /\ n \in Nat /\ \A j \in 1 .. n : es[j] \in A!Edges
        /\ previous_snapshot = IF n = 0 THEN << >> ELSE Shot(es[n] + 1)
    BY Zenon, <1>16, ListIs DEF Sampled
  <2>4. A!SnapshotOf(now) = Shot(t + 1) /\ A!SnapshotOf(values) = Shot(t)
    BY Zenon, <1>6, <1>7, <1>9, <1>10, SnapshotIs DEF Clock
  <2>5. A!Reference = Shot(a) /\ a \in Nat
    <3>1. CASE n = 0
      <4>1. a = t
        BY <3>1 DEF A!CycleStart
      <4>2. previous_snapshot = << >>
        BY Zenon, <2>3, <3>1
      <4> HIDE DEF a
      <4>3. QED
        BY Zenon, <1>5, <2>4, <4>1, <4>2 DEF A!Reference
    <3>2. CASE n # 0
      <4>1. /\ n \in 1 .. n /\ n + 1 # 1 /\ (n + 1) - 1 = n /\ n # n + 1
            /\ n \in 1 .. n + 1
        BY <2>3, <3>2
      <4>2. g[n] = es[n]
        BY Zenon, <4>1
      <4>3. a = es[n] + 1
        BY Zenon, <4>1, <4>2 DEF A!CycleStart
      <4>4. es[n] \in Nat
        BY Zenon, <2>2, <2>3, <4>1
      <4>5. a \in Nat
        BY <4>3, <4>4
      <4>6. previous_snapshot = Shot(a)
        BY Zenon, <2>3, <3>2, <4>3
      <4>7. Shot(a) # << >>
        <5>1. PICK i \in A!Counted : TRUE
          BY Zenon DEF Settled
        <5>2. PICK k \in A!select_signals : A!UnitOf(pos[k]) = A!UnitOf(i)
          BY Zenon, <1>6, <1>7, SelectionIs DEF Clock
        <5>3. k \in DOMAIN Shot(a)
          BY Zenon DEF Shot
        <5>4. k \notin DOMAIN << >>
          OBVIOUS
        <5>5. QED
          BY Zenon, <5>3, <5>4
      <4> HIDE DEF a
      <4>8. QED
        BY Zenon, <4>5, <4>6, <4>7 DEF A!Reference
    <3>3. QED
      BY Zenon, <3>1, <3>2
  <2>6. A!Toggles(Shot(a), Shot(t + 1)) = A!Switched(a, t + 1)
    <3> HIDE DEF a
    <3>1. Fitting(a) /\ Fitting(t + 1)
      BY Zenon, <1>2, <1>5, <2>5, ValuesFit
    <3>2. QED
      BY Zenon, <1>6, <1>7, <3>1, TogglesAre DEF Clock
  <2>7. A!classify(values) = A!StateBefore(t)
    BY Zenon, <1>9, ClassifyIs
  <2>8. g[n + 1] = t
    <3>1. n + 1 \in 1 .. n + 1
      BY <2>3
    <3>2. QED
      BY Zenon, <3>1
  <2>9. A!Sample(b, now) = SampleOf(g, n + 1)
    <3>1. A!Sample(b, now) =
              [timestamp_ns |-> A!_time_to_ns(t), state |-> A!classify(values),
               toggles |-> A!Toggles(A!Reference, A!SnapshotOf(now))]
      BY Zenon DEF A!Sample, t
    <3>2. SampleOf(g, n + 1) =
              [timestamp_ns |-> A!_time_to_ns(t), state |-> A!StateBefore(t),
               toggles |-> A!Switched(a, t + 1)]
      BY Zenon, <2>8 DEF SampleOf
    <3> HIDE DEF a, g
    <3>3. QED
      BY Zenon, <2>4, <2>5, <2>6, <2>7, <3>1, <3>2
  <2> DEFINE more == Append(samples, SampleOf(g, n + 1))
  <2>10. samples' = more /\ previous_snapshot' = Shot(t + 1)
    <3> HIDE DEF g, n
    <3>1. QED
      BY Zenon, <2>1, <2>4, <2>9
  <2>11. Sampled(g, t + 1, more, Shot(t + 1))
    BY Zenon, <1>4, <1>14, <1>16, <1>20, <2>2, SampledGains
  <2>12. goal
    <3> HIDE DEF more, g
    <3>1. QED
      BY Zenon, <2>10, <2>11
  <2>13. QED
    BY Zenon, <1>1, <1>18, <2>1, <2>12
<1>21. QED
  BY Zenon, <1>17, <1>19, <1>20

-----------------------------------------------------------------------------
(* What is said of a dump stays as it is while the dump does.              *)
LEMMA DumpStays ==
    ASSUME sim' = sim, wave' = wave
    PROVE  /\ A!Scale' = A!Scale /\ A!Edges' = A!Edges /\ A!Recount' = A!Recount
           /\ \A s : A!Found(s)' <=> A!Found(s)
           /\ A!Counted' = A!Counted /\ (A!Slow' <=> A!Slow)
           /\ (A!WellFormed' <=> A!WellFormed) /\ (A!HeaderCut' <=> A!HeaderCut)
           /\ A!Named' <=> A!Named
           /\ dumped'.stray = dumped.stray => (A!Usable' <=> A!Usable)
<1>1. A!Scale' = A!Scale
  BY DEF A!Scale
<1>2. A!Edges' = A!Edges
  BY DEF A!Edges, A!ValueAt, A!Changes, A!NetNamed, A!Names, A!opt,
         A!WidthOf, A!Declarations, A!NetOf, A!DeclaredPath
<1>3. \A s : A!Found(s)' <=> A!Found(s)
  BY DEF A!Found, A!Names, A!opt, A!Declarations, A!NetOf, A!DeclaredPath
<1>4. A!Counted' = A!Counted
  BY DEF A!Counted, A!NetNamed, A!Names, A!opt, A!Declarations, A!NetOf,
         A!DeclaredPath
<1>5. A!Recount' = A!Recount
  <2>1. \A a, b : A!Switched(a, b)' = A!Switched(a, b)
    BY Zenon, SwitchedStays
  <2>2. QED
    BY <1>2, <2>1 DEF A!Recount
<1>6. A!Slow' <=> A!Slow
  BY <1>1, <1>2 DEF A!Slow
<1>7. A!opt' = A!opt
  BY DEF A!opt
<1>8. /\ (A!WellFormed' <=> A!WellFormed) /\ (A!HeaderCut' <=> A!HeaderCut)
      /\ A!Named' <=> A!Named
  BY <1>7 DEF A!WellFormed, A!HeaderCut, A!Named
<1>9. dumped'.stray = dumped.stray => (A!Usable' <=> A!Usable)
  BY <1>1, <1>2, <1>3, <1>4, <1>7, <1>8 DEF A!Usable
<1>10. QED
  BY Zenon, <1>1, <1>2, <1>3, <1>4, <1>5, <1>6, <1>8, <1>9

(* The header ends: with all declarations and the timescale, or the dump   *)
(* has none and is of no use.                                              *)
LEMMA HeaderCloses ==
    ASSUME A!AreSimulations, sim \in Simulations, HeaderInv, A!EndHeader
    PROVE  /\ A!WellFormed
           /\ \/ stage' = "body" /\ Declared /\ timescale = A!Scale
              \/ stage' = "error" /\ ~A!Usable
<1>1. /\ header = << >> /\ sim.ending = "closed"
      /\ IF variables = << >> \/ timescale = A!Missing THEN stage' = "error"
         ELSE stage' = "body"
  BY Zenon DEF A!EndHeader, A!fail
<1>2. Declared /\ timescale = A!Scale /\ A!WellFormed
  BY Zenon, <1>1, HeaderEnds
<1>3. CASE variables = << >>
  <2>1. PICK pos : Listed(pos)
    BY Zenon, <1>2, ListedIs, SimulationIs
  <2>2. \A k : k \notin DOMAIN variables
    BY <1>3
  <2>3. \A i : i \notin A!Declarations
    BY Zenon, <2>1, <2>2 DEF Listed
  <2>4. A!Counted = {}
    BY Zenon, <2>3 DEF A!Counted
  <2>5. QED
    BY Zenon, <1>1, <1>2, <1>3, <2>4 DEF A!Usable
<1>4. CASE timescale = A!Missing
  <2>1. A!Scale.parts = 0
    BY <1>2, <1>4 DEF A!Missing
  <2>2. ~(A!Scale.parts > 0)
    BY <2>1
  <2>3. QED
    BY Zenon, <1>1, <1>2, <1>4, <2>2 DEF A!Usable
<1>5. QED
  BY Zenon, <1>1, <1>2, <1>3, <1>4

(* A well-formed header is not cut.                                        *)
LEMMA WellFormedUncut == A!WellFormed => ~A!HeaderCut
BY Zenon DEF A!WellFormed, A!HeaderCut

(* The timescale of a dump, if it has one.                                 *)
LEMMA ScaleIs ==
    ASSUME A!AreSimulations, sim \in Simulations
    PROVE  A!IsTimescale(A!Scale)
<1> DEFINE of == {k \in DOMAIN sim.header : sim.header[k].token = "timescale"}
<1>1. PICK n \in Nat : DOMAIN sim.header = 1 .. n
  BY Zenon, SimulationIs, ListIs
<1>2. A!Scale = IF of = {} THEN A!Missing ELSE sim.header[A!Max(of)].scale
  BY Zenon DEF A!Scale
<1>3. of \subseteq 0 .. n
  BY <1>1
<1>4. \A k \in of : A!IsTimescale(sim.header[k].scale)
  BY Zenon, SimulationIs
<1> HIDE DEF of
<1>5. CASE of = {}
  BY <1>2, <1>5 DEF A!Missing, A!IsTimescale
<1>6. CASE of # {}
  <2>1. A!Max(of) \in of
    BY Zenon, <1>3, <1>6, LargestIs
  <2>2. QED
    BY Zenon, <1>2, <1>4, <1>6, <2>1
<1>7. QED
  BY Zenon, <1>5, <1>6

(* The file ends: the signals are settled, or the dump does not have what  *)
(* the command line names.                                                 *)
LEMMA FileCloses ==
    ASSUME A!AreSimulations, sim \in Simulations, Declared,
           timescale = A!Scale, A!EndOfFile
    PROVE  \/ stage' = "sample" /\ Settled
           \/ stage' = "error" /\ ~A!Usable
<1> DEFINE S == A!Controls \cup {"clock"}
<1>1. IF \/ timescale.parts = 0
         \/ A!opt["clock"] = A!NotGiven
         \/ \E s \in S : A!Ident(s) = "unresolved"
         \/ A!select_signals = {}
      THEN stage' = "error" ELSE stage' = "sample"
  BY Zenon DEF A!EndOfFile, A!fail
<1>2. A!Scale.parts \in Nat
  BY Zenon, ScaleIs DEF A!IsTimescale
<1>3. A!Scale.parts > 0 <=> timescale.parts # 0
  BY <1>2
<1>4. ASSUME NEW s \in S
      PROVE  (A!opt[s] = A!NotGiven \/ A!Found(s)) <=> A!Ident(s) # "unresolved"
  BY Zenon, FoundIs DEF A!NotGiven
<1>5. CASE \E s \in S : A!Ident(s) = "unresolved"
  <2>1. PICK s \in S : A!Ident(s) = "unresolved"
    BY <1>5
  <2>2. A!opt[s] # A!NotGiven /\ ~A!Found(s)
    BY Zenon, <1>4, <2>1
  <2>3. ~A!Usable
    BY Zenon, <2>2 DEF A!Usable
  <2>4. QED
    BY Zenon, <1>1, <1>5, <2>3
<1>6. CASE A!opt["clock"] = A!NotGiven
  <2>1. ~A!Found("clock")
    BY Zenon, <1>6, FoundIs DEF A!NotGiven
  <2>2. QED
    BY Zenon, <1>1, <1>6, <2>1 DEF A!Usable
<1>7. CASE /\ A!opt["clock"] # A!NotGiven
           /\ \A s \in S : A!Ident(s) # "unresolved"
  <2>1. A!Found("clock") /\ A!Ident("clock") = A!NetNamed(A!opt["clock"])
    BY Zenon, <1>4, <1>7, FoundIs
  <2>2. PICK pos : Listed(pos)
    BY Zenon, ListedIs, SimulationIs
  <2>3. A!select_signals = {} <=> A!Counted = {}
    <3>1. /\ \A k \in A!select_signals : pos[k] \in A!Counted
          /\ \A i \in A!Counted : \E k \in A!select_signals :
                 A!UnitOf(pos[k]) = A!UnitOf(i)
      BY Zenon, <2>1, <2>2, SelectionIs
    <3>2. QED
      BY Zenon, <3>1
  <2>4. \A s \in A!Controls : A!opt[s] = A!NotGiven \/ A!Found(s)
    BY Zenon, <1>4, <1>7
  <2>5. QED
    BY Zenon, <1>1, <1>3, <1>7, <2>1, <2>3, <2>4 DEF Settled, A!Usable
<1>8. QED
  BY Zenon, <1>5, <1>6, <1>7

(* Nothing is sampled before the signals are settled.                      *)
Unsampled ==
    /\ values = << >> /\ previous_clock = <<"x">> /\ previous_snapshot = << >>
    /\ next_block = 1 /\ samples = << >>
(* Sampling starts with what a dump holds before time 0.                   *)
LEMMA SampleStarts ==
    ASSUME A!AreSimulations, sim \in Simulations, Declared, Settled, Unsampled,
           Blocked(blocks, dumped.now, wave)
    PROVE  SampleInv
<1>1. Upto = 0
  BY DEF Upto, Unsampled
<1>2. Holds(values, Upto)
  BY Zenon, <1>1, HoldsInitially, SimulationIs DEF Unsampled
<1>3. next_block \in 1 .. Len(blocks) + 1
  <2>1. Len(blocks) \in Nat
    BY Zenon, ListIs DEF Blocked
  <2>2. QED
    BY <2>1 DEF Unsampled
<1>4. A!ValueAt(Clock, 0) # <<"1">>
  <2>1. A!Changes(Clock, 0) = {}
    <3>1. \A t \in Times : ~(t < 0)
      BY SimulationIs
    <3>2. QED
      BY Zenon, <3>1 DEF A!Changes
  <2> DEFINE w == A!WidthOf(Clock)
  <2>2. A!ValueAt(Clock, 0) = A!Xs(w)
    BY Zenon, <2>1 DEF A!ValueAt
  <2>3. Clock \in Nets
    <3>1. A!Found("clock")
      BY Zenon DEF Settled
    <3>2. A!Ident("clock") = Clock /\ A!Ident("clock") \in Nets
      BY Zenon, <3>1, FoundIs DEF Clock
    <3>3. QED
      BY Zenon, <3>2
  <2>4. w \in Nat \ {0}
    BY Zenon, <2>3, WidthIs DEF Nets
  <2> HIDE DEF w
  <2>5. A!Xs(w)[1] = "x" /\ <<"1">>[1] = "1"
    BY <2>4 DEF A!Xs
  <2>6. QED
    BY <2>2, <2>5
<1>5. Sampled(<< >>, 0, samples, previous_snapshot)
  <2> DEFINE es == << >>
  <2>1. IsList(samples) /\ Len(samples) = 0 /\ DOMAIN es = 1 .. 0
        /\ previous_snapshot = << >>
    <3>1. << >> \in Seq({})
      OBVIOUS
    <3>2. QED
      BY <3>1 DEF Unsampled, IsList
  <2>2. \A e \in A!Edges : ~(e < 0)
    BY SimulationIs DEF A!Edges
  <2>3. \A j : j \notin 1 .. 0
    OBVIOUS
  <2> HIDE DEF es
  <2>4. QED
    BY Zenon, <2>1, <2>2, <2>3 DEF Sampled, es
<1>6. previous_clock # <<"1">>
  BY DEF Unsampled
<1>7. QED
  BY Zenon, <1>1, <1>2, <1>3, <1>4, <1>5, <1>6 DEF SampleInv

-----------------------------------------------------------------------------
(* Division with remainder, and that both are unique.                      *)
LEMMA Divided ==
    ASSUME NEW a \in Nat, NEW b \in Nat, b > 0
    PROVE  /\ a \div b \in Nat /\ a % b \in 0 .. b - 1
           /\ a = b * (a \div b) + (a % b)
  OBVIOUS

(* A quotient is known from its remainder.                                 *)
LEMMA QuotientIs ==
    ASSUME NEW a \in Nat, NEW b \in Nat, b > 0, NEW q \in Int,
           NEW r \in 0 .. b - 1, a = b * q + r
    PROVE  a \div b = q
<1> DEFINE x == a \div b
           s == a % b
<1>1. x \in Nat /\ s \in 0 .. b - 1 /\ a = b * x + s
  BY Zenon, Divided
<1> HIDE DEF x, s
<1>2. ASSUME NEW d \in Int, d >= 1
      PROVE  b * d >= b
  BY <1>2
<1>3. b * (x - q) = r - s /\ b * (q - x) = s - r
  BY <1>1
<1>4. ~(x - q >= 1)
  <2>1. x - q \in Int
    BY <1>1
  <2>2. ASSUME x - q >= 1 PROVE FALSE
    <3>1. b * (x - q) >= b
      BY Zenon, <1>2, <2>1, <2>2
    <3>2. r - s >= b
      BY <1>3, <3>1
    <3>3. QED
      BY <1>1, <3>2
  <2>3. QED
    BY <2>2
<1>5. ~(q - x >= 1)
  <2>1. q - x \in Int
    BY <1>1
  <2>2. ASSUME q - x >= 1 PROVE FALSE
    <3>1. b * (q - x) >= b
      BY Zenon, <1>2, <2>1, <2>2
    <3>2. s - r >= b
      BY <1>3, <3>1
    <3>3. QED
      BY <1>1, <3>2
  <2>3. QED
    BY <2>2
<1>6. x = q
  BY <1>1, <1>4, <1>5
<1>7. QED
  BY <1>6 DEF x

(* What is rounded is the nearest whole number; and a slow clock is slow   *)
(* whichever way a half is rounded, as two seconds are an even number.     *)
LEMMA RoundIs ==
    ASSUME NEW a \in Nat, NEW b \in Nat, b > 0
    PROVE  /\ A!round(a, b) \in Nat
           /\ 2 * (A!round(a, b) * b - a) \in -b .. b
           /\ a >= b => A!round(a, b) >= 1
           /\ (a + b \div 2) \div b >= 2 * A!nanoseconds
                  <=> A!round(a, b) >= 2 * A!nanoseconds
<1> DEFINE q == a \div b
           r == a % b
           down == 2 * r < b \/ (2 * r = b /\ q % 2 = 0)
           x == A!round(a, b)
           h == b \div 2
           N == 2 * A!nanoseconds
<1>1. q \in Nat /\ r \in 0 .. b - 1 /\ a = b * q + r
  BY Zenon, Divided
<1>2. x = IF down THEN q ELSE q + 1
  BY Zenon DEF A!round
<1>3. h \in Nat /\ (b = 2 * h \/ b = 2 * h + 1)
  BY Z3
<1>4. N \in Nat
  BY DEF A!nanoseconds
<1>5. \A y \in Nat : y % 2 = 0 => y # N - 1
  BY DEF A!nanoseconds
<1>6. (a + h) \div b = IF r + h < b THEN q ELSE q + 1
  <2> HIDE DEF q, r, h
  <2>1. CASE r + h < b
    <3>1. a + h = b * q + (r + h) /\ r + h \in 0 .. b - 1 /\ a + h \in Nat
      BY <1>1, <1>3, <2>1
    <3>2. q \in Int
      BY <1>1
    <3>3. (a + h) \div b = q
      BY Zenon, <3>1, <3>2, QuotientIs
    <3>4. QED
      BY <2>1, <3>3
  <2>2. CASE ~(r + h < b)
    <3>1. a + h = (b * q + b) + (r + h - b) /\ r + h - b \in 0 .. b - 1
          /\ a + h \in Nat
      BY <1>1, <1>3, <2>2
    <3>2. b * (q + 1) = b * q + b
      BY <1>1
    <3>3. a + h = b * (q + 1) + (r + h - b)
      BY <3>1, <3>2
    <3>4. q + 1 \in Int
      BY <1>1
    <3>5. (a + h) \div b = q + 1
      BY Zenon, <3>1, <3>3, <3>4, QuotientIs
    <3>6. QED
      BY <2>2, <3>5
  <2>3. QED
    BY <2>1, <2>2
<1> DEFINE e == q % 2 = 0
<1>7. e => q # N - 1
  BY Zenon, <1>1, <1>5
<1>8. b * (q + 1) = b * q + b
  BY <1>1
<1>9. a >= b => q >= 1
  <2>1. q = 0 => b * q = 0
    BY <1>1
  <2> HIDE DEF q, r
  <2>2. QED
    BY <1>1, <2>1
<1> DEFINE p == b * q
<1>10. x * b = IF down THEN p ELSE p + b
  <2> HIDE DEF x
  <2>1. x = q => x * b = p
    BY <1>1
  <2>2. x = q + 1 => x * b = p + b
    BY <1>1, <1>8
  <2>3. QED
    BY Zenon, <1>2, <2>1, <2>2
<1>11. p \in Nat
  BY <1>1
<1> HIDE DEF e
<1>12. /\ x \in Nat
       /\ 2 * (x * b - a) \in -b .. b
       /\ a >= b => x >= 1
  <2>1. CASE down
    <3>1. 2 * r <= b
      BY <1>1, <2>1
    <3>2. x = q /\ x * b = p
      BY Zenon, <1>2, <1>10, <2>1
    <3> HIDE DEF x, q, r, p, down
    <3>3. a = p + r
      BY <1>1 DEF p
    <3>4. QED
      BY <1>1, <1>9, <1>11, <3>1, <3>2, <3>3
  <2>2. CASE ~down
    <3>1. 2 * r >= b
      BY <1>1, <2>2
    <3>2. x = q + 1 /\ x * b = p + b
      BY Zenon, <1>2, <1>10, <2>2
    <3> HIDE DEF x, q, r, p, down
    <3>3. a = p + r
      BY <1>1 DEF p
    <3>4. QED
      BY <1>1, <1>9, <1>11, <3>1, <3>2, <3>3
  <2>3. QED
    BY Zenon, <2>1, <2>2
<1>13. (a + h) \div b >= N <=> x >= N
  <2> DEFINE y == (a + h) \div b
  <2>1. y = IF r + h < b THEN q ELSE q + 1
    BY Zenon, <1>6
  <2>2. down <=> 2 * r < b \/ (2 * r = b /\ e)
    BY Zenon DEF e
  <2> HIDE DEF x, q, r, h, y, down, N
  <2>3. CASE 2 * r < b
    <3>1. r + h < b
      BY <1>1, <1>3, <2>3
    <3>2. QED
      BY Zenon, <1>2, <2>1, <2>2, <2>3, <3>1 DEF y
  <2>4. CASE 2 * r > b
    <3>1. ~(r + h < b) /\ ~(2 * r < b) /\ 2 * r # b
      BY <1>1, <1>3, <2>4
    <3>2. QED
      BY Zenon, <1>2, <2>1, <2>2, <3>1 DEF y
  <2>5. CASE 2 * r = b
    <3>1. ~(r + h < b) /\ ~(2 * r < b)
      BY <1>1, <1>3, <2>5
    <3>2. y = q + 1
      BY Zenon, <2>1, <3>1
    <3>3. CASE e
      <4>1. x = q /\ q # N - 1
        BY Zenon, <1>2, <1>7, <2>2, <2>5, <3>3
      <4>2. y >= N <=> x >= N
        BY <1>1, <1>4, <3>2, <4>1
      <4>3. QED
        BY Zenon, <4>2 DEF y
    <3>4. CASE ~e
      <4>1. x = q + 1
        BY Zenon, <1>2, <2>2, <3>1, <3>4
      <4>2. QED
        BY Zenon, <3>2, <4>1 DEF y
    <3>5. QED
      BY Zenon, <3>3, <3>4
  <2>6. QED
    BY <1>1, <2>3, <2>4, <2>5
<1>14. QED
  BY Zenon, <1>12, <1>13 DEF x, h, N

(* A rate in Hz is positive exactly when the interval is under two seconds.*)
LEMMA RateIs ==
    ASSUME NEW i \in Nat, i >= 1
    PROVE  /\ A!round(A!nanoseconds, i) \in Nat
           /\ 2 * (A!round(A!nanoseconds, i) * i - A!nanoseconds) \in -i .. i
           /\ A!round(A!nanoseconds, i) > 0 <=> ~(i >= 2 * A!nanoseconds)
<1> DEFINE x == A!round(A!nanoseconds, i)
           g == A!nanoseconds
<1>1. g \in Nat /\ g >= 1 /\ i > 0
  BY DEF A!nanoseconds
<1>2. x \in Nat /\ 2 * (x * i - g) \in -i .. i /\ (g >= i => x >= 1)
  BY Zenon, <1>1, RoundIs
<1>3. CASE i <= g
  <2> HIDE DEF x, g
  <2>1. x > 0 /\ ~(i >= 2 * g)
    BY <1>1, <1>2, <1>3
  <2>2. QED
    BY Zenon, <1>2, <2>1 DEF x, g
<1>4. CASE i > g
  <2>1. g \div i = 0
    <3>1. i * 0 = 0
      OBVIOUS
    <3>2. g = i * 0 + g /\ g \in 0 .. i - 1 /\ 0 \in Int
      BY <1>1, <1>4
    <3> HIDE DEF g
    <3>3. QED
      BY Zenon, <1>1, <3>2, QuotientIs
  <2>2. g % i = g
    <3> DEFINE s == g % i
    <3>1. g = i * (g \div i) + s /\ s \in 0 .. i - 1
      BY Zenon, <1>1, Divided
    <3> HIDE DEF s, g
    <3>2. i * (g \div i) = 0
      BY <2>1
    <3>3. s = g
      BY <1>1, <3>1, <3>2
    <3>4. QED
      BY <3>3 DEF s
  <2>3. x = IF 2 * g < i \/ (2 * g = i /\ 0 % 2 = 0) THEN 0 ELSE 0 + 1
    BY Zenon, <2>1, <2>2 DEF A!round
  <2>4. 0 % 2 = 0 /\ 0 + 1 = 1
    OBVIOUS
  <2>5. x = IF 2 * g < i \/ 2 * g = i THEN 0 ELSE 1
    BY Zenon, <2>3, <2>4
  <2> HIDE DEF x, g
  <2>6. x > 0 <=> ~(i >= 2 * g)
    BY <1>1, <2>5
  <2>7. QED
    BY Zenon, <1>2, <2>6 DEF x, g
<1>5. QED
  BY <1>1, <1>3, <1>4

-----------------------------------------------------------------------------
(* Numbers that rise by the same step each time, and by one at least.      *)
LEMMA EvenSteps ==
    ASSUME NEW n \in Nat, n >= 1, NEW f, \A k \in 1 .. n : f[k] \in Int,
           NEW d \in Int, \A k \in 1 .. n - 1 : f[k + 1] - f[k] = d
    PROVE  f[n] - f[1] = (n - 1) * d
<1> DEFINE N == n - 1
           G == {m \in 0 .. N : f[m + 1] - f[1] = m * d}
<1>1. N \in Nat /\ N \in 0 .. N /\ N + 1 = n
  OBVIOUS
<1>2. 0 \in G
  <2>1. f[0 + 1] - f[1] = 0 /\ 0 * d = 0
    BY <1>1
  <2>2. QED
    BY <1>1, <2>1
<1>3. ASSUME NEW m \in 0 .. (N - 1), m \in G
      PROVE  m + 1 \in G
  <2>1. m + 1 \in 1 .. n - 1 /\ m + 1 \in 1 .. n /\ (m + 1) + 1 \in 1 .. n
        /\ 1 \in 1 .. n /\ m + 1 \in 0 .. N
    BY <1>1
  <2>2. f[m + 1] - f[1] = m * d /\ f[(m + 1) + 1] - f[m + 1] = d
    BY Zenon, <1>3, <2>1
  <2>3. (m + 1) * d = m * d + d
    BY <2>1
  <2> DEFINE a == f[1]
             b == f[m + 1]
             c == f[(m + 1) + 1]
             e == m * d
  <2>4. a \in Int /\ b \in Int /\ c \in Int
    BY Zenon, <2>1
  <2>5. e \in Int
    BY <2>1
  <2> HIDE DEF a, b, c, e
  <2>6. c - a = e + d
    BY <2>2, <2>4, <2>5 DEF a, b, c, e
  <2>7. f[(m + 1) + 1] - f[1] = (m + 1) * d
    BY Zenon, <2>3, <2>6 DEF a, c, e
  <2>8. QED
    BY Zenon, <2>1, <2>7
<1> HIDE DEF G, N
<1>4. \A m \in 0 .. N : m \in G
  BY Zenon, <1>1, <1>2, <1>3, UpTo
<1>5. f[N + 1] - f[1] = N * d
  BY Zenon, <1>1, <1>4 DEF G
<1>6. QED
  BY Zenon, <1>1, <1>5 DEF N

(* Numbers that rise by one at least each time.                            *)
LEMMA Rises ==
    ASSUME NEW n \in Nat, n >= 1, NEW f, \A k \in 1 .. n : f[k] \in Int,
           \A k \in 1 .. n - 1 : f[k + 1] - f[k] >= 1
    PROVE  f[n] - f[1] >= n - 1
<1> DEFINE N == n - 1
           G == {m \in 0 .. N : f[m + 1] - f[1] >= m}
<1>1. N \in Nat /\ N \in 0 .. N /\ N + 1 = n
  OBVIOUS
<1>2. 0 \in G
  <2>1. f[0 + 1] - f[1] >= 0
    BY <1>1
  <2>2. QED
    BY <1>1, <2>1
<1>3. ASSUME NEW m \in 0 .. (N - 1), m \in G
      PROVE  m + 1 \in G
  <2>1. m + 1 \in 1 .. n - 1 /\ m + 1 \in 1 .. n /\ (m + 1) + 1 \in 1 .. n
        /\ 1 \in 1 .. n /\ m + 1 \in 0 .. N
    BY <1>1
  <2>2. f[m + 1] - f[1] >= m /\ f[(m + 1) + 1] - f[m + 1] >= 1
    BY Zenon, <1>3, <2>1
  <2> DEFINE a == f[1]
             b == f[m + 1]
             c == f[(m + 1) + 1]
  <2>3. a \in Int /\ b \in Int /\ c \in Int
    BY Zenon, <2>1
  <2> HIDE DEF a, b, c
  <2>4. c - a >= m + 1
    BY <2>2, <2>3 DEF a, b, c
  <2>5. QED
    BY Zenon, <2>1, <2>4 DEF a, c
<1> HIDE DEF G, N
<1>4. \A m \in 0 .. N : m \in G
  BY Zenon, <1>1, <1>2, <1>3, UpTo
<1>5. f[N + 1] - f[1] >= N
  BY Zenon, <1>1, <1>4 DEF G
<1>6. QED
  BY Zenon, <1>1, <1>5 DEF N

(* The interval of a trace is the nearest whole number to its mean cycle.  *)
Stamp(k) == samples[k].timestamp_ns
(* The interval is positive, near, and slow when the mean cycle is.        *)
LEMMA IntervalIs ==
    ASSUME NEW n \in Nat, n = Len(samples), n >= 2,
           \A k \in 1 .. n : Stamp(k) \in Nat,
           \A k \in 1 .. n - 1 : Stamp(k + 1) - Stamp(k) >= 1,
           NEW m, m = n - 1, NEW span, span = Stamp(n) - Stamp(1)
    PROVE  /\ A!interval_ns \in Nat /\ A!interval_ns >= 1
           /\ span \in Nat
           /\ 2 * (A!interval_ns * m - span) \in -m .. m
           /\ (span + m \div 2) \div m >= 2 * A!nanoseconds
                  <=> A!interval_ns >= 2 * A!nanoseconds
<1> DEFINE f == [k \in 1 .. n |-> Stamp(k)]
           D == {samples[i + 1].timestamp_ns - samples[i].timestamp_ns :
                     i \in 1 .. n - 1}
           x == A!interval_ns
<1>1. m \in Nat /\ m > 0 /\ 1 \in 1 .. n /\ n \in 1 .. n /\ 1 \in 1 .. n - 1
      /\ n >= 1
  OBVIOUS
<1>2. \A k \in 1 .. n - 1 : k \in 1 .. n /\ k + 1 \in 1 .. n
  OBVIOUS
<1>3. /\ \A k \in 1 .. n : f[k] = Stamp(k) /\ f[k] \in Int
      /\ \A k \in 1 .. n - 1 : f[k + 1] = Stamp(k + 1)
  <2>1. \A k \in 1 .. n : f[k] = Stamp(k)
    BY Zenon
  <2>2. \A k \in 1 .. n : Stamp(k) \in Int
    OBVIOUS
  <2> HIDE DEF f
  <2>3. QED
    BY Zenon, <1>2, <2>1, <2>2
<1> HIDE DEF f
<1>4. span = f[n] - f[1]
  BY Zenon, <1>1, <1>3
<1>5. span >= m /\ span \in Nat
  <2>1. \A k \in 1 .. n - 1 : f[k + 1] - f[k] >= 1
    BY Zenon, <1>2, <1>3
  <2>2. f[n] - f[1] >= n - 1
    BY Zenon, <1>1, <1>3, <2>1, Rises
  <2>3. f[n] \in Int /\ f[1] \in Int
    BY Zenon, <1>1, <1>3
  <2>4. QED
    BY <1>1, <1>4, <2>2, <2>3
<1>6. x = IF A!Cardinality(D) = 1 THEN CHOOSE i \in D : TRUE
          ELSE A!round(samples[n].timestamp_ns - samples[1].timestamp_ns, n - 1)
  BY DEF A!interval_ns
<1>7. \A i \in 1 .. n - 1 : Stamp(i + 1) - Stamp(i) \in D
  BY Zenon DEF Stamp
<1>8. \A d \in D : \E i \in 1 .. n - 1 : d = Stamp(i + 1) - Stamp(i)
  BY Zenon DEF Stamp
<1>9. IsFiniteSet(D)
  <2> DEFINE g == [i \in 1 .. n - 1 |-> Stamp(i + 1) - Stamp(i)]
  <2>1. g \in [1 .. n - 1 -> D] /\ \A d \in D : \E i \in 1 .. n - 1 : g[i] = d
    <3> HIDE DEF D
    <3>1. \A i \in 1 .. n - 1 : g[i] = Stamp(i + 1) - Stamp(i)
      BY Zenon
    <3>2. QED
      BY Zenon, <1>7, <1>8, <3>1
  <2>2. IsFiniteSet(1 .. n - 1)
    <3>1. 1 \in Int /\ n - 1 \in Int
      OBVIOUS
    <3>2. QED
      BY Zenon, <3>1, FS_Interval
  <2>3. g \in Surjection(1 .. n - 1, D)
    <3> HIDE DEF g, D
    <3>1. QED
      BY Zenon, <2>1 DEF Surjection
  <2> HIDE DEF g, D
  <2>4. QED
    BY Zenon, <2>2, <2>3, FS_Surjection
<1> HIDE DEF D
<1>10. CASE A!Cardinality(D) = 1
  <2>1. PICK d : D = {d}
    BY Zenon, <1>9, <1>10, SameSizes, FS_Singleton
  <2>2. x = d
    BY Zenon, <1>6, <1>10, <2>1
  <2>3. \A k \in 1 .. n - 1 : f[k + 1] - f[k] = d
    BY Zenon, <1>2, <1>3, <1>7, <2>1
  <2>4. d \in Int /\ d >= 1
    <3>1. f[1 + 1] - f[1] = d /\ d >= 1
      BY Zenon, <1>1, <1>2, <1>3, <2>3
    <3>2. f[1 + 1] \in Int /\ f[1] \in Int
      BY Zenon, <1>1, <1>2, <1>3
    <3>3. QED
      BY <3>1, <3>2
  <2>5. span = m * d
    BY Zenon, <1>1, <1>3, <1>4, <2>3, <2>4, EvenSteps
  <2>6. 2 * (x * m - span) \in -m .. m
    <3>1. d * m = m * d
      BY <1>1, <2>4
    <3>2. x * m = span
      BY Zenon, <2>2, <2>5, <3>1
    <3> HIDE DEF x
    <3>3. QED
      BY <1>1, <1>5, <3>2
  <2>7. (span + m \div 2) \div m = d
    <3> DEFINE h == m \div 2
    <3>1. h \in 0 .. m - 1
      BY <1>1, Z3
    <3> HIDE DEF h
    <3>2. span + h \in Nat /\ span + h = m * d + h
      BY <1>5, <2>5, <3>1
    <3>3. (span + h) \div m = d
      BY Zenon, <1>1, <2>4, <3>1, <3>2, QuotientIs
    <3>4. QED
      BY Zenon, <3>3 DEF h
  <2>8. x \in Nat /\ x >= 1
    BY <2>2, <2>4
  <2>9. QED
    BY Zenon, <1>5, <2>2, <2>6, <2>7, <2>8
<1>11. CASE A!Cardinality(D) # 1
  <2>1. x = A!round(span, m)
    BY Zenon, <1>6, <1>11 DEF Stamp
  <2>2. /\ x \in Nat /\ 2 * (x * m - span) \in -m .. m
        /\ span >= m => x >= 1
        /\ (span + m \div 2) \div m >= 2 * A!nanoseconds
               <=> x >= 2 * A!nanoseconds
    BY Zenon, <1>1, <1>5, <2>1, RoundIs
  <2>3. QED
    BY Zenon, <1>5, <2>2
<1>12. QED
  BY Zenon, <1>10, <1>11

-----------------------------------------------------------------------------
(* After the last block every edge of the dump has its sample, in order.   *)
Cycles == A!Ascending(A!Edges)
AllSampled(n) ==
    /\ n = Len(samples) /\ n \in Nat /\ DOMAIN samples = 1 .. n
    /\ DOMAIN Cycles = 1 .. n /\ Len(Cycles) = n
    /\ A!Cardinality(A!Edges) = n
    /\ \A e \in A!Edges : \E j \in 1 .. n : Cycles[j] = e
    /\ \A j \in 1 .. n : /\ Cycles[j] \in A!Edges /\ Cycles[j] \in Nat
                         /\ A!Representable(Cycles[j])
                         /\ samples[j] = SampleOf(Cycles, j)
    /\ \A i, j \in 1 .. n : i < j => Cycles[i] < Cycles[j]

(* That holds when the blocks are used up.                                 *)
LEMMA EdgesSampled ==
    ASSUME A!AreSimulations, sim \in Simulations, Declared, BodyInv, Settled,
           SampleInv, next_block > Len(blocks)
    PROVE  \E n : AllSampled(n)
<1>1. /\ Times \subseteq Nat /\ IsList(blocks) /\ Len(blocks) \in Nat
      /\ Len(blocks) > 0 /\ Blocked(blocks, dumped.now, wave)
  BY Zenon, SimulationIs, ListIs DEF BodyInv, Blocked
<1>2. Clock \in Nets
  <2>1. A!Found("clock")
    BY Zenon DEF Settled
  <2>2. A!Ident("clock") = Clock /\ A!Ident("clock") \in Nets
    BY Zenon, <2>1, FoundIs DEF Clock
  <2>3. QED
    BY Zenon, <2>2
<1> DEFINE k == Len(blocks)
           last == blocks[k].time
<1>3. next_block # 1 /\ next_block - 1 = k /\ k \in 1 .. k
  BY <1>1 DEF SampleInv
<1>4. Upto = last + 1
  BY Zenon, <1>3 DEF Upto
<1>5. \A j \in 1 .. k : blocks[j].time \in Nat /\ blocks[j].time < last + 1
  <2> SUFFICES ASSUME NEW j \in 1 .. k
               PROVE  blocks[j].time \in Nat /\ blocks[j].time < last + 1
    OBVIOUS
  <2>1. blocks[j].time \in Nat /\ last \in Nat
    BY Zenon, <1>1, <1>3 DEF Blocked
  <2>2. j = k \/ j < k
    BY <1>1
  <2>3. j < k => blocks[j].time < last
    BY Zenon, <1>1, <1>3 DEF Blocked
  <2> DEFINE t == blocks[j].time
  <2>4. t \in Nat /\ (j = k => t = last) /\ (j < k => t < last)
    BY Zenon, <2>1, <2>3
  <2> HIDE DEF t, last, k
  <2>5. t < last + 1
    BY <2>1, <2>2, <2>4
  <2>6. QED
    BY Zenon, <2>4, <2>5 DEF t
<1>6. \A e \in A!Edges : e \in Nat /\ e < Upto
  BY Zenon, <1>1, <1>2, <1>4, <1>5, EdgeIs
<1>7. PICK es : Sampled(es, Upto, samples, previous_snapshot)
  BY Zenon DEF SampleInv
<1> HIDE DEF k, last
<1> DEFINE n == Len(samples)
           q == [j \in 1 .. n |-> es[j]]
<1>8. /\ IsList(samples) /\ n \in Nat /\ DOMAIN samples = 1 .. n
      /\ \A j \in 1 .. n : /\ es[j] \in A!Edges /\ A!Representable(es[j])
                           /\ samples[j] = SampleOf(es, j)
      /\ \A e \in A!Edges : \E j \in 1 .. n : es[j] = e
      /\ \A i, j \in 1 .. n : i < j => es[i] < es[j]
  BY Zenon, <1>6, <1>7, ListIs DEF Sampled
<1>9. DOMAIN q = 1 .. n /\ \A j \in 1 .. n : q[j] = es[j]
  OBVIOUS
<1>10. \A j \in 1 .. n : SampleOf(q, j) = SampleOf(es, j)
  <2> SUFFICES ASSUME NEW j \in 1 .. n PROVE SampleOf(q, j) = SampleOf(es, j)
    OBVIOUS
  <2>1. j = 1 \/ j - 1 \in 1 .. n
    BY <1>8
  <2> HIDE DEF q
  <2>2. j # 1 => q[j - 1] = es[j - 1]
    BY Zenon, <1>9, <2>1
  <2>3. A!CycleStart(q, j) = A!CycleStart(es, j)
    <3>1. CASE j = 1
      <4>1. q[1] = es[1]
        BY Zenon, <1>9, <3>1
      <4>2. QED
        BY Zenon, <3>1, <4>1 DEF A!CycleStart
    <3>2. CASE j # 1
      BY Zenon, <2>2, <3>2 DEF A!CycleStart
    <3>3. QED
      BY Zenon, <3>1, <3>2
  <2>4. QED
    BY Zenon, <1>9, <2>3 DEF SampleOf
<1>11. q = [j \in 1 .. n |-> q[j]] /\ q \in [1 .. n -> A!Edges]
  <2>1. q \in [1 .. n -> A!Edges]
    BY Zenon, <1>8
  <2>2. q = [j \in 1 .. n |-> q[j]]
    OBVIOUS
  <2>3. QED
    BY Zenon, <2>1, <2>2
<1> HIDE DEF q, n
<1>12. IsList(q) /\ Len(q) = n
  BY Zenon, <1>8, <1>9, <1>11, ListUpTo
<1>13. A!Ascending(A!Edges) = q /\ Cardinality(A!Edges) = n
  <2> DEFINE E == A!Edges
  <2>1. \A e \in E : \E j \in 1 .. n : q[j] = e
    BY Zenon, <1>8, <1>9
  <2>2. \A i, j \in 1 .. n : i < j => q[i] < q[j]
    BY Zenon, <1>8, <1>9
  <2>3. E \subseteq Int
    BY <1>6
  <2>4. n \in Nat /\ q \in [1 .. n -> E]
    BY Zenon, <1>8, <1>11
  <2> HIDE DEF E
  <2>5. A!Ascending(E) = q /\ IsFiniteSet(E) /\ Cardinality(E) = n
    BY Zenon, <2>1, <2>2, <2>3, <2>4, AscendingIs
  <2>6. QED
    BY Zenon, <2>5 DEF E
<1>14. Cycles = q /\ A!Cardinality(A!Edges) = n
  BY Zenon, <1>13, SameSizes DEF Cycles
<1>15. \A j \in 1 .. n : q[j] \in A!Edges /\ q[j] \in Nat
  BY Zenon, <1>6, <1>8, <1>9
<1>16. AllSampled(n)
  BY Zenon, <1>8, <1>9, <1>10, <1>12, <1>14, <1>15 DEF AllSampled, n
<1>17. QED
  BY Zenon, <1>16

-----------------------------------------------------------------------------
(* A time that is a whole number of nanoseconds is converted exactly, and  *)
(* later times have later stamps.                                          *)
LEMMA ExactIs ==
    ASSUME NEW t \in Nat, NEW ns \in Nat, NEW p \in Nat, p > 0,
           (t * ns) % p = 0
    PROVE  /\ (t * ns) \div p \in Nat
           /\ ((t * ns) \div p) * p = t * ns
<1> DEFINE a == t * ns
           x == a \div p
<1>1. a \in Nat
  OBVIOUS
<1>2. x \in Nat /\ a = p * x + (a % p)
  BY Zenon, <1>1, Divided
<1>3. a % p = 0
  OBVIOUS
<1> HIDE DEF a, x
<1>4. x \in Nat /\ x * p = a
  BY <1>1, <1>2, <1>3
<1>5. QED
  BY Zenon, <1>4 DEF a, x

(* Later times have stamps that differ by a nanosecond or more.            *)
LEMMA LaterIs ==
    ASSUME NEW s \in Nat, NEW t \in Nat, s < t, NEW ns \in Nat, ns > 0,
           NEW p \in Nat, p > 0, NEW x \in Nat, NEW y \in Nat,
           x * p = s * ns, y * p = t * ns
    PROVE  y - x >= 1
<1>1. s * ns < t * ns
  <2>1. t - s >= 1 /\ t - s \in Nat
    OBVIOUS
  <2>2. (t - s) * ns >= ns
    BY <2>1
  <2>3. (t - s) * ns = t * ns - s * ns
    OBVIOUS
  <2>4. s * ns \in Int /\ t * ns \in Int
    OBVIOUS
  <2>5. QED
    BY <2>2, <2>3, <2>4
<1>2. SUFFICES ASSUME x - y >= 0 PROVE FALSE
  OBVIOUS
<1>3. (x - y) * p >= 0
  BY <1>2
<1>4. (x - y) * p = x * p - y * p /\ x * p \in Int /\ y * p \in Int
  OBVIOUS
<1>5. QED
  BY <1>1, <1>3, <1>4

(* The stamps of the samples are the times of the edges.                   *)
LEMMA StampsAre ==
    ASSUME A!AreSimulations, sim \in Simulations, Settled, NEW n, AllSampled(n)
    PROVE  /\ A!Scale.ns \in Nat /\ A!Scale.parts \in Nat /\ A!Scale.parts > 0
           /\ \A j \in 1 .. n :
                  /\ Stamp(j) \in Nat
                  /\ Stamp(j) * A!Scale.parts = Cycles[j] * A!Scale.ns
           /\ \A j \in 1 .. n - 1 : Stamp(j + 1) - Stamp(j) >= 1
<1> DEFINE ns == A!Scale.ns
           p == A!Scale.parts
<1>1. ns \in Nat /\ p \in Nat /\ p > 0 /\ ns > 0
  BY Zenon, ScaleIs DEF Settled, A!IsTimescale
<1>2. timescale.ns = ns /\ timescale.parts = p
  BY Zenon DEF Settled
<1> HIDE DEF ns, p
<1>3. ASSUME NEW j \in 1 .. n
      PROVE  Stamp(j) \in Nat /\ Stamp(j) * p = Cycles[j] * ns
  <2> DEFINE t == Cycles[j]
  <2>1. t \in Nat /\ A!Representable(t) /\ samples[j] = SampleOf(Cycles, j)
    BY Zenon DEF AllSampled
  <2>2. Stamp(j) = A!_time_to_ns(t)
    BY <2>1 DEF Stamp, SampleOf
  <2> HIDE DEF t
  <2>3. Stamp(j) = (t * ns) \div p
    BY Zenon, <1>2, <2>2 DEF A!_time_to_ns
  <2>4. (t * ns) % p = 0
    BY Zenon, <1>2, <2>1 DEF A!Representable
  <2>5. Stamp(j) \in Nat /\ Stamp(j) * p = t * ns
    BY <1>1, <2>1, <2>3, <2>4, ExactIs
  <2>6. QED
    BY Zenon, <2>5 DEF t
<1>4. ASSUME NEW j \in 1 .. n - 1
      PROVE  Stamp(j + 1) - Stamp(j) >= 1
  <2>1. n \in Nat
    BY Zenon DEF AllSampled
  <2>2. j \in 1 .. n /\ j + 1 \in 1 .. n /\ j < j + 1
    BY <2>1
  <2>3. /\ Cycles[j] < Cycles[j + 1] /\ Cycles[j] \in Nat
        /\ Cycles[j + 1] \in Nat
    BY Zenon, <2>2 DEF AllSampled
  <2>4. QED
    BY Zenon, <1>1, <1>3, <2>2, <2>3, LaterIs
<1>5. QED
  BY Zenon, <1>1, <1>3, <1>4 DEF ns, p

(* The mean cycle of the trace is that of the dump.                        *)
LEMMA SlowIs ==
    ASSUME A!AreSimulations, sim \in Simulations, Settled,
           NEW n, AllSampled(n), n >= 2, NEW m, m = n - 1,
           NEW span, span = Stamp(n) - Stamp(1)
    PROVE  /\ span \in Int
           /\ (Cycles[n] - Cycles[1]) * A!Scale.ns = span * A!Scale.parts
           /\ A!Slow <=> (span + m \div 2) \div m >= 2 * A!nanoseconds
<1> DEFINE ns == A!Scale.ns
           p == A!Scale.parts
           a == Cycles[1]
           z == Cycles[n]
           x == Stamp(1)
           y == Stamp(n)
<1>1. /\ n \in Nat /\ \A i, j \in 1 .. n : i < j => Cycles[i] < Cycles[j]
      /\ \A e \in A!Edges : \E j \in 1 .. n : Cycles[j] = e
      /\ \A j \in 1 .. n : Cycles[j] \in A!Edges /\ Cycles[j] \in Nat
      /\ A!Cardinality(A!Edges) = n
  BY Zenon DEF AllSampled
<1>2. /\ 1 \in 1 .. n /\ n \in 1 .. n
      /\ \A j \in 1 .. n : (j = 1 \/ 1 < j) /\ (j = n \/ j < n)
  BY <1>1
<1>3. /\ ns \in Nat /\ p \in Nat /\ p > 0
      /\ x \in Nat /\ y \in Nat /\ x * p = a * ns /\ y * p = z * ns
  BY Zenon, <1>2, StampsAre
<1>4. a \in Nat /\ z \in Nat /\ a \in A!Edges /\ z \in A!Edges
  BY Zenon, <1>1, <1>2
<1>5. \A e \in A!Edges : e \in Nat /\ (e = a \/ a < e) /\ (e = z \/ e < z)
  <2> SUFFICES ASSUME NEW e \in A!Edges
               PROVE  e \in Nat /\ (e = a \/ a < e) /\ (e = z \/ e < z)
    OBVIOUS
  <2>1. PICK j \in 1 .. n : Cycles[j] = e
    BY Zenon, <1>1
  <2>2. (j = 1 \/ a < e) /\ (j = n \/ e < z) /\ e \in Nat
    BY Zenon, <1>1, <1>2, <2>1
  <2>3. QED
    BY Zenon, <2>1, <2>2
<1> HIDE DEF ns, p, a, z, x, y
<1>6. \A e \in A!Edges : a <= e /\ z >= e
  BY <1>4, <1>5
<1>7. A!Min(A!Edges) = a
  <2>1. ASSUME NEW e \in A!Edges, \A f \in A!Edges : e <= f
        PROVE  e = a
    <3>1. e <= a /\ a <= e /\ e \in Nat
      BY Zenon, <1>4, <1>5, <1>6, <2>1
    <3>2. QED
      BY <1>4, <3>1
  <2>2. \A f \in A!Edges : a <= f
    BY Zenon, <1>6
  <2>3. QED
    BY Zenon, <1>4, <2>1, <2>2 DEF A!Min
<1>8. A!Max(A!Edges) = z
  <2>1. ASSUME NEW e \in A!Edges, \A f \in A!Edges : e >= f
        PROVE  e = z
    <3>1. e >= z /\ z >= e /\ e \in Nat
      BY Zenon, <1>4, <1>5, <1>6, <2>1
    <3>2. QED
      BY <1>4, <3>1
  <2>2. \A f \in A!Edges : z >= f
    BY Zenon, <1>6
  <2>3. QED
    BY Zenon, <1>4, <2>1, <2>2 DEF A!Max
<1>9. span = y - x
  BY Zenon DEF x, y
<1>10. (z - a) * ns = span * p /\ span \in Int
  <2>1. (z - a) * ns = z * ns - a * ns /\ (y - x) * p = y * p - x * p
    BY <1>3, <1>4
  <2>2. (z - a) * ns = (y - x) * p /\ y - x \in Int
    BY <1>3, <2>1
  <2>3. QED
    BY Zenon, <1>9, <2>2
<1>11. span >= 0
  <2>1. a < z
    <3>1. 1 < n
      BY <1>1
    <3>2. QED
      BY Zenon, <1>1, <1>2, <3>1 DEF a, z
  <2>2. (z - a) * ns >= 0
    <3>1. z - a \in Nat
      BY <1>4, <2>1
    <3>2. \A u \in Nat : u * ns >= 0
      BY <1>3
    <3>3. QED
      BY Zenon, <3>1, <3>2
  <2>3. SUFFICES ASSUME span <= -1 PROVE FALSE
    BY <1>10
  <2>4. span * p <= -p
    BY <1>3, <1>10, <2>3
  <2>5. QED
    BY <1>3, <1>10, <2>2, <2>4
<1>12. ((z - a) * ns) \div p = span
  <2> DEFINE b == (z - a) * ns
  <2>1. b \in Nat /\ b = p * span + 0 /\ 0 \in 0 .. p - 1
    BY <1>3, <1>10, <1>11
  <2> HIDE DEF b
  <2>2. b \div p = span
    BY Zenon, <1>3, <1>10, <2>1, QuotientIs
  <2>3. QED
    BY Zenon, <2>2 DEF b
<1>13. A!Slow <=> (span + m \div 2) \div m >= 2 * A!nanoseconds
  BY Zenon, <1>1, <1>7, <1>8, <1>12 DEF A!Slow, ns, p
<1>14. QED
  BY Zenon, <1>10, <1>13 DEF a, z, ns, p

-----------------------------------------------------------------------------
(* The state of a sample is one the contract allows.                       *)
LEMMA StateIs ==
    ASSUME A!AreSimulations, sim \in Simulations, NEW e
    PROVE  A!StateBefore(e) \in A!ALLOWED_STATES
<1>1. A!opt.default_active_state \in A!ALLOWED_STATES
  BY Zenon, SimulationIs DEF A!IsCommand
<1>2. /\ "zeroize" \in A!ALLOWED_STATES /\ "fault" \in A!ALLOWED_STATES
      /\ "idle" \in A!ALLOWED_STATES /\ "kem" \in A!ALLOWED_STATES
      /\ "dsa" \in A!ALLOWED_STATES
  BY DEF A!ALLOWED_STATES
<1>3. A!StateBefore(e) \in {"zeroize", "fault", "idle", "kem", "dsa",
                            A!opt.default_active_state}
  BY DEF A!StateBefore
<1>4. QED
  BY Zenon, <1>1, <1>2, <1>3

(* What TraceIsWaveform says of a trace.                                   *)
Describes(t) ==
    LET n == Len(Cycles)
    IN  /\ DOMAIN t.samples = 1 .. n
        /\ t.per_cycle = A!Recount
        /\ \A k \in 1 .. n :
               /\ t.samples[k].state = A!StateBefore(Cycles[k])
               /\ t.samples[k].timestamp_ns * A!Scale.parts
                      = Cycles[k] * A!Scale.ns
        /\ 2 * ((n - 1) * t.sample_interval_ns * A!Scale.parts
                    - (Cycles[n] - Cycles[1]) * A!Scale.ns)
               \in -((n - 1) * A!Scale.parts) .. (n - 1) * A!Scale.parts
        /\ 2 * (t.clock_hz * t.sample_interval_ns - A!nanoseconds)
               \in -t.sample_interval_ns .. t.sample_interval_ns
(* A description stays right while the dump does not change.               *)
LEMMA DescribesStays ==
    ASSUME sim' = sim, wave' = wave, variables' = variables,
           timescale' = timescale, NEW t, trace' = t, Describes(t)
    PROVE  A!TraceIsWaveform'
<1>1. /\ A!Edges' = A!Edges /\ A!Scale' = A!Scale /\ A!Recount' = A!Recount
      /\ \A a : A!StateBefore(a)' = A!StateBefore(a)
  BY Zenon, DumpStays, WaveformStays
<1>2. Cycles' = Cycles
  BY Zenon, <1>1 DEF Cycles
<1>3. Describes(trace)'
  BY Zenon, <1>1, <1>2 DEF Describes
<1>4. QED
  BY <1>3 DEF A!TraceIsWaveform, Describes, Cycles

(* An interval is as near in ticks as it is in nanoseconds.                *)
LEMMA NearScaled ==
    ASSUME NEW m \in Nat, NEW x \in Nat, NEW s \in Int, NEW p \in Nat,
           2 * (x * m - s) \in -m .. m
    PROVE  2 * (m * x * p - s * p) \in -(m * p) .. m * p
<1> DEFINE d == 2 * (x * m - s)
<1>1. d \in Int /\ -m <= d /\ d <= m
  OBVIOUS
<1>2. 2 * (m * x * p - s * p) = d * p
  <2> DEFINE u == x * m
  <2>1. u \in Nat /\ m * x = u
    OBVIOUS
  <2> HIDE DEF u
  <2>2. 2 * (u * p - s * p) = 2 * (u - s) * p
    BY <2>1
  <2>3. d = 2 * (u - s)
    BY DEF u
  <2>4. QED
    BY Zenon, <2>1, <2>2, <2>3
<1> HIDE DEF d
<1>3. d * p <= m * p
  <2>1. m - d \in Nat
    BY <1>1
  <2>2. (m - d) * p >= 0
    BY <2>1
  <2>3. (m - d) * p = m * p - d * p /\ m * p \in Int /\ d * p \in Int
    BY <1>1
  <2>4. QED
    BY <2>2, <2>3
<1>4. -(m * p) <= d * p
  <2>1. m + d \in Nat
    BY <1>1
  <2>2. (m + d) * p >= 0
    BY <2>1
  <2>3. (m + d) * p = m * p + d * p /\ m * p \in Int /\ d * p \in Int
    BY <1>1
  <2>4. QED
    BY <2>2, <2>3
<1>5. d * p \in Int /\ m * p \in Int
  BY <1>1
<1>6. d * p \in -(m * p) .. m * p
  BY <1>3, <1>4, <1>5
<1>7. QED
  BY Zenon, <1>2, <1>6

(* The trace is built: it describes the dump, within half an interval.     *)
LEMMA TraceDescribes ==
    ASSUME A!AreSimulations, sim \in Simulations, Settled, NEW n, AllSampled(n),
           n >= 2
    PROVE  /\ A!interval_ns \in Nat /\ A!interval_ns >= 1
           /\ Describes(A!build_trace)
           /\ A!validate(A!build_trace) <=> ~A!Slow /\ A!Named
<1> DEFINE m == n - 1
           x == A!interval_ns
           hz == A!round(A!nanoseconds, x)
           t == A!build_trace
           span == Stamp(n) - Stamp(1)
           p == A!Scale.parts
<1>1. /\ n \in Nat /\ n = Len(samples) /\ DOMAIN samples = 1 .. n
      /\ DOMAIN Cycles = 1 .. n /\ Len(Cycles) = n
      /\ \A j \in 1 .. n : samples[j] = SampleOf(Cycles, j)
  BY Zenon DEF AllSampled
<1>2. /\ p \in Nat /\ p > 0
      /\ \A j \in 1 .. n : /\ Stamp(j) \in Nat
                           /\ Stamp(j) * p = Cycles[j] * A!Scale.ns
      /\ \A j \in 1 .. n - 1 : Stamp(j + 1) - Stamp(j) >= 1
  BY Zenon, StampsAre
<1>3. /\ x \in Nat /\ x >= 1
      /\ 2 * (x * m - span) \in -m .. m
      /\ (span + m \div 2) \div m >= 2 * A!nanoseconds
             <=> x >= 2 * A!nanoseconds
  BY Zenon, <1>1, <1>2, IntervalIs
<1>4. /\ hz \in Nat /\ 2 * (hz * x - A!nanoseconds) \in -x .. x
      /\ hz > 0 <=> ~(x >= 2 * A!nanoseconds)
  BY Zenon, <1>3, RateIs
<1>5. /\ span \in Int /\ (Cycles[n] - Cycles[1]) * A!Scale.ns = span * p
      /\ A!Slow <=> (span + m \div 2) \div m >= 2 * A!nanoseconds
  BY Zenon, SlowIs
<1> DEFINE row(i) == [timestamp_ns |-> samples[i].timestamp_ns,
                      state        |-> samples[i].state,
                      active_lanes |-> IF samples[i].state \in {"kem", "dsa"}
                                       THEN 1 ELSE 0]
<1>6. /\ t.hardware_id = A!opt.hardware_id /\ t.operation = A!opt.operation
      /\ t.clock_hz = hz /\ t.sample_interval_ns = x
      /\ t.per_cycle = [i \in DOMAIN samples |-> samples[i].toggles]
      /\ t.samples = [i \in DOMAIN samples |-> row(i)]
  BY DEF A!build_trace
<1>7. \A j \in 1 .. n : /\ samples[j].state = A!StateBefore(Cycles[j])
                        /\ samples[j].toggles =
                           A!Switched(A!CycleStart(Cycles, j), Cycles[j] + 1)
                        /\ samples[j].timestamp_ns = Stamp(j)
  <2>1. \A j : LET s == SampleOf(Cycles, j)
               IN  /\ s.state = A!StateBefore(Cycles[j])
                   /\ s.toggles =
                          A!Switched(A!CycleStart(Cycles, j), Cycles[j] + 1)
    BY Zenon DEF SampleOf
  <2>2. QED
    BY Zenon, <1>1, <2>1 DEF Stamp
<1>8. /\ DOMAIN t.samples = 1 .. n
      /\ \A j \in 1 .. n : /\ t.samples[j].timestamp_ns = Stamp(j)
                           /\ t.samples[j].state = A!StateBefore(Cycles[j])
                           /\ t.samples[j].active_lanes \in {0, 1}
  <2> HIDE DEF t
  <2>1. DOMAIN t.samples = 1 .. n
    BY Zenon, <1>1, <1>6
  <2>2. \A j \in 1 .. n : t.samples[j] = row(j)
    BY Zenon, <1>1, <1>6
  <2>3. \A j : /\ row(j).timestamp_ns = samples[j].timestamp_ns
               /\ row(j).state = samples[j].state
               /\ row(j).active_lanes \in {0, 1}
    OBVIOUS
  <2> HIDE DEF row
  <2>4. QED
    BY Zenon, <1>7, <2>1, <2>2, <2>3
<1>9. t.per_cycle = A!Recount
  <2>1. A!Recount = [k \in DOMAIN Cycles |->
                        A!Switched(A!CycleStart(Cycles, k), Cycles[k] + 1)]
    BY Zenon DEF A!Recount, Cycles
  <2> HIDE DEF t
  <2>2. QED
    BY <1>1, <1>6, <1>7, <2>1
<1> HIDE DEF t, x, hz, span, p, row
<1>10. 2 * (m * x * p - (Cycles[n] - Cycles[1]) * A!Scale.ns)
           \in -(m * p) .. m * p
  <2>1. m \in Nat
    BY <1>1
  <2> HIDE DEF m
  <2>2. 2 * (m * x * p - span * p) \in -(m * p) .. m * p
    BY Zenon, <1>2, <1>3, <1>5, <2>1, NearScaled
  <2>3. QED
    BY Zenon, <1>5, <2>2
<1>11. Describes(t)
  BY Zenon, <1>1, <1>2, <1>4, <1>6, <1>8, <1>9, <1>10, <1>7 DEF Describes, p
<1>12. A!validate(t) <=> hz > 0 /\ A!Named
  <2>1. \A i \in DOMAIN t.samples :
            /\ t.samples[i].timestamp_ns >= 0
            /\ t.samples[i].state \in A!ALLOWED_STATES
            /\ t.samples[i].active_lanes >= 0
            /\ i > 1 => t.samples[i].timestamp_ns
                            > t.samples[i - 1].timestamp_ns
    <3> SUFFICES ASSUME NEW i \in 1 .. n
                 PROVE  /\ t.samples[i].timestamp_ns >= 0
                        /\ t.samples[i].state \in A!ALLOWED_STATES
                        /\ t.samples[i].active_lanes >= 0
                        /\ i > 1 => t.samples[i].timestamp_ns
                                        > t.samples[i - 1].timestamp_ns
      BY Zenon, <1>8
    <3>1. t.samples[i].state \in A!ALLOWED_STATES
      BY Zenon, <1>8, StateIs
    <3>2. t.samples[i].active_lanes \in {0, 1}
              /\ t.samples[i].timestamp_ns \in Nat
      BY Zenon, <1>2, <1>8
    <3>3. t.samples[i].timestamp_ns >= 0 /\ t.samples[i].active_lanes >= 0
      BY <3>2
    <3>4. ASSUME i > 1
          PROVE  t.samples[i].timestamp_ns > t.samples[i - 1].timestamp_ns
      <4>1. i - 1 \in 1 .. n /\ i - 1 \in 1 .. n - 1 /\ (i - 1) + 1 = i
        BY <1>1, <3>4
      <4>2. Stamp(i) - Stamp(i - 1) >= 1 /\ Stamp(i) \in Nat
                /\ Stamp(i - 1) \in Nat
        BY Zenon, <1>2, <4>1
      <4>3. Stamp(i) > Stamp(i - 1)
        BY <4>2
      <4>4. QED
        BY Zenon, <1>8, <4>1, <4>3
    <3>5. QED
      BY Zenon, <3>1, <3>3, <3>4
  <2>2. QED
    BY Zenon, <1>6, <2>1 DEF A!validate, A!Named
<1>13. QED
  BY Zenon, <1>3, <1>4, <1>5, <1>11, <1>12 DEF t, x

(* The end of the conversion: its outcome is that of the dump.             *)
LEMMA GenerateEnds ==
    ASSUME A!AreSimulations, sim \in Simulations, A!WellFormed, Declared, BodyInv,
           Settled, SampleInv, A!Generate
    PROVE  \/ stage' = "error" /\ ~A!Usable
           \/ stage' = "uncaught" /\ A!Usable /\ (A!Slow \/ ~A!Named)
           \/ /\ stage' = "written" /\ A!Usable /\ ~A!Slow /\ A!Named
              /\ \E t : trace' = t /\ Describes(t)
<1>1. /\ next_block > Len(blocks)
      /\ IF Len(samples) < 2 \/ (Len(samples) >= 2 /\ A!interval_ns <= 0)
         THEN stage' = "error"
         ELSE IF ~A!validate(A!build_trace) THEN stage' = "uncaught"
              ELSE stage' = "written" /\ trace' = A!build_trace
  BY Zenon DEF A!Generate, A!fail
<1>2. PICK n : AllSampled(n)
  BY Zenon, <1>1, EdgesSampled
<1>3. n \in Nat /\ n = Len(samples) /\ A!Cardinality(A!Edges) = n
  BY Zenon, <1>2 DEF AllSampled
<1>4. CASE n < 2
  <2>1. ~(A!Cardinality(A!Edges) >= 2)
    BY <1>3, <1>4
  <2>2. ~A!Usable
    BY Zenon, <2>1 DEF A!Usable
  <2>3. QED
    BY Zenon, <1>1, <1>3, <1>4, <2>2
<1>5. CASE n >= 2
  <2>1. /\ A!interval_ns \in Nat /\ A!interval_ns >= 1
        /\ Describes(A!build_trace)
        /\ A!validate(A!build_trace) <=> ~A!Slow /\ A!Named
    BY Zenon, <1>2, <1>5, TraceDescribes
  <2>2. ~(Len(samples) < 2) /\ ~(A!interval_ns <= 0)
    BY <1>3, <1>5, <2>1
  <2>3. A!Usable
    <3>1. A!Cardinality(A!Edges) >= 2
      BY Zenon, <1>3, <1>5
    <3>2. \A e \in A!Edges : (e * A!Scale.ns) % A!Scale.parts = 0
      <4> SUFFICES ASSUME NEW e \in A!Edges
                   PROVE  (e * A!Scale.ns) % A!Scale.parts = 0
        OBVIOUS
      <4>1. PICK j \in 1 .. n : Cycles[j] = e
        BY Zenon, <1>2 DEF AllSampled
      <4>2. A!Representable(e)
        BY Zenon, <1>2, <4>1 DEF AllSampled
      <4>3. QED
        BY Zenon, <4>2 DEF A!Representable, Settled
    <3>3. ~dumped.stray
      <4> DEFINE d == [lines |-> dumped.lines, now |-> dumped.now,
                       stray |-> FALSE]
      <4>1. d.stray = FALSE /\ dumped = d
        BY Zenon DEF BodyInv
      <4> HIDE DEF d
      <4>2. QED
        BY Zenon, <4>1
    <3>4. QED
      BY Zenon, <3>1, <3>2, <3>3 DEF A!Usable, Settled
  <2>4. QED
    BY Zenon, <1>1, <2>1, <2>2, <2>3
<1>6. QED
  BY <1>3, <1>4, <1>5

-----------------------------------------------------------------------------
(* The conversion: what was read of the dump, and what is known at each    *)
(* stage of it.                                                            *)
Converting == stage \in {"header", "body", "sample"}
DumpInv ==
    /\ Converting => sim \in Simulations /\ BodyInv
    /\ stage = "header" => HeaderInv /\ Unsampled
    /\ stage = "body" => Declared /\ timescale = A!Scale /\ Unsampled
    /\ stage = "sample" => Declared /\ Settled /\ SampleInv
    /\ stage \in {"body", "sample"} => A!WellFormed
    /\ A!OutcomeFollowsDump /\ A!TraceIsWaveform

(* A run of the generator starts.                                          *)
LEMMA DumpInvStarts ==
    ASSUME A!AreSimulations, A!Init
    PROVE  DumpInv
<1>1. PICK s \in Simulations : A!Fresh(s)
  BY Zenon DEF A!Init
<1>2. /\ sim \in Simulations /\ header = sim.header /\ scope = << >>
      /\ variables = << >> /\ timescale = A!Missing /\ stage = "header"
      /\ blocks = <<[time |-> 0, changes |-> << >>]>>
      /\ dumped = [lines |-> 0, now |-> 0, stray |-> FALSE]
      /\ wave = [t \in Times |-> << >>] /\ Unsampled
  BY Zenon, <1>1 DEF A!Fresh, Unsampled
<1>3. HeaderInv
  BY Zenon, <1>2, SimulationIs, HeaderStarts
<1>4. BodyInv
  <2>1. dumped.lines = 0 /\ dumped.now = 0 /\ dumped.lines \in Nat
    BY <1>2
  <2>2. 0 \in Times
    BY Zenon, <1>2, SimulationIs
  <2>3. Blocked(blocks, dumped.now, wave)
    <3>1. Blocked(<<[time |-> 0, changes |-> << >>]>>, 0,
                  [t \in Times |-> << >>])
      BY Zenon, <2>2, BlockStarts
    <3>2. QED
      BY Zenon, <1>2, <2>1, <3>1
  <2>4. QED
    BY Zenon, <1>2, <2>1, <2>3 DEF BodyInv
<1>5. A!OutcomeFollowsDump /\ A!TraceIsWaveform
  BY <1>2 DEF A!OutcomeFollowsDump, A!TraceIsWaveform
<1>6. stage # "body" /\ stage # "sample" /\ stage \notin {"body", "sample"}
  BY <1>2
<1>7. QED
  BY Zenon, <1>2, <1>3, <1>4, <1>5, <1>6 DEF DumpInv

(* What is known stays known while nothing of it changes.                  *)
LEMMA BodyStays ==
    ASSUME BodyInv, sim' = sim, blocks' = blocks, dumped' = dumped, wave' = wave
    PROVE  BodyInv'
<1>1. Blocked(blocks, dumped.now, wave)
  BY Zenon DEF BodyInv
<1>2. Blocked(blocks', dumped'.now, wave')
  BY Zenon, <1>1
<1>3. Blocked(blocks, dumped.now, wave)'
  BY Zenon, <1>2, BlockedNext
<1>4. QED
  BY Zenon, <1>3 DEF BodyInv

(* The declarations.                                                       *)
LEMMA DeclaredStays ==
    ASSUME sim' = sim, variables' = variables, timescale' = timescale
    PROVE  /\ Declared => Declared'
           /\ timescale = A!Scale => timescale' = A!Scale'
<1>1. A!Scale' = A!Scale
  BY DEF A!Scale
<1>2. Declared => Declared'
  BY DEF Declared
<1>3. QED
  BY Zenon, <1>1, <1>2

(* The signals.                                                            *)
LEMMA SettledStays ==
    ASSUME Settled, sim' = sim, wave' = wave, timescale' = timescale
    PROVE  Settled'
<1>1. /\ A!Scale' = A!Scale /\ A!Counted' = A!Counted
      /\ \A s : A!Found(s)' <=> A!Found(s)
  BY DumpStays
<1>2. A!opt' = A!opt
  BY DEF A!opt
<1>3. QED
  BY Zenon, <1>1, <1>2 DEF Settled, A!Controls, A!NotGiven

(* The samples.                                                            *)
LEMMA SampleStays ==
    ASSUME SampleInv, sim' = sim, wave' = wave, variables' = variables,
           timescale' = timescale, blocks' = blocks, values' = values,
           previous_clock' = previous_clock, next_block' = next_block,
           previous_snapshot' = previous_snapshot, samples' = samples
    PROVE  SampleInv'
<1> DEFINE t == Upto
<1>1. /\ Upto' = t /\ next_block' \in 1 .. Len(blocks') + 1
      /\ previous_clock' = <<"1">> <=> A!ValueAt(Clock, t) = <<"1">>
      /\ Holds(values', t)
  BY Zenon DEF SampleInv, Upto
<1>2. PICK es : Sampled(es, t, samples', previous_snapshot')
  BY Zenon DEF SampleInv
<1> HIDE DEF t
<1>3. QED
  BY Zenon, <1>1, <1>2, SampleInvNext

(* No outcome, nothing to say of it.                                       *)
LEMMA NoOutcome ==
    ASSUME stage' \in {"header", "body", "sample", "ended"}
    PROVE  A!OutcomeFollowsDump' /\ A!TraceIsWaveform'
<1>1. stage' # "written" /\ stage' # "error" /\ stage' # "uncaught"
  OBVIOUS
<1>2. QED
  BY Zenon, <1>1 DEF A!OutcomeFollowsDump, A!TraceIsWaveform

(* An error on a dump that is of no use.                                   *)
LEMMA ErrorFollows ==
    ASSUME stage' = "error", ~A!Usable', ~A!HeaderCut'
    PROVE  DumpInv'
<1>1. stage' # "written" /\ stage' # "uncaught" /\ stage' # "header"
      /\ stage' # "body" /\ stage' # "sample"
  OBVIOUS
<1>2. A!OutcomeFollowsDump' /\ A!TraceIsWaveform'
  BY Zenon, <1>1 DEF A!OutcomeFollowsDump, A!TraceIsWaveform
<1>3. ~Converting'
  BY <1>1 DEF Converting
<1>4. stage' \notin {"body", "sample"}
  BY <1>1
<1>5. QED
  BY Zenon, <1>1, <1>2, <1>3, <1>4 DEF DumpInv

(* A traceback.                                                            *)
LEMMA TracebackFollows ==
    ASSUME stage' = "uncaught",
           A!HeaderCut' \/ (A!Usable' /\ (A!Slow' \/ ~A!Named'))
    PROVE  DumpInv'
<1>1. stage' # "written" /\ stage' # "error" /\ stage' # "header"
      /\ stage' # "body" /\ stage' # "sample"
  OBVIOUS
<1>2. A!OutcomeFollowsDump' /\ A!TraceIsWaveform'
  BY Zenon, <1>1 DEF A!OutcomeFollowsDump, A!TraceIsWaveform
<1>3. ~Converting'
  BY <1>1 DEF Converting
<1>4. stage' \notin {"body", "sample"}
  BY <1>1
<1>5. QED
  BY Zenon, <1>1, <1>2, <1>3, <1>4 DEF DumpInv

(* Each step of the conversion.                                            *)
LEMMA NoHeaderEndStep ==
    ASSUME A!NoHeaderEnd
    PROVE  DumpInv'
<1>1. /\ stage' = "error" /\ sim' = sim /\ sim.ending # "closed"
  BY Zenon DEF A!NoHeaderEnd, A!fail
<1>2. ~A!WellFormed' /\ ~A!HeaderCut'
  BY Zenon, <1>1 DEF A!WellFormed, A!HeaderCut
<1>3. ~A!Usable'
  BY Zenon, <1>2 DEF A!Usable
<1>4. QED
  BY Zenon, <1>1, <1>2, <1>3, ErrorFollows

LEMMA HeaderStep ==
    ASSUME A!AreSimulations, DumpInv, A!ReadToken \/ A!EndHeader
    PROVE  DumpInv'
<1>1. stage = "header"
  BY Zenon DEF A!ReadToken, A!EndHeader
<1>2. sim \in Simulations /\ BodyInv /\ HeaderInv /\ Unsampled
  BY Zenon, <1>1 DEF DumpInv, Converting
<1>3. /\ sim' = sim /\ blocks' = blocks /\ dumped' = dumped /\ wave' = wave
      /\ UNCHANGED A!sampleVars
  BY Zenon DEF A!ReadToken, A!EndHeader, A!parseVars
<1>4. BodyInv'
  BY Zenon, <1>2, <1>3, BodyStays
<1>5. Unsampled'
  BY Zenon, <1>2, <1>3 DEF Unsampled, A!sampleVars
<1>6. CASE A!ReadToken /\ Whole(Head(header))
  <2>1. HeaderInv'
    BY Zenon, <1>2, <1>6, TokenKeeps
  <2>2. stage' = "header"
    <3>1. stage' = A!AfterToken(Head(header))
      BY Zenon, <1>6 DEF A!ReadToken
    <3>2. A!AfterToken(Head(header)) = stage
      BY <1>6 DEF A!AfterToken, Whole
    <3>3. QED
      BY Zenon, <1>1, <3>1, <3>2
  <2>3. stage' # "body" /\ stage' # "sample" /\ stage' \notin {"body", "sample"}
    BY <2>2
  <2>4. A!OutcomeFollowsDump' /\ A!TraceIsWaveform'
    BY Zenon, <2>2, NoOutcome
  <2>5. QED
    BY Zenon, <1>2, <1>3, <1>4, <1>5, <2>1, <2>2, <2>3, <2>4 DEF DumpInv
<1>7. CASE A!ReadToken /\ ~Whole(Head(header))
  <2>1. \/ stage' = "error" /\ ~A!WellFormed' /\ ~A!HeaderCut'
        \/ stage' = "uncaught" /\ A!HeaderCut'
    <3>1. (A!WellFormed' <=> A!WellFormed) /\ (A!HeaderCut' <=> A!HeaderCut)
      BY Zenon, <1>3, DumpStays
    <3>2. QED
      BY Zenon, <1>2, <1>7, <3>1, TokenFails
  <2>2. ~A!WellFormed' => ~A!Usable'
    BY Zenon DEF A!Usable
  <2>3. QED
    BY Zenon, <2>1, <2>2, ErrorFollows, TracebackFollows
<1>8. CASE A!EndHeader
  <2>1. /\ sim' = sim /\ variables' = variables /\ timescale' = timescale
        /\ wave' = wave
    BY Zenon, <1>8 DEF A!EndHeader, A!parseVars
  <2>2. CASE stage' = "body" /\ Declared /\ timescale = A!Scale /\ A!WellFormed
    <3>1. Declared' /\ (timescale = A!Scale)'
      BY Zenon, <2>1, <2>2, DeclaredStays
    <3>2. stage' # "header" /\ stage' # "sample"
      BY <2>2
    <3>3. A!OutcomeFollowsDump' /\ A!TraceIsWaveform'
      BY Zenon, <2>2, NoOutcome
    <3>4. A!WellFormed'
      BY Zenon, <2>1, <2>2, DumpStays
    <3>5. QED
      BY Zenon, <1>2, <1>3, <1>4, <1>5, <2>2, <3>1, <3>2, <3>3, <3>4 DEF DumpInv
  <2>3. CASE stage' = "error" /\ ~A!Usable /\ A!WellFormed
    <3>1. dumped'.stray = dumped.stray
      BY Zenon, <1>3
    <3>2. ~A!Usable' /\ ~A!HeaderCut'
      BY Zenon, <2>1, <2>3, <3>1, DumpStays, WellFormedUncut
    <3>3. QED
      BY Zenon, <2>3, <3>2, ErrorFollows
  <2>4. QED
    BY Zenon, <1>2, <1>8, <2>2, <2>3, HeaderCloses
<1>9. QED
  BY Zenon, <1>6, <1>7, <1>8

(* A line of the body.                                                     *)
LEMMA DumpStep ==
    ASSUME A!AreSimulations, DumpInv, A!Dump
    PROVE  DumpInv'
<1>1. stage = "body"
  BY Zenon DEF A!Dump
<1>2. /\ sim \in Simulations /\ BodyInv /\ Declared /\ timescale = A!Scale
      /\ Unsampled /\ A!WellFormed
  <2>1. stage \in {"body", "sample"}
    BY <1>1
  <2>2. QED
    BY Zenon, <1>1, <2>1 DEF DumpInv, Converting
<1>3. /\ sim' = sim /\ variables' = variables /\ timescale' = timescale
      /\ values' = values /\ previous_clock' = previous_clock
      /\ previous_snapshot' = previous_snapshot
      /\ next_block' = next_block /\ samples' = samples
      /\ \/ stage' = "body" /\ BodyInv'
         \/ stage' = "error" /\ dumped'.stray
  BY Zenon, <1>2, DumpKeeps
<1>4. A!WellFormed'
  BY Zenon, <1>2, <1>3 DEF A!WellFormed
<1>5. CASE stage' = "body" /\ BodyInv'
  <2>1. Declared' /\ (timescale = A!Scale)'
    BY Zenon, <1>2, <1>3, DeclaredStays
  <2>2. Unsampled'
    BY Zenon, <1>2, <1>3 DEF Unsampled
  <2>3. stage' # "header" /\ stage' # "sample"
    BY <1>5
  <2>4. A!OutcomeFollowsDump' /\ A!TraceIsWaveform'
    BY Zenon, <1>5, NoOutcome
  <2>5. QED
    BY Zenon, <1>2, <1>3, <1>5, <1>4, <2>1, <2>2, <2>3, <2>4 DEF DumpInv
<1>6. CASE stage' = "error" /\ dumped'.stray
  <2>1. ~A!Usable' /\ ~A!HeaderCut'
    BY Zenon, <1>6, <1>4 DEF A!Usable, A!WellFormed, A!HeaderCut
  <2>2. QED
    BY Zenon, <1>6, <2>1, ErrorFollows
<1>7. QED
  BY Zenon, <1>3, <1>5, <1>6

(* The end of the file.                                                    *)
LEMMA FileStep ==
    ASSUME A!AreSimulations, DumpInv, A!EndOfFile
    PROVE  DumpInv'
<1>1. stage = "body"
  BY Zenon DEF A!EndOfFile
<1>2. /\ sim \in Simulations /\ BodyInv /\ Declared /\ timescale = A!Scale
      /\ Unsampled /\ A!WellFormed
  <2>1. stage \in {"body", "sample"}
    BY <1>1
  <2>2. QED
    BY Zenon, <1>1, <2>1 DEF DumpInv, Converting
<1>3. /\ sim' = sim /\ variables' = variables /\ timescale' = timescale
      /\ blocks' = blocks /\ dumped' = dumped /\ wave' = wave
      /\ values' = values /\ previous_clock' = previous_clock
      /\ previous_snapshot' = previous_snapshot
      /\ next_block' = next_block /\ samples' = samples
  BY Zenon DEF A!EndOfFile, A!parseVars, A!sampleVars
<1>4. BodyInv' /\ Declared' /\ A!WellFormed'
  BY Zenon, <1>2, <1>3, BodyStays, DeclaredStays DEF A!WellFormed
<1>5. CASE stage' = "sample" /\ Settled
  <2>1. Settled'
    BY Zenon, <1>3, <1>5, SettledStays
  <2>2. SampleInv
    BY Zenon, <1>2, <1>5, SampleStarts DEF BodyInv
  <2>3. SampleInv'
    BY Zenon, <1>3, <2>2, SampleStays
  <2>4. stage' # "header" /\ stage' # "body"
    BY <1>5
  <2>5. A!OutcomeFollowsDump' /\ A!TraceIsWaveform'
    BY Zenon, <1>5, NoOutcome
  <2>6. QED
    BY Zenon, <1>2, <1>3, <1>4, <1>5, <2>1, <2>3, <2>4, <2>5 DEF DumpInv
<1>6. CASE stage' = "error" /\ ~A!Usable
  <2>1. dumped'.stray = dumped.stray
    BY Zenon, <1>3
  <2>2. ~A!Usable' /\ ~A!HeaderCut'
    BY Zenon, <1>2, <1>3, <1>6, <2>1, DumpStays, WellFormedUncut
  <2>3. QED
    BY Zenon, <1>6, <2>2, ErrorFollows
<1>7. QED
  BY Zenon, <1>2, <1>5, <1>6, FileCloses

(* A block.                                                                *)
LEMMA SampleStep ==
    ASSUME A!AreSimulations, DumpInv, A!SampleBlock
    PROVE  DumpInv'
<1>1. stage = "sample"
  BY Zenon DEF A!SampleBlock
<1>2. /\ sim \in Simulations /\ BodyInv /\ Declared /\ Settled /\ SampleInv
      /\ A!WellFormed
  <2>1. stage \in {"body", "sample"}
    BY <1>1
  <2>2. QED
    BY Zenon, <1>1, <2>1 DEF DumpInv, Converting
<1>3. /\ sim' = sim /\ variables' = variables /\ timescale' = timescale
      /\ blocks' = blocks /\ dumped' = dumped /\ wave' = wave
      /\ \/ stage' = "sample" /\ SampleInv'
         \/ stage' = "error" /\ \E e \in A!Edges : ~A!Representable(e)
  BY Zenon, <1>2, SampleKeeps
<1>4. BodyInv' /\ Declared' /\ Settled' /\ A!WellFormed'
  BY Zenon, <1>2, <1>3, BodyStays, DeclaredStays, SettledStays DEF A!WellFormed
<1>5. CASE stage' = "sample" /\ SampleInv'
  <2>1. stage' # "header" /\ stage' # "body"
    BY <1>5
  <2>2. A!OutcomeFollowsDump' /\ A!TraceIsWaveform'
    BY Zenon, <1>5, NoOutcome
  <2>3. QED
    BY Zenon, <1>2, <1>3, <1>4, <1>5, <2>1, <2>2 DEF DumpInv
<1>6. CASE stage' = "error" /\ \E e \in A!Edges : ~A!Representable(e)
  <2>1. ~A!Usable
    BY Zenon, <1>2, <1>6 DEF A!Usable, A!Representable, Settled
  <2>2. dumped'.stray = dumped.stray
    BY Zenon, <1>3
  <2>3. ~A!Usable' /\ ~A!HeaderCut'
    BY Zenon, <1>2, <1>3, <2>1, <2>2, DumpStays, WellFormedUncut
  <2>4. QED
    BY Zenon, <1>6, <2>3, ErrorFollows
<1>7. QED
  BY Zenon, <1>3, <1>5, <1>6

(* The trace.                                                              *)
LEMMA GenerateStep ==
    ASSUME A!AreSimulations, DumpInv, A!Generate
    PROVE  DumpInv'
<1>1. stage = "sample"
  BY Zenon DEF A!Generate
<1>2. /\ sim \in Simulations /\ BodyInv /\ Declared /\ Settled /\ SampleInv
      /\ A!WellFormed
  <2>1. stage \in {"body", "sample"}
    BY <1>1
  <2>2. QED
    BY Zenon, <1>1, <2>1 DEF DumpInv, Converting
<1>3. /\ sim' = sim /\ variables' = variables /\ timescale' = timescale
      /\ dumped' = dumped /\ wave' = wave
  BY Zenon DEF A!Generate, A!parseVars
<1>4. dumped'.stray = dumped.stray
  BY Zenon, <1>3
<1>5. /\ (A!Usable' <=> A!Usable) /\ (A!Slow' <=> A!Slow)
      /\ (A!Named' <=> A!Named) /\ ~A!HeaderCut'
  BY Zenon, <1>2, <1>3, <1>4, DumpStays, WellFormedUncut
<1>6. CASE stage' = "error" /\ ~A!Usable
  BY Zenon, <1>5, <1>6, ErrorFollows
<1>7. CASE stage' = "uncaught" /\ A!Usable /\ (A!Slow \/ ~A!Named)
  BY Zenon, <1>5, <1>7, TracebackFollows
<1>8. CASE /\ stage' = "written" /\ A!Usable /\ ~A!Slow /\ A!Named
           /\ \E t : trace' = t /\ Describes(t)
  <2>1. /\ stage' # "uncaught" /\ stage' # "error" /\ stage' # "header"
        /\ stage' # "body" /\ stage' # "sample"
        /\ stage' \notin {"body", "sample"}
    BY <1>8
  <2>2. A!OutcomeFollowsDump'
    BY Zenon, <1>5, <1>8, <2>1 DEF A!OutcomeFollowsDump
  <2>3. A!TraceIsWaveform'
    BY Zenon, <1>3, <1>8, DescribesStays
  <2>4. ~Converting'
    BY <2>1 DEF Converting
  <2>5. QED
    BY Zenon, <2>1, <2>2, <2>3, <2>4 DEF DumpInv
<1>9. QED
  BY Zenon, <1>2, <1>6, <1>7, <1>8, GenerateEnds

(* A step that leaves the conversion as it is.                             *)
LEMMA IdleStep ==
    ASSUME DumpInv, UNCHANGED traceVars
    PROVE  DumpInv'
<1>1. /\ sim' = sim /\ header' = header /\ scope' = scope
      /\ variables' = variables /\ timescale' = timescale /\ blocks' = blocks
      /\ values' = values /\ previous_clock' = previous_clock
      /\ previous_snapshot' = previous_snapshot
      /\ next_block' = next_block /\ samples' = samples
      /\ stage' = stage /\ trace' = trace /\ dumped' = dumped /\ wave' = wave
  BY DEF traceVars
<1>2. Converting' => sim' \in Simulations /\ BodyInv'
  BY Zenon, <1>1, BodyStays DEF DumpInv, Converting
<1>3. Unsampled => Unsampled'
  BY Zenon, <1>1 DEF Unsampled
<1>4. HeaderInv => HeaderInv'
  BY Zenon, <1>1 DEF HeaderInv, HeaderRead
<1>5. stage' = "header" => HeaderInv' /\ Unsampled'
  BY Zenon, <1>1, <1>3, <1>4 DEF DumpInv
<1>6. stage' = "body" => Declared' /\ timescale' = A!Scale' /\ Unsampled'
  BY Zenon, <1>1, <1>3, DeclaredStays DEF DumpInv
<1>7. stage' = "sample" => Declared' /\ Settled' /\ SampleInv'
  BY Zenon, <1>1, DeclaredStays, SettledStays, SampleStays DEF DumpInv
<1>8. A!OutcomeFollowsDump'
  <2>1. dumped'.stray = dumped.stray
    BY Zenon, <1>1
  <2>2. /\ (A!Usable' <=> A!Usable) /\ (A!Slow' <=> A!Slow)
        /\ (A!Named' <=> A!Named) /\ (A!HeaderCut' <=> A!HeaderCut)
    BY Zenon, <1>1, <2>1, DumpStays
  <2>3. QED
    BY Zenon, <1>1, <2>2 DEF DumpInv, A!OutcomeFollowsDump
<1>9. A!TraceIsWaveform'
  <2>1. CASE stage = "written"
    <3>1. Describes(trace)
      BY <2>1 DEF DumpInv, A!TraceIsWaveform, Describes, Cycles
    <3>2. QED
      BY Zenon, <1>1, <3>1, DescribesStays
  <2>2. CASE stage # "written"
    BY Zenon, <1>1, <2>2 DEF A!TraceIsWaveform
  <2>3. QED
    BY Zenon, <2>1, <2>2
<1>10. stage' \in {"body", "sample"} => A!WellFormed'
  BY Zenon, <1>1 DEF DumpInv, A!WellFormed
<1>11. QED
  BY Zenon, <1>2, <1>5, <1>6, <1>7, <1>8, <1>9, <1>10 DEF DumpInv

(* What is known of the conversion is known at every step of the flow.     *)
LEMMA DumpKnown == Spec => []DumpInv
<1> USE SimulationsAssumption
<1>1. Init => DumpInv
  BY Zenon, DumpInvStarts DEF Init
<1>2. ASSUME DumpInv, [Next]_vars
      PROVE  DumpInv'
  <2>1. CASE Convert
    BY Zenon, <1>2, <2>1, NoHeaderEndStep, HeaderStep, DumpStep, FileStep,
       SampleStep, GenerateStep DEF Convert, A!Next
  <2>2. CASE Publish \/ Fail
    <3>1. stage' = "ended"
      BY Zenon, <2>2 DEF Publish, Fail, End
    <3>2. stage' # "header" /\ stage' # "body" /\ stage' # "sample"
              /\ stage' \notin {"body", "sample"}
      BY <3>1
    <3>3. ~Converting'
      BY <3>2 DEF Converting
    <3>4. A!OutcomeFollowsDump' /\ A!TraceIsWaveform'
      BY Zenon, <3>1, NoOutcome
    <3>5. QED
      BY Zenon, <3>2, <3>3, <3>4 DEF DumpInv
  <2>3. CASE Assess
    BY Zenon, <1>2, <2>3, IdleStep DEF Assess
  <2>4. CASE UNCHANGED vars
    <3>1. UNCHANGED traceVars
      BY <2>4 DEF vars
    <3>2. QED
      BY Zenon, <1>2, <3>1, IdleStep
  <2>5. QED
    BY Zenon, <1>2, <2>1, <2>2, <2>3, <2>4 DEF Next
<1>3. QED
  BY <1>1, <1>2, PTL DEF Spec

(* A trace is written only of a dump that can be converted, an error is    *)
(* reported only for one that cannot, and a traceback is left only by a    *)
(* header cut within a declaration, a slow clock and an empty name.        *)
THEOREM TracesFollowDumps == Spec => []OutcomeFollowsDump
<1>1. DumpInv => OutcomeFollowsDump
  BY Zenon DEF DumpInv, OutcomeFollowsDump
<1>2. QED
  BY <1>1, DumpKnown, PTL

(* A written trace recounts the waveform of its dump, edge by edge.        *)
THEOREM TracesAreWaveforms == Spec => []TraceIsWaveform
<1>1. DumpInv => TraceIsWaveform
  BY Zenon DEF DumpInv, TraceIsWaveform
<1>2. QED
  BY <1>1, DumpKnown, PTL

-----------------------------------------------------------------------------
(* The verdict of an assessment is about the dumps of its traces.          *)
THEOREM VerdictSound == Spec => []VerdictOnDumps
<1> USE UnitAssumption, FilesAssumption
<1>1. Init => DInv
  <2> SUFFICES ASSUME Init PROVE DInv
    OBVIOUS
  <2>1. LInv
    BY Zenon, Starts
  <2>2. series = << >> /\ phase = "start" /\ stage = "header"
    BY Zenon DEF Init, T!Idle, A!Init, A!Fresh
  <2>3. phase \notin {"load", "take", "reported", "exited"} /\ stage # "ended"
    BY <2>2
  <2>4. VerdictOnDumps
    BY Zenon, <2>3, VerdictParts
  <2>5. QED
    BY Zenon, <2>1, <2>2, <2>3, <2>4 DEF DInv
<1>2. ASSUME DInv, TraceIsWaveform, [Next]_vars
      PROVE  DInv'
  <2>1. CASE Convert
    BY Zenon, <1>2, <2>1, ConvertStays
  <2>2. CASE Publish \/ Fail
    BY Zenon, <1>2, <2>2, ConvertEnds
  <2>3. CASE Assess
    <3>1. stage = "ended" /\ T!Next /\ UNCHANGED <<stage, counted>> /\ LInv
      BY Zenon, <1>2, <2>3 DEF Assess, traceVars, DInv
    <3>2. LInv'
      BY Zenon, <3>1, ExpandKeeps, LoadKeeps, AlignKeeps, TakeKeeps,
         ReportKeeps DEF T!Next
    <3>3. QED
      BY Zenon, <1>2, <3>1, <3>2, ExpandKnows, LoadKnows, AlignKnows,
         TakeKnows, ReportKnows DEF T!Next
  <2>4. CASE UNCHANGED vars
    <3>1. /\ UNCHANGED <<disk, args, counted, stage>>
          /\ UNCHANGED assessVars
      BY <2>4 DEF vars, traceVars
    <3>2. UNCHANGED <<fixed_paths, random_paths, series, fixed_stats, phase>>
      BY <3>1 DEF assessVars
    <3>3. LInv' /\ VerdictOnDumps'
      BY Zenon, <1>2, <3>1, OthersKeep, VerdictStays DEF DInv
    <3>4. T!paths' = T!paths /\ T!prefix' = T!prefix
      BY Zenon, <3>2 DEF T!paths, T!prefix, T!lengths
    <3>5. (Loaded => Loaded') /\ (Traces => Traces')
      BY Zenon, <3>1, <3>2, <3>4 DEF Loaded, Traces
    <3>6. QED
      BY Zenon, <1>2, <3>1, <3>2, <3>3, <3>4, <3>5 DEF DInv
  <2>5. QED
    BY Zenon, <1>2, <2>1, <2>2, <2>3, <2>4 DEF Next
<1>3. DInv => VerdictOnDumps
  BY Zenon DEF DInv
<1>4. QED
  BY <1>1, <1>2, <1>3, TracesAreWaveforms, PTL DEF Spec
=============================================================================
