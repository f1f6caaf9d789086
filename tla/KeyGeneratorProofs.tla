------------------------- MODULE KeyGeneratorProofs -------------------------
(***************************************************************************)
(* Proofs about zipf_key_generator, for every size of the table and every  *)
(* way that the sums may be rounded.                                       *)
(***************************************************************************)
EXTENDS KeyGenerator, TLAPS

\* What the constructor establishes, loop by loop: the entries that are filled
\* grow, and none is larger than the running sum.
TableInv ==
  /\ n \in Sizes /\ theta \in {0, 1}
  /\ i \in Nat /\ sum \in Nat /\ prob \in Nat /\ sumc \in Nat
  /\ pc \in {"sum", "fill", "idle", "search", "found"}
  /\ pc = "sum" => i > 0 /\ zdist = <<>>
  /\ pc = "fill" => i <= n
  /\ pc \in {"idle", "search", "found"} => i = n
  /\ pc # "sum" =>
       /\ DOMAIN zdist = 0 .. i - 1
       /\ \A k \in 0 .. i - 1 : zdist[k] \in Nat /\ zdist[k] <= sumc
       /\ \A j, k \in 0 .. i - 1 : j <= k => zdist[j] <= zdist[k]

\* The inductive invariant: a grown table, and the interval of the search.
KInv ==
  /\ TableInv
  /\ r \in Nat /\ lo \in Nat /\ hi \in Nat
  /\ FoundPlace

-----------------------------------------------------------------------------

\* A quotient of naturals is a natural.
LEMMA QuotientNat ==
  ASSUME NEW a \in Nat, NEW b \in Nat, b > 0
  PROVE  a \div b \in Nat
<1>1. a \div b \in Int /\ b * (a \div b) <= a /\ a < b * (a \div b) + b
  BY SMTT(30)
<1>2. a \div b >= 0
  BY SMTT(30)
<1> QED
  BY <1>1, <1>2

\* A rounded quotient is a natural, whichever way it is rounded.
LEMMA RoundedNat ==
  ASSUME NEW a \in Nat, NEW b \in Nat, b > 0
  PROVE  Rounded(a, b) \subseteq Nat
<1>1. a + b - 1 \in Nat
  OBVIOUS
<1> QED
  BY <1>1, QuotientNat DEF Rounded

\* The middle of two different bounds is a place between them: Halve gets closer
\* whichever side it goes to, and reads below hi.
LEMMA MidBetween ==
  ASSUME lo \in Nat, hi \in Nat, lo < hi
  PROVE  Mid \in Nat /\ lo <= Mid /\ Mid < hi
  BY DEF Mid

\* What a step of gen_zipf adds to a sum is a natural.
LEMMA PowPositive ==
  ASSUME theta \in {0, 1}, NEW k \in Nat, k > 0
  PROVE  Pow(k) \in Nat /\ Pow(k) > 0
  BY DEF Pow

-----------------------------------------------------------------------------

\* The invariant holds when the constructor is entered.
LEMMA KInvInit == Init => KInv
<1> SUFFICES ASSUME Init PROVE KInv
  OBVIOUS
<1> QED
  BY KeyGeneratorAssumption DEF Init, KInv, TableInv, FoundPlace

\* Every step of the constructor and of next() keeps it.
LEMMA KInvStep == KInv /\ [Next]_vars => KInv'
<1> SUFFICES ASSUME KInv, [Next]_vars PROVE KInv'
  OBVIOUS
<1> USE DEF KInv, TableInv
<1>1. n \in Nat /\ One \in Nat /\ One > 0
  BY KeyGeneratorAssumption
<1>2. CASE AddUp
  <2>1. Rounded(One, Pow(i)) \subseteq Nat
    BY <1>1, <1>2, PowPositive, RoundedNat DEF AddUp
  <2> QED
    BY <1>2, <2>1 DEF AddUp, FoundPlace
<1>3. CASE Normalise
  <2>1. One * One \in Nat
    BY <1>1
  <2>2. prob' \in Nat
    BY <1>3, <2>1, RoundedNat DEF Normalise
  <2> QED
    BY <1>1, <1>3, <2>2 DEF Normalise, FoundPlace
<1>4. CASE Fill
  <2>1. PICK x \in Share(i) :
          /\ sumc' = sumc + x
          /\ zdist' = [k \in 0 .. i |-> IF k = i THEN sumc + x ELSE zdist[k]]
    BY <1>4 DEF Fill
  <2>2. x \in Nat
    BY <2>1, PowPositive, RoundedNat DEF Share
  <2>3. /\ pc = "fill" /\ i < n /\ i' = i + 1 /\ pc' = pc
        /\ UNCHANGED <<n, theta, sum, prob, r, lo, hi>>
    BY <1>4 DEF Fill
  <2>4. DOMAIN zdist' = 0 .. i' - 1
    BY <2>1, <2>3
  <2>5. \A k \in 0 .. i' - 1 : zdist'[k] \in Nat /\ zdist'[k] <= sumc'
    BY <2>1, <2>2, <2>3
  <2>6. \A j, k \in 0 .. i' - 1 : j <= k => zdist'[j] <= zdist'[k]
    BY <2>1, <2>2, <2>3
  <2> QED
    BY <1>1, <2>1, <2>2, <2>3, <2>4, <2>5, <2>6 DEF FoundPlace
<1>5. CASE Made
  BY <1>1, <1>5 DEF Made, table, FoundPlace
<1>6. CASE Draw
  BY <1>1, <1>6 DEF Draw, table, Last, FoundPlace, Mid
<1>7. CASE Halve
  <2>1. lo < hi /\ hi <= n /\ i = n /\ pc = "search"
    BY <1>7 DEF Halve, FoundPlace
  <2>2. Mid \in Nat /\ lo <= Mid /\ Mid < hi
    BY <2>1, MidBetween
  <2>3. UNCHANGED <<n, theta, i, sum, prob, sumc, zdist, pc, r>>
    BY <1>7 DEF Halve, table
  <2>4. TableInv'
    BY <2>3
  <2>5. \A k \in 0 .. n - 1 :
          (k < lo => zdist[k] <= r) /\ (k >= hi => zdist[k] > r)
    BY <2>1 DEF FoundPlace
  <2>6. \A j, k \in 0 .. n - 1 :
          zdist[j] \in Nat /\ (j <= k => zdist[j] <= zdist[k])
    BY <2>1
  <2>7. CASE zdist[Mid] <= r
    <3>1. lo' = Mid + 1 /\ hi' = hi
      BY <1>7, <2>7 DEF Halve, Passed, Above
    <3>2. \A k \in 0 .. n - 1 : k < lo' => zdist[k] <= r
      BY <1>1, <2>1, <2>2, <2>6, <2>7, <3>1
    <3>3. lo' # hi' => Mid' \in DOMAIN zdist
      BY <1>1, <2>1, <2>2, <3>1 DEF Mid
    <3> QED
      BY <1>1, <2>1, <2>2, <2>3, <2>4, <2>5, <3>1, <3>2, <3>3 DEF FoundPlace
  <2>8. CASE ~(zdist[Mid] <= r)
    <3>1. lo' = lo /\ hi' = Mid
      BY <1>7, <2>8 DEF Halve, Passed
    <3>2. \A k \in 0 .. n - 1 : k >= hi' => zdist[k] > r
      BY <1>1, <2>1, <2>2, <2>6, <2>8, <3>1
    <3>3. lo' # hi' => Mid' \in DOMAIN zdist
      BY <1>1, <2>1, <2>2, <3>1 DEF Mid
    <3> QED
      BY <1>1, <2>1, <2>2, <2>3, <2>4, <2>5, <3>1, <3>2, <3>3 DEF FoundPlace
  <2> QED
    BY <2>7, <2>8
<1>8. CASE Return
  BY <1>8 DEF Return, table, FoundPlace, Mid
<1>9. CASE UNCHANGED vars
  BY <1>9 DEF vars, table, FoundPlace, Mid
<1> QED
  BY <1>2, <1>3, <1>4, <1>5, <1>6, <1>7, <1>8, <1>9 DEF Next, Work

\* next() returns the reference answer for every size of the table, every
\* rounding of the sums and every number drawn, and reads inside of the table.
THEOREM SearchIsCorrect == Spec => []FoundPlace
<1>1. KInv => FoundPlace
  BY DEF KInv
<1> QED
  BY KInvInit, KInvStep, <1>1, PTL DEF Spec

-----------------------------------------------------------------------------
(***************************************************************************)
(* Rounding.  The history of the sum is a function h whose k-th value is   *)
(* what the first k terms made of it; the entries are compared with it.    *)
(***************************************************************************)

\* h is a possible history of `sum' after m terms: no term is more than rounded up.
History(h, m) ==
  /\ h \in [0 .. m -> Nat]
  /\ h[0] = 0
  /\ \A k \in 0 .. m - 1 :
       Pow(k + 1) * (h[k + 1] - h[k]) <= One + Pow(k + 1) - 1

\* The rounding that has happened so far: c is not too small for the sum, and what
\* has been filled is less than its share of the sum by two units per entry at most.
RoundInv ==
  /\ pc = "sum" =>
       /\ i <= n + 1 /\ (i > 1 => sum >= One)
       /\ \E h : History(h, i - 1) /\ h[i - 1] = sum
  /\ pc # "sum" /\ n > 0 =>
       /\ prob <= One
       /\ i > 0 => zdist[i - 1] = sumc
       /\ \E h : /\ History(h, n)
                 /\ One * One < (prob + 1) * h[n]
                 /\ (prob + 1) * h[i] <= One * sumc + 2 * One * i

\* A rounded quotient is less than one away from the exact one.
LEMMA RoundedBounds ==
  ASSUME NEW a \in Nat, NEW b \in Nat, b > 0, NEW x \in Rounded(a, b)
  PROVE  x \in Nat /\ b * x <= a + b - 1 /\ a <= b * x + b - 1
<1>1. ASSUME NEW c \in Nat
      PROVE  c \div b \in Nat /\ b * (c \div b) <= c /\ c < b * (c \div b) + b
  <2>1. c \div b \in Int /\ b * (c \div b) <= c /\ c < b * (c \div b) + b
    BY SMTT(30)
  <2> QED
    BY <2>1, QuotientNat
<1>2. CASE x = a \div b
  <2>1. x \in Nat /\ b * x <= a /\ a < b * x + b
    BY <1>1, <1>2
  <2>2. PICK m \in Nat : m = b * x
    BY <2>1
  <2>3. m <= a + b - 1 /\ a <= m + b - 1
    BY <2>1, <2>2
  <2> QED
    BY <2>1, <2>2, <2>3
<1>3. CASE x = (a + b - 1) \div b
  <2>1. a + b - 1 \in Nat
    OBVIOUS
  <2>2. x \in Nat /\ b * x <= a + b - 1 /\ a + b - 1 < b * x + b
    BY <1>1, <1>3, <2>1
  <2>3. PICK m \in Nat : m = b * x
    BY <2>2
  <2>4. a <= m + b - 1
    BY <2>2, <2>3
  <2> QED
    BY <2>2, <2>3, <2>4
<1> QED
  BY <1>2, <1>3 DEF Rounded

\* One entry: a share y that is not more than rounded down and a term x that is not
\* more than rounded up, both of the same divisor p.
LEMMA OneEntry ==
  ASSUME NEW o \in Nat, NEW c \in Nat, c <= o, NEW p \in Nat, p > 0, p <= o,
         NEW x \in Int, p * x <= o + p - 1, NEW y \in Nat, c <= p * y + p - 1
  PROVE  (c + 1) * x <= o * y + 2 * o
<1>1. PICK q \in Nat : p = q + 1
  <2>1. p - 1 \in Nat /\ p = (p - 1) + 1
    OBVIOUS
  <2> QED
    BY <2>1
<1>2. (c + 1) * (p * x) <= (c + 1) * (o + q)
  <2>1. PICK u \in Int : u = p * x
    OBVIOUS
  <2>2. u <= o + q
    BY <1>1, <2>1
  <2>3. (c + 1) * u <= (c + 1) * (o + q)
    BY <2>2, SMTT(30)
  <2> QED
    BY <2>1, <2>3
<1>3. o * c <= o * (p * y) + o * q
  <2>1. PICK u \in Nat : u = p * y
    OBVIOUS
  <2>2. c <= u + q
    BY <1>1, <2>1
  <2>3. o * c <= o * (u + q)
    BY <2>2, SMTT(30)
  <2>4. o * (u + q) = o * u + o * q
    OBVIOUS
  <2> QED
    BY <2>1, <2>3, <2>4
<1>4. c * q <= o * q /\ q <= o
  BY <1>1, SMTT(30)
<1>5. p * ((c + 1) * x) <= p * (o * y + 2 * o)
  <2>1. p * ((c + 1) * x) = (c + 1) * (p * x)
    BY SMTT(30)
  <2>2. p * (o * y + 2 * o) = o * (p * y) + 2 * (o * q) + 2 * o
    BY <1>1, SMTT(30)
  <2>3. (c + 1) * (o + q) = o * c + c * q + o + q
    BY SMTT(30)
  <2>4. PICK s \in Int : s = (c + 1) * (p * x)
    OBVIOUS
  <2>5. PICK t \in Nat : t = o * (p * y)
    OBVIOUS
  <2>6. PICK v \in Nat : v = o * q
    OBVIOUS
  <2>7. PICK z \in Nat : z = o * c
    OBVIOUS
  <2>8. PICK d \in Nat : d = c * q
    OBVIOUS
  <2>9. s <= z + d + o + q /\ z <= t + v /\ d <= v /\ q <= o
    BY <1>2, <1>3, <1>4, <2>3, <2>4, <2>5, <2>6, <2>7, <2>8
  <2>10. s <= t + 2 * v + 2 * o
    BY <2>9
  <2> QED
    BY <2>1, <2>2, <2>4, <2>5, <2>6, <2>10
<1>6. ASSUME NEW s \in Int, NEW t \in Int, p * s <= p * t PROVE s <= t
  BY <1>6, SMTT(30)
<1> QED
  BY <1>5, <1>6

\* 1 / sum, for a sum of at least 1.
LEMMA ShareOfSum ==
  ASSUME NEW o \in Nat, NEW s \in Nat, s >= o, o > 0, NEW c \in Rounded(o * o, s)
  PROVE  c \in Nat /\ c <= o /\ o * o < (c + 1) * s
<1>1. PICK m \in Nat : m = o * o
  OBVIOUS
<1>2. c \in Nat /\ s * c <= m + s - 1 /\ m <= s * c + s - 1
  BY <1>1, RoundedBounds
<1>3. m < (c + 1) * s
  <2>1. (c + 1) * s = s * c + s
    BY <1>2, SMTT(30)
  <2>2. PICK u \in Nat : u = s * c
    BY <1>2
  <2> QED
    BY <1>2, <2>1, <2>2
<1>4. ~(c >= o + 1)
  <2> SUFFICES ASSUME c >= o + 1 PROVE FALSE
    OBVIOUS
  <2>1. s * c >= s * (o + 1)
    BY <1>2, SMTT(30)
  <2>2. s * (o + 1) = s * o + s
    OBVIOUS
  <2>3. s * o >= m
    BY <1>1, SMTT(30)
  <2>4. PICK u \in Nat : u = s * c
    BY <1>2
  <2>5. PICK v \in Nat : v = s * o
    OBVIOUS
  <2> QED
    BY <1>1, <1>2, <2>1, <2>2, <2>3, <2>4, <2>5
<1> QED
  BY <1>1, <1>2, <1>3, <1>4

\* No divisor of gen_zipf is larger than the resolution.
LEMMA PowSmall ==
  ASSUME TableInv, NEW k \in Nat, k > 0, k <= n
  PROVE  Pow(k) \in Nat /\ Pow(k) > 0 /\ Pow(k) <= One /\ (k = 1 => Pow(k) = 1)
  BY KeyGeneratorAssumption DEF Pow, TableInv

\* At the start no term has been added.
LEMMA RoundInit == Init => RoundInv
<1> SUFFICES ASSUME Init PROVE RoundInv
  OBVIOUS
<1>1. n \in Nat /\ i = 1 /\ sum = 0 /\ pc = "sum" /\ i - 1 = 0
  BY KeyGeneratorAssumption DEF Init
<1> DEFINE g == [k \in 0 .. 0 |-> 0]
<1>2. g \in [0 .. 0 -> Nat] /\ g[0] = 0 /\ 0 .. 0 - 1 = {}
  OBVIOUS
<1> HIDE DEF g
<1>3. History(g, 0)
  BY <1>2 DEF History
<1> QED
  BY <1>1, <1>2, <1>3 DEF RoundInv

\* Every step keeps the rounding within its bounds.
LEMMA RoundStep == KInv /\ RoundInv /\ [Next]_vars => RoundInv'
<1> SUFFICES ASSUME KInv, RoundInv, [Next]_vars PROVE RoundInv'
  OBVIOUS
<1>1. TableInv /\ n \in Nat /\ One \in Nat /\ One > 0 /\ i \in Nat /\ sum \in Nat
      /\ prob \in Nat /\ sumc \in Nat
  BY KeyGeneratorAssumption DEF KInv, TableInv
<1>2. CASE AddUp
  <2>1. PICK x \in Rounded(One, Pow(i)) : sum' = sum + x
    BY <1>2 DEF AddUp
  <2>2. /\ pc = "sum" /\ i <= n /\ i > 0 /\ i' = i + 1 /\ pc' = pc
        /\ UNCHANGED <<n, theta>>
    BY <1>1, <1>2 DEF AddUp, TableInv
  <2>3. Pow(i) \in Nat /\ Pow(i) > 0 /\ (i = 1 => Pow(i) = 1)
    BY <1>1, <2>2, PowSmall
  <2>4. x \in Nat /\ Pow(i) * x <= One + Pow(i) - 1 /\ One <= Pow(i) * x + Pow(i) - 1
    BY <1>1, <2>3, RoundedBounds
  <2>5. i = 1 => x >= One
    <3> SUFFICES ASSUME i = 1 PROVE x >= One
      OBVIOUS
    <3>1. Pow(i) * x = x
      BY <2>3, <2>4
    <3> QED
      BY <1>1, <2>3, <2>4, <3>1
  <2>6. sum' >= One
    <3>1. i = 1 \/ i > 1
      BY <1>1, <2>2
    <3> QED
      BY <1>1, <2>1, <2>2, <2>4, <2>5, <3>1 DEF RoundInv
  <2>7. PICK h : History(h, i - 1) /\ h[i - 1] = sum
    BY <2>2 DEF RoundInv
  <2>0. PICK g : g = [k \in 0 .. i |-> IF k = i THEN sum + x ELSE h[k]]
    OBVIOUS
  <2>8. /\ g \in [0 .. i -> Nat] /\ g[i] = sum + x /\ g[0] = 0
        /\ \A k \in 0 .. i - 1 : g[k] = h[k]
    BY <1>1, <2>0, <2>2, <2>4, <2>7 DEF History
  <2>9. ASSUME NEW k \in 0 .. i - 1
        PROVE  Pow(k + 1) * (g[k + 1] - g[k]) <= One + Pow(k + 1) - 1
    <3>1. CASE k = i - 1
      <4>1. k + 1 = i /\ g[k + 1] - g[k] = x
        BY <1>1, <2>4, <2>7, <2>8, <3>1
      <4> QED
        BY <2>4, <4>1
    <3>2. CASE k # i - 1
      <4>1. k \in 0 .. (i - 1) - 1 /\ k + 1 \in 0 .. i - 1
        BY <1>1, <3>2
      <4> QED
        BY <2>7, <2>8, <4>1 DEF History
    <3> QED
      BY <3>1, <3>2
  <2>10. History(g, i)
    BY <2>8, <2>9 DEF History
  <2>11. i' - 1 = i /\ g[i] = sum' /\ i' <= n' + 1
    BY <1>1, <2>1, <2>2, <2>8
  <2>12. (History(g, i - 1))'
    BY <2>2, <2>10, <2>11 DEF History, Pow
  <2>13. \E h2 : (History(h2, i - 1))' /\ h2[i' - 1] = sum'
    BY <2>11, <2>12
  <2> QED
    BY <2>2, <2>6, <2>11, <2>13 DEF RoundInv
<1>3. CASE Normalise
  <2>1. /\ pc = "sum" /\ i > n /\ i' = 0 /\ pc' = "fill"
        /\ UNCHANGED <<n, theta, sum, sumc, zdist>>
        /\ prob' \in (IF sum = 0 THEN {0} ELSE Rounded(One * One, sum))
    BY <1>3 DEF Normalise
  <2> SUFFICES ASSUME n > 0
               PROVE  /\ prob' <= One
                      /\ \E h : /\ History(h, n)'
                                /\ One * One < (prob' + 1) * h[n]
                                /\ (prob' + 1) * h[0] <= One * sumc' + 2 * One * 0
    BY <2>1 DEF RoundInv
  <2>2. i - 1 = n /\ sum >= One /\ sum > 0
    BY <1>1, <2>1 DEF RoundInv
  <2>3. PICK h : History(h, n) /\ h[n] = sum
    BY <2>1, <2>2 DEF RoundInv
  <2>4. prob' \in Nat /\ prob' <= One /\ One * One < (prob' + 1) * sum
    <3>1. prob' \in Rounded(One * One, sum)
      BY <1>1, <2>1, <2>2
    <3> QED
      BY <1>1, <2>2, <3>1, ShareOfSum, Zenon
  <2>5. History(h, n)' /\ h[0] = 0
    BY <2>1, <2>3 DEF History, Pow
  <2>6. (prob' + 1) * 0 = 0 /\ One * sumc' + 2 * One * 0 >= 0
    <3>1. One * sumc \in Nat /\ 2 * One * 0 = 0
      BY <1>1
    <3>2. PICK c \in Nat : c + 1 = prob' + 1
      BY <2>4
    <3>3. (c + 1) * 0 = 0
      OBVIOUS
    <3>4. PICK s \in Nat : s = One * sumc'
      BY <2>1, <3>1
    <3>5. s + 2 * One * 0 >= 0
      BY <3>1
    <3> QED
      BY <3>2, <3>3, <3>4, <3>5
  <2> QED
    BY <2>3, <2>4, <2>5, <2>6
<1>4. CASE Fill
  <2>1. PICK x \in Share(i) :
          /\ sumc' = sumc + x
          /\ zdist' = [k \in 0 .. i |-> IF k = i THEN sumc + x ELSE zdist[k]]
    BY <1>4 DEF Fill
  <2>2. /\ pc = "fill" /\ i < n /\ i' = i + 1 /\ pc' = pc
        /\ UNCHANGED <<n, theta, prob>>
    BY <1>4 DEF Fill
  <2>3. prob <= One /\ n > 0
    BY <1>1, <2>2 DEF RoundInv
  <2>4. PICK h : /\ History(h, n)
                 /\ One * One < (prob + 1) * h[n]
                 /\ (prob + 1) * h[i] <= One * sumc + 2 * One * i
    BY <2>2, <2>3 DEF RoundInv
  <2> DEFINE p == Pow(i + 1)
  <2>5. p \in Nat /\ p > 0 /\ p <= One
    BY <1>1, <2>2, PowSmall
  <2>6. x \in Nat /\ prob <= p * x + p - 1
    BY <1>1, <2>1, <2>5, RoundedBounds DEF Share
  <2>7. h[i] \in Nat /\ h[i + 1] \in Nat /\ p * (h[i + 1] - h[i]) <= One + p - 1
    <3>1. i \in 0 .. n /\ i + 1 \in 0 .. n /\ i \in 0 .. n - 1
      BY <1>1, <2>2
    <3> QED
      BY <2>4, <3>1 DEF History
  <2> HIDE DEF p
  <2>8. PICK d \in Int : d = h[i + 1] - h[i]
    BY <2>7
  <2>9. (prob + 1) * d <= One * x + 2 * One
    BY <1>1, <2>3, <2>5, <2>6, <2>7, <2>8, OneEntry
  <2>10. (prob + 1) * h[i + 1] <= One * (sumc + x) + 2 * One * (i + 1)
    <3>1. PICK a \in Nat : a = h[i]
      BY <2>7
    <3>2. h[i + 1] = a + d
      BY <2>7, <2>8, <3>1
    <3>3. (prob + 1) * (a + d) = (prob + 1) * a + (prob + 1) * d
      BY <1>1, SMTT(30)
    <3>4. One * (sumc + x) = One * sumc + One * x
      BY <1>1, <2>6, SMTT(30)
    <3>5. 2 * One * (i + 1) = 2 * One * i + 2 * One
      BY <1>1, SMTT(30)
    <3>6. PICK u \in Int : u = (prob + 1) * a
      BY <1>1
    <3>7. PICK v \in Int : v = (prob + 1) * d
      BY <1>1
    <3>8. PICK s \in Int : s = One * sumc
      BY <1>1
    <3>9. PICK t \in Int : t = One * x
      BY <1>1, <2>6
    <3>10. PICK z \in Int : z = 2 * One * i
      BY <1>1
    <3>11. u <= s + z /\ v <= t + 2 * One
      BY <2>4, <2>9, <3>1, <3>6, <3>7, <3>8, <3>9, <3>10
    <3>12. u + v <= (s + t) + (z + 2 * One)
      BY <1>1, <3>11
    <3> QED
      BY <3>2, <3>3, <3>4, <3>5, <3>6, <3>7, <3>8, <3>9, <3>10, <3>12
  <2>11. History(h, n)'
    BY <2>2, <2>4 DEF History, Pow
  <2>12. i' - 1 = i /\ zdist'[i] = sumc' /\ i \in 0 .. i
    BY <1>1, <2>1, <2>2
  <2> QED
    BY <2>1, <2>2, <2>3, <2>4, <2>10, <2>11, <2>12 DEF RoundInv
<1>5. CASE Made \/ Draw \/ Halve \/ Return \/ UNCHANGED vars
  <2>1. UNCHANGED table /\ ((pc = "sum") <=> (pc' = "sum"))
    BY <1>5 DEF Made, Draw, Halve, Return, vars
  <2> QED
    BY <2>1 DEF RoundInv, History, Pow, table
<1> QED
  BY <1>2, <1>3, <1>4, <1>5 DEF Next, Work

\* A key outside of the table is drawn for the largest 2n of the numbers only, for
\* every size of the table and every rounding.
THEOREM OutsideByRounding == Spec => []OutsideOnlyByRounding
<1>1. ASSUME KInv, RoundInv, pc = "found", lo >= n, n > 0 PROVE r >= One - 2 * n
  <2>1. /\ n \in Nat /\ One \in Nat /\ One > 0 /\ prob \in Nat /\ sumc \in Nat
        /\ r \in Nat /\ lo \in Nat /\ i = n
    BY <1>1, KeyGeneratorAssumption DEF KInv, TableInv
  <2>2. sumc <= r
    <3>1. n - 1 \in 0 .. n - 1 /\ n - 1 < lo
      BY <1>1, <2>1
    <3>2. zdist[n - 1] <= r
      BY <1>1, <3>1 DEF KInv, FoundPlace
    <3> QED
      BY <1>1, <2>1, <3>2 DEF RoundInv
  <2>3. PICK h : /\ History(h, n)
                 /\ One * One < (prob + 1) * h[n]
                 /\ (prob + 1) * h[n] <= One * sumc + 2 * One * n
    BY <1>1, <2>1 DEF RoundInv
  <2>4. One * sumc + 2 * One * n = One * (sumc + 2 * n)
    BY <2>1, SMTT(30)
  <2>5. h[n] \in Nat
    <3>1. n \in 0 .. n
      BY <2>1
    <3> QED
      BY <2>3, <3>1 DEF History
  <2>6. One * One < One * (sumc + 2 * n)
    <3>1. PICK u \in Nat : u = (prob + 1) * h[n]
      BY <2>1, <2>5
    <3>2. PICK s \in Nat : s = One * One
      BY <2>1
    <3>3. PICK t \in Nat : t = One * (sumc + 2 * n)
      BY <2>1
    <3> QED
      BY <2>3, <2>4, <3>1, <3>2, <3>3
  <2>7. ASSUME NEW t \in Nat, One * One < One * t PROVE One < t
    BY <2>1, <2>7, SMTT(30)
  <2>8. sumc + 2 * n \in Nat
    BY <2>1
  <2>9. One < sumc + 2 * n
    BY <2>6, <2>7, <2>8
  <2> QED
    BY <2>1, <2>2, <2>9
<1>2. KInv /\ RoundInv => OutsideOnlyByRounding
  BY <1>1 DEF OutsideOnlyByRounding
<1> QED
  BY KInvInit, KInvStep, RoundInit, RoundStep, <1>2, PTL DEF Spec

=============================================================================
