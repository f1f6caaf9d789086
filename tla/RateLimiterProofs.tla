-------------------------- MODULE RateLimiterProofs --------------------------
(***************************************************************************)
(* Theorems about RateLimiter, for any number of threads, any set of rates *)
(* and any bounds.                                                         *)
(***************************************************************************)
EXTENDS RateLimiter, FiniteSetTheorems, WellFoundedInduction, TLAPS

\* m_next_free is what keeps the places apart: it is the end of the interval that
\* the last claim pays.
FreeAfterLast ==
  Len(grants) > 0 =>
    nextFree >= grants[Len(grants)].place + grants[Len(grants)].pays

\* m_next_free runs ahead of the clock by no more than what the claims pay.
FreeIsNear ==
  nextFree <= StartTime + MaxSetOn + time + Len(grants) * Second

\* The inductive invariant.
RInv ==
  /\ TypeOK
  /\ stored = 0
  /\ interval <= Second
  /\ offset \in StartTime - MaxSetBack .. StartTime + MaxSetOn
  /\ FreeAfterLast
  /\ FreeIsNear
  /\ PlacesAreSpaced
  /\ WaitNeverWraps

\* set_rate's interval is at least one microsecond and at most a second.
LEMMA IntervalRange ==
  ASSUME NEW r \in Rates
  PROVE  Interval(r) \in 1 .. Second
<1>1. r \in Nat /\ 1 <= r /\ r <= Second /\ Second \in Nat
  BY RateAssumption
<1>2. Interval(r) \in Int
  BY <1>1 DEF Interval
<1>3. Second \div r >= 1
  BY <1>1, SMTT(30)
<1>4. Second \div r <= Second
  BY <1>1, SMTT(30)
<1>. QED
  BY <1>1, <1>2, <1>3, <1>4 DEF Interval

\* A quotient of natural numbers is a natural number.
LEMMA QuotientNat ==
  ASSUME NEW x \in Nat, NEW d \in Nat, d > 0
  PROVE  x \div d \in Nat
<1>1. x \div d \in Int
  OBVIOUS
<1>2. x = d * (x \div d) + (x % d) /\ x % d \in 0 .. d - 1
  OBVIOUS
<1>. DEFINE q == x \div d
           m == x % d
<1>3. q \in Int /\ x = d * q + m /\ m \in 0 .. d - 1
  BY <1>1, <1>2
<1>4. q >= 0
  <2>. HIDE DEF q, m
  <2>1. SUFFICES ASSUME q <= -1 PROVE FALSE
    BY <1>3
  <2>2. d * q <= -d
    BY <1>3, <2>1, SMTT(30)
  <2>. QED  BY <1>3, <2>2
<1>. QED  BY <1>3, <1>4

\* A claim after sync(): the place is not before the clock, nothing is stored.
LEMMA Synced ==
  ASSUME TypeOK, stored = 0
  PROVE  /\ SystemNow \in Nat
         /\ SyncedFree(SystemNow) \in Nat
         /\ SyncedFree(SystemNow) >= SystemNow
         /\ SyncedFree(SystemNow) >= nextFree
         /\ SyncedFree(SystemNow) = SystemNow \/ SyncedFree(SystemNow) = nextFree
         /\ SyncedStored(SystemNow) = 0
<1>1. SystemNow \in Nat
  BY DEF TypeOK, SystemNow
<1>2. SyncedStored(SystemNow) = 0
  <2>1. CASE SystemNow > nextFree
    <3>1. SystemNow - nextFree \in Nat /\ interval \in Nat /\ interval > 0
      BY <1>1, <2>1 DEF TypeOK
    <3>2. (SystemNow - nextFree) \div interval \in Nat
      BY <3>1, QuotientNat
    <3>. QED  BY <2>1, <3>2 DEF SyncedStored, Min2, MaxPermits
  <2>2. CASE ~(SystemNow > nextFree)
    BY <2>2 DEF SyncedStored
  <2>. QED  BY <2>1, <2>2
<1>. QED
  BY <1>1, <1>2 DEF SyncedFree, TypeOK

\* A new rate_limiter satisfies the invariant.
LEMMA InitRInv == Init => RInv
<1>. SUFFICES ASSUME Init PROVE RInv
  OBVIOUS
<1>1. TypeOK /\ interval <= Second
  <2>1. PICK r \in Rates : interval = Interval(r)
    BY DEF Init
  <2>2. interval \in 1 .. Second
    BY <2>1, IntervalRange
  <2>3. grants \in Seq([by : Threads, place : Nat, at : Nat, pays : Nat])
    BY DEF Init
  <2>4. thr \in [Threads -> [asleep : BOOLEAN, wait : Nat, until : Nat]]
    BY DEF Init, Awake
  <2>. QED  BY <2>2, <2>3, <2>4, RateAssumption DEF Init, TypeOK
<1>2. Len(grants) = 0
  BY DEF Init
<1>3. FreeAfterLast /\ PlacesAreSpaced
  BY <1>2 DEF FreeAfterLast, PlacesAreSpaced
<1>4. FreeIsNear
  BY <1>2, RateAssumption DEF Init, FreeIsNear
<1>5. WaitNeverWraps
  BY <1>2, RateAssumption DEF Init, Awake, WaitNeverWraps
<1>6. offset \in StartTime - MaxSetBack .. StartTime + MaxSetOn
  BY RateAssumption DEF Init
<1>. QED
  BY <1>1, <1>3, <1>4, <1>5, <1>6 DEF Init, RInv

\* The step that matters: a claim keeps the places apart and does not wrap.
LEMMA ClaimRInv ==
  ASSUME RInv, NEW t \in Threads, Claim(t)
  PROVE  RInv'
<1>. DEFINE now  == SystemNow
           free == SyncedFree(now)
           g    == [by |-> t, place |-> free, at |-> time + (free - now),
                    pays |-> interval]
           L    == Len(grants)
<1>1. TypeOK /\ stored = 0 /\ interval <= Second
  BY DEF RInv
<1>2. /\ now \in Nat /\ free \in Nat /\ free >= now /\ free >= nextFree
      /\ free = now \/ free = nextFree
      /\ SyncedStored(now) = 0
  BY <1>1, Synced
<1>3. Minus(free, now) = free - now
  BY <1>2 DEF Minus
<1>4. /\ nextFree' = free + interval
      /\ stored' = 0
      /\ thr' = [thr EXCEPT ![t] = [asleep |-> TRUE, wait |-> free - now,
                                    until |-> time + (free - now)]]
      /\ grants' = Append(grants, g)
      /\ UNCHANGED <<interval, time, offset>>
  <2>1. Min2(1, SyncedStored(now)) = 0
    BY <1>2 DEF Min2
  <2>2. now + (free - now) = free /\ free + FreshCost(0) = free + interval
    BY <1>1, <1>2 DEF TypeOK, FreshCost
  <2>. QED
    BY <1>2, <1>3, <2>1, <2>2 DEF Claim
<1>. DEFINE Grant == [by : Threads, place : Nat, at : Nat, pays : Nat]
<1>a. grants \in Seq(Grant) /\ interval \in Nat /\ time \in Nat /\ nextFree \in Nat
  BY <1>1 DEF TypeOK
<1>b. g \in Grant /\ g.place = free /\ g.pays = interval
  BY <1>2, <1>a
<1>. HIDE DEF g, Grant
<1>5. /\ L \in Nat /\ Len(grants') = L + 1
      /\ grants'[L + 1] = g
      /\ \A k \in 1 .. L : grants'[k] = grants[k]
      /\ \A k \in 1 .. L : grants[k] \in Grant
  BY <1>4, <1>a, <1>b
<1>. HIDE DEF now, free, L
<1>c. \A k \in 1 .. L : grants[k].place \in Nat /\ grants[k].pays \in Nat
  BY <1>5 DEF Grant
<1>6. TypeOK'
  <2>1. grants' \in Seq([by : Threads, place : Nat, at : Nat, pays : Nat])
    BY <1>4, <1>a, <1>b DEF Grant
  <2>2. thr' \in [Threads -> [asleep : BOOLEAN, wait : Nat, until : Nat]]
    BY <1>1, <1>2, <1>4 DEF TypeOK
  <2>3. nextFree' \in Nat /\ stored' \in Nat
    BY <1>2, <1>4, <1>a
  <2>. QED  BY <1>1, <1>4, <2>1, <2>2, <2>3 DEF TypeOK
<1>7. FreeAfterLast'
  BY <1>2, <1>4, <1>5, <1>a, <1>b DEF FreeAfterLast
<1>8. PlacesAreSpaced'
  <2>. SUFFICES ASSUME NEW k \in 1 .. Len(grants') - 1
                PROVE  grants'[k + 1].place >= grants'[k].place + grants'[k].pays
    BY DEF PlacesAreSpaced
  <2>1. CASE k = L
    <3>1. L > 0 /\ nextFree >= grants[L].place + grants[L].pays
      BY <1>5, <2>1 DEF RInv, FreeAfterLast, L
    <3>2. grants'[k] = grants[L] /\ grants'[k + 1].place = free
      BY <1>5, <1>b, <2>1, <3>1
    <3>3. grants[L].place \in Nat /\ grants[L].pays \in Nat
      BY <1>5, <1>c, <3>1
    <3>. QED  BY <1>2, <1>a, <3>1, <3>2, <3>3
  <2>2. CASE k # L
    <3>1. k \in 1 .. L - 1 /\ k + 1 \in 1 .. L
      BY <1>5, <2>2
    <3>2. grants[k + 1].place >= grants[k].place + grants[k].pays
      BY <3>1 DEF RInv, PlacesAreSpaced, L
    <3>3. grants'[k] = grants[k] /\ grants'[k + 1] = grants[k + 1]
      BY <1>5, <3>1
    <3>. QED  BY <3>2, <3>3
  <2>. QED  BY <2>1, <2>2
<1>9. (L + 1) * Second = L * Second + Second /\ L * Second \in Nat
  BY <1>5, RateAssumption
<1>10. now <= StartTime + MaxSetOn + time /\ now >= StartTime - MaxSetBack + time
  BY <1>1, RateAssumption DEF RInv, SystemNow, TypeOK, now
<1>11. nextFree <= StartTime + MaxSetOn + time + L * Second
  BY DEF RInv, FreeIsNear, L
<1>12. FreeIsNear'
  <2>1. nextFree' <= StartTime + MaxSetOn + time + L * Second + Second
    BY <1>1, <1>2, <1>4, <1>9, <1>10, <1>11, <1>a, RateAssumption
  <2>2. Len(grants') * Second = L * Second + Second
    BY <1>5, <1>9
  <2>3. time' = time
    BY <1>4
  <2>. QED  BY <1>9, <1>a, <2>1, <2>2, <2>3, RateAssumption DEF FreeIsNear
<1>13. WaitNeverWraps'
  <2>. SUFFICES ASSUME NEW u \in Threads
                PROVE  thr'[u].wait <= Len(grants') * Second + MaxSetBack + MaxSetOn
    BY DEF WaitNeverWraps
  <2>1. Len(grants') * Second = L * Second + Second
    BY <1>5, <1>9
  <2>2. CASE u = t
    <3>1. thr'[u].wait = free - now
      BY <1>1, <1>4, <2>2 DEF TypeOK
    <3>2. free - now <= L * Second + MaxSetBack + MaxSetOn
      BY <1>1, <1>2, <1>9, <1>10, <1>11, <1>a, RateAssumption
    <3>3. MaxSetBack \in Nat /\ MaxSetOn \in Nat /\ Second \in Nat
      BY RateAssumption
    <3>4. free - now <= L * Second + Second + MaxSetBack + MaxSetOn
      BY <1>2, <1>9, <3>2, <3>3
    <3>. QED  BY <2>1, <3>1, <3>4
  <2>3. CASE u # t
    <3>1. thr'[u] = thr[u] /\ thr[u].wait \in Nat
      BY <1>1, <1>4, <2>3 DEF TypeOK
    <3>2. thr[u].wait <= L * Second + MaxSetBack + MaxSetOn
      BY DEF RInv, WaitNeverWraps, L
    <3>3. MaxSetBack \in Nat /\ MaxSetOn \in Nat /\ Second \in Nat
      BY RateAssumption
    <3>4. thr[u].wait <= L * Second + Second + MaxSetBack + MaxSetOn
      BY <1>9, <3>1, <3>2, <3>3
    <3>. QED  BY <2>1, <3>1, <3>4
  <2>. QED  BY <2>2, <2>3
<1>14. offset' \in StartTime - MaxSetBack .. StartTime + MaxSetOn
  BY <1>4 DEF RInv
<1>. QED
  BY <1>1, <1>4, <1>6, <1>7, <1>8, <1>12, <1>13, <1>14 DEF RInv

\* Every step of a thread, of the rate or of the clock keeps the invariant.
LEMMA NextRInv == RInv /\ [Next]_vars => RInv'
<1>. SUFFICES ASSUME RInv, [Next]_vars PROVE RInv'
  OBVIOUS
<1>. USE DEF RInv
<1>1. CASE \E t \in Threads : Claim(t)
  BY <1>1, ClaimRInv
<1>2. ASSUME NEW t \in Threads, Wake(t) PROVE RInv'
  <2>1. TypeOK'
    BY <1>2 DEF TypeOK, Wake, Awake
  <2>2. Len(grants) \in Nat /\ Len(grants) * Second \in Nat
    BY RateAssumption DEF TypeOK
  <2>3. WaitNeverWraps'
    <3>. SUFFICES ASSUME NEW u \in Threads
                  PROVE  thr'[u].wait <= Len(grants) * Second + MaxSetBack + MaxSetOn
      BY <1>2 DEF Wake, WaitNeverWraps
    <3>1. thr'[u].wait = 0 \/ thr'[u] = thr[u]
      BY <1>2 DEF TypeOK, Wake, Awake
    <3>2. thr[u].wait <= Len(grants) * Second + MaxSetBack + MaxSetOn
      BY DEF WaitNeverWraps
    <3>3. MaxSetBack \in Nat /\ MaxSetOn \in Nat
      BY RateAssumption
    <3>4. CASE thr'[u].wait = 0
      BY <2>2, <3>3, <3>4
    <3>5. CASE thr'[u] = thr[u]
      BY <3>2, <3>5
    <3>. QED  BY <3>1, <3>4, <3>5
  <2>. QED
    BY <1>2, <2>1, <2>3 DEF Wake, FreeAfterLast, FreeIsNear, PlacesAreSpaced
<1>3. ASSUME NEW rate \in Rates, SetRate(rate) PROVE RInv'
  <2>1. interval' \in 1 .. Second
    BY <1>3, IntervalRange DEF SetRate
  <2>. QED
    BY <1>3, <2>1, RateAssumption DEF SetRate, TypeOK, FreeAfterLast, FreeIsNear,
      PlacesAreSpaced, WaitNeverWraps
<1>4. CASE Tick
  <2>1. Len(grants) \in Nat /\ Len(grants) * Second \in Nat
    BY RateAssumption DEF TypeOK
  <2>2. FreeIsNear'
    BY <1>4, <2>1, RateAssumption DEF Tick, TypeOK, FreeIsNear
  <2>. QED
    BY <1>4, <2>2 DEF Tick, TypeOK, FreeAfterLast, PlacesAreSpaced, WaitNeverWraps
<1>5. CASE SetBack \/ SetOn
  <2>1. offset' \in StartTime - MaxSetBack .. StartTime + MaxSetOn
    BY <1>5, RateAssumption DEF SetBack, SetOn, TypeOK
  <2>2. offset' \in Nat
    BY <2>1, RateAssumption
  <2>. QED
    BY <1>5, <2>1, <2>2 DEF SetBack, SetOn, TypeOK, FreeAfterLast, FreeIsNear,
      PlacesAreSpaced, WaitNeverWraps
<1>6. CASE UNCHANGED vars
  BY <1>6 DEF vars, TypeOK, FreeAfterLast, FreeIsNear, PlacesAreSpaced,
    WaitNeverWraps
<1>. QED
  BY <1>1, <1>2, <1>3, <1>4, <1>5, <1>6 DEF Next

\* The invariant holds of every rate_limiter at all times.
LEMMA AlwaysRInv == Spec => []RInv
  BY InitRInv, NextRInv, PTL DEF Spec

\* The state of a rate_limiter keeps its types, m_interval stays positive.
THEOREM TypeCorrect == Spec => []TypeOK
<1>1. RInv => TypeOK
  BY DEF RInv
<1>. QED
  BY <1>1, AlwaysRInv, PTL

\* acquire(): consecutive places are an interval apart, for any callers, rates and
\* steps of the system clock.
THEOREM SpacingKept == Spec => []PlacesAreSpaced
<1>1. RInv => PlacesAreSpaced
  BY DEF RInv
<1>. QED
  BY <1>1, AlwaysRInv, PTL

\* claim_next(): the unsigned wait never wraps around.
THEOREM NoWrapAround == Spec => []WaitNeverWraps
<1>1. RInv => WaitNeverWraps
  BY DEF RInv
<1>. QED
  BY <1>1, AlwaysRInv, PTL

-----------------------------------------------------------------------------
(***************************************************************************)
(* What callers see in steady time.  A claim and its caller are tied by    *)
(* the sleep: as long as the place of a claim is ahead, its caller is      *)
(* asleep until that place, and a caller sleeps for one claim at a time.   *)
(***************************************************************************)

By(k)    == grants[k].by
Place(k) == grants[k].place
At(k)    == grants[k].at
Pays(k)  == grants[k].pays

\* A number of intervals.
Shorts(n) == n * Shortest
Longs(n)  == n * Longest

\* No reading of the system clock so far was later.
Horizon == time + StartTime + MaxSetOn

GrantInv(k) ==
  /\ Pays(k) \in Shortest .. Longest
  /\ At(k) > time => thr[By(k)].asleep /\ thr[By(k)].until = At(k)
  /\ Place(k) - At(k) \in StartTime - MaxSetBack .. StartTime + MaxSetOn
  /\ MaxSetOn = 0 => /\ offset <= Place(1) - At(1)
                     /\ Place(k) - At(k) <= Place(1) - At(1)
  /\ Place(k) >= Place(1) + Shorts(k - 1)
  /\ \/ nextFree <= Horizon + Longs(1 + Len(grants) - k)
     \/ nextFree <= Place(k) + Longs(1 + Len(grants) - k)

\* An earlier claim of the same caller is over.
OneSleep ==
  \A j, k \in 1 .. Len(grants) : j < k /\ By(j) = By(k) => At(j) <= time

\* The inductive invariant, on top of RInv.
TInv ==
  /\ interval \in Shortest .. Longest
  /\ \A k \in 1 .. Len(grants) : GrantInv(k)
  /\ OneSleep
  /\ nextFree <= Horizon + Longs(Len(grants))

\* A set of natural numbers has a least element.
LEMMA Least ==
  ASSUME NEW T, T \subseteq Nat, T # {}
  PROVE  \E x \in T : \A y \in T : x <= y
<1> DEFINE R == {ss \in Nat \X Nat : ss[1] < ss[2]}
<1>1. IsWellFoundedOn(R, Nat)
  BY NatLessThanWellFounded, Zenon DEF OpToRel
<1>2. PICK x \in T : \A y \in T : ~(<<y, x>> \in R)
  BY <1>1, WFMin, Zenon
<1>3. ASSUME NEW y \in T PROVE x <= y
  <2>1. y \in Nat /\ x \in Nat
    OBVIOUS
  <2>2. y < x => <<y, x>> \in R
    BY <2>1
  <2> QED
    BY <1>2, <2>1, <2>2
<1> QED
  BY <1>3

\* ... and a greatest, if it is bounded.
LEMMA Greatest ==
  ASSUME NEW T, NEW n \in Nat, T \subseteq 0 .. n, T # {}
  PROVE  \E x \in T : \A y \in T : y <= x
<1> DEFINE U == {n - x : x \in T}
<1>1. U \subseteq Nat
  OBVIOUS
<1>2. U # {}
  <2>1. PICK x \in T : TRUE
    OBVIOUS
  <2>2. n - x \in U
    OBVIOUS
  <2> QED
    BY <2>2
<1>3. PICK u \in U : \A y \in U : u <= y
  BY <1>1, <1>2, Least
<1>4. PICK x \in T : u = n - x
  BY <1>3
<1>5. ASSUME NEW y \in T PROVE y <= x
  <2>1. n - y \in U
    OBVIOUS
  <2>2. n - x <= n - y
    BY <1>3, <1>4, <2>1
  <2>3. x \in Int /\ y \in Int
    OBVIOUS
  <2> QED
    BY <2>2, <2>3
<1> QED
  BY <1>5

\* A higher rate has no longer interval.
LEMMA HigherRateShorter ==
  ASSUME NEW a \in Rates, NEW b \in Rates, a <= b
  PROVE  Interval(b) <= Interval(a)
<1>1. a \in Nat /\ b \in Nat /\ a > 0 /\ b > 0 /\ Second \in Nat
  BY RateAssumption
<1> DEFINE p == Second \div a
           q == Second \div b
<1>2. /\ p \in Int /\ q \in Int
      /\ a * p <= Second /\ Second < a * (p + 1) /\ b * q <= Second
  BY <1>1, SMTT(30)
<1>3. q >= 0
  BY <1>1, QuotientNat
<1> HIDE DEF p, q
<1>4. SUFFICES ASSUME p + 1 <= q PROVE FALSE
  BY <1>2 DEF Interval, p, q
<1>5. a * (p + 1) <= a * q
  BY <1>1, <1>2, <1>4, SMTT(30)
<1>6. a * q <= b * q
  BY <1>1, <1>2, <1>3, SMTT(30)
<1>7. a * (p + 1) \in Int /\ a * q \in Int /\ b * q \in Int
  BY <1>1, <1>2
<1> QED
  BY <1>1, <1>2, <1>5, <1>6, <1>7

\* Every interval is between the shortest and the longest.
LEMMA IntervalBounds ==
  /\ Shortest \in Nat /\ Longest \in Nat
  /\ \A r \in Rates : Interval(r) \in Shortest .. Longest
<1>1. Rates # {} /\ Rates \subseteq 0 .. Second /\ Rates \subseteq Nat /\ Second \in Nat
  BY RateAssumption
<1> DEFINE high == CHOOSE r \in Rates : \A q \in Rates : q <= r
           low  == CHOOSE r \in Rates : \A q \in Rates : q >= r
<1>2. high \in Rates /\ \A q \in Rates : q <= high
  <2>1. \E r \in Rates : \A q \in Rates : q <= r
    BY <1>1, Greatest
  <2> QED
    BY <2>1
<1>3. low \in Rates /\ \A q \in Rates : q >= low
  <2>1. \E r \in Rates : \A q \in Rates : r <= q
    BY <1>1, Least
  <2>2. \E r \in Rates : \A q \in Rates : q >= r
    BY <1>1, <2>1
  <2> QED
    BY <2>2
<1>4. Shortest = Interval(high) /\ Longest = Interval(low)
  BY DEF Shortest, Longest
<1> HIDE DEF high, low
<1>5. Interval(high) \in Nat /\ Interval(low) \in Nat
  BY <1>1, <1>2, <1>3, IntervalRange
<1>6. ASSUME NEW r \in Rates
      PROVE  Interval(r) \in Interval(high) .. Interval(low)
  <2>1. r \in Nat /\ low \in Nat /\ low <= r
    BY <1>1, <1>3
  <2>2. Interval(high) <= Interval(r) /\ Interval(r) <= Interval(low)
    BY <1>2, <1>3, <2>1, HigherRateShorter
  <2>3. Interval(r) \in Nat
    BY <1>1, IntervalRange
  <2> QED
    BY <1>5, <2>2, <2>3
<1> QED
  BY <1>4, <1>5, <1>6

\* Sums of intervals.
LEMMA Multiples ==
  /\ \A n \in Nat : Shorts(n) \in Nat /\ Longs(n) \in Nat
  /\ Shorts(0) = 0 /\ Longs(0) = 0
  /\ \A n \in Nat : Shorts(n + 1) = Shorts(n) + Shortest
  /\ \A n \in Nat : Longs(n + 1) = Longs(n) + Longest
  /\ \A m, n \in Nat : m <= n => Shorts(m) <= Shorts(n) /\ Longs(m) <= Longs(n)
<1>1. Shortest \in Nat /\ Longest \in Nat
  BY IntervalBounds
<1>2. \A c \in Nat : \A n \in Nat : n * c \in Nat /\ (n + 1) * c = n * c + c
  OBVIOUS
<1>3. \A c \in Nat : \A m, n \in Nat : m <= n => m * c <= n * c
  BY SMTT(30)
<1>4. \A c \in Nat : 0 * c = 0
  OBVIOUS
<1>5. /\ \A n \in Nat : Shorts(n) \in Nat /\ Longs(n) \in Nat
      /\ Shorts(0) = 0 /\ Longs(0) = 0
  BY <1>1, <1>2, <1>4, Zenon DEF Shorts, Longs
<1>6. /\ \A n \in Nat : Shorts(n + 1) = Shorts(n) + Shortest
      /\ \A n \in Nat : Longs(n + 1) = Longs(n) + Longest
  BY <1>1, <1>2, Zenon DEF Shorts, Longs
<1>7. \A m, n \in Nat : m <= n => Shorts(m) <= Shorts(n) /\ Longs(m) <= Longs(n)
  BY <1>1, <1>3, Zenon DEF Shorts, Longs
<1> QED
  BY <1>5, <1>6, <1>7

\* The numbers of a claim.
LEMMA GrantTypes ==
  ASSUME TypeOK
  PROVE  /\ Len(grants) \in Nat
         /\ \A k \in 1 .. Len(grants) :
              By(k) \in Threads /\ Place(k) \in Nat /\ At(k) \in Nat /\ Pays(k) \in Nat
<1> DEFINE Grant == [by : Threads, place : Nat, at : Nat, pays : Nat]
<1>1. grants \in Seq(Grant)
  BY DEF TypeOK
<1> HIDE DEF Grant
<1>2. Len(grants) \in Nat /\ \A k \in 1 .. Len(grants) : grants[k] \in Grant
  BY <1>1
<1> QED
  BY <1>2 DEF By, Place, At, Pays, Grant

\* The invariant holds of a new rate_limiter.
LEMMA InitTInv == Init => TInv
<1> SUFFICES ASSUME Init PROVE TInv
  OBVIOUS
<1>1. Len(grants) = 0 /\ nextFree = 0 /\ time = 0
  BY DEF Init
<1>2. interval \in Shortest .. Longest
  BY IntervalBounds DEF Init
<1>3. nextFree <= Horizon + Longs(Len(grants))
  BY <1>1, Multiples, RateAssumption DEF Horizon
<1> QED
  BY <1>1, <1>2, <1>3 DEF TInv, OneSleep

\* What a claim does, with the clock as it is: it pays for an interval after
\* what was claimed so far.
LEMMA ClaimFacts ==
  ASSUME RInv, NEW t \in Threads, Claim(t)
  PROVE  \E free \in Nat :
           /\ free >= SystemNow /\ free >= nextFree
           /\ free = SystemNow \/ free = nextFree
           /\ nextFree' = free + interval
           /\ ~thr[t].asleep
           /\ thr' = [thr EXCEPT ![t] = [asleep |-> TRUE, wait |-> free - SystemNow,
                                         until |-> time + (free - SystemNow)]]
           /\ Len(grants') = Len(grants) + 1
           /\ \A k \in 1 .. Len(grants) : grants'[k] = grants[k]
           /\ grants'[Len(grants) + 1] =
                [by |-> t, place |-> free, at |-> time + (free - SystemNow),
                 pays |-> interval]
           /\ UNCHANGED <<interval, time, offset>>
<1> DEFINE now  == SystemNow
           free == SyncedFree(now)
           g    == [by |-> t, place |-> free, at |-> time + (free - now),
                    pays |-> interval]
<1>1. TypeOK /\ stored = 0 /\ interval \in Nat /\ time \in Nat
  BY DEF RInv, TypeOK
<1>2. /\ now \in Nat /\ free \in Nat /\ free >= now /\ free >= nextFree
      /\ free = now \/ free = nextFree
      /\ SyncedStored(now) = 0
  BY <1>1, Synced
<1>3. Minus(free, now) = free - now
  BY <1>2 DEF Minus
<1>4. /\ nextFree' = free + interval
      /\ ~thr[t].asleep
      /\ thr' = [thr EXCEPT ![t] = [asleep |-> TRUE, wait |-> free - now,
                                    until |-> time + (free - now)]]
      /\ grants' = Append(grants, g)
      /\ UNCHANGED <<interval, time, offset>>
  <2>1. Min2(1, SyncedStored(now)) = 0
    BY <1>2 DEF Min2
  <2>2. now + (free - now) = free /\ free + FreshCost(0) = free + interval
    BY <1>1, <1>2 DEF FreshCost
  <2>. QED
    BY <1>2, <1>3, <2>1, <2>2 DEF Claim
<1> DEFINE Grant == [by : Threads, place : Nat, at : Nat, pays : Nat]
<1>5. grants \in Seq(Grant)
  BY <1>1 DEF TypeOK
<1>6. g \in Grant
  BY <1>1, <1>2
<1> HIDE DEF Grant, g
<1>7. /\ Len(grants') = Len(grants) + 1 /\ grants'[Len(grants) + 1] = g
      /\ \A k \in 1 .. Len(grants) : grants'[k] = grants[k]
  BY <1>4, <1>5, <1>6
<1> HIDE DEF free, now
<1> free \in Nat
  BY <1>2
<1> WITNESS free \in Nat
<1> QED
  BY <1>2, <1>4, <1>7 DEF g, now

\* A claim keeps the invariant: its caller was awake, so that all of its claims
\* before are over; its place is an interval behind the last one, or now.
LEMMA ClaimTInv ==
  ASSUME RInv, TInv, NEW t \in Threads, Claim(t)
  PROVE  TInv'
<1>0. PICK L \in Nat : L = Len(grants)
  BY GrantTypes DEF RInv
<1>1. PICK free \in Nat :
        /\ free >= SystemNow /\ free >= nextFree
        /\ free = SystemNow \/ free = nextFree
        /\ nextFree' = free + interval
        /\ ~thr[t].asleep
        /\ thr' = [thr EXCEPT ![t] = [asleep |-> TRUE, wait |-> free - SystemNow,
                                      until |-> time + (free - SystemNow)]]
        /\ Len(grants') = L + 1
        /\ \A k \in 1 .. L : grants'[k] = grants[k]
        /\ grants'[L + 1] =
             [by |-> t, place |-> free, at |-> time + (free - SystemNow),
              pays |-> interval]
        /\ UNCHANGED <<interval, time, offset>>
  BY <1>0, ClaimFacts
<1>2. /\ TypeOK /\ FreeAfterLast /\ L \in Nat /\ interval \in Nat /\ time \in Nat
      /\ offset \in Nat /\ nextFree \in Nat
      /\ offset \in StartTime - MaxSetBack .. StartTime + MaxSetOn
      /\ SystemNow = time + offset
  BY <1>0 DEF RInv, TypeOK, SystemNow
<1>3. /\ StartTime \in Nat /\ MaxSetBack \in Nat /\ MaxSetOn \in Nat
      /\ Shortest \in Nat /\ Longest \in Nat /\ interval \in Shortest .. Longest
      /\ nextFree <= Horizon + Longs(L)
  BY <1>0, RateAssumption, IntervalBounds DEF TInv
<1> DEFINE a == time + (free - SystemNow)
<1>4. /\ By(L + 1)' = t /\ Place(L + 1)' = free /\ At(L + 1)' = a
      /\ Pays(L + 1)' = interval
  BY <1>1 DEF By, Place, At, Pays
<1>5. \A k \in 1 .. L : /\ By(k)' = By(k) /\ Place(k)' = Place(k)
                       /\ At(k)' = At(k) /\ Pays(k)' = Pays(k)
  BY <1>1 DEF By, Place, At, Pays
<1>6. \A k \in 1 .. L : By(k) \in Threads /\ Place(k) \in Nat /\ At(k) \in Nat
                       /\ Pays(k) \in Nat
  BY <1>0, <1>2, GrantTypes
<1>7. /\ thr'[t].asleep /\ thr'[t].until = a
      /\ \A u \in Threads \ {t} : thr'[u] = thr[u]
  BY <1>1, <1>2 DEF TypeOK
<1>8. Horizon' = Horizon /\ Horizon \in Nat /\ SystemNow <= Horizon
  BY <1>1, <1>2, <1>3 DEF Horizon
<1>9. Longs(L) \in Nat /\ Longs(L + 1) = Longs(L) + Longest /\ Longs(1) = Longest
      /\ Longs(L + 1) \in Nat
  <2>1. Longs(0 + 1) = Longs(0) + Longest /\ Longs(0) = 0
    BY Multiples
  <2> QED
    BY <1>2, <1>3, <2>1, Multiples
<1>10. a \in Nat /\ free - a = offset
  BY <1>1, <1>2
<1>11. \A k \in 1 .. L : GrantInv(k)
  BY <1>0 DEF TInv
<1> HIDE DEF a
<1>12. ASSUME NEW k \in 1 .. L PROVE At(k) > time => By(k) # t
  BY <1>1, <1>11 DEF GrantInv
<1>13. L > 0 => Place(L) >= Place(1) + Shorts(L - 1) /\ nextFree >= Place(L) + Shortest
  <2>1. SUFFICES ASSUME L > 0
                 PROVE  Place(L) >= Place(1) + Shorts(L - 1)
                        /\ nextFree >= Place(L) + Shortest
    OBVIOUS
  <2>2. L \in 1 .. L
    BY <1>2, <2>1
  <2>3. nextFree >= Place(L) + Pays(L)
    BY <1>0, <1>2, <2>1 DEF FreeAfterLast, Place, Pays
  <2>4. Pays(L) >= Shortest /\ Place(L) >= Place(1) + Shorts(L - 1)
    BY <1>3, <1>6, <1>11, <2>2 DEF GrantInv
  <2> QED
    BY <1>2, <1>3, <1>6, <2>2, <2>3, <2>4
<1>14. ASSUME NEW k \in 1 .. L PROVE GrantInv(k)'
  <2>1. /\ By(k)' = By(k) /\ Place(k)' = Place(k) /\ At(k)' = At(k) /\ Pays(k)' = Pays(k)
        /\ By(k) \in Threads /\ Place(k) \in Nat /\ At(k) \in Nat /\ GrantInv(k)
    BY <1>5, <1>6, <1>11
  <2>2. Place(1)' = Place(1) /\ At(1)' = At(1)
    BY <1>2, <1>5
  <2>3. At(k)' > time' => thr'[By(k)'].asleep /\ thr'[By(k)'].until = At(k)'
    BY <1>1, <1>7, <1>12, <2>1 DEF GrantInv
  <2>4. \/ nextFree' <= Horizon' + Longs(1 + (L + 1) - k)
        \/ nextFree' <= Place(k)' + Longs(1 + (L + 1) - k)
    <3> DEFINE d == 1 + L - k
    <3>1. d \in Nat /\ 1 + (L + 1) - k = d + 1
      BY <1>2
    <3>2. nextFree <= Horizon + Longs(d) \/ nextFree <= Place(k) + Longs(d)
      BY <1>0, <2>1 DEF GrantInv
    <3> HIDE DEF d
    <3>3. Longs(d + 1) = Longs(d) + Longest /\ Longs(d) \in Nat
      BY <3>1, Multiples
    <3>4. nextFree' <= Horizon + Longs(d + 1) \/ nextFree' <= Place(k) + Longs(d + 1)
      BY <1>1, <1>2, <1>3, <1>8, <2>1, <3>2, <3>3
    <3> QED
      BY <1>8, <2>1, <3>1, <3>4
  <2>5. /\ Pays(k)' \in Shortest .. Longest
        /\ Place(k)' - At(k)' \in StartTime - MaxSetBack .. StartTime + MaxSetOn
        /\ Place(k)' >= Place(1)' + Shorts(k - 1)
        /\ MaxSetOn = 0 => /\ offset' <= Place(1)' - At(1)'
                           /\ Place(k)' - At(k)' <= Place(1)' - At(1)'
    BY <1>1, <2>1, <2>2 DEF GrantInv
  <2> QED
    BY <1>1, <2>3, <2>4, <2>5 DEF GrantInv, Shorts, Longs
<1>15. GrantInv(L + 1)'
  <2>1. MaxSetOn = 0 => /\ offset' <= Place(1)' - At(1)'
                        /\ Place(L + 1)' - At(L + 1)' <= Place(1)' - At(1)'
    <3>1. CASE L = 0
      BY <1>1, <1>2, <1>4, <1>10, <3>1
    <3>2. CASE L > 0
      <4>1. 1 \in 1 .. L
        BY <1>2, <3>2
      <4>2. MaxSetOn = 0 => offset <= Place(1) - At(1)
        BY <1>11, <4>1 DEF GrantInv
      <4> QED
        BY <1>1, <1>4, <1>5, <1>10, <4>1, <4>2
    <3> QED
      BY <1>2, <3>1, <3>2
  <2>2. Place(L + 1)' >= Place(1)' + Shorts((L + 1) - 1)
    <3>1. (L + 1) - 1 = L
      BY <1>2
    <3>2. CASE L = 0
      BY <1>1, <1>4, <3>1, <3>2, Multiples
    <3>3. CASE L > 0
      <4>1. 1 \in 1 .. L /\ L \in 1 .. L /\ L - 1 \in Nat /\ (L - 1) + 1 = L
        BY <1>2, <3>3
      <4>2. Shorts(L) = Shorts(L - 1) + Shortest /\ Shorts(L - 1) \in Nat
        BY <4>1, Multiples
      <4>3. Place(1) \in Nat /\ Place(L) \in Nat /\ Place(1)' = Place(1)
        BY <1>5, <1>6, <4>1
      <4>4. free >= Place(1) + Shorts(L)
        BY <1>1, <1>2, <1>3, <1>13, <3>3, <4>2, <4>3
      <4> QED
        BY <1>4, <3>1, <4>3, <4>4
    <3> QED
      BY <1>2, <3>2, <3>3
  <2>3. nextFree' <= Place(L + 1)' + Longs(1)
    BY <1>1, <1>2, <1>3, <1>4, <1>9
  <2>4. 1 + Len(grants') - (L + 1) = 1
    BY <1>1, <1>2
  <2>5. At(L + 1)' > time' => thr'[By(L + 1)'].asleep /\ thr'[By(L + 1)'].until = At(L + 1)'
    BY <1>4, <1>7
  <2>6. Place(L + 1)' - At(L + 1)' \in StartTime - MaxSetBack .. StartTime + MaxSetOn
    BY <1>2, <1>4, <1>10
  <2> QED
    BY <1>3, <1>4, <2>1, <2>2, <2>3, <2>4, <2>5, <2>6 DEF GrantInv, Shorts, Longs
<1>16. OneSleep'
  <2> SUFFICES ASSUME NEW j \in 1 .. L + 1, NEW k \in 1 .. L + 1,
                      j < k, By(j)' = By(k)'
               PROVE  At(j)' <= time'
    BY <1>1 DEF OneSleep
  <2>1. j \in 1 .. L /\ At(j)' = At(j) /\ By(j)' = By(j) /\ At(j) \in Nat
    <3>1. j \in 1 .. L
      BY <1>2
    <3> QED
      BY <1>5, <1>6, <3>1
  <2>2. CASE k = L + 1
    <3>1. By(j) = t
      BY <1>4, <2>1, <2>2
    <3> QED
      BY <1>1, <1>2, <1>12, <2>1, <3>1
  <2>3. CASE k \in 1 .. L
    BY <1>0, <1>1, <1>5, <2>1, <2>3 DEF TInv, OneSleep
  <2> QED
    BY <1>2, <2>2, <2>3
<1>17. nextFree' <= Horizon' + Longs(L + 1)
  BY <1>1, <1>2, <1>3, <1>8, <1>9
<1>18. ASSUME NEW k \in 1 .. L + 1 PROVE GrantInv(k)'
  BY <1>2, <1>14, <1>15
<1> QED
  BY <1>1, <1>3, <1>16, <1>17, <1>18 DEF TInv, Longs

\* The horizon moves with time.
LEMMA HorizonGrows ==
  ASSUME time \in Nat, time' \in Nat, time <= time'
  PROVE  Horizon \in Nat /\ Horizon' \in Nat /\ Horizon <= Horizon'
<1>1. StartTime \in Nat /\ MaxSetOn \in Nat
  BY RateAssumption
<1>2. Horizon = time + StartTime + MaxSetOn /\ Horizon' = time' + StartTime + MaxSetOn
  BY DEF Horizon
<1>3. \A a, b, c, d \in Nat :
        a <= b => a + c + d \in Nat /\ b + c + d \in Nat /\ a + c + d <= b + c + d
  OBVIOUS
<1> QED
  BY <1>1, <1>2, <1>3, Zenon

\* Steps without a claim: time goes on, a clock that is never set forward only
\* goes back, and nobody is woken before the place.
LEMMA OtherTInv ==
  ASSUME RInv, TInv, grants' = grants, nextFree' = nextFree,
         time' \in Nat, time <= time', offset' \in Nat,
         MaxSetOn = 0 => offset' <= offset,
         interval' \in Shortest .. Longest,
         \A t \in Threads :
           thr[t].asleep /\ thr[t].until > time' =>
             thr'[t].asleep /\ thr'[t].until = thr[t].until
  PROVE  TInv'
<1>1. /\ TypeOK /\ time \in Nat /\ offset \in Nat /\ nextFree \in Nat
      /\ StartTime \in Nat /\ MaxSetOn \in Nat
  BY RateAssumption DEF RInv, TypeOK
<1>2. Horizon \in Nat /\ Horizon' \in Nat /\ Horizon <= Horizon'
  BY <1>1, HorizonGrows
<1>3. Len(grants) \in Nat
  BY <1>1, GrantTypes
<1>4. ASSUME NEW k \in 1 .. Len(grants) PROVE GrantInv(k)'
  <2>1. /\ By(k)' = By(k) /\ Place(k)' = Place(k) /\ At(k)' = At(k) /\ Pays(k)' = Pays(k)
        /\ Place(1)' = Place(1) /\ At(1)' = At(1)
    BY DEF By, Place, At, Pays
  <2>2. /\ By(k) \in Threads /\ Place(k) \in Nat /\ At(k) \in Nat
        /\ Place(1) \in Nat /\ At(1) \in Nat /\ GrantInv(k)
    <3>1. 1 \in 1 .. Len(grants)
      BY <1>3
    <3> QED
      BY <1>1, <3>1, GrantTypes DEF TInv
  <2>3. At(k)' > time' => thr'[By(k)'].asleep /\ thr'[By(k)'].until = At(k)'
    <3>1. SUFFICES ASSUME At(k) > time'
                   PROVE  thr'[By(k)].asleep /\ thr'[By(k)].until = At(k)
      BY <2>1
    <3>2. At(k) > time
      BY <1>1, <2>2, <3>1
    <3>3. thr[By(k)].asleep /\ thr[By(k)].until = At(k)
      BY <2>2, <3>2 DEF GrantInv
    <3> QED
      BY <2>2, <3>1, <3>3
  <2>4. MaxSetOn = 0 => /\ offset' <= Place(1)' - At(1)'
                        /\ Place(k)' - At(k)' <= Place(1)' - At(1)'
    BY <1>1, <2>1, <2>2 DEF GrantInv
  <2>5. \/ nextFree' <= Horizon' + Longs(1 + Len(grants') - k)
        \/ nextFree' <= Place(k)' + Longs(1 + Len(grants') - k)
    <3> DEFINE d == 1 + Len(grants) - k
    <3>1. d \in Nat
      BY <1>3
    <3>2. nextFree <= Horizon + Longs(d) \/ nextFree <= Place(k) + Longs(d)
      BY <2>2 DEF GrantInv
    <3>3. 1 + Len(grants') - k = d
      OBVIOUS
    <3> HIDE DEF d
    <3>4. Longs(d) \in Nat
      BY <3>1, Multiples
    <3>5. nextFree' <= Horizon' + Longs(d) \/ nextFree' <= Place(k)' + Longs(d)
      BY <1>1, <1>2, <2>1, <3>2, <3>4
    <3> QED
      BY <3>3, <3>5
  <2>6. /\ Pays(k)' \in Shortest .. Longest
        /\ Place(k)' - At(k)' \in StartTime - MaxSetBack .. StartTime + MaxSetOn
        /\ Place(k)' >= Place(1)' + Shorts(k - 1)
    BY <2>1, <2>2 DEF GrantInv
  <2> QED
    BY <2>3, <2>4, <2>5, <2>6 DEF GrantInv, Shorts, Longs
<1>5. OneSleep'
  <2> SUFFICES ASSUME NEW j \in 1 .. Len(grants), NEW k \in 1 .. Len(grants),
                      j < k, By(j)' = By(k)'
               PROVE  At(j)' <= time'
    BY DEF OneSleep
  <2>1. At(j) <= time /\ At(j)' = At(j) /\ At(j) \in Nat
    BY <1>1, GrantTypes DEF TInv, OneSleep, By, At
  <2> QED
    BY <1>1, <2>1
<1>6. nextFree' <= Horizon' + Longs(Len(grants'))
  <2>1. Longs(Len(grants)) \in Nat /\ nextFree <= Horizon + Longs(Len(grants))
    BY <1>3, Multiples DEF TInv
  <2> DEFINE m == Longs(Len(grants))
  <2>2. m \in Nat /\ nextFree <= Horizon + m /\ Longs(Len(grants')) = m
    BY <2>1
  <2> HIDE DEF m
  <2>3. \A a, b, c, d \in Nat : a <= b + c /\ b <= d => a <= d + c
    OBVIOUS
  <2>4. nextFree <= Horizon' + m
    BY <1>1, <1>2, <2>2, <2>3, Zenon
  <2> QED
    BY <2>2, <2>4
<1> QED
  BY <1>4, <1>5, <1>6 DEF TInv, Longs

\* Every step keeps the invariant.
LEMMA NextTInv == RInv /\ TInv /\ [Next]_vars => TInv'
<1> SUFFICES ASSUME RInv, TInv, [Next]_vars PROVE TInv'
  OBVIOUS
<1>1. /\ time \in Nat /\ offset \in Nat /\ interval \in Shortest .. Longest
      /\ \A u \in Threads : thr[u].until \in Nat
      /\ thr \in [Threads -> [asleep : BOOLEAN, wait : Nat, until : Nat]]
  BY DEF RInv, TInv, TypeOK
<1>2. CASE \E t \in Threads : Claim(t)
  BY <1>2, ClaimTInv
<1>3. ASSUME NEW t \in Threads, Wake(t) PROVE TInv'
  <2>1. /\ thr[t].asleep /\ time >= thr[t].until /\ thr' = [thr EXCEPT ![t] = Awake]
        /\ UNCHANGED <<interval, nextFree, time, offset, grants>>
    BY <1>3 DEF Wake
  <2>2. ASSUME NEW u \in Threads, thr[u].until > time' PROVE thr'[u] = thr[u]
    <3>1. u # t
      BY <1>1, <2>1, <2>2
    <3> QED
      BY <1>1, <2>1, <3>1
  <2> QED
    BY <1>1, <2>1, <2>2, OtherTInv
<1>4. CASE \/ \E rate \in Rates : SetRate(rate)
           \/ Tick \/ SetBack \/ SetOn \/ UNCHANGED vars
  <2>1. /\ grants' = grants /\ nextFree' = nextFree /\ thr' = thr
        /\ time' \in Nat /\ time <= time'
    BY <1>1, <1>4 DEF SetRate, Tick, SetBack, SetOn, vars
  <2>2. offset' \in Nat /\ (MaxSetOn = 0 => offset' <= offset)
    BY <1>1, <1>4, RateAssumption DEF SetRate, Tick, SetBack, SetOn, vars
  <2>3. interval' \in Shortest .. Longest
    BY <1>1, <1>4, IntervalBounds DEF SetRate, Tick, SetBack, SetOn, vars
  <2> QED
    BY <2>1, <2>2, <2>3, OtherTInv
<1> QED
  BY <1>2, <1>3, <1>4 DEF Next

\* The timing invariant holds of every rate_limiter at all times.
LEMMA AlwaysTInv == Spec => [](RInv /\ TInv)
  BY InitRInv, NextRInv, InitTInv, NextTInv, PTL DEF Spec

\* Among more claims than there are sleepers, one is over: the callers of claims
\* whose place is ahead are asleep, and all different.
LEMMA OneIsOver ==
  ASSUME RInv, TInv, NEW r \in 1 .. Len(grants),
         Cardinality(Asleep) < Len(grants) - r + 1
  PROVE  \E k \in r .. Len(grants) : At(k) <= time
<1>1. TypeOK /\ Len(grants) \in Nat /\ time \in Nat /\ r \in Nat
      /\ r <= Len(grants) /\ 1 <= r
  <2>1. TypeOK /\ time \in Nat
    BY DEF RInv, TypeOK
  <2>2. Len(grants) \in Nat
    BY <2>1, GrantTypes
  <2> QED
    BY <2>1, <2>2
<1>2. SUFFICES ASSUME \A k \in r .. Len(grants) : ~(At(k) <= time) PROVE FALSE
  OBVIOUS
<1> DEFINE S == r .. Len(grants)
           caller == [k \in S |-> By(k)]
<1>3. \A k \in S : k \in 1 .. Len(grants)
  BY <1>1
<1>4. \A k \in S : At(k) > time
  <2>1. \A k \in S : At(k) \in Nat
    BY <1>1, <1>3, GrantTypes
  <2> QED
    BY <1>1, <1>2, <2>1
<1>5. \A k \in S : By(k) \in Asleep
  BY <1>1, <1>3, <1>4, GrantTypes DEF TInv, GrantInv, Asleep
<1>6. caller \in [S -> Asleep]
  BY <1>5
<1>7. IsFiniteSet(S) /\ Cardinality(S) = Len(grants) - r + 1
  BY <1>1, FS_Interval
<1>8. IsFiniteSet(Asleep)
  <2>1. Asleep \in SUBSET Threads /\ IsFiniteSet(Threads)
    BY RateAssumption DEF Asleep
  <2> QED
    BY <2>1, FS_Subset
<1>9. PICK j \in S, k \in S : j # k /\ caller[j] = caller[k]
  <2>1. Cardinality(Asleep) < Cardinality(S)
    BY <1>7
  <2> HIDE DEF S, caller
  <2> QED
    BY <1>6, <1>7, <1>8, <2>1, FS_PigeonHole
<1>10. By(j) = By(k) /\ j \in Nat /\ k \in Nat
  BY <1>1, <1>9
<1>11. j < k \/ k < j
  BY <1>9, <1>10
<1>12. At(j) <= time \/ At(k) <= time
  BY <1>3, <1>9, <1>10, <1>11 DEF TInv, OneSleep
<1> QED
  BY <1>2, <1>12

\* The number of sleepers.
LEMMA SleepersCounted == Cardinality(Asleep) \in Nat
<1>1. Asleep \in SUBSET Threads /\ IsFiniteSet(Threads)
  BY RateAssumption DEF Asleep
<1>2. IsFiniteSet(Asleep)
  BY <1>1, FS_Subset
<1> QED
  BY <1>2, FS_CardinalityType

\* The rate that callers of acquire() see on the steady clock.
THEOREM RateKept == Spec => []RateIsKept
<1>1. RInv /\ TInv => RateIsKept
  <2> DEFINE n == Len(grants) - Cardinality(Asleep)
  <2> SUFFICES ASSUME RInv, TInv, n > 0
               PROVE  (n - 1) * Shortest <= time - grants[1].at + Given
    BY DEF RateIsKept
  <2>1. TypeOK /\ Len(grants) \in Nat /\ time \in Nat /\ Cardinality(Asleep) \in Nat
    BY SleepersCounted, GrantTypes DEF RInv, TypeOK
  <2>2. n \in 1 .. Len(grants) /\ Len(grants) - n + 1 = Cardinality(Asleep) + 1
    BY <2>1
  <2> HIDE DEF n
  <2>3. PICK k \in n .. Len(grants) : At(k) <= time
    BY <2>1, <2>2, OneIsOver
  <2>4. /\ k \in 1 .. Len(grants) /\ 1 \in 1 .. Len(grants) /\ n - 1 \in Nat
        /\ k - 1 \in Nat /\ n - 1 <= k - 1
    BY <2>1, <2>2
  <2>5. /\ GrantInv(k) /\ GrantInv(1) /\ Place(1) \in Nat /\ At(1) \in Nat
        /\ Place(k) \in Nat /\ At(k) \in Nat
    BY <2>1, <2>4, GrantTypes DEF TInv
  <2>6. Shorts(n - 1) <= Shorts(k - 1) /\ Shorts(n - 1) \in Nat /\ Shorts(k - 1) \in Nat
    BY <2>4, Multiples
  <2>7. Place(k) - At(k) <= Place(1) - At(1) + Given /\ Given \in Nat
    BY <2>5, RateAssumption, SMTT(20) DEF GrantInv, Given
  <2>8. Place(k) >= Place(1) + Shorts(k - 1)
    BY <2>5 DEF GrantInv
  <2>9. Shorts(n - 1) <= time - At(1) + Given
    BY <2>1, <2>3, <2>5, <2>6, <2>7, <2>8, SMTT(20)
  <2> QED
    BY <2>9 DEF Shorts, At
<1> QED
  BY <1>1, AlwaysTInv, PTL

\* A claim waits for the threads that are asleep and for no idle time.
THEOREM NoIdleCharged == Spec => []WaitsOnlyForSleepers
<1>1. RInv /\ TInv => WaitsOnlyForSleepers
  <2> SUFFICES ASSUME RInv, TInv PROVE WaitsOnlyForSleepers
    OBVIOUS
  <2> DEFINE n == Cardinality(Asleep)
             L == Len(grants)
  <2>1. /\ TypeOK /\ L \in Nat /\ time \in Nat /\ n \in Nat /\ nextFree \in Nat
        /\ offset \in StartTime - MaxSetBack .. StartTime + MaxSetOn
    BY SleepersCounted, GrantTypes DEF RInv, TypeOK
  <2>2. Horizon \in Nat /\ SystemNow + MaxSetBack + MaxSetOn >= Horizon
        /\ SystemNow + MaxSetBack + MaxSetOn \in Int
    BY <2>1, RateAssumption DEF Horizon, SystemNow
  <2>3. Longs(1 + n) \in Nat
    <3> HIDE DEF n
    <3>1. 1 + n \in Nat
      BY <2>1
    <3> QED
      BY <3>1, Multiples, Zenon
  <2>4. nextFree <= Horizon + Longs(1 + n)
    <3>1. CASE L <= n
      <4>1. Longs(L) <= Longs(1 + n) /\ Longs(L) \in Nat
        BY <2>1, <3>1, Multiples
      <4>2. nextFree <= Horizon + Longs(L)
        BY DEF TInv
      <4> HIDE DEF n, L
      <4> QED
        BY <2>1, <2>2, <2>3, <4>1, <4>2
    <3>2. CASE L > n
      <4>1. L - n \in 1 .. L /\ n < L - (L - n) + 1
        BY <2>1, <3>2
      <4>2. PICK k \in L - n .. L : At(k) <= time
        BY <4>1, OneIsOver
      <4>3. k \in 1 .. L /\ 1 + L - k \in Nat /\ 1 + L - k <= 1 + n
        BY <2>1, <4>1, <4>2
      <4>4. GrantInv(k) /\ Place(k) \in Nat /\ At(k) \in Nat
        BY <2>1, <4>3, GrantTypes DEF TInv
      <4>5. Place(k) <= Horizon
        BY <2>1, <4>2, <4>4, RateAssumption DEF GrantInv, Horizon
      <4>6. Longs(1 + L - k) <= Longs(1 + n) /\ Longs(1 + L - k) \in Nat
        <5> HIDE DEF n, L
        <5>1. 1 + n \in Nat
          BY <2>1
        <5> QED
          BY <4>3, <5>1, Multiples, Zenon
      <4>7. nextFree <= Horizon + Longs(1 + L - k) \/ nextFree <= Place(k) + Longs(1 + L - k)
        BY <4>4 DEF GrantInv
      <4> HIDE DEF n, L
      <4> QED
        BY <2>1, <2>2, <2>3, <4>4, <4>5, <4>6, <4>7
    <3> QED
      BY <2>1, <3>1, <3>2
  <2> HIDE DEF n
  <2>5. nextFree <= SystemNow + MaxSetBack + MaxSetOn + Longs(1 + n)
    BY <2>1, <2>2, <2>3, <2>4
  <2> QED
    BY <2>5 DEF WaitsOnlyForSleepers, Longs, n
<1> QED
  BY <1>1, AlwaysTInv, PTL

=============================================================================
