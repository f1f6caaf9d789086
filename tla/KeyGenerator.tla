---------------------------- MODULE KeyGenerator ----------------------------
(***************************************************************************)
(* zipf_key_generator: the constructor fills a table with the cumulative   *)
(* probabilities of the keys 0 .. n-1, and next() draws a number r of      *)
(* [0, 1) and searches the first entry that is larger.                     *)
(*                                                                         *)
(* A double is a number of units of 1 / One, and every quotient that is    *)
(* not exact may round either way.  So the last entry need not be 1, and   *)
(* next() may find no entry at all.  Additions are exact here; those of    *)
(* doubles round, too, once the sum is large.  pow(i, 1 - theta) is        *)
(* taken at the two ends of the scale that the source's comment names:     *)
(* i for theta = 0 (which storage_benchmark.cpp passes), and 1 for theta   *)
(* = 1.  next(len) is the same search; padding is left out.                *)
(***************************************************************************)
EXTENDS Integers

CONSTANTS
  Sizes,    \* the n that the generator may be made for: --num-ops
  Thetas,   \* the theta: among 0 and 1
  One       \* resolution of a double

ASSUME KeyGeneratorAssumption ==
  /\ Sizes \subseteq Nat
  /\ Thetas \subseteq {0, 1}
  /\ One \in Nat /\ \A n \in Sizes : One > 2 * n

VARIABLES
  n, theta,   \* n_ and theta_
  pc,         \* in a loop of gen_zipf, or in next()
  i,          \* counter of the loops of gen_zipf
  sum, prob,  \* sum and c of gen_zipf
  sumc,       \* sumc of gen_zipf
  zdist,      \* zdist_, filled up to i
  r, lo, hi   \* the local variables of next()

table == <<n, theta, i, sum, prob, sumc, zdist>>
vars  == <<table, pc, r, lo, hi>>

\* The two values that a quotient may be rounded to.
Rounded(a, b) == {a \div b, (a + b - 1) \div b}

\* pow((double) k, 1.0 - theta_)
Pow(k) == IF theta = 0 THEN k ELSE 1

Init ==
  /\ n \in Sizes /\ theta \in Thetas
  /\ pc = "sum"
  /\ i = 1 /\ sum = 0 /\ prob = 0 /\ sumc = 0
  /\ zdist = <<>>
  /\ r = 0 /\ lo = 0 /\ hi = 0

\* sum += 1.0 / pow((double) i, expo);
AddUp ==
  /\ pc = "sum" /\ i <= n
  /\ \E x \in Rounded(One, Pow(i)) : sum' = sum + x
  /\ i' = i + 1
  /\ UNCHANGED <<n, theta, pc, prob, sumc, zdist, r, lo, hi>>

\* c = 1.0 / sum, which is not used for n = 0.
Normalise ==
  /\ pc = "sum" /\ i > n
  /\ prob' \in (IF sum = 0 THEN {0} ELSE Rounded(One * One, sum))
  /\ i' = 0
  /\ pc' = "fill"
  /\ UNCHANGED <<n, theta, sum, sumc, zdist, r, lo, hi>>

\* Mutant of Share: the probabilities start with that of the second key.
ShareOfNext(k) == Rounded(prob, Pow(k + 2))

\* c / pow((double) (k + 1), expo)
Share(k) == Rounded(prob, Pow(k + 1))

\* sumc += ...; zdist_[i] = sumc;
Fill ==
  /\ pc = "fill" /\ i < n
  /\ \E x \in Share(i) :
       /\ sumc' = sumc + x
       /\ zdist' = [k \in 0 .. i |-> IF k = i THEN sumc + x ELSE zdist[k]]
  /\ i' = i + 1
  /\ UNCHANGED <<n, theta, pc, sum, prob, r, lo, hi>>

Made ==
  /\ pc = "fill" /\ i >= n
  /\ pc' = "idle"
  /\ UNCHANGED <<table, r, lo, hi>>

-----------------------------------------------------------------------------

\* hi = n_
Last == n

\* next(): draw r and start the search.
Draw ==
  /\ pc \in {"idle", "found"}
  /\ r' \in 0 .. One - 1
  /\ lo' = 0 /\ hi' = Last
  /\ pc' = "search"
  /\ UNCHANGED table

Mid == (lo + hi) \div 2

\* Mutant of Above: lo = mid.
AboveItself == Mid

\* lo = mid + 1
Above == Mid + 1

\* Mutant of Passed: an entry equal to r is taken.
PassedStrictly == zdist[Mid] < r

\* zdist_[mid] <= r
Passed == zdist[Mid] <= r

Halve ==
  /\ pc = "search" /\ lo # hi
  /\ IF Passed THEN lo' = Above /\ hi' = hi ELSE hi' = Mid /\ lo' = lo
  /\ UNCHANGED <<table, pc, r>>

\* return std::to_string(lo);
Return ==
  /\ pc = "search" /\ lo = hi
  /\ pc' = "found"
  /\ UNCHANGED <<table, r, lo, hi>>

Work == AddUp \/ Normalise \/ Fill \/ Made \/ Halve \/ Return

Next == Work \/ Draw

\* A generator that is at work goes on; nobody has to ask for a key.
Spec == Init /\ [][Next]_vars /\ WF_vars(Work)

-----------------------------------------------------------------------------
(***************************************************************************)
(* Properties.                                                             *)
(***************************************************************************)

\* next() returns the reference answer, the number of entries that are <= r, so that
\* key k is drawn exactly for the r between the (k-1)-th and the k-th sum.  On the
\* way it reads inside of the table only, an empty one included, and the answer
\* stays between lo and hi.
FoundPlace ==
  pc \in {"search", "found"} =>
    /\ lo <= hi /\ hi <= n
    /\ pc = "found" => lo = hi
    /\ lo # hi => Mid \in DOMAIN zdist
    /\ \A k \in 0 .. n - 1 : (k < lo => zdist[k] <= r) /\ (k >= hi => zdist[k] > r)

\* A key outside of 0 .. n-1 (key n: an object that nobody counts) is drawn by
\* rounding only: r is within 2n units of 1, however the sums were rounded.
OutsideOnlyByRounding ==
  pc = "found" /\ lo >= n /\ n > 0 => r >= One - 2 * n

\* The constructor and every next() return.
EveryKeyIsFound == []<>(pc \in {"idle", "found"})

=============================================================================
