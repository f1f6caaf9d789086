---------------------------- MODULE RateLimiter -----------------------------
(***************************************************************************)
(* rate_limiter: threads that call acquire() are given places in time, at  *)
(* least m_interval apart, and sleep until their place.                    *)
(*                                                                         *)
(* claim_next() runs under m_mtx, clock reading included, and is one step; *)
(* the sleep of acquire() is outside of the lock.  m_max_permits is 0 from *)
(* construction on, so that sync() never stores a permit and every claim   *)
(* pays for a fresh one.  The interval is 1000000.0 / rate and is cut down *)
(* to a whole number of microseconds when it is added to m_next_free.      *)
(*                                                                         *)
(* The clock of claim_next() is the system clock, which may be set;        *)
(* sleep_for() measures with the steady clock.  `time' is the steady clock *)
(* and `offset' what the system clock is ahead of it.  Differences of      *)
(* uint64_t wrap around at Word.                                           *)
(***************************************************************************)
EXTENDS Integers, Sequences, FiniteSets

CONSTANTS
  Threads,      \* the callers of acquire()
  Second,       \* 1000000: the microseconds of a second
  Rates,        \* the arguments of set_rate(): at most Second, so that the
                \* interval is at least one microsecond
  Word,         \* 2^64
  StartTime,    \* system time at construction: long after the epoch
  MaxTime,      \* bound on the steady clock
  MaxGrants,    \* bound on the number of claims
  MaxSetBack,   \* bound on how far the system clock is ever set back,
  MaxSetOn      \* and forward, from where it was; 0: it is never set forward

ASSUME RateAssumption ==
  /\ IsFiniteSet(Threads)
  /\ Second \in Nat \ {0}
  /\ Rates # {} /\ Rates \subseteq 1 .. Second
  /\ StartTime \in Nat /\ MaxTime \in Nat /\ MaxGrants \in Nat
  /\ MaxSetBack \in 0 .. StartTime /\ MaxSetOn \in Nat
  /\ Word \in Nat
  /\ Word > StartTime + MaxTime + MaxGrants * Second + MaxSetBack + MaxSetOn

VARIABLES
  interval,    \* m_interval, cut down to whole microseconds
  stored,      \* m_stored_permits
  nextFree,    \* m_next_free
  time,        \* the steady clock
  offset,      \* the system clock minus the steady clock
  thr,         \* each thread: not in acquire(), or asleep until a steady time
  grants       \* history: the claims, each with its caller, its place in system
               \* time and in steady time, and the interval it pays

vars == <<interval, stored, nextFree, time, offset, thr, grants>>

\* Mutant of MaxPermits: a permit is kept for later.
OnePermit == 1

MaxPermits == 0

\* Mutant of Interval: the quotient is upside down.
IntervalInverse(rate) == rate \div Second

\* Of the double 1000000.0 / rate only the whole part is ever used.
Interval(rate) == Second \div rate

SystemNow == time + offset

Min2(x, y) == IF x <= y THEN x ELSE y

\* A difference of two uint64_t.
Minus(x, y) == IF x >= y THEN x - y ELSE x - y + Word

\* A thread that is not in acquire().
Awake == [asleep |-> FALSE, wait |-> 0, until |-> 0]

Init ==
  /\ interval \in {Interval(r) : r \in Rates}
  /\ stored = 0
  /\ nextFree = 0
  /\ time = 0
  /\ offset = StartTime
  /\ thr = [t \in Threads |-> Awake]
  /\ grants = <<>>

\* set_rate(), with a rate above 0.
SetRate(rate) ==
  /\ interval' = Interval(rate)
  /\ UNCHANGED <<stored, nextFree, time, offset, thr, grants>>

\* Mutant of SyncedFree: m_next_free is not brought up to the clock.
NotSynced(now) == nextFree

\* sync(now): what m_next_free and m_stored_permits become.
SyncedFree(now) == IF now > nextFree THEN now ELSE nextFree

SyncedStored(now) ==
  IF now > nextFree
  THEN Min2(MaxPermits, stored + (now - nextFree) \div interval)
  ELSE stored

\* Mutant of FreshCost: a permit is paid twice.
FreshCostTwice(use) == (2 - use) * interval

\* fresh * m_interval: what is not taken from the stored permits.
FreshCost(use) == (1 - use) * interval

\* claim_next(1), then sleep_for(wait).
Claim(t) ==
  /\ ~thr[t].asleep /\ Len(grants) < MaxGrants
  /\ LET now  == SystemNow
         free == SyncedFree(now)
         wait == Minus(free, now)
         use  == Min2(1, SyncedStored(now))
     IN  /\ nextFree' = free + FreshCost(use)
         /\ stored' = SyncedStored(now) - use
         /\ thr' = [thr EXCEPT ![t] = [asleep |-> TRUE, wait |-> wait,
                                       until |-> time + wait]]
         /\ grants' = Append(grants, [by |-> t, place |-> now + wait,
                                      at |-> time + wait, pays |-> interval])
  /\ UNCHANGED <<interval, time, offset>>

\* Mutant of Wake: acquire() does not sleep.
WakeAtOnce(t) ==
  /\ thr[t].asleep
  /\ thr' = [thr EXCEPT ![t] = Awake]
  /\ UNCHANGED <<interval, stored, nextFree, time, offset, grants>>

\* The sleep is over, at its time or later: acquire() returns.
Wake(t) ==
  /\ thr[t].asleep /\ time >= thr[t].until
  /\ thr' = [thr EXCEPT ![t] = Awake]
  /\ UNCHANGED <<interval, stored, nextFree, time, offset, grants>>

Tick ==
  /\ time < MaxTime
  /\ time' = time + 1
  /\ UNCHANGED <<interval, stored, nextFree, offset, thr, grants>>

\* The system clock is set back.
SetBack ==
  /\ offset' \in StartTime - MaxSetBack .. offset - 1
  /\ UNCHANGED <<interval, stored, nextFree, time, thr, grants>>

\* The system clock is set forward, unless MaxSetOn is 0.
SetOn ==
  /\ MaxSetOn > 0
  /\ offset' \in offset + 1 .. StartTime + MaxSetOn
  /\ UNCHANGED <<interval, stored, nextFree, time, thr, grants>>

Next ==
  \/ \E t \in Threads : Claim(t) \/ Wake(t)
  \/ \E rate \in Rates : SetRate(rate)
  \/ Tick
  \/ SetBack \/ SetOn

Spec == Init /\ [][Next]_vars

-----------------------------------------------------------------------------
(***************************************************************************)
(* Properties.                                                             *)
(***************************************************************************)

\* The variables keep their types.
TypeOK ==
  /\ interval \in Nat \ {0}
  /\ stored \in Nat
  /\ nextFree \in Nat
  /\ time \in Nat
  /\ offset \in Nat
  /\ thr \in [Threads -> [asleep : BOOLEAN, wait : Nat, until : Nat]]
  /\ grants \in Seq([by : Threads, place : Nat, at : Nat, pays : Nat])

\* The rate is kept: whatever the interleaving of the callers, the changes of the
\* rate and the steps of the system clock, two consecutive claims have places at
\* least the interval apart that was in force at the first of them.
PlacesAreSpaced ==
  \A k \in 1 .. Len(grants) - 1 :
    grants[k + 1].place >= grants[k].place + grants[k].pays

\* The comment in claim_next(): "Since we synced before hand, this will always be
\* >= 0".  The unsigned difference never wraps: a wait is at most what the claims
\* before it pay, plus what the clock has been set by.
WaitNeverWraps ==
  \A t \in Threads :
    thr[t].wait <= Len(grants) * Second + MaxSetBack + MaxSetOn

Asleep == {t \in Threads : thr[t].asleep}

\* The intervals of the highest and of the lowest rate.
Shortest == Interval(CHOOSE r \in Rates : \A q \in Rates : q <= r)
Longest  == Interval(CHOOSE r \in Rates : \A q \in Rates : q >= r)

\* What a system clock that is set forward may give away.
Given == IF MaxSetOn = 0 THEN 0 ELSE MaxSetBack + MaxSetOn

\* What a caller of acquire() sees: at any time, the calls that have returned
\* since the first claim are at most one more than the intervals that have
\* passed since, on the steady clock.  Setting the system clock back gives nobody
\* a place too early; setting it forward gives away at most what it is set by.
RateIsKept ==
  LET returned == Len(grants) - Cardinality(Asleep)
  IN  returned > 0 =>
        (returned - 1) * Shortest <= time - grants[1].at + Given

\* Idle time is charged to nobody: the next place is never further away than the
\* intervals of the threads that are asleep and one more, plus what the clock has
\* been set back.
WaitsOnlyForSleepers ==
  nextFree <= SystemNow + MaxSetBack + MaxSetOn
                + (1 + Cardinality(Asleep)) * Longest

=============================================================================
