-------------------------- MODULE TokenBucketProofs --------------------------
(***************************************************************************)
(* Theorems about token_bucket, for any number of threads, any limits and  *)
(* amounts, and any schedule of the atomic operations.                     *)
(***************************************************************************)
EXTENDS TokenBucket, Integers, TLAPS

Costs == {PerToken(l) : l \in Limits}

\* What a call knows: its clock reading is not older than the bucket, its cost
\* cannot wrap a time of the clock, and its exchange never sets m_time back.  The
\* first time it computes is not more than a burst behind its clock reading.
CallInv(t) ==
  /\ IF pc[t] = "token" THEN c[t].need \in Amounts ELSE c[t].need + MaxTime < Word
  /\ pc[t] # "idle" => c[t].now >= hist.start
  /\ pc[t] \in {"time", "try"} => c[t].burst \in Bursts
  /\ pc[t] = "try" /\ LongUp =>
       /\ c[t].old <= c[t].new /\ c[t].new <= MaxTime
       /\ c[t].retried = FALSE => c[t].new + c[t].burst >= c[t].now

\* The bucket's own state, and the observer's.
StoreInv ==
  /\ perToken \in Costs
  /\ assigning = <<>> \/ \E b \in Bursts : assigning = <<b>>
  /\ hist.start \in 0 .. now /\ hist.granted \in Nat
  /\ hist.win.from \in 0 .. now /\ hist.win.sum \in Nat

\* What is granted in the window is paid for with what m_time has moved on since
\* a burst before the window was opened.
WindowIsPaid ==
  LongUp => IF hist.win.counting
              THEN \E b \in Bursts : hist.win.sum + hist.win.from <= mTime + b
              ELSE hist.win.sum = 0

\* The inductive invariant.
TBInv ==
  /\ BucketTypeOK
  /\ DOMAIN c = Threads
  /\ StoreInv
  /\ \A t \in Threads : CallInv(t)
  /\ GrantsArePaid
  /\ WindowIsPaid

-----------------------------------------------------------------------------

\* Prices and bursts are naturals, and a cost added to a time of the clock stays
\* below the size of the word.
LEMMA Prices ==
  /\ \A l \in Limits : PerToken(l) \in Nat \ {0} /\ PerBurst(l) \in Nat
  /\ Bursts \subseteq Nat /\ Costs \subseteq Nat \ {0}
  /\ \A a \in Amounts, p \in Costs : a * p \in Nat /\ a * p + MaxTime < Word
<1>1. ASSUME NEW l \in Limits
      PROVE  PerToken(l) \in Nat \ {0} /\ PerBurst(l) \in Nat
  <2>1. l[1] \in Nat \ {0} /\ l[2] \in Nat
    BY BucketAssumption
  <2>2. PerToken(l) \in Int
    BY <2>1, BucketAssumption DEF PerToken
  <2>3. PerToken(l) \in Nat \ {0}
    BY <2>2, BucketAssumption
  <2> QED
    BY <2>1, <2>3 DEF PerBurst
<1>2. ASSUME NEW a \in Amounts, NEW l \in Limits
      PROVE  a * PerToken(l) \in Nat /\ a * PerToken(l) + MaxTime < Word
  <2>1. a \in Nat /\ PerToken(l) \in Nat /\ PerBurst(l) \in Nat /\ MaxTime \in Nat
    BY <1>1, BucketAssumption
  <2>2. Word > PerBurst(l) + a * PerToken(l) + MaxTime /\ Word \in Nat
    BY BucketAssumption
  <2>3. a * PerToken(l) \in Nat
    BY <2>1
  <2> QED
    BY <2>1, <2>2, <2>3
<1> QED
  BY <1>1, <1>2 DEF Bursts, Costs

\* A sum below the size of the word does not wrap.
LEMMA PlusIsExact ==
  ASSUME NEW x \in Nat, NEW y \in Nat, x + y < Word
  PROVE  Plus(x, y) = x + y
  BY BucketAssumption DEF Plus

\* Neither does a difference of which the first part is the larger.
LEMMA MinusIsExact ==
  ASSUME NEW x \in Nat, NEW y \in Nat, y <= x, x < Word
  PROVE  Minus(x, y) = x - y
<1>1. x + Word - y = Word + (x - y) /\ x - y \in 0 .. Word - 1 /\ Word \in Nat
  BY BucketAssumption
<1> QED
  BY <1>1 DEF Minus

\* Whatever wraps, the results are words.
LEMMA WordResults ==
  ASSUME NEW x \in Nat, NEW y \in Nat
  PROVE  Plus(x, y) \in 0 .. Word - 1 /\ Minus(x, y) \in 0 .. Word - 1
<1>1. Word \in Nat \ {0}
  BY BucketAssumption
<1>2. \A z \in Int : z % Word \in 0 .. Word - 1
  BY <1>1, SMTT(30)
<1>3. x + y \in Int /\ x + Word - y \in Int
  BY <1>1
<1> QED
  BY <1>2, <1>3 DEF Plus, Minus

\* A step of one call leaves the others alone.
LEMMA LocalStep ==
  ASSUME BucketTypeOK, DOMAIN c = Threads, NEW t \in Threads,
         NEW place \in {"idle", "token", "burst", "time", "try"}, NEW locals,
         Local(t, place, locals)
  PROVE  /\ pc' \in [Threads -> {"idle", "token", "burst", "time", "try"}]
         /\ DOMAIN c' = Threads
         /\ pc'[t] = place /\ c'[t] = locals
         /\ \A u \in Threads \ {t} : pc'[u] = pc[u] /\ c'[u] = c[u]
  BY DEF BucketTypeOK, Local

\* What holds of one call in BucketTypeOK.
LocalsOK(t) ==
  /\ c[t].now \in 0 .. now /\ c[t].need \in Nat /\ c[t].retried \in BOOLEAN
  /\ c[t].old \in 0 .. Word - 1 /\ c[t].new \in 0 .. Word - 1

\* A step that touches the variables of one call only keeps the invariant if it
\* keeps the part about that call.
LEMMA CallStep ==
  ASSUME TBInv, NEW t \in Threads,
         NEW place \in {"idle", "token", "burst", "time", "try"}, NEW locals,
         Local(t, place, locals),
         UNCHANGED <<now, mTime, perToken, perBurst, assigning, assigns, hist>>,
         LocalsOK(t)', CallInv(t)'
  PROVE  TBInv'
<1>1. /\ pc' \in [Threads -> {"idle", "token", "burst", "time", "try"}]
      /\ DOMAIN c' = Threads
      /\ \A u \in Threads \ {t} : pc'[u] = pc[u] /\ c'[u] = c[u]
  BY LocalStep DEF TBInv
<1>2. \A u \in Threads : LocalsOK(u)'
  <2>1. \A u \in Threads \ {t} : LocalsOK(u)
    BY DEF TBInv, BucketTypeOK, LocalsOK
  <2> QED
    BY <1>1, <2>1, Zenon DEF LocalsOK
<1>3. BucketTypeOK'
  BY <1>1, <1>2 DEF TBInv, BucketTypeOK, LocalsOK
<1>4. \A u \in Threads : CallInv(u)'
  BY <1>1, Zenon DEF TBInv, CallInv, LongUp
<1>5. StoreInv' /\ GrantsArePaid' /\ WindowIsPaid'
  BY Zenon DEF TBInv, StoreInv, GrantsArePaid, WindowIsPaid, LongUp
<1> QED
  BY <1>1, <1>3, <1>4, <1>5 DEF TBInv

\* The exchange of a call that the clock allows does not wrap, and moves m_time on
\* by the cost at least.
LEMMA ExchangePays ==
  ASSUME TBInv, NEW t \in Threads, pc[t] = "try", LongUp
  PROVE  NewTime(t) = c[t].new + c[t].need /\ c[t].old + c[t].need <= NewTime(t)
<1>1. c[t].need \in Nat /\ c[t].old \in Nat /\ c[t].new \in Nat
  BY DEF TBInv, BucketTypeOK
<1>2. c[t].old <= c[t].new /\ c[t].new <= MaxTime /\ c[t].need + MaxTime < Word
  BY DEF TBInv, CallInv
<1>3. c[t].new + c[t].need < Word
  BY <1>1, <1>2, BucketAssumption
<1>4. NewTime(t) = c[t].new + c[t].need
  BY <1>1, <1>3, PlusIsExact DEF NewTime
<1> QED
  BY <1>1, <1>2, <1>4

\* The time that a call sets out from is a word; on a machine that has been up for
\* a burst it lies between m_time and the clock, and not more than the burst
\* behind the reading.
LEMMA ClampIsExact ==
  ASSUME TBInv, NEW t \in Threads, pc[t] = "time"
  PROVE  /\ Clamped(t, mTime) \in 0 .. Word - 1
         /\ LongUp => /\ mTime <= Clamped(t, mTime) /\ Clamped(t, mTime) <= MaxTime
                      /\ Clamped(t, mTime) + c[t].burst >= c[t].now
<1>1. /\ c[t].burst \in Nat /\ c[t].burst \in Bursts
      /\ c[t].now \in 0 .. now /\ c[t].now >= hist.start
      /\ now \in 0 .. MaxTime /\ mTime \in 0 .. now /\ hist.start \in Nat
      /\ Word \in Nat /\ Word > MaxTime /\ MaxTime \in Nat
  <2>1. c[t].burst \in Bursts /\ c[t].now >= hist.start
    BY DEF TBInv, CallInv
  <2>2. c[t].burst \in Nat
    BY <2>1, Prices
  <2> QED
    BY <2>1, <2>2, BucketAssumption DEF TBInv, BucketTypeOK, StoreInv
<1>2. Minus(c[t].now, c[t].burst) \in 0 .. Word - 1
  <2>1. c[t].now \in Nat
    BY <1>1
  <2> QED
    BY <1>1, <2>1, WordResults
<1>3. ASSUME LongUp
      PROVE  Minus(c[t].now, c[t].burst) = c[t].now - c[t].burst
  <2>1. c[t].burst <= c[t].now /\ c[t].now < Word
    BY <1>1, <1>3 DEF LongUp
  <2> QED
    BY <1>1, <2>1, MinusIsExact
<1> QED
  BY <1>1, <1>2, <1>3 DEF Clamped

-----------------------------------------------------------------------------

\* The invariant holds when the bucket is made.
LEMMA TBInvInit == Init => TBInv
<1> SUFFICES ASSUME Init PROVE TBInv
  OBVIOUS
<1>1. /\ now \in 0 .. MaxTime /\ mTime = 0 /\ assigning = <<>>
      /\ perToken \in Costs /\ perBurst \in Bursts
      /\ MaxTime \in Nat /\ Word \in Nat /\ Word > MaxTime
  BY BucketAssumption DEF Init, Costs, Bursts
<1>2. pc = [t \in Threads |-> "idle"] /\ c = [t \in Threads |-> NoCall]
  BY DEF Init
<1>3. /\ hist.start = now /\ hist.granted = 0 /\ hist.win.sum = 0
      /\ hist.win.from = 0 /\ hist.win.counting = FALSE
  BY DEF Init
<1>4. ASSUME NEW t \in Threads PROVE LocalsOK(t) /\ CallInv(t)
  <2>1. pc[t] = "idle" /\ c[t] = NoCall
    BY <1>2
  <2>2. c[t].retried \in BOOLEAN
    <3>1. NoCall.retried \in BOOLEAN
      BY Zenon DEF NoCall, Locals
    <3> QED
      BY <2>1, <3>1
  <2>3. /\ c[t].now = 0 /\ c[t].need = 0 /\ c[t].burst = 0
        /\ c[t].old = 0 /\ c[t].new = 0
    BY <2>1 DEF NoCall, Locals
  <2> QED
    BY <1>1, <2>1, <2>2, <2>3 DEF LocalsOK, CallInv
<1>5. BucketTypeOK
  BY <1>1, <1>2, <1>4, Prices DEF BucketTypeOK, LocalsOK
<1>6. StoreInv /\ GrantsArePaid /\ WindowIsPaid
  BY <1>1, <1>3 DEF StoreInv, GrantsArePaid, WindowIsPaid
<1> QED
  BY <1>2, <1>4, <1>5, <1>6 DEF TBInv

\* consume(), up to its exchange: only its own variables change.
LEMMA ConsumeKeeps ==
  ASSUME TBInv, NEW t \in Threads,
         \/ \E a \in Amounts : Call(t, a)
         \/ LoadToken(t) \/ LoadBurst(t) \/ LoadTime(t)
         \/ Denied(t) \/ NotExchanged(t)
  PROVE  TBInv'
<1>1. /\ now \in 0 .. MaxTime /\ mTime \in 0 .. now /\ hist.start \in 0 .. now
      /\ perBurst \in Bursts /\ perToken \in Costs
      /\ MaxTime \in Nat /\ Word \in Nat /\ Word > MaxTime /\ MaxTime < Word
  BY BucketAssumption DEF TBInv, BucketTypeOK, StoreInv
<1>2. LocalsOK(t) /\ CallInv(t)
  BY DEF TBInv, BucketTypeOK, LocalsOK
<1> USE DEF Locals
<1>3. ASSUME NEW a \in Amounts, Call(t, a) PROVE TBInv'
  <2> DEFINE x == Locals(now, a, 0, 0, 0, FALSE)
  <2>1. /\ Local(t, "token", x)
        /\ UNCHANGED <<now, mTime, perToken, perBurst, assigning, assigns, hist>>
    BY <1>3 DEF Call
  <2>2. pc'[t] = "token" /\ c'[t] = x
    BY <2>1, LocalStep DEF TBInv
  <2>3. a \in Nat
    BY BucketAssumption
  <2>4. x.retried \in BOOLEAN
    BY Zenon
  <2>5. LocalsOK(t)'
    BY <1>1, <2>1, <2>2, <2>3, <2>4 DEF LocalsOK
  <2>6. CallInv(t)'
    BY <1>1, <2>1, <2>2, <2>3 DEF CallInv
  <2> QED
    BY <2>1, <2>5, <2>6, CallStep
<1>4. CASE LoadToken(t)
  <2> DEFINE n == c[t].need * perToken
             x == Locals(c[t].now, n, 0, 0, 0, FALSE)
  <2>1. /\ Local(t, "burst", x) /\ pc[t] = "token"
        /\ UNCHANGED <<now, mTime, perToken, perBurst, assigning, assigns, hist>>
    BY <1>4 DEF LoadToken, At
  <2>2. pc'[t] = "burst" /\ c'[t] = x
    BY <2>1, LocalStep DEF TBInv
  <2>3. n \in Nat /\ n + MaxTime < Word
    BY <1>1, <1>2, <2>1, Prices DEF CallInv
  <2>4. x.retried \in BOOLEAN
    BY Zenon
  <2> HIDE DEF n
  <2>5. LocalsOK(t)'
    BY <1>1, <1>2, <2>1, <2>2, <2>3, <2>4 DEF LocalsOK
  <2>6. CallInv(t)'
    BY <1>1, <1>2, <2>1, <2>2, <2>3 DEF CallInv
  <2> QED
    BY <2>1, <2>5, <2>6, CallStep
<1>5. CASE LoadBurst(t)
  <2> DEFINE x == Locals(c[t].now, c[t].need, perBurst, 0, 0, FALSE)
  <2>1. /\ Local(t, "time", x) /\ pc[t] = "burst"
        /\ UNCHANGED <<now, mTime, perToken, perBurst, assigning, assigns, hist>>
    BY <1>5 DEF LoadBurst, At
  <2>2. pc'[t] = "time" /\ c'[t] = x
    BY <2>1, LocalStep DEF TBInv
  <2>3. x.retried \in BOOLEAN
    BY Zenon
  <2>4. LocalsOK(t)'
    BY <1>1, <1>2, <2>1, <2>2, <2>3 DEF LocalsOK
  <2>5. CallInv(t)'
    BY <1>1, <1>2, <2>1, <2>2 DEF CallInv
  <2> QED
    BY <2>1, <2>4, <2>5, CallStep
<1>6. CASE LoadTime(t)
  <2> DEFINE new == Clamped(t, mTime)
             x == Locals(c[t].now, c[t].need, c[t].burst, mTime, new, FALSE)
  <2>1. /\ Local(t, "try", x) /\ pc[t] = "time"
        /\ UNCHANGED <<now, mTime, perToken, perBurst, assigning, assigns, hist>>
    BY <1>6 DEF LoadTime, At
  <2>2. pc'[t] = "try" /\ c'[t] = x
    BY <2>1, LocalStep DEF TBInv
  <2>3. x.retried \in BOOLEAN
    BY Zenon
  <2>4. /\ new \in 0 .. Word - 1
        /\ LongUp => /\ mTime <= new /\ new <= MaxTime
                     /\ new + c[t].burst >= c[t].now
    BY <2>1, ClampIsExact
  <2> HIDE DEF new
  <2>5. LocalsOK(t)'
    BY <1>1, <1>2, <2>1, <2>2, <2>3, <2>4 DEF LocalsOK
  <2>6. LongUp' => LongUp
    BY <2>1 DEF LongUp
  <2>7. CallInv(t)'
    BY <1>1, <1>2, <2>1, <2>2, <2>4, <2>6 DEF CallInv
  <2> QED
    BY <2>1, <2>5, <2>7, CallStep
<1>7. CASE Denied(t)
  <2>1. /\ Local(t, "idle", NoCall)
        /\ UNCHANGED <<now, mTime, perToken, perBurst, assigning, assigns, hist>>
    BY <1>7 DEF Denied
  <2>2. pc'[t] = "idle" /\ c'[t] = NoCall
    BY <2>1, LocalStep DEF TBInv
  <2>3. NoCall.retried \in BOOLEAN
    BY Zenon DEF NoCall
  <2>4. LocalsOK(t)'
    BY <1>1, <2>1, <2>2, <2>3 DEF LocalsOK, NoCall
  <2>5. CallInv(t)'
    BY <1>1, <2>1, <2>2 DEF CallInv, NoCall
  <2> QED
    BY <2>1, <2>4, <2>5, CallStep
<1>8. CASE NotExchanged(t)
  <2> DEFINE x == Locals(c[t].now, c[t].need, c[t].burst, mTime, mTime, TRUE)
  <2>1. /\ Local(t, "try", x) /\ pc[t] = "try"
        /\ UNCHANGED <<now, mTime, perToken, perBurst, assigning, assigns, hist>>
    BY <1>8 DEF NotExchanged, At, Met
  <2>2. pc'[t] = "try" /\ c'[t] = x
    BY <2>1, LocalStep DEF TBInv
  <2>3. x.retried \in BOOLEAN /\ x.retried # FALSE
    BY Zenon
  <2>4. LocalsOK(t)'
    BY <1>1, <1>2, <2>1, <2>2, <2>3 DEF LocalsOK
  <2>5. CallInv(t)'
    BY <1>1, <1>2, <2>1, <2>2, <2>3 DEF CallInv
  <2> QED
    BY <2>1, <2>4, <2>5, CallStep
<1> QED
  BY <1>3, <1>4, <1>5, <1>6, <1>7, <1>8

\* The exchange: m_time moves on by what is granted, no further than the clock.
LEMMA ExchangeKeeps ==
  ASSUME TBInv, NEW t \in Threads, Exchanged(t)
  PROVE  TBInv'
<1>1. /\ now \in 0 .. MaxTime /\ mTime \in 0 .. now
      /\ MaxTime \in Nat /\ Word \in Nat /\ Word > MaxTime
  BY BucketAssumption DEF TBInv, BucketTypeOK
<1>2. LocalsOK(t) /\ CallInv(t)
  BY DEF TBInv, BucketTypeOK, LocalsOK
<1>3. /\ Local(t, "idle", NoCall) /\ pc[t] = "try"
      /\ mTime = c[t].old /\ mTime' = NewTime(t) /\ NewTime(t) <= c[t].now
      /\ hist' = IF LongUp THEN Granted(t) ELSE hist
      /\ UNCHANGED <<now, perToken, perBurst, assigning, assigns>>
  BY DEF Exchanged, At, Allowed, Unchanged
<1>4. /\ pc' \in [Threads -> {"idle", "token", "burst", "time", "try"}]
      /\ DOMAIN c' = Threads
      /\ pc'[t] = "idle" /\ c'[t] = NoCall
      /\ \A u \in Threads \ {t} : pc'[u] = pc[u] /\ c'[u] = c[u]
  BY <1>3, LocalStep DEF TBInv
<1>5. NewTime(t) \in 0 .. now /\ c[t].need \in Nat
  <2>1. c[t].new \in Nat /\ c[t].need \in Nat
    BY <1>1, <1>2 DEF LocalsOK
  <2>2. NewTime(t) \in 0 .. Word - 1
    BY <2>1, WordResults DEF NewTime
  <2> QED
    BY <1>1, <1>2, <1>3, <2>1, <2>2 DEF LocalsOK
<1>6. BucketTypeOK'
  <2>1. NoCall.retried \in BOOLEAN
    BY Zenon DEF NoCall, Locals
  <2>2. LocalsOK(t)'
    BY <1>1, <1>3, <1>4, <2>1 DEF LocalsOK, NoCall, Locals
  <2>3. \A u \in Threads \ {t} : LocalsOK(u)
    BY DEF TBInv, BucketTypeOK, LocalsOK
  <2>4. \A u \in Threads : LocalsOK(u)'
    BY <1>3, <1>4, <2>2, <2>3, Zenon DEF LocalsOK
  <2> QED
    BY <1>3, <1>4, <1>5, <2>4 DEF TBInv, BucketTypeOK, LocalsOK
<1>7. /\ hist'.start = hist.start /\ hist'.win.from = hist.win.from
      /\ LongUp => hist'.granted = hist.granted + c[t].need
      /\ ~LongUp => hist' = hist
  BY <1>3 DEF Granted
<1>8. LongUp' <=> LongUp
  BY <1>7 DEF LongUp
<1>9. /\ hist.start \in Nat /\ hist.granted \in Nat
      /\ hist.win.from \in 0 .. now /\ hist.win.sum \in Nat
  BY <1>1 DEF TBInv, StoreInv
<1>10. \/ hist'.win.sum = hist.win.sum
       \/ LongUp /\ hist'.win.sum = hist.win.sum + c[t].need
  BY <1>3, <1>5, <1>9 DEF Granted
<1>11. StoreInv'
  <2>1. StoreInv
    BY DEF TBInv
  <2> QED
    BY <1>1, <1>3, <1>5, <1>7, <1>9, <1>10, <2>1, SMTT(30) DEF StoreInv
<1>12. \A u \in Threads : CallInv(u)'
  <2>1. ASSUME NEW u \in Threads \ {t} PROVE CallInv(u)'
    <3>1. CallInv(u)
      BY DEF TBInv
    <3> QED
      BY <1>4, <1>7, <1>8, <3>1, Zenon DEF CallInv
  <2>2. CallInv(t)'
    BY <1>1, <1>4 DEF CallInv, NoCall, Locals
  <2> QED
    BY <2>1, <2>2
<1>13. ASSUME LongUp
       PROVE  mTime' = c[t].new + c[t].need /\ mTime + c[t].need <= mTime'
  BY <1>3, <1>13, ExchangePays
<1>14. GrantsArePaid'
  <2>1. SUFFICES ASSUME LongUp PROVE hist'.granted <= mTime'
    BY <1>8 DEF GrantsArePaid
  <2>2. hist.granted <= mTime
    BY <2>1 DEF TBInv, GrantsArePaid
  <2> QED
    BY <1>1, <1>3, <1>5, <1>7, <1>9, <1>13, <2>1, <2>2
<1>15. WindowIsPaid'
  <2>1. SUFFICES ASSUME LongUp
                 PROVE  IF hist'.win.counting
                          THEN \E b \in Bursts :
                                 hist'.win.sum + hist'.win.from <= mTime' + b
                          ELSE hist'.win.sum = 0
    BY <1>8 DEF WindowIsPaid
  <2> DEFINE on == hist.win.counting \/ Clean(t)
  <2>2. hist' = Granted(t)
    BY <1>3, <2>1
  <2>3. (hist'.win.counting = on)
    BY <2>2, Zenon DEF Granted
  <2>4. hist'.win.sum = hist.win.sum + (IF on THEN c[t].need ELSE 0)
    BY <2>2 DEF Granted
  <2>5. IF hist.win.counting
          THEN \E b \in Bursts : hist.win.sum + hist.win.from <= mTime + b
          ELSE hist.win.sum = 0
    BY <2>1 DEF TBInv, WindowIsPaid
  <2>6. CASE hist.win.counting
    <3>1. PICK b \in Bursts : hist.win.sum + hist.win.from <= mTime + b
      BY <2>5, <2>6
    <3>2. hist'.win.sum = hist.win.sum + c[t].need
      BY <2>4, <2>6
    <3>3. b \in Nat
      BY Prices
    <3>4. hist'.win.sum + hist'.win.from <= mTime' + b
      BY <1>1, <1>3, <1>5, <1>7, <1>9, <1>13, <2>1, <3>1, <3>2, <3>3
    <3>5. hist'.win.counting
      BY <2>3, <2>6, Zenon
    <3> QED
      BY <3>4, <3>5
  <2>7. CASE ~hist.win.counting /\ Clean(t)
    <3>1. hist.win.sum = 0 /\ hist'.win.sum = hist.win.sum + c[t].need
      BY <2>4, <2>5, <2>7
    <3>2. c[t].now >= hist.win.from /\ ~c[t].retried
      BY <2>7, Zenon DEF Clean
    <3>3. c[t].retried = FALSE
      BY <1>2, <3>2, Zenon DEF LocalsOK
    <3>4. c[t].new + c[t].burst >= c[t].now /\ c[t].burst \in Bursts
      BY <1>2, <1>3, <2>1, <3>3 DEF CallInv
    <3>5. c[t].burst \in Nat /\ c[t].new \in Nat /\ c[t].now \in Nat
      <4>1. c[t].burst \in Nat
        BY <3>4, Prices
      <4> QED
        BY <1>1, <1>2, <4>1 DEF LocalsOK
    <3>6. hist'.win.sum + hist'.win.from <= mTime' + c[t].burst
      BY <1>1, <1>5, <1>7, <1>9, <1>13, <2>1, <3>1, <3>2, <3>4, <3>5
    <3>7. hist'.win.counting
      BY <2>3, <2>7, Zenon
    <3> QED
      BY <3>4, <3>6, <3>7
  <2>8. CASE ~hist.win.counting /\ ~Clean(t)
    <3>1. hist'.win.sum = 0
      BY <1>9, <2>4, <2>5, <2>8
    <3>2. ~hist'.win.counting
      BY <2>3, <2>8, Zenon
    <3> QED
      BY <3>1, <3>2
  <2> QED
    BY <2>6, <2>7, <2>8
<1> QED
  BY <1>4, <1>6, <1>11, <1>12, <1>14, <1>15 DEF TBInv

\* The clock, operator= and the observer.
LEMMA OthersKeep ==
  ASSUME TBInv,
         \/ \E l \in Limits : AssignToken(l)
         \/ AssignBurst \/ Tick \/ Watch
  PROVE  TBInv'
<1>1. /\ now \in 0 .. MaxTime /\ mTime \in 0 .. now /\ MaxTime \in Nat
      /\ hist.start \in 0 .. now /\ hist.granted \in Nat
      /\ hist.win.from \in 0 .. now /\ hist.win.sum \in Nat
  BY BucketAssumption DEF TBInv, BucketTypeOK, StoreInv
<1>2. ASSUME UNCHANGED <<pc, c>>, hist'.start = hist.start
      PROVE  (\A t \in Threads : CallInv(t)') /\ DOMAIN c' = Threads
  BY <1>2, Zenon DEF TBInv, CallInv, LongUp
<1>3. ASSUME NEW l \in Limits, AssignToken(l) PROVE TBInv'
  <2>1. PerToken(l) \in Costs /\ PerToken(l) \in Nat \ {0} /\ PerBurst(l) \in Bursts
    BY Prices DEF Costs, Bursts
  <2>2. StoreInv' /\ BucketTypeOK'
    BY <1>1, <1>3, <2>1 DEF TBInv, StoreInv, BucketTypeOK, AssignToken
  <2>3. GrantsArePaid' /\ WindowIsPaid'
    BY <1>3, Zenon DEF TBInv, GrantsArePaid, WindowIsPaid, LongUp, AssignToken
  <2> QED
    BY <1>2, <1>3, <2>2, <2>3 DEF TBInv, AssignToken
<1>4. CASE AssignBurst
  <2>1. perBurst' \in Bursts
    BY <1>4 DEF TBInv, StoreInv, AssignBurst
  <2>2. StoreInv' /\ BucketTypeOK'
    BY <1>1, <1>4, <2>1 DEF TBInv, StoreInv, BucketTypeOK, AssignBurst
  <2>3. GrantsArePaid' /\ WindowIsPaid'
    BY <1>4, Zenon DEF TBInv, GrantsArePaid, WindowIsPaid, LongUp, AssignBurst
  <2> QED
    BY <1>2, <1>4, <2>2, <2>3 DEF TBInv, AssignBurst
<1>5. CASE Tick
  <2>1. now < MaxTime /\ now' = now + 1
        /\ UNCHANGED <<mTime, perToken, perBurst, assigning, assigns, pc, c, hist>>
    BY <1>5 DEF Tick
  <2>2. StoreInv' /\ BucketTypeOK'
    BY <1>1, <2>1 DEF TBInv, StoreInv, BucketTypeOK
  <2>3. GrantsArePaid' /\ WindowIsPaid'
    BY <2>1, Zenon DEF TBInv, GrantsArePaid, WindowIsPaid, LongUp
  <2> QED
    BY <1>2, <2>1, <2>2, <2>3 DEF TBInv
<1>6. CASE Watch
  <2>1. /\ hist'.start = hist.start /\ hist'.granted = hist.granted
        /\ hist'.win.from = now /\ hist'.win.sum = 0
    BY <1>6 DEF Watch
  <2>2. hist'.win.counting = FALSE
    BY <1>6, Zenon DEF Watch
  <2>3. UNCHANGED <<now, mTime, perToken, perBurst, assigning, assigns, pc, c>>
    BY <1>6 DEF Watch
  <2>4. StoreInv' /\ BucketTypeOK'
    BY <1>1, <2>1, <2>3 DEF TBInv, StoreInv, BucketTypeOK
  <2>5. GrantsArePaid'
    BY <2>1, <2>3, Zenon DEF TBInv, GrantsArePaid, LongUp
  <2>6. WindowIsPaid'
    BY <2>1, <2>2, Zenon DEF WindowIsPaid
  <2> QED
    BY <1>2, <2>1, <2>3, <2>4, <2>5, <2>6 DEF TBInv
<1> QED
  BY <1>3, <1>4, <1>5, <1>6

\* The invariant is inductive.
LEMMA TBInvStep == TBInv /\ [Next]_vars => TBInv'
<1> SUFFICES ASSUME TBInv, [Next]_vars PROVE TBInv'
  OBVIOUS
<1>1. CASE Next
  BY <1>1, ConsumeKeeps, ExchangeKeeps, OthersKeep DEF Next, ConsumeStep
<1>2. CASE UNCHANGED vars
  <2>1. UNCHANGED <<now, mTime, perToken, perBurst, assigning, assigns, pc, c, hist>>
    BY <1>2 DEF vars
  <2> QED
    BY <2>1, Zenon DEF TBInv, BucketTypeOK, StoreInv, CallInv, GrantsArePaid,
                       WindowIsPaid, LongUp
<1> QED
  BY <1>1, <1>2

\* m_time is never ahead of the clock and every local variable is a
\* word, whether min_time wraps or not.
THEOREM TypeCorrect == Spec => []BucketTypeOK
<1>1. TBInv => BucketTypeOK
  BY DEF TBInv
<1> QED
  BY TBInvInit, TBInvStep, <1>1, PTL DEF Spec

\* However the exchanges of the threads interleave, and also when one fails for no
\* reason, no grant is lost.
THEOREM NoGrantIsLost == Spec => []GrantsArePaid
<1>1. TBInv => GrantsArePaid
  BY DEF TBInv
<1> QED
  BY TBInvInit, TBInvStep, <1>1, PTL DEF Spec

\* In every window the threads together get no more than a burst and the time that
\* has passed.
THEOREM BurstIsKept == Spec => []WithinBurst
<1>1. TBInv => WithinBurst
  <2> SUFFICES ASSUME TBInv, LongUp
               PROVE  \E b \in Bursts : hist.win.sum <= b + now - hist.win.from
    BY DEF WithinBurst
  <2>1. /\ now \in Nat /\ mTime \in 0 .. now /\ perBurst \in Bursts
        /\ hist.win.from \in 0 .. now /\ hist.win.sum \in Nat
    BY BucketAssumption DEF TBInv, BucketTypeOK, StoreInv
  <2>2. CASE hist.win.counting
    <3>1. PICK b \in Bursts : hist.win.sum + hist.win.from <= mTime + b
      BY <2>2 DEF TBInv, WindowIsPaid
    <3>2. b \in Nat
      BY Prices
    <3>3. hist.win.sum <= b + now - hist.win.from
      BY <2>1, <3>1, <3>2
    <3> QED
      BY <3>3
  <2>3. CASE ~hist.win.counting
    <3>1. hist.win.sum = 0
      BY <2>3 DEF TBInv, WindowIsPaid
    <3>2. perBurst \in Nat
      BY <2>1, Prices
    <3>3. hist.win.sum <= perBurst + now - hist.win.from
      BY <2>1, <3>1, <3>2
    <3> QED
      BY <2>1, <3>3
  <2> QED
    BY <2>2, <2>3
<1> QED
  BY TBInvInit, TBInvStep, <1>1, PTL DEF Spec

=============================================================================
