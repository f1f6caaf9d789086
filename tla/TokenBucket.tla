----------------------------- MODULE TokenBucket -----------------------------
(***************************************************************************)
(* token_bucket: a bucket without a lock.  Its whole state is one atomic   *)
(* time, m_time: a token costs m_time_per_token of it, and what lies more  *)
(* than m_time_per_burst behind the clock is forfeited.                    *)
(*                                                                         *)
(* consume() reads the steady clock once, clamps the time to the burst     *)
(* once, and then tries a compare_exchange_weak until it succeeds or the   *)
(* clock reading does not allow the new time.  After a failed exchange it  *)
(* goes on from the time it met, WITHOUT clamping it again, and a weak     *)
(* exchange may fail although nobody has interfered.                       *)
(*                                                                         *)
(* The module is at the grain of the atomic operations.  All times are     *)
(* words of Word values; the clock, which starts when the machine is       *)
(* booted, may still be smaller than the burst, and now - m_time_per_burst *)
(* then wraps.  operator= stores the two parameters one after the other.   *)
(***************************************************************************)
EXTENDS Naturals

CONSTANTS
  Threads,      \* the callers of consume
  Second,       \* 1000000: microseconds in a second
  Limits,       \* the <<rate, burst_size>> of the bucket and of those assigned to it
  Amounts,      \* the numbers of tokens asked for
  Starts,       \* where the steady clock may be when the bucket is made
  MaxTime,      \* bound: the clock stops there
  MaxAssigns,   \* bound: assignments to the bucket
  Word          \* number of values of a uint64_t

PerToken(limit) == Second \div limit[1]
PerBurst(limit) == limit[2] * PerToken(limit)

ASSUME BucketAssumption ==
  /\ Limits \subseteq (Nat \ {0}) \X Nat
  /\ Amounts \subseteq Nat
  /\ Second \in Nat /\ MaxTime \in Nat /\ MaxAssigns \in Nat
  /\ Starts \subseteq 0 .. MaxTime
  /\ \A l \in Limits : PerToken(l) > 0
  /\ Word \in Nat /\ Word > MaxTime
  /\ \A l \in Limits, n \in Amounts :
       Word > PerBurst(l) + n * PerToken(l) + MaxTime

VARIABLES
  now,         \* the steady clock
  mTime,       \* m_time
  perToken,    \* m_time_per_token
  perBurst,    \* m_time_per_burst
  assigning,   \* what operator= has still to store: <<>> or <<per_burst>>
  assigns,     \* number of assignments
  pc,          \* where each thread is in consume()
  c,           \* its local variables
  hist         \* history: when the bucket was made, time granted, and an
               \* observer's window (see WithinBurst)

vars == <<now, mTime, perToken, perBurst, assigning, assigns, pc, c, hist>>

Bursts == {PerBurst(l) : l \in Limits}

\* The bucket was made when the machine had been up for longer than a burst.
LongUp == \A b \in Bursts : hist.start >= b

\* Arithmetic of uint64_t.
Plus(x, y) == (x + y) % Word

Minus(x, y) == (x + Word - y) % Word

\* now, the cost of the tokens, m_time_per_burst, old_time and new_time of a call,
\* and whether its exchange has failed.
Locals(clock, need, burst, old, new, retried) ==
  [now |-> clock, need |-> need, burst |-> burst, old |-> old, new |-> new,
   retried |-> retried]

NoCall == Locals(0, 0, 0, 0, 0, FALSE)

Init ==
  /\ now \in Starts
  /\ mTime = 0
  /\ \E l \in Limits : perToken = PerToken(l) /\ perBurst = PerBurst(l)
  /\ assigning = <<>> /\ assigns = 0
  /\ pc = [t \in Threads |-> "idle"]
  /\ c = [t \in Threads |-> NoCall]
  /\ hist = [start |-> now, granted |-> 0,
             win |-> [open |-> FALSE, from |-> 0, counting |-> FALSE, sum |-> 0]]

-----------------------------------------------------------------------------
(***************************************************************************)
(* consume()                                                               *)
(***************************************************************************)

At(t, place) == pc[t] = place

Local(t, place, locals) ==
  pc' = [pc EXCEPT ![t] = place] /\ c' = [c EXCEPT ![t] = locals]

\* Read the clock; the cost is still a number of tokens.
Call(t, tokens) ==
  /\ At(t, "idle")
  /\ Local(t, "token", Locals(now, tokens, 0, 0, 0, FALSE))
  /\ UNCHANGED <<now, mTime, perToken, perBurst, assigning, assigns, hist>>

\* Read m_time_per_token.
LoadToken(t) ==
  /\ At(t, "token")
  /\ Local(t, "burst", Locals(c[t].now, c[t].need * perToken, 0, 0, 0, FALSE))
  /\ UNCHANGED <<now, mTime, perToken, perBurst, assigning, assigns, hist>>

\* Read m_time_per_burst.
LoadBurst(t) ==
  /\ At(t, "burst")
  /\ Local(t, "time", Locals(c[t].now, c[t].need, perBurst, 0, 0, FALSE))
  /\ UNCHANGED <<now, mTime, perToken, perBurst, assigning, assigns, hist>>

\* Mutant of Clamped: idle time is saved up without a limit.
NotClamped(t, old) == old

\* The larger of min_time and the time read.
Clamped(t, old) ==
  LET min == Minus(c[t].now, c[t].burst) IN IF min > old THEN min ELSE old

\* Read m_time and clamp it.
LoadTime(t) ==
  /\ At(t, "time")
  /\ Local(t, "try", Locals(c[t].now, c[t].need, c[t].burst,
                            mTime, Clamped(t, mTime), FALSE))
  /\ UNCHANGED <<now, mTime, perToken, perBurst, assigning, assigns, hist>>

NewTime(t) == Plus(c[t].new, c[t].need)

\* Mutant of Allowed: the cost is added after the comparison.
AllowedBefore(t) == c[t].new <= c[t].now

\* The clock reading allows the new time.
Allowed(t) == NewTime(t) <= c[t].now

\* new_time > now: return false.
Denied(t) ==
  /\ At(t, "try") /\ ~Allowed(t)
  /\ Local(t, "idle", NoCall)
  /\ UNCHANGED <<now, mTime, perToken, perBurst, assigning, assigns, hist>>

\* Mutant of Unchanged: a store in place of the exchange.
AnyTime(t) == TRUE

\* What the exchange compares.
Unchanged(t) == mTime = c[t].old

\* A call that is held to the burst of the window: it has read the clock in it,
\* and its first exchange succeeds.
Clean(t) == hist.win.open /\ c[t].now >= hist.win.from /\ ~c[t].retried

\* What the observer notes of a grant.
Granted(t) ==
  LET on == hist.win.counting \/ Clean(t)
  IN  [start |-> hist.start,
       granted |-> hist.granted + c[t].need,
       win |-> [open |-> hist.win.open, from |-> hist.win.from, counting |-> on,
                sum |-> hist.win.sum + (IF on THEN c[t].need ELSE 0)]]

\* The exchange succeeds: return true.
Exchanged(t) ==
  /\ At(t, "try") /\ Allowed(t)
  /\ Unchanged(t)
  /\ mTime' = NewTime(t)
  /\ hist' = IF LongUp THEN Granted(t) ELSE hist
  /\ Local(t, "idle", NoCall)
  /\ UNCHANGED <<now, perToken, perBurst, assigning, assigns>>

\* Mutant of Met: the failed exchange does not hand over the time it met.
NotMet(t) == c[t].old

\* The time that a failed exchange has stored into old_time.
Met(t) == mTime

\* The exchange fails, for the reason that m_time has changed or for none.
NotExchanged(t) ==
  /\ At(t, "try") /\ Allowed(t)
  /\ Local(t, "try", Locals(c[t].now, c[t].need, c[t].burst,
                            Met(t), Met(t), TRUE))
  /\ UNCHANGED <<now, mTime, perToken, perBurst, assigning, assigns, hist>>

-----------------------------------------------------------------------------

\* operator=: the two stores.  m_time stays.
AssignToken(l) ==
  /\ assigning = <<>> /\ assigns < MaxAssigns
  /\ perToken' = PerToken(l)
  /\ assigning' = <<PerBurst(l)>>
  /\ assigns' = assigns + 1
  /\ UNCHANGED <<now, mTime, perBurst, pc, c, hist>>

AssignBurst ==
  /\ assigning # <<>>
  /\ perBurst' = assigning[1]
  /\ assigning' = <<>>
  /\ UNCHANGED <<now, mTime, perToken, assigns, pc, c, hist>>

\* The steady clock.
Tick ==
  /\ now < MaxTime
  /\ now' = now + 1
  /\ UNCHANGED <<mTime, perToken, perBurst, assigning, assigns, pc, c, hist>>

\* The observer opens its window, at any moment.
Watch ==
  /\ ~hist.win.open
  /\ hist' = [start |-> hist.start, granted |-> hist.granted,
               win |-> [open |-> TRUE, from |-> now, counting |-> FALSE, sum |-> 0]]
  /\ UNCHANGED <<now, mTime, perToken, perBurst, assigning, assigns, pc, c>>

ConsumeStep(t) ==
  \/ LoadToken(t) \/ LoadBurst(t) \/ LoadTime(t)
  \/ Denied(t) \/ Exchanged(t) \/ NotExchanged(t)

Next ==
  \/ \E t \in Threads :
       (\E n \in Amounts : Call(t, n)) \/ ConsumeStep(t)
  \/ (\E l \in Limits : AssignToken(l)) \/ AssignBurst
  \/ Tick \/ Watch

\* The threads are scheduled, and a weak exchange that could succeed again and
\* again does not fail for ever.
Spec ==
  /\ Init /\ [][Next]_vars
  /\ \A t \in Threads : WF_vars(ConsumeStep(t)) /\ SF_vars(Exchanged(t))

-----------------------------------------------------------------------------
(***************************************************************************)
(* Properties.  They are about a machine that has been up for longer than  *)
(* a burst when the bucket is made: before, min_time wraps, and a call for *)
(* the whole burst sets m_time BACK and is granted every time.             *)
(***************************************************************************)

\* The variables keep their types, and m_time is never ahead of the clock, not
\* even where min_time wraps.
BucketTypeOK ==
  /\ now \in 0 .. MaxTime /\ mTime \in 0 .. now
  /\ perToken \in Nat \ {0} /\ perBurst \in Bursts
  /\ pc \in [Threads -> {"idle", "token", "burst", "time", "try"}]
  /\ \A t \in Threads :
       /\ c[t].now \in 0 .. now /\ c[t].need \in Nat /\ c[t].retried \in BOOLEAN
       /\ c[t].old \in 0 .. Word - 1 /\ c[t].new \in 0 .. Word - 1

\* No grant is lost: what the calls of all threads have been granted has been
\* paid for with m_time, so that it never exceeds what the clock has given.
GrantsArePaid == LongUp => hist.granted <= mTime

\* The bucket limits the rate: from the first grant in a window to a call that
\* read the clock there and did not have to repeat its exchange, the calls of all
\* threads are granted no more than a burst and the time since the window opened.
\* Grants to calls that were under way, or that had to repeat the exchange, are
\* not held to it before: these take up m_time unclamped.
WithinBurst ==
  LongUp => \E b \in Bursts : hist.win.sum <= b + now - hist.win.from

\* Every call returns: each time an exchange fails because of another thread
\* m_time has come closer to the clock reading that limits it.
EveryCallReturns ==
  \A t \in Threads : LongUp /\ pc[t] # "idle" ~> pc[t] = "idle"

=============================================================================
