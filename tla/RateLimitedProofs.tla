-------------------------- MODULE RateLimitedProofs --------------------------
(***************************************************************************)
(* Theorems about run_rate_limited, for every number of operations and of  *)
(* errors that are put up with: what the receiver of a phase counts, and   *)
(* that the queue of futures between the two threads is a Fifo.            *)
(***************************************************************************)
EXTENDS RateLimited, SequenceTheorems, TLAPS

Requests == {"warm", "measured"} \X Nat

PlacesOf(t) ==
  IF t = "send" THEN {"head", "acquire", "notify", "measure", "over"}
                ELSE {"head", "pop", "wait", "get", "measure", "over"}

Body == {"acquire", "notify", "pop", "wait", "get"}

\* The variables keep their types.
RLTypeOK ==
  /\ phase \in Phases \union {"signal", "reset", "finish"} \union Ended
  /\ DOMAIN pc = Threads /\ \A t \in Threads : pc[t] \in PlacesOf(t)
  /\ loop \in [Threads -> {"warm", "measured"}]
  /\ i \in [Threads -> Nat] /\ err \in [Threads -> Nat]
  /\ key \in Nat
  /\ futures \in [Phases -> Seq(Requests)]
  /\ interval \in [Threads -> Nat] /\ total \in [Threads -> Nat]
  /\ hist.lost \in Nat /\ hist.cut \subseteq Threads

\* The operations that a thread has behind it in its loop: --i in the handler is
\* made good by the ++i at the end of the body.
Done(t) == IF pc[t] = "measure" THEN Inc(i[t]) ELSE i[t]

\* ... and in the loops before.
Before(t) == IF WarmUp /\ loop[t] = "measured" THEN WarmUpOps ELSE 0

\* Futures pushed and futures taken, had no loop been cut short by time.
Sent == Before("send") + Done("send") + (IF pc["send"] = "notify" THEN 1 ELSE 0)
Taken == Before("recv") + Done("recv") + hist.lost
         + (IF pc["recv"] = "get" THEN 1 ELSE 0)

\* A thread in its loops: a body is entered below the count only, time cuts both
\* loops of a thread once it cuts one, and what is counted is what is done.
LoopInv(t) ==
  /\ pc[t] \in Body => i[t] < Count(loop[t])
  /\ Done(t) <= Count(loop[t])
  /\ pc[t] = "over" => loop[t] = "measured" /\ (t \notin hist.cut => i[t] = NumOps)
  /\ ~WarmUp => loop[t] = "measured"
  /\ t \in hist.cut => expired /\ pc[t] \in {"head", "over"}
  /\ err[t] <= ErrorMax
  /\ (IF pc[t] = "over" THEN total[t] ELSE total[t] + interval[t]) =
       (IF loop[t] = "measured" THEN Done(t) ELSE 0)

\* The balance of a phase: what was taken and what is in the queue was sent, and
\* the requests of the warm-up are the first ones.  A receiver whose warm-up was
\* cut takes nothing any more.
Balance ==
  "recv" \notin hist.cut \/ i["recv"] > 0 =>
    /\ Taken + Len(futures[phase]) <= Sent
    /\ \A p \in 1 .. Len(futures[phase]) :
         futures[phase][p][1] = "warm" => WarmUp /\ Taken + p <= WarmUpOps

\* Each request of the phase has used up a key, and so has each error.
KeyInv == key <= Sent + err["send"]

\* The queue of a phase is empty before it.
QueuesInv ==
  /\ phase = "signal" => futures["write"] = <<>> /\ key = 0
  /\ phase \in {"signal", "write", "reset"} => futures["read"] = <<>>

\* The inductive invariant.
RLInv ==
  /\ RLTypeOK
  /\ QueuesInv
  /\ phase \in Phases => /\ \A t \in Threads : LoopInv(t)
                         /\ Balance /\ KeyInv
                         /\ MeasuredOnly

-----------------------------------------------------------------------------
(***************************************************************************)
(* Arithmetic, and steps that leave a part alone.                          *)
(***************************************************************************)

\* The warm-up is not longer than the run, and no count is larger than a size_t.
LEMMA Counts ==
  /\ WarmUpOps \in Nat /\ WarmUpOps <= NumOps
  /\ NumOps \in Nat /\ ErrorMax \in Nat /\ SizeMax \in Nat /\ NumOps <= SizeMax
  /\ \A l : Count(l) \in Nat /\ Count(l) <= NumOps
<1>1. \A a \in Nat, b \in Nat \ {0} : a \div b \in Int /\ a \div b >= 0 /\ a \div b <= a
  BY SMTT(30)
<1>2. WarmUpOps \in Nat /\ WarmUpOps <= NumOps
  BY <1>1, RateLimitedAssumption DEF WarmUpOps
<1> QED
  BY <1>2, RateLimitedAssumption DEF Count

\* --i and then ++i is i again, at 0 too; ++i below a count does not wrap.
LEMMA Steps ==
  /\ \A k \in Nat : k < NumOps => /\ Inc(k) = k + 1
                                 /\ Dec(k) \in Nat /\ Inc(Dec(k)) = k
  /\ \A k \in Nat : Inc(k) \in Nat
  BY Counts DEF Inc, Dec

\* Everything that is added up is a natural.
LEMMA Sums ==
  ASSUME RLTypeOK
  PROVE  /\ \A t \in Threads : Done(t) \in Nat /\ Before(t) \in Nat
         /\ Sent \in Nat /\ Taken \in Nat
         /\ "send" \in Threads /\ "recv" \in Threads
<1>1. "send" \in Threads /\ "recv" \in Threads
  BY DEF Threads
<1>2. \A t \in Threads : Done(t) \in Nat /\ Before(t) \in Nat
  BY Steps, Counts DEF RLTypeOK, Done, Before
<1>3. Done("send") \in Nat /\ Before("send") \in Nat
      /\ Done("recv") \in Nat /\ Before("recv") \in Nat /\ hist.lost \in Nat
  BY <1>1, <1>2 DEF RLTypeOK
<1> QED
  BY <1>1, <1>2, <1>3 DEF Sent, Taken

\* A thread that takes no step keeps its part of the invariant.
LEMMA OtherKeeps ==
  ASSUME NEW u \in Threads, LoopInv(u),
         pc'[u] = pc[u], loop'[u] = loop[u], i'[u] = i[u], err'[u] = err[u],
         interval'[u] = interval[u], total'[u] = total[u],
         u \in hist'.cut => u \in hist.cut, u \in hist.cut => u \in hist'.cut,
         expired => expired'
  PROVE  LoopInv(u)'
<1>1. Done(u)' = Done(u)
  BY DEF Done
<1> QED
  BY <1>1 DEF LoopInv

\* The balance is kept where neither queue nor receiver moves and nothing that was
\* sent is forgotten.
LEMMA BalanceKept ==
  ASSUME RLTypeOK, phase \in Phases, Balance, phase' = phase,
         futures'[phase] = futures[phase], Taken' = Taken,
         Sent' \in Nat, Sent <= Sent',
         "recv" \notin hist'.cut \/ i'["recv"] > 0 =>
           "recv" \notin hist.cut \/ i["recv"] > 0
  PROVE  Balance'
<1>1. Len(futures[phase]) \in Nat
  BY DEF RLTypeOK
<1>2. Taken \in Nat /\ Sent \in Nat
  BY Sums
<1> QED
  BY <1>1, <1>2 DEF Balance

\* The receiver's part of the sums only depends on the receiver, and likewise.
LEMMA SumsApart ==
  /\ /\ pc'["recv"] = pc["recv"] /\ i'["recv"] = i["recv"]
     /\ loop'["recv"] = loop["recv"] /\ hist'.lost = hist.lost
     => Taken' = Taken
  /\ /\ pc'["send"] = pc["send"] /\ i'["send"] = i["send"]
     /\ loop'["send"] = loop["send"]
     => Sent' = Sent
  BY DEF Taken, Sent, Done, Before

-----------------------------------------------------------------------------
(***************************************************************************)
(* The main thread.                                                        *)
(***************************************************************************)

\* The invariant holds before the signal.
LEMMA RLInvInit == Init => RLInv
<1> SUFFICES ASSUME Init PROVE RLInv
  OBVIOUS
<1>1. RLTypeOK
  BY DEF Init, RLTypeOK, Each, Threads, Phases, PlacesOf
<1>2. QueuesInv /\ phase \notin Phases
  BY DEF Init, QueuesInv, Phases
<1> QED
  BY <1>1, <1>2 DEF RLInv

\* A phase that starts with an empty queue and an unused key generator.
LEMMA StartKeeps ==
  ASSUME RLInv, NEW o \in Phases, StartPhase(o), UNCHANGED <<futures, expired>>,
         futures[o] = <<>>, key' = 0, o = "write" => futures["read"] = <<>>
  PROVE  RLInv'
<1>1. /\ phase' = o /\ pc' = Each("head") /\ loop' = [t \in Threads |-> FirstLoop(t)]
      /\ i' = Each(0) /\ err' = Each(0) /\ interval' = Each(0) /\ total' = Each(0)
      /\ hist'.lost = 0 /\ hist'.cut = {}
  BY DEF StartPhase
<1>2. RLTypeOK'
  BY <1>1 DEF RLInv, RLTypeOK, Each, Threads, PlacesOf, FirstLoop
<1>3. QueuesInv'
  BY <1>1 DEF QueuesInv, Phases
<1>4. ASSUME NEW t \in Threads
      PROVE  /\ LoopInv(t)' /\ Done(t)' = 0 /\ Before(t)' = 0
  <2>1. /\ pc'[t] = "head" /\ i'[t] = 0 /\ err'[t] = 0 /\ interval'[t] = 0
        /\ total'[t] = 0 /\ loop'[t] = IF WarmUp THEN "warm" ELSE "measured"
    BY <1>1 DEF Each, FirstLoop
  <2>2. Done(t)' = 0 /\ Before(t)' = 0
    BY <2>1 DEF Done, Before
  <2>3. /\ Count(loop[t])' \in Nat /\ ErrorMax \in Nat
    BY Counts DEF Count
  <2> QED
    BY <1>1, <2>1, <2>2, <2>3 DEF LoopInv, Body
<1>5. Sent' = 0 /\ Taken' = 0
  <2>1. pc'["send"] = "head" /\ pc'["recv"] = "head" /\ "send" \in Threads
        /\ "recv" \in Threads
    BY <1>1 DEF Each, Threads
  <2> QED
    BY <1>1, <1>4, <2>1 DEF Sent, Taken
<1>6. Balance' /\ KeyInv' /\ MeasuredOnly'
  <2>1. Len(futures'[phase']) = 0
    BY <1>1
  <2>2. pc'["recv"] = "head" /\ err'["send"] = 0
    BY <1>1 DEF Each, Threads
  <2> QED
    BY <1>5, <2>1, <2>2 DEF Balance, KeyInv, MeasuredOnly
<1> QED
  BY <1>2, <1>3, <1>4, <1>6 DEF RLInv

\* Leaving the phases.
LEMMA GoToKeeps ==
  ASSUME RLInv, NEW place \in {"reset", "finish"} \union Ended, GoTo(place),
         UNCHANGED futures, key' \in Nat,
         place = "reset" => phase \in {"signal", "write"}
  PROVE  RLInv'
<1>1. phase' = place /\ UNCHANGED <<pc, loop, i, err, interval, total, hist>>
  BY DEF GoTo
<1>2. RLTypeOK'
  BY <1>1 DEF RLInv, RLTypeOK
<1>3. QueuesInv' /\ phase' \notin Phases
  BY <1>1 DEF RLInv, QueuesInv, Ended, Phases
<1> QED
  BY <1>2, <1>3 DEF RLInv

\* The steps of the main thread outside of the loops, and the end of the process.
LEMMA MainKeeps ==
  ASSUME RLInv, Signal \/ Join \/ Reset \/ Finish \/ Killed
  PROVE  RLInv'
<1>1. key \in Nat
  BY DEF RLInv, RLTypeOK
<1>2. CASE Signal
  <2>1. CASE StartPhase("write")
    BY <1>2, <2>1, StartKeeps DEF Signal, RLInv, QueuesInv, Phases
  <2>2. CASE GoTo("reset") \/ GoTo("aborted")
    BY <1>1, <1>2, <2>2, GoToKeeps DEF Signal, Ended
  <2> QED
    BY <1>2, <2>1, <2>2 DEF Signal
<1>3. CASE Join
  <2>1. CASE phase = "write"
    BY <1>1, <1>3, <2>1, GoToKeeps DEF Join, Phases
  <2>2. CASE phase = "read"
    BY <1>1, <1>3, <2>2, GoToKeeps DEF Join, Phases
  <2> QED
    BY <1>3, <2>1, <2>2 DEF Join, Phases
<1>4. CASE Reset
  <2>1. CASE StartPhase("read")
    BY <1>4, <2>1, StartKeeps DEF Reset, RLInv, QueuesInv, Phases
  <2>2. CASE GoTo("finish")
    BY <1>4, <2>2, GoToKeeps DEF Reset
  <2> QED
    BY <1>4, <2>1, <2>2 DEF Reset
<1>5. CASE Finish
  BY <1>1, <1>5, GoToKeeps DEF Finish, Ended
<1>6. CASE Killed
  BY <1>1, <1>6, GoToKeeps DEF Killed, Ended
<1> QED
  BY <1>2, <1>3, <1>4, <1>5, <1>6

\* The time bound passes.
LEMMA ExpireKeeps ==
  ASSUME RLInv, Expire
  PROVE  RLInv'
<1>1. UNCHANGED <<phase, pc, loop, i, err, key, futures, got, interval, total, hist>>
      /\ expired'
  BY DEF Expire
<1>2. RLTypeOK' /\ QueuesInv'
  BY <1>1 DEF RLInv, RLTypeOK, QueuesInv
<1>3. ASSUME phase \in Phases, NEW t \in Threads PROVE LoopInv(t)'
  BY <1>1, <1>3, OtherKeeps DEF RLInv
<1>4. phase \in Phases => Balance' /\ KeyInv' /\ MeasuredOnly'
  BY <1>1, SumsApart DEF RLInv, Balance, KeyInv, MeasuredOnly
<1> QED
  BY <1>1, <1>2, <1>3, <1>4 DEF RLInv

-----------------------------------------------------------------------------
(***************************************************************************)
(* The loops.                                                              *)
(***************************************************************************)

\* A step of one thread within a phase: what is left to show of it.
LEMMA ThreadStep ==
  ASSUME RLInv, phase \in Phases, phase' = phase, NEW t \in Threads,
         \A u \in Threads \ {t} :
           /\ pc'[u] = pc[u] /\ loop'[u] = loop[u] /\ i'[u] = i[u] /\ err'[u] = err[u]
           /\ interval'[u] = interval[u] /\ total'[u] = total[u]
           /\ u \in hist'.cut <=> u \in hist.cut,
         expired' <=> expired,
         RLTypeOK', LoopInv(t)', Balance', KeyInv', MeasuredOnly',
         \A o \in Phases \ {phase} : futures'[o] = futures[o]
  PROVE  RLInv'
<1>1. \A u \in Threads \ {t} : LoopInv(u)'
  BY OtherKeeps DEF RLInv
<1>2. QueuesInv'
  BY DEF RLInv, QueuesInv, Phases
<1> QED
  BY <1>1, <1>2 DEF RLInv

\* i < count at the head of a loop.
LEMMA EnterBodyKeeps ==
  ASSUME RLInv, NEW t \in Threads, EnterBody(t)
  PROVE  RLInv'
<1> DEFINE place == IF t = "send" THEN "acquire" ELSE "pop"
<1>1. /\ phase \in Phases /\ pc[t] = "head" /\ i[t] < Count(loop[t]) /\ ~expired
      /\ pc' = [pc EXCEPT ![t] = place]
      /\ UNCHANGED <<phase, loop, i, err, key, futures, got, interval, total, expired,
                     hist>>
  BY DEF EnterBody, At, LoopCondition, Move
<1>2. place \in PlacesOf(t) /\ place \in Body
  BY DEF PlacesOf, Body
<1>3. place # "measure" /\ place # "over" /\ place # "notify" /\ place # "get"
  OBVIOUS
<1> HIDE DEF place
<1>4. pc'[t] = place /\ \A u \in Threads \ {t} : pc'[u] = pc[u]
  BY <1>1 DEF RLInv, RLTypeOK
<1>5. RLTypeOK'
  BY <1>1, <1>2, <1>4 DEF RLInv, RLTypeOK
<1>6. LoopInv(t)'
  <2>1. Done(t)' = Done(t)
    BY <1>1, <1>3, <1>4 DEF Done
  <2> QED
    BY <1>1, <1>3, <1>4, <2>1 DEF RLInv, LoopInv
<1>7. Taken' = Taken /\ Sent' = Sent
  BY <1>1, <1>3, <1>4 DEF Taken, Sent, Done, Before, Threads
<1>8. Balance' /\ KeyInv'
  BY <1>1, <1>7, BalanceKept, Sums DEF RLInv, KeyInv
<1>9. MeasuredOnly'
  BY <1>1, <1>3, <1>4 DEF RLInv, MeasuredOnly, Threads
<1> QED
  BY <1>1, <1>4, <1>5, <1>6, <1>8, <1>9, ThreadStep

\* The end of a loop.
LEMMA LoopEndsKeeps ==
  ASSUME RLInv, NEW t \in Threads, LoopEnds(t)
  PROVE  RLInv'
<1>1. /\ phase \in Phases /\ pc[t] = "head" /\ ~(i[t] < Count(loop[t]) /\ ~expired)
      /\ UNCHANGED <<phase, err, key, futures, got, interval, expired>>
      /\ hist'.lost = hist.lost
      /\ hist'.cut = IF i[t] < Count(loop[t]) THEN hist.cut \union {t} ELSE hist.cut
  BY DEF LoopEnds, At, LoopCondition
<1>2. /\ i[t] \in Nat /\ total[t] \in Nat /\ interval[t] \in Nat /\ Count(loop[t]) \in Nat
      /\ loop[t] \in {"warm", "measured"} /\ WarmUpOps \in Nat /\ hist.lost \in Nat
  BY Counts DEF RLInv, RLTypeOK
<1>3. LoopInv(t) /\ i[t] <= Count(loop[t])
  BY <1>1 DEF RLInv, LoopInv, Done
<1>4. CASE loop[t] = "warm"
  <2>1. /\ loop' = [loop EXCEPT ![t] = "measured"] /\ i' = [i EXCEPT ![t] = 0]
        /\ UNCHANGED <<pc, total>>
    BY <1>4 DEF LoopEnds
  <2>2. /\ loop'[t] = "measured" /\ i'[t] = 0
        /\ \A u \in Threads \ {t} : loop'[u] = loop[u] /\ i'[u] = i[u]
    BY <2>1 DEF RLInv, RLTypeOK
  <2>3. WarmUp /\ Count(loop[t]) = WarmUpOps
    BY <1>3, <1>4 DEF LoopInv, Count
  <2>4. RLTypeOK'
    BY <1>1, <2>1 DEF RLInv, RLTypeOK
  <2>5. LoopInv(t)'
    <3>1. Done(t)' = 0 /\ Count(loop[t])' \in Nat
      BY <1>1, <2>1, <2>2, Counts DEF Done, Count
    <3>2. total'[t] + interval'[t] = 0
      BY <1>1, <1>3, <1>4, <2>1 DEF LoopInv
    <3>3. t \in hist'.cut => expired' /\ pc'[t] = "head"
      BY <1>1, <1>3, <2>1 DEF LoopInv
    <3> QED
      BY <1>1, <1>3, <2>1, <2>2, <3>1, <3>2, <3>3 DEF LoopInv, Body
  <2>6. CASE t = "send"
    <3>1. Taken' = Taken
      BY <1>1, <2>1, <2>2, <2>6, SumsApart DEF Threads
    <3>2. Sent = i["send"] /\ Sent' = WarmUpOps
      BY <1>1, <1>2, <1>4, <2>1, <2>2, <2>3, <2>6 DEF Sent, Before, Done
    <3>3. Sent' \in Nat /\ Sent <= Sent'
      BY <1>2, <1>3, <2>3, <2>6, <3>2
    <3>4. Balance'
      BY <1>1, <2>2, <2>6, <3>1, <3>3, BalanceKept DEF RLInv, Threads
    <3>5. KeyInv'
      <4>1. Sent \in Nat /\ key \in Nat /\ err["send"] \in Nat
        BY <2>6, Sums DEF RLInv, RLTypeOK
      <4>2. key <= Sent + err["send"] /\ key' = key /\ err' = err
        BY <1>1 DEF RLInv, KeyInv
      <4> QED
        BY <3>3, <4>1, <4>2 DEF KeyInv
    <3>6. MeasuredOnly'
      BY <1>1, <2>1, <2>2, <2>6 DEF RLInv, MeasuredOnly, Threads
    <3> QED
      BY <1>1, <2>1, <2>2, <2>4, <2>5, <2>6, <3>4, <3>5, <3>6, ThreadStep
  <2>7. CASE t = "recv"
    <3>1. Sent' = Sent
      BY <1>1, <2>1, <2>2, <2>7, SumsApart DEF Threads
    <3>2. Taken = i["recv"] + hist.lost /\ Taken' = WarmUpOps + hist.lost
      BY <1>1, <1>2, <1>4, <2>1, <2>2, <2>3, <2>7 DEF Taken, Before, Done
    <3>3. Balance'
      <4>1. CASE i["recv"] < Count(loop["recv"])
        BY <1>1, <2>2, <2>7, <4>1 DEF Balance
      <4>2. CASE ~(i["recv"] < Count(loop["recv"]))
        <5>1. Taken' = Taken /\ hist'.cut = hist.cut
          BY <1>1, <1>2, <1>3, <2>3, <2>7, <3>2, <4>2
        <5>2. "recv" \notin hist'.cut \/ i'["recv"] > 0 => "recv" \notin hist.cut
          BY <2>2, <2>7, <5>1
        <5> QED
          BY <1>1, <3>1, <5>1, <5>2, BalanceKept, Sums DEF RLInv
      <4> QED
        BY <4>1, <4>2
    <3>4. KeyInv'
      BY <1>1, <3>1 DEF RLInv, KeyInv
    <3>5. MeasuredOnly'
      BY <1>1, <2>1, <2>7 DEF MeasuredOnly
    <3> QED
      BY <1>1, <2>1, <2>2, <2>4, <2>5, <2>7, <3>3, <3>4, <3>5, ThreadStep
  <2> QED
    BY <2>6, <2>7 DEF Threads
<1>5. CASE loop[t] # "warm"
  <2>1. /\ pc' = [pc EXCEPT ![t] = "over"]
        /\ total' = [total EXCEPT ![t] = @ + interval[t]] /\ UNCHANGED <<loop, i>>
    BY <1>5 DEF LoopEnds, Move
  <2>2. /\ pc'[t] = "over" /\ total'[t] = total[t] + interval[t]
        /\ \A u \in Threads \ {t} : pc'[u] = pc[u] /\ total'[u] = total[u]
    BY <2>1 DEF RLInv, RLTypeOK
  <2>3. RLTypeOK'
    <3>1. total' \in [Threads -> Nat] /\ DOMAIN pc' = Threads
      BY <2>1 DEF RLInv, RLTypeOK
    <3>2. \A u \in Threads : pc'[u] \in PlacesOf(u)
      BY <2>2 DEF RLInv, RLTypeOK, PlacesOf
    <3>3. hist'.lost \in Nat /\ hist'.cut \subseteq Threads
      BY <1>1 DEF RLInv, RLTypeOK
    <3> QED
      BY <1>1, <2>1, <3>1, <3>2, <3>3 DEF RLInv, RLTypeOK
  <2>4. LoopInv(t)'
    <3>1. Done(t)' = Done(t) /\ Count(loop[t]) = NumOps /\ loop[t] = "measured"
      BY <1>1, <1>2, <1>5, <2>1, <2>2 DEF Done, Count
    <3>2. total'[t] = Done(t)
      BY <1>1, <1>3, <2>2, <3>1 DEF LoopInv
    <3>3. t \in hist'.cut => expired'
      BY <1>1, <1>3 DEF LoopInv
    <3>4. t \notin hist'.cut => i'[t] = NumOps
      BY <1>1, <1>2, <1>3, <2>1, <3>1
    <3> QED
      BY <1>1, <1>3, <2>1, <2>2, <3>1, <3>2, <3>3, <3>4 DEF LoopInv, Body, Count
  <2>5. Taken' = Taken /\ Sent' = Sent
    BY <1>1, <2>1, <2>2 DEF Taken, Sent, Done, Before, Threads
  <2>6. Balance' /\ KeyInv'
    <3>1. "recv" \notin hist'.cut \/ i'["recv"] > 0 =>
            "recv" \notin hist.cut \/ i["recv"] > 0
      BY <1>1, <2>1
    <3> QED
      BY <1>1, <2>5, <3>1, BalanceKept, Sums DEF RLInv, KeyInv
  <2>7. MeasuredOnly'
    BY <1>1, <2>1, <2>2 DEF RLInv, MeasuredOnly, Threads
  <2> QED
    BY <1>1, <2>1, <2>2, <2>3, <2>4, <2>6, <2>7, ThreadStep
<1> QED
  BY <1>4, <1>5

\* The end of a body: ++i makes good the --i of a handler.
LEMMA MeasureKeeps ==
  ASSUME RLInv, NEW t \in Threads, Measure(t)
  PROVE  RLInv'
<1>1. /\ phase \in Phases /\ pc[t] = "measure"
      /\ i' = [i EXCEPT ![t] = Inc(@)] /\ pc' = [pc EXCEPT ![t] = "head"]
      /\ UNCHANGED <<phase, loop, err, key, futures, got, expired, hist>>
  BY DEF Measure, At, Move
<1>2. \/ /\ loop[t] = "measured" /\ total' = [total EXCEPT ![t] = @ + interval[t]]
         /\ interval' = [interval EXCEPT ![t] = 0]
      \/ UNCHANGED <<interval, total>>
  BY DEF Measure, Restart
<1>3. Inc(i[t]) \in Nat /\ Inc(i[t]) = Done(t) /\ i[t] \in Nat
  BY <1>1, Steps DEF RLInv, RLTypeOK, Done
<1>4. /\ pc'[t] = "head" /\ i'[t] = Inc(i[t])
      /\ \A u \in Threads \ {t} : pc'[u] = pc[u] /\ i'[u] = i[u]
  BY <1>1 DEF RLInv, RLTypeOK
<1>5. /\ interval' \in [Threads -> Nat] /\ total' \in [Threads -> Nat]
      /\ total'[t] + interval'[t] = total[t] + interval[t]
      /\ \A u \in Threads \ {t} : interval'[u] = interval[u] /\ total'[u] = total[u]
  <2>1. interval \in [Threads -> Nat] /\ total \in [Threads -> Nat]
    BY DEF RLInv, RLTypeOK
  <2> QED
    BY <1>2, <2>1
<1>6. RLTypeOK'
  <2>1. i' \in [Threads -> Nat] /\ DOMAIN pc' = Threads
    BY <1>1, <1>3 DEF RLInv, RLTypeOK
  <2>2. \A u \in Threads : pc'[u] \in PlacesOf(u)
    BY <1>4 DEF RLInv, RLTypeOK, PlacesOf
  <2> QED
    BY <1>1, <1>5, <2>1, <2>2 DEF RLInv, RLTypeOK
<1>7. Done(t)' = Done(t)
  BY <1>3, <1>4 DEF Done
<1>8. LoopInv(t)'
  <2>1. LoopInv(t)
    BY <1>1 DEF RLInv
  <2> QED
    BY <1>1, <1>4, <1>5, <1>7, <2>1 DEF LoopInv, Body
<1>9. Taken' = Taken /\ Sent' = Sent
  <2>1. \A u \in Threads : Done(u)' = Done(u)
    BY <1>4, <1>7 DEF Done
  <2>2. /\ (pc'["send"] = "notify") <=> (pc["send"] = "notify")
        /\ (pc'["recv"] = "get") <=> (pc["recv"] = "get")
    BY <1>1, <1>4 DEF Threads
  <2> QED
    BY <1>1, <2>1, <2>2, Sums DEF RLInv, Taken, Sent, Before
<1>10. Balance' /\ KeyInv'
  <2>1. "recv" \notin hist'.cut \/ i'["recv"] > 0 =>
          "recv" \notin hist.cut \/ i["recv"] > 0
    <3>1. CASE t = "recv"
      BY <1>1, <3>1 DEF RLInv, LoopInv
    <3>2. CASE t # "recv"
      BY <1>1, <1>4, <3>2 DEF Threads
    <3> QED
      BY <3>1, <3>2
  <2> QED
    BY <1>1, <1>9, <2>1, BalanceKept, Sums DEF RLInv, KeyInv
<1>11. MeasuredOnly'
  BY <1>1, <1>4 DEF RLInv, MeasuredOnly, Threads
<1> QED
  BY <1>1, <1>4, <1>5, <1>6, <1>8, <1>10, <1>11, ThreadStep

-----------------------------------------------------------------------------
(***************************************************************************)
(* The sender.                                                             *)
(***************************************************************************)

\* A request that is sent: one more future, of the loop that the sender is in.
LEMMA PushKeeps ==
  ASSUME RLInv, Push
  PROVE  RLInv'
<1> DEFINE q == futures[phase]
           x == <<loop["send"], key>>
<1>1. /\ phase \in Phases /\ pc["send"] = "acquire"
      /\ futures' = [futures EXCEPT ![phase] = Append(q, x)]
      /\ key' = key + 1 /\ pc' = [pc EXCEPT !["send"] = "notify"]
      /\ UNCHANGED <<phase, loop, i, err, got, interval, total, expired, hist>>
  BY DEF Push, At, Move
<1>2. /\ q \in Seq(Requests) /\ x \in Requests /\ Len(q) \in Nat /\ x[1] = loop["send"]
      /\ "send" \in Threads /\ "recv" \in Threads
  BY <1>1 DEF RLInv, RLTypeOK, Requests, Threads
<1> HIDE DEF q, x
<1>3. /\ Append(q, x) \in Seq(Requests) /\ Len(Append(q, x)) = Len(q) + 1
      /\ \A p \in 1 .. Len(q) : Append(q, x)[p] = q[p]
      /\ Append(q, x)[Len(q) + 1] = x
  BY <1>2
<1>4. /\ pc'["send"] = "notify" /\ pc'["recv"] = pc["recv"]
      /\ futures'[phase] = Append(q, x) /\ futures' \in [Phases -> Seq(Requests)]
      /\ \A o \in Phases \ {phase} : futures'[o] = futures[o]
  BY <1>1, <1>2, <1>3 DEF RLInv, RLTypeOK, Threads
<1>5. RLTypeOK'
  <2>1. DOMAIN pc' = Threads /\ \A u \in Threads : pc'[u] \in PlacesOf(u)
    BY <1>1, <1>4 DEF RLInv, RLTypeOK, PlacesOf, Threads
  <2> QED
    BY <1>1, <1>4, <2>1 DEF RLInv, RLTypeOK
<1>6. LoopInv("send") /\ LoopInv("send")'
  <2>1. LoopInv("send")
    BY <1>1, <1>2 DEF RLInv
  <2>2. Done("send")' = Done("send")
    BY <1>1, <1>4 DEF Done
  <2> QED
    BY <1>1, <1>4, <2>1, <2>2 DEF LoopInv, Body
<1>7. Taken' = Taken /\ Sent' = Sent + 1 /\ Sent \in Nat /\ Taken \in Nat
  <2>1. Taken' = Taken /\ Sent \in Nat /\ Taken \in Nat
    BY <1>1, <1>4, SumsApart, Sums DEF RLInv
  <2>2. Done("send") \in Nat /\ Before("send") \in Nat
    BY <1>2, Sums DEF RLInv
  <2>3. Done("send")' = Done("send") /\ Before("send")' = Before("send")
    BY <1>1, <1>4 DEF Done, Before
  <2> QED
    BY <1>1, <1>4, <2>1, <2>2, <2>3 DEF Sent
<1>8. Balance'
  <2> SUFFICES ASSUME "recv" \notin hist.cut \/ i["recv"] > 0
               PROVE  /\ Taken + (Len(q) + 1) <= Sent + 1
                      /\ \A p \in 1 .. Len(q) + 1 :
                           Append(q, x)[p][1] = "warm" =>
                             WarmUp /\ Taken + p <= WarmUpOps
    BY <1>1, <1>3, <1>4, <1>7 DEF Balance
  <2>1. /\ Taken + Len(q) <= Sent
        /\ \A p \in 1 .. Len(q) :
             q[p][1] = "warm" => WarmUp /\ Taken + p <= WarmUpOps
    BY <1>1 DEF RLInv, Balance, q
  <2>2. ASSUME loop["send"] = "warm" PROVE WarmUp /\ Taken + (Len(q) + 1) <= WarmUpOps
    <3>1. WarmUp /\ i["send"] < WarmUpOps
      BY <1>1, <1>6, <2>2 DEF LoopInv, Body, Count
    <3>2. Sent = i["send"] /\ i["send"] \in Nat
      BY <1>1, <1>2, <2>2 DEF RLInv, RLTypeOK, Sent, Before, Done
    <3> QED
      BY <1>2, <1>7, <2>1, <3>1, <3>2, Counts
  <2> QED
    BY <1>2, <1>3, <1>7, <2>1, <2>2
<1>9. KeyInv'
  <2>1. key <= Sent + err["send"] /\ key \in Nat /\ err["send"] \in Nat
    BY <1>1, <1>2 DEF RLInv, KeyInv, RLTypeOK
  <2> QED
    BY <1>1, <1>7, <2>1 DEF KeyInv
<1>10. MeasuredOnly'
  BY <1>1, <1>4 DEF RLInv, MeasuredOnly
<1>11. \A u \in Threads \ {"send"} : pc'[u] = pc[u]
  BY <1>4 DEF Threads
<1> QED
  BY <1>1, <1>2, <1>4, <1>5, <1>6, <1>8, <1>9, <1>10, <1>11, ThreadStep

\* The notification, which wakes the receiver up, and the count of the request.
LEMMA NotifyKeeps ==
  ASSUME RLInv, Notify
  PROVE  RLInv'
<1>1. /\ phase \in Phases /\ pc["send"] = "notify"
      /\ pc' = [t \in Threads |-> IF t = "send" THEN "measure" ELSE Woken]
      /\ interval' = IF loop["send"] = "warm" THEN interval
                     ELSE [interval EXCEPT !["send"] = @ + 1]
      /\ UNCHANGED <<phase, loop, i, err, key, futures, got, total, expired, hist>>
  BY DEF Notify, At, CountOne
<1>2. /\ "send" \in Threads /\ "recv" \in Threads
      /\ i["send"] \in Nat /\ interval["send"] \in Nat /\ total["send"] \in Nat
      /\ loop["send"] \in {"warm", "measured"}
      /\ LoopInv("send") /\ LoopInv("recv")
  BY <1>1 DEF RLInv, RLTypeOK, Threads
<1>3. /\ pc'["send"] = "measure"
      /\ \/ pc'["recv"] = pc["recv"]
         \/ pc["recv"] = "wait" /\ pc'["recv"] = "pop"
  BY <1>1, <1>2 DEF Woken
<1>4. /\ interval' \in [Threads -> Nat] /\ interval'["recv"] = interval["recv"]
      /\ loop["send"] = "warm" => interval'["send"] = interval["send"]
      /\ loop["send"] = "measured" => interval'["send"] = interval["send"] + 1
  BY <1>1, <1>2 DEF RLInv, RLTypeOK, Threads
<1>5. RLTypeOK'
  <2>1. DOMAIN pc' = Threads /\ \A u \in Threads : pc'[u] \in PlacesOf(u)
    BY <1>1, <1>3 DEF RLInv, RLTypeOK, PlacesOf, Threads
  <2> QED
    BY <1>1, <1>4, <2>1 DEF RLInv, RLTypeOK
<1>6. i["send"] < Count(loop["send"]) /\ Done("send") = i["send"]
      /\ Done("send")' = i["send"] + 1
  <2>1. i["send"] < Count(loop["send"])
    BY <1>1, <1>2 DEF LoopInv, Body
  <2>2. i["send"] < NumOps
    BY <1>2, <2>1, Counts
  <2>3. Inc(i["send"]) = i["send"] + 1
    BY <1>2, <2>2, Steps
  <2> QED
    BY <1>1, <1>3, <2>1, <2>3 DEF Done
<1>7. LoopInv("send")'
  <2>1. Done("send")' <= Count(loop["send"])
    BY <1>2, <1>6, Counts
  <2>2. total["send"] + interval["send"] =
          IF loop["send"] = "measured" THEN i["send"] ELSE 0
    BY <1>1, <1>2, <1>6 DEF LoopInv
  <2>3. total'["send"] + interval'["send"] =
          IF loop["send"] = "measured" THEN i["send"] + 1 ELSE 0
    BY <1>1, <1>2, <1>4, <2>2
  <2> QED
    BY <1>1, <1>2, <1>3, <1>6, <2>1, <2>3 DEF LoopInv, Body
<1>8. LoopInv("recv")'
  <2>1. Done("recv")' = Done("recv")
    BY <1>1, <1>3 DEF Done
  <2> QED
    BY <1>1, <1>2, <1>3, <1>4, <2>1 DEF LoopInv, Body
<1>9. Taken' = Taken
  <2>1. Done("recv")' = Done("recv") /\ Before("recv")' = Before("recv")
    BY <1>1, <1>3 DEF Done, Before
  <2> QED
    BY <1>1, <1>3, <2>1 DEF Taken
<1>10. Sent' = Sent
  <2>1. Before("send")' = Before("send") /\ Before("send") \in Nat
    BY <1>1, <1>2, Sums DEF RLInv, Before
  <2> QED
    BY <1>1, <1>2, <1>3, <1>6, <2>1 DEF Sent
<1>11. Balance' /\ KeyInv'
  BY <1>1, <1>9, <1>10, BalanceKept, Sums DEF RLInv, KeyInv
<1>12. MeasuredOnly' /\ QueuesInv'
  BY <1>1, <1>3 DEF RLInv, MeasuredOnly, QueuesInv
<1> QED
  BY <1>5, <1>7, <1>8, <1>11, <1>12 DEF RLInv, Threads

\* The handler of either thread, within the phase: ++i will take back --i.
LEMMA HandleFacts ==
  ASSUME RLInv, NEW t \in Threads, phase \in Phases, pc[t] \in Body, Handle(t),
         UNCHANGED <<loop, interval, total, expired>>, hist'.cut = hist.cut,
         phase' = phase
  PROVE  /\ pc' = [pc EXCEPT ![t] = "measure"] /\ i' \in [Threads -> Nat]
         /\ pc'[t] = "measure" /\ \A u \in Threads \ {t} : pc'[u] = pc[u] /\ i'[u] = i[u]
         /\ err' \in [Threads -> Nat] /\ err'[t] = err[t] + 1
         /\ \A u \in Threads \ {t} : err'[u] = err[u]
         /\ Done(t) = i[t] /\ Done(t)' = i[t] /\ LoopInv(t)'
<1>1. LoopInv(t) /\ i[t] \in Nat /\ i[t] < Count(loop[t]) /\ err[t] \in Nat
      /\ phase # "exited"
  BY DEF RLInv, RLTypeOK, LoopInv, Phases
<1>2. i[t] < NumOps
  BY <1>1, Counts
<1>3. Dec(i[t]) \in Nat /\ Inc(Dec(i[t])) = i[t]
  BY <1>1, <1>2, Steps
<1>4. /\ i' = [i EXCEPT ![t] = Dec(@)] /\ err' = [err EXCEPT ![t] = @ + 1]
      /\ ~(err'[t] > ErrorMax) /\ pc' = [pc EXCEPT ![t] = "measure"]
  BY <1>1 DEF Handle, Retry, Move
<1>5. /\ i' \in [Threads -> Nat] /\ i'[t] = Dec(i[t])
      /\ \A u \in Threads \ {t} : i'[u] = i[u]
      /\ err' \in [Threads -> Nat] /\ err'[t] = err[t] + 1
      /\ \A u \in Threads \ {t} : err'[u] = err[u]
  BY <1>1, <1>3, <1>4 DEF RLInv, RLTypeOK
<1>6. pc'[t] = "measure" /\ \A u \in Threads \ {t} : pc'[u] = pc[u]
  BY <1>4 DEF RLInv, RLTypeOK
<1>7. Done(t) = i[t] /\ Done(t)' = i[t]
  BY <1>3, <1>5, <1>6 DEF Done, Body
<1>8. err'[t] <= ErrorMax
  BY <1>1, <1>4, <1>5, Counts
<1>9. LoopInv(t)'
  BY <1>1, <1>6, <1>7, <1>8 DEF LoopInv, Body
<1> QED
  BY <1>4, <1>5, <1>6, <1>7, <1>9

\* The handler that gives up.
LEMMA ExitKeeps ==
  ASSUME RLInv, NEW t \in Threads, phase \in Phases, Handle(t), phase' # phase,
         UNCHANGED <<loop, interval, total, futures>>, key' \in Nat,
         hist'.cut = hist.cut, hist'.lost \in Nat
  PROVE  RLInv'
<1>1. phase' = "exited" /\ pc' = pc
  BY DEF Handle
<1>2. i' \in [Threads -> Nat] /\ err' \in [Threads -> Nat]
  <2>1. \A k \in Nat : Dec(k) \in Nat
    BY Counts DEF Dec
  <2> QED
    BY <2>1 DEF RLInv, RLTypeOK, Handle, Retry
<1>3. RLTypeOK'
  BY <1>1, <1>2 DEF RLInv, RLTypeOK, Ended
<1> QED
  BY <1>1, <1>3 DEF RLInv, QueuesInv, Phases

\* A request that cannot be sent.
LEMMA SendFailsKeeps ==
  ASSUME RLInv, SendFails
  PROVE  RLInv'
<1>1. /\ phase \in Phases /\ pc["send"] = "acquire" /\ key' = key + 1 /\ Handle("send")
      /\ UNCHANGED <<loop, futures, got, interval, total, expired, hist>>
      /\ "send" \in Threads /\ "recv" \in Threads /\ key \in Nat /\ err["send"] \in Nat
  BY DEF SendFails, At, Threads, RLInv, RLTypeOK
<1>2. CASE phase' # phase
  <2>1. key' \in Nat /\ hist'.cut = hist.cut /\ hist'.lost \in Nat
    BY <1>1 DEF RLInv, RLTypeOK
  <2> QED
    BY <1>1, <1>2, <2>1, ExitKeeps
<1>3. CASE phase' = phase
  <2>1. /\ pc' = [pc EXCEPT !["send"] = "measure"] /\ i' \in [Threads -> Nat]
        /\ pc'["send"] = "measure"
        /\ \A u \in Threads \ {"send"} : pc'[u] = pc[u] /\ i'[u] = i[u]
        /\ err' \in [Threads -> Nat] /\ err'["send"] = err["send"] + 1
        /\ \A u \in Threads \ {"send"} : err'[u] = err[u]
        /\ Done("send") = i["send"] /\ Done("send")' = i["send"] /\ LoopInv("send")'
    BY <1>1, <1>3, HandleFacts DEF Body
  <2>2. RLTypeOK'
    <3>1. DOMAIN pc' = Threads /\ \A u \in Threads : pc'[u] \in PlacesOf(u)
      BY <2>1 DEF RLInv, RLTypeOK, PlacesOf
    <3>2. key' \in Nat /\ phase' = phase
      BY <1>1, <1>3
    <3> QED
      BY <1>1, <2>1, <3>1, <3>2 DEF RLInv, RLTypeOK
  <2>3. pc'["recv"] = pc["recv"] /\ i'["recv"] = i["recv"]
    BY <1>1, <2>1
  <2>4. Taken' = Taken
    BY <1>1, <2>3, SumsApart
  <2>5. Sent' = Sent /\ Sent \in Nat
    BY <1>1, <2>1, Sums DEF RLInv, Sent, Before
  <2>6. Balance'
    BY <1>1, <1>3, <2>3, <2>4, <2>5, BalanceKept DEF RLInv
  <2>7. KeyInv'
    <3>1. key <= Sent + err["send"]
      BY <1>1 DEF RLInv, KeyInv
    <3> QED
      BY <1>1, <2>1, <2>5, <3>1 DEF KeyInv
  <2>8. MeasuredOnly'
    BY <1>1, <1>3, <2>3 DEF RLInv, MeasuredOnly
  <2> QED
    BY <1>1, <1>3, <2>1, <2>2, <2>6, <2>7, <2>8, ThreadStep
<1> QED
  BY <1>2, <1>3

-----------------------------------------------------------------------------
(***************************************************************************)
(* The receiver.                                                           *)
(***************************************************************************)

\* Waiting, and waking up for whatever reason.
LEMMA WaitKeeps ==
  ASSUME RLInv, PopWaits \/ WakesUp
  PROVE  RLInv'
<1>1. /\ phase \in Phases /\ pc["recv"] \in {"pop", "wait"} /\ "recv" \in Threads
      /\ UNCHANGED <<phase, loop, i, err, key, futures, got, interval, total, expired,
                     hist>>
  BY DEF PopWaits, WakesUp, At, Threads
<1>2. PICK place \in {"pop", "wait"} : pc' = [pc EXCEPT !["recv"] = place]
  BY DEF PopWaits, WakesUp, Move
<1>3. /\ pc'["recv"] \in {"pop", "wait"}
      /\ \A u \in Threads \ {"recv"} : pc'[u] = pc[u]
  BY <1>1, <1>2 DEF RLInv, RLTypeOK
<1>4. RLTypeOK'
  <2>1. DOMAIN pc' = Threads /\ \A u \in Threads : pc'[u] \in PlacesOf(u)
    BY <1>2, <1>3 DEF RLInv, RLTypeOK, PlacesOf
  <2> QED
    BY <1>1, <2>1 DEF RLInv, RLTypeOK
<1>5. Done("recv")' = Done("recv") /\ Before("recv")' = Before("recv")
  BY <1>1, <1>3 DEF Done, Before
<1>6. LoopInv("recv")'
  BY <1>1, <1>3, <1>5 DEF RLInv, LoopInv, Body
<1>7. Taken' = Taken /\ Sent' = Sent
  BY <1>1, <1>3, <1>5, SumsApart DEF Taken, Threads
<1>8. Balance' /\ KeyInv'
  BY <1>1, <1>7, BalanceKept, Sums DEF RLInv, KeyInv
<1>9. MeasuredOnly'
  BY <1>3 DEF MeasuredOnly
<1> QED
  BY <1>1, <1>3, <1>4, <1>6, <1>8, <1>9, ThreadStep

\* pop() takes the oldest future: the others move up, and one more is taken.
LEMMA PopTakesKeeps ==
  ASSUME RLInv, PopTakes
  PROVE  RLInv'
<1> DEFINE q == futures[phase]
<1>1. /\ phase \in Phases /\ pc["recv"] = "pop" /\ "recv" \in Threads /\ q # <<>>
      /\ got' = Head(q) /\ futures' = [futures EXCEPT ![phase] = Tail(q)]
      /\ pc' = [pc EXCEPT !["recv"] = "get"]
      /\ UNCHANGED <<phase, loop, i, err, key, interval, total, expired, hist>>
  BY DEF PopTakes, At, Move, Threads
<1>2. q \in Seq(Requests) /\ Len(q) \in Nat
  BY <1>1 DEF RLInv, RLTypeOK
<1> HIDE DEF q
<1>3. /\ Len(q) > 0 /\ Head(q) = q[1] /\ q[1] \in Requests
      /\ Tail(q) \in Seq(Requests) /\ Len(Tail(q)) = Len(q) - 1
      /\ \A p \in 1 .. Len(q) - 1 : Tail(q)[p] = q[p + 1]
  BY <1>1, <1>2
<1>4. /\ futures' \in [Phases -> Seq(Requests)] /\ futures'[phase] = Tail(q)
      /\ \A o \in Phases \ {phase} : futures'[o] = futures[o]
  BY <1>1, <1>3 DEF RLInv, RLTypeOK
<1>5. pc'["recv"] = "get" /\ \A u \in Threads \ {"recv"} : pc'[u] = pc[u]
  BY <1>1 DEF RLInv, RLTypeOK
<1>6. RLTypeOK'
  <2>1. DOMAIN pc' = Threads /\ \A u \in Threads : pc'[u] \in PlacesOf(u)
    BY <1>1, <1>5 DEF RLInv, RLTypeOK, PlacesOf
  <2> QED
    BY <1>1, <1>4, <2>1 DEF RLInv, RLTypeOK
<1>7. Done("recv")' = Done("recv") /\ Before("recv")' = Before("recv")
  BY <1>1, <1>5 DEF Done, Before
<1>8. LoopInv("recv") /\ LoopInv("recv")'
  <2>1. LoopInv("recv")
    BY <1>1 DEF RLInv
  <2> QED
    BY <1>1, <1>5, <1>7, <2>1 DEF LoopInv, Body
<1>9. Sent' = Sent /\ Sent \in Nat /\ Taken \in Nat /\ Taken' = Taken + 1
  <2>1. Sent' = Sent /\ Sent \in Nat /\ Taken \in Nat
    BY <1>1, <1>5, SumsApart, Sums DEF RLInv, Threads
  <2>2. Done("recv") \in Nat /\ Before("recv") \in Nat /\ hist.lost \in Nat
    BY <1>1, Sums DEF RLInv, RLTypeOK
  <2> QED
    BY <1>1, <1>5, <1>7, <2>1, <2>2 DEF Taken
<1>10. "recv" \notin hist.cut
  BY <1>1, <1>8 DEF LoopInv
<1>11. /\ Taken + Len(q) <= Sent
       /\ \A p \in 1 .. Len(q) : q[p][1] = "warm" => WarmUp /\ Taken + p <= WarmUpOps
  BY <1>1, <1>10 DEF RLInv, Balance, q
<1>12. Balance'
  <2> SUFFICES /\ Taken + 1 + (Len(q) - 1) <= Sent
               /\ \A p \in 1 .. Len(q) - 1 :
                    Tail(q)[p][1] = "warm" => WarmUp /\ Taken + 1 + p <= WarmUpOps
    BY <1>1, <1>3, <1>4, <1>9 DEF Balance
  <2>1. ASSUME NEW p \in 1 .. Len(q) - 1, Tail(q)[p][1] = "warm"
        PROVE  WarmUp /\ Taken + 1 + p <= WarmUpOps
    <3>1. Tail(q)[p] = q[p + 1] /\ p + 1 \in 1 .. Len(q)
      BY <1>2, <1>3, <2>1
    <3>2. WarmUp /\ Taken + (p + 1) <= WarmUpOps
      BY <1>11, <2>1, <3>1
    <3> QED
      BY <1>2, <1>9, <3>2, Counts
  <2> QED
    BY <1>2, <1>3, <1>9, <1>11, <2>1
<1>13. KeyInv'
  BY <1>1, <1>9 DEF RLInv, KeyInv
<1>14. MeasuredOnly'
  <2> SUFFICES ASSUME loop["recv"] = "measured", q[1][1] = "warm" PROVE FALSE
    BY <1>1, <1>3 DEF MeasuredOnly, Requests
  <2>1. WarmUp /\ Taken + 1 <= WarmUpOps
    BY <1>2, <1>3, <1>11
  <2>2. Before("recv") = WarmUpOps
    BY <2>1 DEF Before
  <2>3. Done("recv") \in Nat /\ hist.lost \in Nat /\ WarmUpOps \in Nat
    BY <1>1, Sums, Counts DEF RLInv, RLTypeOK
  <2>4. Taken >= WarmUpOps
    BY <1>1, <2>2, <2>3 DEF Taken
  <2> QED
    BY <1>9, <2>1, <2>3, <2>4
<1> QED
  BY <1>1, <1>4, <1>5, <1>6, <1>8, <1>12, <1>13, <1>14, ThreadStep

\* An answer that is a success.
LEMMA AnsweredKeeps ==
  ASSUME RLInv, Answered
  PROVE  RLInv'
<1>1. /\ phase \in Phases /\ pc["recv"] = "get" /\ "recv" \in Threads
      /\ pc' = [pc EXCEPT !["recv"] = "measure"]
      /\ interval' = IF loop["recv"] = "warm" THEN interval
                     ELSE [interval EXCEPT !["recv"] = @ + 1]
      /\ UNCHANGED <<phase, loop, i, err, key, futures, got, total, expired, hist>>
  BY DEF Answered, At, CountOne, Move, Threads
<1>2. /\ i["recv"] \in Nat /\ interval["recv"] \in Nat /\ total["recv"] \in Nat
      /\ loop["recv"] \in {"warm", "measured"} /\ LoopInv("recv")
      /\ hist.lost \in Nat /\ Before("recv") \in Nat
  BY <1>1, Sums DEF RLInv, RLTypeOK
<1>3. pc'["recv"] = "measure" /\ \A u \in Threads \ {"recv"} : pc'[u] = pc[u]
  BY <1>1 DEF RLInv, RLTypeOK
<1>4. /\ interval' \in [Threads -> Nat]
      /\ \A u \in Threads \ {"recv"} : interval'[u] = interval[u]
      /\ loop["recv"] = "warm" => interval'["recv"] = interval["recv"]
      /\ loop["recv"] = "measured" => interval'["recv"] = interval["recv"] + 1
  BY <1>1, <1>2 DEF RLInv, RLTypeOK
<1>5. RLTypeOK'
  <2>1. DOMAIN pc' = Threads /\ \A u \in Threads : pc'[u] \in PlacesOf(u)
    BY <1>1, <1>3 DEF RLInv, RLTypeOK, PlacesOf
  <2> QED
    BY <1>1, <1>4, <2>1 DEF RLInv, RLTypeOK
<1>6. i["recv"] < Count(loop["recv"]) /\ Done("recv") = i["recv"]
      /\ Done("recv")' = i["recv"] + 1
  <2>1. i["recv"] < Count(loop["recv"])
    BY <1>1, <1>2 DEF LoopInv, Body
  <2>2. i["recv"] < NumOps
    BY <1>2, <2>1, Counts
  <2>3. Inc(i["recv"]) = i["recv"] + 1
    BY <1>2, <2>2, Steps
  <2> QED
    BY <1>1, <1>3, <2>1, <2>3 DEF Done
<1>7. LoopInv("recv")'
  <2>1. Done("recv")' <= Count(loop["recv"])
    BY <1>2, <1>6, Counts
  <2>2. total["recv"] + interval["recv"] =
          IF loop["recv"] = "measured" THEN i["recv"] ELSE 0
    BY <1>1, <1>2, <1>6 DEF LoopInv
  <2>3. total'["recv"] + interval'["recv"] =
          IF loop["recv"] = "measured" THEN i["recv"] + 1 ELSE 0
    BY <1>1, <1>2, <1>4, <2>2
  <2> QED
    BY <1>1, <1>2, <1>3, <1>6, <2>1, <2>3 DEF LoopInv, Body
<1>8. Sent' = Sent
  BY <1>1, <1>3, SumsApart DEF Threads
<1>9. Taken' = Taken
  <2>1. Before("recv")' = Before("recv")
    BY <1>1 DEF Before
  <2> QED
    BY <1>1, <1>2, <1>3, <1>6, <2>1 DEF Taken
<1>10. Balance' /\ KeyInv'
  BY <1>1, <1>8, <1>9, BalanceKept, Sums DEF RLInv, KeyInv
<1>11. MeasuredOnly'
  BY <1>3 DEF MeasuredOnly
<1> QED
  BY <1>1, <1>3, <1>4, <1>5, <1>7, <1>10, <1>11, ThreadStep

\* An answer that is an error: it was taken, and will be waited for again.
LEMMA AnsweredErrorKeeps ==
  ASSUME RLInv, AnsweredError
  PROVE  RLInv'
<1>1. /\ phase \in Phases /\ pc["recv"] = "get" /\ Handle("recv")
      /\ hist'.lost = hist.lost + 1 /\ hist'.cut = hist.cut
      /\ UNCHANGED <<loop, key, futures, got, interval, total, expired>>
      /\ "send" \in Threads /\ "recv" \in Threads
  BY DEF AnsweredError, At, Threads
<1>2. hist.lost \in Nat /\ key \in Nat /\ i["recv"] \in Nat /\ Before("recv") \in Nat
      /\ LoopInv("recv")
  BY <1>1, Sums DEF RLInv, RLTypeOK
<1>3. CASE phase' # phase
  <2>1. key' \in Nat /\ hist'.lost \in Nat
    BY <1>1, <1>2
  <2> QED
    BY <1>1, <1>3, <2>1, ExitKeeps
<1>4. CASE phase' = phase
  <2>1. /\ pc' = [pc EXCEPT !["recv"] = "measure"] /\ i' \in [Threads -> Nat]
        /\ pc'["recv"] = "measure"
        /\ \A u \in Threads \ {"recv"} : pc'[u] = pc[u] /\ i'[u] = i[u]
        /\ err' \in [Threads -> Nat]
        /\ \A u \in Threads \ {"recv"} : err'[u] = err[u]
        /\ Done("recv") = i["recv"] /\ Done("recv")' = i["recv"] /\ LoopInv("recv")'
    BY <1>1, <1>4, HandleFacts DEF Body
  <2>2. RLTypeOK'
    <3>1. DOMAIN pc' = Threads /\ \A u \in Threads : pc'[u] \in PlacesOf(u)
      BY <2>1 DEF RLInv, RLTypeOK, PlacesOf
    <3>2. hist'.lost \in Nat /\ hist'.cut \subseteq Threads
      BY <1>1, <1>2 DEF RLInv, RLTypeOK
    <3>3. /\ loop' = loop /\ key' = key /\ futures' = futures /\ interval' = interval
          /\ total' = total /\ i' \in [Threads -> Nat] /\ err' \in [Threads -> Nat]
      BY <1>1, <2>1
    <3> QED
      BY <1>4, <3>1, <3>2, <3>3 DEF RLInv, RLTypeOK
  <2>3. pc'["send"] = pc["send"] /\ i'["send"] = i["send"] /\ err'["send"] = err["send"]
    BY <1>1, <2>1
  <2>4. Sent' = Sent
    BY <1>1, <2>3, SumsApart
  <2>5. Taken' = Taken
    <3>1. Before("recv")' = Before("recv")
      BY <1>1 DEF Before
    <3> QED
      BY <1>1, <1>2, <2>1, <3>1 DEF Taken
  <2>6. "recv" \notin hist.cut
    BY <1>1, <1>2 DEF LoopInv
  <2>7. Balance' /\ KeyInv'
    BY <1>1, <1>4, <2>3, <2>4, <2>5, <2>6, BalanceKept, Sums DEF RLInv, KeyInv
  <2>8. MeasuredOnly'
    BY <2>1 DEF MeasuredOnly
  <2> QED
    BY <1>1, <1>4, <2>1, <2>2, <2>7, <2>8, ThreadStep
<1> QED
  BY <1>3, <1>4

\* The invariant is inductive.
LEMMA RLInvStep == RLInv /\ [Next]_vars => RLInv'
<1> SUFFICES ASSUME RLInv, [Next]_vars PROVE RLInv'
  OBVIOUS
<1>1. CASE Next
  <2>1. "send" \in Threads /\ "recv" \in Threads
    BY DEF Threads
  <2> QED
    BY <1>1, <2>1, MainKeeps, ExpireKeeps, EnterBodyKeeps, LoopEndsKeeps, MeasureKeeps,
       PushKeeps, NotifyKeeps, SendFailsKeeps, WaitKeeps, PopTakesKeeps, AnsweredKeeps,
       AnsweredErrorKeeps
       DEF Next, SenderStep, ReceiverStep, LoopStep
<1>2. CASE UNCHANGED vars
  <2>1. UNCHANGED <<phase, pc, loop, i, err, key, futures, got, interval, total,
                    expired, hist>>
    BY <1>2 DEF vars
  <2>2. Taken' = Taken /\ Sent' = Sent
    BY <2>1, SumsApart
  <2>3. RLTypeOK' /\ QueuesInv' /\ (phase \in Phases => MeasuredOnly')
    BY <2>1 DEF RLInv, RLTypeOK, QueuesInv, MeasuredOnly
  <2>4. phase \in Phases => \A t \in Threads : LoopInv(t)'
    BY <2>1, OtherKeeps DEF RLInv
  <2>5. phase \in Phases => Balance' /\ KeyInv'
    BY <2>1, <2>2 DEF RLInv, Balance, KeyInv
  <2> QED
    BY <2>1, <2>3, <2>4, <2>5 DEF RLInv
<1> QED
  BY <1>1, <1>2

-----------------------------------------------------------------------------
(***************************************************************************)
(* The theorems.                                                           *)
(***************************************************************************)

\* What both threads have behind them when a phase is over.
LEMMA Over ==
  ASSUME RLInv, phase \in Phases, pc = Each("over")
  PROVE  /\ i["send"] \in Nat /\ i["recv"] \in Nat /\ hist.lost \in Nat
         /\ i["send"] <= NumOps /\ i["recv"] <= NumOps
         /\ "send" \notin hist.cut => i["send"] = NumOps
         /\ "recv" \notin hist.cut => i["recv"] = NumOps
         /\ total["send"] = i["send"] /\ total["recv"] = i["recv"]
         /\ "recv" \notin hist.cut \/ i["recv"] > 0 =>
              i["recv"] + hist.lost + Len(futures[phase]) <= i["send"]
<1>1. "send" \in Threads /\ "recv" \in Threads
  BY DEF Threads
<1>2. pc["send"] = "over" /\ pc["recv"] = "over"
  BY <1>1 DEF Each
<1>3. /\ i["send"] \in Nat /\ i["recv"] \in Nat /\ hist.lost \in Nat
      /\ Len(futures[phase]) \in Nat
  BY <1>1 DEF RLInv, RLTypeOK
<1>4. LoopInv("send") /\ LoopInv("recv")
  BY <1>1 DEF RLInv
<1>5. Done("send") = i["send"] /\ Done("recv") = i["recv"]
  BY <1>2 DEF Done
<1>6. loop["send"] = "measured" /\ loop["recv"] = "measured"
  BY <1>2, <1>4 DEF LoopInv
<1>7. /\ i["send"] <= NumOps /\ i["recv"] <= NumOps
      /\ total["send"] = i["send"] /\ total["recv"] = i["recv"]
      /\ "send" \notin hist.cut => i["send"] = NumOps
      /\ "recv" \notin hist.cut => i["recv"] = NumOps
  BY <1>2, <1>4, <1>5, <1>6 DEF LoopInv, Count
<1>8. Before("send") = Before("recv") /\ Before("send") \in Nat
  BY <1>6, Counts DEF Before
<1>9. Sent = Before("send") + i["send"] /\ Taken = Before("send") + i["recv"] + hist.lost
  BY <1>2, <1>3, <1>5, <1>8 DEF Sent, Taken
<1>10. "recv" \notin hist.cut \/ i["recv"] > 0 => Taken + Len(futures[phase]) <= Sent
  BY DEF RLInv, Balance
<1>11. PICK n \in Nat : n = Len(futures[phase])
  BY <1>3
<1>12. \A b, x, y, l, m \in Nat : (b + y + l) + m <= b + x => y + l + m <= x
  OBVIOUS
<1>13. "recv" \notin hist.cut \/ i["recv"] > 0 =>
         (Before("send") + i["recv"] + hist.lost) + n <= Before("send") + i["send"]
  BY <1>9, <1>10, <1>11
<1>14. "recv" \notin hist.cut \/ i["recv"] > 0 =>
         i["recv"] + hist.lost + n <= i["send"]
  BY <1>3, <1>8, <1>12, <1>13, Zenon
<1> QED
  BY <1>3, <1>7, <1>11, <1>14

\* A phase that its receiver has finished had no error among its answers, for
\* recv_writes and recv_reads wait once more for each of them, and send_writes and
\* send_reads push one future per operation.
THEOREM FinishedHadNoErrors == Spec => []FinishedMeansNoErrors
<1>1. RLInv => FinishedMeansNoErrors
  <2> SUFFICES ASSUME RLInv, phase \in Phases, pc = Each("over"), "recv" \notin hist.cut
               PROVE  hist.lost = 0 /\ futures[phase] = <<>>
    BY DEF FinishedMeansNoErrors
  <2>1. futures[phase] \in Seq(Requests)
    BY DEF RLInv, RLTypeOK
  <2>2. Len(futures[phase]) \in Nat
    BY <2>1
  <2>3. hist.lost = 0 /\ Len(futures[phase]) = 0
    BY <2>2, Over, Counts
  <2> QED
    BY <2>1, <2>3, EmptySeq
<1> QED
  BY RLInvInit, RLInvStep, <1>1, PTL DEF Spec

\* The measured loop of the receiver takes no answer to a request of the warm-up.
THEOREM OnlyMeasuredCounted == Spec => []MeasuredOnly
<1>1. RLInv => MeasuredOnly
  BY DEF RLInv, MeasuredOnly
<1> QED
  BY RLInvInit, RLInvStep, <1>1, PTL DEF Spec

\* The receiver's file never accounts for more than the sender's, and for as many
\* operations if time has cut neither.
THEOREM SeriesAgree == Spec => []ReceivedWithinSent
<1>1. RLInv => ReceivedWithinSent
  <2> SUFFICES ASSUME RLInv, phase \in Phases, pc = Each("over")
               PROVE  /\ total["recv"] <= total["send"]
                      /\ hist.cut = {} => total["recv"] = total["send"]
    BY DEF ReceivedWithinSent
  <2>1. Len(futures[phase]) \in Nat
    BY DEF RLInv, RLTypeOK
  <2>2. total["recv"] <= total["send"]
    BY <2>1, Over
  <2>3. hist.cut = {} => "send" \notin hist.cut /\ "recv" \notin hist.cut
    OBVIOUS
  <2> QED
    BY <2>2, <2>3, Over
<1> QED
  BY RLInvInit, RLInvStep, <1>1, PTL DEF Spec

-----------------------------------------------------------------------------
(***************************************************************************)
(* The queues of futures, with their lock, wait and notification, are Fifo *)
(* channels: every step of the threads is a step of Fifo or leaves it as   *)
(* it was.  A receiver has asked while it is inside pop(), asleep or not.  *)
(***************************************************************************)

AskedIn(o) == phase = o /\ pc["recv"] \in {"pop", "wait"}

\* No queue, no answer and no asking changes.
LEMMA Stutters ==
  ASSUME futures' = futures, got' = got,
         \A o \in Phases : AskedIn(o)' <=> AskedIn(o)
  PROVE  UNCHANGED Channels!vars
<1>1. [o \in Phases |-> phase = o /\ pc["recv"] \in {"pop", "wait"}]' =
        [o \in Phases |-> phase = o /\ pc["recv"] \in {"pop", "wait"}]
  BY Zenon DEF AskedIn
<1> QED
  BY <1>1 DEF Channels!vars

\* A receiver that enters pop() asks.
LEMMA Asks ==
  ASSUME NEW o \in Phases, futures' = futures, got' = got,
         ~AskedIn(o), AskedIn(o)',
         \A c \in Phases : c # o => (AskedIn(c)' <=> AskedIn(c))
  PROVE  Channels!Next
<1>1. Channels!Ask(o)
  BY Zenon DEF Channels!Ask, AskedIn
<1> QED
  BY <1>1, Zenon DEF Channels!Next

\* A process that ends while its receiver is inside pop() leaves.
LEMMA Leaves ==
  ASSUME NEW o \in Phases, futures' = futures, got' = got,
         AskedIn(o), ~AskedIn(o)',
         \A c \in Phases : c # o => (AskedIn(c)' <=> AskedIn(c))
  PROVE  Channels!Next
<1>1. Channels!Leave(o)
  BY Zenon DEF Channels!Leave, AskedIn
<1> QED
  BY <1>1, Zenon DEF Channels!Next

\* The key of a request is within what a phase uses up.
LEMMA KeyIsBounded ==
  ASSUME RLInv, phase \in Phases, pc["send"] = "acquire"
  PROVE  key \in 0 .. WarmUpOps + NumOps + ErrorMax
<1>1. /\ "send" \in Threads /\ key \in Nat /\ i["send"] \in Nat /\ err["send"] \in Nat
      /\ LoopInv("send") /\ KeyInv /\ RLTypeOK
  BY DEF RLInv, RLTypeOK, Threads
<1>2. Done("send") = i["send"] /\ i["send"] < Count(loop["send"]) /\ err["send"] <= ErrorMax
  BY <1>1 DEF LoopInv, Done, Body
<1>3. i["send"] < NumOps
  BY <1>1, <1>2, Counts
<1>4. Before("send") \in Nat /\ Before("send") <= WarmUpOps
  BY Counts DEF Before
<1>5. Sent = Before("send") + i["send"]
  BY <1>1, <1>2, <1>4 DEF Sent
<1> QED
  BY <1>1, <1>2, <1>3, <1>4, <1>5, Counts DEF KeyInv

\* queue::push is Fifo's Push.
LEMMA PushPushes ==
  ASSUME RLInv, Push
  PROVE  Channels!Next
<1>1. /\ phase \in Phases /\ pc["send"] = "acquire" /\ got' = got /\ phase' = phase
      /\ futures' = [futures EXCEPT ![phase] = Append(@, <<loop["send"], key>>)]
      /\ pc' = [pc EXCEPT !["send"] = "notify"]
  BY DEF Push, At, Move
<1>2. pc'["recv"] = pc["recv"]
  BY <1>1 DEF RLInv, RLTypeOK, Threads
<1>3. loop["send"] \in {"warm", "measured"}
  BY DEF RLInv, RLTypeOK, Threads
<1>4. <<loop["send"], key>> \in {"warm", "measured"} \X (0 .. WarmUpOps + NumOps + ErrorMax)
  BY <1>1, <1>3, KeyIsBounded
<1>5. [o \in Phases |-> phase = o /\ pc["recv"] \in {"pop", "wait"}]' =
        [o \in Phases |-> phase = o /\ pc["recv"] \in {"pop", "wait"}]
  BY <1>1, <1>2, Zenon
<1>6. Channels!Push(phase)
  BY <1>1, <1>4, <1>5, Zenon DEF Channels!Push
<1> QED
  BY <1>1, <1>6, Zenon DEF Channels!Next

\* The end of queue::pop is Fifo's Pop.
LEMMA PopPops ==
  ASSUME RLInv, PopTakes
  PROVE  Channels!Next
<1>1. PICK o \in Phases : o = phase
  BY DEF PopTakes, At
<1>2. /\ pc["recv"] = "pop" /\ futures[o] # <<>>
      /\ got' = Head(futures[o]) /\ phase' = phase
      /\ futures' = [futures EXCEPT ![o] = Tail(@)]
      /\ pc' = [pc EXCEPT !["recv"] = "get"]
  BY <1>1 DEF PopTakes, At, Move
<1>3. pc'["recv"] = "get"
  BY <1>2 DEF RLInv, RLTypeOK, Threads
<1>4. AskedIn(o) /\ ~AskedIn(o)'
  BY <1>1, <1>2, <1>3 DEF AskedIn
<1>5. \A c \in Phases : c # o => ~AskedIn(c) /\ ~AskedIn(c)'
  BY <1>1, <1>2 DEF AskedIn
<1>6. Channels!Pop(o)
  BY <1>2, <1>4, <1>5, Zenon DEF Channels!Pop, AskedIn
<1> QED
  BY <1>6, Zenon DEF Channels!Next

\* A phase that ends while its queue stays as it was.
LEMMA EndingLeaves ==
  ASSUME phase' \notin Phases, futures' = futures, got' = got
  PROVE  [Channels!Next]_(Channels!vars)
<1>1. \A o \in Phases : ~AskedIn(o)'
  BY DEF AskedIn
<1>2. CASE \E o \in Phases : AskedIn(o)
  <2>1. PICK o \in Phases : AskedIn(o)
    BY <1>2
  <2>2. \A c \in Phases : c # o => ~AskedIn(c)
    BY <2>1 DEF AskedIn
  <2> QED
    BY <1>1, <2>1, <2>2, Leaves
<1>3. CASE \A o \in Phases : ~AskedIn(o)
  BY <1>1, <1>3, Stutters
<1> QED
  BY <1>2, <1>3

\* A step inside a phase that leaves the receiver inside pop(), or out of it.
LEMMA StayingStutters ==
  ASSUME phase' = phase, futures' = futures, got' = got,
         pc'["recv"] \in {"pop", "wait"} <=> pc["recv"] \in {"pop", "wait"}
  PROVE  [Channels!Next]_(Channels!vars)
  BY Stutters, Zenon DEF AskedIn

\* A receiver's body.
LEMMA EnterBodyAsks ==
  ASSUME RLInv, NEW t \in Threads, EnterBody(t)
  PROVE  [Channels!Next]_(Channels!vars)
<1>1. /\ phase \in Phases /\ pc[t] = "head" /\ phase' = phase
      /\ futures' = futures /\ got' = got
      /\ pc' = [pc EXCEPT ![t] = IF t = "send" THEN "acquire" ELSE "pop"]
  BY DEF EnterBody, At, Move
<1>2. CASE t = "send"
  <2>1. pc'["recv"] = pc["recv"]
    BY <1>1, <1>2 DEF RLInv, RLTypeOK, Threads
  <2> QED
    BY <1>1, <2>1, StayingStutters
<1>3. CASE t = "recv"
  <2>1. pc["recv"] = "head" /\ pc'["recv"] = "pop"
    BY <1>1, <1>3 DEF RLInv, RLTypeOK, Threads
  <2>2. ~AskedIn(phase) /\ AskedIn(phase)'
    BY <1>1, <2>1 DEF AskedIn
  <2>3. \A c \in Phases : c # phase => ~AskedIn(c) /\ ~AskedIn(c)'
    BY <1>1 DEF AskedIn
  <2> QED
    BY <1>1, <2>2, <2>3, Asks
<1> QED
  BY <1>2, <1>3 DEF Threads

\* The handler: an exit leaves, if only because the sender takes it.
LEMMA HandleLeaves ==
  ASSUME RLInv, NEW t \in Threads, phase \in Phases, Handle(t), futures' = futures,
         got' = got, t = "recv" => pc["recv"] = "get"
  PROVE  [Channels!Next]_(Channels!vars)
<1>1. CASE phase' = phase /\ pc' = [pc EXCEPT ![t] = "measure"]
  <2>1. pc'["recv"] = IF t = "recv" THEN "measure" ELSE pc["recv"]
    BY <1>1 DEF RLInv, RLTypeOK, Threads
  <2> QED
    BY <1>1, <2>1, StayingStutters
<1>2. CASE phase' = "exited"
  <2>1. phase' \notin Phases
    BY <1>2 DEF Phases
  <2> QED
    BY <2>1, EndingLeaves
<1> QED
  BY <1>1, <1>2 DEF Handle, Move

\* The main thread starts a phase.
LEMMA StartStutters ==
  ASSUME NEW o \in Phases, StartPhase(o), phase \notin Phases, futures' = futures,
         got' = got
  PROVE  [Channels!Next]_(Channels!vars)
<1>1. pc'["recv"] = "head"
  BY DEF StartPhase, Each, Threads
<1>2. \A c \in Phases : ~AskedIn(c) /\ ~AskedIn(c)'
  BY <1>1 DEF AskedIn
<1> QED
  BY <1>2, Stutters

\* Every step is a step of the abstract queues or leaves them as they were.
LEMMA FifoStep == RLInv /\ [Next]_vars => [Channels!Next]_(Channels!vars)
<1> SUFFICES ASSUME RLInv, [Next]_vars PROVE [Channels!Next]_(Channels!vars)
  OBVIOUS
<1>1. "send" \in Threads /\ "recv" \in Threads /\ DOMAIN pc = Threads
  BY DEF RLInv, RLTypeOK, Threads
<1>2. CASE Signal
  <2>1. phase \notin Phases /\ "write" \in Phases /\ futures' = futures /\ got' = got
    BY <1>2 DEF Signal, Phases
  <2>2. StartPhase("write") \/ phase' \in {"reset", "aborted"}
    BY <1>2 DEF Signal, GoTo
  <2>3. CASE StartPhase("write")
    BY <2>1, <2>3, StartStutters
  <2>4. CASE phase' \in {"reset", "aborted"}
    BY <2>1, <2>4, EndingLeaves DEF Phases
  <2> QED
    BY <2>2, <2>3, <2>4
<1>3. CASE Reset
  <2>1. phase \notin Phases /\ "read" \in Phases /\ futures' = futures /\ got' = got
    BY <1>3 DEF Reset, Phases
  <2>2. StartPhase("read") \/ phase' = "finish"
    BY <1>3 DEF Reset, GoTo
  <2>3. CASE StartPhase("read")
    BY <2>1, <2>3, StartStutters
  <2>4. CASE phase' = "finish"
    BY <2>1, <2>4, EndingLeaves DEF Phases
  <2> QED
    BY <2>2, <2>3, <2>4
<1>4. CASE Join \/ Finish \/ Killed
  <2>1. phase' \notin Phases /\ futures' = futures /\ got' = got
    BY <1>4 DEF Join, Finish, Killed, GoTo, Phases
  <2> QED
    BY <2>1, EndingLeaves
<1>5. CASE \E t \in Threads : EnterBody(t)
  BY <1>5, EnterBodyAsks
<1>6. CASE \E t \in Threads : LoopEnds(t) \/ Measure(t)
  <2>1. PICK t \in Threads : LoopEnds(t) \/ Measure(t)
    BY <1>6
  <2>2. /\ phase' = phase /\ futures' = futures /\ got' = got
        /\ pc[t] \in {"head", "measure"}
        /\ \/ pc' = pc
           \/ pc' = [pc EXCEPT ![t] = "over"]
           \/ pc' = [pc EXCEPT ![t] = "head"]
    BY <2>1 DEF LoopEnds, Measure, At, Move
  <2>3. pc'["recv"] \in {"pop", "wait"} <=> pc["recv"] \in {"pop", "wait"}
    BY <1>1, <2>2
  <2> QED
    BY <2>2, <2>3, StayingStutters
<1>7. CASE Push \/ PopTakes
  BY <1>7, PushPushes, PopPops
<1>8. CASE Notify
  <2>1. phase' = phase /\ futures' = futures /\ got' = got /\ pc'["recv"] = Woken
    BY <1>1, <1>8 DEF Notify
  <2>2. pc'["recv"] \in {"pop", "wait"} <=> pc["recv"] \in {"pop", "wait"}
    BY <2>1 DEF Woken
  <2> QED
    BY <2>1, <2>2, StayingStutters
<1>9. CASE SendFails \/ AnsweredError
  BY <1>1, <1>9, HandleLeaves DEF SendFails, AnsweredError, At
<1>10. CASE PopWaits \/ WakesUp \/ Answered
  <2>1. /\ phase' = phase /\ futures' = futures /\ got' = got
        /\ \/ pc["recv"] = "pop" /\ pc' = [pc EXCEPT !["recv"] = "wait"]
           \/ pc["recv"] = "wait" /\ pc' = [pc EXCEPT !["recv"] = "pop"]
           \/ pc["recv"] = "get" /\ pc' = [pc EXCEPT !["recv"] = "measure"]
    BY <1>10 DEF PopWaits, WakesUp, Answered, At, Move
  <2>2. pc'["recv"] \in {"pop", "wait"} <=> pc["recv"] \in {"pop", "wait"}
    BY <1>1, <2>1
  <2> QED
    BY <2>1, <2>2, StayingStutters
<1>11. CASE Expire \/ UNCHANGED vars
  <2>1. phase' = phase /\ futures' = futures /\ got' = got /\ pc' = pc
    BY <1>11 DEF Expire, vars
  <2> QED
    BY <2>1, StayingStutters
<1> QED
  BY <1>1, <1>2, <1>3, <1>4, <1>5, <1>6, <1>7, <1>8, <1>9, <1>10, <1>11
     DEF Next, SenderStep, ReceiverStep, LoopStep

\* The safety part of QueueIsFifo: with the lock, the wait and the notification of
\* queue.h, futures leave the queue once, in the order in which they were pushed,
\* and to a receiver that asked.
THEOREM QueueIsFifoSafe ==
  Spec => Channels!Init /\ [][Channels!Next]_(Channels!vars)
<1>1. Init => Channels!Init
  <2> SUFFICES ASSUME Init PROVE Channels!Init
    OBVIOUS
  <2>1. phase \notin Phases /\ futures = [o \in Phases |-> <<>>] /\ got = <<>>
    BY DEF Init, Phases
  <2>2. [o \in Phases |-> phase = o /\ pc["recv"] \in {"pop", "wait"}] =
          [o \in Phases |-> FALSE]
    BY <2>1, Zenon
  <2> QED
    BY <2>1, <2>2 DEF Channels!Init
<1> QED
  BY RLInvInit, RLInvStep, FifoStep, <1>1, PTL DEF Spec

=============================================================================
