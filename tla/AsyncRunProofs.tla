--------------------------- MODULE AsyncRunProofs ---------------------------
(***************************************************************************)
(* Theorems about run_async, for every number of operations, size of the   *)
(* batches, time bound and number of errors that are put up with.          *)
(***************************************************************************)
EXTENDS AsyncRun, SequenceTheorems, TLAPS

Ops == {"write", "read"}
Places == Loops \union {"signal", "reset", "finish"} \union Ended

\* The variables keep their types.
AsyncTypeOK ==
  /\ iface \in Interfaces
  /\ pc \in Places /\ stage \in {"head", "issue", "wait", "measure"}
  /\ j \in Nat /\ i \in Nat /\ err \in Nat /\ buffer \in Nat /\ batch \in Nat
  /\ counter \in Nat /\ now \in Nat /\ last \in Nat
  /\ futures \in [Ops -> Seq(Nat)] /\ series \in [Ops -> Seq(Nat)]
  /\ hist.full \in [Ops -> Nat] /\ hist.failed \in [Ops -> Nat]

\* What e failed batches may leave behind.
Drift(e) == e * (NAsync - 1)

\* How far full and failed batches bring the counter of a loop.
Reach(full, failed) == NAsync * full + (NAsync - 1) * failed
ReachOf(op) == Reach(hist.full[op], hist.failed[op])

Queued == Len(futures[Op(pc)]) + buffer

\* The queue, stage by stage: there are as many requests as waits to come, and
\* beyond them at most what failed batches have left.
QueueInv ==
  /\ iface = "futures" => buffer = 0
  /\ pc \in {"signal", "reset", "finish"} => buffer = 0
  /\ pc = "signal" => futures["write"] = <<>>
  /\ pc \in {"signal", "warm_write", "write", "reset"} => futures["read"] = <<>>
  /\ pc \in Loops =>
       /\ stage \in {"head", "measure"} => buffer = 0 /\ Queued <= Drift(err)
       /\ stage = "issue" => j < NAsync /\ j <= Queued /\ Queued <= Drift(err) + j
       /\ stage = "wait" => /\ j < NAsync /\ NAsync <= Queued + j
                            /\ Queued + j <= Drift(err) + NAsync

\* The counter of a loop: it is the wrapped -1 between the handler and the end of
\* the body only, and in a measured loop it is behind what the batches have reached.
CounterInv ==
  /\ pc \in Loops =>
       /\ stage = "head" => i < NumOps + NAsync
       /\ stage \in {"issue", "wait"} => i < NumOps
       /\ stage = "measure" => i < NumOps \/ i = SizeMax
  /\ pc \in {"write", "read"} =>
       IF stage = "measure" THEN Add(i, NAsync) <= ReachOf(pc) ELSE i <= ReachOf(pc)

\* async_reads: its counter is the number of reads so far, and its last line is
\* not larger.
ReadInv ==
  /\ pc \in {"signal", "warm_write", "write", "reset", "warm_read"} =>
       series["read"] = <<>> /\ hist.full["read"] = 0
  /\ pc = "read" => /\ counter = NAsync * hist.full["read"]
                    /\ Len(series["read"]) > 0
                    /\ series["read"][Len(series["read"])] <= counter

\* The inductive invariant.
AInv ==
  /\ AsyncTypeOK
  /\ QueueInv
  /\ CounterInv /\ ShortfallIsBounded
  /\ ReadInv /\ ReadLinesAreTotals

-----------------------------------------------------------------------------
(***************************************************************************)
(* Arithmetic.                                                             *)
(***************************************************************************)

\* Each error adds what a batch leaves at most.
LEMMA DriftGrows ==
  /\ Drift(0) = 0
  /\ \A e \in Nat : Drift(e) \in Nat /\ Drift(e + 1) = Drift(e) + NAsync - 1
<1>1. NAsync - 1 \in Nat
  BY AsyncAssumption
<1>2. ASSUME NEW e \in Nat
      PROVE  Drift(e) \in Nat /\ Drift(e + 1) = Drift(e) + NAsync - 1
  <2> DEFINE m == NAsync - 1
  <2>1. m \in Nat
    BY <1>1
  <2> HIDE DEF m
  <2>2. e * m \in Nat /\ (e + 1) * m = e * m + m
    BY <2>1
  <2> QED
    BY <2>2, AsyncAssumption DEF Drift, m
<1> QED
  BY <1>1, <1>2 DEF Drift

\* A full batch reaches NAsync further, a failed one NAsync - 1.
LEMMA ReachGrows ==
  ASSUME NEW f \in Nat, NEW g \in Nat
  PROVE  /\ Reach(f, g) \in Nat
         /\ Reach(f + 1, g) = Reach(f, g) + NAsync
         /\ Reach(f, g + 1) = Reach(f, g) + NAsync - 1
         /\ NAsync * (f + 1) = NAsync * f + NAsync /\ NAsync * f \in Nat
<1> DEFINE m == NAsync - 1
           a == NAsync
<1>1. m \in Nat /\ a \in Nat
  BY AsyncAssumption
<1> HIDE DEF m, a
<1>2. a * f \in Nat /\ a * (f + 1) = a * f + a
  BY <1>1
<1>3. m * g \in Nat /\ m * (g + 1) = m * g + m
  BY <1>1
<1> QED
  BY <1>1, <1>2, <1>3 DEF Reach, m, a

\* i += n_async where the loops do it: it does not wrap, except for the -1 that the
\* handler leaves at 0, which it makes good.
LEMMA AddWraps ==
  /\ \A k \in Nat : k < NumOps => Add(k, NAsync) = k + NAsync
  /\ Add(SizeMax, NAsync) = NAsync - 1
  /\ \A k \in Nat : k < NumOps =>
       /\ Dec(k) \in Nat /\ (Dec(k) < NumOps \/ Dec(k) = SizeMax)
       /\ Add(Dec(k), NAsync) = k + NAsync - 1
<1>1. \A k \in Nat : k < NumOps => Add(k, NAsync) = k + NAsync
  BY AsyncAssumption DEF Add
<1>2. Add(SizeMax, NAsync) = NAsync - 1
  <2>1. SizeMax + NAsync = (SizeMax + 1) + (NAsync - 1)
    BY AsyncAssumption
  <2> QED
    BY <2>1, AsyncAssumption DEF Add
<1> QED
  BY <1>1, <1>2, AsyncAssumption DEF Dec

\* The warm-up is not longer than the run.
LEMMA WarmUpIsShorter == WarmUpOps \in Nat /\ WarmUpOps <= NumOps
<1>1. \A a \in Nat, b \in Nat \ {0} : a \div b \in Int /\ a \div b >= 0 /\ a \div b <= a
  BY SMTT(30)
<1> QED
  BY <1>1, AsyncAssumption DEF WarmUpOps

\* In a loop, the answers are the queue and the buffer.
LEMMA AnswersCount ==
  ASSUME AsyncTypeOK, pc \in Loops
  PROVE  /\ Op(pc) \in Ops
         /\ Answers \in Seq(Nat) /\ Len(Answers) = Queued
         /\ Answers = <<>> <=> Queued = 0
<1>1. Op(pc) \in Ops
  BY DEF Op, Ops
<1>2. futures[Op(pc)] \in Seq(Nat) /\ buffer \in Nat /\ batch \in Nat
  BY <1>1 DEF AsyncTypeOK
<1> DEFINE b == [k \in 1 .. buffer |-> batch]
<1>3. b \in Seq(Nat) /\ Len(b) = buffer
  <2>1. b \in [1 .. buffer -> Nat]
    BY <1>2
  <2>2. b \in Seq(Nat)
    BY <1>2, <2>1, SeqDef
  <2> QED
    BY <1>2, <2>1, <2>2, LenProperties
<1> HIDE DEF b
<1>4. Answers = futures[Op(pc)] \o b
  BY DEF Answers, b
<1>5. Answers \in Seq(Nat) /\ Len(Answers) = Queued
  BY <1>2, <1>3, <1>4, ConcatProperties DEF Queued
<1>6. Answers = <<>> <=> Len(Answers) = 0
  BY <1>5, EmptySeq
<1> QED
  BY <1>1, <1>5, <1>6

\* A wait takes one of them, and leaves the buffer empty.
LEMMA PopTakesOne ==
  ASSUME AsyncTypeOK, PopOldest
  PROVE  /\ pc \in Loops /\ stage = "wait" /\ buffer' = 0 /\ Op(pc) \in Ops
         /\ futures' \in [Ops -> Seq(Nat)]
         /\ Len(futures'[Op(pc)]) = Queued - 1 /\ Queued \in Nat
         /\ \A op \in Ops \ {Op(pc)} : futures'[op] = futures[op]
<1>1. pc \in Loops /\ stage = "wait" /\ Answers # <<>> /\ buffer' = 0
      /\ futures' = [futures EXCEPT ![Op(pc)] = Tail(Answers)]
  BY DEF PopOldest
<1>2. Op(pc) \in Ops /\ Answers \in Seq(Nat) /\ Len(Answers) = Queued
  BY <1>1, AnswersCount
<1>3. Tail(Answers) \in Seq(Nat) /\ Len(Tail(Answers)) = Len(Answers) - 1
  BY <1>1, <1>2, HeadTailProperties
<1>4. Len(Answers) \in Nat
  BY <1>2, LenProperties
<1> QED
  BY <1>1, <1>2, <1>3, <1>4 DEF AsyncTypeOK

\* A line, or a future, at the end of the sequence of an operation.
LEMMA AppendLine ==
  ASSUME NEW f \in [Ops -> Seq(Nat)], NEW op \in Ops, NEW x \in Nat,
         NEW g, g = [f EXCEPT ![op] = Append(@, x)]
  PROVE  /\ g \in [Ops -> Seq(Nat)]
         /\ g[op] = Append(f[op], x) /\ Len(g[op]) = Len(f[op]) + 1
         /\ Len(f[op]) \in Nat
         /\ \A o \in Ops \ {op} : g[o] = f[o]
<1>1. f[op] \in Seq(Nat)
  OBVIOUS
<1> DEFINE a == Append(f[op], x)
<1>2. a \in Seq(Nat) /\ Len(a) = Len(f[op]) + 1 /\ Len(f[op]) \in Nat
  BY <1>1
<1> HIDE DEF a
<1>3. /\ [f EXCEPT ![op] = a] \in [Ops -> Seq(Nat)]
      /\ [f EXCEPT ![op] = a][op] = a
      /\ \A o \in Ops \ {op} : [f EXCEPT ![op] = a][o] = f[o]
  BY <1>2
<1> QED
  BY <1>2, <1>3 DEF a

-----------------------------------------------------------------------------

\* The invariant holds before the signal.
LEMMA AInvInit == Init => AInv
<1> SUFFICES ASSUME Init PROVE AInv
  OBVIOUS
<1>1. AsyncTypeOK
  BY DEF Init, AsyncTypeOK, Ops, Places, Noted
<1>2. /\ pc = "signal" /\ buffer = 0 /\ futures["write"] = <<>>
      /\ futures["read"] = <<>> /\ series["read"] = <<>> /\ hist.full["read"] = 0
  BY DEF Init, Noted
<1>3. Len(series["read"]) = 0
  BY <1>2
<1> QED
  BY <1>1, <1>2, <1>3 DEF AInv, QueueInv, CounterInv, ShortfallIsBounded, ReadInv,
     ReadLinesAreTotals, Loops, WarmLoops

\* Entering a loop with an empty buffer, and with a queue and a series that are in
\* order for it.
LEMMA EnterKeeps ==
  ASSUME AInv, NEW loop \in Loops, Enter(loop), buffer = 0,
         UNCHANGED <<iface, futures, buffer, now, hist>>,
         err' \in Nat, batch' \in Nat,
         Len(futures[Op(loop)]) <= Drift(err'),
         Op(loop) = "write" => pc \in {"signal", "warm_write"},
         Op(loop) = "read" => pc \in {"reset", "warm_read"}
  PROVE  AInv'
<1>1. /\ pc' = loop /\ stage' = "head" /\ i' = 0 /\ j' = 0 /\ Op(loop) \in Ops
      /\ futures \in [Ops -> Seq(Nat)] /\ NAsync \in Nat \ {0} /\ NumOps \in Nat
  BY AsyncAssumption DEF Enter, AInv, AsyncTypeOK, Op, Ops
<1>2. \/ /\ loop \in {"write", "read"} /\ Op(loop) = loop
         /\ counter' = 0 /\ last' = now
         /\ series' = [series EXCEPT ![loop] = Append(@, 0)]
      \/ loop \in {"warm_write", "warm_read"} /\ UNCHANGED <<counter, last, series>>
  BY DEF Enter, Loops, WarmLoops, Op
<1>3. AsyncTypeOK'
  <2>1. series' \in [Ops -> Seq(Nat)]
    <3>1. series \in [Ops -> Seq(Nat)]
      BY DEF AInv, AsyncTypeOK
    <3>2. CASE loop \in Ops
      <4>1. series' = [series EXCEPT ![loop] = Append(@, 0)]
        BY <1>2, <3>2 DEF Ops
      <4> QED
        BY <3>1, <3>2, <4>1, AppendLine
    <3>3. CASE loop \notin Ops
      BY <1>2, <3>1, <3>3 DEF Ops
    <3> QED
      BY <3>2, <3>3
  <2> QED
    BY <1>1, <1>2, <2>1 DEF AInv, AsyncTypeOK, Places
<1>4. QueueInv'
  <2>1. Len(futures[Op(loop)]) \in Nat
    BY <1>1
  <2> QED
    BY <1>1, <1>2, <2>1 DEF AInv, QueueInv, Queued, Op, Loops, WarmLoops
<1>5. CounterInv'
  <2>1. ReachOf(loop)' \in Nat \/ loop \notin Ops
    BY <1>1, ReachGrows DEF AInv, AsyncTypeOK, ReachOf
  <2> QED
    BY <1>1, <2>1 DEF CounterInv, Ops
<1>6. ShortfallIsBounded'
  BY <1>1 DEF AInv, ShortfallIsBounded, Loops, WarmLoops
<1>7. ReadInv' /\ ReadLinesAreTotals'
  <2>1. CASE loop \in {"write", "warm_write"}
    BY <1>1, <1>2, <2>1 DEF AInv, AsyncTypeOK, Ops, ReadInv, ReadLinesAreTotals, Op
  <2>2. CASE loop = "warm_read"
    BY <1>1, <1>2, <2>2 DEF AInv, AsyncTypeOK, Ops, ReadInv, ReadLinesAreTotals, Op
  <2>3. CASE loop = "read"
    <3>1. series["read"] = <<>> /\ hist.full["read"] = 0
      BY <2>3 DEF AInv, ReadInv, Op
    <3>2. series'["read"] = <<0>>
      BY <1>2, <2>3, <3>1 DEF AInv, AsyncTypeOK, Ops
    <3>3. NAsync * 0 = 0
      BY <1>1
    <3> QED
      BY <1>1, <1>2, <2>3, <3>1, <3>2, <3>3 DEF ReadInv, ReadLinesAreTotals
  <2> QED
    BY <2>1, <2>2, <2>3 DEF Loops, WarmLoops
<1> QED
  BY <1>3, <1>4, <1>5, <1>6, <1>7 DEF AInv

\* The steps outside of the loops, and the end of a warm-up.
LEMMA OutsideKeeps ==
  ASSUME AInv,
         \/ SignalRun \/ SignalAbort \/ Reset \/ Finish \/ WarmUpEnds
         \/ CallKills \/ FinishKills \/ Disconnected
  PROVE  AInv'
<1>1. ASSUME NEW place \in {"reset", "finish", "done", "aborted"}, Outside(place),
             UNCHANGED <<iface, futures, buffer, now, hist>>,
             pc \in {"signal", "reset", "finish"},
             place = "reset" => pc = "signal" /\ "write" \notin Mode,
             place = "finish" => pc = "reset" /\ "read" \notin Mode,
             place = "done" => pc = "finish"
      PROVE  AInv'
  <2>1. /\ pc' = place
        /\ UNCHANGED <<stage, j, i, err, batch, counter, last, series>>
    BY <1>1 DEF Outside
  <2>2. AsyncTypeOK'
    BY <1>1, <2>1 DEF AInv, AsyncTypeOK, Places, Ended
  <2>3. QueueInv'
    BY <1>1, <2>1 DEF AInv, QueueInv, Loops, WarmLoops
  <2>4. CounterInv' /\ ShortfallIsBounded'
    BY <1>1, <2>1 DEF AInv, CounterInv, ShortfallIsBounded, Loops, WarmLoops
  <2>5. ReadInv' /\ ReadLinesAreTotals'
    BY <1>1, <2>1 DEF AInv, ReadInv, ReadLinesAreTotals
  <2> QED
    BY <2>2, <2>3, <2>4, <2>5 DEF AInv
<1>2. CASE SignalRun
  <2>1. CASE "write" \in Mode
    <3>1. PICK loop \in {"warm_write", "write"} : Enter(loop)
      BY <1>2, <2>1 DEF SignalRun, EnterPhase
    <3>2. /\ buffer = 0 /\ err' = 0 /\ batch' = 0 /\ pc = "signal" /\ Op(loop) = "write"
          /\ UNCHANGED <<iface, futures, buffer, now, hist>>
      BY <1>2, <2>1 DEF SignalRun, EnterPhase, AInv, QueueInv, Op
    <3>3. Len(futures[Op(loop)]) <= Drift(err')
      <4>1. Len(futures[Op(loop)]) = 0
        BY <3>2 DEF AInv, QueueInv
      <4>2. Drift(err') = 0
        BY <3>2, DriftGrows
      <4> QED
        BY <4>1, <4>2
    <3>4. loop \in Loops
      BY DEF Loops, WarmLoops
    <3> QED
      BY <3>1, <3>2, <3>3, <3>4, EnterKeeps
  <2>2. CASE "write" \notin Mode
    BY <1>1, <1>2, <2>2 DEF SignalRun
  <2> QED
    BY <2>1, <2>2
<1>3. CASE SignalAbort
  BY <1>1, <1>3 DEF SignalAbort
<1>4. CASE Reset
  <2>1. CASE "read" \in Mode
    <3>1. PICK loop \in {"warm_read", "read"} : Enter(loop)
      BY <1>4, <2>1 DEF Reset, EnterPhase
    <3>2. /\ buffer = 0 /\ err' = 0 /\ batch' = 0 /\ pc = "reset" /\ Op(loop) = "read"
          /\ UNCHANGED <<iface, futures, buffer, now, hist>>
      BY <1>4, <2>1 DEF Reset, EnterPhase, AInv, QueueInv, Op
    <3>3. Len(futures[Op(loop)]) <= Drift(err')
      <4>1. Len(futures[Op(loop)]) = 0
        BY <3>2 DEF AInv, QueueInv
      <4>2. Drift(err') = 0
        BY <3>2, DriftGrows
      <4> QED
        BY <4>1, <4>2
    <3>4. loop \in Loops
      BY DEF Loops, WarmLoops
    <3> QED
      BY <3>1, <3>2, <3>3, <3>4, EnterKeeps
  <2>2. CASE "read" \notin Mode
    BY <1>1, <1>4, <2>2 DEF Reset
  <2> QED
    BY <2>1, <2>2
<1>5. CASE Finish
  BY <1>1, <1>5 DEF Finish
<1>6. CASE WarmUpEnds
  <2>1. /\ pc \in WarmLoops /\ stage = "head" /\ Enter(Op(pc))
        /\ UNCHANGED <<iface, err, futures, buffer, batch, now, hist>>
    BY <1>6 DEF WarmUpEnds
  <2>2. Op(pc) \in Loops /\ Op(Op(pc)) = Op(pc) /\ pc \in Loops
    BY <2>1 DEF Op, Loops, WarmLoops
  <2>3. buffer = 0 /\ Len(futures[Op(pc)]) <= Drift(err)
    <3>1. Len(futures[Op(pc)]) \in Nat
      BY <2>2, AnswersCount DEF AInv, AsyncTypeOK
    <3> QED
      BY <2>1, <2>2, <3>1 DEF AInv, QueueInv, Queued
  <2>4. /\ Op(pc) = "write" => pc \in {"signal", "warm_write"}
        /\ Op(pc) = "read" => pc \in {"reset", "warm_read"}
    BY <2>1 DEF Op, WarmLoops
  <2>5. err' \in Nat /\ batch' \in Nat
    BY <2>1 DEF AInv, AsyncTypeOK
  <2> QED
    BY <2>1, <2>2, <2>3, <2>4, <2>5, EnterKeeps
<1>7. CASE CallKills \/ FinishKills \/ Disconnected
  <2>1. /\ pc' = "killed"
        /\ UNCHANGED <<iface, stage, j, i, err, futures, buffer, batch, counter, series,
                       now, last, hist>>
    BY <1>7 DEF CallKills, FinishKills, Disconnected, Outside
  <2> QED
    BY <2>1 DEF AInv, AsyncTypeOK, QueueInv, CounterInv, ShortfallIsBounded,
       ReadInv, ReadLinesAreTotals, Loops, WarmLoops, Places, Ended
<1> QED
  BY <1>2, <1>3, <1>4, <1>5, <1>6, <1>7

\* A new batch: the loop condition bounds the counter.
LEMMA StartBatchKeeps ==
  ASSUME AInv, StartBatch
  PROVE  AInv'
<1>1. /\ pc \in Loops /\ stage = "head" /\ stage' = "issue" /\ j' = 0
      /\ batch' = batch + 1 /\ i < Count(pc)
      /\ UNCHANGED <<iface, pc, i, err, futures, buffer, counter, series, now, last,
                     hist>>
  BY DEF StartBatch, LoopCondition
<1>2. Count(pc) \in Nat /\ Count(pc) <= NumOps /\ NumOps \in Nat /\ NAsync \in Nat \ {0}
  BY WarmUpIsShorter, AsyncAssumption DEF Count
<1>3. AsyncTypeOK'
  BY <1>1 DEF AInv, AsyncTypeOK
<1>4. Queued' = Queued /\ Queued \in Nat /\ Drift(err) \in Nat
  BY <1>1, AnswersCount, LenProperties, DriftGrows DEF AInv, AsyncTypeOK, Queued
<1>5. QueueInv'
  BY <1>1, <1>2, <1>4 DEF AInv, QueueInv
<1>6. CounterInv' /\ ShortfallIsBounded'
  <2>1. i \in Nat
    BY DEF AInv, AsyncTypeOK
  <2> QED
    BY <1>1, <1>2, <2>1 DEF AInv, CounterInv, ShortfallIsBounded, ReachOf
<1>7. ReadInv' /\ ReadLinesAreTotals'
  BY <1>1 DEF AInv, ReadInv, ReadLinesAreTotals
<1> QED
  BY <1>3, <1>5, <1>6, <1>7 DEF AInv

\* A request of the batch.
LEMMA IssueKeeps ==
  ASSUME AInv, Issue
  PROVE  AInv'
<1>1. /\ pc \in Loops /\ stage = "issue"
      /\ UNCHANGED <<iface, pc, i, err, batch, counter, series, now, last>>
      /\ \/ j + 1 < NAsync /\ j' = j + 1 /\ stage' = "issue"
         \/ ~(j + 1 < NAsync) /\ j' = 0 /\ stage' = "wait"
      /\ hist'.full = hist.full /\ hist'.failed = hist.failed
  BY DEF Issue, Noted
<1>2. /\ Op(pc) \in Ops /\ batch \in Nat /\ j \in Nat /\ i \in Nat /\ buffer \in Nat
      /\ futures \in [Ops -> Seq(Nat)] /\ Len(futures[Op(pc)]) \in Nat
      /\ NAsync \in Nat \ {0} /\ NumOps \in Nat /\ Drift(err) \in Nat
  BY <1>1, AnswersCount, LenProperties, DriftGrows, AsyncAssumption
     DEF AInv, AsyncTypeOK
<1>3. /\ futures' \in [Ops -> Seq(Nat)] /\ buffer' \in Nat
      /\ Queued' = Queued + 1 /\ Queued \in Nat
      /\ \A op \in Ops \ {Op(pc)} : futures'[op] = futures[op]
      /\ iface # "batched" => buffer' = buffer
  <2>1. CASE iface = "batched"
    <3>1. buffer' = buffer + 1 /\ futures' = futures
      BY <2>1 DEF Issue
    <3> QED
      BY <1>1, <1>2, <2>1, <3>1 DEF Queued
  <2>2. CASE iface # "batched"
    <3>1. buffer' = buffer /\ futures' = [futures EXCEPT ![Op(pc)] = Append(@, batch)]
      BY <2>2 DEF Issue
    <3>2. /\ futures' \in [Ops -> Seq(Nat)]
          /\ Len(futures'[Op(pc)]) = Len(futures[Op(pc)]) + 1
          /\ \A op \in Ops \ {Op(pc)} : futures'[op] = futures[op]
      BY <1>2, <3>1, AppendLine
    <3>3. PICK n \in Nat : n = Len(futures[Op(pc)])
      BY <1>2
    <3>4. Queued = n + buffer /\ Queued' = (n + 1) + buffer
      BY <1>1, <3>1, <3>2, <3>3 DEF Queued
    <3>5. Queued' = Queued + 1 /\ Queued \in Nat
      BY <1>2, <3>4
    <3> QED
      BY <1>2, <3>1, <3>2, <3>5
  <2> QED
    BY <2>1, <2>2
<1>4. AsyncTypeOK'
  <2>1. j' \in Nat /\ stage' \in {"head", "issue", "wait", "measure"}
    BY <1>1, <1>2
  <2> QED
    BY <1>1, <1>3, <2>1 DEF AInv, AsyncTypeOK
<1>5. QueueInv'
  <2>1. j < NAsync /\ j <= Queued /\ Queued <= Drift(err) + j
    BY <1>1 DEF AInv, QueueInv
  <2>2. pc \in {"warm_write", "write"} => futures'["read"] = <<>>
    BY <1>3 DEF AInv, QueueInv, Op, Ops
  <2> QED
    BY <1>1, <1>2, <1>3, <2>1, <2>2 DEF AInv, QueueInv, Loops, WarmLoops
<1>6. CounterInv' /\ ShortfallIsBounded'
  BY <1>1, <1>2 DEF AInv, CounterInv, ShortfallIsBounded, ReachOf
<1>7. ReadInv' /\ ReadLinesAreTotals'
  BY <1>1 DEF AInv, ReadInv, ReadLinesAreTotals
<1> QED
  BY <1>4, <1>5, <1>6, <1>7 DEF AInv

\* A wait that succeeds; the last one of a measured batch counts it.
LEMMA WaitOkKeeps ==
  ASSUME AInv, WaitOk
  PROVE  AInv'
<1>1. /\ pc \in Loops /\ stage = "wait" /\ buffer' = 0 /\ Op(pc) \in Ops
      /\ futures' \in [Ops -> Seq(Nat)]
      /\ Len(futures'[Op(pc)]) = Queued - 1 /\ Queued \in Nat
      /\ \A op \in Ops \ {Op(pc)} : futures'[op] = futures[op]
  BY PopTakesOne DEF AInv, WaitOk
<1>2. /\ UNCHANGED <<iface, pc, i, err, batch, series, now, last>>
      /\ \/ /\ j + 1 < NAsync
            /\ j' = j + 1 /\ UNCHANGED <<stage, counter, hist>>
         \/ /\ ~(j + 1 < NAsync) /\ j' = 0 /\ stage' = "measure"
            /\ pc \in WarmLoops /\ UNCHANGED <<counter, hist>>
         \/ /\ ~(j + 1 < NAsync) /\ j' = 0 /\ stage' = "measure"
            /\ pc \notin WarmLoops
            /\ counter' = counter + NAsync /\ hist' = NoteFull
  BY DEF WaitOk
<1>3. /\ i \in Nat /\ i < NumOps /\ j \in Nat /\ counter \in Nat /\ err \in Nat
      /\ hist.full \in [Ops -> Nat] /\ hist.failed \in [Ops -> Nat]
      /\ NAsync \in Nat \ {0} /\ NumOps \in Nat /\ Drift(err) \in Nat
  BY <1>1, DriftGrows, AsyncAssumption DEF AInv, AsyncTypeOK, CounterInv
<1>4. /\ hist' = hist \/ hist' = NoteFull
      /\ hist'.full \in [Ops -> Nat] /\ hist'.failed = hist.failed
      /\ hist' = NoteFull => hist'.full[Op(pc)] = hist.full[Op(pc)] + 1
      /\ \A op \in Ops \ {Op(pc)} : hist'.full[op] = hist.full[op]
  <2>1. CASE hist' = hist
    BY <1>1, <1>2, <1>3, <2>1 DEF NoteFull, Noted
  <2>2. CASE hist' = NoteFull
    BY <1>1, <1>3, <2>2, SMTT(20) DEF NoteFull, Noted
  <2> QED
    BY <1>2, <2>1, <2>2
<1>5. AsyncTypeOK'
  <2>1. UNCHANGED <<iface, pc, i, err, batch, series, now, last>>
    BY <1>2
  <2>2. stage' \in {"wait", "measure"} /\ j' \in Nat /\ counter' \in Nat
    BY <1>1, <1>2, <1>3
  <2>3. hist'.full \in [Ops -> Nat] /\ hist'.failed \in [Ops -> Nat]
    BY <1>3, <1>4
  <2> QED
    BY <1>1, <2>1, <2>2, <2>3 DEF AInv, AsyncTypeOK
<1>6. QueueInv'
  <2>1. j < NAsync /\ NAsync <= Queued + j /\ Queued + j <= Drift(err) + NAsync
    BY <1>1 DEF AInv, QueueInv
  <2>2. Queued' = Queued - 1
    BY <1>1, <1>2 DEF Queued
  <2>3. pc \in {"warm_write", "write"} => futures'["read"] = <<>>
    BY <1>1 DEF AInv, QueueInv, Op, Ops
  <2> QED
    BY <1>1, <1>2, <1>3, <2>1, <2>2, <2>3 DEF AInv, QueueInv, Loops, WarmLoops
<1>7. CounterInv'
  <2>1. Add(i, NAsync) = i + NAsync
    BY <1>3, AddWraps
  <2>2. pc \in {"write", "read"} => pc = Op(pc) /\ pc \notin WarmLoops
    BY DEF Op, WarmLoops
  <2>3. pc \in {"write", "read"} => i <= ReachOf(pc) /\ ReachOf(pc) \in Nat
    BY <1>1, <1>3, <2>2, ReachGrows DEF AInv, CounterInv, ReachOf
  <2>4. pc \in {"write", "read"} /\ hist' = NoteFull =>
          ReachOf(pc)' = ReachOf(pc) + NAsync
    <3> SUFFICES ASSUME pc \in {"write", "read"}, hist' = NoteFull
                 PROVE  ReachOf(pc)' = ReachOf(pc) + NAsync
      OBVIOUS
    <3> DEFINE f == hist.full[pc]
               g == hist.failed[pc]
    <3>1. f \in Nat /\ g \in Nat
      BY <1>1, <1>3, <2>2
    <3>2. pc' = pc /\ hist'.full[pc] = f + 1 /\ hist'.failed[pc] = g
      BY <1>2, <1>4, <2>2
    <3>3. ReachOf(pc)' = Reach(f + 1, g) /\ ReachOf(pc) = Reach(f, g)
      BY <3>2 DEF ReachOf
    <3> HIDE DEF f, g
    <3>4. Reach(f + 1, g) = Reach(f, g) + NAsync
      BY <3>1, ReachGrows
    <3> QED
      BY <3>3, <3>4
  <2>5. hist' = hist => ReachOf(pc)' = ReachOf(pc)
    BY <1>2 DEF ReachOf
  <2>6. \/ stage' = "wait" /\ hist' = hist
        \/ stage' = "measure" /\ (pc \in WarmLoops \/ hist' = NoteFull)
    BY <1>1, <1>2
  <2> QED
    BY <1>1, <1>2, <1>3, <2>1, <2>2, <2>3, <2>4, <2>5, <2>6 DEF CounterInv
<1>8. ShortfallIsBounded'
  BY <1>1, <1>2 DEF ShortfallIsBounded, Loops, WarmLoops
<1>9. ReadInv' /\ ReadLinesAreTotals'
  <2>1. NAsync * (hist.full["read"] + 1) = NAsync * hist.full["read"] + NAsync
    BY <1>3, ReachGrows DEF Ops
  <2>2. pc = "read" => Op(pc) = "read" /\ pc \notin WarmLoops
    BY DEF Op, WarmLoops
  <2>3. pc = "warm_read" => hist' = hist
    BY <1>2 DEF WarmLoops
  <2>4. pc \in {"warm_write", "write"} => hist'.full["read"] = hist.full["read"]
    BY <1>4 DEF Op, Ops
  <2>5. pc = "read" => \/ hist' = hist /\ counter' = counter
                       \/ /\ hist'.full["read"] = hist.full["read"] + 1
                          /\ counter' = counter + NAsync
    BY <1>2, <1>4, <2>2
  <2>6. series["read"] \in Seq(Nat)
    BY DEF AInv, AsyncTypeOK, Ops
  <2>7. Len(series["read"]) > 0 =>
          Len(series["read"]) \in Nat /\ series["read"][Len(series["read"])] \in Nat
    BY <2>6, LenProperties, ElementOfSeq
  <2>8. series' = series /\ pc' = pc /\ pc \in Loops
    BY <1>1, <1>2
  <2>9. ReadLinesAreTotals'
    BY <2>8 DEF AInv, ReadLinesAreTotals, Loops, WarmLoops
  <2>10. CASE pc # "read"
    BY <2>3, <2>4, <2>8, <2>9, <2>10 DEF AInv, ReadInv, Loops, WarmLoops
  <2>11. CASE pc = "read"
    <3>1. /\ counter = NAsync * hist.full["read"] /\ Len(series["read"]) > 0
          /\ series["read"][Len(series["read"])] <= counter
      BY <2>11 DEF AInv, ReadInv
    <3>2. counter' = NAsync * hist'.full["read"] /\ counter <= counter'
      BY <1>3, <2>1, <2>5, <2>11, <3>1
    <3>3. series["read"][Len(series["read"])] <= counter'
      BY <1>3, <2>5, <2>7, <2>11, <3>1
    <3> QED
      BY <2>8, <2>9, <2>11, <3>1, <3>2, <3>3 DEF ReadInv
  <2> QED
    BY <2>10, <2>11
<1> QED
  BY <1>5, <1>6, <1>7, <1>8, <1>9 DEF AInv

\* The handler, after a request or a wait that failed: the batch leaves at most
\* NAsync - 1 answers behind, and the loop goes on by NAsync - 1.
LEMMA HandleKeeps ==
  ASSUME AInv, IssueFails \/ WaitFails
  PROVE  AInv'
<1>1. /\ pc \in Loops /\ stage \in {"issue", "wait"} /\ buffer' = 0 /\ Op(pc) \in Ops
      /\ futures' \in [Ops -> Seq(Nat)]
      /\ Len(futures'[Op(pc)]) <= Drift(err) + NAsync - 1
      /\ \A op \in Ops \ {Op(pc)} : futures'[op] = futures[op]
  <2>1. Drift(err) \in Nat /\ NAsync \in Nat \ {0} /\ j \in Nat
    BY DriftGrows, AsyncAssumption DEF AInv, AsyncTypeOK
  <2>2. CASE IssueFails
    <3>1. /\ pc \in Loops /\ stage = "issue" /\ iface = "futures"
          /\ UNCHANGED <<futures, buffer>>
      BY <2>2 DEF IssueFails
    <3>2. Op(pc) \in Ops
      BY <3>1, AnswersCount DEF AInv
    <3>3. futures \in [Ops -> Seq(Nat)] /\ Len(futures[Op(pc)]) \in Nat
      BY <3>2 DEF AInv, AsyncTypeOK
    <3>4. buffer = 0 /\ j < NAsync /\ Queued <= Drift(err) + j
      BY <3>1 DEF AInv, QueueInv
    <3> QED
      BY <2>1, <3>1, <3>2, <3>3, <3>4 DEF Queued
  <2>3. CASE WaitFails
    <3>1. /\ pc \in Loops /\ stage = "wait" /\ buffer' = 0 /\ Op(pc) \in Ops
          /\ futures' \in [Ops -> Seq(Nat)]
          /\ Len(futures'[Op(pc)]) = Queued - 1 /\ Queued \in Nat
          /\ \A op \in Ops \ {Op(pc)} : futures'[op] = futures[op]
      BY <2>3, PopTakesOne DEF AInv, WaitFails
    <3>2. Queued + j <= Drift(err) + NAsync
      BY <3>1 DEF AInv, QueueInv
    <3> QED
      BY <2>1, <3>1, <3>2
  <2> QED
    BY <2>2, <2>3
<1>2. /\ i' = Dec(i) /\ err' = err + 1
      /\ UNCHANGED <<iface, j, batch, counter, series, now, last>>
  BY DEF IssueFails, WaitFails, Handle
<1>3. \/ pc' = "exited" /\ stage' = stage /\ hist' = hist
      \/ /\ pc' = pc /\ stage' = "measure"
         /\ hist' = IF pc \in WarmLoops THEN hist ELSE NoteFailed
  BY DEF IssueFails, WaitFails, Handle
<1>4. /\ i \in Nat /\ i < NumOps /\ err \in Nat
      /\ hist.full \in [Ops -> Nat] /\ hist.failed \in [Ops -> Nat]
      /\ NAsync \in Nat \ {0} /\ NumOps \in Nat /\ Drift(err) \in Nat
  BY <1>1, DriftGrows, AsyncAssumption DEF AInv, AsyncTypeOK, CounterInv
<1>5. /\ i' \in Nat /\ (i' < NumOps \/ i' = SizeMax)
      /\ Add(i', NAsync) = i + NAsync - 1
  BY <1>2, <1>4, AddWraps
<1>6. /\ hist' = hist \/ hist' = NoteFailed
      /\ hist'.failed \in [Ops -> Nat] /\ hist'.full = hist.full
      /\ hist' = NoteFailed => hist'.failed[Op(pc)] = hist.failed[Op(pc)] + 1
  <2>1. CASE hist' = hist
    BY <1>1, <1>4, <2>1 DEF NoteFailed, Noted
  <2>2. CASE hist' = NoteFailed
    BY <1>1, <1>4, <2>2 DEF NoteFailed, Noted
  <2> QED
    BY <1>3, <2>1, <2>2
<1>7. AsyncTypeOK'
  <2>1. pc' \in Places /\ stage' \in {"issue", "wait", "measure"} /\ err' \in Nat
    BY <1>1, <1>2, <1>3, <1>4 DEF Places, Ended
  <2>2. hist'.full \in [Ops -> Nat] /\ hist'.failed \in [Ops -> Nat]
    BY <1>4, <1>6
  <2> QED
    BY <1>1, <1>2, <1>5, <2>1, <2>2 DEF AInv, AsyncTypeOK
<1>8. CASE pc' = "exited"
  <2>1. QueueInv' /\ CounterInv' /\ ShortfallIsBounded' /\ ReadInv'
    BY <1>1, <1>8 DEF QueueInv, CounterInv, ShortfallIsBounded, ReadInv, Loops,
       WarmLoops
  <2>2. ReadLinesAreTotals'
    BY <1>2, <1>8 DEF AInv, ReadLinesAreTotals
  <2> QED
    BY <1>7, <2>1, <2>2 DEF AInv
<1>9. CASE pc' = pc /\ stage' = "measure"
  <2>1. QueueInv'
    <3>1. Queued' = Len(futures'[Op(pc)]) /\ Len(futures'[Op(pc)]) \in Nat
      BY <1>1, <1>9 DEF Queued
    <3>2. Queued' <= Drift(err')
      BY <1>1, <1>2, <1>4, <3>1, DriftGrows
    <3>3. pc \in {"warm_write", "write"} => futures'["read"] = <<>>
      BY <1>1 DEF AInv, QueueInv, Op, Ops
    <3> QED
      BY <1>1, <1>9, <3>2, <3>3 DEF QueueInv, Loops, WarmLoops
  <2>2. CounterInv'
    <3>1. ASSUME pc \in {"write", "read"} PROVE i + NAsync - 1 <= ReachOf(pc)'
      <4> DEFINE f == hist.full[pc]
                 g == hist.failed[pc]
      <4>1. pc = Op(pc) /\ pc \notin WarmLoops /\ pc # "exited"
        BY <3>1 DEF Op, WarmLoops
      <4>2. f \in Nat /\ g \in Nat
        BY <1>1, <1>4, <4>1
      <4>3. hist' = NoteFailed
        BY <1>3, <1>9, <4>1
      <4>4. hist'.full[pc] = f /\ hist'.failed[pc] = g + 1
        BY <1>6, <4>1, <4>3
      <4>5. ReachOf(pc)' = Reach(f, g + 1) /\ ReachOf(pc) = Reach(f, g)
        BY <1>9, <4>4 DEF ReachOf
      <4>6. i <= Reach(f, g)
        BY <1>1, <3>1, <4>5 DEF AInv, CounterInv
      <4>7. Reach(f, g) \in Nat /\ Reach(f, g + 1) = Reach(f, g) + NAsync - 1
        BY <4>2, ReachGrows
      <4> HIDE DEF f, g
      <4> QED
        BY <1>4, <4>5, <4>6, <4>7
    <3> QED
      BY <1>5, <1>9, <3>1 DEF CounterInv
  <2>3. ShortfallIsBounded'
    BY <1>1, <1>9 DEF ShortfallIsBounded, Loops, WarmLoops
  <2>4. ReadInv' /\ ReadLinesAreTotals'
    BY <1>1, <1>2, <1>6, <1>9 DEF AInv, ReadInv, ReadLinesAreTotals, Loops, WarmLoops
  <2> QED
    BY <1>7, <2>1, <2>2, <2>3, <2>4 DEF AInv
<1> QED
  BY <1>3, <1>8, <1>9

\* A line at the end of the read series that is not below the last one keeps the
\* series growing.
LEMMA ReadLineAppended ==
  ASSUME AInv, pc = "read", series' = [series EXCEPT !["read"] = Append(@, counter)]
  PROVE  /\ \A k \in 1 .. Len(series'["read"]) - 1 :
              series'["read"][k] <= series'["read"][k + 1]
         /\ Len(series'["read"]) > 0
         /\ series'["read"][Len(series'["read"])] = counter
<1> DEFINE s == series["read"]
           z == series'["read"]
<1>1. s \in Seq(Nat) /\ Len(s) \in Nat /\ counter \in Nat
  BY DEF AInv, AsyncTypeOK, Ops
<1>2. Len(s) > 0 /\ s[Len(s)] <= counter
      /\ \A k \in 1 .. Len(s) - 1 : s[k] <= s[k + 1]
  BY DEF AInv, ReadInv, ReadLinesAreTotals
<1>3. z = Append(s, counter) /\ Len(z) = Len(s) + 1
  BY <1>1, AppendLine DEF AInv, AsyncTypeOK, Ops
<1> HIDE DEF s, z
<1>4. /\ z[Len(z)] = counter
      /\ \A k \in 1 .. Len(s) : z[k] = s[k]
  BY <1>1, <1>3
<1>5. \A k \in 1 .. Len(z) - 1 : z[k] <= z[k + 1]
  BY <1>1, <1>2, <1>3, <1>4
<1> QED
  BY <1>1, <1>3, <1>4, <1>5 DEF s, z

\* The end of the loop body.
LEMMA MeasureKeeps ==
  ASSUME AInv, Measure
  PROVE  AInv'
<1>1. /\ pc \in Loops /\ stage = "measure" /\ i' = Add(i, NAsync)
      /\ stage' = "head" /\ j' = 0
      /\ UNCHANGED <<iface, pc, err, futures, buffer, batch, now, hist>>
  BY DEF Measure
<1>2. \/ UNCHANGED <<series, counter, last>>
      \/ /\ pc \in {"write", "read"} /\ last' = now
         /\ series' = [series EXCEPT ![pc] = Append(@, counter)]
         /\ counter' = IF pc = "write" THEN 0 ELSE counter
  BY <1>1 DEF Measure, Op, Loops, WarmLoops
<1>3. /\ i \in Nat /\ counter \in Nat /\ now \in Nat /\ series \in [Ops -> Seq(Nat)]
      /\ NAsync \in Nat \ {0} /\ NumOps \in Nat /\ SizeMax \in Nat
  BY AsyncAssumption DEF AInv, AsyncTypeOK
<1>4. i' \in Nat /\ i' < NumOps + NAsync
  <2>1. i < NumOps \/ i = SizeMax
    BY <1>1 DEF AInv, CounterInv
  <2> QED
    BY <1>1, <1>3, <2>1, AddWraps
<1>5. series' \in [Ops -> Seq(Nat)] /\ counter' \in Nat /\ last' \in Nat
  <2>1. CASE UNCHANGED <<series, counter, last>>
    BY <2>1 DEF AInv, AsyncTypeOK
  <2>2. CASE /\ pc \in Ops /\ last' = now
             /\ series' = [series EXCEPT ![pc] = Append(@, counter)]
             /\ counter' = IF pc = "write" THEN 0 ELSE counter
    BY <1>3, <2>2, AppendLine
  <2> QED
    BY <1>2, <2>1, <2>2 DEF Ops
<1>6. AsyncTypeOK'
  BY <1>1, <1>4, <1>5 DEF AInv, AsyncTypeOK
<1>7. QueueInv'
  <2>1. Queued' = Queued
    BY <1>1 DEF Queued
  <2> QED
    BY <1>1, <2>1 DEF AInv, QueueInv
<1>8. CounterInv' /\ ShortfallIsBounded'
  <2>1. ReachOf(pc)' = ReachOf(pc)
    BY <1>1 DEF ReachOf
  <2>2. pc \in {"write", "read"} => Add(i, NAsync) <= ReachOf(pc)
    BY <1>1 DEF AInv, CounterInv
  <2> QED
    BY <1>1, <1>4, <2>1, <2>2 DEF CounterInv, ShortfallIsBounded, Loops, WarmLoops
<1>9. ReadInv' /\ ReadLinesAreTotals'
  <2>1. CASE UNCHANGED <<series, counter, last>>
    BY <1>1, <2>1 DEF AInv, ReadInv, ReadLinesAreTotals
  <2>2. CASE pc = "write" /\ series' = [series EXCEPT !["write"] = Append(@, counter)]
    <3>1. series'["read"] = series["read"]
      BY <1>3, <2>2 DEF Ops
    <3> QED
      BY <1>1, <2>2, <3>1 DEF AInv, ReadInv, ReadLinesAreTotals
  <2>3. CASE /\ pc = "read" /\ series' = [series EXCEPT !["read"] = Append(@, counter)]
             /\ counter' = counter
    <3>1. /\ \A k \in 1 .. Len(series'["read"]) - 1 :
               series'["read"][k] <= series'["read"][k + 1]
          /\ Len(series'["read"]) > 0
          /\ series'["read"][Len(series'["read"])] <= counter
      BY <1>3, <2>3, ReadLineAppended
    <3> QED
      BY <1>1, <2>3, <3>1 DEF AInv, ReadInv, ReadLinesAreTotals
  <2> QED
    BY <1>2, <2>1, <2>2, <2>3
<1> QED
  BY <1>6, <1>7, <1>8, <1>9 DEF AInv

\* The end of a measured loop, with its last line.
LEMMA LoopEndsKeeps ==
  ASSUME AInv, LoopEnds
  PROVE  AInv'
<1>1. /\ pc \in {"write", "read"} /\ Op(pc) = pc /\ stage = "head" /\ ~LoopCondition
      /\ series' = [series EXCEPT ![pc] = Append(@, counter)]
      /\ pc' = IF pc = "write" THEN "reset" ELSE "finish"
      /\ UNCHANGED <<iface, stage, j, i, err, futures, buffer, batch, counter, now,
                     last, hist>>
  BY DEF LoopEnds, Loops, WarmLoops, Op
<1>2. /\ i \in Nat /\ now \in Nat /\ counter \in Nat /\ series \in [Ops -> Seq(Nat)]
      /\ pc \in Ops /\ pc \in Loops /\ NumOps \in Nat /\ MaxSeconds \in Nat
      /\ ReachOf(pc) \in Nat
  <2>1. pc \in Ops /\ pc \in Loops
    BY <1>1 DEF Ops, Loops
  <2>2. hist.full[pc] \in Nat /\ hist.failed[pc] \in Nat
    BY <2>1 DEF AInv, AsyncTypeOK
  <2> QED
    BY <2>1, <2>2, ReachGrows, AsyncAssumption DEF AInv, AsyncTypeOK, ReachOf
<1>3. AsyncTypeOK'
  <2>1. series' \in [Ops -> Seq(Nat)]
    BY <1>1, <1>2, AppendLine
  <2> QED
    BY <1>1, <2>1 DEF AInv, AsyncTypeOK, Places
<1>4. QueueInv'
  BY <1>1, <1>2 DEF AInv, QueueInv, Loops, WarmLoops
<1>5. now < MaxSeconds => ReachOf(pc) >= NumOps
  <2>1. i <= ReachOf(pc)
    BY <1>1 DEF AInv, CounterInv
  <2>2. Count(pc) = NumOps
    BY <1>1 DEF Count, WarmLoops
  <2> QED
    BY <1>1, <1>2, <2>1, <2>2 DEF LoopCondition
<1>6. CounterInv' /\ ShortfallIsBounded'
  BY <1>1, <1>5 DEF CounterInv, ShortfallIsBounded, Loops, WarmLoops, ReachOf, Reach
<1>7. ReadInv' /\ ReadLinesAreTotals'
  <2>1. CASE pc = "write"
    <3>1. series'["read"] = series["read"]
      BY <1>1, <1>2, <2>1 DEF Ops
    <3> QED
      BY <1>1, <2>1, <3>1 DEF AInv, ReadInv, ReadLinesAreTotals
  <2>2. CASE pc = "read"
    <3>1. /\ \A k \in 1 .. Len(series'["read"]) - 1 :
               series'["read"][k] <= series'["read"][k + 1]
          /\ series'["read"][Len(series'["read"])] = counter
      BY <1>1, <2>2, ReadLineAppended
    <3>2. counter = NAsync * hist.full["read"]
      BY <2>2 DEF AInv, ReadInv
    <3> QED
      BY <1>1, <2>2, <3>1, <3>2 DEF ReadInv, ReadLinesAreTotals, Last
  <2> QED
    BY <1>1, <2>1, <2>2
<1> QED
  BY <1>3, <1>4, <1>6, <1>7 DEF AInv

\* The clock.
LEMMA TickKeeps ==
  ASSUME AInv, Tick
  PROVE  AInv'
<1>1. /\ now < MaxSeconds /\ now' = now + 1 /\ now \in Nat /\ MaxSeconds \in Nat
      /\ hist'.full = hist.full /\ hist'.failed = hist.failed
      /\ UNCHANGED <<iface, pc, stage, j, i, err, futures, buffer, batch, counter,
                     series, last>>
  BY AsyncAssumption DEF Tick, Noted, AInv, AsyncTypeOK
<1>2. AsyncTypeOK'
  BY <1>1 DEF AInv, AsyncTypeOK
<1>3. QueueInv' /\ CounterInv'
  BY <1>1 DEF AInv, QueueInv, CounterInv, Queued, ReachOf
<1>4. ShortfallIsBounded'
  BY <1>1 DEF AInv, ShortfallIsBounded
<1>5. ReadInv' /\ ReadLinesAreTotals'
  BY <1>1 DEF AInv, ReadInv, ReadLinesAreTotals
<1> QED
  BY <1>2, <1>3, <1>4, <1>5 DEF AInv

\* The invariant is inductive.
LEMMA AInvStep == AInv /\ [Next]_vars => AInv'
<1> SUFFICES ASSUME AInv, [Next]_vars PROVE AInv'
  OBVIOUS
<1>1. CASE Step \/ Disconnected
  BY <1>1, OutsideKeeps, StartBatchKeeps, IssueKeeps, WaitOkKeeps, HandleKeeps,
     MeasureKeeps, LoopEndsKeeps DEF Step
<1>2. CASE Tick
  BY <1>2, TickKeeps
<1>3. CASE UNCHANGED vars
  BY <1>3 DEF vars, AInv, AsyncTypeOK, QueueInv, Queued, CounterInv, ReachOf,
     ShortfallIsBounded, ReadInv, ReadLinesAreTotals
<1> QED
  BY <1>1, <1>2, <1>3 DEF Next, Terminated

\* However many batches fail, and with the answers of earlier ones in the queue, no
\* wait of wait_write or wait_read finds it empty.
THEOREM NoWaitBlocks == Spec => []NoWaitOnEmptyQueue
<1>1. AInv => NoWaitOnEmptyQueue
  <2> SUFFICES ASSUME AInv, pc \in Loops, stage = "wait" PROVE Answers # <<>>
    BY DEF NoWaitOnEmptyQueue
  <2>1. j < NAsync /\ NAsync <= Queued + j /\ j \in Nat /\ NAsync \in Nat
    BY AsyncAssumption DEF AInv, QueueInv, AsyncTypeOK
  <2>2. Queued # 0
    BY <2>1
  <2> QED
    BY <2>2, AnswersCount DEF AInv
<1> QED
  BY AInvInit, AInvStep, <1>1, PTL DEF Spec

\* What the queue holds at the head of a loop is at most NAsync - 1 answers for each
\* error of the phase.
THEOREM DriftBound == Spec => []DriftIsBounded
<1>1. AInv => DriftIsBounded
  <2> SUFFICES ASSUME AInv, pc \in Loops, stage = "head"
               PROVE  Len(futures[Op(pc)]) <= err * (NAsync - 1)
    BY DEF DriftIsBounded
  <2>1. buffer = 0 /\ Queued <= Drift(err)
    BY DEF AInv, QueueInv
  <2>2. Len(futures[Op(pc)]) \in Nat
    BY AnswersCount, LenProperties DEF AInv, AsyncTypeOK
  <2>3. Queued = Len(futures[Op(pc)])
    BY <2>1, <2>2 DEF Queued
  <2> QED
    BY <2>1, <2>3 DEF Drift
<1> QED
  BY AInvInit, AInvStep, <1>1, PTL DEF Spec

\* A loop that is not cut short by time misses NAsync - 1 operations per failed
\* batch at most, and starts no body with the wrapped counter.
THEOREM ShortfallBound == Spec => []ShortfallIsBounded
<1>1. AInv => ShortfallIsBounded
  BY DEF AInv
<1> QED
  BY AInvInit, AInvStep, <1>1, PTL DEF Spec

-----------------------------------------------------------------------------
(***************************************************************************)
(* The sum of the write series.                                            *)
(***************************************************************************)

\* t is the function that SumOf defines, the running totals of s.
IsTotal(t, s) == t = [k \in 0 .. Len(s) |-> IF k = 0 THEN 0 ELSE t[k - 1] + s[k]]

\* There are running totals of s, and they lead to v: what makes v the sum of s,
\* said without an induction over s.
SumsTo(s, v) ==
  /\ \E t : IsTotal(t, s)
  /\ \A t : IsTotal(t, s) => t[Len(s)] = v

\* SumOf takes such running totals.
LEMMA SumOfTotals ==
  ASSUME NEW s, NEW v, SumsTo(s, v)
  PROVE  SumOf(s) = v
<1> DEFINE t == CHOOSE t : t = [k \in 0 .. Len(s) |-> IF k = 0 THEN 0 ELSE t[k - 1] + s[k]]
<1>1. t = [k \in 0 .. Len(s) |-> IF k = 0 THEN 0 ELSE t[k - 1] + s[k]]
  BY DEF SumsTo, IsTotal
<1>2. SumOf(s) = t[Len(s)]
  BY DEF SumOf
<1> HIDE DEF t
<1>3. IsTotal(t, s)
  BY <1>1 DEF IsTotal
<1> QED
  BY <1>2, <1>3 DEF SumsTo

\* The empty series.
LEMMA NothingSumsToZero == SumsTo(<<>>, 0)
<1>1. Len(<<>>) = 0 /\ 0 \in 0 .. 0 /\ \A k \in 0 .. 0 : k = 0
  OBVIOUS
<1>2. PICK t : t = [k \in 0 .. 0 |-> 0]
  OBVIOUS
<1>3. t = [k \in 0 .. 0 |-> IF k = 0 THEN 0 ELSE t[k - 1] + <<>>[k]]
  BY <1>1, <1>2
<1>4. ASSUME NEW u, u = [k \in 0 .. 0 |-> IF k = 0 THEN 0 ELSE u[k - 1] + <<>>[k]]
      PROVE  u[0] = 0
  BY <1>1, <1>4
<1> QED
  BY <1>1, <1>3, <1>4 DEF SumsTo, IsTotal

\* One more line.
LEMMA OneMoreLine ==
  ASSUME NEW s \in Seq(Nat), NEW v \in Nat, NEW x \in Nat, SumsTo(s, v)
  PROVE  SumsTo(Append(s, x), v + x)
<1>1. PICK n \in Nat : n = Len(s)
  OBVIOUS
<1>2. PICK z : z = Append(s, x)
  OBVIOUS
<1>3. Len(z) = n + 1 /\ z[n + 1] = x /\ \A k \in 1 .. n : z[k] = s[k]
  BY <1>1, <1>2
<1>4. /\ \A k \in 0 .. n : k \in 0 .. n + 1 /\ k # n + 1
      /\ \A k \in 0 .. n : k # 0 => k \in 1 .. n /\ k - 1 \in 0 .. n
      /\ \A k \in 0 .. n + 1 : k = n + 1 \/ k \in 0 .. n
      /\ n + 1 \in 0 .. n + 1 /\ n + 1 # 0 /\ (n + 1) - 1 = n /\ n \in 0 .. n
  BY <1>1
<1>5. \E t : IsTotal(t, z)
  <2>1. PICK t : t = [k \in 0 .. n |-> IF k = 0 THEN 0 ELSE t[k - 1] + s[k]]
    BY <1>1 DEF SumsTo, IsTotal
  <2>2. PICK u : u = [k \in 0 .. n + 1 |-> IF k = n + 1 THEN t[n] + x ELSE t[k]]
    OBVIOUS
  <2>3. \A k \in 0 .. n : t[k] = IF k = 0 THEN 0 ELSE t[k - 1] + s[k]
    BY <2>1
  <2>4. \A k \in 0 .. n : u[k] = t[k]
    BY <1>4, <2>2
  <2>5. ASSUME NEW k \in 0 .. n + 1
        PROVE  u[k] = IF k = 0 THEN 0 ELSE u[k - 1] + z[k]
    <3>1. CASE k = n + 1
      BY <1>3, <1>4, <2>2, <2>4, <3>1
    <3>2. CASE k \in 0 .. n
      <4>1. k = 0 => u[k] = 0
        BY <2>3, <2>4, <3>2
      <4>2. ASSUME k # 0 PROVE u[k] = u[k - 1] + z[k]
        <5>1. k \in 1 .. n /\ k - 1 \in 0 .. n
          BY <1>4, <3>2, <4>2
        <5>2. u[k] = t[k - 1] + s[k]
          BY <2>3, <2>4, <3>2, <4>2
        <5> QED
          BY <1>3, <2>4, <5>1, <5>2
      <4> QED
        BY <4>1, <4>2
    <3> QED
      BY <1>4, <3>1, <3>2
  <2>6. u = [k \in 0 .. n + 1 |-> IF k = 0 THEN 0 ELSE u[k - 1] + z[k]]
    <3>1. u = [k \in 0 .. n + 1 |-> u[k]]
      BY <2>2
    <3> QED
      BY <2>5, <3>1
  <2> QED
    BY <1>3, <2>6 DEF IsTotal
<1>6. ASSUME NEW u, IsTotal(u, z) PROVE u[n + 1] = v + x
  <2>1. \A k \in 0 .. n + 1 : u[k] = IF k = 0 THEN 0 ELSE u[k - 1] + z[k]
    <3>1. u = [k \in 0 .. n + 1 |-> IF k = 0 THEN 0 ELSE u[k - 1] + z[k]]
      BY <1>3, <1>6 DEF IsTotal
    <3> QED
      BY <3>1
  <2>2. PICK t : t = [k \in 0 .. n |-> u[k]]
    OBVIOUS
  <2>3. ASSUME NEW k \in 0 .. n
        PROVE  u[k] = IF k = 0 THEN 0 ELSE t[k - 1] + s[k]
    <3>1. k = 0 => u[k] = 0
      BY <1>4, <2>1
    <3>2. ASSUME k # 0 PROVE u[k] = t[k - 1] + s[k]
      <4>1. k \in 1 .. n /\ k - 1 \in 0 .. n /\ k \in 0 .. n + 1
        BY <1>4, <3>2
      <4>2. u[k] = u[k - 1] + z[k]
        BY <2>1, <3>2, <4>1
      <4> QED
        BY <1>3, <2>2, <4>1, <4>2
    <3> QED
      BY <3>1, <3>2
  <2>4. t = [k \in 0 .. n |-> IF k = 0 THEN 0 ELSE t[k - 1] + s[k]]
    BY <2>2, <2>3
  <2>5. t[n] = v
    BY <1>1, <2>4 DEF SumsTo, IsTotal
  <2>6. u[n] = v
    BY <1>4, <2>2, <2>5
  <2> QED
    BY <1>3, <1>4, <2>1, <2>6
<1> QED
  BY <1>2, <1>3, <1>5, <1>6 DEF SumsTo

\* async_writes: what its lines and its counter say together.
WriteInv ==
  /\ pc \in {"signal", "warm_write"} => series["write"] = <<>> /\ hist.full["write"] = 0
  /\ pc = "write" =>
       \E v \in Nat : /\ SumsTo(series["write"], v)
                      /\ v + counter = NAsync * hist.full["write"]
  /\ pc \in {"reset", "warm_read", "read", "finish", "done"} /\ "write" \in Mode =>
       SumsTo(series["write"], NAsync * hist.full["write"])

\* The invariant holds before the signal.
LEMMA WriteInit == Init => WriteInv
  BY DEF Init, WriteInv, Noted

\* A step that leaves the write phase and what it has written alone.
LEMMA WriteStays ==
  ASSUME WriteInv, series'["write"] = series["write"],
         hist'.full["write"] = hist.full["write"],
         \/ pc' = pc /\ (pc # "write" \/ counter' = counter)
         \/ pc' \in {"exited", "killed", "aborted"}
         \/ pc = "signal" /\ pc' = "warm_write"
         \/ pc = "signal" /\ pc' = "reset" /\ "write" \notin Mode
         \/ /\ pc \in {"reset", "warm_read", "finish"}
            /\ pc' \in {"warm_read", "read", "finish", "done"}
  PROVE  WriteInv'
<1>2. CASE pc' = pc
  BY <1>2 DEF WriteInv
<1>3. CASE pc' \in {"exited", "killed", "aborted"}
  BY <1>3 DEF WriteInv
<1>4. CASE pc = "signal" /\ pc' = "warm_write"
  BY <1>4 DEF WriteInv
<1>5. CASE pc = "signal" /\ pc' = "reset" /\ "write" \notin Mode
  BY <1>5 DEF WriteInv
<1>6. CASE /\ pc \in {"reset", "warm_read", "finish"}
           /\ pc' \in {"warm_read", "read", "finish", "done"}
  BY <1>6 DEF WriteInv
<1> QED
  BY <1>2, <1>3, <1>4, <1>5, <1>6

\* Every step keeps the sum of the write series.
LEMMA WriteStep == AInv /\ WriteInv /\ [Next]_vars => WriteInv'
<1> SUFFICES ASSUME AInv, WriteInv, [Next]_vars PROVE WriteInv'
  OBVIOUS
<1>1. /\ series \in [Ops -> Seq(Nat)] /\ series["write"] \in Seq(Nat) /\ counter \in Nat
      /\ hist.full \in [Ops -> Nat] /\ hist.full["write"] \in Nat
      /\ "write" \in Ops /\ "read" \in Ops /\ NAsync \in Nat \ {0}
  BY AsyncAssumption DEF AInv, AsyncTypeOK, Ops
\* A line of the reads does not touch those of the writes.
<1>2. ASSUME NEW x, series' = [series EXCEPT !["read"] = Append(@, x)]
      PROVE  series'["write"] = series["write"]
  BY <1>1, <1>2
<1>3. ASSUME NEW loop \in Loops, Enter(loop), hist' = hist,
             Op(loop) = "write" => pc \in {"signal", "warm_write"},
             Op(loop) = "read" => pc \in {"reset", "warm_read"},
             loop = "warm_write" => pc = "signal"
      PROVE  WriteInv'
  <2>1. CASE loop = "write"
    <3>1. /\ pc' = "write" /\ counter' = 0
          /\ series' = [series EXCEPT !["write"] = Append(@, 0)]
      BY <1>3, <2>1 DEF Enter, Loops, WarmLoops, Op
    <3>2. series["write"] = <<>> /\ hist.full["write"] = 0
      BY <1>3, <2>1 DEF WriteInv, Op
    <3>3. series'["write"] = Append(series["write"], 0)
      BY <1>1, <3>1, AppendLine
    <3>4. SumsTo(series'["write"], 0 + 0)
      BY <1>1, <3>2, <3>3, NothingSumsToZero, OneMoreLine
    <3>5. 0 + 0 = 0 /\ NAsync * 0 = 0
      BY <1>1
    <3> QED
      BY <1>3, <3>1, <3>2, <3>4, <3>5 DEF WriteInv
  <2>2. CASE loop \in WarmLoops
    BY <1>3, <2>2, WriteStays DEF Enter, WarmLoops, Op
  <2>3. CASE loop = "read"
    <3>1. series' = [series EXCEPT !["read"] = Append(@, 0)] /\ pc' = "read"
          /\ pc \in {"reset", "warm_read"}
      BY <1>3, <2>3 DEF Enter, Loops, WarmLoops, Op
    <3> QED
      BY <1>2, <1>3, <3>1, WriteStays
  <2> QED
    BY <2>1, <2>2, <2>3 DEF Loops
<1>4. CASE SignalRun
  <2>1. CASE "write" \in Mode
    BY <1>3, <1>4, <2>1 DEF SignalRun, EnterPhase, Loops, WarmLoops, Op
  <2>2. CASE "write" \notin Mode
    BY <1>4, <2>2, WriteStays DEF SignalRun, Outside
  <2> QED
    BY <2>1, <2>2
<1>5. CASE Reset
  <2>1. CASE "read" \in Mode
    BY <1>3, <1>5, <2>1 DEF Reset, EnterPhase, Loops, WarmLoops, Op
  <2>2. CASE "read" \notin Mode
    BY <1>5, <2>2, WriteStays DEF Reset, Outside
  <2> QED
    BY <2>1, <2>2
<1>6. CASE WarmUpEnds
  <2>1. /\ pc \in WarmLoops /\ Enter(Op(pc)) /\ hist' = hist /\ Op(pc) \in Loops
        /\ Op(Op(pc)) = Op(pc) /\ Op(pc) # "warm_write"
        /\ Op(pc) = "write" => pc = "warm_write"
        /\ Op(pc) = "read" => pc = "warm_read"
    BY <1>6 DEF WarmUpEnds, WarmLoops, Loops, Op
  <2> QED
    BY <1>3, <2>1
<1>7. CASE SignalAbort \/ Finish \/ CallKills \/ FinishKills \/ Disconnected
  BY <1>7, WriteStays DEF SignalAbort, Finish, CallKills, FinishKills, Disconnected,
                          Outside
<1>8. CASE StartBatch \/ Issue \/ IssueFails \/ WaitFails
  <2>1. /\ pc' = pc \/ pc' = "exited"
        /\ series' = series /\ counter' = counter /\ hist'.full = hist.full
    BY <1>8 DEF StartBatch, Issue, IssueFails, WaitFails, Handle, NoteFailed, Noted
  <2> QED
    BY <2>1, WriteStays
<1>9. CASE WaitOk
  <2>1. /\ pc' = pc /\ series' = series /\ pc \in Loops
        /\ \/ hist' = hist /\ counter' = counter
           \/ /\ pc \notin WarmLoops /\ hist' = NoteFull
              /\ counter' = counter + NAsync
    BY <1>9 DEF WaitOk, PopOldest
  <2>2. CASE hist' = hist /\ counter' = counter
    BY <2>1, <2>2, WriteStays
  <2>3. CASE /\ pc \notin WarmLoops /\ hist' = NoteFull
             /\ counter' = counter + NAsync
    <3>1. hist'.full = [hist.full EXCEPT ![pc] = @ + 1] /\ pc \in Ops
      BY <2>1, <2>3 DEF NoteFull, Noted, Op, Loops, WarmLoops, Ops
    <3>2. CASE pc = "read"
      <4>1. hist'.full["write"] = hist.full["write"]
        BY <1>1, <3>1, <3>2
      <4> QED
        BY <2>1, <3>2, <4>1, WriteStays
    <3>3. CASE pc = "write"
      <4>1. hist'.full["write"] = hist.full["write"] + 1
        BY <1>1, <3>1, <3>3
      <4>2. NAsync * (hist.full["write"] + 1) = NAsync * hist.full["write"] + NAsync
        BY <1>1, ReachGrows
      <4>3. PICK v \in Nat : /\ SumsTo(series["write"], v)
                             /\ v + counter = NAsync * hist.full["write"]
        BY <3>3 DEF WriteInv
      <4>4. v + counter' = NAsync * hist'.full["write"]
        <5>1. v + (counter + NAsync) = (v + counter) + NAsync
          BY <1>1
        <5> QED
          BY <2>3, <4>1, <4>2, <4>3, <5>1
      <4> QED
        BY <2>1, <3>3, <4>3, <4>4 DEF WriteInv
    <3> QED
      BY <3>1, <3>2, <3>3 DEF Ops
  <2> QED
    BY <2>1, <2>2, <2>3
\* A line with the counter.
<1>10. ASSUME pc = "write", series' = [series EXCEPT !["write"] = Append(@, counter)]
       PROVE  SumsTo(series'["write"], NAsync * hist.full["write"])
  <2>1. PICK v \in Nat : /\ SumsTo(series["write"], v)
                         /\ v + counter = NAsync * hist.full["write"]
    BY <1>10 DEF WriteInv
  <2>2. series'["write"] = Append(series["write"], counter)
    BY <1>1, <1>10, AppendLine
  <2>3. SumsTo(Append(series["write"], counter), v + counter)
    BY <1>1, <2>1, OneMoreLine
  <2> QED
    BY <2>1, <2>2, <2>3
<1>11. CASE Measure
  <2>1. /\ pc' = pc /\ hist' = hist
        /\ \/ UNCHANGED <<series, counter>>
           \/ /\ pc \in {"write", "read"}
              /\ series' = [series EXCEPT ![pc] = Append(@, counter)]
              /\ counter' = IF pc = "write" THEN 0 ELSE counter
    BY <1>11 DEF Measure, Op, Loops, WarmLoops
  <2>2. CASE UNCHANGED <<series, counter>>
    BY <2>1, <2>2, WriteStays
  <2>3. CASE pc = "read" /\ series' = [series EXCEPT !["read"] = Append(@, counter)]
    BY <1>2, <2>1, <2>3, WriteStays
  <2>4. CASE /\ pc = "write" /\ counter' = 0
             /\ series' = [series EXCEPT !["write"] = Append(@, counter)]
    <3>1. SumsTo(series'["write"], NAsync * hist.full["write"])
      BY <1>10, <2>4
    <3>2. PICK v \in Nat : v = NAsync * hist.full["write"]
      BY <1>1
    <3>3. v + 0 = v
      BY <3>2
    <3> QED
      BY <2>1, <2>4, <3>1, <3>2, <3>3 DEF WriteInv
  <2> QED
    BY <2>1, <2>2, <2>3, <2>4
<1>12. CASE LoopEnds
  <2>1. /\ pc \in {"write", "read"} /\ hist' = hist
        /\ series' = [series EXCEPT ![pc] = Append(@, counter)]
        /\ pc' = IF pc = "write" THEN "reset" ELSE "finish"
    BY <1>12 DEF LoopEnds, Loops, WarmLoops, Op
  <2>2. CASE pc = "read"
    <3>1. series'["write"] = series["write"] /\ pc' = "finish"
      BY <1>2, <2>1, <2>2
    <3> QED
      BY <2>1, <2>2, <3>1 DEF WriteInv
  <2>3. CASE pc = "write"
    BY <1>10, <2>1, <2>3 DEF WriteInv
  <2> QED
    BY <2>1, <2>2, <2>3
<1>13. CASE Tick
  BY <1>13, WriteStays DEF Tick, Noted
<1>14. CASE UNCHANGED vars
  BY <1>14, WriteStays DEF vars
<1> QED
  BY <1>4, <1>5, <1>6, <1>7, <1>8, <1>9, <1>11, <1>12, <1>13, <1>14
     DEF Next, Step, Terminated

\* The lines of both phases add up to the operations of full batches: the writes'
\* as differences, the reads' as running totals, whatever failed in between.
THEOREM LinesAddUp == Spec => []SeriesAddUp
<1>1. AInv /\ WriteInv => SeriesAddUp
  <2> SUFFICES ASSUME AInv, WriteInv PROVE WriteLinesAddUp
    BY DEF AInv, SeriesAddUp
  <2> QED
    BY SumOfTotals DEF WriteInv, WriteLinesAddUp
<1> QED
  BY AInvInit, AInvStep, WriteInit, WriteStep, <1>1, PTL DEF Spec

=============================================================================
