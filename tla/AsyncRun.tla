------------------------------ MODULE AsyncRun ------------------------------
(***************************************************************************)
(* benchmark::run_async: the asynchronous storage benchmark of one worker. *)
(*                                                                         *)
(* async_writes and async_reads issue a batch of NAsync requests, each of  *)
(* which puts a future into a FIFO queue of the storage interface, and     *)
(* then wait NAsync times; a wait pops the OLDEST future.  An error leaves *)
(* the batch at once: futures of the batch that were not waited for stay   *)
(* in the queue, and the next batches wait for them in place of their own. *)
(* The handler does --i and the loop then i += n_async, both on a size_t.  *)
(*                                                                         *)
(* Once per second a loop writes a line with its counter; async_writes     *)
(* restarts the counter after the line, async_reads does not.              *)
(*                                                                         *)
(* Time is counted in seconds.  A request may be answered with an error    *)
(* for any reason, so the outcome is chosen when it is waited for.  redis, *)
(* s3 and dynamodb queue futures as above.  mmux collects the requests of  *)
(* the batch in a buffer, the first wait sends them in one call and queues *)
(* the replies, and every wait pops one: an error leaves the rest of them  *)
(* in the queue just so.  Its call throws what the loops do not catch, and *)
(* its wait_read takes a reply that is an error for a value.  As in        *)
(* BenchRun, which has the opening of the storage and what destroy() does  *)
(* to it, a missing item of dynamodb, a lost connection to redis and a     *)
(* failed destroy() end the process.                                       *)
(***************************************************************************)
EXTENDS Naturals, Sequences, SequencesExt

CONSTANTS
  Interfaces,      \* how requests are sent: "futures", "batched" (mmux) or both
  Mode,            \* the mode bits: a subset of {"write", "read", "destroy"}
  WarmUp,          \* the warm_up argument
  NumOps,          \* the num_ops argument
  WarmUpDivisor,   \* 10: warm_up_ops = num_ops / 10
  NAsync,          \* the n of async{n}
  ErrorMax,        \* ERROR_MAX
  SizeMax,         \* the largest size_t
  MaxSeconds       \* max_us, in seconds

ASSUME AsyncAssumption ==
  /\ Interfaces \subseteq {"futures", "batched"}
  /\ Mode \subseteq {"write", "read", "destroy"}
  /\ WarmUp \in BOOLEAN
  /\ NumOps \in Nat /\ ErrorMax \in Nat /\ MaxSeconds \in Nat
  /\ NAsync \in Nat \ {0} /\ WarmUpDivisor \in Nat \ {0}
  /\ SizeMax \in Nat /\ SizeMax > NumOps + NAsync

VARIABLES
  iface,     \* which of them the storage interface does
  pc,        \* the loop being run, or where run_async is outside the loops
  stage,     \* in a loop: at its head, issuing a batch, waiting for it, after it
  j,         \* the counter of the inner loop
  i,         \* the counter of the loop, a size_t
  err,       \* err_count of the current function
  futures,   \* the queue of futures or replies: the batch each belongs to
  buffer,    \* number of requests in m_writes or m_reads
  batch,     \* number of the current batch of this phase
  counter,   \* writes or reads
  series,    \* the counters written to the output file of the phase
  now,       \* seconds since start_us
  last,      \* last_measure_time
  hist       \* history: full batches and failed batches of the measured loop,
             \* requests issued in the current second, counted to NAsync + 1

vars == <<iface, pc, stage, j, i, err, futures, buffer, batch, counter, series,
          now, last, hist>>

WarmUpOps == NumOps \div WarmUpDivisor

WarmLoops == {"warm_write", "warm_read"}
Loops == WarmLoops \union {"write", "read"}
Ended == {"done", "aborted", "exited", "killed"}

Op(loop) == IF loop \in {"warm_write", "write"} THEN "write" ELSE "read"

Count(loop) == IF loop \in WarmLoops THEN WarmUpOps ELSE NumOps

\* Arithmetic of size_t.
Dec(n) == IF n = 0 THEN SizeMax ELSE n - 1
Add(n, d) == (n + d) % (SizeMax + 1)

\* What the history notes: batches by their outcome, and requests of the second.
Noted(full, failed, issued) == [full |-> full, failed |-> failed, issued |-> issued]
NoteFull == Noted([hist.full EXCEPT ![Op(pc)] = @ + 1], hist.failed, hist.issued)
NoteFailed == Noted(hist.full, [hist.failed EXCEPT ![Op(pc)] = @ + 1], hist.issued)

Init ==
  /\ iface \in Interfaces
  /\ pc = "signal" /\ stage = "head"
  /\ j = 0 /\ i = 0 /\ err = 0
  /\ futures = [o \in {"write", "read"} |-> <<>>]
  /\ buffer = 0
  /\ batch = 0
  /\ counter = 0
  /\ series = [o \in {"write", "read"} |-> <<>>]
  /\ now = 0 /\ last = 0
  /\ hist = Noted([o \in {"write", "read"} |-> 0], [o \in {"write", "read"} |-> 0], 0)

\* Enter a loop; a measured one opens its series with a line of 0.
Enter(loop) ==
  /\ pc' = loop
  /\ stage' = "head" /\ i' = 0 /\ j' = 0
  /\ IF loop \in Loops \ WarmLoops
     THEN /\ counter' = 0
          /\ last' = now
          /\ series' = [series EXCEPT ![Op(loop)] = Append(@, 0)]
     ELSE UNCHANGED <<counter, last, series>>

\* async_writes, async_reads: each starts with an err_count of its own.
EnterPhase(op) ==
  /\ Enter(IF op = "write"
           THEN IF WarmUp THEN "warm_write" ELSE "write"
           ELSE IF WarmUp THEN "warm_read" ELSE "read")
  /\ err' = 0 /\ batch' = 0

\* Leave the phases, for key_gen->reset() or for destroy().
Outside(place) ==
  /\ pc' = place
  /\ UNCHANGED <<stage, j, i, err, batch, counter, last, series>>

SignalRun ==
  /\ pc = "signal"
  /\ IF "write" \in Mode THEN EnterPhase("write") ELSE Outside("reset")
  /\ UNCHANGED <<iface, futures, buffer, now, hist>>

SignalAbort ==
  /\ pc = "signal"
  /\ Outside("aborted")
  /\ UNCHANGED <<iface, futures, buffer, now, hist>>

\* i < count && time_bound(start_us, max_us)
LoopCondition == i < Count(pc) /\ now < MaxSeconds

StartBatch ==
  /\ pc \in Loops /\ stage = "head" /\ LoopCondition
  /\ stage' = "issue" /\ j' = 0 /\ batch' = batch + 1
  /\ UNCHANGED <<iface, pc, i, err, futures, buffer, counter, series, now, last,
                 hist>>

\* write_async or read_async: the request is on its way and its future in the
\* queue, or it is in the buffer.
Issue ==
  /\ pc \in Loops /\ stage = "issue"
  /\ IF iface = "batched"
     THEN buffer' = buffer + 1 /\ futures' = futures
     ELSE buffer' = buffer /\ futures' = [futures EXCEPT ![Op(pc)] = Append(@, batch)]
  /\ hist' = Noted(hist.full, hist.failed,
                     IF hist.issued > NAsync THEN hist.issued ELSE hist.issued + 1)
  /\ IF j + 1 < NAsync
     THEN j' = j + 1 /\ stage' = "issue"
     ELSE j' = 0 /\ stage' = "wait"
  /\ UNCHANGED <<iface, pc, i, err, batch, counter, series, now, last>>

\* What a wait has to choose from: what is in the queue, and the replies to what
\* is in the buffer, which is sent first.
Answers == futures[Op(pc)] \o [k \in 1 .. buffer |-> batch]

\* A wait takes the oldest answer.
PopOldest ==
  /\ pc \in Loops /\ stage = "wait"
  /\ Answers # <<>>
  /\ futures' = [futures EXCEPT ![Op(pc)] = Tail(Answers)]
  /\ buffer' = 0

\* Mutant of WaitOk: one wait fewer than requests.
WaitOkOneFewer ==
  /\ PopOldest
  /\ IF j + 2 < NAsync
     THEN j' = j + 1 /\ UNCHANGED <<stage, counter, hist>>
     ELSE j' = 0 /\ stage' = "measure" /\ UNCHANGED <<counter, hist>>
  /\ UNCHANGED <<iface, pc, i, err, batch, series, now, last>>

\* wait_write or wait_read: pop the oldest future, whose answer is a success, or
\* passes for one.
\* The last one of a measured batch counts the whole batch.
WaitOk ==
  /\ PopOldest
  /\ IF j + 1 < NAsync
     THEN j' = j + 1 /\ UNCHANGED <<stage, counter, hist>>
     ELSE /\ j' = 0 /\ stage' = "measure"
          /\ IF pc \in WarmLoops
             THEN UNCHANGED <<counter, hist>>
             ELSE /\ counter' = counter + NAsync
                  /\ hist' = NoteFull
  /\ UNCHANGED <<iface, pc, i, err, batch, series, now, last>>

\* Mutant of Handle: the handler forgets --i.
HandleWithoutDec ==
  /\ i' = i
  /\ err' = err + 1
  /\ IF err' > ErrorMax
     THEN pc' = "exited" /\ stage' = stage /\ hist' = hist
     ELSE /\ pc' = pc /\ stage' = "measure"
          /\ hist' = NoteFailed
  /\ UNCHANGED <<iface, j, batch, counter, series, now, last>>

\* The handler: --i, ++err_count, and too many errors destroy and exit.
Handle ==
  /\ i' = Dec(i)
  /\ err' = err + 1
  /\ IF err' > ErrorMax
     THEN pc' = "exited" /\ stage' = stage /\ hist' = hist
     ELSE /\ pc' = pc /\ stage' = "measure"
          /\ hist' = IF pc \in WarmLoops THEN hist
                     ELSE NoteFailed
  /\ UNCHANGED <<iface, j, batch, counter, series, now, last>>

\* Mutant of WaitFails: the batch is sent again and nothing is counted.
WaitFailsResends ==
  /\ pc \in Loops /\ stage = "wait"
  /\ futures' = [futures EXCEPT ![Op(pc)] = <<>>]
  /\ stage' = "issue" /\ j' = 0 /\ buffer' = 0
  /\ UNCHANGED <<iface, pc, i, err, batch, counter, series, now, last, hist>>

\* A wait whose answer is an error.  memorymux::wait_read does not look.
WaitFails ==
  /\ iface = "batched" => Op(pc) = "write"
  /\ PopOldest
  /\ Handle

\* A wait throws what nobody catches, and the process ends: mmux for the call of a
\* whole batch a TException or a logic_error, dynamodb for an item that is missing
\* out_of_range.
CallKills ==
  /\ pc \in Loops /\ stage = "wait"
  /\ buffer > 0 \/ (iface = "futures" /\ Op(pc) = "read")
  /\ pc' = "killed"
  /\ UNCHANGED <<iface, stage, j, i, err, futures, buffer, batch, counter, series,
                 now, last, hist>>

\* Mutant of IssueFails: the batch goes on without the request.
IssueFailsGoesOn ==
  /\ pc \in Loops /\ stage = "issue"
  /\ IF j + 1 < NAsync
     THEN j' = j + 1 /\ stage' = "issue"
     ELSE j' = 0 /\ stage' = "wait"
  /\ UNCHANGED <<iface, pc, i, err, futures, buffer, batch, counter, series, now,
                 last, hist>>

\* A request that cannot be sent: no future enters the queue.  The buffer takes
\* any request.
IssueFails ==
  /\ pc \in Loops /\ stage = "issue" /\ iface = "futures"
  /\ UNCHANGED <<futures, buffer>>
  /\ Handle

\* Mutant of Measure: the writes are not counted from 0 in each interval.
MeasureKeepsCounter ==
  /\ pc \in Loops /\ stage = "measure"
  /\ IF pc \notin WarmLoops /\ now - last >= 1
     THEN /\ series' = [series EXCEPT ![Op(pc)] = Append(@, counter)]
          /\ last' = now
     ELSE UNCHANGED <<series, last>>
  /\ i' = Add(i, NAsync)
  /\ stage' = "head" /\ j' = 0
  /\ UNCHANGED <<iface, pc, err, futures, buffer, batch, counter, now, hist>>

\* The end of the loop body: a line if a second has passed, then i += n_async.
Measure ==
  /\ pc \in Loops /\ stage = "measure"
  /\ IF pc \notin WarmLoops /\ now - last >= 1
     THEN /\ series' = [series EXCEPT ![Op(pc)] = Append(@, counter)]
          /\ counter' = IF pc = "write" THEN 0 ELSE counter
          /\ last' = now
     ELSE UNCHANGED <<series, counter, last>>
  /\ i' = Add(i, NAsync)
  /\ stage' = "head" /\ j' = 0
  /\ UNCHANGED <<iface, pc, err, futures, buffer, batch, now, hist>>

\* A warm-up is followed by its measured loop.
WarmUpEnds ==
  /\ pc \in WarmLoops /\ stage = "head" /\ ~LoopCondition
  /\ Enter(Op(pc))
  /\ UNCHANGED <<iface, err, futures, buffer, batch, now, hist>>

\* A measured loop writes a last line with its counter.
LoopEnds ==
  /\ pc \in Loops \ WarmLoops /\ stage = "head" /\ ~LoopCondition
  /\ series' = [series EXCEPT ![Op(pc)] = Append(@, counter)]
  /\ pc' = IF pc = "write" THEN "reset" ELSE "finish"
  /\ UNCHANGED <<iface, stage, j, i, err, futures, buffer, batch, counter, now, last,
                 hist>>

\* key_gen->reset() and the read phase.
Reset ==
  /\ pc = "reset"
  /\ IF "read" \in Mode THEN EnterPhase("read") ELSE Outside("finish")
  /\ UNCHANGED <<iface, futures, buffer, now, hist>>

\* destroy(), if the mode asks for it, and the end: nothing below depends on what
\* becomes of the storage.
Finish ==
  /\ pc = "finish"
  /\ Outside("done")
  /\ UNCHANGED <<iface, futures, buffer, now, hist>>

\* destroy() fails and ends the process.
FinishKills ==
  /\ pc = "finish" /\ "destroy" \in Mode
  /\ Outside("killed")
  /\ UNCHANGED <<iface, futures, buffer, now, hist>>

\* redis: the connection is lost, and the client's callback calls exit(-1).
Disconnected ==
  /\ iface = "futures" /\ pc \notin Ended
  /\ Outside("killed")
  /\ UNCHANGED <<iface, futures, buffer, now, hist>>

Step ==
  \/ SignalRun \/ SignalAbort \/ StartBatch \/ Issue \/ IssueFails
  \/ WaitOk \/ WaitFails \/ CallKills \/ Measure \/ WarmUpEnds \/ LoopEnds \/ Reset
  \/ Finish \/ FinishKills

\* A second passes, until the time bound: later ones make no difference.
Tick ==
  /\ now < MaxSeconds /\ pc \notin Ended
  /\ now' = now + 1
  /\ hist' = Noted(hist.full, hist.failed, 0)
  /\ UNCHANGED <<iface, pc, stage, j, i, err, futures, buffer, batch, counter,
                 series, last>>

Terminated == pc \in Ended /\ UNCHANGED vars

Next == Step \/ Disconnected \/ Tick \/ Terminated

\* Every request is answered: a wait on a future returns.
Spec == Init /\ [][Next]_vars /\ WF_vars(Step)

-----------------------------------------------------------------------------
(***************************************************************************)
(* Properties.                                                             *)
(***************************************************************************)

\* The sum of the lines of a series.
SumOf(s) ==
  LET total[k \in 0 .. Len(s)] == IF k = 0 THEN 0 ELSE total[k - 1] + s[k]
  IN  total[Len(s)]

\* A wait always finds an answer: queue::pop() would block for ever on an empty
\* queue, and nobody else pushes; front() of an empty std::queue is undefined.
NoWaitOnEmptyQueue ==
  pc \in Loops /\ stage = "wait" => Answers # <<>>

\* What failed batches leave in the queue is bounded: each of at most err_count
\* failures leaves at most NAsync - 1 futures, so that the answer a batch waits
\* for is at most that many requests older than its own.
DriftIsBounded ==
  pc \in Loops /\ stage = "head" => Len(futures[Op(pc)]) <= err * (NAsync - 1)

\* The lines add up.  async_writes starts each interval at 0, so that the sum of
\* its series is the number of writes of full batches; async_reads goes on
\* counting, so that its series never falls and its last line is that number.
WriteLinesAddUp ==
  pc \in {"reset", "warm_read", "read", "finish", "done"} /\ "write" \in Mode =>
    SumOf(series["write"]) = NAsync * hist.full["write"]

ReadLinesAreTotals ==
  /\ \A k \in 1 .. Len(series["read"]) - 1 :
       series["read"][k] <= series["read"][k + 1]
  /\ pc \in {"finish", "done"} /\ "read" \in Mode
       => Last(series["read"]) = NAsync * hist.full["read"]

SeriesAddUp == WriteLinesAddUp /\ ReadLinesAreTotals

\* A failed batch is retried only in part: the loop goes on by NAsync - 1.  What
\* is missing from NumOps at the end of a loop that was not cut short by time is
\* NAsync - 1 operations for each failed batch, and no more: at the head of a loop
\* the counter is never the wrapped value that --i leaves at 0.
ShortfallIsBounded ==
  /\ pc \in Loops /\ stage = "head" => i < NumOps + NAsync
  /\ now < MaxSeconds /\ pc = "reset" /\ "write" \in Mode =>
       NAsync * hist.full["write"] + (NAsync - 1) * hist.failed["write"] >= NumOps
  /\ now < MaxSeconds /\ pc = "finish" /\ "read" \in Mode =>
       NAsync * hist.full["read"] + (NAsync - 1) * hist.failed["read"] >= NumOps

\* The help text of --mode: "async{n} - send asynchronous read/write requests at
\* rate n" and "sending async requests at 10 op/s": no more than n in a second.
SendsAtRateN == hist.issued <= NAsync

\* The benchmark ends, whatever fails.
Termination == <>(pc \in Ended)

=============================================================================
