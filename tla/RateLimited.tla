----------------------------- MODULE RateLimited -----------------------------
(***************************************************************************)
(* benchmark::run_rate_limited: the storage benchmark with one thread that *)
(* sends requests at a given rate and one that receives the answers.       *)
(*                                                                         *)
(* Per phase the main thread starts a receiver thread (recv_writes or      *)
(* recv_reads), runs send_writes or send_reads itself, and joins.  The two *)
(* share nothing but the interface's queue of futures (queue.h), one for   *)
(* writes and one for reads, at whose mutex and condition variable grain   *)
(* the model is written: push appends under the lock and notifies after    *)
(* unlocking; pop re-checks after every wake-up, spurious ones included.   *)
(*                                                                         *)
(* A send that fails is sent again, so that the sender pushes one future   *)
(* per operation, while an answer that is an error makes the receiver wait *)
(* for one answer MORE than there are futures.                             *)
(*                                                                         *)
(* The time bound is a flag: each loop looks at it at its head only.  The  *)
(* rate limiter only delays (RateLimiter).  Whether a second has passed    *)
(* since the last line of a series is free.  mmux is left out: its         *)
(* vectors have no lock, and two threads cannot use them.                  *)
(***************************************************************************)
EXTENDS Naturals, Sequences

CONSTANTS
  Backends,        \* the storage interfaces: among "redis", "s3", "dynamodb"
  Mode,            \* the mode bits: a subset of {"write", "read", "destroy"}
  WarmUp,          \* the warm_up argument
  NumOps,          \* the num_ops argument
  WarmUpDivisor,   \* 10: warm_up_ops = num_ops / 10
  ErrorMax,        \* ERROR_MAX
  SizeMax          \* the largest size_t

ASSUME RateLimitedAssumption ==
  /\ Backends \subseteq {"redis", "s3", "dynamodb"}
  /\ Mode \subseteq {"write", "read", "destroy"}
  /\ WarmUp \in BOOLEAN
  /\ NumOps \in Nat /\ ErrorMax \in Nat /\ WarmUpDivisor \in Nat \ {0}
  /\ SizeMax \in Nat /\ SizeMax >= NumOps

Threads == {"send", "recv"}
Phases  == {"write", "read"}
Ended   == {"done", "aborted", "exited", "killed"}

VARIABLES
  backend,    \* the storage interface of this run
  phase,      \* where run_rate_limited is
  pc,         \* where each thread is in its loop
  loop,       \* its loop: "warm" or "measured"
  i,          \* its loop counter, a size_t
  err,        \* its err_count
  key,        \* cur_key_ of the key generator
  futures,    \* m_put_futures and m_get_futures: <<loop, key>> of each request
  got,        \* the future that pop() has returned to the receiver
  interval,   \* interval_sent and interval_recv
  total,      \* the sum of the counters written to the file of each thread
  expired,    \* whether the time bound has passed
  hist        \* history of the phase: errors answered, threads cut short by time

vars == <<backend, phase, pc, loop, i, err, key, futures, got, interval, total,
          expired, hist>>

WarmUpOps == NumOps \div WarmUpDivisor

Count(l) == IF l = "warm" THEN WarmUpOps ELSE NumOps

\* --i and ++i on a size_t.
Dec(n) == IF n = 0 THEN SizeMax ELSE n - 1
Inc(n) == IF n = SizeMax THEN 0 ELSE n + 1

Each(x) == [t \in Threads |-> x]

Init ==
  /\ backend \in Backends
  /\ phase = "signal" /\ pc = Each("over")
  /\ loop = Each("measured") /\ i = Each(0) /\ err = Each(0)
  /\ key = 0
  /\ futures = [o \in Phases |-> <<>>] /\ got = <<>>
  /\ interval = Each(0) /\ total = Each(0)
  /\ expired = FALSE
  /\ hist = [lost |-> 0, cut |-> {}]

-----------------------------------------------------------------------------
(***************************************************************************)
(* The main thread, outside of the phases.                                 *)
(***************************************************************************)

\* Mutant of FirstLoop: the receiver is not told of the warm-up.
FirstLoopOfSender(t) == IF WarmUp /\ t = "send" THEN "warm" ELSE "measured"

\* The first loop of a thread: the warm-up if it was asked for.
FirstLoop(t) == IF WarmUp THEN "warm" ELSE "measured"

\* Start the receiver of phase o and enter its sender.
StartPhase(o) ==
  /\ phase' = o
  /\ pc' = Each("head")
  /\ loop' = [t \in Threads |-> FirstLoop(t)]
  /\ i' = Each(0) /\ err' = Each(0)
  /\ interval' = Each(0) /\ total' = Each(0)
  /\ hist' = [lost |-> 0, cut |-> {}]

GoTo(place) ==
  phase' = place /\ UNCHANGED <<pc, loop, i, err, interval, total, hist>>

\* signal(): run, or return at once.
Signal ==
  /\ phase = "signal"
  /\ \/ IF "write" \in Mode THEN StartPhase("write") ELSE GoTo("reset")
     \/ GoTo("aborted")
  /\ UNCHANGED <<backend, key, futures, got, expired>>

\* recv_thread.join()
Join ==
  /\ phase \in Phases /\ pc = Each("over")
  /\ GoTo(IF phase = "write" THEN "reset" ELSE "finish")
  /\ UNCHANGED <<backend, key, futures, got, expired>>

\* key_gen->reset() and the read phase.
Reset ==
  /\ phase = "reset"
  /\ key' = 0
  /\ IF "read" \in Mode THEN StartPhase("read") ELSE GoTo("finish")
  /\ UNCHANGED <<backend, futures, got, expired>>

\* destroy(), if the mode asks for it, which no queue depends on.
Finish ==
  /\ phase = "finish"
  /\ GoTo("done")
  /\ UNCHANGED <<backend, key, futures, got, expired>>

-----------------------------------------------------------------------------
(***************************************************************************)
(* The loops, which sender and receiver share.                             *)
(***************************************************************************)

At(t, place) == phase \in Phases /\ pc[t] = place

Move(t, place) == pc' = [pc EXCEPT ![t] = place]

\* i < count && time_bound(start_us, max_us)
LoopCondition(t) == i[t] < Count(loop[t]) /\ ~expired

EnterBody(t) ==
  /\ At(t, "head") /\ LoopCondition(t)
  /\ Move(t, IF t = "send" THEN "acquire" ELSE "pop")
  /\ UNCHANGED <<backend, phase, loop, i, err, key, futures, got, interval,
                 total, expired, hist>>

\* The loop ends: a warm-up is followed by the measured loop, which writes a last
\* line with its counter.
LoopEnds(t) ==
  /\ At(t, "head") /\ ~LoopCondition(t)
  /\ IF loop[t] = "warm"
     THEN /\ loop' = [loop EXCEPT ![t] = "measured"]
          /\ i' = [i EXCEPT ![t] = 0]
          /\ UNCHANGED <<pc, total>>
     ELSE /\ Move(t, "over")
          /\ total' = [total EXCEPT ![t] = @ + interval[t]]
          /\ UNCHANGED <<loop, i>>
  /\ hist' = IF i[t] < Count(loop[t])
             THEN [lost |-> hist.lost, cut |-> hist.cut \union {t}] ELSE hist
  /\ UNCHANGED <<backend, phase, err, key, futures, got, interval, expired>>

\* ++interval_sent or ++interval_recv, in the measured loops.
CountOne(t) ==
  interval' = IF loop[t] = "warm" THEN interval
              ELSE [interval EXCEPT ![t] = @ + 1]

\* Mutant of Retry: the handler forgets --i.
GoOn(t) == i' = i

\* --i
Retry(t) == i' = [i EXCEPT ![t] = Dec(@)]

\* The handler: --i, ++err_count, and too many errors destroy and exit(1), from
\* whichever thread.
Handle(t) ==
  /\ Retry(t)
  /\ err' = [err EXCEPT ![t] = @ + 1]
  /\ IF err'[t] > ErrorMax
     THEN phase' = "exited" /\ pc' = pc
     ELSE phase' = phase /\ Move(t, "measure")

\* Mutant of Restart: the interval goes on after its line.
GoOnCounting(t) == interval' = interval

\* interval_sent = 0 or interval_recv = 0, after a line.
Restart(t) == interval' = [interval EXCEPT ![t] = 0]

\* The end of the body: a line if a second has passed, then ++i.
Measure(t) ==
  /\ At(t, "measure")
  /\ \/ /\ loop[t] = "measured"
        /\ total' = [total EXCEPT ![t] = @ + interval[t]]
        /\ Restart(t)
     \/ UNCHANGED <<interval, total>>
  /\ i' = [i EXCEPT ![t] = Inc(@)]
  /\ Move(t, "head")
  /\ UNCHANGED <<backend, phase, loop, err, key, futures, got, expired, hist>>

-----------------------------------------------------------------------------
(***************************************************************************)
(* The sender: acquire(), write_async or read_async, with queue::push.     *)
(***************************************************************************)

\* The request is on its way, and its future is pushed under the lock.
Push ==
  /\ At("send", "acquire")
  /\ futures' = [futures EXCEPT ![phase] = Append(@, <<loop["send"], key>>)]
  /\ key' = key + 1
  /\ Move("send", "notify")
  /\ UNCHANGED <<backend, phase, loop, i, err, got, interval, total, expired, hist>>

\* Mutant of Woken: the notification is forgotten.
NotWoken == pc["recv"]

\* A receiver in m_cond.wait() wakes up and goes back to the test of the queue.
Woken == IF pc["recv"] = "wait" THEN "pop" ELSE pc["recv"]

\* m_cond.notify_one(), after the unlock.
Notify ==
  /\ At("send", "notify")
  /\ pc' = [t \in Threads |-> IF t = "send" THEN "measure" ELSE Woken]
  /\ CountOne("send")
  /\ UNCHANGED <<backend, phase, loop, i, err, key, futures, got, total, expired,
                 hist>>

\* The request cannot be sent: the key is used up, nothing is pushed.
SendFails ==
  /\ At("send", "acquire")
  /\ key' = key + 1
  /\ Handle("send")
  /\ UNCHANGED <<backend, loop, futures, got, interval, total, expired, hist>>

-----------------------------------------------------------------------------
(***************************************************************************)
(* The receiver: wait_write or wait_read, with queue::pop.                 *)
(***************************************************************************)

\* while (m_queue.empty()) m_cond.wait(mlock);
PopWaits ==
  /\ At("recv", "pop") /\ futures[phase] = <<>>
  /\ Move("recv", "wait")
  /\ UNCHANGED <<backend, phase, loop, i, err, key, futures, got, interval,
                 total, expired, hist>>

\* wait() may return without a notification.
WakesUp ==
  /\ At("recv", "wait")
  /\ Move("recv", "pop")
  /\ UNCHANGED <<backend, phase, loop, i, err, key, futures, got, interval,
                 total, expired, hist>>

PopTakes ==
  /\ At("recv", "pop") /\ futures[phase] # <<>>
  /\ got' = Head(futures[phase])
  /\ futures' = [futures EXCEPT ![phase] = Tail(@)]
  /\ Move("recv", "get")
  /\ UNCHANGED <<backend, phase, loop, i, err, key, interval, total, expired, hist>>

\* fut.get() and the response is a success.
Answered ==
  /\ At("recv", "get")
  /\ CountOne("recv")
  /\ Move("recv", "measure")
  /\ UNCHANGED <<backend, phase, loop, i, err, key, futures, got, total, expired,
                 hist>>

\* The response is an error.
AnsweredError ==
  /\ At("recv", "get")
  /\ hist' = [lost |-> hist.lost + 1, cut |-> hist.cut]
  /\ Handle("recv")
  /\ UNCHANGED <<backend, loop, key, futures, got, interval, total, expired>>

-----------------------------------------------------------------------------

\* The process ends on the spot: redis has lost its connection, or a missing item
\* of dynamodb throws std::out_of_range in the receiver.
Killed ==
  /\ phase \notin Ended
  /\ \/ backend = "redis"
     \/ backend = "dynamodb" /\ phase = "read" /\ pc["recv"] = "get"
  /\ GoTo("killed")
  /\ UNCHANGED <<backend, key, futures, got, expired>>

Expire ==
  /\ phase \notin Ended /\ ~expired
  /\ expired' = TRUE
  /\ UNCHANGED <<backend, phase, pc, loop, i, err, key, futures, got, interval,
                 total, hist>>

LoopStep(t) == EnterBody(t) \/ LoopEnds(t) \/ Measure(t)

SenderStep ==
  \/ Signal \/ Join \/ Reset \/ Finish
  \/ LoopStep("send") \/ Push \/ Notify \/ SendFails

ReceiverStep ==
  LoopStep("recv") \/ PopWaits \/ PopTakes \/ Answered \/ AnsweredError

Next == SenderStep \/ ReceiverStep \/ WakesUp \/ Killed \/ Expire

\* Both threads are scheduled and every request is answered.  Nothing makes a
\* wait return without a notification.
Spec ==
  Init /\ [][Next]_vars /\ WF_vars(SenderStep) /\ WF_vars(ReceiverStep)

-----------------------------------------------------------------------------
(***************************************************************************)
(* Properties.                                                             *)
(***************************************************************************)

\* The futures' queues keep the promise of Fifo: nothing is lost, doubled or
\* reordered, and no wake-up is lost, a receiver inside pop() getting a future as
\* soon as there is one (queue::push notifies after it has unlocked).
Channels ==
  INSTANCE Fifo WITH
    Channels <- Phases,
    Items <- {"warm", "measured"} \X (0 .. WarmUpOps + NumOps + ErrorMax),
    items <- futures,
    taken <- got,
    asked <- [o \in Phases |-> phase = o /\ pc["recv"] \in {"pop", "wait"}]

QueueIsFifo == Channels!Spec

\* There is no room for errors: a phase that the receiver has finished, and not
\* the time bound, has had no error among its answers and no future left over.
FinishedMeansNoErrors ==
  phase \in Phases /\ pc = Each("over") /\ "recv" \notin hist.cut
    => hist.lost = 0 /\ futures[phase] = <<>>

\* The receive rate is the one of the measured requests: the measured loop never
\* counts the answer to a request of the warm-up, whatever errors the warm-up met.
MeasuredOnly ==
  phase \in Phases /\ pc["recv"] = "get" /\ loop["recv"] = "measured"
    => got[1] = "measured"

\* The two series agree: when a phase is over, the receiver's file accounts for
\* no more operations than the sender's, and for as many unless time ran out.
ReceivedWithinSent ==
  phase \in Phases /\ pc = Each("over") =>
    /\ total["recv"] <= total["send"]
    /\ hist.cut = {} => total["recv"] = total["send"]

\* The run ends unless an answer was an error or the sender was cut short.
EndsUnlessLost ==
  <>(phase \in Ended \/ hist.lost > 0 \/ "send" \in hist.cut)

=============================================================================
