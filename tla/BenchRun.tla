------------------------------ MODULE BenchRun ------------------------------
(***************************************************************************)
(* benchmark::run: the synchronous storage benchmark, as executed by a set *)
(* of workers (function invocations) that share one table, bucket or file. *)
(*                                                                         *)
(* A worker opens the storage, passes the start barrier, and runs up to    *)
(* four loops: warm-up writes, measured writes, warm-up reads, measured    *)
(* reads.  Every loop calls the key generator once per ATTEMPT and checks  *)
(* the time bound, counted from before init(), at its head.  A failed      *)
(* attempt (std::runtime_error) decrements the size_t loop counter, which  *)
(* the loop then increments again, and adds to err_count; more than        *)
(* ErrorMax errors destroy the storage, for everybody, and exit(1).        *)
(* err_count is reset before the warm-up reads only.  destroy() may fail,  *)
(* which ends the process, or, with s3, is only reported.                  *)
(*                                                                         *)
(* The storage itself is external.  What the loops can tell about it:      *)
(*   redis     needs no creation; destroy() is flushall                    *)
(*   s3        the bucket must exist, and creating an existing one fails   *)
(*   dynamodb  the table must exist, creating an existing one is tolerated;*)
(*             a read of a missing item throws std::out_of_range, which    *)
(*             the loops do not catch                                      *)
(*   mmux      the file must exist; put of an existing key is an error,    *)
(*             unless the client had to send it twice                      *)
(* and any operation of any of them may fail for a passing reason.         *)
(*                                                                         *)
(* The key generator is the sequential one, or the zipf one, whose draws   *)
(* are KeyGenerator's: any key up to n, and nothing for reset() to do.  It *)
(* is built before the clock starts, and what that took is subtracted from *)
(* the bound as an unsigned number: the bound may never pass.  The answer  *)
(* of the barrier is a free choice here; ControlBarrier models where it    *)
(* comes from.                                                             *)
(***************************************************************************)
EXTENDS Naturals, FiniteSets

CONSTANTS
  Workers,          \* the invocations that run the benchmark
  Confs,            \* the arguments they may be given: the storage interface, the
                    \* mode bits, warm_up and dist, the same for all workers
  NumOps,           \* the num_ops argument
  WarmUpDivisor,    \* 10: warm_up_ops = num_ops / 10
  ErrorMax,         \* ERROR_MAX
  SizeMax           \* the largest size_t

ASSUME BenchAssumption ==
  /\ Confs \subseteq [backend : {"redis", "s3", "dynamodb", "mmux"},
                       mode : SUBSET {"create", "write", "read", "destroy"},
                       warmUp : BOOLEAN, dist : {"sequential", "zipf"}]
  /\ NumOps \in Nat /\ ErrorMax \in Nat
  /\ WarmUpDivisor \in Nat \ {0}
  /\ SizeMax \in Nat /\ SizeMax >= NumOps

VARIABLES
  conf,      \* the arguments of this run
  pc,        \* where each worker is in run()
  i,         \* the counter of its current loop, a size_t
  err,       \* err_count
  key,       \* cur_key_ of its key generator, 0 for zipf
  expired,   \* whether its time bound has passed
  created,   \* the table, bucket or file exists
  store,     \* the keys in it
  files,     \* per worker and operation: latency lines, reported operations
  hist       \* history: what happened, for the properties only

vars == <<conf, pc, i, err, key, expired, created, store, files, hist>>

Backend == conf.backend
Mode    == conf.mode
WarmUp  == conf.warmUp
Sequential == conf.dist = "sequential"

WarmUpOps == NumOps \div WarmUpDivisor

WriteLoops == {"warm_write", "write"}
ReadLoops  == {"warm_read", "read"}
WarmLoops  == {"warm_write", "warm_read"}
Loops      == WriteLoops \union ReadLoops
Ended      == {"done", "aborted", "exited", "killed"}

Count(loop) == IF loop \in WarmLoops THEN WarmUpOps ELSE NumOps

\* --i and ++i on a size_t.
Dec(n) == IF n = 0 THEN SizeMax ELSE n - 1
Inc(n) == IF n = SizeMax THEN 0 ELSE n + 1

\* What a worker has written for an operation: the lines of its latency file, and
\* whether and which number of operations it has reported.
File(lines, reported, ops) == [lines |-> lines, reported |-> reported, ops |-> ops]

\* What the properties remember of a worker.
Past(done, wrote, complete, faults) ==
  [done |-> done, wrote |-> wrote, complete |-> complete, faults |-> faults]

Init ==
  /\ conf \in Confs
  /\ pc = [w \in Workers |-> "init"]
  /\ i = [w \in Workers |-> 0]
  /\ err = [w \in Workers |-> 0]
  /\ key = [w \in Workers |-> 0]
  /\ expired = [w \in Workers |-> FALSE]
  /\ created \in (IF Backend = "redis" THEN {TRUE} ELSE BOOLEAN)
  /\ store = {}
  /\ files = [w \in Workers |->
               [o \in {"write", "read"} |-> File(0, FALSE, 0)]]
  /\ hist = [w \in Workers |->
              Past([o \in {"write", "read"} |-> 0], 0, FALSE, 0)]

-----------------------------------------------------------------------------
(***************************************************************************)
(* The storage, as the loops see it.                                       *)
(***************************************************************************)

\* Any key can be written, over a value that is there, too.  mmux answers the put
\* of an existing key with an error; but a client that had to send its put again
\* takes this for the echo of the first one and returns !ok.
WriteCanSucceed == created

ReadCanSucceed(k) == created /\ k \in store

\* redis: flushall leaves the server usable.
FlushAll == store' = {} /\ created' = created

\* The others remove the bucket, table or file with all that is in it.
Remove == store' = {} /\ created' = FALSE

\* A removal that fails half-way: a bucket that was emptied, or not quite, before
\* its deletion failed; the one of several redis servers that refused to flush.
LeftOver == store' \in SUBSET store /\ created' = created

\* s_if->destroy() returns, for s3 even if the bucket could not be deleted.
DestroyReturns ==
  \/ Backend = "redis" /\ FlushAll
  \/ Backend \in {"s3", "dynamodb"} /\ Remove
  \/ Backend = "mmux" /\ created /\ Remove
  \/ Backend = "s3" /\ LeftOver

\* s_if->destroy() ends the process: redis calls exit(-1), dynamodb exit(1), and
\* mmux throws, which it does for a missing file, too.
DestroyKills ==
  \/ Backend = "redis" /\ LeftOver
  \/ Backend \in {"dynamodb", "mmux"} /\ UNCHANGED <<created, store>>

\* init(conf, create) of each backend: whether the process survives it.  redis
\* has nothing to create; an existing bucket cannot be created, and a missing
\* one is not noticed; create_table puts up with an existing table, and
\* wait_for_table needs one; mmux throws on either mismatch.  The name is the one
\* that conf sets: the default one gets a random suffix in each worker, is always
\* created, and is shared with nobody.
OpensRedis == created

OpensS3 == "create" \in Mode => ~created

OpensDynamodb == "create" \in Mode \/ created

OpensMmux == ("create" \in Mode) # created

CanOpen ==
  \/ Backend = "redis" /\ OpensRedis
  \/ Backend = "s3" /\ OpensS3
  \/ Backend = "dynamodb" /\ OpensDynamodb
  \/ Backend = "mmux" /\ OpensMmux

-----------------------------------------------------------------------------
(***************************************************************************)
(* run(), step by step.                                                    *)
(***************************************************************************)

\* s_if->init(conf, create) succeeds.
InitStorage(w) ==
  /\ pc[w] = "init"
  /\ CanOpen
  /\ created' = (created \/ "create" \in Mode)
  /\ pc' = [pc EXCEPT ![w] = "signal"]
  /\ UNCHANGED <<conf, i, err, key, expired, store, files, hist>>

\* init() ends the process.
InitFails(w) ==
  /\ pc[w] = "init"
  /\ ~CanOpen
  /\ pc' = [pc EXCEPT ![w] = "killed"]
  /\ UNCHANGED <<conf, i, err, key, expired, created, store, files, hist>>

\* The first loop of a phase: the warm-up if it was asked for.
FirstLoop(warm, measured) == IF WarmUp THEN warm ELSE measured

\* signal() answered true: run the phases in Mode.
SignalRun(w) ==
  /\ pc[w] = "signal"
  /\ pc' = [pc EXCEPT ![w] =
             IF "write" \in Mode THEN FirstLoop("warm_write", "write") ELSE "reset"]
  /\ UNCHANGED <<conf, i, err, key, expired, created, store, files, hist>>

\* signal() answered false: return, without destroy().
SignalAbort(w) ==
  /\ pc[w] = "signal"
  /\ pc' = [pc EXCEPT ![w] = "aborted"]
  /\ UNCHANGED <<conf, i, err, key, expired, created, store, files, hist>>

\* The condition at the head of each loop.
LoopCondition(w) == i[w] < Count(pc[w]) /\ ~expired[w]

\* What key_gen->next() may return, and what it leaves behind: one call for every
\* attempt.
NextKeys(w) == IF Sequential THEN {key[w]} ELSE 0 .. NumOps

KeyTaken(w) == key' = [key EXCEPT ![w] = IF Sequential THEN @ + 1 ELSE @]

Op(w) == IF pc[w] \in WriteLoops THEN "write" ELSE "read"

\* The measured loops write a latency line after every attempt, failed or not.
LogLatency(w) ==
  files' = IF pc[w] \in WarmLoops THEN files
           ELSE [files EXCEPT ![w][Op(w)] = File(@.lines + 1, @.reported, @.ops)]

OpSucceeds(w) ==
  /\ pc[w] \in Loops /\ LoopCondition(w)
  /\ \E k \in NextKeys(w) :
       IF pc[w] \in WriteLoops
       THEN WriteCanSucceed /\ store' = store \union {k}
       ELSE ReadCanSucceed(k) /\ store' = store
  /\ KeyTaken(w)
  /\ i' = [i EXCEPT ![w] = Inc(@)]
  /\ LogLatency(w)
  /\ hist' = IF pc[w] \in WarmLoops THEN hist
             ELSE [hist EXCEPT ![w] = Past([hist[w].done EXCEPT ![Op(w)] = @ + 1],
                                           @.wrote, @.complete, @.faults)]
  /\ UNCHANGED <<conf, pc, err, expired, created>>

\* A read failed although the key is there.
TransientRead(w, k) == pc[w] \in ReadLoops /\ ReadCanSucceed(k)

\* The answer to a read of dynamodb that has no item: at() throws out_of_range.
NotFound(w, k) ==
  Backend = "dynamodb" /\ pc[w] \in ReadLoops /\ created /\ k \notin store

\* What the handler of a failed attempt does but for the loop counter.  Any request
\* may fail with a runtime_error, that for an item which is missing, too.
Handle(w) ==
  /\ pc[w] \in Loops /\ LoopCondition(w)
  /\ \E k \in NextKeys(w) :
       hist' = IF TransientRead(w, k)
               THEN [hist EXCEPT ![w] = Past(@.done, @.wrote, @.complete, @.faults + 1)]
               ELSE hist
  /\ KeyTaken(w)
  /\ err' = [err EXCEPT ![w] = @ + 1]

\* Mutant of OpFails: errors are not counted and the key is tried again.
OpFailsForEver(w) ==
  /\ pc[w] \in Loops /\ LoopCondition(w)
  /\ UNCHANGED vars

\* A failed attempt: --i in the handler, the latency line, ++i of the loop.
OpFails(w) ==
  /\ Handle(w) /\ err'[w] <= ErrorMax
  /\ i' = [i EXCEPT ![w] = Inc(Dec(@))]
  /\ LogLatency(w)
  /\ UNCHANGED <<conf, pc, expired, created, store>>

\* One error too many: destroy() whatever the mode says, then exit(1), unless
\* destroy() has ended the process already.
TooManyErrors(w) ==
  /\ Handle(w) /\ err'[w] > ErrorMax
  /\ i' = [i EXCEPT ![w] = Dec(@)]
  /\ DestroyReturns \/ DestroyKills
  /\ pc' = [pc EXCEPT ![w] = "exited"]
  /\ UNCHANGED <<conf, expired, files>>

\* dynamodb: std::out_of_range leaves the loop and ends the process.
MissKills(w) ==
  /\ pc[w] \in Loops /\ LoopCondition(w)
  /\ \E k \in NextKeys(w) : NotFound(w, k)
  /\ KeyTaken(w)
  /\ pc' = [pc EXCEPT ![w] = "killed"]
  /\ UNCHANGED <<conf, i, err, expired, created, store, files, hist>>

\* redis: the connection is lost, and the client's callback calls exit(-1).
Disconnected(w) ==
  /\ Backend = "redis" /\ pc[w] \notin Ended \union {"init"}
  /\ pc' = [pc EXCEPT ![w] = "killed"]
  /\ UNCHANGED <<conf, i, err, key, expired, created, store, files, hist>>

\* What follows a loop in run().
NextPlace(loop) ==
  CASE loop = "warm_write" -> "write"
    [] loop = "warm_read"  -> "read"
    [] loop = "write"      -> "reset"
    [] loop = "read"       -> "finish"

\* Mutant of LoopEnds: the report counts the attempts.
LoopEndsWithAttempts(w) ==
  /\ pc[w] \in Loops /\ ~LoopCondition(w)
  /\ pc' = [pc EXCEPT ![w] = NextPlace(@)]
  /\ i' = [i EXCEPT ![w] = 0]
  /\ files' = IF pc[w] \in WarmLoops THEN files
              ELSE [files EXCEPT ![w][Op(w)] = File(@.lines, TRUE, @.lines)]
  /\ hist' = IF pc[w] = "write"
             THEN [hist EXCEPT ![w] = Past(@.done, key[w], ~expired[w], @.faults)]
             ELSE hist
  /\ UNCHANGED <<conf, err, key, expired, created, store>>

\* The loop ends: a warm-up goes on to the measured loop, which reports i.
LoopEnds(w) ==
  /\ pc[w] \in Loops /\ ~LoopCondition(w)
  /\ pc' = [pc EXCEPT ![w] = NextPlace(@)]
  /\ i' = [i EXCEPT ![w] = 0]
  /\ files' = IF pc[w] \in WarmLoops THEN files
              ELSE [files EXCEPT ![w][Op(w)] = File(@.lines, TRUE, i[w])]
  /\ hist' = IF pc[w] = "write"
             THEN [hist EXCEPT ![w] = Past(@.done, key[w], ~expired[w], @.faults)]
             ELSE hist
  /\ UNCHANGED <<conf, err, key, expired, created, store>>

\* Mutant of ReadPhase: the errors of the writes stay on the account.
ReadPhaseKeepsErrors(w) ==
  /\ pc' = [pc EXCEPT ![w] =
             IF "read" \in Mode THEN FirstLoop("warm_read", "read") ELSE "finish"]
  /\ err' = err

\* The read phase, if asked for: its warm-up starts with err_count = 0.
ReadPhase(w) ==
  /\ pc' = [pc EXCEPT ![w] =
             IF "read" \in Mode THEN FirstLoop("warm_read", "read") ELSE "finish"]
  /\ err' = IF "read" \in Mode /\ WarmUp THEN [err EXCEPT ![w] = 0] ELSE err

\* Mutant of Reset: the key generator goes on where the writes stopped.
ResetKeepsKey(w) ==
  /\ pc[w] = "reset"
  /\ ReadPhase(w)
  /\ UNCHANGED <<conf, i, key, expired, created, store, files, hist>>

\* Mutant of Reset: the key generator starts at 1.
ResetToOne(w) ==
  /\ pc[w] = "reset"
  /\ key' = [key EXCEPT ![w] = 1]
  /\ ReadPhase(w)
  /\ UNCHANGED <<conf, i, expired, created, store, files, hist>>

\* key_gen->reset(), which is nothing for zipf, then the read phase.
Reset(w) ==
  /\ pc[w] = "reset"
  /\ key' = [key EXCEPT ![w] = 0]
  /\ ReadPhase(w)
  /\ UNCHANGED <<conf, i, expired, created, store, files, hist>>

\* destroy(), if the mode asks for it, and the end of run().
Finish(w) ==
  /\ pc[w] = "finish"
  /\ IF "destroy" \in Mode THEN DestroyReturns ELSE UNCHANGED <<created, store>>
  /\ pc' = [pc EXCEPT ![w] = "done"]
  /\ UNCHANGED <<conf, i, err, key, expired, files, hist>>

\* The process does not survive that destroy().
FinishKills(w) ==
  /\ pc[w] = "finish" /\ "destroy" \in Mode
  /\ DestroyKills
  /\ pc' = [pc EXCEPT ![w] = "killed"]
  /\ UNCHANGED <<conf, i, err, key, expired, files, hist>>

\* now_us() - start_us reaches max_us, which is noticed at the next loop head.
Expire(w) ==
  /\ pc[w] \notin Ended /\ ~expired[w]
  /\ expired' = [expired EXCEPT ![w] = TRUE]
  /\ UNCHANGED <<conf, pc, i, err, key, created, store, files, hist>>

Attempt(w) == OpSucceeds(w) \/ OpFails(w) \/ TooManyErrors(w) \/ MissKills(w)

Step(w) ==
  \/ InitStorage(w) \/ InitFails(w) \/ SignalRun(w) \/ SignalAbort(w)
  \/ Attempt(w) \/ LoopEnds(w) \/ Reset(w) \/ Finish(w) \/ FinishKills(w)

AllEnded == \A w \in Workers : pc[w] \in Ended

Terminated == AllEnded /\ UNCHANGED vars

Next ==
  \/ \E w \in Workers : Step(w) \/ Expire(w) \/ Disconnected(w)
  \/ Terminated

\* Every storage call returns: a worker that can go on does.  Nothing makes the
\* time bound pass.
Spec == Init /\ [][Next]_vars /\ \A w \in Workers : WF_vars(Step(w))

-----------------------------------------------------------------------------
(***************************************************************************)
(* Properties.                                                             *)
(***************************************************************************)

\* What a finished phase reports is what happened: the operations behind the
\* throughput are exactly the successful ones (never the retried failures), and
\* the latency file has at least that many lines, one per attempt.  The counter
\* behind it never keeps the wrapped value that --i gives it at 0, except in a
\* worker that has ended on an error.
ReportIsHonest ==
  \A w \in Workers :
    /\ pc[w] \notin {"exited", "killed"} => i[w] <= NumOps
    /\ \A o \in {"write", "read"} :
         LET f == files[w][o]
         IN  f.reported => f.ops = hist[w].done[o] /\ f.lines >= f.ops

\* No worker has removed the storage: none was to, none failed too often.
Undisturbed ==
  /\ "destroy" \notin Mode
  /\ \A w \in Workers : pc[w] # "exited"

\* Failed writes leave holes in the key sequence, and every hole costs the read
\* phase one attempt, but just one: as long as the write phase was not cut short
\* by the time bound and no read fails for a passing reason, the reads find
\* their operations among the keys that the writes went through.
ReadsStayInWrittenRange ==
  Undisturbed => \A w \in Workers :
    pc[w] \in ReadLoops \union {"finish", "done"} /\ hist[w].complete
      /\ hist[w].faults = 0
        => key[w] <= hist[w].wrote

\* With warm-up and sequential keys, holes alone never end a run: the write phase
\* got through with at most ErrorMax failures and err_count starts again at 0, so
\* that a worker whose writes were complete exits in its reads only after a read
\* that failed for another reason, or after its peer has removed the storage.
HolesNeverAbort ==
  WarmUp /\ Sequential /\ "destroy" \notin Mode =>
    \A w \in Workers :
      pc[w] = "exited" /\ hist[w].complete /\ hist[w].faults = 0
        => \E v \in Workers \ {w} : pc[v] = "exited"

\* An item that cannot be found kills a dynamodb run (std::out_of_range passes
\* the handlers).  With sequential keys and after a complete write phase that takes
\* a hole, the key of a failed write, or a read that failed for a passing reason
\* and moved the reads on past the last key written.
KilledOnlyByHole ==
  Backend = "dynamodb" /\ Sequential /\ Undisturbed =>
    \A w \in Workers :
      pc[w] = "killed" /\ hist[w].complete /\ hist[w].faults = 0
        => hist[w].wrote > (IF WarmUp THEN WarmUpOps ELSE 0) + NumOps

\* The help text of --mode: "destroy  - destroy the table/bucket/file".  Read as
\* what asks for it: without it in the mode the storage is still there.
DestroyedOnlyOnRequest ==
  [][created /\ ~created' => "destroy" \in Mode]_vars

\* Every worker that passed the barrier ends: each attempt is one operation
\* closer to the end of the loop, or one error closer to the limit.
Termination == <>AllEnded

=============================================================================
