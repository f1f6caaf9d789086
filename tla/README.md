# A TLA+ verification project for storage-bench

storage-bench measures storage systems (redis, S3, DynamoDB, mmux) from AWS
Lambda functions.  A driver script invokes many functions, holds them at a start
barrier, releases them in waves, and each function runs one benchmark binary
against a storage system it usually shares with all the others.  What the program
produces is measurements, so that "correct" mostly means: everybody who should
run does, once and at the right time; a run ends; and what it writes down is what
happened.

## Inventory

| component | source | state | operations | what is hard |
|---|---|---|---|---|
| start barrier | `lambda_benchmark.py` `control_worker`, `benchmark_utils.h` `signal` | `inputs`, `ids`, `ready`, `run`, wave; per worker a socket | connect, READY, accept, recv, sort, RUN, ABORT, close | duplicate invocations, killed workers, order of arrival, the exit of the control process |
| synchronous benchmark | `benchmark.h` `run` | loop counter (`size_t`), `err_count`, key generator, files | four loops, reset, destroy | retries, holes, shared storage, wrap-around, time bound |
| storage interfaces | `redis.cpp`, `s3.cpp`, `dynamodb.cpp`, `memorymux.cpp` | the bucket, table or file; queues of futures | init, write, read, destroy, write_async, wait_write, ... | they differ in what init and a missing key do |
| asynchronous benchmark | `benchmark.h` `run_async`, `queue.h` | loop counter, FIFO of futures, interval counter | issue, wait, measure | an error leaves futures behind |
| notification benchmark | `benchmark.h` `benchmark_notifications`, `redis_notification.cpp` | publish times, per listener notification times and a counter | subscribe, publish, wait, callback | callback threads without a lock, late subscriptions, other publishers on the channel |
| rate limiter | `rate_limiter.cpp` | `m_next_free`, `m_interval`, permits | set_rate, acquire | threads, a system clock that is set, unsigned arithmetic |
| rate limited benchmark | `benchmark.h` `run_rate_limited` | a sender and a receiver thread over `queue.h` | send_*, recv_* | time bounds of two threads, a blocking pop |
| token bucket | `token_bucket.cpp` | one atomic time | consume | compare-and-swap |
| log server, handler | `lambda_benchmark.py` `log_worker`, `benchmark_handler.py` | connections, count of closed ones | connect, log, CLOSE | a count that duplicates and losses disturb |
| key generators | `key_generator.cpp` | `cur_key_`; table of sums | next, reset | boundaries of the search, rounding |
| mmux client library | `external/libmmux` | chain connections, block list, leases, mailboxes | put/get/..., redirects, retries, renewal | retries of what was done, redirects, threads |

Three of these parts are not used: `run_rate_limited` has no caller in the
repository (neither main offers it), `rate_limiter` is used by `run_rate_limited`
only, and `token_bucket` by nothing but its own files and the build.  What is said
of them here is about code that no benchmark runs today.

The parts interact as follows.  The driver forks the log server and the control
process and invokes the functions.  A function's handler connects to the log
server and runs a binary, which opens the storage, then calls `signal()` and
blocks until the control process answers, then runs one of `run`, `run_async` or
`benchmark_notifications`.  Workers interact with each other only through the
control process and through the storage.

`PROJECT.json` lists every component with its status, and under `hazards` every
place where the code is hard to test, with the properties that watch it.

## Modules

One module per component; a component that needs several instances, model values
or sets of arguments has an `MC` module.  Definitions named "Mutant of X" are the
ways in which a plausible bug would change X: every property of every passing run
has one under which TLC finds the property violated.  No specification uses them.

**ControlBarrier** (`MCControlBarrier`).  The workers (function invocations) and
the control process are separate processes.  An invocation connects, sends
`READY:<id>`, and does one `read()`.  The control process is modelled at the grain
of its system calls: `Select` fixes the set of readable sockets, `Accept`,
`RecvReady`, `RecvDuplicate`, `RecvEof` take them one at a time, `EndOfBatch` goes
back to select or sorts, `SendRun`/`SendRunFails` and `Sleep` are the waves.  The
platform (external) may deliver an event twice, which is the function `IdOf` on a
larger set of invocations, and may kill an invocation (`Die`, bounded by
`MaxDeaths`).  A killed worker's socket is closed by the control process, but its
place in `ready` stays, so that the send in the wave loop raises: `SendRunFails`.

**BenchRun** (`MCBenchRun`).  `Workers` run `benchmark::run` on one shared
storage, each with its own counter, `err_count`, key generator and time bound.
`conf` holds the arguments (backend, mode, warm_up).  The storage is what the
loops can tell: whether the container exists and which keys are in it.  Any
operation may also fail for a passing reason, that on a missing item too, and so
may `destroy`: s3 only reports it and leaves the bucket, emptied or not
(`DestroyReturns`); redis, dynamodb and mmux end the process (`DestroyKills`), which
is `TooManyErrors` ("exited", as it would have been) or `FinishKills` ("killed").  `CanOpen` says what `init` of each
backend makes of an existing or missing container.  `i` is a `size_t` of size
`SizeMax`.  The key generator is the sequential one or the zipf one, which may
draw any key up to n.  `hist` records successes and keys for the properties and
feeds nothing back.

**AsyncRun**.  `run_async` of one worker: batches of `NAsync` requests, the FIFO
of futures (each represented by the number of its batch), the handler, the lines
written once per second.  Time is counted in seconds; the outcome of a request is
chosen when it is waited for.  `Interfaces` has the two ways in which requests are
sent: "futures" (redis, s3, dynamodb: each request is sent when it is issued) and
"batched" (mmux: requests are collected in a buffer, the first wait sends them all
in one call and queues the replies).  "futures" stands for three interfaces at once
and may do what any of them does: lose its connection (`Disconnected`, redis) or meet
a missing item, which ends the process (`CallKills`, dynamodb).  A failed `destroy`
at the end is `FinishKills`.

**Notification**.  The main thread, a callback thread per listener, and the server
(external), which may take its time to subscribe a listener.  A time stamp is
represented by the message it belongs to, so that a shifted row is visible.  In
scale mode all workers use the same channel: up to `MaxForeign` messages of others
arrive between those of this worker.  The rows are written from three unlocked
looks at the vectors (two copies and `get_latencies`), and what a look that races
with a `push_back` or goes behind the end returns is `Garbage`.  A lost connection
ends the process.

**RateLimiter** (`MCRateLimiter`).  Threads, the rate (whole numbers from 1 to
`Second`; a rate above one per microsecond would make the interval 0), a steady clock and a system clock that may be set.  `claim_next` runs under the lock
and is one step; the sleep of `acquire` is outside of it and on the steady clock.

**RateLimited**.  `run_rate_limited`: per phase a receiver thread and the sender,
which share the interface's queue of futures only.  The loops are the same in all
four functions and are written once, with the thread as parameter; `push` and `pop`
are at the grain of the lock and the condition variable (`Push` under the lock,
`Notify` after it; `PopWaits`, `WakesUp` with or without a notification,
`PopTakes`).  An answer is a success or an error when the future is looked at.

**Fifo** is what `queue<T>` promises: an item comes out once and in order, and a
thread that asks gets one as soon as there is one; it knows neither locks nor
wake-ups.  RateLimited implements it (`QueueIsFifo`, liveness included).

**TokenBucket** (`MCTokenBucket`).  `consume` at the grain of its atomic operations:
the reading of the clock (`Call`), the three loads (`LoadToken`, `LoadBurst`,
`LoadTime`), the weak exchange, which may fail for no reason, and the repetition
without the clamp.  `operator=` stores its two parameters one after the other.  All
arithmetic is modulo `Word`.  The relaxed operations are interleaved one at a time:
that a relaxed load may see parameters older than the last assignment is like an
assignment that comes later, but for the order of the two.  An observer's window (`Watch`, history only) states
what "limits the rate" means for several threads.

**KeyGenerator**.  `gen_zipf` and `next` of the zipf generator.  A double is a
number of units of 1/`One`, and every inexact quotient may round either way.
Additions are exact, where those of doubles round, relative to the size of the sum;
the two units per key that `OutsideOnlyByRounding` allows leave room for that.

**Deployment** (`MCDeployment`) composes ControlBarrier with the function handlers
and the log server: a handler connects to the log server, then its binary is the
worker of ControlBarrier, then it closes; log_worker counts ended connections.  The
driver is done when both processes have ended.  An invocation lost before it ran,
by the platform or because `init` of its storage failed, is a `Die` of
ControlBarrier.

The theorems about a module are in a module of their own: **ControlBarrierProofs**
(which is also about Deployment), **BenchRunProofs**, **AsyncRunProofs**,
**NotificationProofs**, **RateLimiterProofs**, **RateLimitedProofs** (which is also
about Fifo), **TokenBucketProofs** and **KeyGeneratorProofs**; see below.

## Runs

| run | what it checks | bounds, and why they are enough |
|---|---|---|
| `barrier_live` | waves in id order; a holder of a place never gives up; every id ends with exactly one running worker | two waves of two, one duplicate of id 1: order inside and between waves, the duplicate before, between and after; nobody killed, deadlock checked |
| `barrier_deaths` | nobody is told to run early; one runner per id; the control process crashes only over a dead holder; after all ids have reported nobody waits for ever | one wave of three, a duplicate, two deaths: a holder, a duplicate, both, before and after the READY. Here the system may stop: a dead id may keep the others waiting |
| `bench_shared` | reports are honest; holes cost the reads one attempt each, never end a run with warm-up, and alone explain a killed dynamodb run; every worker ends | two workers, 2 operations and 1 warm-up operation, one tolerated error: errors in each loop, one below and above the limit; both cases of an existing container; seven sets of arguments, two of them with zipf keys. Those in which the workers remove the storage, or the removal fails, are without warm-up; with it, and an error too many, it is removed as well |
| `bench_destroy` | *violation*: the storage is removed without `destroy` in the mode | two workers, s3 |
| `async_batches` | the queue never runs dry; leftover futures are bounded; the series account for all full batches; the shortfall is bounded; the run ends | batches of 3 (a leftover of 0, 1 and 2), two batches a phase, two tolerated errors, two seconds; both interfaces |
| `async_rate` | *violation*: n of `async{n}` is no rate | batches of 2 |
| `notification_rows` | without other publishers rows pair a message with itself, the copies not racing with callbacks; with them only the number of rows is checked, one per publish, not what is in them; the run ends unless it was disturbed | two listeners, three messages, one tolerated error, one message of another worker (before, between and after the own ones, and between the looks at the vectors). The wait may never end, so that the system may stop |
| `limiter_clock` | places are spaced; the wait never wraps; calls return no faster than the rate; idle time is charged to nobody | two threads, two rates, four claims, clock set by one unit back and forward |
| `rate_limited` | the queue implements Fifo; the run ends unless an answer was an error or the sender was cut short; a finished phase had no error and left no future; the measured loop counts measured requests only; the two series agree | one warm-up operation and three measured ones, one tolerated error per thread: an error in each loop of each thread, one above the limit, the receiver faster and slower than the sender. The receiver may wait for ever, so that the system may stop |
| `token_bucket` | `m_time` never passes the clock (`BucketTypeOK`); grants are paid for; within a window all threads get at most a burst and the time passed; every call returns | two threads, one or two tokens, bursts of two tokens, a clock that starts below and at a burst, one assignment: one exchange that fails because of the other thread, any number for no reason. The clock stops at its bound |
| `zipf_search` | the search stays in the table and returns the reference answer; a key out of range comes of rounding only; every call returns | tables of 0, 1, 2, 3, 5 and 8 keys (empty, powers of two and not), both ends of theta, every rounding, every draw |
| `deployment` | a worker whose id is missing is turned away only after as many losses and duplicates as there are ids; complete logs; the driver ends once all ids have reported, and hangs only after a loss | two ids, one duplicate, two losses: the fewest with which the listener closes on somebody. The driver may wait for ever |

The two violations are disagreements between the help text of the driver and the
code (`findings`): "`async{n}` - send asynchronous read/write requests at rate n"
while n is the size of a batch, and "`destroy` - destroy the table/bucket/file"
while a worker with more than `ERROR_MAX` errors destroys it in every mode.

### Fairness

Weak fairness of each process of ControlBarrier (they are scheduled, and the
kernel delivers what was sent), never of `Die`.  `EveryIdRuns` and
`NobodyLeftWaiting` rest on the listener being closed when the control process exits,
as the kernel does with the descriptors of a process, whatever ends it.  The driver
makes the listener before it forks, and gives up its own copy when
`Process.start()` drops the arguments, which it does from Python 3.6.2 on; with an
older one a late duplicate would connect to a listener nobody serves.  Weak fairness of each worker's
step in BenchRun and of the step of AsyncRun: storage calls return, which the
clients' own time-outs ensure; nothing forces errors, the time bound or the loss
of a connection.  In Notification, the threads run and the server answers and
delivers; nothing makes other workers publish.  RateLimited: both threads are
scheduled and every request is answered; no wake-up without a notification is ever
needed.  TokenBucket: threads run (weak), and an exchange that could succeed again
and again does not fail for ever (strong: a weak compare-and-swap fails for no
reason now and then, not always).  KeyGenerator: the caller runs.  Deployment: all
processes run, and a benchmark that was told to run ends, which is `Termination` of
BenchRun and AsyncRun; nothing forces a loss.  RateLimiter has no liveness property.

### What the runs say about the code

* A missing worker is never noticed: `NobodyLeftWaiting` is stated from the moment
  all ids have reported, and does not hold from the start.
* `RowsAreSound` holds although publishes may be refused and subscriptions late:
  what these cause is that `wait()` never ends.  With other publishers on the
  channel its pairing is not promised, and does not hold: rows are then shifted or
  read behind the end of a vector, and the `!=` of `wait()` may be passed by.
* `run_rate_limited` has no room for errors: after one error answer the receiver
  waits for one future more than will ever come, and `join()` does not return
  (`FinishedMeansNoErrors`, `EndsUnlessLost`).
* The token bucket keeps to its burst only for calls that exchange at the first try:
  a repeated exchange takes up `m_time` without the clamp and may spend idle time
  that was forfeited.  `WithinBurst` excuses such calls: it says where the burst
  holds, and does not catch the missing clamp.  While the machine has been up for less than a burst,
  `min_time` wraps and the limit is lost, though `m_time` stays behind the clock.
* The zipf generator may return the key n, by rounding, for r next to 1.
* The log server counts ended connections, not ids: with as many losses and
  duplicates as ids, a worker that is still wanted finds the listener closed.
* A bucket that could not be deleted ends nothing: s3 prints it and goes on, and the
  next run with `create` finds the bucket there.  The other three end the process.
* mmux: `wait_read` counts replies that are errors as reads, and a batched call that
  throws ends the process; the queue of replies never runs dry all the same.
* In scale mode (`warm_up = 0`) the errors of the writes count against the reads;
  `HolesNeverAbort` is about runs with warm-up.

## Proofs

The provers show the following for every value of the constants that satisfies
the named assumptions.

**RateLimiterProofs** (from `RateAssumption`: rates between 1 and `Second`, the
word larger than any time, finitely many threads).  `TypeCorrect`, `SpacingKept` (`PlacesAreSpaced`),
`NoWrapAround` (`WaitNeverWraps`), `RateKept` (`RateIsKept`) and `NoIdleCharged`
(`WaitsOnlyForSleepers`).  The inductive invariant `RInv` adds what these
lack: `m_next_free` is at or after the end of the last claim's interval
(`FreeAfterLast`, from which the next place is far enough), no permit is ever
stored, and `m_next_free` is at most the claims' intervals ahead of the clock
(`FreeIsNear`, from which the wait is bounded).  The step that matters is
`ClaimRInv`.  The other two need `TInv` on top of it: each claim pays for an interval
that starts at its place, and a thread claims only when its last claim is over
(`OneSleep`), so that the claims still ahead of the clock belong to different
sleepers; of more claims than there are sleepers one is over (`OneIsOver`, by an
injection into the threads), and from it both bounds follow.

**ControlBarrierProofs** (from `CountAssumption`: at least one worker and one
wave, and `InvocationAssumption`: an event carries one of the ids).
`BarrierTypes` (`TypeOK`), `BarrierHolds` (`RunAfterAllReady`), `SingleRunner`
(`OneRunnerPerId`), `WaveOrder` (`WavesInIdOrder`), `HoldersKept`
(`HolderNotAborted`) and `CrashCause` (`CrashOnlyAfterLoss`), for any number of
invocations, waves and deaths.  None of them is inductive.  `CInv` adds: the
entries of `ready` and the elements of `ids` correspond one to one
(`PlacesAreHeld`, `OnePlacePerId`), the loop ends only with all ids (`LoopCount`),
from the sort on place k is the one of id k - 1 (`Sorted`), RUN has gone to exactly
the first `idx` places (`RunSoFar`), `idx` lies in the current wave (`WaveCount`),
and what either end of a connection can conclude about the other (`Connections`: a
socket that is closed while the control process lives belongs to a dead worker or
to a duplicate).  The sort is the interesting step (`SortedPlaces`): a list that
climbs over all ids and has as many entries as there are ids must be 0, 1, 2, ...
(`ClimbsByOne`, by counting the values below and above an entry, which needs no
induction).

The same module has the theorems about Deployment, which need in addition that the
platform delivers finitely many invocations (`FiniteInvocations`: the properties
count them).  `DeploymentImplementsBarrier` is the safety part of a refinement: each
step of the deployed system is a step of ControlBarrier or leaves its variables
alone.  So `CInv` holds there too, and `DInv` adds: who runs was told so, and a
handler ends after its binary (`RunnersWereTold`); a log connection is in one of the
two sets (`LogConnections`); `n_closed` is at most the number of handlers that have
ended and whose connection has been read (`ClosesCounted`).  `NobodyTurnedAwayEarly`
(`TurnedAwayOnlyByDuplicates`): while an id is missing nobody was told to run, so
that these handlers are all losses and duplicates.  `LogsComplete`
(`LogsAreComplete`): at most `NumWorkers` are told to run, one per id, and
`n_closed` has reached `NumWorkers`; what is missing among the closed ones was made
up for by losses and duplicates.

**BenchRunProofs** (from `BenchAssumption`: a `size_t` holds `num_ops`, the warm-up
divisor is positive).  `HonestReport` (`ReportIsHonest`), `ReadsInRange`
(`ReadsStayInWrittenRange`), `HolesTolerated` (`HolesNeverAbort`) and `HoleKilled`
(`KilledOnlyByHole`), for any set of workers and any sets of arguments.  `BInv` has
per worker: the counter is between 0 and the count of the loop, and is the number of
successes of the measured loop (`CountInv`; `--i` in the handler may wrap, and the
`++i` that follows makes it good); each attempt has taken one key and was an
operation or an error (`KeysInv`); and the counting of the holes (`HolesInv`): the
writes leave at most as many as they had errors, and the reads' key, plus the holes
ahead of it, plus the operations still to do, stay within the keys written.  Another
worker only fills holes, as long as nobody removes the storage (`OthersKeep`).

**AsyncRunProofs** (from `AsyncAssumption`: batches are not empty, a `size_t` holds
`num_ops` and a batch).  `NoWaitBlocks` (`NoWaitOnEmptyQueue`), `DriftBound`
(`DriftIsBounded`), `ShortfallBound` (`ShortfallIsBounded`) and `LinesAddUp`
(`SeriesAddUp`).  `AInv` bounds the length of the queue from both sides at each stage
of a batch (`QueueInv`), and the counter by what full and failed batches have reached
(`CounterInv`).  The sum of the write series is defined by recursion, about which the
provers can do no induction; `WriteInv` gets along without: it says of *every*
function with the recursion's equation that its last value and the counter make up
the operations done, and of some function that it is one.

**NotificationProofs** (from `NotificationAssumption`).  `RowsPairUp`
(`RowsAreSound`).  `NInv`: what the server has sent to a listener keeps the order of
the publishes and misses at most those refused or published before the subscription
(`Fits`), so that a listener with as many notifications as there were publishes has
all of them, each at its position.

**RateLimitedProofs** (from `RateLimitedAssumption`).  `FinishedHadNoErrors`
(`FinishedMeansNoErrors`), `OnlyMeasuredCounted` (`MeasuredOnly`), `SeriesAgree`
(`ReceivedWithinSent`), and `QueueIsFifoSafe`: Fifo's initial condition and steps,
under the refinement mapping of `QueueIsFifo`.  `RLInv` keeps the balance of a phase:
what the receiver has taken, errors included, and what is in the queue have been
sent, and the requests of the warm-up come first (`Balance`); each thread's series is
the count of its measured loop (`LoopInv`).

**TokenBucketProofs** (from `BucketAssumption`: a token costs something, and no time
of the clock with a burst and the cost of a call wraps).  `TypeCorrect` (`BucketTypeOK`),
`NoGrantIsLost` (`GrantsArePaid`) and `BurstIsKept` (`WithinBurst`).  `TBInv` has what a
call knows between its load and its exchange (`CallInv`): an exchange that succeeds
moves `m_time` on by the cost or more, whatever the other threads did in between; and
that the grants of a window are covered by what `m_time` has moved on since a burst
before it (`WindowIsPaid`).

**KeyGeneratorProofs** (from `KeyGeneratorAssumption`: a double resolves the keys of
the table).  `SearchIsCorrect` (`FoundPlace`) from `KInv`: the entries grow, and the
answer is between `lo` and `hi`.  `OutsideByRounding` (`OutsideOnlyByRounding`) from
`RoundInv`: there is a history of the running sum (a function, built up along the
loop) such that c times its k-th value, rounded, is covered by the k-th entry and two
units per key (`OneEntry` is the step); the last entry then is within 2n units of 1.

The assumptions are the ones TLC evaluates on every run.  All of them say that
numbers are natural, that something is not empty or that a machine word is large
enough for the arguments; where the code can leave the latter the model says what
happens then (the token bucket's `min_time`, `--i` at 0).

Every invariant of the runs is a theorem.  Only model-checked are the temporal
properties, as liveness, fairness and ENABLED are out of the provers' reach:
`EveryIdRuns`, `NobodyLeftWaiting`, `Termination` (twice), `EndsUnlessDisturbed`,
`EndsUnlessLost`, `EveryCallReturns`, `EveryKeyIsFound`, `DriverEnds`,
`HangsOnlyAfterLoss`, and the fairness half of `QueueIsFifo`.

## Not modelled

* The mmux client library under `external/libmmux` (replica chain, key/value client,
  leases, listener, directory client) and the Thrift-generated services.  It is a
  vendored client of another project, and the servers whose answers decide what it
  does are not in the repository: a model would be one of guesses.  What the
  benchmarks can see of it is in BenchRun (a put that was sent twice may pass for a
  success) and AsyncRun (a batch may throw, or bring any mixture of answers).
* Argument parsing and AWS set-up, formatting of files, scripts.
* Inside of the storage interfaces: deleting a bucket object by object (a failure
  half-way is `LeftOver`; that `empty_bucket` returns is assumed, though its loop has
  no bound while deletions fail), the polling for a bucket or table to appear, the
  choice of a redis server by a hash of the key, and the default names of bucket,
  table and file, which get a random suffix and are created for one worker alone.
  A removal of which only the answer was lost counts as one that did not happen.
* Exact times and latencies: only their order and number.

## Plan

The model is complete but for the parts above, and every safety property of it is
proved.  What may be added:

1. Variants for the termination properties, proved as action properties: a measure
   that no step of a worker increases and every attempt of BenchRun and AsyncRun
   decreases.  `Termination` would follow from it and the fairness.
2. That a state in which ControlBarrier can take no step is one in which everybody
   has ended or somebody's id is missing, with the enabling conditions written out.
3. Action properties of the barrier: a RUN that was sent is never taken back
   (`ControlKeepsRunners` is its main lemma), `ids` only grows.
