--------------------------- MODULE ControlBarrier ---------------------------
(***************************************************************************)
(* The start barrier of a scaled benchmark.                                *)
(*                                                                         *)
(* The driver (lambda_benchmark.py) forks one control process that runs    *)
(* control_worker.  Every function invocation runs the benchmark binary,   *)
(* which calls benchmark_utils::signal: it connects to the control         *)
(* process, sends "READY:<id>" and blocks in ONE read() without a timeout; *)
(* it runs the benchmark iff what it read is "RUN".  control_worker        *)
(* collects WorkersPerTrigger * TriggerCount distinct ids, answers ABORT   *)
(* to a second invocation with an id it has seen, then sends RUN in waves  *)
(* of WorkersPerTrigger ids with a sleep after each wave, and exits.       *)
(*                                                                         *)
(* Functions are invoked with InvocationType='Event': the platform may     *)
(* deliver an event twice (two invocations with one id) and may kill a     *)
(* function at any time.  A killed worker closes its socket; a recv on it  *)
(* returns no data, and the control process then closes its own end but    *)
(* keeps the id in `ids' and the socket in `ready', so that the later      *)
(* sock.send of the wave loop raises and ends the control process.  When   *)
(* the control process ends, by either way, the kernel closes the listener *)
(* and every connection, and a worker blocked in read() gets end of file.  *)
(*                                                                         *)
(* Abstractions: select returns its ready sockets in the order of `inputs' *)
(* and accept the oldest connection; here both orders are arbitrary.  The  *)
(* sleep is a step without a duration.  The death of a worker that has     *)
(* been told to run is left out: control_worker never looks at it again.   *)
(***************************************************************************)
EXTENDS Naturals, Sequences, FiniteSets

CONSTANTS
  Invocations,        \* the function invocations the platform delivers
  IdOf,               \* the id in the event of each of them
  WorkersPerTrigger,  \* control_worker's workers_per_trigger
  TriggerCount,       \* control_worker's trigger_count
  MaxDeaths           \* bound: how many invocations are killed before they run

NumWorkers == WorkersPerTrigger * TriggerCount

Ids == 0 .. NumWorkers - 1

\* main() calls invoke_n(args, mode, workers * triggers): the ids are 0..n-1.
ASSUME CountAssumption ==
  /\ WorkersPerTrigger \in Nat \ {0}
  /\ TriggerCount \in Nat \ {0}
  /\ MaxDeaths \in Nat

ASSUME InvocationAssumption == IdOf \in [Invocations -> Ids]

VARIABLES
  wpc,      \* where each invocation is in signal()
  inbox,    \* its READY message: not sent, in the socket, or read by recv
  reply,    \* what the control process has sent to it
  closed,   \* connections the control process's end of which is closed
  backlog,  \* connections not yet accepted
  inputs,   \* accepted connections in `inputs' (the listener is always in it)
  batch,    \* what is left of `readable' in this turn of the select loop
  ids,      \* control_worker's ids
  ready,    \* control_worker's ready: a sequence of <<id, connection>>
  run,      \* control_worker's run
  wave,     \* t, the wave being sent
  idx,      \* number of entries of `ready' that have been sent RUN
  cpc,      \* where control_worker is
  deaths    \* number of invocations killed so far

workerVars == <<wpc, deaths>>
loopVars   == <<ids, ready, run>>
vars == <<wpc, inbox, reply, closed, backlog, inputs, batch, ids, ready, run,
          wave, idx, cpc, deaths>>

Init ==
  /\ wpc = [w \in Invocations |-> "init"]
  /\ inbox = [w \in Invocations |-> "unsent"]
  /\ reply = [w \in Invocations |-> "none"]
  /\ closed = {} /\ backlog = {} /\ inputs = {}
  /\ batch = [accept |-> FALSE, conns |-> {}]
  /\ ids = {} /\ ready = <<>> /\ run = TRUE
  /\ wave = 0 /\ idx = 0
  /\ cpc = "select"
  /\ deaths = 0

ControlGone == cpc \in {"done", "crashed"}

-----------------------------------------------------------------------------
(***************************************************************************)
(* The worker: benchmark_utils::signal.                                    *)
(***************************************************************************)

\* connect() succeeds: the connection waits in the listener's backlog.
Connect(w) ==
  /\ wpc[w] = "init" /\ ~ControlGone
  /\ wpc' = [wpc EXCEPT ![w] = "connected"]
  /\ backlog' = backlog \union {w}
  /\ UNCHANGED <<inbox, reply, closed, inputs, batch, loopVars, wave, idx, cpc,
                 deaths>>

\* connect() is refused, the listener being closed: signal returns false.
ConnectRefused(w) ==
  /\ wpc[w] = "init" /\ ControlGone
  /\ wpc' = [wpc EXCEPT ![w] = "aborted"]
  /\ UNCHANGED <<inbox, reply, closed, backlog, inputs, batch, loopVars, wave,
                 idx, cpc, deaths>>

\* send("READY:" + id).  Its result is ignored, on a closed connection too.
SendReady(w) ==
  /\ wpc[w] = "connected"
  /\ wpc' = [wpc EXCEPT ![w] = "waiting"]
  /\ inbox' = [inbox EXCEPT ![w] = "sent"]
  /\ UNCHANGED <<reply, closed, backlog, inputs, batch, loopVars, wave, idx,
                 cpc, deaths>>

\* Mutant of ReadReply: only an ABORT keeps the worker from running.
ReadReplyUnlessAbort(w) ==
  /\ wpc[w] = "waiting"
  /\ reply[w] # "none" \/ w \in closed
  /\ wpc' = [wpc EXCEPT ![w] = IF reply[w] # "ABORT" THEN "running" ELSE "aborted"]
  /\ UNCHANGED <<inbox, reply, closed, backlog, inputs, batch, loopVars, wave,
                 idx, cpc, deaths>>

\* The one read(): an answer that was sent comes before the end of file, and
\* anything but RUN, an empty buffer included, makes signal return false.
ReadReply(w) ==
  /\ wpc[w] = "waiting"
  /\ reply[w] # "none" \/ w \in closed
  /\ wpc' = [wpc EXCEPT ![w] = IF reply[w] = "RUN" THEN "running" ELSE "aborted"]
  /\ UNCHANGED <<inbox, reply, closed, backlog, inputs, batch, loopVars, wave,
                 idx, cpc, deaths>>

\* The platform kills an invocation that has not been told to run.
Die(w) ==
  /\ wpc[w] \in {"init", "connected", "waiting"}
  /\ deaths < MaxDeaths
  /\ wpc' = [wpc EXCEPT ![w] = "dead"]
  /\ deaths' = deaths + 1
  /\ UNCHANGED <<inbox, reply, closed, backlog, inputs, batch, loopVars, wave,
                 idx, cpc>>

-----------------------------------------------------------------------------
(***************************************************************************)
(* The control process: control_worker.                                    *)
(***************************************************************************)

\* A recv on the connection returns at once: data, or the end of file.
Readable(w) == inbox[w] = "sent" \/ wpc[w] = "dead"

\* select.select(inputs, outputs, inputs), which blocks until one is readable.
Select ==
  /\ cpc = "select"
  /\ LET conns == {w \in inputs : Readable(w)}
     IN  /\ backlog # {} \/ conns # {}
         /\ batch' = [accept |-> backlog # {}, conns |-> conns]
  /\ cpc' = "batch"
  /\ UNCHANGED <<workerVars, inbox, reply, closed, backlog, inputs, loopVars,
                 wave, idx>>

\* r is s: accept one connection.
Accept ==
  /\ cpc = "batch" /\ batch.accept
  /\ \E w \in backlog :
       /\ backlog' = backlog \ {w}
       /\ inputs' = inputs \union {w}
  /\ batch' = [accept |-> FALSE, conns |-> batch.conns]
  /\ UNCHANGED <<workerVars, inbox, reply, closed, loopVars, wave, idx, cpc>>

\* Take connection w of this turn: recv returns READY if it is there.
Recv(w) ==
  /\ cpc = "batch" /\ w \in batch.conns
  /\ batch' = [accept |-> batch.accept, conns |-> batch.conns \ {w}]

\* Mutant of TakePlace: the ids are counted from 1.
TakePlaceFromOne(w) ==
  /\ inbox' = [inbox EXCEPT ![w] = "read"]
  /\ ids' = ids \union {IdOf[w] + 1}
  /\ ready' = Append(ready, <<IdOf[w] + 1, w>>)
  /\ UNCHANGED <<workerVars, reply, closed, backlog, inputs, wave, idx, cpc>>

\* ids.add(i), ready.append((i, r))
TakePlace(w) ==
  /\ inbox' = [inbox EXCEPT ![w] = "read"]
  /\ ids' = ids \union {IdOf[w]}
  /\ ready' = Append(ready, <<IdOf[w], w>>)
  /\ UNCHANGED <<workerVars, reply, closed, backlog, inputs, wave, idx, cpc>>

\* Mutant of RecvReady: the loop ends one worker too early.
RecvReadyEarly(w) ==
  /\ Recv(w) /\ inbox[w] = "sent" /\ IdOf[w] \notin ids
  /\ TakePlace(w)
  /\ run' = (run /\ Cardinality(ids') # NumWorkers - 1)

\* Mutant of RecvReady: the ids are not looked up.
RecvReadyUnchecked(w) ==
  /\ Recv(w) /\ inbox[w] = "sent"
  /\ TakePlace(w)
  /\ run' = (run /\ Cardinality(ids') # NumWorkers)

\* Mutant of RecvReady: the places are counted before the new one is taken.
RecvReadyLate(w) ==
  /\ Recv(w) /\ inbox[w] = "sent" /\ IdOf[w] \notin ids
  /\ TakePlace(w)
  /\ run' = (run /\ Cardinality(ids) # NumWorkers)

\* The first READY of an id: it takes a place, and the last place ends the
\* loop once the rest of `readable' has been served.
RecvReady(w) ==
  /\ Recv(w) /\ inbox[w] = "sent" /\ IdOf[w] \notin ids
  /\ TakePlace(w)
  /\ run' = (run /\ Cardinality(ids') # NumWorkers)

\* Mutant of RecvDuplicate: it hangs up on the holder of the id.
RecvDuplicateWrongSocket(w) ==
  /\ Recv(w) /\ inbox[w] = "sent" /\ IdOf[w] \in ids
  /\ inbox' = [inbox EXCEPT ![w] = "read"]
  /\ reply' = [reply EXCEPT ![w] = "ABORT"]
  /\ inputs' = inputs \ {w}
  /\ closed' = closed \union {v \in Invocations :
                  \E k \in 1 .. Len(ready) : ready[k] = <<IdOf[w], v>>}
  /\ UNCHANGED <<workerVars, backlog, loopVars, wave, idx, cpc>>

\* A READY of an id that has its place: answer ABORT and hang up.
RecvDuplicate(w) ==
  /\ Recv(w) /\ inbox[w] = "sent" /\ IdOf[w] \in ids
  /\ inbox' = [inbox EXCEPT ![w] = "read"]
  /\ reply' = [reply EXCEPT ![w] = "ABORT"]
  /\ inputs' = inputs \ {w}
  /\ closed' = closed \union {w}
  /\ UNCHANGED <<workerVars, backlog, loopVars, wave, idx, cpc>>

\* No data: the worker is gone.  Its id and its place stay taken.
RecvEof(w) ==
  /\ Recv(w) /\ inbox[w] # "sent"
  /\ inputs' = inputs \ {w}
  /\ closed' = closed \union {w}
  /\ UNCHANGED <<workerVars, inbox, reply, backlog, loopVars, wave, idx, cpc>>

\* Mutant of SortById: the waves follow the order of arrival.
NoSort(s) == s

\* ready.sort(key=lambda x: x[0])
SortById(s) ==
  CHOOSE p \in [1 .. Len(s) -> {s[k] : k \in 1 .. Len(s)}] :
    /\ {p[k] : k \in 1 .. Len(s)} = {s[k] : k \in 1 .. Len(s)}
    /\ \A j, k \in 1 .. Len(s) : j < k => p[j][1] <= p[k][1]

\* `readable' is used up: back to select, or sort and go to the waves.
EndOfBatch ==
  /\ cpc = "batch" /\ ~batch.accept /\ batch.conns = {}
  /\ cpc' = IF run THEN "select" ELSE "wave"
  /\ ready' = IF run THEN ready ELSE SortById(ready)
  /\ UNCHANGED <<workerVars, inbox, reply, closed, backlog, inputs, batch, ids,
                 run, wave, idx>>

\* The process ends: the kernel closes the listener and every connection.
Exit(how) ==
  /\ cpc' = how
  /\ closed' = Invocations

\* sock.send(b('RUN')) to the next entry; after the last one of the wave, sleep.
SendRun ==
  /\ cpc = "wave"
  /\ LET w == ready[idx + 1][2]
     IN  /\ w \notin closed
         /\ reply' = [reply EXCEPT ![w] = "RUN"]
  /\ idx' = idx + 1
  /\ cpc' = IF idx' = (wave + 1) * WorkersPerTrigger THEN "sleep" ELSE "wave"
  /\ UNCHANGED <<workerVars, inbox, closed, backlog, inputs, batch, loopVars,
                 wave>>

\* sock was closed when its worker hung up: send raises, nothing catches it.
SendRunFails ==
  /\ cpc = "wave"
  /\ ready[idx + 1][2] \in closed
  /\ Exit("crashed")
  /\ UNCHANGED <<workerVars, inbox, reply, backlog, inputs, batch, loopVars,
                 wave, idx>>

\* Mutant of Sleep: the last wave is left out.
SleepOneWaveShort ==
  /\ cpc = "sleep"
  /\ wave' = wave + 1
  /\ IF wave' + 1 < TriggerCount
     THEN cpc' = "wave" /\ closed' = closed
     ELSE Exit("done")
  /\ UNCHANGED <<workerVars, inbox, reply, backlog, inputs, batch, loopVars, idx>>

\* time.sleep(trigger_period), then the next wave, or s.close() and the end.
Sleep ==
  /\ cpc = "sleep"
  /\ wave' = wave + 1
  /\ IF wave' < TriggerCount
     THEN cpc' = "wave" /\ closed' = closed
     ELSE Exit("done")
  /\ UNCHANGED <<workerVars, inbox, reply, backlog, inputs, batch, loopVars, idx>>

-----------------------------------------------------------------------------

WorkerStep(w) ==
  Connect(w) \/ ConnectRefused(w) \/ SendReady(w) \/ ReadReply(w)

RecvStep(w) == RecvReady(w) \/ RecvDuplicate(w) \/ RecvEof(w)

ControlStep ==
  \/ Select \/ Accept \/ (\E w \in Invocations : RecvStep(w)) \/ EndOfBatch
  \/ SendRun \/ SendRunFails \/ Sleep

Settled == \A w \in Invocations : wpc[w] \in {"running", "aborted", "dead"}

\* Everybody has ended: the only state in which the system may rest for good.
Terminated == ControlGone /\ Settled /\ UNCHANGED vars

Next ==
  \/ ControlStep
  \/ \E w \in Invocations : WorkerStep(w) \/ Die(w)
  \/ Terminated

\* The processes are scheduled by the operating system; nothing makes the
\* platform kill a function.
Fairness ==
  /\ WF_vars(ControlStep)
  /\ \A w \in Invocations : WF_vars(WorkerStep(w))

Spec == Init /\ [][Next]_vars /\ Fairness

-----------------------------------------------------------------------------
(***************************************************************************)
(* Properties.                                                             *)
(***************************************************************************)

Places == {ready[k] : k \in 1 .. Len(ready)}

\* The variables keep their types.
TypeOK ==
  /\ wpc \in [Invocations -> {"init", "connected", "waiting", "running",
                              "aborted", "dead"}]
  /\ inbox \in [Invocations -> {"unsent", "sent", "read"}]
  /\ reply \in [Invocations -> {"none", "RUN", "ABORT"}]
  /\ closed \subseteq Invocations
  /\ backlog \subseteq Invocations
  /\ inputs \subseteq Invocations
  /\ batch \in [accept : BOOLEAN, conns : SUBSET Invocations]
  /\ ids \subseteq Ids
  /\ ready \in Seq(Ids \X Invocations)
  /\ run \in BOOLEAN
  /\ wave \in 0 .. TriggerCount
  /\ idx \in 0 .. NumWorkers
  /\ cpc \in {"select", "batch", "wave", "sleep", "done", "crashed"}
  /\ deaths \in Nat

\* The barrier: once any worker is sent RUN, an invocation of every one of the
\* NumWorkers ids has sent its READY (control_worker leaves its select loop only
\* when len(ids) == workers_per_trigger * trigger_count).
RunAfterAllReady ==
  (\E w \in Invocations : reply[w] = "RUN")
    => \A i \in Ids : \E v \in Invocations : IdOf[v] = i /\ inbox[v] # "unsent"

\* However often the platform delivers an event, at most one invocation of an id
\* is told to run: two would write the same result files and double the load.
OneRunnerPerId ==
  \A v, w \in Invocations :
    reply[v] = "RUN" /\ reply[w] = "RUN" /\ IdOf[v] = IdOf[w] => v = w

\* The waves follow the ids, whatever the order the workers reported in: a worker
\* is sent RUN only after every smaller id, and only after the sleeps of all
\* waves before its own.
WavesInIdOrder ==
  \A w \in Invocations : reply[w] = "RUN" =>
    /\ \A i \in 0 .. IdOf[w] :
         \E v \in Invocations : IdOf[v] = i /\ reply[v] = "RUN"
    /\ IdOf[w] < (wave + 1) * WorkersPerTrigger

\* While the control process has not crashed, a worker whose READY took the place
\* of its id never gives up: signal() returns false only in duplicates.
HolderNotAborted ==
  cpc # "crashed" => \A p \in Places : wpc[p[2]] # "aborted"

\* The control process crashes in the wave loop only because a worker that held a
\* place was killed while the others were still gathering.
CrashOnlyAfterLoss ==
  cpc = "crashed" => \E p \in Places : wpc[p[2]] = "dead"

\* Once every id has reported, nobody waits for ever: each invocation runs, gives
\* up or is dead, even when the control process crashes in the middle of a wave.
NobodyLeftWaiting == (ids = Ids) ~> Settled

\* Without deaths every id ends up with exactly one running invocation, however
\* many duplicates there are and whenever they arrive.
EveryIdRuns ==
  <>[](\A i \in Ids :
         Cardinality({w \in Invocations : IdOf[w] = i /\ wpc[w] = "running"}) = 1)

=============================================================================
