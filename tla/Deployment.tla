----------------------------- MODULE Deployment -----------------------------
(***************************************************************************)
(* A scaled benchmark as deployed: the start barrier of ControlBarrier     *)
(* together with the function handlers that run its workers and with the   *)
(* driver's log server.                                                    *)
(*                                                                         *)
(* benchmark_handler connects to the log server, runs the benchmark        *)
(* binary, whose signal() is the worker of ControlBarrier, copies the      *)
(* results and closes its connection.  An exception on the way calls       *)
(* logger.abort, and the finally clause copies and closes all the same; if *)
(* one of these raises, the connection ends without a CLOSE.  log_worker   *)
(* counts connections that have ended, and closes its listener when there  *)
(* have been as many as there are ids, whoever they belonged to; it ends   *)
(* when no connection is left.  main() joins both processes.               *)
(*                                                                         *)
(* Every invocation that is lost before it runs, for whatever reason, is a *)
(* Die of ControlBarrier, and MaxDeaths bounds them all.  How a benchmark  *)
(* runs is in BenchRun and its siblings; here it ends.                     *)
(*                                                                         *)
(* Abstractions: CLOSE and the end of file have the same effect, and any   *)
(* other text, half a CLOSE included, has none: a connection has ended or  *)
(* it has not.  As in ControlBarrier the order in which select reports the *)
(* connections is arbitrary.                                               *)
(***************************************************************************)
EXTENDS ControlBarrier

\* invoke_n sends NumWorkers events, and the platform repeats each of them a
\* limited number of times.
ASSUME FiniteInvocations == IsFiniteSet(Invocations)

VARIABLES
  hpc,       \* where the handler of each invocation is
  lbacklog,  \* connections to the log server not yet accepted
  linputs,   \* accepted connections in log_worker's inputs
  nClosed,   \* n_closed
  lpc        \* whether log_worker is in its loop or "done"

logVars == <<lbacklog, linputs, nClosed, lpc>>
depVars == <<hpc, logVars>>
allVars == <<vars, depVars>>

DInit ==
  /\ Init
  /\ hpc = [w \in Invocations |-> "start"]
  /\ lbacklog = {} /\ linputs = {} /\ nClosed = 0
  /\ lpc = "loop"

\* Mutant of Listening: one connection is expected of every invocation.
ListeningToAll == nClosed < Cardinality(Invocations)

\* s is in inputs: log_process is given the number of functions.
Listening == nClosed < NumWorkers

-----------------------------------------------------------------------------
(***************************************************************************)
(* benchmark_handler.                                                      *)
(***************************************************************************)

Handler(w, from, to) ==
  hpc[w] = from /\ hpc' = [hpc EXCEPT ![w] = to]

\* _connect_logger, and the benchmark binary is started.
ConnectLog(w) ==
  /\ Handler(w, "start", "binary") /\ Listening
  /\ lbacklog' = lbacklog \union {w}
  /\ UNCHANGED <<vars, linputs, nClosed, lpc>>

\* The listener is closed: the exception leaves the handler.
LogRefused(w) ==
  /\ Handler(w, "start", "refused") /\ ~Listening
  /\ UNCHANGED <<vars, logVars>>

\* The binary ends after its benchmark, or because signal() returned false; the
\* results are copied and the connection is closed.
BinaryEnds(w) ==
  /\ wpc[w] \in {"running", "aborted"}
  /\ Handler(w, "binary", "ended")
  /\ UNCHANGED <<vars, logVars>>

\* The invocation is lost before it was told to run: the binary cannot be started,
\* or exits in init() (s3: the bucket exists); error(), abort() and the finally
\* clause follow.  Or the platform kills the function; or a connection that the log
\* server has reset makes what is logged next raise, or end the binary.
Lost(w) ==
  /\ hpc[w] \in {"start", "binary"}
  /\ Die(w)
  /\ hpc' = [hpc EXCEPT ![w] = "ended"]
  /\ UNCHANGED logVars

-----------------------------------------------------------------------------
(***************************************************************************)
(* log_worker.                                                             *)
(***************************************************************************)

LogAccept ==
  /\ lpc = "loop" /\ Listening
  /\ \E w \in lbacklog :
       lbacklog' = lbacklog \ {w} /\ linputs' = linputs \union {w}
  /\ UNCHANGED <<vars, hpc, nClosed, lpc>>

\* Mutant of Counted: connections are counted while they are open, too.
CountedOpen(w) == nClosed + 1 + Cardinality(linputs \ {w})

\* n_closed += 1
Counted(w) == nClosed + 1

\* CLOSE or no data: hang up, and close the listener after the last one; what
\* waits in its backlog is reset.
LogRecvClose(w) ==
  /\ lpc = "loop" /\ w \in linputs /\ hpc[w] = "ended"
  /\ linputs' = linputs \ {w}
  /\ nClosed' = Counted(w)
  /\ lbacklog' = IF nClosed' >= NumWorkers THEN {} ELSE lbacklog
  /\ UNCHANGED <<vars, hpc, lpc>>

\* Mutant of NoInputs: the loop ends with the listener.
NoListener == ~Listening

\* while inputs
NoInputs == ~Listening /\ linputs = {}

LogEnds ==
  /\ lpc = "loop" /\ NoInputs
  /\ lpc' = "done"
  /\ UNCHANGED <<vars, hpc, lbacklog, linputs, nClosed>>

-----------------------------------------------------------------------------

HandlerStep(w) == ConnectLog(w) \/ LogRefused(w) \/ BinaryEnds(w)

\* The worker of ControlBarrier, once its handler has started it.
BinaryStep(w) == hpc[w] = "binary" /\ WorkerStep(w) /\ UNCHANGED depVars

Barrier == ControlStep /\ UNCHANGED depVars

LogStep ==
  LogAccept \/ (\E w \in Invocations : LogRecvClose(w)) \/ LogEnds

DNext ==
  \/ Barrier \/ LogStep
  \/ \E w \in Invocations : HandlerStep(w) \/ BinaryStep(w) \/ Lost(w)

\* The processes are scheduled, and a benchmark that was told to run ends (the
\* Termination of BenchRun and AsyncRun); nothing forces a loss.
DSpec ==
  /\ DInit /\ [][DNext]_allVars
  /\ WF_allVars(Barrier) /\ WF_allVars(LogStep)
  /\ \A w \in Invocations : WF_allVars(HandlerStep(w)) /\ WF_allVars(BinaryStep(w))

-----------------------------------------------------------------------------
(***************************************************************************)
(* Properties.                                                             *)
(***************************************************************************)

\* main() has joined both processes.
DriverDone == lpc = "done" /\ ControlGone

\* A worker whose id is still missing has been turned away by the log server.
TurnedAway ==
  \E w \in Invocations : hpc[w] = "refused" /\ IdOf[w] \notin ids

\* A worker is turned away while its id is still missing only if as many others
\* as there are ids have been lost or were duplicates: nobody who holds a place
\* leaves before the barrier is full, so that n_closed cannot get there sooner.
TurnedAwayOnlyByDuplicates ==
  TurnedAway =>
    Cardinality({w \in Invocations : wpc[w] \in {"dead", "aborted"}}) >= NumWorkers

\* When log_worker ends it has read every connection it accepted to its end; an
\* invocation told to run that has not ended by then was still in the backlog, and
\* there are no more of these than losses and duplicates counted in their place.
\* An invocation that ended in the backlog, whose lines are lost as well when the
\* listener closes, is not among them: its handler has not been cut off.
LogsAreComplete ==
  lpc = "done" =>
    LET cut  == {w \in Invocations : reply[w] = "RUN" /\ hpc[w] # "ended"}
        vain == {w \in Invocations : wpc[w] \in {"dead", "aborted"}}
    IN  cut \intersect linputs = {} /\ Cardinality(cut) <= Cardinality(vain)

\* Once every id has reported, the driver ends: whatever is lost afterwards, and
\* also when the control process crashes, log_worker gets all its closes.
DriverEnds == (ids = Ids) ~> DriverDone

\* The driver, which waits without a time-out, hangs only if an invocation was
\* lost before it ran or turned away.
HangsOnlyAfterLoss == <>(DriverDone \/ deaths > 0 \/ TurnedAway)

=============================================================================
