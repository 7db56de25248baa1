------------------------------ MODULE MapStream ------------------------------
(***************************************************************************)
(* The NDJSON pipeline of `jeq map`: runMap's first read and               *)
(* processMapStream (internal/cli/map.go).                                 *)
(*                                                                         *)
(* Processes: the coordinator (the goroutine that called runMap), the      *)
(* worker goroutines, at most one reader goroutine, the watcher goroutine  *)
(* that closes stdin on an interrupt, and the environment, which feeds     *)
(* stdin and may send SIGINT.  The Go channels jobs, results and           *)
(* readResults are sequences of the capacities the code gives them.  A     *)
(* record is its index; what its evaluation comes to is kept in `outcome`, *)
(* and a mapResult in a channel or in `completed` is the index it carries. *)
(***************************************************************************)
EXTENDS Naturals, Sequences, FiniteSets

CONSTANTS
  Workers,       \* the worker goroutines
  WorkerLimit,   \* mapWorkerLimit
  MaxRecords     \* bound on the records the input holds

ASSUME MapStreamAssumption ==
  /\ WorkerLimit \in Nat \ {0}
  /\ IsFiniteSet(Workers)
  /\ Cardinality(Workers) = WorkerLimit
  /\ MaxRecords \in Nat \ {0}

VARIABLES
  \* coordinator
  pc,            \* where the coordinator is
  next, want,    \* next index to dispatch, next index to write
  pending,       \* dispatched records whose result has not been received
  failed,        \* some received result is an error
  failedCount,   \* received results that are errors
  eof,           \* no further read is started
  inputErr,      \* the read error that ended the input, "none" if none did
  readPending,   \* a reader goroutine's result is owed
  completed,     \* received results not yet written
  ret,           \* what runMap returns, "none" until it is decided
  \* channels and goroutines
  jobs, jobsClosed, results, readResults,
  worker,        \* "off", "idle" or "busy"
  job,           \* the job a busy worker holds
  reading,       \* a reader goroutine is inside readNDJSONRecord
  \* history of the evaluations
  outcome,       \* what evaluating each record came to
  evals,         \* how often each record's evaluation was started
  \* environment
  lines,         \* records consumed from stdin
  canClose,      \* closeInput # nil: closing stdin interrupts a blocked read
  signalled,     \* SIGINT arrived: the command's context is cancelled
  cancelled,     \* processMapStream's own context is cancelled
  inputClosed    \* closeInput has run

loopVars  == <<next, want, pending, failed, failedCount, eof, inputErr, readPending, completed>>
coordVars == <<pc, loopVars, ret>>
chanVars  == <<jobs, jobsClosed, results, readResults>>
workVars  == <<worker, job, outcome, evals>>
envVars   == <<reading, lines, canClose, signalled, cancelled, inputClosed>>
vars      == <<coordVars, chanVars, workVars, envVars>>

\* What leaving the loop, in error or not, does not touch.
stopFrame == <<loopVars, jobs, results, readResults, workVars, reading, lines, canClose, signalled>>

Index    == 0 .. MaxRecords - 1
Settled  == {"ok", "failed", "interrupted"}
Outcomes == Settled \cup {"none"}

\* "bad" is a record over the byte limit or a failing read; "closed" is the
\* error a read returns because stdin was closed under it.
ReadErrors == {"bad", "closed"}
ReadKinds  == {"record", "eof"} \cup ReadErrors

Returns == {"none", "ok", "record", "bad", "closed", "interrupted", "write", "setup"}

CoordPCs == {"first", "prepare", "head", "select", "commit", "joinRead", "wait", "done"}

FlagsOK ==
  /\ failed \in BOOLEAN
  /\ eof \in BOOLEAN
  /\ readPending \in BOOLEAN
  /\ jobsClosed \in BOOLEAN
  /\ reading \in BOOLEAN
  /\ canClose \in BOOLEAN
  /\ signalled \in BOOLEAN
  /\ cancelled \in BOOLEAN
  /\ inputClosed \in BOOLEAN

DataOK ==
  /\ pc \in CoordPCs
  /\ next \in 0 .. MaxRecords
  /\ want \in 0 .. MaxRecords
  /\ pending \in Nat
  /\ failedCount \in Nat
  /\ inputErr \in ReadErrors \cup {"none"}
  /\ completed \in SUBSET Index
  /\ ret \in Returns
  /\ jobs \in Seq(Index)
  /\ results \in Seq(Index)
  /\ readResults \in Seq(ReadKinds)
  /\ worker \in [Workers -> {"off", "idle", "busy"}]
  /\ job \in [Workers -> Index]
  /\ outcome \in [Index -> Outcomes]
  /\ evals \in [Index -> Nat]
  /\ lines \in 0 .. MaxRecords

TypeOK == FlagsOK /\ DataOK

Init ==
  /\ pc = "first"
  /\ next = 0
  /\ want = 0
  /\ pending = 0
  /\ failed = FALSE
  /\ failedCount = 0
  /\ eof = FALSE
  /\ inputErr = "none"
  /\ readPending = FALSE
  /\ completed = {}
  /\ ret = "none"
  /\ jobs = <<>>
  /\ jobsClosed = FALSE
  /\ results = <<>>
  /\ readResults = <<>>
  /\ worker = [w \in Workers |-> "off"]
  /\ job = [w \in Workers |-> 0]
  /\ reading = FALSE
  /\ outcome = [i \in Index |-> "none"]
  /\ evals = [i \in Index |-> 0]
  /\ lines = 0
  /\ canClose \in BOOLEAN
  /\ signalled = FALSE
  /\ cancelled = FALSE
  /\ inputClosed = FALSE

------------------------------------------------------------------------------
(* runMap before the stream starts.                                        *)

\* What one call of readNDJSONRecord may return.  Closing stdin does not
\* take back what bufio.Reader has already buffered, so a closed input may
\* still give a record or the end of input.
CanRead(kind) ==
  /\ kind = "record" => lines < MaxRecords
  /\ kind = "closed" => inputClosed

ReadFirst ==
  /\ pc = "first"
  /\ \E kind \in ReadKinds :
       /\ CanRead(kind)
       /\ \/ /\ kind = "record"
             /\ pc' = "prepare"
             /\ lines' = lines + 1
             /\ UNCHANGED ret
          \/ /\ kind \in ReadErrors
             /\ pc' = "done"
             /\ ret' = IF signalled THEN "interrupted" ELSE kind
             /\ UNCHANGED lines
          \/ /\ kind = "eof"
             /\ pc' = "done"
             /\ ret' = "bad"
             /\ UNCHANGED lines
  /\ UNCHANGED <<loopVars, chanVars, workVars, reading, canClose, signalled, cancelled, inputClosed>>

\* Questions, model, provider and the first record's validation may each
\* end the command before any worker exists.
PrepareFails ==
  /\ pc = "prepare"
  /\ pc' = "done"
  /\ ret' = "setup"
  /\ UNCHANGED <<loopVars, chanVars, workVars, envVars>>

\* Mutant: the index is not advanced.
Dispatch_SameIndex ==
  /\ Len(jobs) < WorkerLimit
  /\ jobs' = Append(jobs, next)
  /\ next' = IF next = 0 THEN 1 ELSE next
  /\ pending' = pending + 1

\* The dispatch closure: the record takes the next index and is sent on jobs.
Dispatch ==
  /\ Len(jobs) < WorkerLimit
  /\ jobs' = Append(jobs, next)
  /\ next' = next + 1
  /\ pending' = pending + 1

StartStream ==
  /\ pc = "prepare"
  /\ pc' = "head"
  /\ worker' = [w \in Workers |-> "idle"]
  /\ Dispatch
  /\ UNCHANGED <<want, failed, failedCount, eof, inputErr, readPending, completed, ret,
                 jobsClosed, results, readResults, job, outcome, evals, envVars>>

------------------------------------------------------------------------------
(* The coordinator's loop in processMapStream.                             *)

\* Mutant: jobs are closed and awaited without joining the reader.
Stop_LeavesReader(err) ==
  /\ UNCHANGED stopFrame
  /\ ret' = err
  /\ cancelled' = TRUE
  /\ jobsClosed' = TRUE
  /\ pc' = "wait"
  /\ UNCHANGED inputClosed

\* Mutant: the reader is joined whether or not its read can be interrupted.
Stop_AlwaysJoins(err) ==
  /\ UNCHANGED stopFrame
  /\ ret' = err
  /\ cancelled' = TRUE
  /\ UNCHANGED inputClosed
  /\ \/ readPending /\ pc' = "joinRead" /\ UNCHANGED jobsClosed
     \/ ~readPending /\ pc' = "wait" /\ jobsClosed' = TRUE

\* The stop closure: cancel, join the reader if its read can be interrupted,
\* close jobs, wait for the workers.
Stop(err) ==
  /\ UNCHANGED stopFrame
  /\ ret' = err
  /\ cancelled' = TRUE
  /\ \/ /\ readPending /\ canClose
        /\ inputClosed' = TRUE
        /\ pc' = "joinRead"
        /\ UNCHANGED jobsClosed
     \/ /\ ~(readPending /\ canClose)
        /\ jobsClosed' = TRUE
        /\ pc' = "wait"
        /\ UNCHANGED inputClosed

\* Mutant: the loop ends at the end of input with evaluations outstanding.
LoopGuard_ForgetsPending == readPending \/ (~eof /\ ~failed)

LoopGuard == pending > 0 \/ readPending \/ (~eof /\ ~failed)

\* Mutant: the window is one record too wide.
MayStartRead_OffByOne == ~readPending /\ ~eof /\ ~failed /\ next - want <= WorkerLimit

\* Mutant: completed records that wait for an older one do not count.
MayStartRead_CountsPending == ~readPending /\ ~eof /\ ~failed /\ pending < WorkerLimit

\* Mutant: reads go on after a failure.
MayStartRead_AfterFailure == ~readPending /\ ~eof /\ next - want < WorkerLimit

\* Mutant: the window is not moved along by what was written.
MayStartRead_FixedWindow == ~readPending /\ ~eof /\ ~failed /\ next < WorkerLimit

MayStartRead == ~readPending /\ ~eof /\ ~failed /\ next - want < WorkerLimit

\* The loop is over: a read error is returned through stop, otherwise jobs is
\* closed and the workers are awaited.
LeaveLoop ==
  /\ pc = "head"
  /\ ~LoopGuard
  /\ \/ /\ inputErr # "none"
        /\ Stop(inputErr)
     \/ /\ inputErr = "none"
        /\ jobsClosed' = TRUE
        /\ pc' = "wait"
        /\ ret' = "ok"
        /\ UNCHANGED <<stopFrame, cancelled, inputClosed>>

HeadInterrupted ==
  /\ pc = "head"
  /\ LoopGuard
  /\ cancelled
  /\ Stop("interrupted")

\* startRead, then select; with nothing to wait for the loop goes round again.
EnterSelect ==
  /\ pc = "head"
  /\ LoopGuard
  /\ ~cancelled
  /\ readPending' = (readPending \/ MayStartRead)
  /\ reading' = (reading \/ MayStartRead)
  /\ pc' = IF pending > 0 \/ readPending' THEN "select" ELSE "head"
  /\ UNCHANGED <<next, want, pending, failed, failedCount, eof, inputErr, completed, ret,
                 chanVars, workVars, lines, canClose, signalled, cancelled, inputClosed>>

SelectInterrupted ==
  /\ pc = "select"
  /\ cancelled
  /\ Stop("interrupted")

\* A read result arrives.  After a failure it is dropped; otherwise a record
\* is dispatched, and an error or the end of input stops further reads.
SelectRead ==
  /\ pc = "select"
  /\ readPending
  /\ readResults # <<>>
  /\ readResults' = Tail(readResults)
  /\ readPending' = FALSE
  /\ pc' = "commit"
  /\ LET read == Head(readResults) IN
       \/ /\ failed
          /\ UNCHANGED <<next, pending, jobs, eof, inputErr>>
       \/ /\ ~failed
          /\ read = "record"
          /\ Dispatch
          /\ UNCHANGED <<eof, inputErr>>
       \/ /\ ~failed
          /\ read # "record"
          /\ eof' = TRUE
          /\ inputErr' = IF read \in ReadErrors THEN read ELSE inputErr
          /\ UNCHANGED <<next, pending, jobs>>
  /\ UNCHANGED <<want, failed, failedCount, completed, ret, jobsClosed, results,
                 workVars, envVars>>

\* Mutant: the first failure to arrive cancels the evaluations before it.
Tally_CancelsOthers(i) ==
  /\ pending' = pending - 1
  /\ completed' = completed \cup {i}
  /\ failed' = (failed \/ outcome[i] # "ok")
  /\ failedCount' = IF outcome[i] # "ok" THEN failedCount + 1 ELSE failedCount
  /\ cancelled' = (cancelled \/ outcome[i] # "ok")

Tally(i) ==
  /\ pending' = pending - 1
  /\ completed' = completed \cup {i}
  /\ failed' = (failed \/ outcome[i] # "ok")
  /\ failedCount' = IF outcome[i] # "ok" THEN failedCount + 1 ELSE failedCount
  /\ UNCHANGED cancelled

\* A worker's result arrives, in completion order.
SelectResult ==
  /\ pc = "select"
  /\ pending > 0
  /\ results # <<>>
  /\ results' = Tail(results)
  /\ Tally(Head(results))
  /\ pc' = "commit"
  /\ UNCHANGED <<next, want, eof, inputErr, readPending, ret, jobs, jobsClosed, readResults,
                 workVars, reading, lines, canClose, signalled, inputClosed>>

\* The ordered commit: write the wanted record while it has completed.
CommitWritten ==
  /\ pc = "commit"
  /\ want \in completed
  /\ outcome[want] = "ok"
  /\ completed' = completed \ {want}
  /\ want' = want + 1
  /\ UNCHANGED <<pc, next, pending, failed, failedCount, eof, inputErr, readPending, ret,
                 chanVars, workVars, envVars>>

CommitWriteFails ==
  /\ pc = "commit"
  /\ want \in completed
  /\ outcome[want] = "ok"
  /\ Stop("write")

\* Mutant: the run fails with the first failure to arrive.
CommitRecordError_FailFast ==
  /\ pc = "commit"
  /\ \E i \in completed : outcome[i] # "ok"
  /\ Stop("record")

CommitRecordError ==
  /\ pc = "commit"
  /\ want \in completed
  /\ outcome[want] # "ok"
  /\ Stop("record")

CommitDone ==
  /\ pc = "commit"
  /\ want \notin completed
  /\ pc' = "head"
  /\ UNCHANGED <<loopVars, ret, chanVars, workVars, envVars>>

\* Inside stop: <-readResults, then close(jobs).
JoinRead ==
  /\ pc = "joinRead"
  /\ readResults # <<>>
  /\ readResults' = Tail(readResults)
  /\ readPending' = FALSE
  /\ jobsClosed' = TRUE
  /\ pc' = "wait"
  /\ UNCHANGED <<next, want, pending, failed, failedCount, eof, inputErr, completed, ret,
                 jobs, results, workVars, envVars>>

\* workers.Wait() returns and so does runMap.
Return ==
  /\ pc = "wait"
  /\ \A w \in Workers : worker[w] = "off"
  /\ pc' = "done"
  /\ UNCHANGED <<loopVars, ret, chanVars, workVars, envVars>>

------------------------------------------------------------------------------
(* Workers, reader, watcher and the user.                                  *)

\* A worker receives a job and starts evaluating it, whatever has become of
\* the context in the meantime.
TakeJob(w) ==
  /\ worker[w] = "idle"
  /\ jobs # <<>>
  /\ jobs' = Tail(jobs)
  /\ worker' = [worker EXCEPT ![w] = "busy"]
  /\ job' = [job EXCEPT ![w] = Head(jobs)]
  /\ evals' = [evals EXCEPT ![Head(jobs)] = @ + 1]
  /\ UNCHANGED <<coordVars, jobsClosed, results, readResults, outcome, envVars>>

\* The evaluation ends and its result is sent.  Only a cancelled context makes
\* an evaluation end as interrupted.
FinishJob(w) ==
  /\ worker[w] = "busy"
  /\ Len(results) < WorkerLimit
  /\ results' = Append(results, job[w])
  /\ \E r \in Settled :
       /\ r = "interrupted" => cancelled
       /\ outcome' = [outcome EXCEPT ![job[w]] = r]
  /\ worker' = [worker EXCEPT ![w] = "idle"]
  /\ job' = [job EXCEPT ![w] = 0]
  /\ UNCHANGED <<coordVars, jobs, jobsClosed, readResults, evals, envVars>>

ExitWorker(w) ==
  /\ worker[w] = "idle"
  /\ jobs = <<>>
  /\ jobsClosed
  /\ worker' = [worker EXCEPT ![w] = "off"]
  /\ UNCHANGED <<coordVars, chanVars, job, outcome, evals, envVars>>

WorkerStep(w) == TakeJob(w) \/ FinishJob(w) \/ ExitWorker(w)

\* readNDJSONRecord returns in the reader goroutine, which sends and ends.
ReaderReturns ==
  /\ reading
  /\ readResults = <<>>
  /\ \E kind \in ReadKinds :
       /\ CanRead(kind)
       /\ readResults' = <<kind>>
       /\ lines' = IF kind = "record" THEN lines + 1 ELSE lines
  /\ reading' = FALSE
  /\ UNCHANGED <<coordVars, jobs, jobsClosed, results, workVars, canClose, signalled, cancelled,
                 inputClosed>>

\* Mutant: the watcher is started after the first read.
WatcherCloses_AfterFirst ==
  /\ canClose
  /\ signalled
  /\ ~inputClosed
  /\ pc \notin {"first", "done"}
  /\ inputClosed' = TRUE
  /\ UNCHANGED <<coordVars, chanVars, workVars, reading, lines, canClose, signalled, cancelled>>

\* runMap's watcher: it lives until runMap returns.
WatcherCloses ==
  /\ canClose
  /\ signalled
  /\ ~inputClosed
  /\ pc # "done"
  /\ inputClosed' = TRUE
  /\ UNCHANGED <<coordVars, chanVars, workVars, reading, lines, canClose, signalled, cancelled>>

\* SIGINT cancels the command's context and every context derived from it.
Interrupt ==
  /\ ~signalled
  /\ pc # "done"
  /\ signalled' = TRUE
  /\ cancelled' = TRUE
  /\ UNCHANGED <<coordVars, chanVars, workVars, reading, lines, canClose, inputClosed>>

\* The command has returned.
Finished == pc = "done" /\ UNCHANGED vars

------------------------------------------------------------------------------
Coordinator ==
  \/ PrepareFails \/ StartStream
  \/ LeaveLoop \/ HeadInterrupted \/ EnterSelect
  \/ SelectInterrupted \/ SelectRead \/ SelectResult
  \/ CommitWritten \/ CommitWriteFails \/ CommitRecordError \/ CommitDone
  \/ JoinRead \/ Return

Next ==
  \/ Coordinator
  \/ \E w \in Workers : WorkerStep(w)
  \/ ReadFirst
  \/ ReaderReturns
  \/ WatcherCloses
  \/ Interrupt
  \/ Finished

\* Goroutines are scheduled and evaluations return (every HTTP attempt is
\* under the client's timeout).  Nothing obliges the producer of stdin to
\* send another line, nor the user to interrupt; a read is obliged to return
\* only once its input has been closed.
Fairness ==
  /\ WF_vars(Coordinator)
  /\ \A w \in Workers : WF_vars(WorkerStep(w))
  /\ WF_vars(WatcherCloses)
  /\ WF_vars(inputClosed /\ (ReadFirst \/ ReaderReturns))

Spec == Init /\ [][Next]_vars /\ Fairness

------------------------------------------------------------------------------
(* Properties.                                                             *)

\* No goroutine ever blocks on a channel send: the coordinator can always
\* dispatch what it has read, and a worker can always deliver its result.
\* stop waits for the workers without receiving from results, so a worker
\* blocked on a full results channel would hang the command for ever.
SendsNeverBlock ==
  /\ (pc = "select" /\ ~failed /\ readPending) => Len(jobs) < WorkerLimit
  /\ (\E w \in Workers : worker[w] = "busy") => Len(results) < WorkerLimit

\* Read-ahead is bounded: no more than WorkerLimit records are consumed from
\* stdin beyond the last one written, however slow the oldest evaluation is.
ReadAheadBounded == lines - want <= WorkerLimit

\* Each record is evaluated at most once.
EvaluatedAtMostOnce == \A i \in Index : evals[i] <= 1

\* Success means that every record consumed from stdin was written, none was
\* dropped and none failed, so that the summary's counters balance.
SuccessIsComplete ==
  (pc = "done" /\ ret = "ok") => want = lines /\ next = lines /\ failedCount = 0

\* Every exit joins the workers and leaves no job behind; a reader goroutine
\* outlives the command only when its input offers no way to interrupt it.
JoinedOnReturn ==
  pc = "done" =>
    /\ \A w \in Workers : worker[w] = "off"
    /\ jobs = <<>>
    /\ reading => ~canClose

\* The cancellation stop() uses to hurry the workers is not mistaken for the
\* user's: only a signal makes the command report an interrupt.
NoSelfInflictedInterrupt ==
  (ret = "interrupted" \/ (ret = "record" /\ outcome[want] = "interrupted")) => signalled

\* Once a failure is known, no new record is dispatched and no new read begun.
QuietAfterFailure == [][failed => next' = next /\ (reading' => reading)]_vars

\* stdout carries an in-order prefix of successful records and the verdict is
\* justified by what was written before it: the detailed pipeline implements
\* OrderedStream.
Promise == INSTANCE OrderedStream WITH
  Window   <- WorkerLimit,
  accepted <- next,
  emitted  <- want,
  ended    <- eof,
  verdict  <- IF ret \in ReadErrors THEN "input" ELSE ret

ImplementsOrderedStream == Promise!Spec

\* An interrupt ends the command although nobody feeds or closes stdin: always
\* once the stream runs, and during the first read where stdin can be closed.
InterruptReturns == (signalled /\ (canClose \/ pc # "first")) ~> pc = "done"

\* A failing record ends the command although stdin is held open and silent.
FailureReturns == failed ~> pc = "done"

\* A producer that keeps sending lines and finally closes stdin.
InputFairness == WF_vars(ReadFirst \/ ReaderReturns)

\* With an input that keeps coming and ends, the command ends.
Terminates == InputFairness => <>(pc = "done")

\* What the error table promises of SIGINT: the error of a read that failed
\* only because the interrupt closed stdin is not reported as invalid input.
InterruptIsNotInputError == ret # "closed"

==============================================================================
