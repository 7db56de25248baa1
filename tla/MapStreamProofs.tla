--------------------------- MODULE MapStreamProofs ---------------------------
(***************************************************************************)
(* Machine-checked facts about MapStream, for every number of workers and  *)
(* every length of input: first how far records are read ahead, evaluated  *)
(* and dispatched, then where a record is between its dispatch and its     *)
(* output, and from that the promise of OrderedStream.                     *)
(***************************************************************************)
EXTENDS MapStream, FiniteSetTheorems, TLAPS

\* Before the stream starts nothing has been dispatched or read ahead.
BeforeStream ==
  pc \in {"first", "prepare"} =>
    /\ next = 0 /\ want = 0
    /\ ~failed
    /\ ~readPending /\ ~reading
    /\ jobs = <<>> /\ results = <<>> /\ readResults = <<>>
    /\ \A w \in Workers : worker[w] = "off"
    /\ lines = IF pc = "first" THEN 0 ELSE 1

\* How records move from stdin to a dispatch: at most one record has been
\* consumed and not dispatched, and while it exists the window is open.
ReadSide ==
  /\ want <= next
  /\ next <= lines
  /\ lines <= next + 1
  /\ next <= want + WorkerLimit
  /\ Len(readResults) <= 1
  /\ reading => readPending /\ readResults = <<>> /\ lines = next
  /\ readPending => next < want + WorkerLimit
  /\ lines = next + 1 =>
       /\ next < want + WorkerLimit
       /\ \/ failed
          \/ pc \in {"prepare", "wait", "done"}
          \/ readResults # <<>> /\ Head(readResults) = "record"
  /\ (readResults # <<>> /\ Head(readResults) = "record") => lines = next + 1
  /\ readResults # <<>> => readPending

\* Every index a channel, a worker or the coordinator holds was dispatched.
Dispatched ==
  /\ \A k \in 1 .. Len(jobs) : jobs[k] < next
  /\ \A w \in Workers : worker[w] = "busy" => job[w] < next
  /\ \A k \in 1 .. Len(results) : results[k] < next
  /\ \A i \in completed : i < next

\* A queued job has not been started, and no job is queued twice.
StartedOnce ==
  /\ \A i \in Index : evals[i] <= 1
  /\ \A i \in Index : i >= next => evals[i] = 0
  /\ \A k \in 1 .. Len(jobs) : evals[jobs[k]] = 0
  /\ \A j, k \in 1 .. Len(jobs) : jobs[j] = jobs[k] => j = k

IInv == TypeOK /\ BeforeStream /\ ReadSide /\ Dispatched /\ StartedOnce

------------------------------------------------------------------------------
(* Sequences used as channels.                                             *)

\* Receiving from a channel: the head is one of its elements, and the tail
\* holds the others, one place earlier.
LEMMA Receive ==
  ASSUME NEW S, NEW s \in Seq(S), s # <<>>
  PROVE  /\ Head(s) \in S
         /\ Head(s) = s[1]
         /\ Len(s) \in Nat \ {0}
         /\ Tail(s) \in Seq(S)
         /\ Len(Tail(s)) = Len(s) - 1
         /\ \A k \in 1 .. Len(Tail(s)) : k + 1 \in 1 .. Len(s) /\ Tail(s)[k] = s[k + 1]
OBVIOUS

\* Sending on a channel: the element is last, the others keep their places.
LEMMA Send ==
  ASSUME NEW S, NEW s \in Seq(S), NEW e \in S
  PROVE  /\ Append(s, e) \in Seq(S)
         /\ Len(Append(s, e)) = Len(s) + 1
         /\ Len(s) \in Nat
         /\ \A k \in 1 .. Len(Append(s, e)) :
              \/ k \in 1 .. Len(s) /\ Append(s, e)[k] = s[k]
              \/ k = Len(s) + 1 /\ Append(s, e)[k] = e
OBVIOUS

------------------------------------------------------------------------------
LEMMA InitInvariant == Init => IInv
<1> SUFFICES ASSUME Init PROVE IInv
  OBVIOUS
<1> USE MapStreamAssumption DEF Init
<1>1. FlagsOK
  BY Zenon DEF FlagsOK
<1>2. DataOK
  BY DEF DataOK, Index, CoordPCs, Returns, Outcomes
<1>3. BeforeStream
  BY DEF BeforeStream
<1>4. ReadSide
  BY DEF ReadSide
<1>5. Dispatched /\ StartedOnce
  BY DEF Dispatched, StartedOnce
<1> QED
  BY <1>1, <1>2, <1>3, <1>4, <1>5 DEF IInv, TypeOK

\* The steps that neither send to nor receive from a channel.
LEMMA PlainStep ==
  ASSUME IInv,
         \/ PrepareFails
         \/ LeaveLoop
         \/ HeadInterrupted
         \/ EnterSelect
         \/ SelectInterrupted
         \/ CommitWritten
         \/ CommitWriteFails
         \/ CommitRecordError
         \/ CommitDone
         \/ Return
         \/ ReadFirst
         \/ WatcherCloses
         \/ Interrupt
  PROVE  IInv'
<1> USE MapStreamAssumption DEF IInv, TypeOK, coordVars, loopVars, stopFrame, chanVars, workVars, envVars
<1>1. CASE PrepareFails
  <2> USE <1>1 DEF PrepareFails
  <2>1. FlagsOK'
    BY Zenon DEF FlagsOK
  <2>2. DataOK'
    BY DEF DataOK, BeforeStream, Dispatched, Index, CoordPCs, Returns, ReadErrors
  <2>3. BeforeStream'
    BY DEF BeforeStream, DataOK, CoordPCs
  <2>4. ReadSide'
    BY DEF ReadSide, BeforeStream, Dispatched, DataOK, CoordPCs
  <2>5. Dispatched' /\ StartedOnce'
    BY DEF Dispatched, StartedOnce
  <2> QED
    BY <2>1, <2>2, <2>3, <2>4, <2>5
<1>2. CASE LeaveLoop
  <2> USE <1>2 DEF LeaveLoop, Stop, LoopGuard
  <2>1. FlagsOK'
    BY Zenon DEF FlagsOK
  <2>2. DataOK'
    BY DEF DataOK, BeforeStream, Dispatched, Index, CoordPCs, Returns, ReadErrors
  <2>3. BeforeStream'
    BY DEF BeforeStream, DataOK, CoordPCs
  <2>4. ReadSide'
    BY DEF ReadSide, BeforeStream, Dispatched, DataOK, CoordPCs
  <2>5. Dispatched' /\ StartedOnce'
    BY DEF Dispatched, StartedOnce
  <2> QED
    BY <2>1, <2>2, <2>3, <2>4, <2>5
<1>3. CASE HeadInterrupted
  <2> USE <1>3 DEF HeadInterrupted, Stop
  <2>1. FlagsOK'
    BY Zenon DEF FlagsOK
  <2>2. DataOK'
    BY DEF DataOK, BeforeStream, Dispatched, Index, CoordPCs, Returns, ReadErrors
  <2>3. BeforeStream'
    BY DEF BeforeStream, DataOK, CoordPCs
  <2>4. ReadSide'
    BY DEF ReadSide, BeforeStream, Dispatched, DataOK, CoordPCs
  <2>5. Dispatched' /\ StartedOnce'
    BY DEF Dispatched, StartedOnce
  <2> QED
    BY <2>1, <2>2, <2>3, <2>4, <2>5
<1>4. CASE EnterSelect
  <2> USE <1>4 DEF EnterSelect
  <2>1. FlagsOK'
    BY Zenon DEF FlagsOK
  <2>2. DataOK'
    BY DEF DataOK, BeforeStream, Dispatched, Index, CoordPCs, Returns, ReadErrors
  <2>3. BeforeStream'
    BY DEF BeforeStream, DataOK, CoordPCs
  <2>4. ReadSide'
    <3>1. CASE MayStartRead
      <4>1. readResults = <<>> /\ lines = next
        BY <3>1 DEF MayStartRead, ReadSide, DataOK, CoordPCs
      <4>2. next < want + WorkerLimit
        BY <3>1 DEF MayStartRead, DataOK
      <4> QED
        BY <4>1, <4>2 DEF ReadSide
    <3>2. CASE ~MayStartRead
      <4>1. readPending' = readPending /\ reading' = reading
        BY Zenon, <3>2 DEF FlagsOK
      <4> QED
        BY <4>1 DEF ReadSide, DataOK, CoordPCs
    <3> QED
      BY <3>1, <3>2
  <2>5. Dispatched' /\ StartedOnce'
    BY DEF Dispatched, StartedOnce
  <2> QED
    BY <2>1, <2>2, <2>3, <2>4, <2>5
<1>5. CASE SelectInterrupted
  <2> USE <1>5 DEF SelectInterrupted, Stop
  <2>1. FlagsOK'
    BY Zenon DEF FlagsOK
  <2>2. DataOK'
    BY DEF DataOK, BeforeStream, Dispatched, Index, CoordPCs, Returns, ReadErrors
  <2>3. BeforeStream'
    BY DEF BeforeStream, DataOK, CoordPCs
  <2>4. ReadSide'
    BY DEF ReadSide, BeforeStream, Dispatched, DataOK, CoordPCs
  <2>5. Dispatched' /\ StartedOnce'
    BY DEF Dispatched, StartedOnce
  <2> QED
    BY <2>1, <2>2, <2>3, <2>4, <2>5
<1>6. CASE CommitWritten
  <2> USE <1>6 DEF CommitWritten
  <2>1. FlagsOK'
    BY Zenon DEF FlagsOK
  <2>2. DataOK'
    BY DEF DataOK, BeforeStream, Dispatched, Index, CoordPCs, Returns, ReadErrors
  <2>3. BeforeStream'
    BY DEF BeforeStream, DataOK, CoordPCs
  <2>4. ReadSide'
    BY DEF ReadSide, BeforeStream, Dispatched, DataOK, CoordPCs
  <2>5. Dispatched' /\ StartedOnce'
    BY DEF Dispatched, StartedOnce
  <2> QED
    BY <2>1, <2>2, <2>3, <2>4, <2>5
<1>7. CASE CommitWriteFails
  <2> USE <1>7 DEF CommitWriteFails, Stop
  <2>1. FlagsOK'
    BY Zenon DEF FlagsOK
  <2>2. DataOK'
    BY DEF DataOK, BeforeStream, Dispatched, Index, CoordPCs, Returns, ReadErrors
  <2>3. BeforeStream'
    BY DEF BeforeStream, DataOK, CoordPCs
  <2>4. ReadSide'
    BY DEF ReadSide, BeforeStream, Dispatched, DataOK, CoordPCs
  <2>5. Dispatched' /\ StartedOnce'
    BY DEF Dispatched, StartedOnce
  <2> QED
    BY <2>1, <2>2, <2>3, <2>4, <2>5
<1>8. CASE CommitRecordError
  <2> USE <1>8 DEF CommitRecordError, Stop
  <2>1. FlagsOK'
    BY Zenon DEF FlagsOK
  <2>2. DataOK'
    BY DEF DataOK, BeforeStream, Dispatched, Index, CoordPCs, Returns, ReadErrors
  <2>3. BeforeStream'
    BY DEF BeforeStream, DataOK, CoordPCs
  <2>4. ReadSide'
    BY DEF ReadSide, BeforeStream, Dispatched, DataOK, CoordPCs
  <2>5. Dispatched' /\ StartedOnce'
    BY DEF Dispatched, StartedOnce
  <2> QED
    BY <2>1, <2>2, <2>3, <2>4, <2>5
<1>9. CASE CommitDone
  <2> USE <1>9 DEF CommitDone
  <2>1. FlagsOK'
    BY Zenon DEF FlagsOK
  <2>2. DataOK'
    BY DEF DataOK, BeforeStream, Dispatched, Index, CoordPCs, Returns, ReadErrors
  <2>3. BeforeStream'
    BY DEF BeforeStream, DataOK, CoordPCs
  <2>4. ReadSide'
    BY DEF ReadSide, BeforeStream, Dispatched, DataOK, CoordPCs
  <2>5. Dispatched' /\ StartedOnce'
    BY DEF Dispatched, StartedOnce
  <2> QED
    BY <2>1, <2>2, <2>3, <2>4, <2>5
<1>10. CASE Return
  <2> USE <1>10 DEF Return
  <2>1. FlagsOK'
    BY Zenon DEF FlagsOK
  <2>2. DataOK'
    BY DEF DataOK, BeforeStream, Dispatched, Index, CoordPCs, Returns, ReadErrors
  <2>3. BeforeStream'
    BY DEF BeforeStream, DataOK, CoordPCs
  <2>4. ReadSide'
    BY DEF ReadSide, BeforeStream, Dispatched, DataOK, CoordPCs
  <2>5. Dispatched' /\ StartedOnce'
    BY DEF Dispatched, StartedOnce
  <2> QED
    BY <2>1, <2>2, <2>3, <2>4, <2>5
<1>11. CASE ReadFirst
  <2> USE <1>11 DEF ReadFirst, CanRead
  <2>1. FlagsOK'
    BY Zenon DEF FlagsOK
  <2>2. DataOK'
    BY DEF DataOK, BeforeStream, Dispatched, Index, CoordPCs, Returns, ReadErrors
  <2>3. BeforeStream'
    BY DEF BeforeStream, DataOK, CoordPCs
  <2>4. ReadSide'
    BY DEF ReadSide, BeforeStream, Dispatched, DataOK, CoordPCs
  <2>5. Dispatched' /\ StartedOnce'
    BY DEF Dispatched, StartedOnce
  <2> QED
    BY <2>1, <2>2, <2>3, <2>4, <2>5
<1>12. CASE WatcherCloses
  <2> USE <1>12 DEF WatcherCloses
  <2>1. FlagsOK'
    BY Zenon DEF FlagsOK
  <2>2. DataOK'
    BY DEF DataOK, BeforeStream, Dispatched, Index, CoordPCs, Returns, ReadErrors
  <2>3. BeforeStream'
    BY DEF BeforeStream, DataOK, CoordPCs
  <2>4. ReadSide'
    BY DEF ReadSide, BeforeStream, Dispatched, DataOK, CoordPCs
  <2>5. Dispatched' /\ StartedOnce'
    BY DEF Dispatched, StartedOnce
  <2> QED
    BY <2>1, <2>2, <2>3, <2>4, <2>5
<1>13. CASE Interrupt
  <2> USE <1>13 DEF Interrupt
  <2>1. FlagsOK'
    BY Zenon DEF FlagsOK
  <2>2. DataOK'
    BY DEF DataOK, BeforeStream, Dispatched, Index, CoordPCs, Returns, ReadErrors
  <2>3. BeforeStream'
    BY DEF BeforeStream, DataOK, CoordPCs
  <2>4. ReadSide'
    BY DEF ReadSide, BeforeStream, Dispatched, DataOK, CoordPCs
  <2>5. Dispatched' /\ StartedOnce'
    BY DEF Dispatched, StartedOnce
  <2> QED
    BY <2>1, <2>2, <2>3, <2>4, <2>5
<1> QED
  BY <1>1, <1>2, <1>3, <1>4, <1>5, <1>6, <1>7, <1>8, <1>9, <1>10, <1>11, <1>12, <1>13

\* The coordinator dispatches: the stream's first record, or one just read.
LEMMA DispatchStep ==
  ASSUME IInv, Dispatch, next < MaxRecords, next < lines,
         UNCHANGED <<want, completed, results, job, outcome, evals, lines>>,
         \A w \in Workers : worker'[w] = "busy" => worker[w] = "busy"
  PROVE  /\ Dispatched' /\ StartedOnce'
         /\ jobs' \in Seq(Index) /\ next' \in 0 .. MaxRecords /\ pending' \in Nat
<1> USE MapStreamAssumption DEF IInv, TypeOK
<1>1. next \in Index /\ next' = next + 1
  BY DEF Dispatch, DataOK, Index
<1>2. /\ jobs' \in Seq(Index)
      /\ \A k \in 1 .. Len(jobs') : \/ k \in 1 .. Len(jobs) /\ jobs'[k] = jobs[k]
                                    \/ k = Len(jobs) + 1 /\ jobs'[k] = next
  BY <1>1, Send DEF Dispatch, DataOK
<1>3. \A k \in 1 .. Len(jobs) : jobs[k] \in Index /\ jobs[k] < next /\ evals[jobs[k]] = 0
  BY DEF Dispatched, StartedOnce, DataOK
<1>4. Dispatched'
  <2>1. \A k \in 1 .. Len(jobs') : jobs'[k] < next'
    <3> SUFFICES ASSUME NEW k \in 1 .. Len(jobs') PROVE jobs'[k] < next'
      OBVIOUS
    <3>1. next \in Nat /\ next < next'
      BY <1>1 DEF Index
    <3>2. CASE k \in 1 .. Len(jobs) /\ jobs'[k] = jobs[k]
      <4>1. jobs[k] \in Nat /\ jobs[k] < next
        BY <1>3, <3>2 DEF Index
      <4> QED
        BY <3>1, <3>2, <4>1, <1>1
    <3> QED
      BY <1>2, <3>1, <3>2
  <2>2. \A w \in Workers : worker'[w] = "busy" => job'[w] < next'
    BY <1>1 DEF Dispatched, DataOK, Index
  <2>3. \A k \in 1 .. Len(results') : results'[k] < next'
    BY <1>1 DEF Dispatched, DataOK, Index
  <2>4. \A i \in completed' : i < next'
    BY <1>1 DEF Dispatched, DataOK, Index
  <2> QED
    BY <2>1, <2>2, <2>3, <2>4 DEF Dispatched
<1>5. StartedOnce'
  <2>1. \A i \in Index : evals'[i] <= 1 /\ (i >= next' => evals'[i] = 0)
    BY <1>1 DEF StartedOnce, DataOK, Index
  <2>2. \A k \in 1 .. Len(jobs') : evals'[jobs'[k]] = 0
    <3>1. evals[next] = 0
      BY <1>1 DEF StartedOnce, DataOK, Index
    <3> QED
      BY <1>3, <1>2, <3>1
  <2>3. \A k \in 1 .. Len(jobs) : jobs[k] # next
    BY <1>3, <1>1 DEF Index
  <2>4. \A j, k \in 1 .. Len(jobs') : jobs'[j] = jobs'[k] => j = k
    BY <1>2, <2>3 DEF StartedOnce
  <2> QED
    BY <2>1, <2>2, <2>4 DEF StartedOnce
<1> QED
  BY <1>1, <1>2, <1>4, <1>5 DEF Dispatch, DataOK

LEMMA StartStreamStep == IInv /\ StartStream => IInv'
<1> SUFFICES ASSUME IInv, StartStream PROVE IInv'
  OBVIOUS
<1> USE MapStreamAssumption DEF IInv, TypeOK, StartStream, envVars
<1>1. next = 0 /\ lines = 1 /\ want = 0 /\ ~reading /\ ~readPending /\ readResults = <<>>
  BY DEF BeforeStream
<1>2. /\ Dispatched' /\ StartedOnce'
      /\ jobs' \in Seq(Index) /\ next' \in 0 .. MaxRecords /\ pending' \in Nat
  BY <1>1, DispatchStep DEF DataOK
<1>3. FlagsOK'
  BY Zenon DEF FlagsOK
<1>4. DataOK'
  BY <1>2 DEF DataOK, CoordPCs
<1>5. BeforeStream' /\ ReadSide'
  BY <1>1 DEF BeforeStream, ReadSide, Dispatch, DataOK
<1> QED
  BY <1>2, <1>3, <1>4, <1>5

LEMMA SelectReadStep == IInv /\ SelectRead => IInv'
<1> SUFFICES ASSUME IInv, SelectRead PROVE IInv'
  OBVIOUS
<1> USE MapStreamAssumption DEF IInv, TypeOK, SelectRead, workVars, envVars
<1>1. /\ Head(readResults) \in ReadKinds
      /\ readResults' \in Seq(ReadKinds)
      /\ readResults' = <<>>
      /\ ~reading
  BY Receive DEF DataOK, ReadSide
<1>2. FlagsOK'
  BY Zenon DEF FlagsOK
<1>3. BeforeStream'
  BY DEF BeforeStream
<1>4. CASE failed
  <2>1. UNCHANGED <<next, pending, jobs, eof, inputErr>>
    BY <1>4
  <2>2. DataOK'
    BY <1>1, <2>1 DEF DataOK, CoordPCs
  <2>3. ReadSide'
    BY <1>1, <1>4, <2>1 DEF ReadSide, DataOK
  <2>4. Dispatched' /\ StartedOnce'
    BY <2>1 DEF Dispatched, StartedOnce
  <2> QED
    BY <1>2, <1>3, <2>2, <2>3, <2>4
<1>5. CASE ~failed /\ Head(readResults) = "record"
  <2>1. lines = next + 1 /\ next < MaxRecords /\ next < want + WorkerLimit
    BY <1>5 DEF ReadSide, DataOK
  <2>2. Dispatch /\ UNCHANGED <<eof, inputErr>>
    BY <1>5
  <2>3. /\ Dispatched' /\ StartedOnce'
        /\ jobs' \in Seq(Index) /\ next' \in 0 .. MaxRecords /\ pending' \in Nat
    BY <2>1, <2>2, DispatchStep DEF DataOK
  <2>4. DataOK'
    BY <1>1, <2>2, <2>3 DEF DataOK, CoordPCs
  <2>5. ReadSide'
    BY <1>1, <2>1, <2>2 DEF ReadSide, DataOK, Dispatch
  <2> QED
    BY <1>2, <1>3, <2>3, <2>4, <2>5
<1>6. CASE ~failed /\ Head(readResults) # "record"
  <2>1. UNCHANGED <<next, pending, jobs>> /\ inputErr' \in ReadErrors \cup {"none"}
    BY <1>6 DEF DataOK
  <2>2. DataOK'
    BY <1>1, <2>1 DEF DataOK, CoordPCs
  <2>3. lines = next
    BY <1>6 DEF ReadSide, DataOK
  <2>4. ReadSide'
    BY <1>1, <2>1, <2>3 DEF ReadSide, DataOK
  <2>5. Dispatched' /\ StartedOnce'
    BY <2>1 DEF Dispatched, StartedOnce
  <2> QED
    BY <1>2, <1>3, <2>2, <2>4, <2>5
<1> QED
  BY <1>4, <1>5, <1>6

LEMMA SelectResultStep == IInv /\ SelectResult => IInv'
<1> SUFFICES ASSUME IInv, SelectResult PROVE IInv'
  OBVIOUS
<1> USE MapStreamAssumption DEF IInv, TypeOK, SelectResult, Tally, workVars
<1>1. /\ Head(results) \in Index /\ Head(results) = results[1]
      /\ Len(results) \in Nat \ {0}
      /\ results' \in Seq(Index)
      /\ Len(results') = Len(results) - 1
      /\ \A k \in 1 .. Len(results') : k + 1 \in 1 .. Len(results) /\ results'[k] = results[k + 1]
  BY Receive DEF DataOK
<1>2. FlagsOK'
  BY Zenon DEF FlagsOK
<1>3. DataOK'
  <2>1. failedCount' \in Nat /\ pending' \in Nat
    BY DEF DataOK
  <2>2. completed' \in SUBSET Index
    BY <1>1 DEF DataOK
  <2> QED
    BY <1>1, <2>1, <2>2 DEF DataOK, CoordPCs
<1>4. BeforeStream' /\ ReadSide'
  BY DEF BeforeStream, ReadSide
<1>5. Dispatched'
  <2>1. results[1] < next
    BY <1>1 DEF Dispatched
  <2>2. \A i \in completed' : i < next'
    BY <1>1, <2>1 DEF Dispatched
  <2>3. \A k \in 1 .. Len(results') : results'[k] < next'
    BY <1>1 DEF Dispatched
  <2> QED
    BY <2>2, <2>3 DEF Dispatched
<1>6. StartedOnce'
  BY DEF StartedOnce
<1> QED
  BY <1>2, <1>3, <1>4, <1>5, <1>6

LEMMA JoinReadStep == IInv /\ JoinRead => IInv'
<1> SUFFICES ASSUME IInv, JoinRead PROVE IInv'
  OBVIOUS
<1> USE MapStreamAssumption DEF IInv, TypeOK, JoinRead, workVars, envVars
<1>1. readResults' \in Seq(ReadKinds) /\ readResults' = <<>> /\ ~reading
  BY Receive DEF DataOK, ReadSide
<1>2. FlagsOK'
  BY Zenon DEF FlagsOK
<1>3. DataOK'
  BY <1>1 DEF DataOK, CoordPCs
<1>4. BeforeStream' /\ ReadSide'
  BY <1>1 DEF BeforeStream, ReadSide, DataOK
<1>5. Dispatched' /\ StartedOnce'
  BY DEF Dispatched, StartedOnce
<1> QED
  BY <1>2, <1>3, <1>4, <1>5

LEMMA ReaderReturnsStep == IInv /\ ReaderReturns => IInv'
<1> SUFFICES ASSUME IInv, ReaderReturns PROVE IInv'
  OBVIOUS
<1> USE MapStreamAssumption DEF IInv, TypeOK, ReaderReturns, coordVars, loopVars, workVars
<1>1. PICK kind \in ReadKinds :
        /\ CanRead(kind)
        /\ readResults' = <<kind>>
        /\ lines' = IF kind = "record" THEN lines + 1 ELSE lines
  OBVIOUS
<1>2. lines = next /\ readPending /\ next < want + WorkerLimit
  BY DEF ReadSide
<1>3. lines' \in 0 .. MaxRecords
  BY <1>1 DEF CanRead, DataOK
<1>4. FlagsOK'
  BY Zenon DEF FlagsOK
<1>5. DataOK'
  BY <1>1, <1>3 DEF DataOK
<1>6. BeforeStream' /\ ReadSide'
  BY <1>1, <1>2 DEF BeforeStream, ReadSide, DataOK
<1>7. Dispatched' /\ StartedOnce'
  BY DEF Dispatched, StartedOnce
<1> QED
  BY <1>4, <1>5, <1>6, <1>7

LEMMA TakeJobStep ==
  ASSUME NEW w \in Workers, IInv, TakeJob(w)
  PROVE  IInv'
<1> USE MapStreamAssumption DEF IInv, TypeOK, TakeJob, coordVars, loopVars, envVars
<1> DEFINE i == Head(jobs)
<1>1. /\ i \in Index /\ i = jobs[1]
      /\ Len(jobs) \in Nat \ {0}
      /\ jobs' \in Seq(Index)
      /\ Len(jobs') = Len(jobs) - 1
      /\ \A k \in 1 .. Len(jobs') : k + 1 \in 1 .. Len(jobs) /\ jobs'[k] = jobs[k + 1]
  BY Receive DEF DataOK
<1> HIDE DEF i
<1>2. evals[i] = 0 /\ i < next
  BY <1>1 DEF StartedOnce, Dispatched
<1>3. evals' = [evals EXCEPT ![i] = evals[i] + 1]
  BY DEF i
<1>4. worker' = [worker EXCEPT ![w] = "busy"] /\ job' = [job EXCEPT ![w] = i]
  BY DEF i
<1>5. FlagsOK'
  BY Zenon DEF FlagsOK
<1>6. DataOK'
  BY <1>1, <1>3, <1>4 DEF DataOK
<1>7. BeforeStream' /\ ReadSide'
  BY DEF BeforeStream, ReadSide
<1>8. Dispatched'
  <2>1. \A v \in Workers : worker'[v] = "busy" => job'[v] < next'
    BY <1>2, <1>4 DEF Dispatched, DataOK
  <2>2. \A k \in 1 .. Len(jobs') : jobs'[k] < next'
    BY <1>1 DEF Dispatched
  <2> QED
    BY <2>1, <2>2 DEF Dispatched
<1>9. StartedOnce'
  <2>1. \A j \in Index : evals'[j] <= 1 /\ (j >= next' => evals'[j] = 0)
    BY <1>1, <1>2, <1>3 DEF StartedOnce, DataOK, Index
  <2>2. \A k \in 1 .. Len(jobs') : jobs'[k] \in Index /\ jobs'[k] # i
    BY <1>1 DEF StartedOnce, DataOK
  <2>3. \A k \in 1 .. Len(jobs') : evals'[jobs'[k]] = 0
    BY <1>1, <1>3, <2>2 DEF StartedOnce, DataOK
  <2>4. \A j, k \in 1 .. Len(jobs') : jobs'[j] = jobs'[k] => j = k
    BY <1>1 DEF StartedOnce
  <2> QED
    BY <2>1, <2>3, <2>4 DEF StartedOnce
<1> QED
  BY <1>5, <1>6, <1>7, <1>8, <1>9

LEMMA FinishJobStep ==
  ASSUME NEW w \in Workers, IInv, FinishJob(w)
  PROVE  IInv'
<1> USE MapStreamAssumption DEF IInv, TypeOK, FinishJob, coordVars, loopVars, envVars
<1>1. job[w] \in Index /\ job[w] < next
  BY DEF DataOK, Dispatched
<1>2. /\ results' \in Seq(Index)
      /\ \A k \in 1 .. Len(results') : \/ k \in 1 .. Len(results) /\ results'[k] = results[k]
                                       \/ k = Len(results) + 1 /\ results'[k] = job[w]
  BY <1>1, Send DEF DataOK
<1>3. FlagsOK'
  BY Zenon DEF FlagsOK
<1>4. DataOK'
  <2>1. outcome' \in [Index -> Outcomes]
    BY DEF DataOK, Outcomes
  <2>2. job' \in [Workers -> Index] /\ worker' \in [Workers -> {"off", "idle", "busy"}]
    BY DEF DataOK, Index
  <2> QED
    BY <1>2, <2>1, <2>2 DEF DataOK
<1>5. BeforeStream' /\ ReadSide'
  BY DEF BeforeStream, ReadSide
<1>6. Dispatched'
  <2>1. \A v \in Workers : worker'[v] = "busy" => worker[v] = "busy" /\ job'[v] = job[v]
    BY DEF DataOK
  <2>2. \A k \in 1 .. Len(results') : results'[k] < next'
    BY <1>1, <1>2 DEF Dispatched
  <2> QED
    BY <2>1, <2>2 DEF Dispatched
<1>7. StartedOnce'
  BY DEF StartedOnce
<1> QED
  BY <1>3, <1>4, <1>5, <1>6, <1>7

LEMMA ExitWorkerStep ==
  ASSUME NEW w \in Workers, IInv, ExitWorker(w)
  PROVE  IInv'
<1> USE MapStreamAssumption DEF IInv, TypeOK, ExitWorker, coordVars, loopVars, chanVars, envVars
<1>1. FlagsOK'
  BY Zenon DEF FlagsOK
<1>2. DataOK'
  BY DEF DataOK
<1>3. BeforeStream' /\ ReadSide'
  BY DEF BeforeStream, ReadSide
<1>4. Dispatched'
  <2>1. \A v \in Workers : worker'[v] = "busy" => worker[v] = "busy"
    BY DEF DataOK
  <2> QED
    BY <2>1 DEF Dispatched
<1>5. StartedOnce'
  BY DEF StartedOnce
<1> QED
  BY <1>1, <1>2, <1>3, <1>4, <1>5

LEMMA StepInvariant == IInv /\ [Next]_vars => IInv'
<1> SUFFICES ASSUME IInv, [Next]_vars PROVE IInv'
  OBVIOUS
<1>1. CASE Coordinator
  BY <1>1, PlainStep, StartStreamStep, SelectReadStep, SelectResultStep, JoinReadStep
     DEF Coordinator
<1>2. CASE \E w \in Workers : WorkerStep(w)
  BY <1>2, TakeJobStep, FinishJobStep, ExitWorkerStep DEF WorkerStep
<1>3. CASE ReadFirst \/ WatcherCloses \/ Interrupt
  BY <1>3, PlainStep
<1>4. CASE ReaderReturns
  BY <1>4, ReaderReturnsStep
<1>5. CASE UNCHANGED vars
  <2> USE <1>5 DEF vars, coordVars, loopVars, chanVars, workVars, envVars, IInv, TypeOK
  <2>1. FlagsOK'
    BY Zenon DEF FlagsOK
  <2>2. DataOK'
    BY DEF DataOK
  <2>3. BeforeStream' /\ ReadSide'
    BY DEF BeforeStream, ReadSide
  <2>4. Dispatched' /\ StartedOnce'
    BY DEF Dispatched, StartedOnce
  <2> QED
    BY <2>1, <2>2, <2>3, <2>4
<1> QED
  BY <1>1, <1>2, <1>3, <1>4, <1>5 DEF Next, Finished

LEMMA Invariant == Spec => []IInv
<1> QED
  BY InitInvariant, StepInvariant, PTL DEF Spec

------------------------------------------------------------------------------
\* Every reachable state of the pipeline is well-typed.
THEOREM TypeCorrect == Spec => []TypeOK
<1>1. IInv => TypeOK
  BY DEF IInv
<1> QED
  BY <1>1, Invariant, PTL

\* However slow the oldest evaluation is, processMapStream never consumes more
\* than WorkerLimit records beyond the last one it has written.
THEOREM BoundedReadAhead == Spec => []ReadAheadBounded
<1>1. IInv => ReadAheadBounded
  <2> SUFFICES ASSUME IInv PROVE lines - want <= WorkerLimit
    BY DEF ReadAheadBounded
  <2>1. next \in Nat /\ want \in Nat /\ lines \in Nat /\ WorkerLimit \in Nat
    BY MapStreamAssumption DEF IInv, TypeOK, DataOK
  <2>2. lines = next \/ lines = next + 1
    BY <2>1 DEF IInv, ReadSide
  <2> QED
    BY <2>1, <2>2 DEF IInv, ReadSide
<1> QED
  BY <1>1, Invariant, PTL

\* No record is handed to the evaluator twice, whatever the interleaving of
\* the coordinator, the workers and the channels.
THEOREM AtMostOneEvaluation == Spec => []EvaluatedAtMostOnce
<1>1. IInv => EvaluatedAtMostOnce
  BY DEF IInv, StartedOnce, EvaluatedAtMostOnce
<1> QED
  BY <1>1, Invariant, PTL

\* A failure the coordinator knows of stops dispatching and reading for good.
THEOREM NothingNewAfterFailure == Spec => QuietAfterFailure
<1> DEFINE Quiet == failed => next' = next /\ (reading' => reading)
<1>1. IInv /\ [Next]_vars => [Quiet]_vars
  <2> SUFFICES ASSUME IInv, Next, failed PROVE next' = next /\ (reading' => reading)
    OBVIOUS
  <2> USE DEF coordVars, loopVars, stopFrame, chanVars, workVars, envVars
  <2>1. CASE StartStream
    BY <2>1 DEF StartStream, IInv, BeforeStream
  <2>2. CASE SelectRead
    BY <2>2 DEF SelectRead
  <2>3. CASE EnterSelect
    <3>1. ~MayStartRead
      BY DEF MayStartRead
    <3> QED
      BY Zenon, <2>3, <3>1 DEF EnterSelect
  <2>4. ASSUME \/ PrepareFails \/ LeaveLoop \/ HeadInterrupted \/ SelectInterrupted
               \/ SelectResult \/ CommitWritten \/ CommitWriteFails \/ CommitRecordError
               \/ CommitDone \/ JoinRead \/ Return
               \/ \E w \in Workers : WorkerStep(w)
               \/ WatcherCloses \/ Interrupt \/ Finished
        PROVE  next' = next /\ reading' = reading
    <3> USE <2>4 DEF PrepareFails, LeaveLoop, HeadInterrupted, SelectInterrupted, SelectResult, Stop,
            CommitWritten, CommitWriteFails, CommitRecordError, CommitDone, JoinRead, Return,
            WorkerStep, TakeJob, FinishJob, ExitWorker, WatcherCloses, Interrupt, Finished, vars
    <3>1. next' = next
      OBVIOUS
    <3>2. reading' = reading
      OBVIOUS
    <3> QED
      BY <3>1, <3>2
  <2>5. CASE ReadFirst
    BY <2>5 DEF ReadFirst
  <2>6. CASE ReaderReturns
    BY <2>6 DEF ReaderReturns
  <2> QED
    BY <2>1, <2>2, <2>3, <2>4, <2>5, <2>6 DEF Next, Coordinator
<1> QED
  BY <1>1, Invariant, PTL DEF Spec, QuietAfterFailure

------------------------------------------------------------------------------
(* The promise.  No send blocks, success is complete, every goroutine is   *)
(* joined, a stop is not taken for an interrupt, and every step is one     *)
(* that OrderedStream allows.                                              *)


\* Dispatched records whose result has not been received.
Outstanding == {i \in Index : want <= i /\ i < next /\ i \notin completed}

\* A dispatched record is in one place at a time: queued, with one worker, in
\* the results channel, completed or written.
InHand ==
  /\ \A w \in Workers : worker[w] = "busy" => evals[job[w]] = 1 /\ outcome[job[w]] = "none"
  /\ \A v, w \in Workers : worker[v] = "busy" /\ worker[w] = "busy" /\ job[v] = job[w] => v = w

Delivered ==
  /\ \A k \in 1 .. Len(results) :
       outcome[results[k]] # "none" /\ want <= results[k] /\ results[k] \notin completed
  /\ \A j, k \in 1 .. Len(results) : results[j] = results[k] => j = k

Kept == \A i \in completed : want <= i /\ outcome[i] # "none"

Past == \A i \in Index : i < want => outcome[i] = "ok"

Unstarted == \A i \in Index : evals[i] = 0 => outcome[i] = "none"

OnePlace == InHand /\ Delivered /\ Kept /\ Past /\ Unstarted

\* pending counts the outstanding records.
Counted == pending = Cardinality(Outstanding)

\* A failure the coordinator knows of waits in completed until it is due.
FailureKept ==
  /\ failed => \E i \in completed : outcome[i] # "ok"
  /\ ~failed => failedCount = 0

\* Where the coordinator is, and what that says of its flags and the reader.
Phases ==
  /\ ret = "none" <=> pc \notin {"joinRead", "wait", "done"}
  /\ jobsClosed => pc \in {"wait", "done"}
  /\ pc \in {"head", "select"} => want \notin completed
  /\ readPending => ~eof
  /\ pc \in {"first", "prepare"} => ~eof
  /\ pc \in {"wait", "done"} => (reading => ~canClose)

\* A worker is off before the stream starts, or for good.
WorkersOff ==
  \A w \in Workers : worker[w] = "off" =>
    jobs = <<>> /\ (jobsClosed \/ pc \in {"first", "prepare", "done"})

\* What a decided return value says of the run.
Decided ==
  /\ ret = "none" => /\ cancelled => signalled
                     /\ \A i \in Index : outcome[i] = "interrupted" => signalled
  /\ ret = "ok" => ~readPending /\ want = next /\ lines = next /\ failedCount = 0
  /\ ret = "record" => want \in completed /\ (outcome[want] = "interrupted" => signalled)
  /\ ret = "interrupted" => signalled

PInv == OnePlace /\ Counted /\ FailureKept /\ Phases /\ WorkersOff /\ Decided

------------------------------------------------------------------------------
(* Where each record is.                                                   *)

\* The types the proofs below use.
LEMMA Types ==
  ASSUME IInv
  PROVE  /\ want \in Nat /\ next \in Nat /\ lines \in Nat /\ pending \in Nat
         /\ WorkerLimit \in Nat \ {0} /\ Index \subseteq Nat
         /\ want <= next /\ next <= MaxRecords /\ MaxRecords \in Nat
         /\ completed \subseteq Index
         /\ jobs \in Seq(Index) /\ results \in Seq(Index)
         /\ Len(jobs) \in Nat /\ Len(results) \in Nat
         /\ \A k \in 1 .. Len(jobs) : jobs[k] \in Index /\ jobs[k] < next
         /\ \A k \in 1 .. Len(results) : results[k] \in Index /\ results[k] < next
         /\ \A w \in Workers : job[w] \in Index
         /\ \A i \in completed : i < next
         /\ worker \in [Workers -> {"off", "idle", "busy"}]
         /\ job \in [Workers -> Index]
         /\ outcome \in [Index -> Outcomes]
         /\ evals \in [Index -> Nat]
<1> USE MapStreamAssumption DEF IInv, TypeOK, DataOK
<1>1. Index \subseteq Nat
  BY DEF Index
<1>2. /\ want \in Nat /\ next \in Nat /\ lines \in Nat /\ next <= MaxRecords
      /\ want <= next
  BY DEF ReadSide
<1>3. /\ Len(jobs) \in Nat /\ \A k \in 1 .. Len(jobs) : jobs[k] \in Index /\ jobs[k] < next
      /\ Len(results) \in Nat /\ \A k \in 1 .. Len(results) : results[k] \in Index /\ results[k] < next
  BY DEF Dispatched
<1>4. completed \subseteq Index /\ \A i \in completed : i < next
  BY DEF Dispatched
<1>. QED BY <1>1, <1>2, <1>3, <1>4

\* The steps that move a record after its dispatch.
LEMMA Movers ==
  ASSUME [Next]_vars
  PROVE  \/ StartStream \/ SelectResult \/ CommitWritten
         \/ \E w \in Workers : WorkerStep(w)
         \/ UNCHANGED <<worker, job, outcome, evals, results, completed, want>>
<1> USE DEF coordVars, loopVars, stopFrame, chanVars, workVars, envVars
<1>1. CASE PrepareFails \/ Return \/ EnterSelect \/ CommitDone \/ SelectRead \/ JoinRead
  BY <1>1 DEF PrepareFails, Return, EnterSelect, CommitDone, SelectRead, JoinRead
<1>2. CASE LeaveLoop \/ HeadInterrupted \/ SelectInterrupted \/ CommitWriteFails \/ CommitRecordError
  BY <1>2 DEF LeaveLoop, HeadInterrupted, SelectInterrupted, CommitWriteFails, CommitRecordError, Stop
<1>3. CASE ReadFirst \/ ReaderReturns \/ WatcherCloses \/ Interrupt \/ UNCHANGED vars
  BY <1>3 DEF ReadFirst, ReaderReturns, WatcherCloses, Interrupt, vars
<1>. QED BY <1>1, <1>2, <1>3 DEF Next, Coordinator, Finished

LEMMA OnePlaceStep ==
  ASSUME IInv, OnePlace, [Next]_vars
  PROVE  OnePlace'
<1> USE Types DEF OnePlace
<1>1. CASE StartStream
  BY <1>1 DEF StartStream, InHand, Delivered, Kept, Past, Unstarted
<1>2. CASE SelectResult
  <2>1. /\ results # <<>> /\ results' = Tail(results)
        /\ completed' = completed \cup {Head(results)}
        /\ UNCHANGED <<worker, job, outcome, evals, want>>
    BY <1>2 DEF SelectResult, Tally, workVars
  <2> DEFINE i == Head(results)
  <2>2. /\ i \in Index /\ i = results[1] /\ 1 \in 1 .. Len(results)
        /\ \A k \in 1 .. Len(results') : k + 1 \in 1 .. Len(results) /\ results'[k] = results[k + 1]
    BY <2>1, Receive
  <2> HIDE DEF i
  <2>3. completed' = completed \cup {i}
    BY <2>1 DEF i
  <2>4. outcome[i] # "none" /\ want <= i
    BY <2>2 DEF Delivered
  <2>5. ASSUME NEW k \in 1 .. Len(results')
        PROVE  /\ results'[k] # i
               /\ outcome[results'[k]] # "none" /\ want <= results'[k] /\ results'[k] \notin completed
    <3>1. PICK m \in 1 .. Len(results) : m = k + 1 /\ results'[k] = results[m]
      BY <2>2
    <3>2. m # 1
      BY <3>1
    <3>. QED BY <2>2, <3>1, <3>2 DEF Delivered
  <2>7. ASSUME NEW j \in 1 .. Len(results'), NEW k \in 1 .. Len(results'), results'[j] = results'[k]
        PROVE  j = k
    <3>1. j + 1 = k + 1
      BY <2>2, <2>7 DEF Delivered
    <3>. QED BY <3>1
  <2>8. Delivered'
    BY <2>1, <2>3, <2>5, <2>7 DEF Delivered
  <2>9. Kept'
    BY <2>1, <2>3, <2>4 DEF Kept
  <2>10. InHand' /\ Past' /\ Unstarted'
    BY <2>1 DEF InHand, Past, Unstarted
  <2>. QED BY <2>8, <2>9, <2>10
<1>3. CASE CommitWritten
  <2>1. /\ want \in completed /\ outcome[want] = "ok"
        /\ completed' = completed \ {want} /\ want' = want + 1
        /\ UNCHANGED <<worker, job, outcome, evals, results>>
    BY <1>3 DEF CommitWritten, chanVars, workVars
  <2>2. Delivered'
    <3>1. \A k \in 1 .. Len(results) : results[k] \in Nat /\ want <= results[k] /\ want # results[k]
      BY <2>1 DEF Delivered
    <3>2. \A k \in 1 .. Len(results) : want + 1 <= results[k]
      BY <3>1
    <3>. QED BY <2>1, <3>2 DEF Delivered
  <2>3. Kept'
    <3>1. \A i \in completed' : i \in Nat /\ want <= i /\ want # i
      BY <2>1 DEF Kept
    <3>2. \A i \in completed' : want + 1 <= i
      BY <3>1
    <3>. QED BY <2>1, <3>2 DEF Kept
  <2>4. Past'
    <3>1. \A i \in Index : i < want + 1 => i < want \/ i = want
      OBVIOUS
    <3>. QED BY <2>1, <3>1 DEF Past
  <2>5. InHand' /\ Unstarted'
    BY <2>1 DEF InHand, Unstarted
  <2>. QED BY <2>2, <2>3, <2>4, <2>5
<1>4. ASSUME NEW w \in Workers, TakeJob(w) PROVE OnePlace'
  <2> DEFINE i == Head(jobs)
  <2>1. /\ jobs # <<>>
        /\ worker' = [worker EXCEPT ![w] = "busy"]
        /\ job' = [job EXCEPT ![w] = i]
        /\ evals' = [evals EXCEPT ![i] = evals[i] + 1]
        /\ UNCHANGED <<want, completed, results, outcome>>
    BY <1>4 DEF TakeJob, coordVars, loopVars
  <2>2. i \in Index /\ i = jobs[1] /\ 1 \in 1 .. Len(jobs)
    BY <2>1, Receive
  <2> HIDE DEF i
  <2>3. evals[i] = 0 /\ outcome[i] = "none"
    BY <2>2 DEF Unstarted, IInv, StartedOnce
  <2>4. \A v \in Workers : worker[v] = "busy" => job[v] # i
    BY <2>3 DEF InHand
  <2>5. InHand'
    <3>1. \A v \in Workers : worker'[v] = "busy" => evals'[job'[v]] = 1 /\ outcome[job'[v]] = "none"
      BY <2>1, <2>2, <2>3, <2>4 DEF InHand
    <3>2. \A u, v \in Workers : worker'[u] = "busy" /\ worker'[v] = "busy" /\ job'[u] = job'[v] => u = v
      BY <2>1, <2>4 DEF InHand
    <3>. QED BY <2>1, <3>1, <3>2 DEF InHand
  <2>6. Unstarted'
    <3>1. \A j \in Index : evals'[j] = 0 => evals[j] = 0
      BY <2>1, <2>2, <2>3
    <3>. QED BY <2>1, <3>1 DEF Unstarted
  <2>7. Delivered' /\ Kept' /\ Past'
    BY <2>1 DEF Delivered, Kept, Past
  <2>. QED BY <2>5, <2>6, <2>7
<1>5. ASSUME NEW w \in Workers, FinishJob(w) PROVE OnePlace'
  <2> DEFINE i == job[w]
  <2>1. PICK r \in Settled : outcome' = [outcome EXCEPT ![i] = r]
    BY <1>5 DEF FinishJob
  <2>2. /\ worker[w] = "busy"
        /\ results' = Append(results, i)
        /\ worker' = [worker EXCEPT ![w] = "idle"]
        /\ job' = [job EXCEPT ![w] = 0]
        /\ UNCHANGED <<want, completed, evals>>
    BY <1>5 DEF FinishJob, coordVars, loopVars
  <2>3. i \in Index /\ outcome[i] = "none" /\ evals[i] = 1 /\ r # "none"
    BY <2>2 DEF InHand, Settled
  <2>4. \A v \in Workers : worker'[v] = "busy" => worker[v] = "busy" /\ job'[v] = job[v] /\ job[v] # i
    BY <2>2 DEF InHand
  <2> HIDE DEF i
  <2>5. want <= i /\ i \notin completed
    <3>1. i \in Nat /\ ~(i < want)
      BY <2>3 DEF Past
    <3>. QED BY <2>3, <3>1 DEF Kept
  <2>6. outcome'[i] = r /\ \A j \in Index : j # i => outcome'[j] = outcome[j]
    BY <2>1, <2>3
  <2>7. InHand'
    <3>1. \A v \in Workers : worker'[v] = "busy" => evals'[job'[v]] = 1 /\ outcome'[job'[v]] = "none"
      BY <2>2, <2>4, <2>6 DEF InHand
    <3>2. \A u, v \in Workers : worker'[u] = "busy" /\ worker'[v] = "busy" /\ job'[u] = job'[v] => u = v
      BY <2>2, <2>4 DEF InHand
    <3>. QED BY <3>1, <3>2 DEF InHand
  <2>8. Delivered'
    <3>1. \A k \in 1 .. Len(results') : \/ k \in 1 .. Len(results) /\ results'[k] = results[k]
                                        \/ k = Len(results) + 1 /\ results'[k] = i
      BY <2>2, <2>3, Send
    <3>2. \A k \in 1 .. Len(results) : results[k] # i
      BY <2>3 DEF Delivered
    <3>3. \A k \in 1 .. Len(results) :
            outcome'[results[k]] # "none" /\ want <= results[k] /\ results[k] \notin completed
      BY <2>6, <3>2 DEF Delivered
    <3>4. \A k \in 1 .. Len(results') :
            outcome'[results'[k]] # "none" /\ want <= results'[k] /\ results'[k] \notin completed
      BY <2>3, <2>5, <2>6, <3>1, <3>3
    <3>5. ASSUME NEW j \in 1 .. Len(results'), NEW k \in 1 .. Len(results'), results'[j] = results'[k]
          PROVE  j = k
      <4>1. \/ j \in 1 .. Len(results) /\ k \in 1 .. Len(results) /\ results[j] = results[k]
            \/ j = Len(results) + 1 /\ k = Len(results) + 1
        BY <3>1, <3>2, <3>5
      <4>. QED BY <4>1 DEF Delivered
    <3>. QED BY <2>2, <3>4, <3>5 DEF Delivered
  <2>9. Kept' /\ Past'
    BY <2>2, <2>3, <2>5, <2>6 DEF Kept, Past
  <2>10. Unstarted'
    BY <2>2, <2>3, <2>6 DEF Unstarted
  <2>. QED BY <2>7, <2>8, <2>9, <2>10
<1>6. ASSUME NEW w \in Workers, ExitWorker(w) PROVE OnePlace'
  <2>1. /\ worker' = [worker EXCEPT ![w] = "off"]
        /\ UNCHANGED <<job, outcome, evals, results, completed, want>>
    BY <1>6 DEF ExitWorker, coordVars, loopVars, chanVars
  <2>. QED BY <2>1 DEF InHand, Delivered, Kept, Past, Unstarted
<1>7. CASE UNCHANGED <<worker, job, outcome, evals, results, completed, want>>
  BY <1>7 DEF InHand, Delivered, Kept, Past, Unstarted
<1>. QED BY <1>1, <1>2, <1>3, <1>4, <1>5, <1>6, <1>7, Movers DEF WorkerStep

------------------------------------------------------------------------------
(* What the coordinator counts.                                            *)

LEMMA OutstandingIsFinite ==
  ASSUME IInv
  PROVE  /\ IsFiniteSet(Outstanding)
         /\ Cardinality(Outstanding) \in Nat
         /\ Cardinality(Outstanding) = 0 => Outstanding = {}
<1>1. IsFiniteSet(Index)
  BY MapStreamAssumption, FS_Interval DEF Index
<1>2. Outstanding \in SUBSET Index
  BY DEF Outstanding
<1>. QED BY <1>1, <1>2, FS_Subset, FS_CardinalityType, FS_EmptySet

\* The steps that change what is outstanding.
LEMMA Counters ==
  ASSUME [Next]_vars
  PROVE  \/ StartStream \/ SelectRead \/ SelectResult \/ CommitWritten
         \/ UNCHANGED <<pending, want, next, completed, failed, failedCount>>
<1> USE DEF coordVars, loopVars, stopFrame, chanVars, workVars, envVars
<1>1. CASE PrepareFails \/ Return \/ EnterSelect \/ CommitDone \/ JoinRead
  BY <1>1 DEF PrepareFails, Return, EnterSelect, CommitDone, JoinRead
<1>2. CASE LeaveLoop \/ HeadInterrupted \/ SelectInterrupted \/ CommitWriteFails \/ CommitRecordError
  BY <1>2 DEF LeaveLoop, HeadInterrupted, SelectInterrupted, CommitWriteFails, CommitRecordError, Stop
<1>3. CASE ReadFirst \/ ReaderReturns \/ WatcherCloses \/ Interrupt \/ UNCHANGED vars
  BY <1>3 DEF ReadFirst, ReaderReturns, WatcherCloses, Interrupt, vars
<1>4. CASE \E w \in Workers : WorkerStep(w)
  BY <1>4 DEF WorkerStep, TakeJob, FinishJob, ExitWorker
<1>. QED BY <1>1, <1>2, <1>3, <1>4 DEF Next, Coordinator, Finished

\* A dispatch makes one more record outstanding.
LEMMA DispatchCounts ==
  ASSUME IInv, IInv', Counted, Dispatch, UNCHANGED <<want, completed>>
  PROVE  Counted'
<1> USE Types
<1>1. next' = next + 1 /\ pending' = pending + 1
  BY DEF Dispatch
<1>2. next' <= MaxRecords
  BY DEF IInv, TypeOK, DataOK
<1>3. next \in Index /\ next \notin completed
  BY <1>1, <1>2 DEF Index
<1>4. Outstanding' = Outstanding \cup {next} /\ next \notin Outstanding
  BY <1>1, <1>3 DEF Outstanding, Index
<1>5. Cardinality(Outstanding') = Cardinality(Outstanding) + 1
  BY <1>4, OutstandingIsFinite, FS_AddElement
<1>. QED BY <1>1, <1>5 DEF Counted

LEMMA CountedStep ==
  ASSUME IInv, IInv', OnePlace, Counted, [Next]_vars
  PROVE  Counted'
<1> USE Types
<1>1. CASE StartStream
  BY <1>1, DispatchCounts DEF StartStream
<1>2. CASE SelectRead
  <2>1. \/ Dispatch
        \/ UNCHANGED <<next, pending>>
    BY <1>2 DEF SelectRead
  <2>2. UNCHANGED <<want, completed>>
    BY <1>2 DEF SelectRead
  <2>. QED BY <2>1, <2>2, DispatchCounts DEF Counted, Outstanding
<1>3. CASE SelectResult
  <2> DEFINE i == Head(results)
  <2>1. /\ results # <<>> /\ completed' = completed \cup {i}
        /\ pending' = pending - 1 /\ UNCHANGED <<want, next>>
    BY <1>3 DEF SelectResult, Tally
  <2>2. i = results[1] /\ 1 \in 1 .. Len(results)
    BY <2>1, Receive
  <2> HIDE DEF i
  <2>3. i \in Outstanding
    BY <2>2 DEF OnePlace, Delivered, Outstanding
  <2>4. Outstanding' = Outstanding \ {i}
    BY <2>1 DEF Outstanding
  <2>5. Cardinality(Outstanding') = Cardinality(Outstanding) - 1
    BY <2>3, <2>4, OutstandingIsFinite, FS_RemoveElement
  <2>. QED BY <2>1, <2>5 DEF Counted
<1>4. CASE CommitWritten
  <2>1. /\ want \in completed /\ completed' = completed \ {want} /\ want' = want + 1
        /\ UNCHANGED <<next, pending>>
    BY <1>4 DEF CommitWritten
  <2>2. Outstanding' = Outstanding
    BY <2>1 DEF Outstanding, Index
  <2>. QED BY <2>1, <2>2 DEF Counted
<1>5. CASE UNCHANGED <<pending, want, next, completed, failed, failedCount>>
  BY <1>5 DEF Counted, Outstanding
<1>. QED BY <1>1, <1>2, <1>3, <1>4, <1>5, Counters

LEMMA FailureKeptStep ==
  ASSUME IInv, OnePlace, FailureKept, [Next]_vars
  PROVE  FailureKept'
<1> USE Types
\* No step takes back what a completed record came to.
<1>1. \A i \in completed : outcome[i] # "ok" => outcome'[i] # "ok"
  <2>1. CASE UNCHANGED outcome
    BY <2>1
  <2>2. CASE \E w \in Workers : FinishJob(w)
    <3>1. PICK w \in Workers : FinishJob(w)
      BY <2>2
    <3>2. job[w] \notin completed
      BY <3>1 DEF FinishJob, OnePlace, InHand, Kept
    <3>3. PICK r : outcome' = [outcome EXCEPT ![job[w]] = r]
      BY <3>1 DEF FinishJob
    <3>. QED BY <3>2, <3>3
  <2>3. UNCHANGED outcome \/ \E w \in Workers : FinishJob(w)
    <3>1. StartStream \/ SelectResult \/ CommitWritten => UNCHANGED outcome
      BY DEF StartStream, SelectResult, CommitWritten, workVars
    <3>2. \A w \in Workers : TakeJob(w) \/ ExitWorker(w) => UNCHANGED outcome
      BY DEF TakeJob, ExitWorker
    <3>. QED BY <3>1, <3>2, Movers DEF WorkerStep
  <2>. QED BY <2>1, <2>2, <2>3
<1>2. CASE StartStream \/ SelectRead
  <2>1. UNCHANGED <<completed, failed, failedCount>>
    BY <1>2 DEF StartStream, SelectRead
  <2>. QED BY <1>1, <2>1 DEF FailureKept
<1>3. CASE SelectResult
  <2> DEFINE i == Head(results)
  <2>1. /\ completed' = completed \cup {i}
        /\ failed' = (failed \/ outcome[i] # "ok")
        /\ failedCount' = IF outcome[i] # "ok" THEN failedCount + 1 ELSE failedCount
        /\ UNCHANGED outcome
    BY <1>3 DEF SelectResult, Tally, workVars
  <2> HIDE DEF i
  <2>2. failed' => failed \/ outcome[i] # "ok"
    BY <2>1
  <2>3. ~failed' => ~failed /\ outcome[i] = "ok"
    BY <2>1
  <2>. QED BY <2>1, <2>2, <2>3 DEF FailureKept
<1>4. CASE CommitWritten
  <2>1. /\ outcome[want] = "ok" /\ completed' = completed \ {want}
        /\ UNCHANGED <<failed, failedCount, outcome>>
    BY <1>4 DEF CommitWritten, workVars
  <2>. QED BY <2>1 DEF FailureKept
<1>5. CASE UNCHANGED <<pending, want, next, completed, failed, failedCount>>
  BY <1>1, <1>5 DEF FailureKept
<1>. QED BY <1>2, <1>3, <1>4, <1>5, Counters

------------------------------------------------------------------------------
(* How a run ends.                                                         *)

LEMMA PhasesStep ==
  ASSUME IInv, Phases, [Next]_vars
  PROVE  Phases'
<1> USE Types DEF Phases, coordVars, loopVars, stopFrame, chanVars, workVars, envVars
<1>1. CASE PrepareFails
  BY <1>1 DEF PrepareFails, IInv, BeforeStream
<1>2. CASE StartStream
  BY <1>2 DEF StartStream, IInv, BeforeStream, Dispatch, Dispatched
<1>3. CASE LeaveLoop
  BY <1>3 DEF LeaveLoop, Stop, LoopGuard, IInv, TypeOK, DataOK, ReadSide, ReadErrors
<1>4. CASE HeadInterrupted
  BY <1>4 DEF HeadInterrupted, Stop, IInv, ReadSide
<1>5. CASE EnterSelect
  BY <1>5 DEF EnterSelect, MayStartRead
<1>6. CASE SelectInterrupted
  BY <1>6 DEF SelectInterrupted, Stop, IInv, ReadSide
<1>7. CASE SelectRead
  BY <1>7 DEF SelectRead
<1>8. CASE SelectResult
  BY <1>8 DEF SelectResult, Tally
<1>9. CASE CommitWritten
  BY <1>9 DEF CommitWritten
<1>10. CASE CommitWriteFails
  BY <1>10 DEF CommitWriteFails, Stop, IInv, ReadSide
<1>11. CASE CommitRecordError
  BY <1>11 DEF CommitRecordError, Stop, IInv, ReadSide
<1>12. CASE CommitDone
  BY <1>12 DEF CommitDone
<1>13. CASE JoinRead
  BY <1>13 DEF JoinRead, IInv, ReadSide
<1>14. CASE Return
  BY <1>14 DEF Return
<1>15. CASE ReadFirst
  BY <1>15 DEF ReadFirst, IInv, BeforeStream, ReadErrors
<1>16. CASE ReaderReturns
  BY <1>16 DEF ReaderReturns
<1>17. CASE WatcherCloses \/ Interrupt \/ UNCHANGED vars
  BY <1>17 DEF WatcherCloses, Interrupt, vars
<1>18. CASE \E w \in Workers : WorkerStep(w)
  BY <1>18 DEF WorkerStep, TakeJob, FinishJob, ExitWorker
<1>. QED BY <1>1, <1>2, <1>3, <1>4, <1>5, <1>6, <1>7, <1>8, <1>9, <1>10, <1>11, <1>12,
            <1>13, <1>14, <1>15, <1>16, <1>17, <1>18 DEF Next, Coordinator, Finished

LEMMA WorkersOffStep ==
  ASSUME IInv, Phases, WorkersOff, [Next]_vars
  PROVE  WorkersOff'
<1> USE Types DEF Phases, WorkersOff, coordVars, loopVars, stopFrame, chanVars, workVars, envVars
<1>1. CASE PrepareFails \/ StartStream \/ ReadFirst
  BY <1>1 DEF PrepareFails, StartStream, ReadFirst
<1>2. CASE LeaveLoop \/ HeadInterrupted \/ SelectInterrupted \/ CommitWriteFails \/ CommitRecordError
  BY <1>2 DEF LeaveLoop, HeadInterrupted, SelectInterrupted, CommitWriteFails, CommitRecordError, Stop
<1>3. CASE EnterSelect \/ SelectRead \/ SelectResult \/ CommitWritten \/ CommitDone
  BY <1>3 DEF EnterSelect, SelectRead, SelectResult, CommitWritten, CommitDone
<1>4. CASE JoinRead \/ Return
  BY <1>4 DEF JoinRead, Return
<1>5. CASE ReaderReturns \/ WatcherCloses \/ Interrupt \/ UNCHANGED vars
  BY <1>5 DEF ReaderReturns, WatcherCloses, Interrupt, vars
<1>6. ASSUME NEW w \in Workers, WorkerStep(w) PROVE WorkersOff'
  BY <1>6 DEF WorkerStep, TakeJob, FinishJob, ExitWorker
<1>. QED BY <1>1, <1>2, <1>3, <1>4, <1>5, <1>6 DEF Next, Coordinator, Finished

\* When the loop is over without a stop, everything read has been written.
LEMMA LoopOver ==
  ASSUME IInv, PInv, pc = "head", ~LoopGuard
  PROVE  want = next /\ lines = next /\ failedCount = 0 /\ ~readPending /\ eof
<1> USE Types
<1>1. pending = 0 /\ ~readPending /\ (eof \/ failed)
  BY DEF LoopGuard
<1>2. Outstanding = {}
  BY <1>1, OutstandingIsFinite DEF PInv, Counted
<1>3. want = next
  <2>1. want \notin completed
    BY DEF PInv, Phases
  <2>2. want < next => want \in Outstanding
    BY <2>1 DEF Outstanding, Index
  <2>. QED BY <1>2, <2>2
<1>4. completed = {}
  BY <1>3 DEF PInv, OnePlace, Kept
<1>5. ~failed /\ failedCount = 0
  BY <1>4 DEF PInv, FailureKept
<1>6. lines = next
  <2>1. next <= lines /\ lines <= next + 1
    BY DEF IInv, ReadSide
  <2>2. lines # next + 1
    BY <1>1, <1>5 DEF IInv, ReadSide
  <2>. QED BY <2>1, <2>2
<1>. QED BY <1>1, <1>3, <1>5, <1>6

LEMMA DecidedStep ==
  ASSUME IInv, PInv, [Next]_vars
  PROVE  Decided'
<1> USE Types DEF PInv, Phases, Decided, coordVars, loopVars, stopFrame, chanVars, workVars, envVars
<1>1. CASE PrepareFails \/ StartStream \/ EnterSelect \/ SelectRead \/ CommitDone
  BY <1>1 DEF PrepareFails, StartStream, EnterSelect, SelectRead, CommitDone
<1>2. CASE LeaveLoop
  BY <1>2, LoopOver DEF LeaveLoop, Stop, IInv, TypeOK, DataOK, ReadErrors
<1>3. CASE HeadInterrupted \/ SelectInterrupted \/ CommitWriteFails \/ CommitRecordError
  BY <1>3 DEF HeadInterrupted, SelectInterrupted, CommitWriteFails, CommitRecordError, Stop
<1>4. CASE SelectResult \/ CommitWritten
  BY <1>4 DEF SelectResult, Tally, CommitWritten
<1>5. CASE JoinRead \/ Return
  BY <1>5 DEF JoinRead, Return
<1>6. CASE ReadFirst
  BY <1>6 DEF ReadFirst, ReadErrors
<1>7. CASE ReaderReturns
  BY <1>7 DEF ReaderReturns, IInv, ReadSide
<1>8. CASE WatcherCloses \/ Interrupt \/ UNCHANGED vars
  BY <1>8 DEF WatcherCloses, Interrupt, vars
<1>9. ASSUME NEW w \in Workers, TakeJob(w) \/ ExitWorker(w) PROVE Decided'
  BY <1>9 DEF TakeJob, ExitWorker
<1>10. ASSUME NEW w \in Workers, FinishJob(w) PROVE Decided'
  <2>1. PICK r \in Settled : /\ r = "interrupted" => cancelled
                             /\ outcome' = [outcome EXCEPT ![job[w]] = r]
    BY <1>10 DEF FinishJob
  <2>2. UNCHANGED <<ret, want, next, lines, failedCount, readPending, completed, cancelled, signalled>>
    BY <1>10 DEF FinishJob
  <2>3. job[w] \in Index /\ outcome[job[w]] = "none"
    BY <1>10 DEF FinishJob, OnePlace, InHand
  <2>4. want \in completed => outcome'[want] = outcome[want]
    BY <2>1, <2>3 DEF OnePlace, Kept
  <2>5. \A i \in Index : outcome'[i] = "interrupted" => outcome[i] = "interrupted" \/ cancelled
    BY <2>1, <2>3
  <2>. QED BY <2>2, <2>4, <2>5
<1>. QED BY <1>1, <1>2, <1>3, <1>4, <1>5, <1>6, <1>7, <1>8, <1>9, <1>10
         DEF Next, Coordinator, Finished, WorkerStep

LEMMA InitPromise == Init => PInv
<1> SUFFICES ASSUME Init PROVE PInv
  OBVIOUS
<1> USE MapStreamAssumption DEF Init
<1>1. OnePlace
  BY DEF OnePlace, InHand, Delivered, Kept, Past, Unstarted, Index
<1>2. Counted
  <2>1. Outstanding = {}
    BY DEF Outstanding, Index
  <2>. QED BY <2>1, FS_EmptySet DEF Counted
<1>3. FailureKept /\ Phases /\ WorkersOff
  BY DEF FailureKept, Phases, WorkersOff
<1>4. Decided
  BY DEF Decided
<1>. QED BY <1>1, <1>2, <1>3, <1>4 DEF PInv

LEMMA PromiseInvariant == Spec => [](IInv /\ PInv)
<1>1. IInv /\ IInv' /\ PInv /\ [Next]_vars => PInv'
  BY OnePlaceStep, CountedStep, FailureKeptStep, PhasesStep, WorkersOffStep, DecidedStep DEF PInv
<1>. QED BY <1>1, Invariant, InitPromise, PTL DEF Spec

------------------------------------------------------------------------------
(* The properties.                                                         *)

LEMMA IntervalSize ==
  ASSUME NEW a \in Nat, NEW b \in Int, a <= b + 1
  PROVE  IsFiniteSet(a .. b) /\ Cardinality(a .. b) = b - a + 1
<1>1. IsFiniteSet(a .. b) /\ Cardinality(a .. b) = IF a > b THEN 0 ELSE b - a + 1
  BY FS_Interval
<1>2. CASE a > b
  <2>1. b - a + 1 = 0
    BY <1>2
  <2>. QED BY <1>1, <1>2, <2>1
<1>3. CASE ~(a > b)
  BY <1>1, <1>3
<1>. QED BY <1>2, <1>3

\* A channel whose elements differ holds no more than there are candidates.
LEMMA Distinct ==
  ASSUME NEW S, IsFiniteSet(S), NEW s \in Seq(Nat),
         \A k \in 1 .. Len(s) : s[k] \in S,
         \A j, k \in 1 .. Len(s) : s[j] = s[k] => j = k
  PROVE  Len(s) <= Cardinality(S)
<1> DEFINE f == [k \in 1 .. Len(s) |-> s[k]]
<1>1. f \in Injection(1 .. Len(s), S)
  BY DEF Injection, IsInjective
<1>2. Cardinality(1 .. Len(s)) = Len(s)
  <2>1. Len(s) \in Nat /\ Len(s) - 1 + 1 = Len(s)
    OBVIOUS
  <2>. QED BY <2>1, IntervalSize
<1>3. Cardinality(1 .. Len(s)) <= Cardinality(S)
  BY <1>1, FS_Injection
<1>. QED BY <1>2, <1>3

\* No interleaving makes the coordinator wait to dispatch, or a worker to
\* deliver: every queued or undelivered record is in the window, and the
\* channels are as large as it.
THEOREM SendsAreFree == Spec => []SendsNeverBlock
<1>1. IInv /\ PInv => SendsNeverBlock
  <2> SUFFICES ASSUME IInv, PInv PROVE SendsNeverBlock
    OBVIOUS
  <2> USE Types
  <2> DEFINE InWindow == want .. next - 1
  <2>1. /\ IsFiniteSet(InWindow)
        /\ Cardinality(InWindow) = next - want
    <3>1. next - 1 \in Int /\ want <= next - 1 + 1 /\ next - 1 - want + 1 = next - want
      OBVIOUS
    <3>. QED BY <3>1, IntervalSize
  <2>2. jobs \in Seq(Nat) /\ results \in Seq(Nat)
    OBVIOUS
  <2>3. ASSUME readPending PROVE Len(jobs) < WorkerLimit
    <3>1. \A k \in 1 .. Len(jobs) : jobs[k] \in InWindow
      <4> SUFFICES ASSUME NEW k \in 1 .. Len(jobs) PROVE jobs[k] \in InWindow
        OBVIOUS
      <4>1. outcome[jobs[k]] = "none"
        BY DEF IInv, StartedOnce, PInv, OnePlace, Unstarted
      <4>2. jobs[k] \in Nat /\ ~(jobs[k] < want) /\ jobs[k] < next
        BY <4>1 DEF PInv, OnePlace, Past
      <4>. QED BY <4>2
    <3>2. \A j, k \in 1 .. Len(jobs) : jobs[j] = jobs[k] => j = k
      BY DEF IInv, StartedOnce
    <3> HIDE DEF InWindow
    <3>3. Len(jobs) <= Cardinality(InWindow)
      BY <2>1, <2>2, <3>1, <3>2, Distinct
    <3>4. next < want + WorkerLimit
      BY <2>3 DEF IInv, ReadSide
    <3>. QED BY <2>1, <3>3, <3>4
  <2>4. ASSUME NEW w \in Workers, worker[w] = "busy" PROVE Len(results) < WorkerLimit
    <3> DEFINE i == job[w]
               Others == InWindow \ {i}
    <3>1. i \in Index /\ outcome[i] = "none" /\ i < next
      BY <2>4 DEF PInv, OnePlace, InHand, IInv, Dispatched
    <3>2. i \in InWindow
      <4>1. i \in Nat /\ ~(i < want)
        BY <3>1 DEF PInv, OnePlace, Past
      <4>. QED BY <3>1, <4>1
    <3>3. \A k \in 1 .. Len(results) : results[k] \in InWindow /\ results[k] # i
      BY <3>1 DEF PInv, OnePlace, Delivered
    <3>4. \A j, k \in 1 .. Len(results) : results[j] = results[k] => j = k
      BY DEF PInv, OnePlace, Delivered
    <3> HIDE DEF InWindow, i
    <3>5. IsFiniteSet(Others) /\ Cardinality(Others) = next - want - 1
      BY <2>1, <3>2, FS_RemoveElement
    <3>6. \A k \in 1 .. Len(results) : results[k] \in Others
      BY <3>3
    <3> HIDE DEF Others
    <3>7. Len(results) <= Cardinality(Others)
      BY <2>2, <3>4, <3>5, <3>6, Distinct
    <3>8. next <= want + WorkerLimit
      BY DEF IInv, ReadSide
    <3>. QED BY <3>5, <3>7, <3>8
  <2>. QED BY <2>3, <2>4 DEF SendsNeverBlock
<1>. QED BY <1>1, PromiseInvariant, PTL

\* Success leaves nothing behind, whatever failed, raced or arrived late.
THEOREM CompleteSuccess == Spec => []SuccessIsComplete
<1>1. IInv /\ PInv => SuccessIsComplete
  BY DEF PInv, Decided, SuccessIsComplete
<1>. QED BY <1>1, PromiseInvariant, PTL

\* The command joins what it started, on every way out.
THEOREM EverythingJoined == Spec => []JoinedOnReturn
<1> DEFINE Joined == pc = "done" => \A w \in Workers : worker[w] = "off"
<1>1. Init => Joined
  BY DEF Init
<1>2. IInv /\ PInv /\ Joined /\ [Next]_vars => Joined'
  <2> SUFFICES ASSUME IInv, PInv, Joined, [Next]_vars, pc' = "done"
               PROVE  \A w \in Workers : worker'[w] = "off"
    OBVIOUS
  <2> USE DEF coordVars, loopVars, stopFrame, chanVars, workVars, envVars
  <2>1. CASE PrepareFails \/ ReadFirst
    BY <2>1 DEF PrepareFails, ReadFirst, IInv, BeforeStream
  <2>2. CASE Return
    BY <2>2 DEF Return
  <2>3. CASE \E w \in Workers : WorkerStep(w)
    BY <2>3 DEF WorkerStep, TakeJob, FinishJob, ExitWorker
  <2>4. CASE ReaderReturns \/ WatcherCloses \/ Interrupt \/ UNCHANGED vars
    BY <2>4 DEF ReaderReturns, WatcherCloses, Interrupt, vars
  <2>5. CASE StartStream \/ LeaveLoop \/ HeadInterrupted \/ EnterSelect \/ SelectInterrupted
             \/ SelectRead \/ SelectResult \/ CommitWritten \/ CommitWriteFails
             \/ CommitRecordError \/ CommitDone \/ JoinRead
    BY <2>5 DEF StartStream, LeaveLoop, HeadInterrupted, EnterSelect, SelectInterrupted, SelectRead,
       SelectResult, CommitWritten, CommitWriteFails, CommitRecordError, CommitDone, JoinRead, Stop
  <2>. QED BY <2>1, <2>2, <2>3, <2>4, <2>5 DEF Next, Coordinator, Finished
<1>3. \E w \in Workers : TRUE
  <2>1. Workers # {}
    BY MapStreamAssumption, FS_EmptySet
  <2>. QED BY <2>1
<1>4. PInv /\ Joined => JoinedOnReturn
  BY <1>3 DEF PInv, Phases, WorkersOff, JoinedOnReturn
<1>. QED BY <1>1, <1>2, <1>4, PromiseInvariant, PTL DEF Spec

\* Only the user's signal is ever reported as an interrupt.
THEOREM OnlySignalsInterrupt == Spec => []NoSelfInflictedInterrupt
<1>1. IInv /\ PInv => NoSelfInflictedInterrupt
  BY DEF PInv, Decided, NoSelfInflictedInterrupt
<1>. QED BY <1>1, PromiseInvariant, PTL

------------------------------------------------------------------------------
(* The refinement.                                                         *)

LEMMA PromiseStarts == Init => Promise!Init
BY DEF Init, Promise!Init, Index, Promise!Index, ReadErrors

\* Every step of the pipeline is a step of its promise, or changes nothing
\* the promise speaks of.
LEMMA PromiseStep ==
  ASSUME IInv, PInv, [Next]_vars
  PROVE  [Promise!Next]_(Promise!vars)
<1> USE Types DEF coordVars, loopVars, stopFrame, chanVars, workVars, envVars, Promise!vars
<1> DEFINE verdict == IF ret \in ReadErrors THEN "input" ELSE ret
<1>1. verdict = "none" <=> ret = "none"
  BY DEF ReadErrors
<1>2. CASE StartStream
  <2>1. next = 0 /\ want = 0 /\ next' = 1 /\ UNCHANGED <<want, outcome, eof, ret>>
    BY <1>2 DEF StartStream, Dispatch, IInv, BeforeStream
  <2>2. ~eof /\ ret = "none" /\ next < MaxRecords
    BY <1>2, MapStreamAssumption, <2>1 DEF StartStream, PInv, Phases
  <2>3. Promise!Accept
    BY <1>1, <2>1, <2>2 DEF Promise!Accept, Promise!Undecided
  <2>. QED BY <2>3 DEF Promise!Next
<1>3. CASE SelectRead
  <2>1. ret = "none" /\ ~eof /\ UNCHANGED <<want, outcome, ret>>
    BY <1>3 DEF SelectRead, PInv, Phases
  <2>2. CASE UNCHANGED <<next, eof>>
    BY <2>1, <2>2
  <2>3. CASE ~failed /\ Head(readResults) = "record" /\ Dispatch /\ UNCHANGED eof
    <3>1. /\ next' = next + 1 /\ next < want + WorkerLimit /\ next < MaxRecords
      BY <1>3, <2>3 DEF SelectRead, Dispatch, IInv, ReadSide, TypeOK, DataOK
    <3>2. Promise!Accept
      BY <1>1, <2>1, <2>3, <3>1 DEF Promise!Accept, Promise!Undecided
    <3>. QED BY <3>2 DEF Promise!Next
  <2>4. CASE eof' = TRUE /\ UNCHANGED next
    <3>1. Promise!End
      BY <1>1, <2>1, <2>4 DEF Promise!End, Promise!Undecided
    <3>. QED BY <3>1 DEF Promise!Next
  <2>. QED BY <1>3, <2>2, <2>3, <2>4 DEF SelectRead
<1>4. ASSUME NEW w \in Workers, FinishJob(w)
      PROVE  [Promise!Next]_(Promise!vars)
  <2>1. job[w] \in Promise!Index /\ job[w] < next /\ outcome[job[w]] = "none"
    BY <1>4 DEF FinishJob, IInv, Dispatched, PInv, OnePlace, InHand, Index, Promise!Index
  <2>2. PICK r \in Promise!Settled : outcome' = [outcome EXCEPT ![job[w]] = r]
    BY <1>4 DEF FinishJob, Settled, Promise!Settled
  <2>3. UNCHANGED <<next, want, eof, ret>>
    BY <1>4 DEF FinishJob
  <2>4. Promise!Settle
    BY <2>1, <2>2, <2>3 DEF Promise!Settle
  <2>. QED BY <2>4 DEF Promise!Next
<1>5. CASE CommitWritten
  <2>1. /\ want < next /\ outcome[want] = "ok" /\ want' = want + 1 /\ ret = "none"
        /\ UNCHANGED <<next, outcome, eof, ret>>
    BY <1>5 DEF CommitWritten, PInv, Phases
  <2>2. Promise!Emit
    BY <1>1, <2>1 DEF Promise!Emit, Promise!Undecided
  <2>. QED BY <2>2 DEF Promise!Next
<1>6. CASE PrepareFails \/ ReadFirst \/ LeaveLoop \/ HeadInterrupted \/ SelectInterrupted
           \/ CommitWriteFails \/ CommitRecordError
  <2>1. UNCHANGED <<next, want, outcome, eof>> /\ ret = "none"
    BY <1>6 DEF PrepareFails, ReadFirst, LeaveLoop, HeadInterrupted, SelectInterrupted,
       CommitWriteFails, CommitRecordError, Stop, PInv, Phases
  <2>2. CASE ret' = ret
    BY <2>1, <2>2
  <2>3. CASE ret' # ret
    <3> DEFINE Good(v) ==
          \/ v = "ok" /\ eof /\ want = next
          \/ v = "input" /\ want = next
          \/ v = "record" /\ want < next /\ outcome[want] \in {"failed", "interrupted"}
          \/ v = "write" /\ want < next /\ outcome[want] = "ok"
          \/ v = "setup" /\ next = 0
          \/ v = "interrupted"
    <3>1. ASSUME PrepareFails PROVE Good(verdict')
      BY <3>1 DEF PrepareFails, IInv, BeforeStream, ReadErrors
    <3>2. ASSUME ReadFirst PROVE Good(verdict')
      BY <2>3, <3>2 DEF ReadFirst, IInv, BeforeStream, ReadErrors
    <3>3. ASSUME LeaveLoop PROVE Good(verdict')
      BY <3>3, LoopOver DEF LeaveLoop, Stop, IInv, TypeOK, DataOK, ReadErrors
    <3>4. ASSUME HeadInterrupted \/ SelectInterrupted PROVE Good(verdict')
      BY <3>4 DEF HeadInterrupted, SelectInterrupted, Stop, ReadErrors
    <3>5. ASSUME CommitWriteFails PROVE Good(verdict')
      BY <3>5 DEF CommitWriteFails, Stop, ReadErrors
    <3>6. ASSUME CommitRecordError PROVE Good(verdict')
      BY <3>6 DEF CommitRecordError, Stop, ReadErrors, PInv, OnePlace, Kept, Outcomes, Settled
    <3>7. Good(verdict')
      BY <1>6, <3>1, <3>2, <3>3, <3>4, <3>5, <3>6
    <3>8. Promise!Justified(verdict') /\ verdict' \in Promise!Verdicts \ {"none"}
      BY <3>7 DEF Promise!Justified, Promise!Verdicts
    <3> HIDE DEF Good
    <3>9. Promise!Conclude
      BY <1>1, <2>1, <3>8 DEF Promise!Conclude, Promise!Undecided
    <3>. QED BY <3>9 DEF Promise!Next
  <2>. QED BY <2>2, <2>3
<1>7. CASE EnterSelect \/ SelectResult \/ CommitDone \/ JoinRead \/ Return
  BY <1>7 DEF EnterSelect, SelectResult, CommitDone, JoinRead, Return
<1>8. CASE ReaderReturns \/ WatcherCloses \/ Interrupt \/ UNCHANGED vars
  BY <1>8 DEF ReaderReturns, WatcherCloses, Interrupt, vars
<1>9. ASSUME NEW w \in Workers, TakeJob(w) \/ ExitWorker(w)
      PROVE  [Promise!Next]_(Promise!vars)
  BY <1>9 DEF TakeJob, ExitWorker
<1>. QED BY <1>2, <1>3, <1>4, <1>5, <1>6, <1>7, <1>8, <1>9
         DEF Next, Coordinator, Finished, WorkerStep

\* stdout only ever grows by the next record in input order, each record
\* settles once, and the verdict is justified by what was written: the
\* goroutines, channels and buffers of processMapStream cannot be seen.
THEOREM KeepsItsPromise == Spec => ImplementsOrderedStream
<1>. QED BY PromiseStarts, PromiseStep, PromiseInvariant, PTL
         DEF Spec, ImplementsOrderedStream, Promise!Spec

==============================================================================
