----------------------------- MODULE TraceProofs -----------------------------
(***************************************************************************)
(* Proofs about the trace of a record stream: the stream's calls are calls *)
(* of trace.Config in some order (TracedStream implements TraceSpec), and  *)
(* whoever makes the calls, in whatever order, detail stays within the     *)
(* budget, the notice is given once, and nothing is dropped without it.    *)
(***************************************************************************)
EXTENDS TracedStream, FiniteSetTheorems, TLAPS

\* Detail lines are paid for by reservations.
WithinBudget ==
  /\ events <= Budget
  /\ Cardinality(DetailLines) <= IF enabled THEN events ELSE 0

\* The flag tells whether the notice has been written.
NoticeFlag ==
  /\ suppressed <=> \E k \in 1 .. Len(lines) : lines[k].event = Notice
  /\ dropped => suppressed

TraceInv == TraceTypeOK /\ WithinBudget /\ NoticeFlag /\ SuppressedOnce

LEMMA DisjointNames == Notice \notin Names /\ Terminal \cap Detail = {}
BY DEF Notice, Names, Terminal, Detail

LEMMA DetailLinesFinite ==
  ASSUME lines \in Seq(Line)
  PROVE  IsFiniteSet(DetailLines) /\ Cardinality(DetailLines) \in Nat
<1>1. Len(lines) \in Nat
  OBVIOUS
<1>2. IsFiniteSet(1 .. Len(lines))
  BY <1>1, FS_Interval
<1>3. DetailLines \in SUBSET (1 .. Len(lines))
  BY DEF DetailLines
<1> QED
  BY <1>2, <1>3, FS_Subset, FS_CardinalityType

\* What writing one line does to the lines before it.
LEMMA Writing ==
  ASSUME lines \in Seq(Line),
         NEW name \in Names \cup {Notice}, NEW index \in Nat, Write(name, index)
  PROVE  /\ lines' \in Seq(Line)
         /\ Len(lines') = Len(lines) + 1
         /\ lines'[Len(lines) + 1].event = name
         /\ \A k \in 1 .. Len(lines) : lines'[k] = lines[k]
<1>1. [event |-> name, index |-> index] \in Line
  BY DEF Line
<1> QED
  BY <1>1 DEF Write

LEMMA WritingDetail ==
  ASSUME lines \in Seq(Line), NEW name \in Detail, NEW index \in Nat, Write(name, index)
  PROVE  Cardinality(DetailLines)' = Cardinality(DetailLines) + 1
<1>1. name \in Names
  BY DEF Names
<1>2. DetailLines' = DetailLines \cup {Len(lines) + 1}
  BY <1>1, Writing DEF DetailLines
<1>3. Len(lines) + 1 \notin DetailLines
  BY DEF DetailLines
<1> QED
  BY <1>2, <1>3, DetailLinesFinite, FS_AddElement

LEMMA WritingOther ==
  ASSUME lines \in Seq(Line), NEW name \in Terminal \cup {Notice}, NEW index \in Nat,
         Write(name, index)
  PROVE  DetailLines' = DetailLines
<1>1. name \in Names \cup {Notice} /\ name \notin Detail
  BY DEF Names, Terminal, Notice, Detail
<1>2. Len(lines) \in Nat
  OBVIOUS
<1>3. /\ Len(lines') = Len(lines) + 1
      /\ lines'[Len(lines) + 1].event = name
      /\ \A k \in 1 .. Len(lines) : lines'[k] = lines[k]
  BY <1>1, Writing
<1>4. \A k \in 1 .. Len(lines') :
        lines'[k].event \in Detail <=> k \in 1 .. Len(lines) /\ lines[k].event \in Detail
  BY <1>1, <1>2, <1>3
<1> QED
  BY <1>2, <1>3, <1>4 DEF DetailLines

\* A line that is not the notice leaves the notices as they were.
LEMMA WritingName ==
  ASSUME TraceTypeOK, NoticeFlag, SuppressedOnce,
         NEW name \in Names, NEW index \in Nat, Write(name, index),
         UNCHANGED <<suppressed, dropped>>
  PROVE  NoticeFlag' /\ SuppressedOnce'
<1>1. name # Notice
  BY DisjointNames
<1>2. lines \in Seq(Line)
  BY DEF TraceTypeOK
<1>3. /\ Len(lines) \in Nat
      /\ Len(lines') = Len(lines) + 1
      /\ lines'[Len(lines) + 1].event = name
      /\ \A k \in 1 .. Len(lines) : lines'[k] = lines[k]
  BY <1>2, Writing
<1>4. \A k \in 1 .. Len(lines') :
        lines'[k].event = Notice <=> k \in 1 .. Len(lines) /\ lines[k].event = Notice
  BY <1>1, <1>3
<1>5. SuppressedOnce'
  BY <1>4 DEF SuppressedOnce
<1>6. (\E k \in 1 .. Len(lines') : lines'[k].event = Notice)
        <=> \E k \in 1 .. Len(lines) : lines[k].event = Notice
  BY <1>3, <1>4
<1>7. NoticeFlag'
  BY <1>6 DEF NoticeFlag
<1> QED
  BY <1>5, <1>7

\* Dropping an event, with the notice in its place the first time.
LEMMA SuppressKeeps ==
  ASSUME TraceInv, NEW reserved \in Nat, events <= reserved, reserved <= Budget,
         Suppress(reserved), UNCHANGED enabled
  PROVE  TraceInv'
<1>1. lines \in Seq(Line) /\ events \in Nat
  BY DEF TraceInv, TraceTypeOK
<1>2. events' = reserved /\ suppressed' = TRUE /\ dropped' = (dropped \/ enabled)
  BY DEF Suppress
<1>3. dropped' \in BOOLEAN /\ enabled' \in BOOLEAN
  BY <1>2 DEF TraceInv, TraceTypeOK
<1>4. CASE suppressed
  <2>1. lines' = lines
    BY <1>4 DEF Suppress
  <2>2. Cardinality(DetailLines)' = Cardinality(DetailLines)
    BY <2>1 DEF DetailLines
  <2>3. WithinBudget'
    BY <1>1, <1>2, <2>2, DetailLinesFinite, TraceAssumption DEF TraceInv, WithinBudget
  <2>4. NoticeFlag' /\ SuppressedOnce'
    BY <1>2, <1>4, <2>1 DEF TraceInv, NoticeFlag, SuppressedOnce
  <2>5. TraceTypeOK'
    BY <1>1, <1>2, <1>3, <2>1 DEF TraceTypeOK
  <2> QED
    BY <2>3, <2>4, <2>5 DEF TraceInv
<1>5. CASE ~suppressed
  <2>1. Write(Notice, 0)
    BY <1>5 DEF Suppress
  <2>2. Cardinality(DetailLines)' = Cardinality(DetailLines)
    BY <1>1, <2>1, WritingOther
  <2>3. WithinBudget'
    BY <1>1, <1>2, <2>2, DetailLinesFinite, TraceAssumption DEF TraceInv, WithinBudget
  <2>3a. Len(lines) \in Nat
    BY <1>1
  <2>4. /\ lines' \in Seq(Line)
        /\ Len(lines') = Len(lines) + 1
        /\ lines'[Len(lines) + 1].event = Notice
        /\ \A k \in 1 .. Len(lines) : lines'[k] = lines[k]
    BY <1>1, <2>1, Writing
  <2>5. \A k \in 1 .. Len(lines) : lines[k].event # Notice
    BY <1>5 DEF TraceInv, NoticeFlag
  <2>6. NoticeFlag'
    BY <1>2, <2>3a, <2>4 DEF NoticeFlag
  <2>7. SuppressedOnce'
    BY <2>4, <2>3a, <2>5 DEF SuppressedOnce
  <2>8. TraceTypeOK'
    BY <1>2, <1>3, <2>4 DEF TraceTypeOK
  <2> QED
    BY <2>3, <2>6, <2>7, <2>8 DEF TraceInv
<1> QED
  BY <1>4, <1>5

LEMMA ReserveKeeps ==
  ASSUME TraceInv, enabled, NEW reserved \in Nat, events <= reserved, reserved <= Budget,
         NEW name \in Names, NEW index \in Nat, Reserve(reserved, name, index),
         UNCHANGED enabled
  PROVE  TraceInv'
<1>1. lines \in Seq(Line) /\ events \in Nat
  BY DEF TraceInv, TraceTypeOK
<1>2. CASE name \in Detail /\ reserved >= Budget
  <2>1. name \notin Terminal
    BY <1>2, DisjointNames
  <2>2. ~(reserved < Budget)
    BY <1>2, TraceAssumption
  <2>3. Suppress(reserved)
    BY <2>1, <2>2 DEF Reserve
  <2> QED
    BY <2>3, SuppressKeeps
<1>3. CASE /\ Write(name, index)
           /\ UNCHANGED <<suppressed, dropped>>
           /\ \/ name \in Terminal /\ events' = reserved
              \/ name \in Detail /\ reserved < Budget /\ events' = reserved + 1
  <2>1. events' \in Nat /\ events' <= Budget
    BY <1>3, TraceAssumption
  <2>2. lines' \in Seq(Line)
    BY <1>1, <1>3, Writing
  <2>3. suppressed' \in BOOLEAN
    BY <1>3 DEF TraceInv, TraceTypeOK
  <2>4. dropped' \in BOOLEAN /\ enabled' \in BOOLEAN
    BY <1>3 DEF TraceInv, TraceTypeOK
  <2>5. TraceTypeOK'
    BY <2>1, <2>2, <2>3, <2>4 DEF TraceTypeOK
  <2>6. NoticeFlag' /\ SuppressedOnce'
    BY <1>3, WritingName DEF TraceInv
  <2>7. Cardinality(DetailLines) \in Nat /\ Cardinality(DetailLines) <= events
    BY <1>1, DetailLinesFinite DEF TraceInv, WithinBudget
  <2>8. Cardinality(DetailLines)' <= events'
    <3>1. CASE name \in Terminal /\ events' = reserved
      BY <1>1, <1>3, <2>7, <3>1, WritingOther
    <3>2. CASE name \in Detail /\ events' = reserved + 1
      BY <1>1, <1>3, <2>7, <3>2, WritingDetail
    <3> QED
      BY <1>3, <3>1, <3>2
  <2>9. WithinBudget'
    BY <2>1, <2>8 DEF WithinBudget
  <2> QED
    BY <2>5, <2>6, <2>9 DEF TraceInv
<1> QED
  BY <1>2, <1>3 DEF Reserve

LEMMA UnchangedKeeps == TraceInv /\ UNCHANGED traceVars => TraceInv'
BY DEF TraceInv, TraceTypeOK, WithinBudget, NoticeFlag, SuppressedOnce, DetailLines, traceVars

LEMMA EmitKeeps ==
  ASSUME TraceInv, NEW name \in Names, NEW index \in Nat, Emit(name, index)
  PROVE  TraceInv'
<1>1. events \in Nat /\ events <= Budget
  BY DEF TraceInv, TraceTypeOK, WithinBudget
<1> QED
  BY <1>1, ReserveKeeps, UnchangedKeeps DEF Emit

LEMMA EmitOperationKeeps ==
  ASSUME TraceInv, NEW name \in Names, NEW index \in Nat, EmitOperation(name, index)
  PROVE  TraceInv'
<1>1. events \in Nat /\ events <= Budget
  BY DEF TraceInv, TraceTypeOK, WithinBudget
<1>2. CASE Emit(name, index)
  BY <1>2, EmitKeeps
<1>3. CASE Suppress(events) /\ UNCHANGED enabled
  BY <1>1, <1>3, SuppressKeeps
<1>4. CASE /\ events < OperationBudget /\ enabled /\ UNCHANGED enabled
           /\ Reserve(events + 1, name, index)
  <2>1. events + 1 \in Nat /\ events <= events + 1 /\ events + 1 <= Budget
    BY <1>1, <1>4, TraceAssumption
  <2> QED
    BY <1>4, <2>1, ReserveKeeps
<1>5. CASE /\ events < OperationBudget /\ ~enabled /\ UNCHANGED enabled
           /\ events' = events + 1 /\ UNCHANGED <<suppressed, lines, dropped>>
  <2>1. events' \in Nat /\ events' <= Budget
    BY <1>1, <1>5, TraceAssumption
  <2>2. WithinBudget'
    BY <1>5, <2>1 DEF TraceInv, WithinBudget, DetailLines
  <2>3. NoticeFlag' /\ SuppressedOnce'
    BY <1>5 DEF TraceInv, NoticeFlag, SuppressedOnce
  <2>4. suppressed' \in BOOLEAN
    BY <1>5 DEF TraceInv, TraceTypeOK
  <2>5. dropped' \in BOOLEAN /\ enabled' \in BOOLEAN
    BY <1>5 DEF TraceInv, TraceTypeOK
  <2>6. TraceTypeOK'
    BY <1>5, <2>1, <2>4, <2>5 DEF TraceInv, TraceTypeOK
  <2> QED
    BY <2>2, <2>3, <2>6 DEF TraceInv
<1> QED
  BY <1>2, <1>3, <1>4, <1>5 DEF EmitOperation

LEMMA TraceInitInv == TraceInit => TraceInv
<1> SUFFICES ASSUME TraceInit PROVE TraceInv
  OBVIOUS
<1>1. TraceTypeOK
  <2>1. suppressed \in BOOLEAN
    BY DEF TraceInit
  <2>2. dropped \in BOOLEAN
    BY DEF TraceInit
  <2> QED
    BY <2>1, <2>2 DEF TraceInit, TraceTypeOK
<1>2. DetailLines = {}
  BY DEF TraceInit, DetailLines
<1>3. WithinBudget
  BY <1>2, FS_EmptySet, TraceAssumption DEF TraceInit, WithinBudget
<1>4. NoticeFlag /\ SuppressedOnce
  BY DEF TraceInit, NoticeFlag, SuppressedOnce
<1> QED
  BY <1>1, <1>3, <1>4 DEF TraceInv

LEMMA TraceInvariant == TraceSpec => []TraceInv
<1>1. TraceInv /\ [TraceNext]_traceVars => TraceInv'
  BY EmitKeeps, EmitOperationKeeps, UnchangedKeeps DEF TraceNext
<1> QED
  BY <1>1, TraceInitInv, PTL DEF TraceSpec

------------------------------------------------------------------------------
(* The stream's calls are calls of the trace.                              *)

Calls == [operation : BOOLEAN, event : Names, index : Nat]

CallTypes ==
  /\ accepted \in Nat
  /\ emitted \in Nat
  /\ owed \in Seq(Calls)

LEMMA CallForms ==
  /\ Summary \in Calls
  /\ \A name \in Names : Root(name) \in Calls
  /\ \A name \in Names, index \in Nat : Op(name, index) \in Calls
BY DEF Summary, Root, Op, Calls, Names, Terminal

LEMMA ClosingType ==
  ASSUME emitted \in Nat
  PROVE  \A v : Closing(v) \in Seq(Calls)
<1>1. /\ Op("run.failed", emitted + 1) \in Calls
      /\ Summary \in Calls
      /\ Root("operation.completed") \in Calls
      /\ Root("output.written") \in Calls
      /\ Root("run.completed") \in Calls
      /\ Root("run.failed") \in Calls
  BY CallForms DEF Names, Detail, Terminal
<1>2. <<Op("run.failed", emitted + 1)>> \in Seq(Calls) /\ <<Summary>> \in Seq(Calls)
  BY <1>1
<1>3. <<Root("operation.completed"), Root("output.written"), Root("run.completed")>>
        \in Seq(Calls)
  BY <1>1
<1>4. <<Root("run.failed")>> \in Seq(Calls) /\ <<>> \in Seq(Calls)
  BY <1>1
<1> QED
  BY <1>2, <1>3, <1>4 DEF Closing

LEMMA InitCallTypes == Init => CallTypes
<1>1. /\ Root("run.started") \in Calls
      /\ Root("operation.started") \in Calls
      /\ Root("preflight.completed") \in Calls
  BY CallForms DEF Names, Detail
<1> QED
  BY <1>1 DEF Init, Stream!Init, CallTypes

LEMMA StepCallTypes == CallTypes /\ [Next]_vars => CallTypes'
<1> SUFFICES ASSUME CallTypes, [Next]_vars PROVE CallTypes'
  OBVIOUS
<1> USE DEF CallTypes
<1>1. CASE Dispatch
  <2>1. Op("operation.started", accepted + 1) \in Calls
    BY CallForms DEF Names, Detail
  <2> QED
    BY <1>1, <2>1 DEF Dispatch, Stream!Accept
<1>2. CASE Commit
  <2>1. emitted + 1 \in Nat
    OBVIOUS
  <2>2. Op("operation.completed", emitted + 1) \in Calls
    BY <2>1, CallForms DEF Names, Detail
  <2>3. Op("output.written", emitted + 1) \in Calls
    BY <2>1, CallForms DEF Names, Detail
  <2> QED
    BY <1>2, <2>2, <2>3 DEF Commit, Stream!Emit
<1>3. CASE Conclude
  BY <1>3, ClosingType DEF Conclude, Stream!Conclude
<1>4. CASE Pay
  BY <1>4 DEF Pay, Quiet, streamVars
<1>5. CASE EndInput
  BY <1>5 DEF EndInput, Stream!End
<1>6. CASE Settle
  BY <1>6 DEF Settle, Stream!Settle
<1>7. CASE \E i \in Stream!Index : Observe(i)
  BY <1>7 DEF Observe, streamVars
<1>8. CASE UNCHANGED vars
  BY <1>8 DEF vars, streamVars
<1> QED
  BY <1>1, <1>2, <1>3, <1>4, <1>5, <1>6, <1>7, <1>8 DEF Next, Finished

LEMMA StepIsTraceStep == CallTypes /\ [Next]_vars => [TraceNext]_traceVars
<1> SUFFICES ASSUME CallTypes, Next PROVE TraceNext \/ UNCHANGED traceVars
  BY DEF vars, traceVars
<1>1. CASE Pay
  <2>1. Head(owed) \in Calls
    BY <1>1 DEF CallTypes, Pay, Quiet
  <2>2. Head(owed).event \in Names /\ Head(owed).index \in Nat
    BY <2>1 DEF Calls
  <2>3. \/ EmitOperation(Head(owed).event, Head(owed).index)
        \/ Emit(Head(owed).event, Head(owed).index)
    BY <1>1 DEF Pay
  <2> QED
    BY <2>2, <2>3 DEF TraceNext
<1>2. ASSUME NEW i \in Stream!Index, Observe(i)
      PROVE  TraceNext
  <2>1. i + 1 \in Nat
    BY DEF Stream!Index
  <2>2. {"request.attempted", "request.retrying"} \subseteq Names
    BY DEF Names, Detail
  <2>3. Emit(IF calls[i] % 2 = 0 THEN "request.attempted" ELSE "request.retrying", i + 1)
    BY <1>2 DEF Observe
  <2> QED
    BY <2>1, <2>2, <2>3 DEF TraceNext
<1>3. CASE Dispatch \/ Commit \/ EndInput \/ Conclude \/ Settle \/ Finished
  BY <1>3 DEF Dispatch, Commit, EndInput, Conclude, Settle, Finished, vars
<1> QED
  BY <1>1, <1>2, <1>3 DEF Next

\* Whatever the stream, its workers and the client do, and in whatever order,
\* the trace only ever sees calls of its own interface.
THEOREM StreamTraces == Spec => TraceSpec
<1>1. Init => TraceInit
  BY DEF Init
<1>2. Spec => []CallTypes
  BY InitCallTypes, StepCallTypes, PTL DEF Spec
<1> QED
  BY <1>1, <1>2, StepIsTraceStep, PTL DEF Spec, TraceSpec

\* The trace of a run of any length stays within its budget, and is empty of
\* detail when it is not enabled.
THEOREM BoundedDetail == Spec => []DetailBounded
<1>1. TraceInv => DetailBounded
  <2> SUFFICES ASSUME TraceInv PROVE DetailBounded
    OBVIOUS
  <2>1. Cardinality(DetailLines) \in Nat
    BY DetailLinesFinite DEF TraceInv, TraceTypeOK
  <2> QED
    BY <2>1, TraceAssumption DEF TraceInv, TraceTypeOK, WithinBudget, DetailBounded
<1> QED
  BY <1>1, StreamTraces, TraceInvariant, PTL

\* The notice is written once, by whichever goroutine crosses the bound.
THEOREM OneNotice == Spec => []SuppressedOnce
<1>1. TraceInv => SuppressedOnce
  BY DEF TraceInv
<1> QED
  BY <1>1, StreamTraces, TraceInvariant, PTL

\* A trace that dropped an event says so.
THEOREM NoSilentDrop == Spec => []DropsAnnounced
<1>1. TraceInv => DropsAnnounced
  BY DEF TraceInv, NoticeFlag, DropsAnnounced
<1> QED
  BY <1>1, StreamTraces, TraceInvariant, PTL

------------------------------------------------------------------------------
(* The end of the trace.                                                    *)

\* The command's own last calls, and the summary before them.
LastCalls(v) ==
  IF v = "ok" THEN <<Root("operation.completed"), Root("output.written"), Root("run.completed")>>
              ELSE <<Root("run.failed")>>

FromSummary(v) == (IF accepted > 0 THEN <<Summary>> ELSE <<>>) \o LastCalls(v)

\* Some line but the last says so.
Says(line) == \E k \in 1 .. Len(lines) : lines[k] = line

FailureTraced == Written("run.failed") = IF verdict = "record" THEN {emitted + 1} ELSE {}
SummaryTraced == accepted > 0 => Says([event |-> "run.completed", index |-> 0])
AllSettled    == \A i \in 0 .. accepted - 1 : outcome[i] # "none"

\* How far an enabled trace has got with its end.
AtFailure == owed = Closing(verdict) /\ Written("run.failed") = {}
AtSummary == owed = FromSummary(verdict) /\ FailureTraced
AtLast ==
  /\ FailureTraced /\ SummaryTraced /\ AllSettled
  /\ \/ owed = LastCalls(verdict)
     \/ verdict = "ok" /\ owed = <<Root("output.written"), Root("run.completed")>>
     \/ verdict = "ok" /\ owed = <<Root("run.completed")>>
AtEnd ==
  /\ owed = <<>>
  /\ FailureTraced /\ AllSettled
  /\ Len(lines) > 0
  /\ lines[Len(lines)].event = (IF verdict = "ok" THEN "run.completed" ELSE "run.failed")
  /\ accepted > 0 => \E k \in 1 .. Len(lines) - 1 : lines[k] = [event |-> "run.completed", index |-> 0]

Ending ==
  enabled =>
    IF verdict = "none"
    THEN Written("run.failed") = {} /\ \A k \in 1 .. Len(owed) : owed[k].event \in Detail
    ELSE AtFailure \/ AtSummary \/ AtLast \/ AtEnd

\* What a sequence of calls begins with and goes on with.
LEMMA Cons == ASSUME NEW S, NEW e \in S, NEW rest \in Seq(S)
              PROVE  /\ <<e>> \o rest # <<>>
                     /\ Head(<<e>> \o rest) = e
                     /\ Tail(<<e>> \o rest) = rest
                     /\ <<>> \o rest = rest
OBVIOUS

LEMMA Tails == \A a, b, c : Tail(<<a, b, c>>) = <<b, c>> /\ Tail(<<a, b>>) = <<b>>
OBVIOUS

LEMMA EndCalls ==
  /\ Op("run.failed", emitted + 1) # Summary
  /\ \A v : LastCalls(v) \in Seq(Calls)
  /\ \A v : FromSummary(v) \in Seq(Calls)
<1>1. /\ Summary \in Calls
      /\ Root("operation.completed") \in Calls
      /\ Root("output.written") \in Calls
      /\ Root("run.completed") \in Calls
      /\ Root("run.failed") \in Calls
  BY CallForms DEF Names, Detail, Terminal
<1>2. \A v : LastCalls(v) \in Seq(Calls)
  BY <1>1 DEF LastCalls
<1>3. <<Summary>> \in Seq(Calls) /\ <<>> \in Seq(Calls)
  BY <1>1
<1>4. \A v : FromSummary(v) \in Seq(Calls)
  BY <1>2, <1>3 DEF FromSummary
<1>. QED BY <1>2, <1>4 DEF Op, Summary

\* The closing calls, one after the other.
LEMMA ClosingCalls ==
  ASSUME emitted \in Nat, NEW v
  PROVE  /\ v # "record" => Closing(v) = FromSummary(v)
         /\ v = "record" => /\ Closing(v) # <<>>
                            /\ Head(Closing(v)) = Op("run.failed", emitted + 1)
                            /\ Tail(Closing(v)) = FromSummary(v)
         /\ accepted > 0 => /\ FromSummary(v) # <<>>
                            /\ Head(FromSummary(v)) = Summary
                            /\ Tail(FromSummary(v)) = LastCalls(v)
         /\ ~(accepted > 0) => FromSummary(v) = LastCalls(v)
<1> DEFINE failure == Op("run.failed", emitted + 1)
           middle  == IF accepted > 0 THEN <<Summary>> ELSE <<>>
           last    == LastCalls(v)
<1>1. failure \in Calls /\ Summary \in Calls
  BY CallForms DEF Names, Detail, Terminal
<1>2. last \in Seq(Calls) /\ middle \in Seq(Calls) /\ FromSummary(v) = middle \o last
  BY <1>1, EndCalls DEF FromSummary
<1>3. Closing(v) = (IF v = "record" THEN <<failure>> ELSE <<>>) \o middle \o last
  BY DEF Closing, LastCalls
<1> HIDE DEF failure, last
<1>4. /\ accepted > 0 => /\ FromSummary(v) # <<>>
                        /\ Head(FromSummary(v)) = Summary
                        /\ Tail(FromSummary(v)) = last
      /\ ~(accepted > 0) => FromSummary(v) = last
  <2>1. CASE accepted > 0
    <3>1. FromSummary(v) = <<Summary>> \o last
      BY <1>2, <2>1
    <3>. QED BY <1>1, <1>2, <2>1, <3>1, Cons
  <2>2. CASE ~(accepted > 0)
    <3>1. FromSummary(v) = <<>> \o last
      BY <1>2, <2>2
    <3>. QED BY <1>1, <1>2, <2>2, <3>1, Cons
  <2>. QED BY <2>1, <2>2
<1>5. middle \o last \in Seq(Calls) /\ FromSummary(v) = middle \o last
  BY <1>2
<1> HIDE DEF middle
<1>6. v = "record" => /\ Closing(v) # <<>>
                      /\ Head(Closing(v)) = failure
                      /\ Tail(Closing(v)) = FromSummary(v)
  <2> DEFINE rest == middle \o last
  <2>1. /\ <<failure>> \o rest # <<>>
        /\ Head(<<failure>> \o rest) = failure
        /\ Tail(<<failure>> \o rest) = rest
    BY <1>1, <1>5, Cons
  <2>2. <<failure>> \o middle \o last = <<failure>> \o rest
    BY <1>1, <1>2
  <2>3. v = "record" => Closing(v) = <<failure>> \o middle \o last
    BY <1>3
  <2> HIDE DEF rest
  <2>4. FromSummary(v) = rest
    BY <1>5 DEF rest
  <2>. QED BY <2>1, <2>2, <2>3, <2>4
<1>7. v # "record" => Closing(v) = FromSummary(v)
  <2>1. SUFFICES ASSUME v # "record" PROVE Closing(v) = FromSummary(v)
    OBVIOUS
  <2>2. Closing(v) = <<>> \o middle \o last
    BY <1>3, <2>1
  <2>3. <<>> \o middle \o last = middle \o last
    BY <1>2
  <2>. QED BY <1>5, <2>2, <2>3
<1>. QED BY <1>4, <1>6, <1>7 DEF last, failure

\* What a line written does to the records a name was written for, and to the
\* lines there are.
LEMMA WrittenIs ==
  \A name, n : n \in Written(name) <=>
    n # 0 /\ \E k \in 1 .. Len(lines) : lines[k].event = name /\ lines[k].index = n
BY DEF Written

LEMMA WritingAdds ==
  ASSUME lines \in Seq(Line), NEW name \in Names \cup {Notice}, NEW index \in Nat,
         Write(name, index), NEW other
  PROVE  Written(other)' = Written(other)
           \cup (IF name = other /\ index # 0 THEN {index} ELSE {})
<1>1. /\ Len(lines) \in Nat
      /\ Len(lines') = Len(lines) + 1
      /\ lines'[Len(lines) + 1].event = name
      /\ \A k \in 1 .. Len(lines) : lines'[k] = lines[k]
  BY Writing
<1>2. lines'[Len(lines) + 1].index = index
  BY DEF Write, Line
<1>3. \A n : n \in Written(other)' <=>
        n # 0 /\ \E k \in 1 .. Len(lines') : lines'[k].event = other /\ lines'[k].index = n
  BY DEF Written
<1>4. \A n : (\E k \in 1 .. Len(lines') : lines'[k].event = other /\ lines'[k].index = n)
          <=> \/ \E k \in 1 .. Len(lines) : lines[k].event = other /\ lines[k].index = n
              \/ name = other /\ index = n
  BY <1>1, <1>2
<1>. QED BY <1>3, <1>4, WrittenIs

LEMMA WritingSays ==
  ASSUME lines \in Seq(Line), NEW name \in Names \cup {Notice}, NEW index \in Nat, Write(name, index)
  PROVE  /\ \A line : Says(line) => Says(line)'
         /\ Says([event |-> name, index |-> index])'
         /\ \A line : Says(line) => \E k \in 1 .. Len(lines') - 1 : lines'[k] = line
         /\ Len(lines') > 0 /\ lines'[Len(lines')].event = name
<1>1. /\ Len(lines) \in Nat
      /\ Len(lines') = Len(lines) + 1
      /\ lines'[Len(lines) + 1].event = name
      /\ \A k \in 1 .. Len(lines) : lines'[k] = lines[k]
  BY Writing
<1>2. lines'[Len(lines) + 1] = [event |-> name, index |-> index]
  BY DEF Write, Line
<1>. QED BY <1>1, <1>2 DEF Says

\* A call of an enabled trace writes its line, the notice or nothing; and a
\* terminal one always writes its line.
LEMMA CallWrites ==
  ASSUME enabled, NEW name \in Names, NEW index \in Nat,
         Emit(name, index) \/ EmitOperation(name, index)
  PROVE  /\ enabled' = enabled
         /\ lines' = lines \/ Write(Notice, 0) \/ Write(name, index)
         /\ name \in Terminal => Write(name, index)
<1>1. name \in Terminal => name # "operation.started" /\ name \notin Detail
  BY DisjointNames DEF Terminal, Detail
<1>2. CASE Emit(name, index)
  BY <1>1, <1>2 DEF Emit, Reserve, Suppress
<1>3. CASE EmitOperation(name, index)
  BY <1>1, <1>3 DEF EmitOperation, Emit, Reserve, Suppress
<1>. QED BY <1>2, <1>3

\* A call that is not a failure's leaves the failures traced as they were.
LEMMA OtherCalls ==
  ASSUME enabled, lines \in Seq(Line), NEW name \in Names, NEW index \in Nat,
         Emit(name, index) \/ EmitOperation(name, index),
         name # "run.failed" \/ index = 0
  PROVE  /\ Written("run.failed")' = Written("run.failed")
         /\ \A line : Says(line) => Says(line)'
<1>1. lines' = lines \/ Write(Notice, 0) \/ Write(name, index)
  BY CallWrites
<1>2. CASE lines' = lines
  BY <1>2 DEF Written, Says
<1>3. CASE Write(Notice, 0)
  BY <1>3, WritingAdds, WritingSays DEF Notice
<1>4. CASE Write(name, index)
  BY <1>4, WritingAdds, WritingSays
<1>. QED BY <1>1, <1>2, <1>3, <1>4

LEMMA EndingInit == Init => Ending
<1> SUFFICES ASSUME Init PROVE Ending
  OBVIOUS
<1>1. verdict = "none" /\ Written("run.failed") = {}
  BY DEF Init, Stream!Init, TraceInit, Written
<1>2. \A k \in 1 .. Len(owed) : owed[k].event \in Detail
  <2>1. owed = <<Root("run.started"), Root("operation.started"), Root("preflight.completed")>>
    BY DEF Init
  <2>2. /\ Root("run.started").event \in Detail
        /\ Root("operation.started").event \in Detail
        /\ Root("preflight.completed").event \in Detail
    BY DEF Root, Detail
  <2>. QED BY <2>1, <2>2
<1>. QED BY <1>1, <1>2 DEF Ending

\* Where the end of the trace is, counting a call that is not owed as made.
LEMMA EndPlaces ==
  ASSUME CallTypes, Ending, enabled, verdict # "none"
  PROVE  \/ AtFailure /\ verdict = "record"
         \/ AtSummary /\ accepted > 0
         \/ AtLast
         \/ AtEnd
<1>1. AtFailure \/ AtSummary \/ AtLast \/ AtEnd
  BY DEF Ending
<1>2. AtFailure /\ verdict # "record" => AtSummary
  BY ClosingCalls DEF AtFailure, AtSummary, FailureTraced, CallTypes
<1>3. AtSummary /\ ~(accepted > 0) => AtLast
  BY ClosingCalls DEF AtSummary, AtLast, SummaryTraced, AllSettled, CallTypes
<1>. QED BY <1>1, <1>2, <1>3

\* The coordinator makes the next call it owes.
LEMMA PayEnding ==
  ASSUME TraceTypeOK, CallTypes, Ending, enabled, Pay
  PROVE  Ending'
<1> DEFINE call == Head(owed)
<1>1. /\ lines \in Seq(Line)
      /\ accepted' = accepted /\ emitted' = emitted /\ outcome' = outcome /\ verdict' = verdict
      /\ owed # <<>> /\ owed' = Tail(owed)
  BY DEF TraceTypeOK, Pay, Quiet, streamVars
<1>2. call \in Calls
  BY <1>1 DEF CallTypes
<1>3. /\ call.event \in Names /\ call.index \in Nat
      /\ Emit(call.event, call.index) \/ EmitOperation(call.event, call.index)
  BY <1>2 DEF Calls, Pay
<1>4. call.event # "run.failed" \/ call.index = 0 =>
        Written("run.failed")' = Written("run.failed") /\ \A line : Says(line) => Says(line)'
  BY <1>1, <1>3, OtherCalls
<1>5. call.event \in Terminal => Write(call.event, call.index)
  BY <1>3, CallWrites
<1>6. CASE verdict = "none"
  <2>1. call.event \in Detail
    BY <1>1, <1>6 DEF Ending, CallTypes
  <2>2. Written("run.failed")' = {}
    BY <1>4, <1>6, <2>1 DEF Ending, Detail
  <2>3. \A k \in 1 .. Len(owed') : owed'[k].event \in Detail
    BY <1>1, <1>6 DEF Ending, CallTypes
  <2>. QED BY <1>1, <1>6, <2>2, <2>3 DEF Ending
<1>7. CASE verdict # "none" /\ AtFailure /\ verdict = "record"
  <2>1. call = Op("run.failed", emitted + 1) /\ owed' = FromSummary(verdict)
    BY <1>1, <1>7, ClosingCalls DEF AtFailure, CallTypes
  <2>2. call.event = "run.failed" /\ call.index = emitted + 1
    BY <2>1 DEF Op
  <2>3. Write("run.failed", emitted + 1)
    BY <1>5, <2>2 DEF Terminal
  <2>4. emitted + 1 \in Nat /\ emitted + 1 # 0
    BY DEF CallTypes
  <2>5. Written("run.failed")' = {emitted + 1}
    BY <1>1, <1>7, <2>3, <2>4, WritingAdds DEF AtFailure, Names, Terminal
  <2>6. AtSummary'
    BY <1>1, <1>7, <2>1, <2>5 DEF AtSummary, FailureTraced, FromSummary
  <2>. QED BY <1>1, <1>7, <2>6 DEF Ending
<1>8. CASE verdict # "none" /\ AtSummary /\ accepted > 0
  <2>1. call = Summary /\ owed' = LastCalls(verdict)
    BY <1>1, <1>8, ClosingCalls DEF AtSummary, CallTypes
  <2>2. call.event = "run.completed" /\ call.index = 0
    BY <2>1 DEF Summary
  <2>3. AllSettled
    BY <1>8, <2>1 DEF Pay, AllSettled
  <2>4. Write("run.completed", 0)
    BY <1>5, <2>2 DEF Terminal
  <2>5. Says([event |-> "run.completed", index |-> 0])'
    BY <1>1, <2>4, WritingSays DEF Names, Terminal
  <2>6. FailureTraced'
    BY <1>1, <1>4, <1>8, <2>2 DEF AtSummary, FailureTraced
  <2>7. AtLast'
    BY <1>1, <2>1, <2>3, <2>5, <2>6 DEF AtLast, SummaryTraced, AllSettled, LastCalls
  <2>. QED BY <1>1, <1>8, <2>7 DEF Ending
<1>9. CASE verdict # "none" /\ AtLast
  <2>1. CASE /\ verdict = "ok"
             /\ \/ owed = <<Root("operation.completed"), Root("output.written"), Root("run.completed")>>
                \/ owed = <<Root("output.written"), Root("run.completed")>>
    <3>1. call \in {Root("operation.completed"), Root("output.written")}
      BY <2>1
    <3>2. call.index = 0
      BY <3>1 DEF Root
    <3>3. FailureTraced' /\ SummaryTraced' /\ AllSettled'
      BY <1>1, <1>4, <1>9, <3>2 DEF AtLast, FailureTraced, SummaryTraced, AllSettled
    <3>4. \/ owed' = <<Root("output.written"), Root("run.completed")>>
          \/ owed' = <<Root("run.completed")>>
      <4>1. CASE owed = <<Root("operation.completed"), Root("output.written"), Root("run.completed")>>
        BY <1>1, <4>1, Tails, Zenon
      <4>2. CASE owed = <<Root("output.written"), Root("run.completed")>>
        BY <1>1, <4>2, Tails, Zenon
      <4>. QED BY <2>1, <4>1, <4>2
    <3>5. AtLast'
      BY <1>1, <2>1, <3>3, <3>4 DEF AtLast
    <3>. QED BY <1>1, <1>9, <3>5 DEF Ending
  <2>2. CASE \/ verdict = "ok" /\ owed = <<Root("run.completed")>>
             \/ verdict # "ok" /\ owed = <<Root("run.failed")>>
    <3>1. /\ call.event = (IF verdict = "ok" THEN "run.completed" ELSE "run.failed")
          /\ call.index = 0
      BY <2>2 DEF Root
    <3>2. Write(call.event, 0)
      BY <1>5, <3>1 DEF Terminal
    <3>3. FailureTraced' /\ AllSettled'
      BY <1>1, <1>4, <1>9, <3>1 DEF AtLast, FailureTraced, AllSettled
    <3>4. owed' = <<>>
      BY <1>1, <2>2
    <3>5. /\ Len(lines') > 0 /\ lines'[Len(lines')].event = call.event
          /\ accepted > 0 => \E k \in 1 .. Len(lines') - 1 :
                               lines'[k] = [event |-> "run.completed", index |-> 0]
      BY <1>1, <1>3, <1>9, <3>2, WritingSays DEF AtLast, SummaryTraced
    <3>6. AtEnd'
      BY <1>1, <3>1, <3>3, <3>4, <3>5 DEF AtEnd
    <3>. QED BY <1>1, <1>9, <3>6 DEF Ending
  <2>. QED BY <1>9, <2>1, <2>2 DEF AtLast, LastCalls
<1>10. CASE verdict # "none" /\ AtEnd
  BY <1>1, <1>10 DEF AtEnd
<1>. QED BY <1>6, <1>7, <1>8, <1>9, <1>10, EndPlaces

\* No step turns the trace on or off.
LEMMA EnabledStays == [Next]_vars => enabled' = enabled
BY DEF Next, vars, traceVars, Dispatch, Commit, EndInput, Conclude, Pay, Settle, Finished, Observe,
       Emit, EmitOperation

LEMMA EndingStep == TraceTypeOK /\ CallTypes /\ Ending /\ [Next]_vars => Ending'
<1> SUFFICES ASSUME TraceTypeOK, CallTypes, Ending, [Next]_vars, enabled PROVE Ending'
  BY EnabledStays DEF Ending
<1>1. lines' = lines => Written("run.failed")' = Written("run.failed")
  BY DEF Written
<1>2. CASE Dispatch
  <2>1. owed' = <<Op("operation.started", accepted + 1)>> /\ lines' = lines
        /\ verdict = "none" /\ verdict' = "none"
    BY <1>2 DEF Dispatch, Stream!Accept, Stream!Undecided, traceVars
  <2>2. Op("operation.started", accepted + 1).event \in Detail
    BY DEF Op, Detail
  <2>. QED BY <1>1, <2>1, <2>2 DEF Ending
<1>3. CASE Commit
  <2>1. /\ owed' = <<Op("operation.completed", emitted + 1), Op("output.written", emitted + 1)>>
        /\ lines' = lines /\ verdict = "none" /\ verdict' = "none"
    BY <1>3 DEF Commit, Stream!Emit, Stream!Undecided, traceVars
  <2>2. /\ Op("operation.completed", emitted + 1).event \in Detail
        /\ Op("output.written", emitted + 1).event \in Detail
    BY DEF Op, Detail
  <2>. QED BY <1>1, <2>1, <2>2 DEF Ending
<1>4. CASE EndInput
  BY <1>1, <1>4 DEF EndInput, Stream!End, Stream!Undecided, traceVars, Ending
<1>5. CASE Conclude
  <2>1. /\ owed' = Closing(verdict') /\ Written("run.failed")' = {} /\ verdict' # "none"
        /\ accepted' = accepted /\ emitted' = emitted
    BY <1>1, <1>5 DEF Conclude, Stream!Conclude, Stream!Undecided, traceVars, Ending
  <2>2. AtFailure'
    BY <2>1 DEF AtFailure, Closing
  <2>. QED BY <2>1, <2>2 DEF Ending
<1>6. CASE Pay
  BY <1>6, PayEnding
<1>7. ASSUME NEW i \in Stream!Index, Observe(i) PROVE Ending'
  <2>1. /\ i \in 0 .. accepted - 1 /\ outcome[i] = "none" /\ i + 1 \in Nat
        /\ accepted' = accepted /\ emitted' = emitted /\ verdict' = verdict /\ owed' = owed
    BY <1>7 DEF Observe, streamVars, Stream!Index, CallTypes
  <2>2. PICK name \in {"request.attempted", "request.retrying"} : Emit(name, i + 1)
    BY <1>7 DEF Observe
  <2>3. name \in Names /\ name # "run.failed" /\ lines \in Seq(Line)
    BY DEF Names, Detail, TraceTypeOK
  <2>4. Written("run.failed")' = Written("run.failed")
    BY <2>1, <2>2, <2>3, OtherCalls
  <2>5. CASE verdict = "none"
    BY <2>1, <2>4, <2>5 DEF Ending
  <2>6. CASE verdict # "none"
    <3>1. ~AtLast /\ ~AtEnd
      BY <2>1 DEF AtLast, AtEnd, AllSettled
    <3>2. AtFailure' \/ AtSummary'
      BY <2>1, <2>4, <2>6, <3>1 DEF Ending, AtFailure, AtSummary, FailureTraced, Closing, FromSummary
    <3>. QED BY <2>1, <2>6, <3>2 DEF Ending
  <2>. QED BY <2>5, <2>6
<1>8. CASE Settle
  <2>1. PICK i \in Stream!Index : i < accepted /\ outcome[i] = "none"
    BY <1>8 DEF Settle, Stream!Settle
  <2>2. i \in 0 .. accepted - 1
    BY <2>1 DEF Stream!Index, CallTypes
  <2>3. /\ accepted' = accepted /\ emitted' = emitted /\ verdict' = verdict /\ owed' = owed
        /\ Written("run.failed")' = Written("run.failed")
    BY <1>1, <1>8 DEF Settle, Stream!Settle, traceVars
  <2>4. CASE verdict = "none"
    BY <2>3, <2>4 DEF Ending
  <2>5. CASE verdict # "none"
    <3>1. ~AtLast /\ ~AtEnd
      BY <2>1, <2>2 DEF AtLast, AtEnd, AllSettled
    <3>2. AtFailure' \/ AtSummary'
      BY <2>3, <2>5, <3>1 DEF Ending, AtFailure, AtSummary, FailureTraced, Closing, FromSummary
    <3>. QED BY <2>3, <2>5, <3>2 DEF Ending
  <2>. QED BY <2>4, <2>5
<1>9. CASE UNCHANGED vars
  BY <1>1, <1>9 DEF vars, traceVars, streamVars, Ending, AtFailure, AtSummary, AtLast, AtEnd,
     FailureTraced, SummaryTraced, AllSettled, Says, Closing, FromSummary, LastCalls
<1>. QED BY <1>2, <1>3, <1>4, <1>5, <1>6, <1>7, <1>8, <1>9 DEF Next, Finished

\* However many records, attempts and dropped events, an enabled trace ends with
\* the command's last word, after the summary of a stream that was started, and
\* names the record that failed and no other.
THEOREM EndIsTraced == Spec => []EndAlwaysTraced
<1>1. Spec => []CallTypes
  BY InitCallTypes, StepCallTypes, PTL DEF Spec
<1>2. TraceInv => TraceTypeOK
  BY DEF TraceInv
<1>3. Spec => []Ending
  BY <1>1, <1>2, StreamTraces, TraceInvariant, EndingInit, EndingStep, PTL DEF Spec
<1>4. CallTypes /\ Ending => EndAlwaysTraced
  <2> SUFFICES ASSUME CallTypes, Ending, verdict # "none", owed = <<>>, enabled
               PROVE  AtEnd
    BY DEF EndAlwaysTraced, Done, Quiet, AtEnd, FailureTraced
  <2>1. AtFailure /\ verdict = "record" => FALSE
    BY ClosingCalls DEF AtFailure, CallTypes
  <2>2. AtSummary /\ accepted > 0 => FALSE
    BY ClosingCalls DEF AtSummary, CallTypes
  <2>3. ~AtLast
    BY DEF AtLast, LastCalls
  <2>. QED BY <2>1, <2>2, <2>3, EndPlaces
<1>. QED BY <1>1, <1>3, <1>4, PTL

------------------------------------------------------------------------------
(* The trace and stdout.                                                    *)

\* A call about a record of this name is still to be made.
Among(name, calling) ==
  \E k \in 1 .. Len(calling) : calling[k].event = name /\ calling[k].index # 0

Owes(name) == Among(name, owed)

\* Of the records counted, how many have had their call.
Due(name, count) == IF Owes(name) THEN count - 1 ELSE count

\* The calls owed are the command's own, a failed record's, or those of the
\* record that was accepted or written last.
OwedNow ==
  \/ \A k \in 1 .. Len(owed) : owed[k].index = 0 \/ owed[k].event = "run.failed"
  \/ accepted > 0 /\ owed = <<Op("operation.started", accepted)>>
  \/ emitted > 0 /\ owed = <<Op("operation.completed", emitted), Op("output.written", emitted)>>
  \/ emitted > 0 /\ owed = <<Op("output.written", emitted)>>

\* Outputs are traced up to a point; if that is not where stdout is, the budget
\* is spent for good.
OutputTraced ==
  \E n \in 0 .. Due("output.written", emitted) :
    /\ Written("output.written") = 1 .. n
    /\ n = Due("output.written", emitted) \/ (suppressed /\ events >= Budget)

StartsTraced ==
  suppressed \/ Written("operation.started") = 1 .. Due("operation.started", accepted)

CompletedInOrder ==
  \A k \in 1 .. Len(lines) : lines[k].event = "operation.completed" /\ lines[k].index # 0 =>
    /\ lines[k].index <= Due("operation.completed", emitted)
    /\ \A j \in 1 .. k - 1 :
         lines[j].event = "operation.completed" => lines[j].index < lines[k].index

\* A trace that is not enabled has nothing but the notice.
OnlyNotices == \A k \in 1 .. Len(lines) : lines[k].event = Notice

Following ==
  /\ OwedNow
  /\ enabled => OutputTraced /\ StartsTraced /\ CompletedInOrder
  /\ ~enabled => OnlyNotices

\* What a call of an enabled trace does: its line is written, or it is dropped
\* and the trace says so.  Only the start of an operation is dropped before the
\* budget is spent.
LEMMA CallEffect ==
  ASSUME TraceInv, enabled, NEW name \in Names, NEW index \in Nat,
         Emit(name, index) \/ EmitOperation(name, index)
  PROVE  /\ enabled' = enabled
         /\ suppressed => suppressed'
         /\ events >= Budget => events' >= Budget
         /\ \/ /\ Write(name, index)
               /\ suppressed' = suppressed
               /\ name \in Detail => events < Budget
            \/ /\ lines' = lines \/ Write(Notice, 0)
               /\ suppressed'
               /\ name \in Detail
               /\ name # "operation.started" => events' >= Budget
<1>1. events \in Nat /\ events <= Budget /\ Budget \in Nat
  BY TraceAssumption DEF TraceInv, TraceTypeOK, WithinBudget
<1>2. name \in Terminal => name \notin Detail /\ name # "operation.started"
  BY DisjointNames DEF Terminal, Detail
<1>3. CASE Emit(name, index)
  BY <1>1, <1>2, <1>3 DEF Emit, Reserve, Suppress
<1>4. CASE EmitOperation(name, index) /\ name # "operation.started"
  BY <1>3, <1>4 DEF EmitOperation
<1>5. CASE EmitOperation(name, index) /\ name = "operation.started"
  <2>1. name \in Detail
    BY <1>5 DEF Detail
  <2>2. CASE events >= OperationBudget /\ Suppress(events) /\ UNCHANGED enabled
    BY <1>1, <1>5, <2>1, <2>2 DEF Suppress
  <2>3. CASE enabled /\ UNCHANGED enabled /\ Reserve(events + 1, name, index)
    BY <1>1, <1>2, <1>5, <2>1, <2>3 DEF Reserve, Suppress
  <2>. QED BY <1>5, <2>2, <2>3 DEF EmitOperation
<1>. QED BY <1>3, <1>4, <1>5

LEMMA DisabledEffect ==
  ASSUME ~enabled, NEW name, NEW index, Emit(name, index) \/ EmitOperation(name, index)
  PROVE  enabled' = enabled /\ (lines' = lines \/ Write(Notice, 0))
BY DEF Emit, EmitOperation, Suppress, traceVars

\* The call is the one that is owed for the record counted last.
Settles(name, count, event, index) ==
  /\ count > 0
  /\ event = name /\ index = count
  /\ Owes(name) /\ ~Owes(name)'

\* The call is not about a record of this name.
Passes(name, event, index) ==
  /\ event # name \/ index = 0
  /\ Owes(name)' <=> Owes(name)

LEMMA OneMore ==
  ASSUME NEW n \in Nat, n > 0
  PROVE  (1 .. n - 1) \cup {n} = 1 .. n
OBVIOUS

LEMMA DueType ==
  ASSUME CallTypes
  PROVE  \A name : /\ Due(name, emitted) \in Int /\ Due(name, emitted) <= emitted
                   /\ Due(name, accepted) \in Int /\ Due(name, accepted) <= accepted
BY DEF CallTypes, Due

\* An output's call, or another's.
LEMMA OutputStep ==
  ASSUME TraceInv, CallTypes, enabled, OutputTraced, emitted' = emitted,
         NEW name \in Names, NEW index \in Nat,
         Emit(name, index) \/ EmitOperation(name, index),
         \/ Settles("output.written", emitted, name, index)
         \/ Passes("output.written", name, index)
  PROVE  OutputTraced'
<1> DEFINE out == "output.written"
<1>1. lines \in Seq(Line) /\ emitted \in Nat /\ out # Notice
  BY DEF TraceInv, TraceTypeOK, CallTypes, Notice
<1>2. PICK n \in 0 .. Due(out, emitted) :
        /\ Written(out) = 1 .. n
        /\ n = Due(out, emitted) \/ (suppressed /\ events >= Budget)
  BY DEF OutputTraced
<1>3. n \in Nat /\ Due(out, emitted) \in Int
  BY <1>2, DueType
<1>4. lines' = lines \/ Write(Notice, 0) => Written(out)' = Written(out)
  <2>1. lines' = lines => Written(out)' = Written(out)
    BY DEF Written
  <2>2. Write(Notice, 0) => Written(out)' = Written(out)
    BY <1>1, WritingAdds
  <2>. QED BY <2>1, <2>2
<1>5. /\ suppressed => suppressed'
      /\ events >= Budget => events' >= Budget
      /\ \/ /\ Write(name, index)
            /\ name \in Detail => events < Budget
         \/ /\ lines' = lines \/ Write(Notice, 0)
            /\ suppressed'
            /\ name # "operation.started" => events' >= Budget
  BY CallEffect
<1>6. CASE Settles(out, emitted, name, index)
  <2>1. name = out /\ index = emitted /\ Due(out, emitted) = emitted - 1 /\ emitted > 0
    BY <1>6 DEF Settles, Due
  <2>2. Due(out, emitted)' = emitted
    BY <1>6 DEF Settles, Due
  <2>3. CASE Write(name, index) /\ events < Budget
    <3>1. n = emitted - 1
      BY <1>2, <2>1, <2>3, TraceAssumption DEF TraceInv, TraceTypeOK
    <3>2. Written(out)' = (1 .. emitted - 1) \cup {emitted}
      BY <1>1, <1>2, <2>1, <2>3, <3>1, WritingAdds
    <3>3. Written(out)' = 1 .. emitted /\ emitted \in 0 .. emitted
      <4>1. (1 .. emitted - 1) \cup {emitted} = 1 .. emitted
        BY <1>1, <2>1, OneMore
      <4>2. emitted \in 0 .. emitted
        BY <1>1
      <4>. QED BY <3>2, <4>1, <4>2
    <3>. QED BY <2>2, <3>3 DEF OutputTraced
  <2>4. CASE (lines' = lines \/ Write(Notice, 0)) /\ suppressed' /\ events' >= Budget
    <3>1. Written(out)' = 1 .. n
      BY <1>2, <1>4, <2>4
    <3>2. n \in 0 .. emitted
      BY <1>1, <1>2, <1>3, <2>1
    <3>. QED BY <2>2, <2>4, <3>1, <3>2 DEF OutputTraced
  <2>. QED BY <1>5, <2>1, <2>3, <2>4 DEF Detail
<1>7. CASE Passes(out, name, index)
  <2>1. Due(out, emitted)' = Due(out, emitted)
    BY <1>7 DEF Passes, Due
  <2>2. Written(out)' = Written(out)
    <3>1. CASE Write(name, index)
      BY <1>1, <1>7, <3>1, WritingAdds DEF Passes
    <3>. QED BY <1>4, <1>5, <3>1
  <2>. QED BY <1>2, <1>5, <2>1, <2>2 DEF OutputTraced
<1>. QED BY <1>6, <1>7

\* The start of an operation, or another call.
LEMMA StartStep ==
  ASSUME TraceInv, CallTypes, enabled, StartsTraced, accepted' = accepted,
         NEW name \in Names, NEW index \in Nat,
         Emit(name, index) \/ EmitOperation(name, index),
         \/ Settles("operation.started", accepted, name, index)
         \/ Passes("operation.started", name, index)
  PROVE  StartsTraced'
<1> DEFINE start == "operation.started"
<1>1. lines \in Seq(Line) /\ accepted \in Nat
  BY DEF TraceInv, TraceTypeOK, CallTypes
<1>2. suppressed' \/ (Write(name, index) /\ ~suppressed)
  BY CallEffect
<1>3. SUFFICES ASSUME Write(name, index), Written(start) = 1 .. Due(start, accepted)
               PROVE  Written(start)' = 1 .. Due(start, accepted)'
  BY <1>2 DEF StartsTraced
<1>4. Written(start)' = Written(start) \cup (IF name = start /\ index # 0 THEN {index} ELSE {})
  BY <1>1, <1>3, WritingAdds
<1>5. CASE Settles(start, accepted, name, index)
  <2>1. /\ name = start /\ index = accepted /\ accepted > 0
        /\ Due(start, accepted) = accepted - 1
        /\ Due(start, accepted)' = accepted
    BY <1>5 DEF Settles, Due
  <2>2. Written(start)' = (1 .. accepted - 1) \cup {accepted}
    BY <1>1, <1>3, <1>4, <2>1
  <2>. QED BY <1>1, <2>1, <2>2, OneMore
<1>6. CASE Passes(start, name, index)
  BY <1>3, <1>4, <1>6 DEF Passes, Due
<1>. QED BY <1>5, <1>6

\* A record's completion, or another call.
LEMMA CompletionStep ==
  ASSUME TraceInv, CallTypes, enabled, CompletedInOrder, emitted' = emitted,
         NEW name \in Names, NEW index \in Nat,
         Emit(name, index) \/ EmitOperation(name, index),
         \/ Settles("operation.completed", emitted, name, index)
         \/ Passes("operation.completed", name, index)
  PROVE  CompletedInOrder'
<1> DEFINE completed == "operation.completed"
<1>1. lines \in Seq(Line) /\ emitted \in Nat /\ Len(lines) \in Nat
  BY DEF TraceInv, TraceTypeOK, CallTypes
<1>2. /\ Due(completed, emitted) \in Int /\ Due(completed, emitted)' \in Int
      /\ Due(completed, emitted) <= Due(completed, emitted)'
  <2>1. CASE Settles(completed, emitted, name, index)
    BY <1>1, <2>1 DEF Settles, Due
  <2>2. CASE Passes(completed, name, index)
    BY <1>1, <2>2 DEF Passes, Due
  <2>. QED BY <2>1, <2>2
<1>3. \A k \in 1 .. Len(lines) : lines[k].index \in Nat
  <2>1. \A k \in 1 .. Len(lines) : lines[k] \in Line
    BY <1>1
  <2>. QED BY <2>1 DEF Line
<1>4. CASE lines' = lines
  BY <1>1, <1>2, <1>3, <1>4 DEF CompletedInOrder
<1>5. CASE Write(Notice, 0)
  <2>1. /\ Len(lines') = Len(lines) + 1
        /\ lines'[Len(lines) + 1].event # completed
        /\ \A k \in 1 .. Len(lines) : lines'[k] = lines[k]
    <3>1. Notice # completed
      BY DEF Notice
    <3>2. 0 \in Nat /\ Notice \in Names \cup {Notice}
      OBVIOUS
    <3>. QED BY <1>1, <1>5, <3>1, <3>2, Writing
  <2>. QED BY <1>1, <1>2, <1>3, <2>1 DEF CompletedInOrder
<1>6. CASE Write(name, index)
  <2>1. /\ Len(lines') = Len(lines) + 1
        /\ lines'[Len(lines) + 1].event = name
        /\ \A k \in 1 .. Len(lines) : lines'[k] = lines[k]
    BY <1>1, <1>6, Writing
  <2>2. lines'[Len(lines) + 1].index = index
    BY <1>1, <1>6 DEF Write
  <2>3. CASE Passes(completed, name, index)
    <3>1. \A k \in 1 .. Len(lines') : lines'[k].event = completed /\ lines'[k].index # 0 =>
            k \in 1 .. Len(lines)
      BY <1>1, <2>1, <2>2, <2>3 DEF Passes
    <3>. QED BY <1>1, <1>2, <1>3, <2>1, <3>1 DEF CompletedInOrder
  <2>4. CASE Settles(completed, emitted, name, index)
    <3>1. /\ index = emitted /\ emitted > 0
          /\ Due(completed, emitted) = emitted - 1
          /\ Due(completed, emitted)' = emitted
      BY <2>4 DEF Settles, Due
    <3>2. \A j \in 1 .. Len(lines) : lines[j].event = completed => lines[j].index < emitted
      BY <1>1, <1>3, <3>1 DEF CompletedInOrder
    <3>3. ASSUME NEW k \in 1 .. Len(lines'),
                 lines'[k].event = completed, lines'[k].index # 0
          PROVE  /\ lines'[k].index <= emitted
                 /\ \A j \in 1 .. k - 1 :
                      lines'[j].event = completed => lines'[j].index < lines'[k].index
      <4>1. CASE k = Len(lines) + 1
        BY <1>1, <1>3, <2>1, <2>2, <3>1, <3>2, <4>1
      <4>2. CASE k \in 1 .. Len(lines)
        <5>1. \A j \in 1 .. k - 1 : j \in 1 .. Len(lines) /\ lines'[j] = lines[j]
          BY <1>1, <2>1, <4>2
        <5>2. lines'[k] = lines[k]
          BY <2>1, <4>2
        <5>3. lines[k].event = completed /\ lines[k].index # 0
          BY <3>3, <5>2
        <5>4. /\ lines[k].index <= emitted - 1
              /\ \A j \in 1 .. k - 1 :
                   lines[j].event = completed => lines[j].index < lines[k].index
          BY <3>1, <4>2, <5>3 DEF CompletedInOrder
        <5>5. lines[k].index <= emitted
          BY <1>1, <1>3, <4>2, <5>4
        <5>. QED BY <5>1, <5>2, <5>4, <5>5
      <4>. QED BY <1>1, <2>1, <4>1, <4>2
    <3>. QED BY <3>1, <3>3 DEF CompletedInOrder
  <2>. QED BY <2>3, <2>4
<1>. QED BY <1>4, <1>5, <1>6, CallEffect

\* Which records a few calls are about.
LEMMA AmongFew ==
  /\ \A name : ~Among(name, <<>>)
  /\ \A name, c : Among(name, <<c>>) <=> c.event = name /\ c.index # 0
  /\ \A name, c, d : Among(name, <<c, d>>) <=>
       (c.event = name /\ c.index # 0) \/ (d.event = name /\ d.index # 0)
BY DEF Among

Accounted(event, index) ==
  /\ \/ Settles("output.written", emitted, event, index)
     \/ Passes("output.written", event, index)
  /\ \/ Settles("operation.completed", emitted, event, index)
     \/ Passes("operation.completed", event, index)
  /\ \/ Settles("operation.started", accepted, event, index)
     \/ Passes("operation.started", event, index)

\* The next call owed is the one that its record's count waits for.
LEMMA PayAccounts ==
  ASSUME CallTypes, OwedNow, owed # <<>>, owed' = Tail(owed),
         accepted' = accepted, emitted' = emitted
  PROVE  OwedNow' /\ Accounted(Head(owed).event, Head(owed).index)
<1> DEFINE out == "output.written"  completed == "operation.completed"
           start == "operation.started"
<1>1. CASE \A k \in 1 .. Len(owed) : owed[k].index = 0 \/ owed[k].event = "run.failed"
  <2>1. \A k \in 1 .. Len(owed') : owed'[k].index = 0 \/ owed'[k].event = "run.failed"
    BY <1>1 DEF CallTypes
  <2>2. Head(owed).index = 0 \/ Head(owed).event = "run.failed"
    BY <1>1 DEF CallTypes
  <2>3. \A name \in {out, completed, start} : ~Owes(name) /\ ~Owes(name)'
    BY <1>1, <2>1 DEF Owes, Among
  <2>. QED BY <2>1, <2>2, <2>3 DEF OwedNow, Accounted, Passes
<1>2. CASE accepted > 0 /\ owed = <<Op(start, accepted)>>
  <2>1. Head(owed) = Op(start, accepted) /\ owed' = <<>>
    BY <1>2
  <2>2. Head(owed).event = start /\ Head(owed).index = accepted /\ accepted # 0
    BY <1>2, <2>1 DEF Op, CallTypes
  <2>3. \A name : ~Owes(name)'
    BY <2>1, AmongFew DEF Owes
  <2>4. Owes(start) /\ ~Owes(completed) /\ ~Owes(out)
    BY <1>2, <2>1, <2>2, AmongFew DEF Owes
  <2>5. OwedNow'
    BY <2>1 DEF OwedNow
  <2>. QED BY <1>2, <2>2, <2>3, <2>4, <2>5 DEF Accounted, Passes, Settles
<1>3. CASE emitted > 0 /\ owed = <<Op(completed, emitted), Op(out, emitted)>>
  <2>1. Head(owed) = Op(completed, emitted) /\ owed' = <<Op(out, emitted)>>
    BY <1>3
  <2>2. /\ Op(completed, emitted).event = completed /\ Op(completed, emitted).index = emitted
        /\ Op(out, emitted).event = out /\ Op(out, emitted).index = emitted
        /\ emitted # 0
    BY <1>3 DEF Op, CallTypes
  <2>3. Owes(out)' /\ ~Owes(completed)' /\ ~Owes(start)'
    <3>1. \A name : Among(name, <<Op(out, emitted)>>) <=> name = out
      BY <2>2, AmongFew
    <3>2. \A name : Among(name, owed') <=> name = out
      BY <2>1, <3>1
    <3>. QED BY <3>2 DEF Owes
  <2>4. Owes(out) /\ Owes(completed) /\ ~Owes(start)
    BY <1>3, <2>2, AmongFew DEF Owes
  <2>5. OwedNow'
    BY <1>3, <2>1 DEF OwedNow
  <2>. QED BY <1>3, <2>1, <2>2, <2>3, <2>4, <2>5 DEF Accounted, Passes, Settles
<1>4. CASE emitted > 0 /\ owed = <<Op(out, emitted)>>
  <2>1. Head(owed) = Op(out, emitted) /\ owed' = <<>>
    BY <1>4
  <2>2. Head(owed).event = out /\ Head(owed).index = emitted /\ emitted # 0
    BY <1>4, <2>1 DEF Op, CallTypes
  <2>3. \A name : ~Owes(name)'
    BY <2>1, AmongFew DEF Owes
  <2>4. Owes(out) /\ ~Owes(completed) /\ ~Owes(start)
    BY <1>4, <2>1, <2>2, AmongFew DEF Owes
  <2>5. OwedNow'
    BY <2>1 DEF OwedNow
  <2>. QED BY <1>4, <2>2, <2>3, <2>4, <2>5 DEF Accounted, Passes, Settles
<1>. QED BY <1>1, <1>2, <1>3, <1>4 DEF OwedNow

\* A call whose place in the counts is known keeps what the trace says in step.
LEMMA CallFollows ==
  ASSUME TraceInv, CallTypes, Following, OwedNow',
         accepted' = accepted, emitted' = emitted,
         NEW name \in Names, NEW index \in Nat, Accounted(name, index),
         Emit(name, index) \/ EmitOperation(name, index)
  PROVE  Following'
<1>1. CASE enabled
  <2>1. enabled'
    BY <1>1, CallEffect
  <2>2. OutputTraced'
    BY <1>1, OutputStep DEF Following, Accounted
  <2>3. StartsTraced'
    BY <1>1, StartStep DEF Following, Accounted
  <2>4. CompletedInOrder'
    BY <1>1, CompletionStep DEF Following, Accounted
  <2>. QED BY <2>1, <2>2, <2>3, <2>4 DEF Following
<1>2. CASE ~enabled
  <2>1. enabled' = enabled /\ (lines' = lines \/ Write(Notice, 0))
    BY <1>2, DisabledEffect
  <2>2. lines \in Seq(Line) /\ Len(lines) \in Nat /\ OnlyNotices
    BY <1>2 DEF TraceInv, TraceTypeOK, Following
  <2>3. OnlyNotices'
    <3>1. CASE lines' = lines
      BY <2>2, <3>1 DEF OnlyNotices
    <3>2. CASE Write(Notice, 0)
      <4>1. 0 \in Nat /\ Notice \in Names \cup {Notice}
        OBVIOUS
      <4>2. /\ Len(lines') = Len(lines) + 1
            /\ lines'[Len(lines) + 1].event = Notice
            /\ \A k \in 1 .. Len(lines) : lines'[k] = lines[k]
        BY <2>2, <3>2, <4>1, Writing
      <4>. QED BY <2>2, <4>2 DEF OnlyNotices
    <3>. QED BY <2>1, <3>1, <3>2
  <2>. QED BY <1>2, <2>1, <2>3 DEF Following
<1>. QED BY <1>1, <1>2

LEMMA FollowingInit == Init => Following
<1> SUFFICES ASSUME Init PROVE Following
  OBVIOUS
<1>1. lines = <<>> /\ accepted = 0 /\ emitted = 0
  BY DEF Init, TraceInit, Stream!Init
<1>2. owed = <<Root("run.started"), Root("operation.started"), Root("preflight.completed")>>
  BY DEF Init
<1>3. \A k \in 1 .. Len(owed) : owed[k].index = 0
  <2>1. \A name : Root(name).index = 0
    BY DEF Root
  <2>. QED BY <1>2, <2>1
<1>4. \A name : ~Owes(name)
  BY <1>3 DEF Owes, Among
<1>5. \A name : Written(name) = {} /\ Due(name, 0) = 0
  BY <1>1, <1>4 DEF Written, Due
<1>6. OutputTraced
  <2>1. 1 .. 0 = {} /\ 0 \in 0 .. 0
    OBVIOUS
  <2>. QED BY <1>1, <1>5, <2>1 DEF OutputTraced
<1>7. StartsTraced
  BY <1>1, <1>5 DEF StartsTraced
<1>8. CompletedInOrder /\ OnlyNotices
  BY <1>1 DEF CompletedInOrder, OnlyNotices
<1>. QED BY <1>3, <1>6, <1>7, <1>8 DEF Following, OwedNow

\* The coordinator owes new calls and makes none: the records they are about
\* are counted, and not due.
LEMMA OwingFollows ==
  ASSUME CallTypes, Following, UNCHANGED traceVars, OwedNow',
         Due("output.written", emitted)' = Due("output.written", emitted),
         Due("operation.completed", emitted)' = Due("operation.completed", emitted),
         Due("operation.started", accepted)' = Due("operation.started", accepted)
  PROVE  Following'
<1>1. \A name : Written(name)' = Written(name)
  BY DEF Written, traceVars
<1>2. OutputTraced => OutputTraced'
  BY <1>1 DEF OutputTraced, traceVars
<1>3. StartsTraced => StartsTraced'
  BY <1>1 DEF StartsTraced, traceVars
<1>4. CompletedInOrder => CompletedInOrder'
  BY DEF CompletedInOrder, traceVars
<1>5. OnlyNotices => OnlyNotices'
  BY DEF OnlyNotices, traceVars
<1>. QED BY <1>2, <1>3, <1>4, <1>5 DEF Following, traceVars

LEMMA QuietDue ==
  ASSUME owed = <<>>
  PROVE  \A name : ~Owes(name) /\ Due(name, emitted) = emitted /\ Due(name, accepted) = accepted
BY AmongFew DEF Owes, Due

\* The closing calls are about the record that failed and no other.
LEMMA ClosingSubjects ==
  ASSUME emitted \in Nat, NEW v
  PROVE  \A k \in 1 .. Len(Closing(v)) :
           Closing(v)[k].index = 0 \/ Closing(v)[k].event = "run.failed"
<1> DEFINE Free == {c \in Calls : c.index = 0 \/ c.event = "run.failed"}
<1>1. /\ Op("run.failed", emitted + 1) \in Free
      /\ Summary \in Free
      /\ Root("operation.completed") \in Free
      /\ Root("output.written") \in Free
      /\ Root("run.completed") \in Free
      /\ Root("run.failed") \in Free
  BY CallForms DEF Names, Detail, Terminal, Op, Summary, Root
<1> HIDE DEF Free
<1>2. /\ <<Op("run.failed", emitted + 1)>> \in Seq(Free)
      /\ <<Summary>> \in Seq(Free)
      /\ <<Root("run.failed")>> \in Seq(Free)
      /\ <<>> \in Seq(Free)
  BY <1>1
<1>3. <<Root("operation.completed"), Root("output.written"), Root("run.completed")>> \in Seq(Free)
  BY <1>1
<1>4. Closing(v) \in Seq(Free)
  BY <1>2, <1>3 DEF Closing
<1>5. \A k \in 1 .. Len(Closing(v)) : Closing(v)[k] \in Free
  BY <1>4
<1>. QED BY <1>5 DEF Free

LEMMA FollowingStep == TraceInv /\ CallTypes /\ Following /\ [Next]_vars => Following'
<1> SUFFICES ASSUME TraceInv, CallTypes, Following, [Next]_vars PROVE Following'
  OBVIOUS
<1>1. CASE Dispatch
  <2>1. /\ owed = <<>> /\ owed' = <<Op("operation.started", accepted')>>
        /\ accepted' = accepted + 1 /\ accepted \in Nat /\ emitted' = emitted
        /\ UNCHANGED traceVars
    BY <1>1 DEF Dispatch, Stream!Accept, Quiet, CallTypes
  <2>2. OwedNow'
    BY <2>1 DEF OwedNow
  <2>3. /\ Op("operation.started", accepted').event = "operation.started"
        /\ Op("operation.started", accepted').index # 0
    BY <2>1 DEF Op
  <2>4. \A name : Among(name, owed') <=> name = "operation.started"
    BY <2>1, <2>3, AmongFew
  <2>5. \A name : Owes(name)' <=> name = "operation.started"
    BY <2>4 DEF Owes
  <2>6. /\ Due("output.written", emitted)' = emitted
        /\ Due("operation.completed", emitted)' = emitted
        /\ Due("operation.started", accepted)' = accepted
    BY <2>1, <2>5 DEF Due
  <2>. QED BY <2>1, <2>2, <2>6, QuietDue, OwingFollows
<1>2. CASE Commit
  <2> DEFINE completed == Op("operation.completed", emitted')
             out == Op("output.written", emitted')
  <2>1. /\ owed = <<>> /\ owed' = <<completed, out>>
        /\ emitted' = emitted + 1 /\ emitted \in Nat /\ accepted' = accepted
        /\ UNCHANGED traceVars
    BY <1>2 DEF Commit, Stream!Emit, Quiet, CallTypes
  <2>2. OwedNow'
    BY <2>1 DEF OwedNow
  <2>3. /\ completed.event = "operation.completed" /\ completed.index # 0
        /\ out.event = "output.written" /\ out.index # 0
    BY <2>1 DEF Op
  <2> HIDE DEF completed, out
  <2>4. \A name : Among(name, owed') <=> name \in {"operation.completed", "output.written"}
    BY <2>1, <2>3, AmongFew
  <2>5. \A name : Owes(name)' <=> name \in {"operation.completed", "output.written"}
    BY <2>4 DEF Owes
  <2>6. /\ Due("output.written", emitted)' = emitted
        /\ Due("operation.completed", emitted)' = emitted
        /\ Due("operation.started", accepted)' = accepted
    BY <2>1, <2>5 DEF Due
  <2>. QED BY <2>1, <2>2, <2>6, QuietDue, OwingFollows
<1>3. CASE Conclude
  <2>1. /\ owed = <<>> /\ owed' = Closing(verdict')
        /\ emitted' = emitted /\ accepted' = accepted
        /\ UNCHANGED traceVars
    BY <1>3 DEF Conclude, Stream!Conclude, Quiet
  <2>2. \A k \in 1 .. Len(owed') : owed'[k].index = 0 \/ owed'[k].event = "run.failed"
    BY <2>1, ClosingSubjects DEF CallTypes
  <2>3. OwedNow'
    BY <2>2 DEF OwedNow
  <2>4. \A name : name # "run.failed" => ~Owes(name)'
    BY <2>2 DEF Owes, Among
  <2>5. /\ Due("output.written", emitted)' = emitted
        /\ Due("operation.completed", emitted)' = emitted
        /\ Due("operation.started", accepted)' = accepted
    BY <2>1, <2>4 DEF Due
  <2>. QED BY <2>1, <2>3, <2>5, QuietDue, OwingFollows
<1>4. CASE Pay
  <2>1. /\ owed # <<>> /\ owed' = Tail(owed) /\ accepted' = accepted /\ emitted' = emitted
        /\ Head(owed) \in Calls
    BY <1>4 DEF Pay, Quiet, streamVars, CallTypes
  <2>2. /\ Head(owed).event \in Names /\ Head(owed).index \in Nat
        /\ \/ EmitOperation(Head(owed).event, Head(owed).index)
           \/ Emit(Head(owed).event, Head(owed).index)
    BY <1>4, <2>1 DEF Calls, Pay
  <2>3. OwedNow' /\ Accounted(Head(owed).event, Head(owed).index)
    BY <2>1, PayAccounts DEF Following
  <2>. QED BY <2>1, <2>2, <2>3, CallFollows
<1>5. ASSUME NEW i \in Stream!Index, Observe(i) PROVE Following'
  <2>1. /\ i + 1 \in Nat
        /\ owed' = owed /\ accepted' = accepted /\ emitted' = emitted
    BY <1>5 DEF Observe, streamVars, Stream!Index
  <2>2. PICK name \in {"request.attempted", "request.retrying"} : Emit(name, i + 1)
    BY <1>5 DEF Observe
  <2>3. name \in Names
    BY DEF Names, Detail
  <2>4. OwedNow' /\ Accounted(name, i + 1)
    BY <2>1 DEF Following, OwedNow, Accounted, Passes, Owes
  <2>. QED BY <2>1, <2>2, <2>3, <2>4, CallFollows
<1>6. CASE EndInput \/ Settle \/ UNCHANGED vars
  <2>1. UNCHANGED traceVars /\ owed' = owed /\ accepted' = accepted /\ emitted' = emitted
    BY <1>6 DEF EndInput, Settle, Stream!End, Stream!Settle, vars, streamVars
  <2>2. OwedNow'
    BY <2>1 DEF Following, OwedNow
  <2>. QED BY <2>1, <2>2, OwingFollows DEF Due, Owes
<1>. QED BY <1>1, <1>2, <1>3, <1>4, <1>5, <1>6 DEF Next, Finished

\* Whatever the workers write between the coordinator's calls, and whatever the
\* budget drops, the trace calls written a prefix of what stdout holds, all of it
\* unless it says that events were suppressed, and tells of records in order.
THEOREM TraceIsStdout == Spec => []TraceMatchesOutput
<1>1. Spec => []CallTypes
  BY InitCallTypes, StepCallTypes, PTL DEF Spec
<1>2. Spec => []Following
  BY <1>1, StreamTraces, TraceInvariant, FollowingInit, FollowingStep, PTL DEF Spec
<1>3. TraceInv /\ CallTypes /\ Following => TraceMatchesOutput
  <2> SUFFICES ASSUME TraceInv, CallTypes, Following PROVE TraceMatchesOutput
    OBVIOUS
  <2>1. CASE enabled
    <3>1. OutputTraced /\ StartsTraced /\ CompletedInOrder
      BY <2>1 DEF Following
    <3>2. \E n \in 0 .. emitted : Written("output.written") = 1 .. n
      BY <3>1, DueType DEF OutputTraced, CallTypes
    <3>3. owed = <<>> /\ ~suppressed =>
            /\ Written("output.written") = 1 .. emitted
            /\ Written("operation.started") = 1 .. accepted
      BY <3>1, QuietDue DEF OutputTraced, StartsTraced
    <3>4. ASSUME NEW j \in 1 .. Len(lines), NEW k \in 1 .. Len(lines),
                 lines[j].event = "operation.completed", lines[k].event = "operation.completed",
                 0 < lines[j].index, lines[j].index < lines[k].index
          PROVE  j < k
      <4>1. lines[j] \in Line /\ lines[k] \in Line /\ j \in Nat /\ k \in Nat
        BY DEF TraceInv, TraceTypeOK
      <4>2. lines[j].index \in Nat /\ lines[k].index \in Nat
        BY <4>1 DEF Line
      <4>3. k \in 1 .. j - 1 => lines[k].index < lines[j].index
        BY <3>1, <3>4, <4>2 DEF CompletedInOrder
      <4>4. k # j
        BY <3>4, <4>2
      <4>. QED BY <3>4, <4>1, <4>2, <4>3, <4>4
    <3>. QED BY <3>2, <3>3, <3>4 DEF TraceMatchesOutput, Quiet
  <2>2. CASE ~enabled
    <3>1. \A k \in 1 .. Len(lines) : lines[k].event = Notice
      BY <2>2 DEF Following, OnlyNotices
    <3>2. Written("output.written") = {}
      BY <3>1 DEF Written, Notice
    <3>3. 0 \in 0 .. emitted /\ 1 .. 0 = {}
      BY DEF CallTypes
    <3>4. \A k \in 1 .. Len(lines) : lines[k].event # "operation.completed"
      BY <3>1 DEF Notice
    <3>. QED BY <2>2, <3>2, <3>3, <3>4 DEF TraceMatchesOutput
  <2>. QED BY <2>1, <2>2
<1>. QED BY <1>1, <1>2, <1>3, StreamTraces, TraceInvariant, PTL

==============================================================================
