----------------------------- MODULE TracedStream -----------------------------
(***************************************************************************)
(* A record stream and its trace: OrderedStream, the promise of `jeq map   *)
(* --input ndjson`, with every call its coordinator, its workers' HTTP     *)
(* observer, the root command and RunWithDeps make on the shared           *)
(* trace.Config.  The coordinator does its work and then makes its trace   *)
(* calls one at a time, with the workers' calls between them; the calls it *)
(* still has to make are kept in `owed`.  The run is followed from the      *)
(* moment its model has been resolved, where preflight.completed is due.   *)
(***************************************************************************)
EXTENDS Trace

CONSTANTS
  Window,       \* mapWorkerLimit
  MaxRecords,   \* bound on the length of the input
  MaxAttempts   \* attempts the client makes of one request

ASSUME StreamAssumption ==
  /\ Window \in Nat
  /\ MaxRecords \in Nat
  /\ MaxAttempts \in Nat \ {0}

VARIABLES
  accepted, emitted, outcome, ended, verdict,  \* of OrderedStream
  owed,   \* the coordinator's trace calls still to be made
  calls   \* the observer calls made for each record's request

Stream == INSTANCE OrderedStream

streamVars == <<accepted, emitted, outcome, ended, verdict>>
vars       == <<traceVars, streamVars, owed, calls>>

Op(name, index)   == [operation |-> TRUE, event |-> name, index |-> index]
Root(name)        == [operation |-> FALSE, event |-> name, index |-> 0]
Summary           == [operation |-> FALSE, event |-> "run.completed", index |-> 0]

Init ==
  /\ TraceInit
  /\ Stream!Init
  /\ owed = <<Root("run.started"), Root("operation.started"), Root("preflight.completed")>>
  /\ calls = [i \in Stream!Index |-> 0]

Quiet == owed = <<>>

\* Nothing of the run is left to be traced.
Done == verdict # "none" /\ Quiet

Dispatch ==
  /\ Quiet
  /\ Stream!Accept
  /\ owed' = <<Op("operation.started", accepted + 1)>>
  /\ UNCHANGED <<traceVars, calls>>

\* Mutant: the lines carry the zero-based index.
Commit_ZeroBased ==
  /\ Quiet
  /\ Stream!Emit
  /\ owed' = <<Op("operation.completed", emitted), Op("output.written", emitted)>>
  /\ UNCHANGED <<traceVars, calls>>

Commit ==
  /\ Quiet
  /\ Stream!Emit
  /\ owed' = <<Op("operation.completed", emitted + 1), Op("output.written", emitted + 1)>>
  /\ UNCHANGED <<traceVars, calls>>

EndInput == Quiet /\ Stream!End /\ UNCHANGED <<traceVars, owed, calls>>

\* Mutant: the summary is left to the success path.
Closing_SummaryOnSuccess(v) ==
  (IF v = "record" THEN <<Op("run.failed", emitted + 1)>> ELSE <<>>)
    \o (IF v = "ok"
          THEN <<Summary, Root("operation.completed"), Root("output.written"),
                 Root("run.completed")>>
          ELSE <<Root("run.failed")>>)

\* The command's closing calls: the failed record's, the summary once the
\* stream has been started, then the root command's or RunWithDeps' own.
Closing(v) ==
  (IF v = "record" THEN <<Op("run.failed", emitted + 1)>> ELSE <<>>)
    \o (IF accepted > 0 THEN <<Summary>> ELSE <<>>)
    \o (IF v = "ok"
          THEN <<Root("operation.completed"), Root("output.written"), Root("run.completed")>>
          ELSE <<Root("run.failed")>>)

Conclude ==
  /\ Quiet
  /\ Stream!Conclude
  /\ owed' = Closing(verdict')
  /\ UNCHANGED <<traceVars, calls>>

\* The next call owed.  The summary waits for the workers: stop or the end of
\* processMapStream has joined them.
Pay ==
  /\ ~Quiet
  /\ Head(owed) = Summary /\ verdict # "none" => \A i \in 0 .. accepted - 1 : outcome[i] # "none"
  /\ LET call == Head(owed) IN
       IF call.operation THEN EmitOperation(call.event, call.index)
                         ELSE Emit(call.event, call.index)
  /\ owed' = Tail(owed)
  /\ UNCHANGED <<streamVars, calls>>

\* The client observes an attempt of a record's request or announces a retry.
Observe(i) ==
  /\ i < accepted
  /\ outcome[i] = "none"
  /\ calls[i] < 2 * MaxAttempts - 1
  /\ calls' = [calls EXCEPT ![i] = @ + 1]
  /\ Emit(IF calls[i] % 2 = 0 THEN "request.attempted" ELSE "request.retrying", i + 1)
  /\ UNCHANGED <<streamVars, owed>>

Settle == Stream!Settle /\ UNCHANGED <<traceVars, owed, calls>>

Finished == Done /\ UNCHANGED vars

Next ==
  \/ Dispatch \/ Commit \/ EndInput \/ Conclude \/ Pay \/ Settle \/ Finished
  \/ \E i \in Stream!Index : Observe(i)

Spec == Init /\ [][Next]_vars

------------------------------------------------------------------------------
(* Properties.                                                             *)

Written(name) == {lines[k].index : k \in {j \in 1 .. Len(lines) : lines[j].event = name}} \ {0}

\* The budget never costs the trace its end: a failed record, the summary of a
\* started stream and the command's own last word are written whatever was
\* dropped before them.
EndAlwaysTraced ==
  Done /\ enabled =>
    /\ Len(lines) > 0
    /\ lines[Len(lines)].event = (IF verdict = "ok" THEN "run.completed" ELSE "run.failed")
    /\ accepted > 0 => \E k \in 1 .. Len(lines) - 1 : lines[k] =
                         [event |-> "run.completed", index |-> 0]
    /\ Written("run.failed") = IF verdict = "record" THEN {emitted + 1} ELSE {}

\* Operations are traced in input order and the trace accounts for stdout:
\* what it calls written is a prefix of what was written, the whole of it
\* unless the trace says that events were suppressed.
TraceMatchesOutput ==
  /\ \E n \in 0 .. emitted : Written("output.written") = 1 .. n
  /\ Quiet /\ enabled /\ ~suppressed => Written("output.written") = 1 .. emitted
  /\ Quiet /\ enabled /\ ~suppressed => Written("operation.started") = 1 .. accepted
  /\ \A j, k \in 1 .. Len(lines) :
       lines[j].event = lines[k].event /\ lines[j].event = "operation.completed"
         /\ 0 < lines[j].index /\ lines[j].index < lines[k].index => j < k

==============================================================================
