-------------------------------- MODULE Trace --------------------------------
(***************************************************************************)
(* trace.Config (internal/trace/trace.go): the recorder of execution       *)
(* metadata that a command, its workers and the HTTP client share.  Every  *)
(* exported method runs under one mutex, so a call is one step.            *)
(*                                                                         *)
(* A line on stderr is its event name and the one-based index of the       *)
(* record it is about, 0 for the command itself; request events carry no   *)
(* index on the wire, here it is kept as history.                          *)
(***************************************************************************)
EXTENDS Naturals, Sequences, FiniteSets

CONSTANTS
  Budget,           \* how many detail events may be reserved
  OperationBudget   \* reservations after which no operation is announced

ASSUME TraceAssumption ==
  /\ Budget \in Nat
  /\ OperationBudget \in Nat
  /\ OperationBudget <= Budget

VARIABLES
  enabled,     \* --verbose
  events,      \* reservations made
  suppressed,  \* the notice has been given
  lines,       \* what has been written, in order
  dropped      \* history: an event of an enabled trace was not written

traceVars == <<enabled, events, suppressed, lines, dropped>>

Notice == "events.suppressed"

\* Events that are written whatever the budget says.
Terminal == {"run.failed", "run.completed"}

Detail == {"run.started", "preflight.completed", "operation.started", "request.attempted",
           "request.retrying", "operation.completed", "output.written"}

Names == Terminal \cup Detail

Line == [event : Names \cup {Notice}, index : Nat]

TraceTypeOK ==
  /\ enabled \in BOOLEAN
  /\ events \in Nat
  /\ suppressed \in BOOLEAN
  /\ lines \in Seq(Line)
  /\ dropped \in BOOLEAN

TraceInit ==
  /\ enabled \in BOOLEAN
  /\ events = 0
  /\ suppressed = FALSE
  /\ lines = <<>>
  /\ dropped = FALSE

Write(name, index) == lines' = Append(lines, [event |-> name, index |-> index])

\* Mutant: events are dropped without a word.
Suppress_Silent(reserved) ==
  /\ events' = reserved
  /\ dropped' = (dropped \/ enabled)
  /\ suppressed' = TRUE
  /\ UNCHANGED lines

\* The event is dropped; the first time a notice takes its place.
Suppress(reserved) ==
  /\ events' = reserved
  /\ dropped' = (dropped \/ enabled)
  /\ suppressed' = TRUE
  /\ IF suppressed THEN UNCHANGED lines ELSE Write(Notice, 0)

\* Mutant: one detail event too many.
Reserve_OneMore(reserved, name, index) ==
  \/ /\ name \in Terminal
     /\ Write(name, index)
     /\ events' = reserved
     /\ UNCHANGED <<suppressed, dropped>>
  \/ /\ name \in Detail
     /\ reserved <= Budget
     /\ Write(name, index)
     /\ events' = reserved + 1
     /\ UNCHANGED <<suppressed, dropped>>
  \/ /\ name \in Detail
     /\ reserved > Budget
     /\ Suppress(reserved)

\* reserve and write, for a trace that is enabled.
Reserve(reserved, name, index) ==
  \/ /\ name \in Terminal
     /\ Write(name, index)
     /\ events' = reserved
     /\ UNCHANGED <<suppressed, dropped>>
  \/ /\ name \in Detail
     /\ reserved < Budget
     /\ Write(name, index)
     /\ events' = reserved + 1
     /\ UNCHANGED <<suppressed, dropped>>
  \/ /\ name \in Detail
     /\ reserved >= Budget
     /\ Suppress(reserved)

\* Emit, Attempt, Retrying, EmitMetadata, EmitPolicy and EmitSummary.
Emit(name, index) ==
  \/ enabled /\ Reserve(events, name, index) /\ UNCHANGED enabled
  \/ ~enabled /\ UNCHANGED traceVars

\* EmitOperation: starting an operation is charged to its own bound first,
\* and whether the trace is enabled is not asked until after that.
EmitOperation(name, index) ==
  \/ /\ name # "operation.started"
     /\ Emit(name, index)
  \/ /\ name = "operation.started"
     /\ events >= OperationBudget
     /\ Suppress(events)
     /\ UNCHANGED enabled
  \/ /\ name = "operation.started"
     /\ events < OperationBudget
     /\ UNCHANGED enabled
     /\ \/ enabled /\ Reserve(events + 1, name, index)
        \/ ~enabled /\ events' = events + 1 /\ UNCHANGED <<suppressed, lines, dropped>>

TraceNext == \E name \in Names, index \in Nat : Emit(name, index) \/ EmitOperation(name, index)

TraceSpec == TraceInit /\ [][TraceNext]_traceVars

------------------------------------------------------------------------------
(* Properties.                                                             *)

DetailLines == {k \in 1 .. Len(lines) : lines[k].event \in Detail}

\* However many records and retries, detail stays within the budget, and a
\* trace that is not enabled has none.
DetailBounded == Cardinality(DetailLines) <= IF enabled THEN Budget ELSE 0

\* The notice is given at most once, by whichever caller crosses the bound.
SuppressedOnce ==
  \A j, k \in 1 .. Len(lines) : lines[j].event = Notice /\ lines[k].event = Notice => j = k

\* Nothing goes missing unannounced: a trace that dropped an event says so.
DropsAnnounced == dropped => \E k \in 1 .. Len(lines) : lines[k].event = Notice

==============================================================================
