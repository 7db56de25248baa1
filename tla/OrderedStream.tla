---------------------------- MODULE OrderedStream ----------------------------
(***************************************************************************)
(* What `jeq map --input ndjson` promises its caller, with no goroutine,   *)
(* channel or buffer in sight: records are accepted in input order, each   *)
(* is settled once and in any order, and stdout only ever grows by the     *)
(* next record in input order, and only when that record succeeded.  One   *)
(* verdict ends the run; a record's error may be the verdict only when     *)
(* everything before that record has been written.                         *)
(*                                                                         *)
(* MapStream is shown to implement this module.                            *)
(***************************************************************************)
EXTENDS Naturals

CONSTANTS
  Window,      \* how many accepted records may be unwritten
  MaxRecords   \* bound on the length of the input

VARIABLES
  accepted,    \* records taken from the input
  emitted,     \* records written to stdout
  outcome,     \* what evaluating each record came to
  ended,       \* the input is over
  verdict      \* how the run ends, "none" while it is undecided

vars == <<accepted, emitted, outcome, ended, verdict>>

Index    == 0 .. MaxRecords - 1
Settled  == {"ok", "failed", "interrupted"}
Outcomes == Settled \cup {"none"}
Verdicts == {"none", "ok", "record", "input", "interrupted", "write", "setup"}

Init ==
  /\ accepted = 0
  /\ emitted = 0
  /\ outcome = [i \in Index |-> "none"]
  /\ ended = FALSE
  /\ verdict = "none"

Undecided == verdict = "none"

Accept ==
  /\ Undecided
  /\ ~ended
  /\ accepted < MaxRecords
  /\ accepted - emitted < Window
  /\ accepted' = accepted + 1
  /\ UNCHANGED <<emitted, outcome, ended, verdict>>

\* Evaluations that are under way when the run is decided still settle.
Settle ==
  \E i \in Index, r \in Settled :
    /\ i < accepted
    /\ outcome[i] = "none"
    /\ outcome' = [outcome EXCEPT ![i] = r]
    /\ UNCHANGED <<accepted, emitted, ended, verdict>>

Emit ==
  /\ Undecided
  /\ emitted < accepted
  /\ outcome[emitted] = "ok"
  /\ emitted' = emitted + 1
  /\ UNCHANGED <<accepted, outcome, ended, verdict>>

End ==
  /\ Undecided
  /\ ~ended
  /\ ended' = TRUE
  /\ UNCHANGED <<accepted, emitted, outcome, verdict>>

\* What each verdict means for the output written so far.
Justified(v) ==
  \/ v = "ok" /\ ended /\ emitted = accepted
  \/ v = "input" /\ emitted = accepted
  \/ v = "record" /\ emitted < accepted /\ outcome[emitted] \in {"failed", "interrupted"}
  \/ v = "write" /\ emitted < accepted /\ outcome[emitted] = "ok"
  \/ v = "setup" /\ accepted = 0
  \/ v = "interrupted"

Conclude ==
  /\ Undecided
  /\ \E v \in Verdicts \ {"none"} : Justified(v) /\ verdict' = v
  /\ UNCHANGED <<accepted, emitted, outcome, ended>>

Next == Accept \/ Settle \/ Emit \/ End \/ Conclude

Spec == Init /\ [][Next]_vars

==============================================================================
