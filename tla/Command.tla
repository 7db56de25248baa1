------------------------------- MODULE Command --------------------------------
(***************************************************************************)
(* One run of jeq from RunWithDeps to the process exit (internal/cli/      *)
(* run.go, root.go, exit.go, usage_summary.go) for the commands that work  *)
(* through a whole document: ask, validate, models, gate, rank, reduce,    *)
(* rate, and map on one JSON record.  `map --input ndjson` is MapStream.   *)
(*                                                                         *)
(* A command is the list of local checks it makes before it may spend      *)
(* anything, in the order of the source, then its evaluations.  A check is *)
(* known by the codes it can fail with; a call of the client by what it    *)
(* ends with, which Client models in full.                                 *)
(***************************************************************************)
EXTENDS Integers, Sequences

CONSTANTS
  MaxRecords,   \* bound on the records of the input
  MaxAttempts   \* most attempts one evaluation makes

ASSUME CommandAssumption ==
  /\ MaxRecords \in Nat \ {0}
  /\ MaxAttempts \in Nat \ {0}

VARIABLES
  cmd,         \* the command that was asked for
  wantsUsage,  \* --usage-summary
  pc,          \* where the run is
  step,        \* the local check it is at
  total, at,   \* records of the input, records dealt with
  judged,      \* gate: decisions so far
  calls,       \* evaluations begun
  answered,    \* evaluations that gave a response
  usage,       \* the usage summary's counters
  installed,   \* the usage summary is in the command's context
  written,     \* documents on stdout
  err,         \* the error the command ends with
  phrase,      \* its text contains "unknown command", "unknown flag" or "requires at most"
  stderr,      \* the lines on stderr
  exit,        \* the exit status
  signalled    \* SIGINT arrived

inputVars  == <<step, total, at, judged>>
workVars   == <<calls, answered, usage, written>>
reportVars == <<stderr, exit>>
vars == <<cmd, wantsUsage, pc, inputVars, workVars, installed, err, phrase, reportVars, signalled>>

OneRequest == {"ask", "rank", "reduce"}
PerRecord  == {"map", "rate"}
Paid       == OneRequest \cup PerRecord
Commands   == Paid \cup {"gate", "validate", "models"}

LocalCodes   == {"REQUEST_INVALID", "INPUT_INVALID", "SOURCE_CONFLICT"}
ServiceCodes == {"AUTH_MISSING", "AUTH_REJECTED", "REQUEST_REJECTED", "RATE_LIMITED",
                 "SERVER_ERROR", "RESPONSE_INVALID", "NETWORK_ERROR", "TIMEOUT"}
Codes        == LocalCodes \cup ServiceCodes \cup {"INTERRUPTED"}
Policies     == {"reject", "uncertain"}
\* "usage" is a UsageError; "args", the error cobra makes of stray arguments, and
\* "write", what models, rank and reduce return when stdout fails, have no code.
Errors       == Codes \cup Policies \cup {"usage", "args", "write", "none"}

Decisions == Policies \cup {"pass"}

PCs == {"start", "check", "record", "ready", "calling", "attach", "write", "report",
        "summary", "exited"}

------------------------------------------------------------------------------
(* What each command checks before its first evaluation.                   *)

AskSteps      == <<"sources", "documents", "model", "compose", "options", "provider">>
ValidateSteps == <<"sources", "documents", "model", "compose">>
ModelsSteps   == <<"options", "provider">>
GateSteps     == <<"flags", "stdin">>
RankSteps     == <<"flags", "state", "stdin", "candidates", "value", "model", "request", "provider">>
ReduceSteps   == <<"flags", "stdin", "questions", "model", "provider">>
RateSteps     == <<"flags", "stdin", "model", "first", "provider">>
MapSteps      == <<"flags", "stdin", "questions", "model", "first", "provider">>

Steps ==
  [ask |-> AskSteps, validate |-> ValidateSteps, models |-> ModelsSteps, gate |-> GateSteps,
   rank |-> RankSteps, reduce |-> ReduceSteps, rate |-> RateSteps, map |-> MapSteps]

\* The codes a check may fail with.
CheckFails(check) ==
  CASE check = "sources"                -> LocalCodes
    [] check = "flags"                  -> {"INPUT_INVALID", "SOURCE_CONFLICT"}
    [] check \in {"state", "stdin", "candidates", "options", "model"} -> {"INPUT_INVALID"}
    [] check \in {"value", "request"}   -> {"REQUEST_INVALID"}
    [] check = "provider"               -> {"INPUT_INVALID", "AUTH_MISSING"}
    [] OTHER                            -> {"INPUT_INVALID", "REQUEST_INVALID"}

\* How many records the input may turn out to hold.
Totals == IF cmd \in {"ask", "validate", "models", "map"} THEN {1} ELSE 1 .. MaxRecords

------------------------------------------------------------------------------
NoUsage == [attempted |-> 0, successful |-> 0, processed |-> 0, answers |-> 0]

\* The counters are kept only where the summary is installed.
Count(field, n) ==
  IF installed THEN [usage EXCEPT ![field] = @ + n] ELSE usage

Init ==
  /\ cmd \in Commands
  /\ wantsUsage \in BOOLEAN
  /\ pc = "start"
  /\ step = 1
  /\ total = 1
  /\ at = 0
  /\ judged = [d \in Decisions |-> 0]
  /\ calls = 0
  /\ answered = 0
  /\ usage = NoUsage
  /\ installed = FALSE
  /\ written = 0
  /\ err = "none"
  /\ phrase = FALSE
  /\ stderr = <<>>
  /\ exit = 0
  /\ signalled = FALSE

\* Errors whose text quotes the user's files, keys and flags or the server's
\* own message.
Quoting == LocalCodes \cup {"usage", "AUTH_REJECTED", "REQUEST_REJECTED", "RATE_LIMITED",
                            "SERVER_ERROR", "RESPONSE_INVALID"}

\* The command's RunE returns the error e.
Fail(e) ==
  /\ pc' = "report"
  /\ err' = e
  /\ phrase' \in IF e \in Quoting THEN BOOLEAN ELSE {e = "args"}

Go(where) ==
  /\ pc' = where
  /\ UNCHANGED <<err, phrase>>

------------------------------------------------------------------------------
(* Cobra's part, and NewRootCmd's persistent pre-run.                      *)

\* root.Find fails: no command ever runs.
UnknownCommand ==
  /\ pc = "start"
  /\ Go("exited")
  /\ stderr' = <<"error">>
  /\ exit' = 2
  /\ UNCHANGED <<cmd, wantsUsage, inputVars, workVars, installed, signalled>>

BadInvocation ==
  /\ pc = "start"
  /\ \E e \in {"usage", "args"} : Fail(e)
  /\ UNCHANGED <<cmd, wantsUsage, inputVars, workVars, installed, reportVars, signalled>>

\* The summary goes into the context before the trace id is looked at.
PreRun ==
  /\ pc = "start"
  /\ installed' = (wantsUsage /\ cmd \in Paid)
  /\ Go("check") \/ Fail("usage")
  /\ UNCHANGED <<cmd, wantsUsage, inputVars, workVars, reportVars, signalled>>

------------------------------------------------------------------------------
(* The commands.                                                           *)

CheckFailsNow ==
  /\ pc = "check"
  /\ step <= Len(Steps[cmd])
  /\ \E e \in CheckFails(Steps[cmd][step]) : Fail(e)
  /\ UNCHANGED <<cmd, wantsUsage, inputVars, workVars, installed, reportVars, signalled>>

CheckPasses ==
  /\ pc = "check"
  /\ step <= Len(Steps[cmd])
  /\ step' = step + 1
  /\ total' \in IF Steps[cmd][step] = "stdin" THEN Totals ELSE {total}
  /\ Go("check")
  /\ UNCHANGED <<cmd, wantsUsage, at, judged, workVars, installed, reportVars, signalled>>

\* All local checks have passed.  A one-request command counts its whole
\* input as processed.
Prepared ==
  /\ pc = "check"
  /\ step > Len(Steps[cmd])
  /\ \/ cmd \in OneRequest /\ Go("ready") /\ usage' = Count("processed", total)
     \/ cmd = "models" /\ Go("ready") /\ UNCHANGED usage
     \/ cmd = "validate" /\ Go("write") /\ UNCHANGED usage
     \/ cmd \in PerRecord \cup {"gate"} /\ Go("record") /\ UNCHANGED usage
  /\ UNCHANGED <<cmd, wantsUsage, inputVars, calls, answered, written, installed, reportVars, signalled>>

\* processMapInput takes the next record.
NextRecord ==
  /\ pc = "record"
  /\ cmd \in PerRecord
  /\ at < total
  /\ usage' = Count("processed", 1)
  /\ Go("ready")
  /\ UNCHANGED <<cmd, wantsUsage, inputVars, calls, answered, written, installed, reportVars, signalled>>

\* The record's state, request or evidence slot is refused, or the reduce
\* collection is, or a request that passed its checks cannot be encoded.
Refused ==
  /\ pc = "ready"
  /\ \/ cmd \in PerRecord \cup {"reduce"} /\ Fail("INPUT_INVALID")
     \/ cmd # "models" /\ Fail("REQUEST_INVALID")
  /\ UNCHANGED <<cmd, wantsUsage, inputVars, workVars, installed, reportVars, signalled>>

\* The client is called; with the context cancelled nothing is sent.
Evaluate ==
  /\ pc = "ready"
  /\ \/ ~signalled /\ calls' = calls + 1 /\ Go("calling") /\ UNCHANGED usage
     \/ signalled /\ Fail("INTERRUPTED") /\ usage' = Count("attempted", 1) /\ UNCHANGED calls
  /\ UNCHANGED <<cmd, wantsUsage, inputVars, answered, written, installed, reportVars, signalled>>

\* Mutant: only an answered call counts its attempts.
CallFails_Uncounted ==
  /\ pc = "calling"
  /\ \/ \E e \in ServiceCodes \ {"AUTH_MISSING"} : Fail(e)
     \/ signalled /\ Fail("INTERRUPTED")
  /\ UNCHANGED <<cmd, wantsUsage, inputVars, workVars, installed, reportVars, signalled>>

CallFails ==
  /\ pc = "calling"
  /\ \/ \E e \in ServiceCodes \ {"AUTH_MISSING"} : Fail(e)
     \/ signalled /\ Fail("INTERRUPTED")
  /\ \E k \in 1 .. MaxAttempts : usage' = Count("attempted", k)
  /\ UNCHANGED <<cmd, wantsUsage, inputVars, calls, answered, written, installed, reportVars, signalled>>

CallAnswers ==
  /\ pc = "calling"
  /\ answered' = answered + 1
  /\ \E k \in 1 .. MaxAttempts :
       usage' = IF installed
                  THEN [usage EXCEPT !.attempted = @ + k, !.successful = @ + 1]
                  ELSE usage
  /\ Go("attach")
  /\ UNCHANGED <<cmd, wantsUsage, inputVars, calls, written, installed, reportVars, signalled>>

\* Mutant: the evidence slot is looked at only when the response is attached.
Attach_ChecksSlotLate ==
  /\ pc = "attach"
  /\ \/ Fail("INPUT_INVALID") /\ UNCHANGED usage
     \/ Go("write") /\ usage' = Count("answers", 1)
  /\ UNCHANGED <<cmd, wantsUsage, inputVars, calls, answered, written, installed, reportVars, signalled>>

\* The response becomes evidence, and only then do its answers count: rank may
\* still find the distribution unusable, and encoding may fail.  ask encodes
\* as it writes, and models prints what it decoded.
Attach ==
  /\ pc = "attach"
  /\ \/ cmd \notin {"ask", "models"} /\ Fail("RESPONSE_INVALID") /\ UNCHANGED usage
     \/ Go("write") /\ usage' = Count("answers", 1)
  /\ UNCHANGED <<cmd, wantsUsage, inputVars, calls, answered, written, installed, reportVars, signalled>>

\* Mutant: gate stops at the first reject.
Judge_FailFast ==
  /\ pc = "record"
  /\ cmd = "gate"
  /\ at < total
  /\ \/ /\ Fail("INPUT_INVALID") \/ Fail("reject")
        /\ UNCHANGED judged
     \/ \E d \in Decisions \ {"reject"} : judged' = [judged EXCEPT ![d] = @ + 1] /\ Go("write")
  /\ UNCHANGED <<cmd, wantsUsage, step, total, at, workVars, installed, reportVars, signalled>>

\* gate decides one record.
Judge ==
  /\ pc = "record"
  /\ cmd = "gate"
  /\ at < total
  /\ \/ Fail("INPUT_INVALID") /\ UNCHANGED judged
     \/ \E d \in Decisions : judged' = [judged EXCEPT ![d] = @ + 1] /\ Go("write")
  /\ UNCHANGED <<cmd, wantsUsage, step, total, at, workVars, installed, reportVars, signalled>>

WriteDocument ==
  /\ pc = "write"
  /\ written' = written + 1
  /\ at' = at + 1
  /\ Go(IF cmd \in PerRecord \cup {"gate"} THEN "record" ELSE "report")
  /\ UNCHANGED <<cmd, wantsUsage, step, total, judged, calls, answered, usage, installed,
                 reportVars, signalled>>

\* Mutant: a document that cannot be written is left out.
WriteFails_Skips ==
  /\ pc = "write"
  /\ at' = at + 1
  /\ Go(IF cmd \in PerRecord \cup {"gate"} THEN "record" ELSE "report")
  /\ UNCHANGED <<cmd, wantsUsage, step, total, judged, workVars, installed, reportVars, signalled>>

\* stdout fails, or the renderer does.
WriteFails ==
  /\ pc = "write"
  /\ Fail(IF cmd \in {"rank", "reduce", "models"} THEN "write" ELSE "RESPONSE_INVALID")
  /\ ~phrase'
  /\ UNCHANGED <<cmd, wantsUsage, inputVars, workVars, installed, reportVars, signalled>>

\* gate's aggregate status: reject takes precedence.
Policy ==
  IF judged["reject"] > 0 THEN "reject"
  ELSE IF judged["uncertain"] > 0 THEN "uncertain"
  ELSE "none"

RecordsDone ==
  /\ pc = "record"
  /\ at = total
  /\ IF Policy = "none" THEN Go("report") ELSE Fail(Policy)
  /\ UNCHANGED <<cmd, wantsUsage, inputVars, workVars, installed, reportVars, signalled>>

------------------------------------------------------------------------------
(* The end of RunWithDeps.                                                 *)

ExitCode(e) ==
  CASE e \in ServiceCodes            -> 1
    [] e \in LocalCodes \cup {"usage"} -> 2
    [] e = "INTERRUPTED"             -> 130
    [] OTHER                         -> 1

ExitStatus ==
  CASE err = "none"      -> 0
    [] err = "reject"    -> 10
    [] err = "uncertain" -> 11
    [] OTHER             -> IF phrase THEN 2 ELSE ExitCode(err)

Report ==
  /\ pc = "report"
  /\ exit' = ExitStatus
  /\ stderr' = IF err \in Policies \cup {"none"} THEN stderr ELSE Append(stderr, "error")
  /\ Go("summary")
  /\ UNCHANGED <<cmd, wantsUsage, inputVars, workVars, installed, signalled>>

\* Mutant: the summary is written after a success only.
WriteUsage_OnSuccess ==
  /\ pc = "summary"
  /\ stderr' = IF installed /\ exit = 0 THEN Append(stderr, "summary") ELSE stderr
  /\ Go("exited")
  /\ UNCHANGED <<cmd, wantsUsage, inputVars, workVars, installed, exit, signalled>>

\* The deferred usage summary.
WriteUsage ==
  /\ pc = "summary"
  /\ stderr' = IF installed THEN Append(stderr, "summary") ELSE stderr
  /\ Go("exited")
  /\ UNCHANGED <<cmd, wantsUsage, inputVars, workVars, installed, exit, signalled>>

\* Only the client ever looks at the context.
Interrupt ==
  /\ ~signalled
  /\ pc # "exited"
  /\ signalled' = TRUE
  /\ UNCHANGED <<cmd, wantsUsage, pc, inputVars, workVars, installed, err, phrase, reportVars>>

Finished == pc = "exited" /\ UNCHANGED vars

Next ==
  \/ UnknownCommand \/ BadInvocation \/ PreRun
  \/ CheckFailsNow \/ CheckPasses \/ Prepared
  \/ NextRecord \/ Refused \/ Evaluate \/ CallFails \/ CallAnswers \/ Attach
  \/ Judge \/ WriteDocument \/ WriteFails \/ RecordsDone
  \/ Report \/ WriteUsage \/ Interrupt \/ Finished

Spec == Init /\ [][Next]_vars

------------------------------------------------------------------------------
(* Properties.                                                             *)

\* A local error costs nothing that is not on stdout: every evaluation a
\* command had begun before it was answered and its document written.  For a
\* one-request command that means none was begun.
LocalErrorsAreFree ==
  cmd \in Paid /\ err \in LocalCodes => calls = answered /\ answered = written

\* A response that was paid for is missing from stdout only while it is being
\* attached or written, or when the run fails for that very reason.
NoSilentLoss ==
  cmd \in Paid =>
    /\ written <= answered
    /\ answered <= written + 1
    /\ answered # written => pc \in {"attach", "write"} \/ err \in {"RESPONSE_INVALID", "write"}

\* The usage summary agrees with what happened: successes are the responses
\* the client gave, answers are those attached, no request without an attempt
\* and no record's request without the record.
UsageBalances ==
  installed /\ pc = "exited" =>
    /\ usage.successful = answered
    /\ usage.answers \in {written, written + 1}
    /\ usage.answers = written + 1 => err \in {"RESPONSE_INVALID", "write"}
    /\ usage.answers # usage.successful => err = "RESPONSE_INVALID" /\ cmd # "ask"
    /\ usage.attempted >= calls
    /\ usage.processed >= calls

\* Once --usage-summary took effect, its line is written whatever happens, once,
\* and after the error line; a policy status and a success print no error.
SummaryIsFinal ==
  pc = "exited" =>
    stderr = (IF exit \in {0, 10, 11} THEN <<>> ELSE <<"error">>)
             \o (IF installed THEN <<"summary">> ELSE <<>>)

\* Success and gate's statuses are reported only with the output complete, and
\* reject before uncertain.
ExitMeansComplete ==
  pc = "exited" /\ exit \in {0, 10, 11} =>
    /\ written = IF cmd \in PerRecord \cup {"gate"} THEN total ELSE 1
    /\ (exit = 10) = (judged["reject"] > 0)
    /\ (exit = 11) = (judged["reject"] = 0 /\ judged["uncertain"] > 0)

\* What ExitCode's comment says: a stable code always wins.
StableCodeWins == pc = "exited" /\ err \in Codes => exit = ExitCode(err)

==============================================================================
