----------------------------- MODULE CommandProofs -----------------------------
(***************************************************************************)
(* Proofs about Command for every number of records and attempts: what a   *)
(* paid command may lose, and that its status and summary tell the truth.  *)
(* The invariants say, for each place a run can be at, how many calls are  *)
(* begun, answered, counted and written there (Ledger, Balanced), what a   *)
(* concluded run has done (Concluded) and what stderr holds (Reported).    *)
(***************************************************************************)
EXTENDS Command, TLAPS

Before == {"start", "check", "record", "ready"}
After  == {"report", "summary", "exited"}

\* The counters are numbers, and a run has no error before it reports one.
Places ==
  /\ cmd \in Commands
  /\ pc \in PCs
  /\ calls \in Nat
  /\ answered \in Nat
  /\ written \in Nat
  /\ pc \notin After => err = "none"

\* Where a paid command is, and what it has begun, got and written there.
Ledger ==
  cmd \in Paid =>
    /\ pc \in Before => calls = answered /\ answered = written
    /\ pc = "calling" => calls = answered + 1 /\ answered = written
    /\ pc = "attach" => calls = answered /\ answered = written + 1
    /\ pc = "write" => calls = answered /\ answered = written + 1
    /\ pc \in After =>
         /\ written <= answered
         /\ answered <= written + 1
         /\ err \in LocalCodes => calls = answered
         /\ err \notin {"RESPONSE_INVALID", "write"} => answered = written

LInv == Places /\ Ledger

------------------------------------------------------------------------------
\* The codes of a failed check are codes.
LEMMA CheckCodes == \A check, e : e \in CheckFails(check) => e \in Codes
<1>1. ASSUME NEW check, NEW e, e \in CheckFails(check) PROVE e \in Codes
  <2>1. CASE check = "sources"
    BY <1>1, <2>1 DEF CheckFails, Codes
  <2>2. CASE check = "flags"
    BY <1>1, <2>2 DEF CheckFails, Codes, LocalCodes
  <2>3. CASE check \in {"state", "stdin", "candidates", "options", "model"}
    BY <1>1, <2>3 DEF CheckFails, Codes, LocalCodes
  <2>4. CASE check \in {"value", "request"}
    BY <1>1, <2>4 DEF CheckFails, Codes, LocalCodes
  <2>5. CASE check = "provider"
    BY <1>1, <2>5 DEF CheckFails, Codes, LocalCodes, ServiceCodes
  <2>6. CASE check \notin {"sources", "flags", "state", "stdin", "candidates", "options", "model",
                           "value", "request", "provider"}
    BY <1>1, <2>6 DEF CheckFails, Codes, LocalCodes
  <2>. QED BY <2>1, <2>2, <2>3, <2>4, <2>5, <2>6
<1>. QED BY <1>1

\* The initial states satisfy the ledger.
LEMMA LedgerInit == Init => LInv
BY DEF Init, LInv, Places, Ledger, Before, After, PCs

\* No step breaks it.
LEMMA LedgerStep == LInv /\ [Next]_vars => LInv'
<1> SUFFICES ASSUME LInv, [Next]_vars PROVE LInv'
  OBVIOUS
<1> USE DEF LInv, Places, Ledger, Before, After
<1>1. CASE UnknownCommand
  BY <1>1 DEF UnknownCommand, Go, workVars, inputVars, PCs
<1>2. CASE BadInvocation
  BY <1>2 DEF BadInvocation, Fail, workVars, inputVars, PCs
<1>3. CASE PreRun
  BY <1>3 DEF PreRun, Fail, Go, workVars, inputVars, PCs
<1>4. CASE CheckFailsNow
  BY <1>4 DEF CheckFailsNow, Fail, workVars, inputVars, PCs
<1>5. CASE CheckPasses
  BY <1>5 DEF CheckPasses, Go, workVars, inputVars, PCs
<1>6. CASE Prepared
  BY <1>6 DEF Prepared, Go, inputVars, PCs, Paid, OneRequest, PerRecord, Commands
<1>7. CASE NextRecord
  BY <1>7 DEF NextRecord, Go, inputVars, PCs
<1>8. CASE Refused
  BY <1>8 DEF Refused, Fail, workVars, inputVars, PCs
<1>9. CASE Evaluate
  BY <1>9 DEF Evaluate, Go, Fail, inputVars, PCs
<1>10. CASE CallFails
  BY <1>10 DEF CallFails, Fail, inputVars, PCs, ServiceCodes, LocalCodes
<1>11. CASE CallAnswers
  BY <1>11 DEF CallAnswers, Go, inputVars, PCs
<1>12. CASE Attach
  BY <1>12 DEF Attach, Go, Fail, inputVars, PCs, LocalCodes
<1>13. CASE Judge
  BY <1>13 DEF Judge, Go, Fail, workVars, PCs, Paid, OneRequest, PerRecord
<1>14. CASE WriteDocument
  BY <1>14 DEF WriteDocument, Go, PCs, Paid, OneRequest, PerRecord
<1>15. CASE WriteFails
  BY <1>15 DEF WriteFails, Fail, workVars, inputVars, PCs, LocalCodes
<1>16. CASE RecordsDone
  BY <1>16 DEF RecordsDone, Go, Fail, workVars, inputVars, PCs
<1>17. CASE Report
  BY <1>17 DEF Report, Go, workVars, inputVars, PCs
<1>18. CASE WriteUsage
  BY <1>18 DEF WriteUsage, Go, workVars, inputVars, PCs
<1>19. CASE Interrupt
  BY <1>19 DEF Interrupt, workVars, inputVars
<1>20. CASE Finished
  BY <1>20 DEF Finished, vars, workVars, inputVars
<1>21. CASE UNCHANGED vars
  BY <1>21 DEF vars, workVars, inputVars
<1>. QED
  BY <1>1, <1>2, <1>3, <1>4, <1>5, <1>6, <1>7, <1>8, <1>9, <1>10, <1>11, <1>12, <1>13, <1>14,
     <1>15, <1>16, <1>17, <1>18, <1>19, <1>20, <1>21 DEF Next

\* The ledger holds in every run.
LEMMA LedgerHolds == Spec => []LInv
BY LedgerInit, LedgerStep, PTL DEF Spec

\* A local error costs nothing that is not on stdout, whatever the number of
\* records: every evaluation begun was answered and written.
THEOREM LocalErrorsFree == Spec => []LocalErrorsAreFree
<1>1. LInv => LocalErrorsAreFree
  <2> SUFFICES ASSUME LInv, cmd \in Paid, err \in LocalCodes
               PROVE calls = answered /\ answered = written
    BY DEF LocalErrorsAreFree
  <2>1. pc \in After
    BY DEF LInv, Places, LocalCodes
  <2>. QED BY <2>1 DEF LInv, Ledger, LocalCodes
<1>. QED BY <1>1, LedgerHolds, PTL

\* A response that was paid for is lost only with an error that says so.
THEOREM NothingLostSilently == Spec => []NoSilentLoss
<1>1. LInv => NoSilentLoss
  BY DEF LInv, Places, Ledger, NoSilentLoss, Before, After, PCs
<1>. QED BY <1>1, LedgerHolds, PTL

------------------------------------------------------------------------------
(* What the process says at its end.                                       *)

Batch    == PerRecord \cup {"gate"}
Verdicts == Policies \cup {"none"}

\* A document is written for every record dealt with, or one is; and gate alone
\* judges.
Delivered ==
  /\ judged \in [Decisions -> Nat]
  /\ total \in Nat
  /\ cmd # "gate" => judged["reject"] = 0 /\ judged["uncertain"] = 0
  /\ cmd \in Batch => written = at
  /\ cmd \notin Batch /\ pc \notin After => written = 0
  /\ cmd \notin Batch => pc # "record"

\* A command that ends well, or with one of gate's verdicts, has done all of
\* its work; the one exception never was a command.
Concluded ==
  pc \in After /\ err \in Verdicts =>
    \/ /\ written = IF cmd \in Batch THEN total ELSE 1
       /\ err = Policy
    \/ pc = "exited" /\ exit = 2

\* stderr follows from the exit status, line by line.
ErrorLine(status) == IF status \in {0, 10, 11} THEN <<>> ELSE <<"error">>

Reported ==
  /\ installed \in BOOLEAN
  /\ pc = "start" => ~installed
  /\ pc \notin {"summary", "exited"} => stderr = <<>>
  /\ pc = "summary" => stderr = ErrorLine(exit)
  /\ pc = "exited" =>
       stderr = ErrorLine(exit) \o (IF installed THEN <<"summary">> ELSE <<>>)
  /\ pc \in {"summary", "exited"} => exit = ExitStatus \/ (pc = "exited" /\ exit = 2)

EInv == Delivered /\ Concluded /\ Reported

\* The status of an error that is no verdict.
LEMMA ErrorStatus ==
  /\ err = "none" => ExitStatus = 0
  /\ err = "reject" => ExitStatus = 10
  /\ err = "uncertain" => ExitStatus = 11
  /\ err \notin Verdicts => ExitStatus \in {1, 2, 130}
<1>1. ASSUME err \notin Verdicts PROVE ExitStatus \in {1, 2, 130}
  <2>1. ExitCode(err) \in {1, 2, 130}
    <3>1. CASE err \in ServiceCodes
      BY <3>1 DEF ExitCode, ServiceCodes, LocalCodes
    <3>2. CASE err \in LocalCodes \cup {"usage"}
      BY <3>2 DEF ExitCode, ServiceCodes, LocalCodes
    <3>3. CASE err = "INTERRUPTED"
      BY <3>3 DEF ExitCode, ServiceCodes, LocalCodes
    <3>4. CASE err \notin ServiceCodes \cup LocalCodes \cup {"usage", "INTERRUPTED"}
      BY <3>4 DEF ExitCode
    <3>. QED BY <3>1, <3>2, <3>3, <3>4
  <2>. QED BY <1>1, <2>1 DEF ExitStatus, Verdicts, Policies
<1>. QED BY <1>1 DEF ExitStatus

LEMMA EndInit == Init => EInv
<1> SUFFICES ASSUME Init PROVE EInv
  OBVIOUS
<1>1. judged \in [Decisions -> Nat] /\ judged["reject"] = 0 /\ judged["uncertain"] = 0
  BY DEF Init, Decisions, Policies
<1>2. Delivered
  BY <1>1 DEF Init, Delivered, After
<1>3. Concluded
  BY DEF Init, Concluded, After
<1>4. Reported
  BY DEF Init, Reported
<1>. QED BY <1>2, <1>3, <1>4 DEF EInv

LEMMA DeliveredStep == LInv /\ Delivered /\ [Next]_vars => Delivered'
<1> SUFFICES ASSUME Places, Delivered, [Next]_vars PROVE Delivered'
  BY DEF LInv
<1> USE DEF Delivered, After, Batch, Places
<1>1. CASE UnknownCommand
  BY <1>1 DEF UnknownCommand, Go, Fail, workVars, inputVars, reportVars
<1>2. CASE BadInvocation
  BY <1>2 DEF BadInvocation, Go, Fail, workVars, inputVars, reportVars
<1>3. CASE PreRun
  BY <1>3 DEF PreRun, Go, Fail, workVars, inputVars, reportVars
<1>4. CASE CheckFailsNow
  BY <1>4 DEF CheckFailsNow, Go, Fail, workVars, inputVars, reportVars
<1>5. CASE CheckPasses
  BY <1>5, CommandAssumption DEF CheckPasses, Go, Fail, workVars, inputVars, reportVars, Totals, PerRecord
<1>6. CASE Prepared
  BY <1>6 DEF Prepared, Go, Fail, workVars, inputVars, reportVars, Commands, Paid, OneRequest, PerRecord
<1>7. CASE NextRecord
  BY <1>7 DEF NextRecord, Go, Fail, workVars, inputVars, reportVars
<1>8. CASE Refused
  BY <1>8 DEF Refused, Go, Fail, workVars, inputVars, reportVars
<1>9. CASE Evaluate
  BY <1>9 DEF Evaluate, Go, Fail, workVars, inputVars, reportVars
<1>10. CASE CallFails
  BY <1>10 DEF CallFails, Go, Fail, workVars, inputVars, reportVars
<1>11. CASE CallAnswers
  BY <1>11 DEF CallAnswers, Go, Fail, workVars, inputVars, reportVars
<1>12. CASE Attach
  BY <1>12 DEF Attach, Go, Fail, workVars, inputVars, reportVars
<1>13. CASE Judge
  <2>1. cmd = "gate" /\ cmd' = cmd /\ total' = total /\ at' = at /\ written' = written
    BY <1>13 DEF Judge, workVars
  <2>2. judged' \in [Decisions -> Nat]
    BY <1>13 DEF Judge
  <2>. QED BY <1>13, <2>1, <2>2 DEF Judge, Go, Fail
<1>14. CASE WriteDocument
  BY <1>14 DEF WriteDocument, Go, Fail, workVars, inputVars, reportVars, PerRecord
<1>15. CASE WriteFails
  BY <1>15 DEF WriteFails, Go, Fail, workVars, inputVars, reportVars
<1>16. CASE RecordsDone
  BY <1>16 DEF RecordsDone, Go, Fail, workVars, inputVars, reportVars
<1>17. CASE Report
  BY <1>17 DEF Report, Go, Fail, workVars, inputVars, reportVars
<1>18. CASE WriteUsage
  BY <1>18 DEF WriteUsage, Go, Fail, workVars, inputVars, reportVars
<1>19. CASE Interrupt
  BY <1>19 DEF Interrupt, Go, Fail, workVars, inputVars, reportVars
<1>20. CASE Finished
  BY <1>20 DEF Finished, Go, Fail, workVars, inputVars, reportVars, vars
<1>21. CASE UNCHANGED vars
  BY <1>21 DEF vars, workVars, inputVars, reportVars
<1>. QED
  BY <1>1, <1>2, <1>3, <1>4, <1>5, <1>6, <1>7, <1>8, <1>9, <1>10, <1>11, <1>12, <1>13, <1>14, <1>15, <1>16, <1>17, <1>18, <1>19, <1>20, <1>21 DEF Next

LEMMA ConcludedStep == LInv /\ Delivered /\ Reported /\ Concluded /\ [Next]_vars => Concluded'
<1> SUFFICES ASSUME Places, Delivered, Reported, Concluded, [Next]_vars PROVE Concluded'
  BY DEF LInv
<1> USE DEF Concluded, Verdicts, Policies, After, Batch, Places
<1>1. CASE UnknownCommand
  BY <1>1 DEF UnknownCommand, Go, Fail, workVars, inputVars, reportVars
<1>2. CASE BadInvocation
  BY <1>2 DEF BadInvocation, Go, Fail, workVars, inputVars, reportVars
<1>3. CASE PreRun
  BY <1>3 DEF PreRun, Go, Fail, workVars, inputVars, reportVars
<1>4. CASE CheckFailsNow
  BY <1>4, CheckCodes DEF CheckFailsNow, Codes, LocalCodes, ServiceCodes, Fail
<1>5. CASE CheckPasses
  BY <1>5 DEF CheckPasses, Go, Fail, workVars, inputVars, reportVars
<1>6. CASE Prepared
  BY <1>6 DEF Prepared, Go, Fail, workVars, inputVars, reportVars
<1>7. CASE NextRecord
  BY <1>7 DEF NextRecord, Go, Fail, workVars, inputVars, reportVars
<1>8. CASE Refused
  BY <1>8 DEF Refused, Go, Fail, workVars, inputVars, reportVars
<1>9. CASE Evaluate
  BY <1>9 DEF Evaluate, Go, Fail, workVars, inputVars, reportVars
<1>10. CASE CallFails
  BY <1>10 DEF CallFails, Fail, ServiceCodes
<1>11. CASE CallAnswers
  BY <1>11 DEF CallAnswers, Go, Fail, workVars, inputVars, reportVars
<1>12. CASE Attach
  BY <1>12 DEF Attach, Go, Fail, workVars, inputVars, reportVars
<1>13. CASE Judge
  BY <1>13 DEF Judge, Go, Fail, workVars, inputVars, reportVars
<1>14. CASE WriteDocument
  <2>1. cmd' = cmd /\ total' = total /\ judged' = judged /\ written' = written + 1 /\ err' = err
    BY <1>14 DEF WriteDocument, Go
  <2>2. CASE cmd \in Batch
    BY <1>14, <2>2 DEF WriteDocument, Go
  <2>3. CASE cmd \notin Batch
    <3>1. written' = 1 /\ err' = "none"
      BY <1>14, <2>1, <2>3 DEF WriteDocument, Delivered
    <3>2. Policy' = "none"
      BY <2>1, <2>3 DEF Policy, Delivered
    <3>. QED BY <2>1, <2>3, <3>1, <3>2
  <2>. QED BY <2>2, <2>3
<1>15. CASE WriteFails
  BY <1>15 DEF WriteFails, Go, Fail, workVars, inputVars, reportVars
<1>16. CASE RecordsDone
  <2>1. cmd' = cmd /\ total' = total /\ written' = written /\ err' = Policy /\ Policy' = Policy
    BY <1>16 DEF RecordsDone, Go, Fail, workVars, inputVars, Policy
  <2>2. cmd \in Batch /\ written = total
    BY <1>16 DEF RecordsDone, Delivered
  <2>. QED BY <2>1, <2>2
<1>17. CASE Report
  BY <1>17 DEF Policy, Report, Go, Fail, workVars, inputVars, reportVars
<1>18. CASE WriteUsage
  BY <1>18 DEF Policy, WriteUsage, Go, Fail, workVars, inputVars, reportVars
<1>19. CASE Interrupt
  BY <1>19 DEF Policy, Interrupt, Go, Fail, workVars, inputVars, reportVars
<1>20. CASE Finished
  BY <1>20 DEF Policy, Finished, Go, Fail, workVars, inputVars, reportVars, vars
<1>21. CASE UNCHANGED vars
  BY <1>21 DEF Policy, vars, workVars, inputVars, reportVars
<1>. QED
  BY <1>1, <1>2, <1>3, <1>4, <1>5, <1>6, <1>7, <1>8, <1>9, <1>10, <1>11, <1>12, <1>13, <1>14, <1>15, <1>16, <1>17, <1>18, <1>19, <1>20, <1>21 DEF Next

\* Lines are appended one by one.
LEMMA LinesAdd ==
  /\ <<>> \o <<>> = <<>> /\ <<"error">> \o <<>> = <<"error">>
  /\ Append(<<>>, "error") = <<"error">>
  /\ Append(<<>>, "summary") = <<>> \o <<"summary">>
  /\ Append(<<"error">>, "summary") = <<"error">> \o <<"summary">>
OBVIOUS

LEMMA ReportedStep == Reported /\ [Next]_vars => Reported'
<1> SUFFICES ASSUME Reported, [Next]_vars PROVE Reported'
  OBVIOUS
<1> USE DEF Reported
<1>1. CASE UnknownCommand
  BY <1>1, LinesAdd DEF ErrorLine, UnknownCommand, Go, Fail, workVars, inputVars, reportVars
<1>2. CASE BadInvocation
  BY <1>2 DEF BadInvocation, Go, Fail, workVars, inputVars, reportVars
<1>3. CASE PreRun
  BY <1>3 DEF PreRun, Go, Fail, workVars, inputVars, reportVars
<1>4. CASE CheckFailsNow
  BY <1>4 DEF CheckFailsNow, Go, Fail, workVars, inputVars, reportVars
<1>5. CASE CheckPasses
  BY <1>5 DEF CheckPasses, Go, Fail, workVars, inputVars, reportVars
<1>6. CASE Prepared
  BY <1>6 DEF Prepared, Go, Fail, workVars, inputVars, reportVars
<1>7. CASE NextRecord
  BY <1>7 DEF NextRecord, Go, Fail, workVars, inputVars, reportVars
<1>8. CASE Refused
  BY <1>8 DEF Refused, Go, Fail, workVars, inputVars, reportVars
<1>9. CASE Evaluate
  BY <1>9 DEF Evaluate, Go, Fail, workVars, inputVars, reportVars
<1>10. CASE CallFails
  BY <1>10 DEF CallFails, Go, Fail, workVars, inputVars, reportVars
<1>11. CASE CallAnswers
  BY <1>11 DEF CallAnswers, Go, Fail, workVars, inputVars, reportVars
<1>12. CASE Attach
  BY <1>12 DEF Attach, Go, Fail, workVars, inputVars, reportVars
<1>13. CASE Judge
  BY <1>13 DEF Judge, Go, Fail, workVars, inputVars, reportVars
<1>14. CASE WriteDocument
  BY <1>14 DEF WriteDocument, Go, Fail, workVars, inputVars, reportVars
<1>15. CASE WriteFails
  BY <1>15 DEF WriteFails, Go, Fail, workVars, inputVars, reportVars
<1>16. CASE RecordsDone
  BY <1>16 DEF RecordsDone, Go, Fail, workVars, inputVars, reportVars
<1>17. CASE Report
  <2>1. /\ exit' = ExitStatus /\ ExitStatus' = ExitStatus
        /\ installed' = installed /\ pc = "report" /\ pc' = "summary"
    BY <1>17 DEF Report, Go, ExitStatus, inputVars
  <2>2. stderr = <<>>
    BY <2>1
  <2>3. stderr' = ErrorLine(ExitStatus)
    <3>1. CASE err \in Verdicts
      BY <1>17, <2>2, <3>1, ErrorStatus DEF Report, ErrorLine, Verdicts, Policies
    <3>2. CASE err \notin Verdicts
      BY <1>17, <2>2, <3>2, ErrorStatus, LinesAdd DEF Report, ErrorLine, Verdicts
    <3>. QED BY <3>1, <3>2
  <2>. QED BY <2>1, <2>3
<1>18. CASE WriteUsage
  <2>1. /\ exit' = exit /\ ExitStatus' = ExitStatus
        /\ installed' = installed /\ pc = "summary" /\ pc' = "exited"
    BY <1>18 DEF WriteUsage, Go, ExitStatus
  <2>2. stderr' = ErrorLine(exit) \o (IF installed THEN <<"summary">> ELSE <<>>)
    BY <1>18, <2>1, LinesAdd DEF WriteUsage, ErrorLine
  <2>. QED BY <2>1, <2>2
<1>19. CASE Interrupt
  BY <1>19 DEF ExitStatus, Interrupt, Go, Fail, workVars, inputVars, reportVars
<1>20. CASE Finished
  BY <1>20 DEF ExitStatus, Finished, Go, Fail, workVars, inputVars, reportVars, vars
<1>21. CASE UNCHANGED vars
  BY <1>21 DEF ExitStatus, vars, workVars, inputVars, reportVars
<1>. QED
  BY <1>1, <1>2, <1>3, <1>4, <1>5, <1>6, <1>7, <1>8, <1>9, <1>10, <1>11, <1>12, <1>13, <1>14, <1>15, <1>16, <1>17, <1>18, <1>19, <1>20, <1>21 DEF Next

LEMMA EndHolds == Spec => []EInv
<1>1. LInv /\ EInv /\ [Next]_vars => EInv'
  BY DeliveredStep, ConcludedStep, ReportedStep DEF EInv
<1>. QED BY <1>1, EndInit, LedgerHolds, PTL DEF Spec

\* Whatever ends the run, stderr holds the error line where the status is an
\* error's and then, where --usage-summary took effect, the summary, once.
THEOREM SummaryComesLast == Spec => []SummaryIsFinal
<1>1. EInv => SummaryIsFinal
  BY DEF EInv, Reported, ErrorLine, SummaryIsFinal
<1>. QED BY <1>1, EndHolds, PTL

\* A status of success or of gate's policy is reported with every document
\* written, and is the one the decisions call for.
THEOREM StatusIsEarned == Spec => []ExitMeansComplete
<1>1. EInv => ExitMeansComplete
  <2> SUFFICES ASSUME EInv, pc = "exited", exit \in {0, 10, 11}
               PROVE  /\ written = IF cmd \in Batch THEN total ELSE 1
                      /\ (exit = 10) = (judged["reject"] > 0)
                      /\ (exit = 11) = (judged["reject"] = 0 /\ judged["uncertain"] > 0)
    BY DEF ExitMeansComplete, Batch
  <2>1. exit = ExitStatus /\ err \in Verdicts
    BY ErrorStatus DEF EInv, Reported
  <2>2. /\ written = IF cmd \in Batch THEN total ELSE 1
        /\ err = Policy
    BY <2>1 DEF EInv, Concluded, After
  <2>3. judged["reject"] \in Nat /\ judged["uncertain"] \in Nat
    BY DEF EInv, Delivered, Decisions, Policies
  <2>4. CASE judged["reject"] > 0
    BY <2>1, <2>2, <2>3, <2>4, ErrorStatus DEF Policy
  <2>5. CASE judged["reject"] = 0 /\ judged["uncertain"] > 0
    BY <2>1, <2>2, <2>3, <2>5, ErrorStatus DEF Policy
  <2>6. CASE judged["reject"] = 0 /\ judged["uncertain"] = 0
    BY <2>1, <2>2, <2>3, <2>6, ErrorStatus DEF Policy
  <2>. QED BY <2>2, <2>3, <2>4, <2>5, <2>6
<1>. QED BY <1>1, EndHolds, PTL

------------------------------------------------------------------------------
(* The usage summary.                                                      *)

Usages == [attempted : Nat, successful : Nat, processed : Nat, answers : Nat]

\* What the counters say beside the ledger, place by place: a record is counted
\* before its call, a response as it comes, answers as they are attached.
Counted ==
  /\ usage \in Usages
  /\ total \in Nat \ {0}
  /\ cmd \in OneRequest /\ pc \in {"start", "check", "ready"} => calls = 0
  /\ cmd \in OneRequest => calls <= 1 /\ pc # "record"
  /\ installed => cmd \in Paid
  /\ pc = "start" => ~installed
  /\ pc \in {"start", "check"} => usage = NoUsage /\ calls = 0

Balanced ==
  installed =>
    /\ usage.successful = answered
    /\ IF pc = "calling" THEN usage.attempted + 1 >= calls ELSE usage.attempted >= calls
    /\ pc = "ready" => usage.processed >= calls + 1
    /\ usage.processed >= calls
    /\ pc \in Before \cup {"calling", "attach"} => usage.answers = written
    /\ pc = "write" => usage.answers = written + 1
    /\ pc \in After =>
         /\ usage.answers \in {written, written + 1}
         /\ usage.answers = written + 1 => err \in {"RESPONSE_INVALID", "write"}
         /\ usage.answers # usage.successful => err = "RESPONSE_INVALID" /\ cmd # "ask"

UInv == Counted /\ Balanced

LEMMA UsageInit == Init => UInv
BY DEF Init, UInv, Counted, Balanced, Usages, NoUsage

LEMMA CountedStep == LInv /\ Counted /\ [Next]_vars => Counted'
<1> SUFFICES ASSUME Places, Counted, [Next]_vars PROVE Counted'
  BY DEF LInv
<1> USE DEF Counted, Places, Usages, Paid
<1>1. CASE UnknownCommand
  BY <1>1 DEF UnknownCommand, Go, Fail, workVars, inputVars
<1>2. CASE BadInvocation
  BY <1>2 DEF BadInvocation, Go, Fail, workVars, inputVars
<1>3. CASE PreRun
  BY <1>3 DEF PreRun, Go, Fail, workVars, inputVars
<1>4. CASE CheckFailsNow
  BY <1>4 DEF CheckFailsNow, Go, Fail, workVars, inputVars
<1>5. CASE CheckPasses
  BY <1>5, CommandAssumption DEF CheckPasses, Go, Fail, workVars, inputVars, Totals
<1>6. CASE Prepared
  BY <1>6 DEF Prepared, Go, Fail, workVars, inputVars, Count, Commands, OneRequest, PerRecord
<1>7. CASE NextRecord
  BY <1>7 DEF NextRecord, Go, Fail, workVars, inputVars, Count
<1>8. CASE Refused
  BY <1>8 DEF Refused, Go, Fail, workVars, inputVars
<1>9. CASE Evaluate
  BY <1>9, CommandAssumption DEF Evaluate, Go, Fail, workVars, inputVars, Count
<1>10. CASE CallFails
  BY <1>10, CommandAssumption DEF CallFails, Go, Fail, workVars, inputVars, Count
<1>11. CASE CallAnswers
  <2>1. PICK k \in 1 .. MaxAttempts :
               usage' = IF installed THEN [usage EXCEPT !.attempted = @ + k, !.successful = @ + 1]
                        ELSE usage
    BY <1>11 DEF CallAnswers
  <2>2. k \in Nat
    BY <2>1, CommandAssumption
  <2>3. usage' \in Usages
    <3> DEFINE first == [usage EXCEPT !.attempted = @ + k]
    <3>1. usage' = IF installed THEN [first EXCEPT !.successful = usage.successful + 1] ELSE usage
      BY <2>1, Zenon
    <3>2. first \in Usages /\ usage.successful + 1 \in Nat
      BY <2>2
    <3> HIDE DEF first
    <3>. QED BY <3>1, <3>2
  <2>. QED BY <1>11, <2>3 DEF CallAnswers, Go, inputVars
<1>12. CASE Attach
  BY <1>12 DEF Attach, Go, Fail, workVars, inputVars, Count
<1>13. CASE Judge
  BY <1>13 DEF Judge, Go, Fail, workVars, inputVars
<1>14. CASE WriteDocument
  BY <1>14 DEF WriteDocument, Go, OneRequest, PerRecord
<1>15. CASE WriteFails
  BY <1>15 DEF WriteFails, Go, Fail, workVars, inputVars
<1>16. CASE RecordsDone
  BY <1>16 DEF RecordsDone, Go, Fail, workVars, inputVars
<1>17. CASE Report
  BY <1>17 DEF Report, Go, Fail, workVars, inputVars
<1>18. CASE WriteUsage
  BY <1>18 DEF WriteUsage, Go, Fail, workVars, inputVars
<1>19. CASE Interrupt
  BY <1>19 DEF Interrupt, Go, Fail, workVars, inputVars
<1>20. CASE Finished
  BY <1>20 DEF Finished, Go, Fail, workVars, inputVars, vars
<1>21. CASE UNCHANGED vars
  BY <1>21 DEF vars, workVars, inputVars
<1>. QED
  BY <1>1, <1>2, <1>3, <1>4, <1>5, <1>6, <1>7, <1>8, <1>9, <1>10, <1>11, <1>12, <1>13, <1>14, <1>15, <1>16, <1>17, <1>18, <1>19, <1>20, <1>21 DEF Next

LEMMA BalancedStep == LInv /\ Counted /\ Balanced /\ [Next]_vars => Balanced'
<1> SUFFICES ASSUME Places, Ledger, Counted, Balanced, [Next]_vars, installed' PROVE Balanced'
  BY DEF LInv, Balanced
<1> USE DEF Counted, Balanced, Places, Ledger, Usages, Before, After
<1>1. CASE UnknownCommand
  BY <1>1 DEF UnknownCommand, Go, Fail, workVars, inputVars
<1>2. CASE BadInvocation
  BY <1>2 DEF BadInvocation, Go, Fail, workVars, inputVars
<1>3. CASE PreRun
  <2>1. cmd \in Paid
    BY <1>3 DEF PreRun
  <2>2. /\ calls = 0 /\ answered = 0 /\ written = 0 /\ usage = NoUsage
        /\ calls' = calls /\ answered' = answered /\ written' = written /\ usage' = usage
        /\ pc' \in {"check", "report"}
    BY <1>3, <2>1 DEF PreRun, Go, Fail, workVars
  <2>. QED BY <2>2 DEF NoUsage
<1>4. CASE CheckFailsNow
  BY <1>4 DEF CheckFailsNow, Go, Fail, workVars, inputVars
<1>5. CASE CheckPasses
  BY <1>5, CommandAssumption DEF CheckPasses, Go, Fail, workVars, inputVars
<1>6. CASE Prepared
  BY <1>6 DEF Prepared, Go, Fail, workVars, inputVars, Count, Commands, OneRequest, PerRecord, Paid
<1>7. CASE NextRecord
  BY <1>7 DEF NextRecord, Go, Fail, workVars, inputVars, Count
<1>8. CASE Refused
  BY <1>8 DEF Refused, Go, Fail, workVars, inputVars
<1>9. CASE Evaluate
  BY <1>9, CommandAssumption DEF Evaluate, Go, Fail, workVars, inputVars, Count
<1>10. CASE CallFails
  BY <1>10, CommandAssumption DEF CallFails, Go, Fail, workVars, inputVars, Count, ServiceCodes
<1>11. CASE CallAnswers
  BY <1>11, CommandAssumption DEF CallAnswers, Go, Fail, workVars, inputVars, Count
<1>12. CASE Attach
  BY <1>12 DEF Attach, Go, Fail, workVars, inputVars, Count
<1>13. CASE Judge
  BY <1>13 DEF Judge, Paid, OneRequest, PerRecord
<1>14. CASE WriteDocument
  BY <1>14 DEF WriteDocument, Go, Fail, workVars, inputVars
<1>15. CASE WriteFails
  BY <1>15 DEF WriteFails, Go, Fail, workVars, inputVars
<1>16. CASE RecordsDone
  BY <1>16 DEF RecordsDone, Go, Fail, workVars, inputVars
<1>17. CASE Report
  BY <1>17 DEF Report, Go, Fail, workVars, inputVars
<1>18. CASE WriteUsage
  BY <1>18 DEF WriteUsage, Go, Fail, workVars, inputVars
<1>19. CASE Interrupt
  BY <1>19 DEF Interrupt, Go, Fail, workVars, inputVars
<1>20. CASE Finished
  BY <1>20 DEF Finished, Go, Fail, workVars, inputVars, vars
<1>21. CASE UNCHANGED vars
  BY <1>21 DEF vars, workVars, inputVars
<1>. QED
  BY <1>1, <1>2, <1>3, <1>4, <1>5, <1>6, <1>7, <1>8, <1>9, <1>10, <1>11, <1>12, <1>13, <1>14, <1>15, <1>16, <1>17, <1>18, <1>19, <1>20, <1>21 DEF Next

\* The summary's counters agree with the calls, the responses and the documents,
\* however many there were and wherever the run stopped.
THEOREM CountersAgree == Spec => []UsageBalances
<1>1. LInv /\ UInv /\ [Next]_vars => UInv'
  BY CountedStep, BalancedStep DEF UInv
<1>2. UInv => UsageBalances
  BY DEF UInv, Counted, Balanced, UsageBalances, After, Usages
<1>. QED BY <1>1, <1>2, UsageInit, LedgerHolds, PTL DEF Spec

==============================================================================
