----------------------------- MODULE ClientProofs -----------------------------
(***************************************************************************)
(* Proofs about Client: whatever the retry budget, the cap and the server, *)
(* an evaluation is executed at most once, a refusal is certain, no wait   *)
(* exceeds the cap, and an interrupt ends the retries.                     *)
(***************************************************************************)
EXTENDS Client, TLAPS

\* The requests of earlier attempts were refused, later ones are unsent.
History ==
  \A a \in Attempt :
    /\ a < attempt => request[a] = "refused"
    /\ a > attempt => request[a] = "unsent"

\* What the loop may conclude about its current request from where it is.
Current ==
  /\ pc = "start" => attempt = 0
  /\ pc \in {"start", "attempt"} => request[attempt] = "unsent"
  /\ pc = "exchange" => request[attempt] # "unsent"
  /\ pc = "exchange" =>
       /\ reply = 0 => request[attempt] = "sent"
       /\ reply \notin {0, 200, 500} => request[attempt] = "refused"
  /\ pc = "sleep" => request[attempt] = "refused" /\ attempt < Retries

\* What the result says about the last request.
Reported ==
  /\ pc # "done" => result = "none"
  /\ result = "RATE_LIMITED" => attempt = Retries
  /\ result \in {"RATE_LIMITED", "AUTH_REJECTED", "REQUEST_REJECTED"} =>
       request[attempt] = "refused"

IInv == TypeOK /\ History /\ Current /\ Reported

LEMMA RetriesNat == Retries \in Nat
BY ClientAssumption DEF Retries

LEMMA PowerOfTwo == \A a \in Nat : 2^a \in Int
OBVIOUS

LEMMA HeaderWaitType ==
  ASSUME NEW h \in RetryAfters \cup {NoHeader}
  PROVE  HeaderWait(h) \in Int
<1>1. h.amount \in Int
  BY ClientAssumption DEF NoHeader
<1>2. h.amount * Second \in Int
  BY <1>1, ClientAssumption
<1>3. \A n \in Int : Wrap(n) \in Int
  BY ClientAssumption DEF Wrap
<1> QED
  BY <1>1, <1>2, <1>3 DEF HeaderWait

\* No wait the loop chooses exceeds the cap, even when the product wraps.
LEMMA RetryWaitBounded ==
  ASSUME NEW h \in RetryAfters \cup {NoHeader}, NEW a \in Nat
  PROVE  RetryWait(h, a) \in Int /\ RetryWait(h, a) <= WaitCap
<1>1. Backoff(a) \in Int /\ Backoff(a) <= WaitCap
  <2>1. Base * 2^a \in Int
    BY PowerOfTwo, ClientAssumption
  <2> QED
    BY <2>1, ClientAssumption DEF Backoff
<1>2. HeaderUsed(h) => HeaderWait(h) <= WaitCap
  BY DEF HeaderUsed
<1> QED
  BY <1>1, <1>2, HeaderWaitType DEF RetryWait

LEMMA InitInvariant == Init => IInv
<1> SUFFICES ASSUME Init PROVE IInv
  OBVIOUS
<1>1. TypeOK
  <2>1. signalled \in BOOLEAN
    BY DEF Init
  <2>2. attempt \in Attempt /\ observed \in Nat
    BY RetriesNat DEF Init, Attempt
  <2> QED
    BY <2>1, <2>2 DEF Init, TypeOK
<1>2. History /\ Current /\ Reported
  BY RetriesNat DEF Init, History, Current, Reported, Attempt
<1> QED
  BY <1>1, <1>2 DEF IInv

\* Steps that end the call or leave the requests alone.
LEMMA AuthMissingStep == IInv /\ AuthMissing => IInv'
BY DEF IInv, TypeOK, History, Current, Reported, AuthMissing, Return, serverVars, userVars, Codes

LEMMA BeginStep == IInv /\ Begin => IInv'
BY DEF IInv, TypeOK, History, Current, Reported, Begin, serverVars, userVars

LEMMA NotSentStep == IInv /\ NotSent => IInv'
BY DEF IInv, TypeOK, History, Current, Reported, NotSent, Return, serverVars, userVars, Codes

LEMMA SendStep == IInv /\ Send => IInv'
BY RetriesNat DEF IInv, TypeOK, History, Current, Reported, Send, Attempt, userVars

LEMMA LostStep == IInv /\ Lost => IInv'
BY DEF IInv, TypeOK, History, Current, Reported, Lost, Return, serverVars, userVars, Codes

LEMMA OversizeStep == IInv /\ Oversize => IInv'
BY DEF IInv, TypeOK, History, Current, Reported, Oversize, Return, serverVars, userVars, Codes

LEMMA RepliedStep == IInv /\ Replied => IInv'
<1> SUFFICES ASSUME IInv, Replied PROVE IInv'
  OBVIOUS
<1> USE DEF IInv, TypeOK, History, Current, Reported, Replied, serverVars, userVars
<1>1. CASE reply = 200 /\ \E code \in {"ok", "RESPONSE_INVALID"} : Return(code)
  BY <1>1 DEF Return, Codes
<1>2. CASE /\ reply # 200
           /\ MayRetry(reply)
           /\ pc' = "sleep"
           /\ wait' = RetryWait(retryAfter, attempt)
           /\ source' = (IF HeaderUsed(retryAfter) THEN "retry-after" ELSE "backoff")
           /\ UNCHANGED <<attempt, slept, result>>
  <2>1. attempt \in Nat /\ attempt < Retries
    BY <1>2, RetriesNat DEF MayRetry, Attempt
  <2>2. wait' \in Int
    BY <1>2, <2>1, RetryWaitBounded
  <2>3. reply \notin {0, 200, 500}
    BY <1>2 DEF MayRetry, Throttles
  <2> QED
    BY <1>2, <2>1, <2>2, <2>3
<1>3. CASE reply # 200 /\ ~MayRetry(reply) /\ Return(Classify(reply))
  <2>1. Classify(reply) \in Codes
    BY DEF Classify, Codes
  <2>2. Classify(reply) \in {"RATE_LIMITED", "AUTH_REJECTED", "REQUEST_REJECTED"}
          => request[attempt] = "refused"
    BY <1>3 DEF Classify, Throttles
  <2>3. Classify(reply) = "RATE_LIMITED" => attempt = Retries
    BY <1>3, RetriesNat DEF Classify, MayRetry, Attempt, Throttles
  <2> QED
    BY <1>3, <2>1, <2>2, <2>3 DEF Return
<1> QED
  BY <1>1, <1>2, <1>3

LEMMA WakeStep == IInv /\ Wake => IInv'
<1> SUFFICES ASSUME IInv, Wake PROVE IInv'
  OBVIOUS
<1> USE DEF IInv, TypeOK, History, Current, Reported, Wake, serverVars, userVars
<1>1. CASE signalled /\ Return("INTERRUPTED")
  BY <1>1 DEF Return, Codes
<1>2. CASE ~signalled
  <2>1. attempt + 1 \in Attempt
    BY <1>2, RetriesNat DEF Attempt
  <2>2. \A a \in Attempt : a < attempt + 1 <=> a < attempt \/ a = attempt
    BY RetriesNat DEF Attempt
  <2>3. \A a \in Attempt : a > attempt + 1 => a > attempt
    BY RetriesNat DEF Attempt
  <2>4. attempt + 1 > attempt
    BY RetriesNat DEF Attempt
  <2> QED
    BY <1>2, <2>1, <2>2, <2>3, <2>4 DEF Return
<1> QED
  BY <1>1, <1>2

LEMMA HandleStep == ASSUME NEW a \in Attempt PROVE IInv /\ Handle(a) => IInv'
<1> SUFFICES ASSUME IInv, Handle(a) PROVE IInv'
  OBVIOUS
<1> USE DEF IInv, TypeOK, History, Current, Reported, Handle, clientVars, userVars
<1>1. PICK status \in Statuses, h \in RetryAfters :
        /\ \/ status \in {200, 500} /\ request' = [request EXCEPT ![a] = "executed"]
           \/ status # 200 /\ request' = [request EXCEPT ![a] = "refused"]
        /\ IF pc = "exchange" /\ a = attempt
             THEN reply' = status /\ retryAfter' = h
             ELSE UNCHANGED <<reply, retryAfter>>
  OBVIOUS
<1>2. a = attempt /\ request[a] = "sent"
  BY RetriesNat DEF Attempt
<1>3. pc \in {"exchange", "done"}
  BY <1>2
<1> QED
  BY <1>1, <1>2, <1>3 DEF Statuses, Throttles

LEMMA StepInvariant == IInv /\ [Next]_vars => IInv'
<1> SUFFICES ASSUME IInv, [Next]_vars PROVE IInv'
  OBVIOUS
<1>1. CASE Call
  BY <1>1, AuthMissingStep, BeginStep, NotSentStep, SendStep, RepliedStep, OversizeStep,
     LostStep, WakeStep DEF Call
<1>2. CASE \E a \in Attempt : Handle(a)
  BY <1>2, HandleStep
<1>3. CASE Interrupt
  <2>1. signalled' \in BOOLEAN /\ heard' \in {"start", "attempt", "exchange", "sleep"}
    BY <1>3 DEF Interrupt, IInv, TypeOK
  <2> QED
    BY <1>3, <2>1
       DEF Interrupt, IInv, TypeOK, History, Current, Reported, clientVars, serverVars, userVars
<1>4. CASE UNCHANGED vars
  <2>1. signalled' \in BOOLEAN
    BY <1>4 DEF vars, userVars, IInv, TypeOK
  <2> QED
    BY <1>4, <2>1 DEF IInv, TypeOK, History, Current, Reported, vars, clientVars, serverVars, userVars
<1> QED
  BY <1>1, <1>2, <1>3, <1>4 DEF Next, Finished

LEMMA Invariant == Spec => []IInv
<1>1. Init /\ [][Next]_vars => []IInv
  BY InitInvariant, StepInvariant, PTL
<1> QED
  BY <1>1, PTL DEF Spec

\* An evaluation is executed at most once, for every retry budget and every
\* behaviour of the server: the loop repeats only what was refused.
THEOREM AtMostOneExecution == Spec => []ExecutedAtMostOnce
<1>1. IInv => ExecutedAtMostOnce
  BY RetriesNat DEF IInv, TypeOK, History, Attempt, ExecutedAtMostOnce
<1> QED
  BY <1>1, Invariant, PTL

\* A rate-limit error means that the budget was used up, and with the other
\* refusals that nothing was executed nor still will be.
THEOREM CertainRefusal == Spec => []RefusalIsCertain
<1>1. IInv => RefusalIsCertain
  BY RetriesNat DEF IInv, TypeOK, History, Reported, Attempt, RefusalIsCertain
<1> QED
  BY <1>1, Invariant, PTL

\* The time an evaluation spends asleep is bounded by its attempts and the cap,
\* also when the server's Retry-After makes the product wrap.
THEOREM BoundedWaits == Spec => []WaitsBounded
<1>1. Init => WaitsBounded
  BY ClientAssumption DEF Init, WaitsBounded
<1>2. IInv /\ WaitsBounded /\ [Next]_vars => WaitsBounded'
  <2> SUFFICES ASSUME IInv, WaitsBounded, [Next]_vars PROVE WaitsBounded'
    OBVIOUS
  <2> USE DEF WaitsBounded
  <2>1. CASE Replied /\ pc' = "sleep"
    <3>1. wait' = RetryWait(retryAfter, attempt) /\ UNCHANGED <<attempt, slept>>
      BY <2>1 DEF Replied, Return
    <3>2. attempt \in Nat /\ retryAfter \in RetryAfters \cup {NoHeader}
      BY RetriesNat DEF IInv, TypeOK, Attempt
    <3> QED
      BY <3>1, <3>2, RetryWaitBounded
  <2>2. CASE Wake /\ ~signalled
    <3>1. wait' = wait /\ attempt' = attempt + 1 /\ slept' = slept + (IF wait > 0 THEN wait ELSE 0)
      BY <2>2 DEF Wake, Return
    <3>2. attempt \in Nat /\ wait \in Int /\ slept \in Int
      BY RetriesNat DEF IInv, TypeOK, Attempt
    <3>3. (attempt + 1) * WaitCap = attempt * WaitCap + WaitCap
      BY <3>2, ClientAssumption
    <3>4. (IF wait > 0 THEN wait ELSE 0) <= WaitCap
      BY <3>2, ClientAssumption
    <3>5. attempt * WaitCap \in Int
      BY <3>2, ClientAssumption
    <3> QED
      BY <3>1, <3>2, <3>3, <3>4, <3>5, ClientAssumption
  <2>3. CASE ~(Replied /\ pc' = "sleep") /\ ~(Wake /\ ~signalled)
    <3>1. UNCHANGED <<wait, slept, attempt>>
      BY <2>3 DEF Next, Call, AuthMissing, Begin, NotSent, Send, Replied, Oversize, Lost, Wake,
         Handle, Interrupt, Finished, Return, vars, clientVars
    <3> QED
      BY <3>1
  <2> QED
    BY <2>1, <2>2, <2>3
<1> QED
  BY <1>1, <1>2, Invariant, PTL DEF Spec

\* The observer is told of the current attempt as the exchange ends; a call
\* that lacks a credential makes none.
Observed ==
  /\ pc \in {"start", "attempt", "exchange"} => observed = attempt
  /\ pc = "sleep" => observed = attempt + 1
  /\ pc = "done" => \/ observed = attempt + 1
                    \/ observed = attempt /\ request[attempt] = "unsent"

LEMMA CountedStart == Init => Observed
BY DEF Init, Observed

LEMMA ObservedStep == IInv /\ Observed /\ [Next]_vars => Observed'
<1> SUFFICES ASSUME IInv, Observed, [Next]_vars PROVE Observed'
  OBVIOUS
<1> USE DEF IInv, TypeOK, Observed
<1>1. CASE AuthMissing
  BY <1>1 DEF AuthMissing, Return, serverVars, userVars, Current
<1>2. CASE Begin \/ Send
  BY <1>2 DEF Begin, Send
<1>3. CASE NotSent
  BY <1>3 DEF NotSent, Return, serverVars, userVars
<1>4. CASE Replied \/ Oversize \/ Lost
  BY <1>4 DEF Replied, Oversize, Lost, Return
<1>5. CASE Wake
  BY <1>5 DEF Wake, Return
<1>6. ASSUME NEW a \in Attempt, Handle(a) PROVE Observed'
  BY <1>6 DEF Handle, clientVars
<1>7. CASE Interrupt \/ UNCHANGED vars
  BY <1>7 DEF Interrupt, vars, clientVars, serverVars, userVars
<1>. QED BY <1>1, <1>2, <1>3, <1>4, <1>5, <1>6, <1>7 DEF Next, Call, Finished

\* Every exchange is counted once, the lost ones too, and nothing else is, for
\* every retry budget and every behaviour of the server.
THEOREM CountedAttempts == Spec => []AttemptsCounted
<1>1. IInv /\ Observed => AttemptsCounted
  BY RetriesNat DEF IInv, TypeOK, History, Observed, Attempt, AttemptsCounted
<1>. QED BY <1>1, CountedStart, ObservedStep, Invariant, PTL DEF Spec

\* What an interrupt leaves for the call to do: the exchange it finds under way
\* is the last, and asleep the call only has to wake.
Heard ==
  /\ heard = "none" \/ signalled
  /\ heard = "exchange" => pc \in {"exchange", "sleep", "done"} /\ request[attempt] # "unsent"
  /\ heard = "sleep" => /\ pc \in {"sleep", "done"}
                       /\ result \in {"none", "INTERRUPTED"}
                       /\ request[attempt] = "refused"

LEMMA HeardStep == IInv /\ Heard /\ [Next]_vars => Heard'
<1> SUFFICES ASSUME IInv, Heard, [Next]_vars PROVE Heard'
  OBVIOUS
<1> USE DEF IInv, TypeOK, Heard
<1>1. CASE AuthMissing \/ Begin \/ NotSent \/ Send
  BY <1>1 DEF AuthMissing, Begin, NotSent, Send, Return, serverVars, userVars
<1>2. CASE Replied
  BY <1>2 DEF Replied, Return, serverVars, userVars
<1>3. CASE Oversize \/ Lost
  BY <1>3 DEF Oversize, Lost, Return, serverVars, userVars
<1>4. CASE Wake
  BY <1>4 DEF Wake, Return, serverVars, userVars
<1>5. ASSUME NEW a \in Attempt, Handle(a) PROVE Heard'
  BY <1>5 DEF Handle, clientVars, userVars
<1>6. CASE Interrupt
  <2>1. heard' = pc /\ pc # "done" /\ signalled' /\ UNCHANGED <<pc, result, request, attempt>>
    BY <1>6 DEF Interrupt, clientVars, serverVars
  <2>2. pc = "exchange" => request[attempt] # "unsent"
    BY DEF Current
  <2>3. pc = "sleep" => request[attempt] = "refused" /\ result = "none"
    BY DEF Current, Reported
  <2>. QED BY <2>1, <2>2, <2>3
<1>7. CASE UNCHANGED vars
  BY <1>7 DEF vars, clientVars, serverVars, userVars
<1>. QED BY <1>1, <1>2, <1>3, <1>4, <1>5, <1>6, <1>7 DEF Next, Call, Finished

\* However often a call may retry and wherever the interrupt finds it, no
\* attempt that stays on the machine is counted after it; found in a backoff,
\* the call ends as interrupted and the server has executed nothing, nor will.
THEOREM InterruptIsTheEnd == Spec => []InterruptEndsRetries
<1>1. Init => Heard
  BY DEF Init, Heard
<1>2. IInv /\ Observed /\ Heard => InterruptEndsRetries
  <2> SUFFICES ASSUME IInv, Observed, Heard PROVE InterruptEndsRetries
    OBVIOUS
  <2>1. attempt \in Attempt /\ observed \in Nat /\ observed <= attempt + 1 /\ History
    BY RetriesNat DEF IInv, TypeOK, Observed, Attempt
  <2>2. \A a \in Attempt : a < observed => a = attempt \/ request[a] = "refused"
    BY <2>1, RetriesNat DEF History, Attempt
  <2>3. heard \in {"exchange", "sleep"} => request[attempt] # "unsent"
    BY DEF Heard
  <2>4. heard = "sleep" => \A a \in Attempt : request[a] \in {"unsent", "refused"}
    BY <2>1, RetriesNat DEF Heard, History, Attempt
  <2>. QED BY <2>2, <2>3, <2>4 DEF Heard, InterruptEndsRetries
<1>. QED BY <1>1, <1>2, HeardStep, ObservedStep, Invariant, CountedStart, PTL DEF Spec

==============================================================================
