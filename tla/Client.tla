-------------------------------- MODULE Client --------------------------------
(***************************************************************************)
(* One call of the TypeSafe client: the retry loop of Client.call          *)
(* (internal/infra/typesafeapi/client.go) against a server that may answer,*)
(* throttle, fail or stay silent, with SIGINT arriving at any moment.      *)
(*                                                                         *)
(* Time is counted in units of a quarter second, so that the base backoff, *)
(* one second and the cap keep the proportions of the source; a Duration   *)
(* is a two's complement integer of Modulus values, as int64 is.           *)
(***************************************************************************)
EXTENDS Integers

CONSTANTS
  MaxRetries,       \* Client.MaxRetries, any integer
  MaxRetriesLimit,  \* MaxRetriesLimit
  Base,             \* retryBaseBackoff
  WaitCap,          \* retryWaitCap
  Second,           \* time.Second
  Modulus,          \* how many values a time.Duration has
  RetryAfters       \* the Retry-After headers the server may send

Forms == {"none", "seconds", "date"}

ASSUME ClientAssumption ==
  /\ MaxRetries \in Int
  /\ MaxRetriesLimit \in Nat
  /\ Base \in Nat
  /\ WaitCap \in Nat
  /\ Second \in Nat
  /\ Modulus \in Nat \ {0}
  /\ RetryAfters \subseteq [form : Forms, amount : Int]

VARIABLES
  pc,          \* "start", "attempt", "exchange", "sleep" or "done"
  attempt,     \* the attempt number of the loop
  reply,       \* the status the current exchange has been answered with
  retryAfter,  \* and its Retry-After header
  wait,        \* how long the loop sleeps before the next attempt
  source,      \* where that wait came from
  slept,       \* the time slept so far
  result,      \* the code the call ends with
  request,     \* what has become of each attempt's request
  observed,    \* calls of Observer.Attempt
  signalled,   \* the context is cancelled
  heard        \* history: where the call was when that happened

clientVars == <<pc, attempt, wait, source, slept, result, observed>>
serverVars == <<reply, retryAfter, request>>
userVars   == <<signalled, heard>>
vars       == <<clientVars, serverVars, userVars>>

\* The number of retries call() allows itself.
Retries ==
  IF MaxRetries < 0 THEN 0
  ELSE IF MaxRetries > MaxRetriesLimit THEN MaxRetriesLimit
  ELSE MaxRetries

Attempt == 0 .. Retries

Throttles == {429, 529}
Statuses  == {200, 401, 404, 422, 500} \cup Throttles

Codes == {"ok", "AUTH_MISSING", "AUTH_REJECTED", "REQUEST_REJECTED", "RATE_LIMITED",
          "SERVER_ERROR", "RESPONSE_INVALID", "NETWORK_ERROR", "TIMEOUT", "INTERRUPTED"}

NoHeader == [form |-> "none", amount |-> 0]

TypeOK ==
  /\ pc \in {"start", "attempt", "exchange", "sleep", "done"}
  /\ attempt \in Attempt
  /\ reply \in Statuses \cup {0}
  /\ retryAfter \in RetryAfters \cup {NoHeader}
  /\ wait \in Int
  /\ source \in {"retry-after", "backoff"}
  /\ slept \in Int
  /\ result \in Codes \cup {"none"}
  /\ request \in [Attempt -> {"unsent", "sent", "refused", "executed"}]
  /\ observed \in Nat
  /\ signalled \in BOOLEAN
  /\ heard \in {"none", "start", "attempt", "exchange", "sleep"}

Init ==
  /\ pc = "start"
  /\ attempt = 0
  /\ reply = 0
  /\ retryAfter = NoHeader
  /\ wait = 0
  /\ source = "backoff"
  /\ slept = 0
  /\ result = "none"
  /\ request = [a \in Attempt |-> "unsent"]
  /\ observed = 0
  /\ signalled = FALSE
  /\ heard = "none"

------------------------------------------------------------------------------
(* Waits.                                                                  *)

\* Multiplication of Durations wraps round.
Wrap(n) == ((n + Modulus \div 2) % Modulus) - (Modulus \div 2)

\* The wait parseRetryAfter makes of a header, and whether it is used.
HeaderWait(h) == IF h.form = "seconds" THEN Wrap(h.amount * Second) ELSE h.amount

\* Mutant: the cap is not applied to a date.
HeaderUsed_DateUncapped(h) ==
  \/ h.form = "seconds" /\ h.amount >= 0 /\ HeaderWait(h) <= WaitCap
  \/ h.form = "date" /\ h.amount > 0

HeaderUsed(h) ==
  /\ \/ h.form = "seconds" /\ h.amount >= 0
     \/ h.form = "date" /\ h.amount > 0
  /\ HeaderWait(h) <= WaitCap

Backoff(a) == IF Base * 2^a > WaitCap THEN WaitCap ELSE Base * 2^a

RetryWait(h, a) == IF HeaderUsed(h) THEN HeaderWait(h) ELSE Backoff(a)

\* Mutant: server errors are retried as throttling is.
MayRetry_ServerErrors(status) == status \in Throttles \cup {500} /\ attempt < Retries

\* Mutant: one attempt fewer than the policy allows.
MayRetry_OneFewer(status) == status \in Throttles /\ attempt + 1 < Retries

MayRetry(status) == status \in Throttles /\ attempt < Retries

------------------------------------------------------------------------------
(* The call.                                                               *)

Return(code) ==
  /\ pc' = "done"
  /\ result' = code
  /\ UNCHANGED <<attempt, wait, source, slept>>

AuthMissing ==
  /\ pc = "start"
  /\ Return("AUTH_MISSING")
  /\ UNCHANGED <<observed, serverVars, userVars>>

Begin ==
  /\ pc = "start"
  /\ pc' = "attempt"
  /\ UNCHANGED <<attempt, wait, source, slept, result, observed, serverVars, userVars>>

\* The request cannot be built from the base URL, or http.Client.Do finds the
\* context cancelled: nothing is sent, but the observer is told of an attempt.
NotSent ==
  /\ pc = "attempt"
  /\ \/ attempt = 0 /\ Return("NETWORK_ERROR")
     \/ signalled /\ Return("INTERRUPTED")
  /\ observed' = observed + 1
  /\ UNCHANGED <<serverVars, userVars>>

Send ==
  /\ pc = "attempt"
  /\ ~signalled
  /\ request' = [request EXCEPT ![attempt] = "sent"]
  /\ reply' = 0
  /\ retryAfter' = NoHeader
  /\ pc' = "exchange"
  /\ UNCHANGED <<attempt, wait, source, slept, result, observed, userVars>>

\* The stable code of a status that ends the call.
Classify(status) ==
  CASE status = 401        -> "AUTH_REJECTED"
    [] status = 422        -> "REQUEST_REJECTED"
    [] status \in Throttles -> "RATE_LIMITED"
    [] status = 500        -> "SERVER_ERROR"
    [] OTHER               -> "RESPONSE_INVALID"

\* A reply is read in full.  Only throttling, and only while retries are
\* left, sends the loop to sleep.
Replied ==
  /\ pc = "exchange"
  /\ reply # 0
  /\ observed' = observed + 1
  /\ \/ /\ reply = 200
        /\ \E code \in {"ok", "RESPONSE_INVALID"} : Return(code)
     \/ /\ reply # 200
        /\ MayRetry(reply)
        /\ pc' = "sleep"
        /\ wait' = RetryWait(retryAfter, attempt)
        /\ source' = IF HeaderUsed(retryAfter) THEN "retry-after" ELSE "backoff"
        /\ UNCHANGED <<attempt, slept, result>>
     \/ /\ reply # 200
        /\ ~MayRetry(reply)
        /\ Return(Classify(reply))
  /\ UNCHANGED <<serverVars, userVars>>

\* The body is over the safety bound.
Oversize ==
  /\ pc = "exchange"
  /\ reply # 0
  /\ Return("RESPONSE_INVALID")
  /\ observed' = observed + 1
  /\ UNCHANGED <<serverVars, userVars>>

\* Mutant: the observer is told of replies only.
Lost_Unobserved ==
  /\ pc = "exchange"
  /\ \E code \in IF signalled THEN {"INTERRUPTED"} ELSE {"NETWORK_ERROR", "TIMEOUT"} :
       Return(code)
  /\ UNCHANGED <<observed, serverVars, userVars>>

\* Mutant: the HTTP client has no timeout.
Lost_NoTimeout ==
  /\ pc = "exchange"
  /\ signalled
  /\ Return("INTERRUPTED")
  /\ observed' = observed + 1
  /\ UNCHANGED <<serverVars, userVars>>

\* The exchange ends without a usable reply: connection loss, the client's
\* timeout or the cancelled context.  Whether the server has executed the
\* request, or still will, the client cannot know.
Lost ==
  /\ pc = "exchange"
  /\ \E code \in IF signalled THEN {"INTERRUPTED"} ELSE {"NETWORK_ERROR", "TIMEOUT"} :
       Return(code)
  /\ observed' = observed + 1
  /\ UNCHANGED <<serverVars, userVars>>

\* Mutant: the context is not looked at after the sleep.
Wake_Unchecked ==
  /\ pc = "sleep"
  /\ pc' = "attempt"
  /\ attempt' = attempt + 1
  /\ slept' = slept + (IF wait > 0 THEN wait ELSE 0)
  /\ UNCHANGED <<wait, source, result, observed, serverVars, userVars>>

\* Sleep is over: only now is the context looked at.  A negative wait does
\* not sleep at all.
Wake ==
  /\ pc = "sleep"
  /\ \/ signalled /\ Return("INTERRUPTED")
     \/ /\ ~signalled
        /\ pc' = "attempt"
        /\ attempt' = attempt + 1
        /\ slept' = slept + (IF wait > 0 THEN wait ELSE 0)
        /\ UNCHANGED <<wait, source, result>>
  /\ UNCHANGED <<observed, serverVars, userVars>>

------------------------------------------------------------------------------
(* The server and the user.                                                *)

\* The server handles a request it was sent, also one nobody waits for any
\* more.  A success was executed; a server error may have been.
Handle(a) ==
  /\ request[a] = "sent"
  /\ \E status \in Statuses, h \in RetryAfters :
       /\ \/ status \in {200, 500} /\ request' = [request EXCEPT ![a] = "executed"]
          \/ status # 200 /\ request' = [request EXCEPT ![a] = "refused"]
       /\ IF pc = "exchange" /\ a = attempt
            THEN reply' = status /\ retryAfter' = h
            ELSE UNCHANGED <<reply, retryAfter>>
  /\ UNCHANGED <<clientVars, userVars>>

Interrupt ==
  /\ ~signalled
  /\ pc # "done"
  /\ signalled' = TRUE
  /\ heard' = pc
  /\ UNCHANGED <<clientVars, serverVars>>

Finished == pc = "done" /\ UNCHANGED vars

Call == AuthMissing \/ Begin \/ NotSent \/ Send \/ Replied \/ Oversize \/ Lost \/ Wake

Next == Call \/ (\E a \in Attempt : Handle(a)) \/ Interrupt \/ Finished

\* Sleeps end and the HTTP client's timeout ends every exchange.  Nothing is
\* assumed of the server or the user.
Spec == Init /\ [][Next]_vars /\ WF_vars(Call)

------------------------------------------------------------------------------
(* Properties.                                                             *)

\* The evaluation is executed at most once however often it is attempted:
\* only a reply that says the request was refused lets the loop repeat it.
ExecutedAtMostOnce ==
  \A a, b \in Attempt : request[a] = "executed" /\ request[b] = "executed" => a = b

\* A rate-limit error is reported only when every retry was used up, and then,
\* as after a rejection, nothing was executed nor still will be.
RefusalIsCertain ==
  /\ result = "RATE_LIMITED" => attempt = Retries
  /\ result \in {"RATE_LIMITED", "AUTH_REJECTED", "REQUEST_REJECTED"} =>
       \A a \in Attempt : request[a] \in {"unsent", "refused"}

\* No wait exceeds the cap, whatever the server asks for.
WaitsBounded == wait <= WaitCap /\ slept <= attempt * WaitCap

\* An interrupt ends the retries.  Once an exchange was under way every
\* attempt the observer is told of was sent, the last one too; and a call
\* interrupted between two attempts ends as interrupted, with nothing executed
\* nor still to be, so that it may be made again.
InterruptEndsRetries ==
  /\ heard \in {"exchange", "sleep"} =>
       \A a \in Attempt : a < observed => request[a] # "unsent"
  /\ heard = "sleep" =>
       /\ result \in {"none", "INTERRUPTED"}
       /\ \A a \in Attempt : request[a] \in {"unsent", "refused"}

\* The observer, and with it the usage summary, counts every exchange once,
\* the lost ones too, and no attempt that was never begun.
AttemptsCounted ==
  pc \in {"sleep", "done"} =>
    /\ observed <= attempt + 1
    /\ \A a \in Attempt : request[a] # "unsent" => a < observed

\* Every call returns.
CallReturns == <>(pc = "done")

\* What the comment on parseRetryAfter says: a value over the cap is invalid.
OverCapFallsBack ==
  pc = "sleep" /\ source = "retry-after" /\ retryAfter.form = "seconds" =>
    retryAfter.amount * Second <= WaitCap

==============================================================================
