# TLA+ models of jeq

`jeq` is a command-line client for the TypeSafe System One evaluation service.
It reads a request or records (JSON or NDJSON), checks them strictly, sends
evaluations over HTTP, and writes results in input order. This directory holds
TLA+ modules translated from its source, TLC configurations that check them on
small instances, and proofs that TLAPS checks for every value of the constants.
Line numbers refer to the sources under `internal/`.

    tlc -config MapStream.cfg MCMapStream.tla     # one run
    tlapm MapStreamProofs.tla                     # one proof module

`PROJECT.json` lists the runs, the source lines behind each definition, the
hazards, the theorems, and for every checked property a plausible bug (a
`Name_Variant` operator next to `Name`) that makes the run fail.

## 1. Inventory

| Part | Source | State it keeps | Operations | What is hard about it | What makes it correct |
|---|---|---|---|---|---|
| Record stream | `cli/map.go` | next and wanted index, pending count, failure and eof flags, buffered results, three channels, four workers, one reader, one watcher | first read, dispatch, read, evaluate, commit, stop, return | goroutines, channel capacities, shutdown with a read still blocked, SIGINT | in-order output, bounded read-ahead, one evaluation per record, no masked failure, no hang |
| TypeSafe client | `infra/typesafeapi/client.go` | attempt number | call, attempt, retry wait, classification | lost exchanges, throttling, `Retry-After` arithmetic, interrupts while asleep | at most one execution, certain refusals, bounded waits |
| Execution trace | `trace/trace.go` | reserved events, notice flag, a mutex | Emit, EmitOperation, Attempt, Retrying, EmitSummary | shared by the coordinator, the workers' HTTP observers and the root command; two budgets | bounded detail, announced drops, the end always recorded |
| Command lifecycle, exit status | `cli/run.go`, `root.go`, `exit.go` | the command's context | pre-run, run, error report, deferred summary | which error wins, output and status that disagree | paid work is never lost silently; status and stderr tell the truth |
| Commands | `cli/ask.go`, `validate.go`, `gate.go`, `rank.go`, `rate.go`, `reduce.go`, `map.go` | none between records but gate's tallies | local checks in order, evaluations, attachment, output | partial failure between two records | local errors cost nothing, success is complete |
| Usage summary | `cli/usage_summary.go` | counters under a mutex | attempt, response, answers, records | counted at three layers | the counters agree with what happened |
| Strict JSON scanning | `domain/contract/scan.go`, `domain/pipeline/pipeline.go`, `contract/decode.go` | a stack of open containers | one token at a time | keeping place across nesting; two independent scanners | no repeated key accepted, one value per text |
| NDJSON framing | `cli/map.go` 351-382, 586-612 | the reader's buffer, the line so far | next slice of a line, split of a whole input | two framings of one input, limits at a boundary | both cut the same records |
| Configuration, providers | `cli/config.go` | none; reads a file twice | resolve model, resolve provider | two precedences over the same settings, a file edited in between | credentials stay where they belong, model and provider fit together |
| Sources and questions | `cli/questions.go`, `domain/jeq/sources.go`, `infra/source` | none | conflict table, bounded reads | many flag combinations | every input has one source |
| Contract types | `domain/contract` | none | decode, validate, encode | lossless unknown fields, nulls, numbers that are read through float64 and int64 | what passes the checks can be encoded, unknown members survive, numbers change only where their type cannot hold them |
| Evidence | `domain/pipeline` | none | pointer lookup, attach | overwriting a record's field | nothing of the record is lost |
| Renderer, discovery, models, help, main | `infra/render`, `cli/*`, `cmd/jeq` | none | write, print, wire | none beyond a failing write | - |

How they interact: `main` wires the parts and calls `RunWithDeps`. The root
command's pre-run puts the trace and the usage summary into the context; a
command makes its local checks, builds a client with the trace and the summary
as observers, evaluates, attaches and writes. In a record stream the calls of
the client, the trace and the summary come from worker goroutines, concurrently;
everywhere else there is one goroutine. Commands are chained by the shell: what
one writes to stdout the next reads from stdin. SIGINT cancels the root context,
which only the client and the stream look at. The program persists nothing, so
there is no crash recovery to model; the one file it shares with the world is
its configuration, which the user may edit while a command runs.

## 2. Modules

| Module | Models | Notes |
|---|---|---|
| `OrderedStream` | what `map --input ndjson` promises | abstract: accept, settle, emit, end, conclude; no goroutines |
| `MapStream` | `runMap`'s first read and `processMapStream` | one action per select branch, loop decision and goroutine step; implements `OrderedStream` |
| `Client` | `Client.call` and what it calls, with the server | one action per way an attempt can end |
| `Trace` | `trace.Config` | each exported method is one step, as it runs under one mutex |
| `TracedStream` | `OrderedStream` composed with `Trace` | every trace call of a stream, in the order each process makes them |
| `Command` | `RunWithDeps` and eight commands | checks, evaluations, attachment, output, report, exit |
| `Contract` | requests and questions documents | decode, local rules and encode as operators on JSON values |
| `Responses` | responses | extends `Contract`: what is accepted, what it decodes to and is encoded as, numbers included |
| `Resolve` | the configuration file, providers, the model's layers | operators on an environment and a text of the file |
| `Setup` | `ask`, `validate` and `models` up to the client | `Contract` and `Resolve` in the order of the source; implements `Command` |
| `Evidence` | pointer lookup, the evidence slot, attachment, gate's receipt | operators on JSON values |
| `Framing` | a record's bounds in a text | operators on sequences of symbols |
| `Stages` | chains of `map`, `rate` and `gate` | `Contract`, `Evidence` and `Framing` composed; one stage's output is the next one's input |
| `StrictScan` | `scanDoc`, `scanJSON`, `checkStateJSON` | fed one symbol at a time |
| `Text` | `strings.TrimSpace` | two kinds of blank text |
| `*Proofs` | - | inductive invariants and theorems about the module they are named for (`TraceProofs`: `Trace` and `TracedStream`; `ContractProofs`: what the operators of `Contract` decode and encode, used by `SetupProofs` and `StagesProofs`) |
| `MC*` | - | instances for TLC |

### MapStream and the code

The coordinator's `pc` follows `processMapStream`: `head` is the top of the loop
(498-501), `select` the wait (524-547), `commit` the inner loop that writes what
is ready (549-577), `joinRead` and `wait` the two halves of `stop` (485-495).
`jobs`, `results` and `readResults` are the Go channels with their capacities
(`mapWorkerLimit`, `mapWorkerLimit` and 1); sending is enabled only when there
is room, so a send that could block shows up as a disabled action. A mapResult
is its index; `outcome` records what the evaluation came to. `canClose` is
whether `closeInput` is non-nil; `CanRead` lets a read whose input was closed
still return what `bufio.Reader` had buffered. `Interrupt` cancels both the
command's context and the derived one; `Stop` cancels the derived one only.

`MapStream` is shown to implement `OrderedStream` under the refinement mapping
`accepted <- next`, `emitted <- want`, `ended <- eof`, `verdict <- ret` with the
two kinds of read error merged (`ImplementsOrderedStream`).

### Client and the code

`pc = "attempt"` is the top of the loop (134), `"exchange"` lies between sending
and `Do` returning (191), `"sleep"` is the wait (157). A request is `unsent`,
`sent`, `refused` or `executed`, and the server may handle it at any time after
it was sent, also when the client has given up: `Lost` leaves it open.
`Interrupt` may happen at any of these places, and `heard` remembers which: in
a sleep the wait ends early and `Wake` looks at the context (158), before the
observers hear of another attempt. A
Duration is a two's complement integer (`Wrap`), as `parseRetryAfter` multiplies
before it compares.

### Trace and TracedStream

`events` is `Config.events`, `lines` is what reached stderr. `owed` holds the
trace calls the coordinator still has to make after a step; observer calls of
workers fall between them. `dropped` is history: some event of an enabled trace
was not written. `TracedStream` composes with `OrderedStream` rather than with
`MapStream`: its calls depend on what is dispatched, settled, committed and
concluded, which is what `OrderedStream` says.

### Command

A command is a sequence of named checks (`AskSteps`, ...), each with the codes
it may fail with, then evaluations. `phrase` says whether the error's text
contains one of the words `RunWithDeps` searches for; it may for every error
that quotes the user or the server. `calls`, `answered` and `written` are
history of what was paid for, answered and delivered.

### Contract, Responses, Resolve and Setup

A JSON value is a record with one field named for its kind, so a decoder's
choice by type is a test of the domain: `Obj`, `Arr`, `Str`, `Num`, `Null`, and
`Two`, the pair of values that only `--state-json` lets through. `Json` is the
set of values that occur: any set with the values inside its members (`Closed`),
infinite ones included. Decoding and
encoding are operators from values to values: what a `null` decodes into, which
members are kept as unknown ones and which fields an encoder writes are all
there, and `encodeDoc`'s refusal of an unknown member under a known name is
`Clash`. Text is one of a few model strings; `Trim` is the identity but for
`Blank`.

A number in a typed field of a response is read as the nearest float64
(`Float64`) and refused beyond the greatest one (`MaxFloat`); what
`encoding/json` writes for it again is `Decimal`, the shortest text that reads
back as the same float64. A token counter goes on to an int64 (`strictInt`),
and is what the build makes of it where that has no room (`OutOfRange`: Go
leaves it open, amd64 gives the least int64). The rounding itself is a constant,
of which the proofs know only that rounding twice is rounding once and that
what is written reads back as what it was written for. Members that no field
takes stay raw text and keep their digits.

`Setup` follows `runAsk`, `runValidate` and `NewModelsCmd` check by check:
`step` counts in the lists `AskSteps`, `ValidateSteps` and `ModelsSteps`, which
are the ones `Command` has. `EditFile` changes the configuration file between
any two steps; `ResolveModel` and `ResolveProvider` each read it anew, and
`configs` remembers the texts they read. `Setup` is shown to implement `Command`
(`ImplementsCommand`): each of its failures is a code `Command` allows that check,
in the same order, and no call is made before the last check.

### Evidence, Framing and Stages

A text is a sequence of symbols: a newline, a space, the first byte of a value
(which carries the value) and padding that makes up its size. A line is named by
how much of the text precedes it (`LineStarts`, `LineAt`), and the records of a
text are those of its lines that are not blank, in order (`RecordStarts`).
`mapRecords` and `readNDJSONRecord` are modelled separately, the second one slice
of `bufio.Reader`'s buffer at a time (`ReadBatch`, `ReadSlice`), with the byte and
count limits as constants; only the first, which reads its input whole, has a
limit on all of it (`InputLimit`, `MapMaxInputBytes`). A stage selects what its pointer names, asks the
local rules, calls, and attaches the whole reply under its evidence name; the
unknown members of its questions document go into each request (`ExtraOf`), where
encoding may refuse them;
`gate` compares a number and attaches its receipt. `NextStage` hands the output
over as text: `stdout` is what `renderRaw` wrote, and the next stage cuts and
parses it again. `out`, `asked` and `answers` are history: the values written,
sent and received.

### StrictScan

The text arrives one symbol at a time: a bracket, a separator, a string (`Keys`)
or another scalar. `at` and `saved` are `tokenState` and `tokenStack` of
`json.Decoder` (external: the standard library). `frames` is `scanDoc`'s stack;
`calls` is the recursion of `scanValue` written as a stack. `owners`,
`repeated`, `values` and `bareScalar` are the truth about the text, kept beside
the scanners and never read by them. `wrapped` is a state
value between the brackets `checkStateJSON` adds.

## 3. Runs

| Run | Instance | States | Shows |
|---|---|---|---|
| `stream` | 3 workers, 5 records | 149 442 | sends never block, read-ahead is bounded, records are evaluated once, success is complete, goroutines are joined, a stop is not taken for an interrupt, `OrderedStream` is implemented; an interrupt or a failed record ends the command with stdin held open, an input that ends, ends it |
| `stream_interrupt` | 2 workers, 3 records | violation | finding 1 |
| `client_retries` | 7 retries asked, limit 2, 13 headers | 34 959 | at most one execution, certain refusals, exact counting, bounded waits, an interrupt anywhere ends the retries, termination |
| `client_retry_after` | 2 retries | violation | finding 2 |
| `trace_budget` | budgets 8 and 5, 2 records, 2 attempts | 94 220 | both budgets crossed, by any caller: bounded detail, no silent drop, the end traced, the trace agrees with stdout |
| `command` | 3 records, 2 attempts, all commands | 9 810 | local errors are free, no silent loss, balanced counters, the summary last, success and gate's statuses complete |
| `command_exit` | 1 record | violation | finding 3 |
| `strict_texts` | 2 keys, nesting 4, any length | 59 282 | every repeated key is found; the two scanners agree on every document |
| `setup` | every set of up to 3 sources, every kind of document, about 140 environments with 11 files and 1 edit | 174 053 | one reader of stdin, lossless requests, a missing credential last, credentials and reserved names safe, model and provider of one piece, `Command` is implemented |
| `questions_keys` | the same, no edit | violation | finding 4 |
| `stages` | every text of up to 3 lines of 11 kinds, 2 records through one stage, 2 through chains of 2 and 3 | 133 514 | the framings agree, nothing is overwritten, calls are worth their price, evidence is the whole reply to the precision of its types, stages understand each other up to their limits |
| `answer_null` | the same, with null in required fields | violation | finding 5 |

### Bounds

- `stream`: three workers and five records: the window closes and reopens, and
  a worker is queued for, busy and idle at once; the source's
  `mapWorkerLimit` is 4. Workers are not a symmetry set, because liveness is
  checked. Read-ahead, single evaluation and quiet after a failure are proved
  for every number of workers and records.
- `client_retries`: `MaxRetries = 7` is clamped to the limit, so the clamp is
  exercised. The unit of time is a quarter of a second: base 1, second 4 and cap
  40 keep the source's proportions (250 ms, 1 s, 10 s). `Modulus = 256` stands
  for 2^64 and the headers include products that wrap to a negative and to a
  zero wait.
- `trace_budget`: the source's 256 and 64 become 8 and 5, kept in their order,
  so two records with a retry each cross both; a proof covers every pair.
- `command`: three records let gate meet every mix of decisions; two attempts
  separate attempts from evaluations.
- `strict_texts`: the state forgets all of the text but what the scanners
  remember, so every text of any length is covered; four levels put an object
  between two uses of a key. The proofs have no bound.
- `setup`: four families of invocations, each varying one thing, since the
  checks of one do not look at the data of another: flags (every set of one to
  three sources, each that may read stdin doing so or not), documents (every
  shape a decoder branches on), environments with files, and options. One edit
  is enough, as the program reads the file at most twice.
- `stages`: a record limit of 4 symbols, a buffer of 3 and a count limit of 2
  put a record, a slice and a batch at, under and over each boundary; the line
  kinds include surplus white space on either side, which only one framing
  counts. Two records with one piece of evidence each come to 8 symbols, with two
  each to 10: `InputLimit = 9` is between them, so a stage that reads its input
  whole meets one that is too long although each record in it is short enough. Numbers count halves,
  so a fraction, an integer and both sides of both thresholds of `gate` are met.
  The float64s of the instance have three binary digits: from 8 on every second
  number is one, from 16 on every fourth, up to `MaxFloat = 28`, and 20 is one
  whose text is another number, 21. Replies hold numbers that are exact, rounded
  up, rounded down, written differently, at `IntLimit = 24` (which no int64
  holds; 24 becomes -24, as on amd64) and beyond `MaxFloat` (31, refused).

### Fairness

`MapStream`: weak fairness of the coordinator, each worker and the watcher (the
Go scheduler runs runnable goroutines, and an evaluation returns because every
HTTP attempt is under the client's timeout). A read is fair only once its input
has been closed, as a producer may stay silent for ever; `Terminates` alone
assumes a producer that continues, in its own premise. Nobody has to interrupt.
`Client`: weak fairness of the call, as sleeps end and the timeout ends every
exchange; none of the server. The other modules are sequential, are checked for
safety only and state no fairness.

## 4. Proofs

Every invariant and every action property that a run checks is proved, and so
are both refinements. The theorems assume only the named assumptions on
constants (`MapStreamAssumption`, `ClientAssumption`, `TraceAssumption` with
`StreamAssumption`, `CommandAssumption`, `StrictScanAssumption`,
`SetupAssumption`, `JsonAssumption`, `ResponsesAssumption`, `FramingAssumption`,
`StagesAssumption`), which TLC evaluates in the runs. They are the kinds and
positive sizes of the constants, that `Json` is closed, that rounding to a
float64 is done after one time and is undone by no text written for one, and
that inputs and replies are made of the values of `Json`; a reply may be anything else as long as it is JSON, or malformed.

- `MapStreamProofs`: `TypeCorrect`, `BoundedReadAhead`, `AtMostOneEvaluation`,
  `NothingNewAfterFailure`. Read-ahead is not inductive by itself: it depends on
  where a read's record is between the reader and the dispatch. `IInv` therefore
  says that at most one record is consumed and not dispatched, and that the
  window is open while it exists (`ReadSide`), that whatever a channel or a
  worker holds was dispatched (`Dispatched`), and that queued jobs are unstarted
  and distinct (`StartedOnce`). One lemma for each action that moves data, one
  (`PlainStep`) for those that do not. Then `SendsAreFree`, `CompleteSuccess`,
  `EverythingJoined`, `OnlySignalsInterrupt` and `KeepsItsPromise`, the refinement
  of `OrderedStream`, for any number of workers, records and any window. `OnePlace`
  says where a dispatched record is: queued, in a worker's hands, delivered, kept
  for its turn, or written, and nowhere else. `Counted` equates `pending` with
  the records that are not yet received, so a sender always finds room: the
  channels are as large as the window, and what they hold is distinct. `Decided`
  says what the loop knows when it ends; a loop that ends by itself has written
  everything, which is what lets the return map to the promise's conclusion.
- `ClientProofs`: `AtMostOneExecution`, `CertainRefusal`,
  `InterruptIsTheEnd`, `BoundedWaits`. `History` (requests of earlier
  attempts were refused, of later ones unsent) is what makes a retry safe.
  `CountedAttempts`, from `Observed`: both observers were told of each attempt
  and each retry as often as it happened.
  `RetryWaitBounded` bounds a wait for every header, wrapped products included.
  `Heard` is the invariant behind `InterruptIsTheEnd`: an interrupt heard in a
  sleep leaves the call asleep or over, never at another attempt, and one heard
  in an exchange finds its request sent. It is what the look at the context
  after the wait is for, and fails without it.
- `TraceProofs`: `StreamTraces` (the composition implements the recorder's own
  specification), then `BoundedDetail`, `OneNotice` and `NoSilentDrop` from the
  recorder's invariant: written detail is paid for by reservations, and the flag is
  up exactly when the notice is on stderr. `EndIsTraced` is about the composition:
  `Ending` says which closing calls are still owed and what the last lines are,
  and that the summary waited for every record, so that no worker writes after
  it. `TraceIsStdout`: the trace agrees with stdout. `Following` says, between any
  two calls, that outputs are traced without a gap up to what was emitted or to
  where the budget was spent, that no start is missing before the first
  suppression, and that completions come in order; `OwedNow` names the calls
  the trace may still be behind by.
- `CommandProofs`: `LocalErrorsFree`, `NothingLostSilently`, `CountersAgree`,
  `SummaryComesLast` and `StatusIsEarned`: every invariant of the `command` run,
  for any number of records and attempts. `Ledger` and `Balanced` say for each
  place a run can be at how many calls are begun, answered, counted and written;
  `Concluded` what a run that ends well has done; `Reported` what its status
  says of stderr.
- `StrictScanProofs`: `ScannersKeepPlace`, `RepeatedKeysAreFound`,
  `PlaceIsNeverLost`. `IInv` equates each scanner's stack with `Expected`, the
  frames that the decoder's position and stack call for. The `Expected*` lemmas
  say how that value changes when the decoder opens, completes, leaves, takes a
  key or moves on; each `*Keeps` lemma matches one kind of token with them.
  `RepeatsStop` carries the fact that a repeated key stopped both scanners.
  `OneStrictness`: on every complete document they give one verdict. `Reading`
  lists the two ways they may differ on the way there: a scalar outside every
  container stops `scanDoc` alone, a second value `scanJSON` alone.
- `ContractProofs`: `RequestReturns`, that a request which decodes and breaks no
  rule is encoded member by member as it came, but for a null or empty model. It
  goes through the questions, each in the shape its type decodes to.
- `SetupProofs`: `OneSourceFromStdin`, `KeysArePrivate`, `NoRedirection`,
  `CredentialAskedLast`, `ModelMatchesProvider`, for every set of invocations,
  environments, files and edits. `Places` says at which check a command is and
  what passed before it; on it rest `StdinIsShared` (what may have been read),
  `ProviderIsChecked` (a resolved provider was validated and kept its reserved
  meaning), `CredentialComesLast` and `TwoReadings` (the model and the provider
  are functions of the text each reading saw). `ModelOfLayers` is the fact about
  the precedence: the first layer that names a model is the provider's own
  unless that names none. `FollowsCommand` is the refinement of `Command`: from
  `Places`, each check of a document, provider or credential is the check
  `Command` is at, fails with its code (`FailureCodes`), and nothing is sent
  before the last of them. `SourcesAreSent`: what reaches the client is what the
  sources said. `Composing` keeps, check by check, that the request held is the
  composition of the sources given; `Sending`, that the body is its encoding;
  `RequestReturns` and its like for composed requests give the rest.
- `StagesProofs`, for every chain, input, reply, limit and buffer size.
  `Soundness` is the invariant `Inv`: what a stage holds is made of some closed
  set of values (it grows with each attachment, so it is quantified in the
  invariant); counts of records, calls and outputs are in step; each call passed
  every check for the record in its place (`Asking`), each output is that record
  with one decoded reply attached (`Attaching`). A pointer selects a value
  because a selection that is none would have a first token that left the set.
  From it follow `NothingOverwritten`, `CallsAreWorthIt` and `WholeReplies`: what
  is attached has the reply's members, the raw ones as they came, the typed
  numbers with the float64 they came with, and the counters too where an int64
  holds it. `NumberReturns`, `CounterReturns`, `StringReturns` and `MapReturns`
  say it of one field, `AnswerReturns` and `ReplyReturns` of the whole.
  `StreamsCutAlike` is the agreement of the two framings: `Framed` says where
  in the input the part read so far lies and that the records cut are those of
  the lines before it (`Reading`), and that a stream which ends has all of them
  or a reason (`Settled`); the work is in what one more slice does
  (`SliceMoves`) and when a line closes (`LineCounts`). `StagesReadBack` is the
  round trip: `stdout` is a `Ledger` of the values written, one line each, the
  next stage's input is the ledger of the previous stage (`Lined`), a ledger
  reads as its values (`LedgerReads`), and a stage that reads its whole input
  has all its records or none (`AllOrNone`). The theorem names each reason for
  which a stage may refuse what another wrote; the limit on a whole input, which
  a stream does not have, is one of them.

Only model-checked: liveness (`InterruptReturns`, `FailureReturns`,
`Terminates`, `CallReturns`), which needs `ENABLED` and fairness and is out of
the prover's reach.

## 5. Findings

1. `stream_interrupt`: SIGINT during an idle read closes stdin, and the failed
   read may be reported as invalid input (exit 2) instead of an interrupt (130).
2. `client_retry_after`: a huge `Retry-After` wraps in `time.Duration` and is
   taken for a short or negative wait, although values over the cap are said to
   fall back to the schedule. The waits stay bounded all the same
   (`BoundedWaits`).
3. `command_exit`: the exit status is chosen by searching the error's text, so a
   server message with cobra's words turns a service failure (1) into 2.
4. `questions_keys`: a questions document may carry `model` or `state`; every
   check passes, `validate` calls the request valid, and encoding refuses it.
   Two values given to `--state-json` pass for one in the same way.
5. `answer_null`: a `null` in a required field of an answer decodes as its zero
   value, so an answer without a score counts as the score 0.

Met while modelling, with no run kept for them:

- A record is handed to the workers before its `operation.started` is traced
  (`cli/map.go:475`), so the order of these events depends on scheduling.
- With a trace id but without `--verbose`, the suppression notice is written
  after 64 operations of a trace that nobody asked to see (`trace/trace.go:171`;
  `docs/ARCHITECTURE.md:86`).
- `scanDoc` alone accepts `{}{}` and an empty text, which its comment excludes;
  each caller that takes a document decodes it afterwards and refuses both.
- The two readings of the configuration may pick two providers when it is edited
  in between; `ModelFitsProvider` says what holds without an edit.
- A base URL is validated trimmed and used untrimmed (`cli/config.go:109`, `63`).
- A native request without a model passes `ask` and `validate` and is refused by
  `map --request-pointer`.
- Re-encoding a usage object adds token counters of 0 that the reply lacked
  (`EvidenceIsTheReply` allows them).
- Two things the encoders leave out came up in proofs, on values no instance had
  at first: a null inside an answer's probabilities or legend comes back as a
  zero value, and a model that is null or empty is not sent. `EvidenceIsTheReply`
  and `SentIsWhatWasGiven` name both, and the instances now have such values.
- A typed number of a reply is rewritten: a long decimal as the shortest text of
  its float64, a counter above 2^53 as a rounded one, a counter that no int64
  holds as another number altogether (`contract/decode.go:328`), although the
  encoding is called lossless (`contract/encode.go:22`) and usage is said to be
  rendered "verbatim plus the typed counters" (`contract/marshal.go:55`). The
  counters a service reports are far below that. `EvidenceIsTheReply` says what
  holds.
- A stage may write a record that is over the next stage's limit, and `map
  --input ndjson` may write more in all than a next `rate` or `gate` accepts
  (`cli/map.go:29`, `cli/rate.go:79`, `cli/gate.go:88`). `StagesAgree` names both cases.
- A questions document with a member `model` or `state` fails in encoding in
  `map` as well (finding 4), for its first record, after every local check.

## 6. Not modelled

- Help, examples, completion, version and static discovery text; the wiring in
  `cmd/jeq`; the example server; release scripts: no state, or none that
  interacts.
- Wording of messages, JSON layout, number formatting, UTF-8 and BOM checks,
  pointer escapes, the syntax of names, URLs and paths: predicates on bytes that
  decide one outcome each; the models choose that outcome.
- rank's ordering of candidates and the envelopes of rank and reduce, the
  fields of the models document, the token totals of the usage summary: pure
  data behind steps that are modelled.
- Trace calls of the commands other than a record stream: the same recorder,
  called by one goroutine.
- Client's own deadline and a cancelled HTTP exchange are outcomes of an
  exchange, not clocks. A second SIGINT, which kills the process, is outside the
  program. SIGINT while a command other than a stream waits for stdin has no
  effect in the code until the read returns, and nothing promises one.

## 7. Plan

Done: `MapStream`, `Client`, `Trace` and its composition, `Command`,
`StrictScan`, `Resolve`, `Contract`, `Setup`, `Framing`, `Evidence` and
`Stages`, and a proof of every safety property the runs check. Next, in this
order:

1. `Stages` against `Command`: that a single stage makes the calls and ends with
   the codes that `Command` allows for its kind, as `Setup` already does for
   `ask`, `validate` and `models`.
2. `MapStream` under `Stages`: a stage that streams with several calls under
   way writes the same text as the sequential one, from `KeepsItsPromise` and
   `StreamsCutAlike`.
3. rank and reduce: the order of candidates and the two envelopes, with the
   evidence they take from earlier stages.
