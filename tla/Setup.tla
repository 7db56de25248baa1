-------------------------------- MODULE Setup ---------------------------------
(***************************************************************************)
(* The front half of ask, validate and models (internal/cli/ask.go,        *)
(* validate.go, discovery.go): which sources are given, the documents they *)
(* hold, the model, the composed request, the options and the provider, in *)
(* the order of the source, up to the call of the client.  The             *)
(* configuration file belongs to the user, who may edit it at any moment.  *)
(***************************************************************************)
EXTENDS Contract, Resolve

CONSTANTS
  Invocations,  \* the command lines, their documents and their environments
  Files,        \* what the configuration file may hold
  MaxEdits      \* bound on the edits of that file

\* The flags whose source may be stdin.
Streams == {"request", "questions", "state-file", "state-json-file"}

ASSUME SetupAssumption ==
  /\ MaxEdits \in Nat
  /\ \A i \in Invocations :
       i.cmd \in {"ask", "validate", "models"} /\ i.stdin \subseteq i.given \cap Streams

VARIABLES
  inv,       \* the invocation
  file,      \* the configuration file as it is now
  edits,     \* how often it was edited
  pc, step,  \* where the command is, as in Command
  model,     \* the resolved model and the layer it came from
  request,   \* the composed request
  provider,  \* the resolved provider
  err,       \* the code the command ends with
  sent,      \* the body handed to the transport
  reads,     \* history: sources read, stdin counted per read
  configs    \* history: the configurations read, in order

docVars == <<model, request, provider, sent>>
vars == <<inv, file, edits, pc, step, docVars, err, reads, configs>>

------------------------------------------------------------------------------
(* Sources.  inv.given are the flags on the command line, inv.stdin those  *)
(* of them that say "-", inv.docs what each source's text is: a JSON       *)
(* value, Malformed, or Unreadable; the text of a text state is a string.  *)

Malformed  == [lit |-> "malformed"]
Unreadable == [lit |-> "unreadable"]

TextFlags     == {"state", "state-file"}
StateFlags    == TextFlags \cup {"state-json", "state-json-file"}
QuestionFlags == {"questions", "questions-json"}

ASSUME DocumentsAssumption ==
  \A i \in Invocations : \A flag \in i.given :
    /\ flag \in QuestionFlags \cup {"request"} => i.docs[flag] \in Json \cup {Malformed, Unreadable}
    /\ flag \in TextFlags =>
         i.docs[flag] = Unreadable \/ (i.docs[flag] \in Json /\ IsA(i.docs[flag], "str"))

Native(i) == "request" \in i.given

\* The one flag of the set that is given.
The(i, flags) == CHOOSE flag \in flags : flag \in i.given

Questions(i) == i.docs[The(i, QuestionFlags)]
State(i)     == i.docs[The(i, StateFlags)]

\* CheckSources: --request alone, or questions with exactly one state.
SourcesClash(i) ==
  \/ Native(i) /\ i.given \cap (QuestionFlags \cup StateFlags) # {}
  \/ Cardinality(i.given \cap StateFlags) > 1

SourcesMissing(i) ==
  ~Native(i) /\ (i.given \cap QuestionFlags = {} \/ i.given \cap StateFlags = {})

\* Mutant: stdin may serve a second source.
StdinClash_Never(i) == FALSE

\* CheckStdin.
StdinClash(i) == Cardinality(i.stdin) >= 2

\* validateQuestionsDocument.
QuestionsFailure(doc) ==
  IF QuestionsDocFailure(doc) # "none" THEN QuestionsDocFailure(doc)
  ELSE IF Violations([state     |-> Str("probe"),
                      questions |-> DecodedQuestions(doc.obj["questions"])]) # {}
       THEN "REQUEST_INVALID"
  ELSE "none"

\* The checks before anything is read, inline documents included.
SourcesFailure(i) ==
  IF Native(i) /\ "model" \in i.given THEN "SOURCE_CONFLICT"
  ELSE IF QuestionFlags \subseteq i.given THEN "SOURCE_CONFLICT"
  ELSE IF SourcesClash(i) THEN "SOURCE_CONFLICT"
  ELSE IF SourcesMissing(i) THEN "INPUT_INVALID"
  ELSE IF StdinClash(i) THEN "SOURCE_CONFLICT"
  ELSE IF "questions-json" \in i.given /\ QuestionsFailure(Questions(i)) # "none"
       THEN QuestionsFailure(Questions(i))
  ELSE IF "state-json" \in i.given /\ ~StateFits(State(i)) THEN "INPUT_INVALID"
  ELSE "none"

\* The questions document is read and checked before the state is.
QuestionsReadFailure(i) ==
  IF "questions" \notin i.given THEN "none"
  ELSE IF Questions(i) = Unreadable THEN "INPUT_INVALID"
  ELSE QuestionsFailure(Questions(i))

StateReadFailure(i) ==
  IF State(i) = Unreadable \/ ("state-json-file" \in i.given /\ ~StateFits(State(i)))
  THEN "INPUT_INVALID" ELSE "none"

DocumentsFailure(i) ==
  IF Native(i) THEN IF i.docs["request"] = Unreadable THEN "INPUT_INVALID" ELSE "none"
  ELSE IF QuestionsReadFailure(i) # "none" THEN QuestionsReadFailure(i)
  ELSE StateReadFailure(i)

\* The sources the documents step reads.
DocumentsRead(i) ==
  LET files == i.given \cap Streams
  IN IF ~Native(i) /\ QuestionsReadFailure(i) # "none" THEN files \cap QuestionFlags ELSE files

------------------------------------------------------------------------------
(* Composition.                                                            *)

\* composeComposed encodes a text state, and takes a JSON one as it is.
StateValue(i) ==
  IF i.given \cap TextFlags # {} THEN Str(AsString(State(i))) ELSE State(i)

Composed(i, m) ==
  IF Native(i) THEN DecodedRequest(i.docs["request"])
  ELSE [model     |-> m,
        state     |-> StateValue(i),
        questions |-> DecodedQuestions(Questions(i).obj["questions"]),
        extra     |-> QuestionsExtra(Questions(i))]

\* A blank text state is refused before the local rules are asked.
ComposeFailure(i, m) ==
  IF Native(i) /\ ~RequestDecodes(i.docs["request"]) THEN "REQUEST_INVALID"
  ELSE IF ~Native(i) /\ i.given \cap TextFlags # {} /\ EmptyValue(StateValue(i))
       THEN "INPUT_INVALID"
  ELSE IF Violations(Composed(i, m)) # {} THEN "REQUEST_INVALID"
  ELSE "none"

------------------------------------------------------------------------------
NoModel   == [source |-> "none", model |-> ""]
NoRequest == [model |-> "", state |-> Absent, questions |-> <<>>, extra |-> <<>>]

Codes == {"SOURCE_CONFLICT", "INPUT_INVALID", "REQUEST_INVALID", "AUTH_MISSING"}

\* Mutant: the credential is looked up before the flags are checked.
AskSteps_ProviderEarly ==
  <<"sources", "documents", "model", "compose", "provider", "options">>

AskSteps      == <<"sources", "documents", "model", "compose", "options", "provider">>
ValidateSteps == <<"sources", "documents", "model", "compose">>

\* Mutant: models resolves its provider before it checks its flags.
ModelsSteps_ProviderFirst == <<"provider", "options">>

ModelsSteps   == <<"options", "provider">>

Steps == [ask |-> AskSteps, validate |-> ValidateSteps, models |-> ModelsSteps]

\* (Where no path leads to a file, what it holds does not matter.)
Init ==
  /\ inv \in Invocations
  /\ file \in Files
  /\ inv.env.path = "none" => file.state = "absent"
  /\ edits = 0
  /\ pc = "start"
  /\ step = 1
  /\ model = NoModel
  /\ request = NoRequest
  /\ provider = NoProvider
  /\ err = "none"
  /\ sent = Absent
  /\ reads = {}
  /\ configs = <<>>

At(check) == pc = "check" /\ step <= Len(Steps[inv.cmd]) /\ Steps[inv.cmd][step] = check

\* The check fails with the code, or the command goes on.
Conclude(code) ==
  IF code = "none" THEN step' = step + 1 /\ UNCHANGED <<pc, err>>
  ELSE pc' = "report" /\ err' = code /\ UNCHANGED step

Start ==
  /\ pc = "start"
  /\ pc' = "check"
  /\ UNCHANGED <<inv, file, edits, step, docVars, err, reads, configs>>

CheckSources ==
  /\ At("sources")
  /\ Conclude(SourcesFailure(inv))
  /\ UNCHANGED <<inv, file, edits, docVars, reads, configs>>

ReadDocuments ==
  /\ At("documents")
  /\ Conclude(DocumentsFailure(inv))
  /\ reads' = reads \cup DocumentsRead(inv)
  /\ UNCHANGED <<inv, file, edits, docVars, configs>>

\* Mutant: the model is resolved without the optional default file.
ResolveModel_NoDefaultFile ==
  /\ At("model")
  /\ IF Native(inv) THEN Conclude("none") /\ UNCHANGED <<model, configs>>
     ELSE LET env    == IF inv.env.path = "default" THEN [inv.env EXCEPT !.path = "none"]
                        ELSE inv.env
              config == ConfigRead(env, file)
          IN IF ModelFails(env, file)
             THEN Conclude("INPUT_INVALID") /\ UNCHANGED <<model, configs>>
             ELSE /\ Conclude("none")
                  /\ model' = ResolvedModel(inv.model, env, config)
                  /\ configs' = Append(configs, file)
  /\ UNCHANGED <<inv, file, edits, request, provider, sent, reads>>

\* A native document owns its model; otherwise the configuration is read, and
\* the provider it selects has to be valid although only its model is wanted.
ResolveModel ==
  /\ At("model")
  /\ IF Native(inv) THEN Conclude("none") /\ UNCHANGED <<model, configs>>
     ELSE IF ModelFails(inv.env, file)
     THEN Conclude("INPUT_INVALID") /\ UNCHANGED <<model, configs>>
     ELSE /\ Conclude("none")
          /\ model' = ResolvedModel(inv.model, inv.env, ConfigRead(inv.env, file))
          /\ configs' = Append(configs, file)
  /\ UNCHANGED <<inv, file, edits, request, provider, sent, reads>>

Compose ==
  /\ At("compose")
  /\ Conclude(ComposeFailure(inv, model.model))
  /\ request' = IF ComposeFailure(inv, model.model) = "none"
                THEN Composed(inv, model.model) ELSE request
  /\ UNCHANGED <<inv, file, edits, model, provider, sent, reads, configs>>

CheckOptions ==
  /\ At("options")
  /\ Conclude(IF inv.options THEN "none" ELSE "INPUT_INVALID")
  /\ UNCHANGED <<inv, file, edits, docVars, reads, configs>>

\* The configuration is read once more.
ResolveProvider ==
  /\ At("provider")
  /\ Conclude(ProviderFailure(inv.env, file))
  /\ IF ProviderFailure(inv.env, file) = "none"
     THEN /\ provider' = ResolvedProvider(inv.env, ConfigRead(inv.env, file))
          /\ configs' = Append(configs, file)
     ELSE UNCHANGED <<provider, configs>>
  /\ UNCHANGED <<inv, file, edits, model, request, sent, reads>>

\* validate prints its receipt; the others call the client.
Prepared ==
  /\ pc = "check"
  /\ step > Len(Steps[inv.cmd])
  /\ pc' = IF inv.cmd = "validate" THEN "write" ELSE "ready"
  /\ UNCHANGED <<inv, file, edits, step, docVars, err, reads, configs>>

\* Client.Evaluate encodes the request before its first attempt; Models sends no body.
CallClient ==
  /\ pc = "ready"
  /\ IF inv.cmd = "models" THEN pc' = "calling" /\ UNCHANGED <<err, sent>>
     ELSE IF RequestEncodes(request)
     THEN pc' = "calling" /\ sent' = EncodedRequest(request) /\ UNCHANGED err
     ELSE pc' = "report" /\ err' = "REQUEST_INVALID" /\ UNCHANGED sent
  /\ UNCHANGED <<inv, file, edits, step, model, request, provider, reads, configs>>

\* The user saves another configuration.
EditFile ==
  /\ pc = "check"
  /\ edits < MaxEdits
  /\ inv.env.path # "none"
  /\ file' \in Files \ {file}
  /\ edits' = edits + 1
  /\ UNCHANGED <<inv, pc, step, docVars, err, reads, configs>>

Finished == pc \in {"write", "calling", "report"} /\ UNCHANGED vars

Next ==
  \/ Start \/ CheckSources \/ ReadDocuments \/ ResolveModel \/ Compose \/ CheckOptions
  \/ ResolveProvider \/ Prepared \/ CallClient \/ EditFile \/ Finished

Spec == Init /\ [][Next]_vars

------------------------------------------------------------------------------
(* Properties.                                                             *)

Ready == pc \in {"ready", "calling"}

TypeOK ==
  /\ edits \in 0 .. MaxEdits
  /\ pc \in {"start", "check", "ready", "calling", "write", "report"}
  /\ step \in 1 .. Len(Steps[inv.cmd]) + 1
  /\ model.source \in {"none", "flag", "environment", "provider", "config", "default"}
  /\ provider.auth \in {"", "bearer", "none"}
  /\ err \in Codes \cup {"none"}
  /\ (err # "none") = (pc = "report")
  /\ reads \subseteq inv.given
  /\ Len(configs) \in 0 .. 2

\* stdin is read for one source at most, whatever the flags say.
StdinServesOnce == Cardinality(reads \cap inv.stdin) <= 1

\* A body carries every source that was given and nothing else: a native
\* document as it is, unknown members included, and of a composed request the
\* state, each member of the questions document and the model of --model.
\* (A model that is null or empty, which is none, is left out.)
SentIsWhatWasGiven ==
  sent # Absent =>
    IF Native(inv)
    THEN /\ inv.given \cap (QuestionFlags \cup StateFlags) = {}
         /\ LET m == AsMembers(inv.docs["request"])
            IN sent = Obj(IF AsString(Member(m, "model")) = "" THEN Without(m, {"model"}) ELSE m)
    ELSE /\ \A flag \in inv.given \cap StateFlags : sent.obj["state"] = inv.docs[flag]
         /\ \A flag \in inv.given \cap QuestionFlags :
              Without(sent.obj, {"model", "state"}) = inv.docs[flag].obj
         /\ "model" \in inv.given /\ inv.model # "" => sent.obj["model"] = Str(inv.model)

\* A missing credential is reported only when nothing else is wrong: the
\* options are valid and, for ask, the request is complete.
CredentialIsLast ==
  err = "AUTH_MISSING" =>
    /\ inv.options
    /\ inv.cmd = "ask" => request.questions # <<>> /\ ~EmptyValue(request.state)

\* What a client is built with: plain HTTP and anonymous access stay on this
\* machine, and a credential is one that is set.
KeysStayPrivate ==
  Ready =>
    /\ provider.url.plain
    /\ provider.url.scheme = "http" \/ provider.auth = "none" => isLoopback(provider.url.host)
    /\ provider.auth = "bearer" => provider.key \in inv.env.keys
    /\ provider.auth = "none" => provider.key = ""

\* No file changes what a reserved name stands for.
ReservedNamesHold ==
  Ready =>
    /\ provider.name = "typesafe" => provider.url \in {DefaultBaseURL, inv.env.baseURL}
                                     /\ provider.key = "TYPESAFE_API_KEY"
    /\ provider.name = "vercel" => provider.url = GatewayURL
    /\ provider.name = "custom" => provider.url = inv.env.customURL

\* Unless the file was edited between the two readings, a composed request
\* that no flag and no variable gives a model carries the model of the
\* provider it is sent to.
ModelFitsProvider ==
  Ready /\ inv.cmd = "ask" /\ ~Native(inv) /\ configs[1] = configs[2]
        /\ inv.model = "" /\ Trim(inv.env.model) = "" =>
    /\ provider.name = "vercel" => request.model = "typesafe-ai/jev"
    /\ provider.name \notin Reserved =>
         request.model = Trim(configs[2].profiles[provider.name].model)
    /\ provider.name = "typesafe" =>
         request.model \in {DefaultModel, Trim(configs[2].model), Trim(inv.env.legacyModel)}

\* What encodeDoc's comment says: a document that was decoded can be encoded.
AcceptedCanBeSent == pc \in {"ready", "write"} /\ inv.cmd # "models" => RequestEncodes(request)

\* Setup implements the checks of Command: the same checks in the same order
\* with no other code, and nothing of a call before all of them have passed.
C == INSTANCE Command WITH
       MaxRecords  <- 1,
       MaxAttempts <- 1,
       cmd         <- inv.cmd,
       wantsUsage  <- FALSE,
       total       <- 1,
       at          <- 0,
       judged      <- [d \in {"pass", "reject", "uncertain"} |-> 0],
       calls       <- IF pc = "calling" THEN 1 ELSE 0,
       answered    <- 0,
       usage       <- [c \in {"attempted", "successful", "processed", "answers"} |-> 0],
       installed   <- FALSE,
       written     <- 0,
       phrase      <- FALSE,
       stderr      <- <<>>,
       exit        <- 0,
       signalled   <- FALSE

ImplementsCommand == C!Spec

==============================================================================
