----------------------------- MODULE SetupProofs ------------------------------
(***************************************************************************)
(* Proofs about Setup for every set of invocations, every content of the   *)
(* configuration file and any number of edits.  What a check establishes,  *)
(* the commands rely on once they are past it: each invariant says what is *)
(* true from a step on.                                                    *)
(***************************************************************************)
EXTENDS Setup, ContractProofs, FiniteSetTheorems, TLAPS

------------------------------------------------------------------------------
(* Where a command is.                                                     *)

Places ==
  /\ inv \in Invocations
  /\ step \in Nat \ {0}
  /\ pc \in {"start", "check", "ready", "calling", "write", "report"}
  /\ pc = "start" => step = 1
  /\ pc \in {"ready", "calling"} => inv.cmd # "validate" /\ step > Len(Steps[inv.cmd])
  /\ pc # "report" => err = "none"

\* The steps of each command, one by one.
LEMMA StepsOf ==
  /\ Len(Steps["ask"]) = 6 /\ Len(Steps["validate"]) = 4 /\ Len(Steps["models"]) = 2
  /\ \A i \in Nat \ {0} :
       /\ i <= 6 => \A check : Steps["ask"][i] = check =>
            /\ check = "sources" <=> i = 1
            /\ check = "documents" <=> i = 2
            /\ check = "model" <=> i = 3
            /\ check = "compose" <=> i = 4
            /\ check = "options" <=> i = 5
            /\ check = "provider" <=> i = 6
       /\ i <= 4 => \A check : Steps["validate"][i] = check =>
            /\ check = "sources" <=> i = 1
            /\ check = "documents" <=> i = 2
            /\ check = "model" <=> i = 3
            /\ check = "compose" <=> i = 4
            /\ check \notin {"options", "provider"}
       /\ i <= 2 => \A check : Steps["models"][i] = check =>
            /\ check = "options" <=> i = 1
            /\ check = "provider" <=> i = 2
            /\ check \notin {"sources", "documents", "model", "compose"}
<1> USE DEF Steps, AskSteps, ValidateSteps, ModelsSteps
<1>1. /\ Len(Steps["ask"]) = 6 /\ Len(Steps["validate"]) = 4 /\ Len(Steps["models"]) = 2
  OBVIOUS
<1>2. ASSUME NEW i \in Nat \ {0}, i <= 6, NEW check, Steps["ask"][i] = check
      PROVE  /\ check = "sources" <=> i = 1
             /\ check = "documents" <=> i = 2
             /\ check = "model" <=> i = 3
             /\ check = "compose" <=> i = 4
             /\ check = "options" <=> i = 5
             /\ check = "provider" <=> i = 6
  <2>1. i \in {1, 2, 3, 4, 5, 6}
    BY <1>2
  <2>. QED BY <2>1, <1>2
<1>3. ASSUME NEW i \in Nat \ {0}, i <= 4, NEW check, Steps["validate"][i] = check
      PROVE  /\ check = "sources" <=> i = 1
             /\ check = "documents" <=> i = 2
             /\ check = "model" <=> i = 3
             /\ check = "compose" <=> i = 4
             /\ check \notin {"options", "provider"}
  <2>1. i \in {1, 2, 3, 4}
    BY <1>3
  <2>. QED BY <2>1, <1>3
<1>4. ASSUME NEW i \in Nat \ {0}, i <= 2, NEW check, Steps["models"][i] = check
      PROVE  /\ check = "options" <=> i = 1
             /\ check = "provider" <=> i = 2
             /\ check \notin {"sources", "documents", "model", "compose"}
  <2>1. i \in {1, 2}
    BY <1>4
  <2>. QED BY <2>1, <1>4
<1>. HIDE DEF Steps, AskSteps, ValidateSteps, ModelsSteps
<1>. QED BY <1>1, <1>2, <1>3, <1>4

\* Which step a check is.
LEMMA AtWhere ==
  ASSUME Places, NEW check, At(check)
  PROVE  /\ pc = "check" /\ step <= Len(Steps[inv.cmd])
         /\ inv.cmd \in {"ask", "validate", "models"}
         /\ check = "sources" => inv.cmd # "models" /\ step = 1
         /\ check = "documents" => inv.cmd # "models" /\ step = 2
         /\ check = "model" => inv.cmd # "models" /\ step = 3
         /\ check = "compose" => inv.cmd # "models" /\ step = 4
         /\ check = "options" => \/ inv.cmd = "ask" /\ step = 5
                                 \/ inv.cmd = "models" /\ step = 1
         /\ check = "provider" => \/ inv.cmd = "ask" /\ step = 6
                                  \/ inv.cmd = "models" /\ step = 2
<1>1. inv.cmd \in {"ask", "validate", "models"}
  BY SetupAssumption DEF Places
<1>2. CASE inv.cmd = "ask"
  BY <1>2, StepsOf DEF At, Places
<1>3. CASE inv.cmd = "validate"
  BY <1>3, StepsOf DEF At, Places
<1>4. CASE inv.cmd = "models"
  BY <1>4, StepsOf DEF At, Places
<1>. QED BY <1>1, <1>2, <1>3, <1>4

LEMMA PlacesInit == Init => Places
BY DEF Init, Places

LEMMA PlacesStep == Places /\ [Next]_vars => Places'
<1> SUFFICES ASSUME Places, [Next]_vars PROVE Places'
  OBVIOUS
<1> USE DEF Places
<1>1. CASE Start
  BY <1>1 DEF Start
<1>2. CASE CheckSources
  BY <1>2 DEF CheckSources, Conclude, At
<1>3. CASE ReadDocuments
  BY <1>3 DEF ReadDocuments, Conclude, At
<1>4. CASE ResolveModel
  BY <1>4 DEF ResolveModel, Conclude, At
<1>5. CASE Compose
  BY <1>5 DEF Compose, Conclude, At
<1>6. CASE CheckOptions
  BY <1>6 DEF CheckOptions, Conclude, At
<1>7. CASE ResolveProvider
  BY <1>7 DEF ResolveProvider, Conclude, At
<1>8. CASE Prepared
  BY <1>8 DEF Prepared
<1>9. CASE CallClient
  BY <1>9 DEF CallClient
<1>10. CASE EditFile
  BY <1>10 DEF EditFile
<1>11. CASE Finished \/ UNCHANGED vars
  BY <1>11 DEF Finished, vars
<1>. QED BY <1>1, <1>2, <1>3, <1>4, <1>5, <1>6, <1>7, <1>8, <1>9, <1>10, <1>11 DEF Next

LEMMA PlacesHold == Spec => []Places
BY PlacesInit, PlacesStep, PTL DEF Spec

------------------------------------------------------------------------------
(* stdin.  Past the sources check at most one source is stdin, and nothing  *)
(* is read before it.                                                       *)

StdinIsShared ==
  /\ inv.cmd # "models" /\ step > 1 => ~StdinClash(inv)
  /\ inv.cmd = "models" \/ step = 1 => reads = {}

LEMMA SourcesCheckStdin == \A i : SourcesFailure(i) = "none" => ~StdinClash(i)
BY DEF SourcesFailure

LEMMA StdinInit == Init => StdinIsShared
BY DEF Init, StdinIsShared

LEMMA StdinStep == Places /\ StdinIsShared /\ [Next]_vars => StdinIsShared'
<1> SUFFICES ASSUME Places, StdinIsShared, [Next]_vars PROVE StdinIsShared'
  OBVIOUS
<1> USE DEF Places, StdinIsShared
<1>1. CASE Start
  BY <1>1 DEF Start
<1>2. CASE CheckSources
  <2>1. inv.cmd # "models" /\ step = 1
    BY <1>2, AtWhere DEF CheckSources
  <2>2. step' > 1 => SourcesFailure(inv) = "none"
    BY <1>2, <2>1 DEF CheckSources, Conclude
  <2>. QED BY <1>2, <2>1, <2>2, SourcesCheckStdin DEF CheckSources, Conclude
<1>3. CASE ReadDocuments
  <2>1. inv.cmd # "models" /\ step = 2
    BY <1>3, AtWhere DEF ReadDocuments
  <2>. QED BY <1>3, <2>1 DEF ReadDocuments, Conclude
<1>4. CASE ResolveModel
  <2>1. inv.cmd # "models" /\ step = 3
    BY <1>4, AtWhere DEF ResolveModel
  <2>. QED BY <1>4, <2>1 DEF ResolveModel, Conclude
<1>5. CASE Compose
  <2>1. inv.cmd # "models" /\ step = 4
    BY <1>5, AtWhere DEF Compose
  <2>. QED BY <1>5, <2>1 DEF Compose, Conclude
<1>6. CASE CheckOptions
  <2>1. inv.cmd = "models" \/ step = 5
    BY <1>6, AtWhere DEF CheckOptions
  <2>. QED BY <1>6, <2>1 DEF CheckOptions, Conclude
<1>7. CASE ResolveProvider
  <2>1. inv.cmd = "models" \/ step = 6
    BY <1>7, AtWhere DEF ResolveProvider
  <2>2. UNCHANGED <<inv, reads>> /\ step' \in {step, step + 1}
    BY <1>7 DEF ResolveProvider, Conclude
  <2>. QED BY <2>1, <2>2
<1>8. CASE Prepared
  BY <1>8 DEF Prepared
<1>9. CASE CallClient
  BY <1>9 DEF CallClient
<1>10. CASE EditFile
  BY <1>10 DEF EditFile
<1>11. CASE Finished \/ UNCHANGED vars
  BY <1>11 DEF Finished, vars
<1>. QED BY <1>1, <1>2, <1>3, <1>4, <1>5, <1>6, <1>7, <1>8, <1>9, <1>10, <1>11 DEF Next

\* stdin is read for one source at most, whatever sources are given: CheckStdin
\* comes before anything is read.
THEOREM OneSourceFromStdin == Spec => []StdinServesOnce
<1>1. Places /\ StdinIsShared => StdinServesOnce
  <2> SUFFICES ASSUME Places, StdinIsShared PROVE Cardinality(reads \cap inv.stdin) <= 1
    BY DEF StdinServesOnce
  <2>1. IsFiniteSet(Streams)
    <3>1. Streams = {"request", "questions"} \cup {"state-file", "state-json-file"}
      BY DEF Streams
    <3>2. \A a, b : IsFiniteSet({a, b})
      <4> TAKE a, b
      <4>1. IsFiniteSet({a})
        BY FS_Singleton
      <4>2. {a, b} = {a} \cup {b}
        OBVIOUS
      <4>. QED BY <4>1, <4>2, FS_AddElement
    <3>. QED BY <3>1, <3>2, FS_Union
  <2>2. inv.stdin \subseteq Streams
    BY SetupAssumption DEF Places
  <2>3. IsFiniteSet(inv.stdin)
    BY <2>1, <2>2, FS_Subset
  <2>4. /\ Cardinality(inv.stdin) \in Nat
        /\ Cardinality(reads \cap inv.stdin) \in Nat
        /\ Cardinality(reads \cap inv.stdin) <= Cardinality(inv.stdin)
    BY <2>3, FS_Subset, FS_CardinalityType
  <2>5. CASE reads = {}
    BY <2>5, FS_EmptySet
  <2>6. CASE reads # {}
    BY <2>4, <2>6 DEF StdinIsShared, StdinClash, Places
  <2>. QED BY <2>5, <2>6
<1>2. Spec => []StdinIsShared
  BY PlacesHold, StdinInit, StdinStep, PTL DEF Spec
<1>. QED BY <1>1, <1>2, PlacesHold, PTL

------------------------------------------------------------------------------
(* The provider.  What ResolveProvider gives is settled by the environment  *)
(* and one reading of the file, and only the provider step changes it.      *)

Private(p, env) ==
  /\ p.url.plain
  /\ p.url.scheme = "http" \/ p.auth = "none" => isLoopback(p.url.host)
  /\ p.auth = "bearer" => p.key \in env.keys
  /\ p.auth = "none" => p.key = ""

Unredirected(p, env) ==
  /\ p.name = "typesafe" => p.url \in {DefaultBaseURL, env.baseURL} /\ p.key = "TYPESAFE_API_KEY"
  /\ p.name = "vercel" => p.url = GatewayURL
  /\ p.name = "custom" => p.url = env.customURL

\* A provider that ResolveProvider gives was validated, and its credential is set.
LEMMA ResolvedIsPrivate ==
  ASSUME NEW env, NEW text, ProviderFailure(env, text) = "none"
  PROVE  Private(ResolvedProvider(env, ConfigRead(env, text)), env)
<1> DEFINE config   == ConfigRead(env, text)
           name     == ProviderName(env, config)
           profile  == SelectedProfile(name, env, config)
           resolved == ResolvedProvider(env, config)
<1>1. ~ProviderFails(env, config) /\ (resolved.auth = "bearer" => resolved.key \in env.keys)
  BY DEF ProviderFailure
<1>2. validateProvider(profile)
  BY <1>1 DEF ProviderFails
<1>3. /\ resolved.url = profile.url
      /\ resolved.auth = profile.auth
      /\ profile.auth # "bearer" => resolved.key = ""
  BY DEF ResolvedProvider
<1> HIDE DEF config, name, profile, resolved
<1>4. /\ profile.url.plain
      /\ profile.auth = "none" => isLoopback(profile.url.host)
      /\ profile.url.scheme = "http" => isLoopback(profile.url.host)
  BY <1>2 DEF validateProvider, validProviderScheme
<1>5. Private(resolved, env)
  BY <1>1, <1>3, <1>4 DEF Private
<1>. QED BY <1>5 DEF resolved, config

\* The profiles of a file that was read do not have a reserved name.
LEMMA ReadNamesAreFree ==
  ASSUME NEW env, NEW text, NEW name \in Reserved
  PROVE  name \notin DOMAIN ConfigRead(env, text).profiles
<1>1. CASE env.path # "none" /\ FileIsValid(text)
  <2>1. name \notin DOMAIN text.profiles
    BY <1>1 DEF FileIsValid, NameIsValid
  <2>2. ConfigRead(env, text).profiles = text.profiles
    BY <1>1 DEF ConfigRead
  <2>. QED BY <2>1, <2>2
<1>2. CASE ~(env.path # "none" /\ FileIsValid(text))
  <2>1. ConfigRead(env, text).profiles = <<>>
    BY <1>2 DEF ConfigRead, NoConfig
  <2>. QED BY <2>1, NoMembers
<1>. QED BY <1>1, <1>2

\* Only TYPESAFE_BASE_URL and JEQ_BASE_URL change what a reserved name stands for.
LEMMA ResolvedIsUnredirected ==
  ASSUME NEW env, NEW text
  PROVE  Unredirected(ResolvedProvider(env, ConfigRead(env, text)), env)
<1> DEFINE config   == ConfigRead(env, text)
           name     == ProviderName(env, config)
           profile  == SelectedProfile(name, env, config)
           resolved == ResolvedProvider(env, config)
<1>1. /\ resolved.name = name
      /\ resolved.url = profile.url
      /\ profile.auth = "bearer" => resolved.key = CredentialVariable(name, profile, env)
  BY DEF ResolvedProvider
<1>2. "custom" \notin DOMAIN config.profiles
  BY ReadNamesAreFree DEF Reserved
<1> HIDE DEF config, name, resolved
<1>3. CASE name = "typesafe"
  <2> DEFINE builtin == Builtin(name)
  <2>1. /\ builtin.url = DefaultBaseURL
        /\ builtin.auth = "bearer" /\ builtin.key = "TYPESAFE_API_KEY"
    BY <1>3 DEF Builtin, Profile
  <2>2. /\ profile.url \in {DefaultBaseURL, env.baseURL}
        /\ profile.auth = "bearer" /\ profile.key = "TYPESAFE_API_KEY"
    <3>1. CASE env.baseURL = NoUrl
      <4>1. profile = builtin
        BY <1>3, <3>1 DEF SelectedProfile
      <4>. QED BY <2>1, <4>1
    <3>2. CASE env.baseURL # NoUrl
      <4>1. profile = Profile(env.baseURL, builtin.model, builtin.auth, builtin.key)
        BY <1>3, <3>2 DEF SelectedProfile
      <4>. QED BY <2>1, <4>1 DEF Profile
    <3>. QED BY <3>1, <3>2
  <2>. QED BY <1>1, <1>3, <2>2 DEF Unredirected, CredentialVariable, resolved, config
<1>4. CASE name = "vercel"
  <2>1. profile.url = GatewayURL
    BY <1>4 DEF SelectedProfile, Builtin, Profile
  <2>. QED BY <1>1, <1>4, <2>1 DEF Unredirected, resolved, config
<1>5. CASE name = "custom"
  <2>1. profile.url = env.customURL
    BY <1>2, <1>5 DEF SelectedProfile, Custom, Profile
  <2>. QED BY <1>1, <1>5, <2>1 DEF Unredirected, resolved, config
<1>6. CASE name \notin {"typesafe", "vercel", "custom"}
  BY <1>1, <1>6 DEF Unredirected, resolved, config
<1>. QED BY <1>3, <1>4, <1>5, <1>6

ProviderIsChecked ==
  inv.cmd # "validate" /\ step > Len(Steps[inv.cmd]) =>
    Private(provider, inv.env) /\ Unredirected(provider, inv.env)

LEMMA ProviderInit == Init => ProviderIsChecked
<1> SUFFICES ASSUME Init PROVE ProviderIsChecked
  OBVIOUS
<1>1. inv.cmd \in {"ask", "validate", "models"} /\ step = 1
  BY SetupAssumption DEF Init
<1>2. Len(Steps[inv.cmd]) \in 2 .. 6
  BY <1>1, StepsOf
<1>3. ~(step > Len(Steps[inv.cmd]))
  BY <1>1, <1>2
<1>. QED BY <1>3 DEF ProviderIsChecked

LEMMA ProviderStep == Places /\ ProviderIsChecked /\ [Next]_vars => ProviderIsChecked'
<1> SUFFICES ASSUME Places, ProviderIsChecked, [Next]_vars PROVE ProviderIsChecked'
  OBVIOUS
<1>1. CASE ResolveProvider
  <2>1. inv' = inv
    BY <1>1 DEF ResolveProvider
  <2>2. CASE ProviderFailure(inv.env, file) = "none"
    <3>1. provider' = ResolvedProvider(inv.env, ConfigRead(inv.env, file))
      BY <1>1, <2>2 DEF ResolveProvider
    <3>2. Private(provider', inv.env) /\ Unredirected(provider', inv.env)
      BY <2>2, <3>1, ResolvedIsPrivate, ResolvedIsUnredirected
    <3>. QED BY <2>1, <3>2 DEF ProviderIsChecked
  <2>3. CASE ProviderFailure(inv.env, file) # "none"
    BY <1>1, <2>1, <2>3 DEF ResolveProvider, Conclude, ProviderIsChecked
  <2>. QED BY <2>2, <2>3
<1>2. ASSUME inv' = inv, provider' = provider,
             \/ step' = step
             \/ step' = step + 1 /\ (inv.cmd = "validate" \/ step < Len(Steps[inv.cmd]))
      PROVE  ProviderIsChecked'
  <2>1. inv.cmd \in {"ask", "validate", "models"} /\ step \in Nat
    BY SetupAssumption DEF Places
  <2>. QED BY <1>2, <2>1, StepsOf DEF ProviderIsChecked
<1>3. CASE CheckSources
  BY <1>2, <1>3, AtWhere, StepsOf DEF CheckSources, Conclude, docVars
<1>4. CASE ReadDocuments
  BY <1>2, <1>4, AtWhere, StepsOf DEF ReadDocuments, Conclude, docVars
<1>5. CASE ResolveModel
  BY <1>2, <1>5, AtWhere, StepsOf DEF ResolveModel, Conclude
<1>6. CASE Compose
  BY <1>2, <1>6, AtWhere, StepsOf DEF Compose, Conclude
<1>7. CASE CheckOptions
  BY <1>2, <1>7, AtWhere, StepsOf DEF CheckOptions, Conclude, docVars
<1>8. CASE Start \/ Prepared \/ EditFile \/ Finished \/ UNCHANGED vars
  BY <1>2, <1>8 DEF Start, Prepared, EditFile, Finished, vars, docVars
<1>9. CASE CallClient
  BY <1>2, <1>9 DEF CallClient
<1>. QED BY <1>1, <1>3, <1>4, <1>5, <1>6, <1>7, <1>8, <1>9 DEF Next

LEMMA ProviderHolds == Spec => []ProviderIsChecked
BY PlacesHold, ProviderInit, ProviderStep, PTL DEF Spec

\* Whatever the environment and the file say, and however the file is edited,
\* plain HTTP and anonymous access stay on this machine and a credential that
\* is sent is one that is set.
THEOREM KeysArePrivate == Spec => []KeysStayPrivate
<1>1. Places /\ ProviderIsChecked => KeysStayPrivate
  BY DEF Places, ProviderIsChecked, KeysStayPrivate, Private, Ready
<1>. QED BY <1>1, PlacesHold, ProviderHolds, PTL

\* No file changes where a reserved provider name leads or which credential
\* typesafe takes.
THEOREM NoRedirection == Spec => []ReservedNamesHold
<1>1. Places /\ ProviderIsChecked => ReservedNamesHold
  BY DEF Places, ProviderIsChecked, ReservedNamesHold, Unredirected, Ready
<1>. QED BY <1>1, PlacesHold, ProviderHolds, PTL

------------------------------------------------------------------------------
(* The credential.  Every other check comes before the provider step, and   *)
(* none of them gives the code of a missing credential.                     *)

CredentialComesLast ==
  /\ inv.cmd = "ask" /\ step > 4 => request.questions # <<>> /\ ~EmptyValue(request.state)
  /\ inv.cmd = "ask" /\ step > 5 => inv.options
  /\ inv.cmd = "models" /\ step > 1 => inv.options
  /\ err = "AUTH_MISSING" => \/ inv.cmd = "ask" /\ step = 6
                             \/ inv.cmd = "models" /\ step = 2

LEMMA QuestionsCodes == \A doc : QuestionsFailure(doc) \in {"none", "INPUT_INVALID", "REQUEST_INVALID"}
<1> TAKE doc
<1>1. QuestionsDocFailure(doc) \in {"none", "INPUT_INVALID", "REQUEST_INVALID"}
  BY DEF QuestionsDocFailure, If
<1>. QED BY <1>1 DEF QuestionsFailure

LEMMA SourcesCodes ==
  \A i : SourcesFailure(i) \in {"none", "SOURCE_CONFLICT", "INPUT_INVALID", "REQUEST_INVALID"}
<1> TAKE i
<1>1. QuestionsFailure(Questions(i)) \in {"none", "INPUT_INVALID", "REQUEST_INVALID"}
  BY QuestionsCodes
<1>. QED BY <1>1 DEF SourcesFailure

LEMMA DocumentsCodes ==
  \A i : DocumentsFailure(i) \in {"none", "INPUT_INVALID", "REQUEST_INVALID"}
<1> TAKE i
<1>1. QuestionsFailure(Questions(i)) \in {"none", "INPUT_INVALID", "REQUEST_INVALID"}
  BY QuestionsCodes
<1>2. QuestionsReadFailure(i) \in {"none", "INPUT_INVALID", "REQUEST_INVALID"}
  BY <1>1 DEF QuestionsReadFailure
<1>3. StateReadFailure(i) \in {"none", "INPUT_INVALID"}
  BY DEF StateReadFailure
<1>. QED BY <1>2, <1>3 DEF DocumentsFailure

LEMMA ComposeCodes ==
  \A i, m : ComposeFailure(i, m) \in {"none", "INPUT_INVALID", "REQUEST_INVALID"}
BY DEF ComposeFailure

\* A request that breaks no local rule has a question and a state.
LEMMA RulesNeedBoth ==
  ASSUME NEW r, Violations(r) = {}
  PROVE  r.questions # <<>> /\ ~EmptyValue(r.state)
BY ValidRequest, NoMembers

LEMMA CredentialInit == Init => CredentialComesLast
BY DEF Init, CredentialComesLast

LEMMA CredentialStep == Places /\ CredentialComesLast /\ [Next]_vars => CredentialComesLast'
<1> SUFFICES ASSUME Places, CredentialComesLast, [Next]_vars PROVE CredentialComesLast'
  OBVIOUS
<1> USE DEF CredentialComesLast
<1>1. CASE CheckSources
  <2>1. inv.cmd # "models" /\ step = 1 /\ step \in Nat
    BY <1>1, AtWhere DEF CheckSources, Places
  <2>2. err' # "AUTH_MISSING" /\ step' \in {1, 2} /\ UNCHANGED <<inv, request>>
    BY <1>1, <2>1, SourcesCodes DEF CheckSources, Conclude, docVars
  <2>. QED BY <2>1, <2>2
<1>2. CASE ReadDocuments
  <2>1. inv.cmd # "models" /\ step = 2
    BY <1>2, AtWhere DEF ReadDocuments
  <2>2. err' # "AUTH_MISSING" /\ step' \in {2, 3} /\ UNCHANGED <<inv, request>>
    BY <1>2, <2>1, DocumentsCodes DEF ReadDocuments, Conclude, docVars
  <2>. QED BY <2>1, <2>2
<1>3. CASE ResolveModel
  <2>1. inv.cmd # "models" /\ step = 3
    BY <1>3, AtWhere DEF ResolveModel
  <2>2. err' # "AUTH_MISSING" /\ step' \in {3, 4} /\ UNCHANGED <<inv, request>>
    BY <1>3, <2>1 DEF ResolveModel, Conclude
  <2>. QED BY <2>1, <2>2
<1>4. CASE Compose
  <2>1. inv.cmd # "models" /\ step = 4
    BY <1>4, AtWhere DEF Compose
  <2>2. inv' = inv /\ err' # "AUTH_MISSING"
    BY <1>4, <2>1, ComposeCodes DEF Compose, Conclude
  <2>3. CASE ComposeFailure(inv, model.model) = "none"
    <3>1. request' = Composed(inv, model.model) /\ step' = 5
      BY <1>4, <2>1, <2>3 DEF Compose, Conclude
    <3>2. Violations(Composed(inv, model.model)) = {}
      BY <2>3 DEF ComposeFailure
    <3>3. request'.questions # <<>> /\ ~EmptyValue(request'.state)
      BY <3>1, <3>2, RulesNeedBoth
    <3>. QED BY <2>1, <2>2, <3>1, <3>3
  <2>4. CASE ComposeFailure(inv, model.model) # "none"
    <3>1. step' = 4
      BY <1>4, <2>1, <2>4 DEF Compose, Conclude
    <3>. QED BY <2>1, <2>2, <3>1
  <2>. QED BY <2>3, <2>4
<1>5. CASE CheckOptions
  <2>1. (inv.cmd = "ask" /\ step = 5) \/ (inv.cmd = "models" /\ step = 1)
    BY <1>5, AtWhere DEF CheckOptions
  <2>2. err' # "AUTH_MISSING" /\ UNCHANGED <<inv, request>>
    BY <1>5, <2>1 DEF CheckOptions, Conclude, docVars
  <2>3. step' = step \/ (step' = step + 1 /\ inv.options)
    BY <1>5 DEF CheckOptions, Conclude
  <2>. QED BY <2>1, <2>2, <2>3
<1>6. CASE ResolveProvider
  <2>1. (inv.cmd = "ask" /\ step = 6) \/ (inv.cmd = "models" /\ step = 2)
    BY <1>6, AtWhere DEF ResolveProvider
  <2>2. UNCHANGED <<inv, request>> /\ (step' = step \/ (step' = step + 1 /\ err' = err)) /\ pc = "check"
    BY <1>6 DEF ResolveProvider, Conclude, At
  <2>3. err = "none"
    BY <2>2 DEF Places
  <2>. QED BY <2>1, <2>2, <2>3
<1>7. CASE CallClient
  <2>1. UNCHANGED <<inv, step, request>> /\ err' \in {err, "REQUEST_INVALID"}
    BY <1>7 DEF CallClient
  <2>. QED BY <2>1
<1>8. CASE Start \/ Prepared \/ EditFile \/ Finished \/ UNCHANGED vars
  BY <1>8 DEF Start, Prepared, EditFile, Finished, vars, docVars
<1>. QED BY <1>1, <1>2, <1>3, <1>4, <1>5, <1>6, <1>7, <1>8 DEF Next

LEMMA CredentialHolds == Spec => []CredentialComesLast
BY PlacesHold, CredentialInit, CredentialStep, PTL DEF Spec

\* A missing credential never hides a local mistake, in ask and in models.
THEOREM CredentialAskedLast == Spec => []CredentialIsLast
<1>1. CredentialComesLast => CredentialIsLast
  BY DEF CredentialComesLast, CredentialIsLast
<1>. QED BY <1>1, CredentialHolds, PTL

------------------------------------------------------------------------------
(* The model.  A composed request has the model of the first reading, and   *)
(* is sent to the provider of the second.                                   *)

TwoReadings ==
  inv.cmd = "ask" /\ ~Native(inv) =>
    /\ step <= 3 => configs = <<>>
    /\ step \in 4 .. 6 => Len(configs) = 1
    /\ configs \in Seq(Files)
    /\ step >= 4 => model = ResolvedModel(inv.model, inv.env, ConfigRead(inv.env, configs[1]))
    /\ step >= 5 => request.model = model.model
    /\ step >= 7 => /\ Len(configs) = 2
                    /\ ProviderFailure(inv.env, configs[2]) = "none"
                    /\ provider = ResolvedProvider(inv.env, ConfigRead(inv.env, configs[2]))

FileRead == file \in Files

LEMMA FileReadHolds == Spec => []FileRead
<1>1. Init => FileRead
  BY DEF Init, FileRead
<1>2. FileRead /\ [Next]_vars => FileRead'
  BY DEF FileRead, Next, vars, Start, CheckSources, ReadDocuments, ResolveModel, Compose, CheckOptions,
         ResolveProvider, Prepared, CallClient, EditFile, Finished
<1>. QED BY <1>1, <1>2, PTL DEF Spec

LEMMA ReadingsInit == Init => TwoReadings
BY DEF Init, TwoReadings

\* The readings so far stay as they are when another is appended.
LEMMA OneMoreReading ==
  ASSUME NEW s \in Seq(Files), NEW c \in Files
  PROVE  /\ Append(s, c) \in Seq(Files)
         /\ Len(Append(s, c)) = Len(s) + 1
         /\ Append(s, c)[Len(s) + 1] = c
         /\ \A i \in 1 .. Len(s) : Append(s, c)[i] = s[i]
OBVIOUS

LEMMA SecondReading ==
  ASSUME NEW s \in Seq(Files), Len(s) = 1, NEW c \in Files
  PROVE  /\ Append(s, c) \in Seq(Files) /\ Len(Append(s, c)) = 2
         /\ Append(s, c)[2] = c /\ Append(s, c)[1] = s[1]
OBVIOUS

LEMMA ReadingsStep == Places /\ FileRead /\ TwoReadings /\ [Next]_vars => TwoReadings'
<1> SUFFICES ASSUME Places, FileRead, TwoReadings, [Next]_vars, inv'.cmd = "ask", ~Native(inv')
             PROVE  TwoReadings'
  BY DEF TwoReadings
<1>0. inv' = inv /\ inv.cmd = "ask" /\ ~Native(inv)
  BY DEF Next, vars, Start, CheckSources, ReadDocuments, ResolveModel, Compose, CheckOptions,
         ResolveProvider, Prepared, CallClient, EditFile, Finished
<1>1. CASE CheckSources
  <2>1. step = 1 /\ step' \in {1, 2} /\ configs' = configs
    BY <1>0, <1>1, AtWhere DEF CheckSources, Conclude
  <2>. QED BY <1>0, <2>1 DEF TwoReadings
<1>2. CASE ReadDocuments
  <2>1. step = 2 /\ step' \in {2, 3} /\ configs' = configs
    BY <1>0, <1>2, AtWhere DEF ReadDocuments, Conclude
  <2>. QED BY <1>0, <2>1 DEF TwoReadings
<1>3. CASE ResolveModel
  <2>1. step = 3 /\ configs = <<>>
    BY <1>0, <1>3, AtWhere DEF ResolveModel, TwoReadings
  <2>2. CASE ModelFails(inv.env, file)
    <3>1. step' = 3 /\ configs' = configs
      BY <1>0, <1>3, <2>1, <2>2 DEF ResolveModel, Conclude
    <3>. QED BY <1>0, <2>1, <3>1 DEF TwoReadings
  <2>3. CASE ~ModelFails(inv.env, file)
    <3>1. /\ step' = 4 /\ configs' = Append(configs, file)
          /\ model' = ResolvedModel(inv.model, inv.env, ConfigRead(inv.env, file))
      BY <1>0, <1>3, <2>1, <2>3 DEF ResolveModel, Conclude
    <3>2. configs \in Seq(Files) /\ Len(configs) = 0
      BY <2>1
    <3>3. configs' \in Seq(Files) /\ Len(configs') = 1 /\ configs'[1] = file
      BY <3>1, <3>2, OneMoreReading DEF FileRead
    <3>. QED BY <1>0, <3>1, <3>3 DEF TwoReadings
  <2>. QED BY <2>2, <2>3
<1>4. CASE Compose
  <2>1. step = 4 /\ step' \in {4, 5} /\ UNCHANGED <<configs, model>>
    BY <1>0, <1>4, AtWhere DEF Compose, Conclude
  <2>2. step' = 5 => request' = Composed(inv, model.model)
    BY <1>4, <2>1 DEF Compose, Conclude
  <2>3. Composed(inv, model.model).model = model.model
    BY <1>0 DEF Composed
  <2>. QED BY <1>0, <2>1, <2>2, <2>3 DEF TwoReadings
<1>5. CASE CheckOptions
  <2>1. step = 5 /\ step' \in {5, 6} /\ UNCHANGED <<configs, model, request>>
    BY <1>0, <1>5, AtWhere DEF CheckOptions, Conclude, docVars
  <2>. QED BY <1>0, <2>1 DEF TwoReadings
<1>6. CASE ResolveProvider
  <2>1. step = 6 /\ UNCHANGED <<model, request>>
    BY <1>0, <1>6, AtWhere DEF ResolveProvider
  <2>2. CASE ProviderFailure(inv.env, file) = "none"
    <3>1. /\ step' = 7 /\ configs' = Append(configs, file)
          /\ provider' = ResolvedProvider(inv.env, ConfigRead(inv.env, file))
      BY <1>6, <2>1, <2>2 DEF ResolveProvider, Conclude
    <3>2. configs \in Seq(Files) /\ Len(configs) = 1
      BY <1>0, <2>1 DEF TwoReadings
    <3>3. /\ configs' \in Seq(Files) /\ Len(configs') = 2
          /\ configs'[2] = file /\ configs'[1] = configs[1]
      BY <3>1, <3>2, SecondReading DEF FileRead
    <3>. QED BY <1>0, <2>1, <2>2, <3>1, <3>3 DEF TwoReadings
  <2>3. CASE ProviderFailure(inv.env, file) # "none"
    <3>1. step' = 6 /\ UNCHANGED <<configs, provider>>
      BY <1>6, <2>1, <2>3 DEF ResolveProvider, Conclude
    <3>. QED BY <1>0, <2>1, <3>1 DEF TwoReadings
  <2>. QED BY <2>2, <2>3
<1>7. CASE Start \/ Prepared \/ CallClient \/ EditFile \/ Finished \/ UNCHANGED vars
  <2>1. UNCHANGED <<step, model, request, provider, configs>>
    BY <1>7 DEF Start, Prepared, CallClient, EditFile, Finished, vars, docVars
  <2>. QED BY <1>0, <2>1 DEF TwoReadings
<1>. QED BY <1>1, <1>2, <1>3, <1>4, <1>5, <1>6, <1>7 DEF Next

LEMMA ReadingsHold == Spec => []TwoReadings
BY PlacesHold, FileReadHolds, ReadingsInit, ReadingsStep, PTL DEF Spec

LEMMA SixLayers == \A a, b, c, d, e, f : DOMAIN <<a, b, c, d, e, f>> = 1 .. 6
OBVIOUS

\* Of six layers the first two are blank and the last is not; and the first
\* that is not blank is the i-th.
TwoBlank(f, blank) == f[1].model = blank /\ f[2].model = blank /\ f[6].model # blank
IsFirst(f, blank, i) == f[i].model # blank /\ \A j \in 1 .. i - 1 : f[j].model = blank

LEMMA FirstOfSix ==
  \A f, blank : TwoBlank(f, blank) =>
    /\ \E i \in 1 .. 6 : IsFirst(f, blank, i)
    /\ \A i \in 1 .. 6 : IsFirst(f, blank, i) =>
         /\ i = 3 \/ i = 4 \/ i = 5 \/ i = 6
         /\ f[3].model # blank => i = 3
<1> SUFFICES ASSUME NEW f, NEW blank, TwoBlank(f, blank)
             PROVE  /\ \E i \in 1 .. 6 : IsFirst(f, blank, i)
                    /\ \A i \in 1 .. 6 : IsFirst(f, blank, i) =>
                         /\ i = 3 \/ i = 4 \/ i = 5 \/ i = 6
                         /\ f[3].model # blank => i = 3
  OBVIOUS
<1> USE DEF TwoBlank, IsFirst
<1>1. \E i \in 1 .. 6 : IsFirst(f, blank, i)
  <2>1. CASE f[3].model # blank
    <3>1. IsFirst(f, blank, 3)
      BY <2>1
    <3>. QED BY <3>1
  <2>2. CASE f[3].model = blank /\ f[4].model # blank
    <3>1. IsFirst(f, blank, 4)
      BY <2>2
    <3>. QED BY <3>1
  <2>3. CASE f[3].model = blank /\ f[4].model = blank /\ f[5].model # blank
    <3>1. IsFirst(f, blank, 5)
      BY <2>3
    <3>. QED BY <3>1
  <2>4. CASE f[3].model = blank /\ f[4].model = blank /\ f[5].model = blank
    <3>1. IsFirst(f, blank, 6)
      BY <2>4
    <3>. QED BY <3>1
  <2>. QED BY <2>1, <2>2, <2>3, <2>4
<1>2. ASSUME NEW i \in 1 .. 6, IsFirst(f, blank, i)
      PROVE  /\ i = 3 \/ i = 4 \/ i = 5 \/ i = 6
             /\ f[3].model # blank => i = 3
  BY <1>2
<1>. QED BY <1>1, <1>2

LEMMA FirstExists ==
  \A f, blank : f[6].model # blank => \E i \in 1 .. 6 : IsFirst(f, blank, i)
<1> SUFFICES ASSUME NEW f, NEW blank, f[6].model # blank PROVE \E i \in 1 .. 6 : IsFirst(f, blank, i)
  OBVIOUS
<1>1. CASE f[1].model # blank
  <2>1. IsFirst(f, blank, 1)
    BY <1>1 DEF IsFirst
  <2>. QED BY <2>1
<1>2. CASE f[1].model = blank /\ f[2].model # blank
  <2>1. IsFirst(f, blank, 2)
    BY <1>2 DEF IsFirst
  <2>. QED BY <2>1
<1>3. CASE f[1].model = blank /\ f[2].model = blank
  <2>1. TwoBlank(f, blank)
    BY <1>3 DEF TwoBlank
  <2>. QED BY <2>1, FirstOfSix
<1>. QED BY <1>1, <1>2, <1>3

\* Where the first that is not blank can be.
PlaceOfFirst(f, blank, i) == i \in {3, 4, 5, 6} /\ (f[3].model # blank => i = 3)

LEMMA FirstIsPlaced ==
  \A f, blank, i : TwoBlank(f, blank) /\ i \in 1 .. 6 /\ IsFirst(f, blank, i)
    => PlaceOfFirst(f, blank, i)
<1> SUFFICES ASSUME NEW f, NEW blank, NEW i, TwoBlank(f, blank),
                    i \in 1 .. 6, IsFirst(f, blank, i)
             PROVE  PlaceOfFirst(f, blank, i)
  OBVIOUS
<1>. QED BY FirstOfSix DEF PlaceOfFirst

\* With no flag and no variable, the model comes from a layer that names one,
\* and from the provider when that names one.
LEMMA ModelOfLayers ==
  ASSUME NEW env, NEW config, Trim(env.model) = ""
  PROVE  LET named == Trim(SelectedProfile(ProviderName(env, config), env, config).model)
             found == ResolvedModel("", env, config).model
         IN /\ named # "" => found = named
            /\ found \in {named, Trim(config.model), Trim(env.legacyModel), DefaultModel}
            /\ found # ""
<1> DEFINE named  == Trim(SelectedProfile(ProviderName(env, config), env, config).model)
           layers == ModelLayers("", env, config)
           first  == CHOOSE i \in 1 .. 6 : IsFirst(layers, "", i)
<1>1. /\ layers[1].model = "" /\ layers[2].model = ""
      /\ layers[3].model = named
      /\ layers[4].model = Trim(config.model)
      /\ layers[5].model = Trim(env.legacyModel)
      /\ layers[6].model = DefaultModel
  BY DEF ModelLayers
<1>2. DOMAIN layers = 1 .. 6
  BY SixLayers DEF ModelLayers
<1>3. ResolvedModel("", env, config) = layers[first]
  BY <1>2, Zenon DEF ResolvedModel, IsFirst
<1>4. DefaultModel # ""
  BY DEF DefaultModel
<1> HIDE DEF named, layers
<1>5. TwoBlank(layers, "")
  BY <1>1, <1>4, Zenon DEF TwoBlank
<1>6. first \in 1 .. 6 /\ IsFirst(layers, "", first)
  BY <1>5, FirstOfSix, Zenon
<1> HIDE DEF first
<1>7. /\ first \in {3, 4, 5, 6}
      /\ layers[3].model # "" => first = 3
  <2>1. PlaceOfFirst(layers, "", first)
    BY <1>5, <1>6, FirstIsPlaced, Zenon
  <2>. QED BY <2>1, Zenon DEF PlaceOfFirst
<1>8. layers[first].model # ""
  BY <1>6, Zenon DEF IsFirst
<1>9. layers[first].model \in {named, Trim(config.model), Trim(env.legacyModel), DefaultModel}
  BY <1>1, <1>7, Zenon
<1>. QED BY <1>1, <1>3, <1>7, <1>8, <1>9, Zenon DEF named

LEMMA PastAskSteps ==
  ASSUME Places, Ready, inv.cmd = "ask"
  PROVE  step >= 7 /\ step \in Nat
<1>1. step \in Nat /\ step > Len(Steps["ask"])
  BY DEF Places, Ready
<1>2. Len(Steps["ask"]) = 6
  BY StepsOf
<1>. QED BY <1>1, <1>2

\* What the readings say once the client is to be called.
LEMMA ReadyReadings ==
  ASSUME Places, TwoReadings, Ready, inv.cmd = "ask", ~Native(inv)
  PROVE  /\ request.model = ResolvedModel(inv.model, inv.env, ConfigRead(inv.env, configs[1])).model
         /\ ProviderFailure(inv.env, configs[2]) = "none"
         /\ provider = ResolvedProvider(inv.env, ConfigRead(inv.env, configs[2]))
<1>1. step >= 7 /\ step \in Nat
  BY PastAskSteps
<1>2. step >= 4 /\ step >= 5
  BY <1>1
<1>3. /\ model = ResolvedModel(inv.model, inv.env, ConfigRead(inv.env, configs[1]))
      /\ request.model = model.model
  BY <1>2 DEF TwoReadings
<1>4. /\ ProviderFailure(inv.env, configs[2]) = "none"
      /\ provider = ResolvedProvider(inv.env, ConfigRead(inv.env, configs[2]))
  BY <1>1 DEF TwoReadings
<1>. QED BY <1>3, <1>4

\* Unless the file is edited between the two readings, a request carries the
\* model of the provider it is sent to.
THEOREM ModelMatchesProvider == Spec => []ModelFitsProvider
<1>1. Places /\ TwoReadings => ModelFitsProvider
  <2> SUFFICES ASSUME Places, TwoReadings, Ready, inv.cmd = "ask", ~Native(inv),
                      configs[1] = configs[2], inv.model = "", Trim(inv.env.model) = ""
               PROVE  /\ provider.name = "vercel" => request.model = "typesafe-ai/jev"
                      /\ provider.name \notin Reserved =>
                           request.model = Trim(configs[2].profiles[provider.name].model)
                      /\ provider.name = "typesafe" =>
                           request.model \in {DefaultModel, Trim(configs[2].model), Trim(inv.env.legacyModel)}
    BY DEF ModelFitsProvider
  <2> DEFINE env     == inv.env
             text    == configs[2]
             config  == ConfigRead(env, text)
             name    == ProviderName(env, config)
             profile == SelectedProfile(name, env, config)
  <2>2. /\ request.model = ResolvedModel("", env, config).model
        /\ ProviderFailure(env, text) = "none"
        /\ provider = ResolvedProvider(env, config)
    BY ReadyReadings, Zenon
  <2>3. provider.name = name
    BY <2>2 DEF ResolvedProvider
  <2>4. ~ProviderFails(env, config)
    BY <2>2 DEF ProviderFailure
  <2>5. /\ Trim(profile.model) # "" => request.model = Trim(profile.model)
        /\ request.model \in {Trim(profile.model), Trim(config.model), Trim(env.legacyModel), DefaultModel}
        /\ request.model # ""
    BY <2>2, ModelOfLayers
  <2> HIDE DEF env, name
  <2>6. CASE name = "vercel"
    <3>1. profile.model = "typesafe-ai/jev"
      BY <2>6 DEF SelectedProfile, Builtin, Profile
    <3>2. Trim(profile.model) = "typesafe-ai/jev"
      BY <3>1 DEF Trim, Blank
    <3>. QED BY <2>3, <2>5, <2>6, <3>2 DEF Reserved
  <2>7. CASE name \notin Reserved
    <3>1. name \in DOMAIN config.profiles
      BY <2>4, <2>7 DEF ProviderFails, Known, name, env
    <3>2. env.path # "none" /\ FileIsValid(text)
      <4>1. CASE ~(env.path # "none" /\ FileIsValid(text))
        <5>1. config.profiles = <<>>
          BY <4>1 DEF ConfigRead, NoConfig
        <5>. QED BY <3>1, <5>1, NoMembers
      <4>. QED BY <4>1
    <3>3. config.profiles = text.profiles
      BY <3>2 DEF ConfigRead
    <3>4. Trim(text.profiles[name].model) # ""
      BY <3>1, <3>2, <3>3 DEF FileIsValid, ProfileIsValid
    <3>5. profile = text.profiles[name]
      BY <2>7, <3>1, <3>3 DEF SelectedProfile, Reserved
    <3>. QED BY <2>3, <2>5, <2>7, <3>4, <3>5 DEF Reserved
  <2>8. CASE name = "typesafe"
    <3>1. Builtin(name).model = ""
      BY <2>8 DEF Builtin, Profile
    <3>2. profile.model = ""
      BY <2>8, <3>1 DEF SelectedProfile, Profile
    <3>3. Trim(profile.model) = ""
      BY <3>2 DEF Trim, Blank
    <3>4. Trim(config.model) \in {"", Trim(text.model)}
      <4>1. CASE env.path # "none" /\ FileIsValid(text)
        BY <4>1 DEF ConfigRead
      <4>2. CASE ~(env.path # "none" /\ FileIsValid(text))
        BY <4>2 DEF ConfigRead, NoConfig, Trim, Blank
      <4>. QED BY <4>1, <4>2
    <3>5. request.model \in {DefaultModel, Trim(text.model), Trim(env.legacyModel)}
      BY <2>5, <3>3, <3>4
    <3>. QED BY <2>3, <2>8, <3>5 DEF Reserved, env
  <2>9. CASE name = "custom"
    BY <2>3, <2>9 DEF Reserved
  <2>. QED BY <2>6, <2>7, <2>8, <2>9 DEF Reserved
<1>. QED BY <1>1, PlacesHold, ReadingsHold, PTL

------------------------------------------------------------------------------
(* The request.  Every check has left the sources as the body has them: the *)
(* first two say which there are and that they can be used, composition     *)
(* that their request breaks no rule, and the client's encoding is where    *)
(* the sources are written again.                                           *)

Composing ==
  inv.cmd = "ask" =>
    /\ step >= 2 => SourcesFailure(inv) = "none"
    /\ step >= 3 => DocumentsFailure(inv) = "none"
    /\ step >= 5 => request = Composed(inv, model.model) /\ ComposeFailure(inv, model.model) = "none"

Sending ==
  sent # Absent =>
    /\ pc = "calling" /\ inv.cmd = "ask"
    /\ RequestEncodes(request) /\ sent = EncodedRequest(request)

LEMMA ComposingInit == Init => Composing /\ Sending
BY DEF Init, Composing, Sending

LEMMA ComposingStep == Places /\ Composing /\ [Next]_vars => Composing'
<1> SUFFICES ASSUME Places, Composing, [Next]_vars, inv'.cmd = "ask" PROVE Composing'
  BY DEF Composing
<1>0. inv' = inv /\ inv.cmd = "ask" /\ step \in Nat \ {0}
  BY DEF Next, vars, Start, CheckSources, ReadDocuments, ResolveModel, Compose, CheckOptions,
         ResolveProvider, Prepared, CallClient, EditFile, Finished, Places
<1>1. CASE CheckSources
  <2>1. step = 1 /\ step' \in {1, 2} /\ (step' = 2 => SourcesFailure(inv) = "none")
    BY <1>0, <1>1, AtWhere DEF CheckSources, Conclude
  <2>. QED BY <1>0, <2>1 DEF Composing
<1>2. CASE ReadDocuments
  <2>1. step = 2 /\ step' \in {2, 3} /\ (step' = 3 => DocumentsFailure(inv) = "none")
    BY <1>0, <1>2, AtWhere DEF ReadDocuments, Conclude
  <2>. QED BY <1>0, <2>1 DEF Composing
<1>3. CASE ResolveModel
  <2>1. step = 3 /\ step' \in {3, 4}
    BY <1>0, <1>3, AtWhere DEF ResolveModel, Conclude
  <2>. QED BY <1>0, <2>1 DEF Composing
<1>4. CASE Compose
  <2>1. step = 4 /\ step' \in {4, 5} /\ UNCHANGED model
    BY <1>0, <1>4, AtWhere DEF Compose, Conclude
  <2>2. step' = 5 => ComposeFailure(inv, model.model) = "none" /\ request' = Composed(inv, model.model)
    BY <1>4, <2>1 DEF Compose, Conclude
  <2>. QED BY <1>0, <2>1, <2>2 DEF Composing
<1>5. CASE CheckOptions
  <2>1. step = 5 /\ step' \in {5, 6} /\ UNCHANGED <<model, request>>
    BY <1>0, <1>5, AtWhere DEF CheckOptions, Conclude, docVars
  <2>. QED BY <1>0, <2>1 DEF Composing
<1>6. CASE ResolveProvider
  <2>1. step = 6 /\ step' \in {6, 7} /\ UNCHANGED <<model, request>>
    BY <1>0, <1>6, AtWhere DEF ResolveProvider, Conclude
  <2>. QED BY <1>0, <2>1 DEF Composing
<1>7. CASE Start \/ Prepared \/ CallClient \/ EditFile \/ Finished \/ UNCHANGED vars
  <2>1. UNCHANGED <<step, model, request>>
    BY <1>7 DEF Start, Prepared, CallClient, EditFile, Finished, vars, docVars
  <2>. QED BY <1>0, <2>1 DEF Composing
<1>. QED BY <1>1, <1>2, <1>3, <1>4, <1>5, <1>6, <1>7 DEF Next

LEMMA SendingStep == Places /\ Sending /\ [Next]_vars => Sending'
<1> SUFFICES ASSUME Places, Sending, [Next]_vars, sent' # Absent PROVE Sending'
  BY DEF Sending
<1>1. CASE CallClient
  <2>1. pc = "ready" /\ sent = Absent /\ inv.cmd \in {"ask", "models"}
    BY <1>1, SetupAssumption DEF CallClient, Sending, Places
  <2>2. inv.cmd # "models" /\ RequestEncodes(request)
    BY <1>1, <2>1 DEF CallClient
  <2>. QED BY <1>1, <2>1, <2>2 DEF CallClient, Sending
<1>2. CASE Start \/ CheckSources \/ ReadDocuments \/ ResolveModel \/ Compose \/ CheckOptions
           \/ ResolveProvider \/ Prepared \/ EditFile
  <2>1. sent' = sent /\ pc # "calling"
    BY <1>2 DEF Start, CheckSources, ReadDocuments, ResolveModel, Compose, CheckOptions,
                ResolveProvider, Prepared, EditFile, docVars, At
  <2>. QED BY <2>1 DEF Sending
<1>3. CASE Finished \/ UNCHANGED vars
  BY <1>3 DEF Finished, vars, docVars, Sending
<1>. QED BY <1>1, <1>2, <1>3 DEF Next

LEMMA SendingHolds == Spec => [](Composing /\ Sending)
BY PlacesHold, ComposingInit, ComposingStep, SendingStep, PTL DEF Spec

\* A model is always found, and --model's when it names one.
LEMMA ModelIsNamed ==
  ASSUME NEW flag, NEW env, NEW config
  PROVE  /\ ResolvedModel(flag, env, config).model # ""
         /\ flag # "" => ResolvedModel(flag, env, config).model = flag
<1> DEFINE layers == ModelLayers(flag, env, config)
           first  == CHOOSE i \in 1 .. 6 : IsFirst(layers, "", i)
<1>1. layers[1].model = flag /\ layers[6].model # ""
  BY DEF ModelLayers, DefaultModel
<1>2. DOMAIN layers = 1 .. 6
  BY SixLayers DEF ModelLayers
<1>3. ResolvedModel(flag, env, config) = layers[first]
  BY <1>2, Zenon DEF ResolvedModel, IsFirst
<1> HIDE DEF layers
<1>4. \E i \in 1 .. 6 : IsFirst(layers, "", i)
  BY <1>1, FirstExists
<1>5. first \in 1 .. 6 /\ IsFirst(layers, "", first)
  BY <1>4, Zenon
<1> HIDE DEF first
<1>6. layers[first].model # "" /\ (first # 1 => layers[1].model = "")
  <2>1. layers[first].model # "" /\ \A j \in 1 .. first - 1 : layers[j].model = ""
    BY <1>5, Zenon DEF IsFirst
  <2>2. first # 1 => 1 \in 1 .. first - 1
    <3>1. first \in 1 .. 6
      BY <1>5, Zenon
    <3>. QED BY <3>1
  <2>. QED BY <2>1, <2>2
<1>. QED BY <1>1, <1>3, <1>6

\* A flag that is given is the one CHOOSE finds where there is no other.
LEMMA OnlyOne ==
  ASSUME NEW i, NEW flags, NEW flag \in flags \cap i.given,
         \A other \in flags \cap i.given : other = flag
  PROVE  The(i, flags) = flag
<1>1. \E f \in flags : f \in i.given
  OBVIOUS
<1>2. The(i, flags) \in flags /\ The(i, flags) \in i.given
  BY <1>1 DEF The
<1>. QED BY <1>2

LEMMA OneState ==
  ASSUME NEW i, ~(Cardinality(i.given \cap StateFlags) > 1),
         NEW flag \in StateFlags \cap i.given
  PROVE  \A other \in StateFlags \cap i.given : other = flag
<1> SUFFICES ASSUME NEW other \in StateFlags \cap i.given, other # flag PROVE FALSE
  OBVIOUS
<1>1. IsFiniteSet(StateFlags)
  <2>1. IsFiniteSet({"state"})
    BY FS_Singleton
  <2>2. IsFiniteSet({"state"} \cup {"state-file"})
    BY <2>1, FS_AddElement
  <2>3. IsFiniteSet(({"state"} \cup {"state-file"}) \cup {"state-json"})
    BY <2>2, FS_AddElement
  <2>4. IsFiniteSet((({"state"} \cup {"state-file"}) \cup {"state-json"}) \cup {"state-json-file"})
    BY <2>3, FS_AddElement
  <2>5. StateFlags = (({"state"} \cup {"state-file"}) \cup {"state-json"}) \cup {"state-json-file"}
    BY DEF StateFlags, TextFlags
  <2>. QED BY <2>4, <2>5
<1>2. IsFiniteSet(i.given \cap StateFlags)
  BY <1>1, FS_Subset
<1>3. IsFiniteSet({flag}) /\ Cardinality({flag}) = 1
  BY FS_Singleton
<1>4. Cardinality({flag} \cup {other}) = 2
  BY <1>3, FS_AddElement
<1>5. Cardinality({flag} \cup {other}) <= Cardinality(i.given \cap StateFlags)
  BY <1>2, FS_Subset
<1>6. Cardinality(i.given \cap StateFlags) \in Nat
  BY <1>2, FS_CardinalityType
<1>. QED BY <1>4, <1>5, <1>6

\* The state of a composed request is the source that was given.
LEMMA StateIsGiven ==
  ASSUME NEW i \in Invocations, SourcesFailure(i) = "none", DocumentsFailure(i) = "none",
         ~Native(i), NEW flag \in i.given \cap StateFlags
  PROVE  StateValue(i) = i.docs[flag]
<1>1. ~SourcesClash(i)
  BY DEF SourcesFailure
<1>2. ~(Cardinality(i.given \cap StateFlags) > 1)
  BY <1>1 DEF SourcesClash
<1>3. State(i) = i.docs[flag]
  BY <1>2, OneState, OnlyOne DEF State
<1>4. CASE i.given \cap TextFlags = {}
  BY <1>3, <1>4 DEF StateValue
<1>5. CASE i.given \cap TextFlags # {}
  <2>1. flag \in TextFlags
    BY <1>2, <1>5, OneState DEF StateFlags
  <2>2. State(i) # Unreadable
    BY DEF DocumentsFailure, StateReadFailure
  <2>3. i.docs[flag] \in Json /\ IsA(i.docs[flag], "str")
    BY <1>3, <2>1, <2>2, DocumentsAssumption
  <2>4. i.docs[flag] = Str(AsString(i.docs[flag]))
    BY <2>3, ClosedMembers, JsonAssumption
  <2>. QED BY <1>3, <1>5, <2>4 DEF StateValue
<1>. QED BY <1>4, <1>5

\* Its questions document is the one that was given, and was accepted.
LEMMA QuestionsAreGiven ==
  ASSUME NEW i \in Invocations, SourcesFailure(i) = "none", DocumentsFailure(i) = "none",
         ~Native(i), NEW flag \in i.given \cap QuestionFlags
  PROVE  /\ Questions(i) = i.docs[flag] /\ Questions(i) \in Json
         /\ QuestionsDocFailure(Questions(i)) = "none"
<1>1. ~(QuestionFlags \subseteq i.given)
  BY DEF SourcesFailure
<1>2. \A other \in QuestionFlags \cap i.given : other = flag
  BY <1>1 DEF QuestionFlags
<1>3. Questions(i) = i.docs[flag]
  BY <1>2, OnlyOne DEF Questions
<1>4. QuestionsFailure(Questions(i)) = "none"
  <2>1. CASE flag = "questions-json"
    BY <2>1 DEF SourcesFailure
  <2>2. CASE flag = "questions"
    BY <2>2 DEF DocumentsFailure, QuestionsReadFailure
  <2>. QED BY <2>1, <2>2 DEF QuestionFlags
<1>5. QuestionsDocFailure(Questions(i)) = "none"
  BY <1>4 DEF QuestionsFailure
<1>6. Questions(i) \notin {Malformed, Unreadable}
  BY <1>5 DEF QuestionsDocFailure, Malformed, Unreadable, Fits, IsA, Null
<1>7. i.docs[flag] \in Json \cup {Malformed, Unreadable}
  BY DocumentsAssumption
<1>. QED BY <1>3, <1>5, <1>6, <1>7

\* A native document is sent as it is, and with nothing else.
LEMMA NativeIsSent ==
  ASSUME NEW i \in Invocations, NEW m, Native(i),
         SourcesFailure(i) = "none", ComposeFailure(i, m) = "none"
  PROVE  /\ i.given \cap (QuestionFlags \cup StateFlags) = {}
         /\ LET doc == AsMembers(i.docs["request"]) IN
              EncodedRequest(Composed(i, m))
                = Obj(IF AsString(Member(doc, "model")) = "" THEN Without(doc, {"model"}) ELSE doc)
<1>1. ~SourcesClash(i)
  BY DEF SourcesFailure
<1>2. i.given \cap (QuestionFlags \cup StateFlags) = {}
  BY <1>1 DEF SourcesClash
<1> DEFINE v == i.docs["request"]
<1>3. /\ RequestDecodes(v) /\ Violations(DecodedRequest(v)) = {}
      /\ Composed(i, m) = DecodedRequest(v)
  BY DEF ComposeFailure, Composed
<1>4. v \notin {Malformed, Unreadable}
  BY <1>3 DEF RequestDecodes, Malformed, Unreadable, Fits, IsA, Null
<1>5. v \in Json
  BY <1>4, DocumentsAssumption DEF Native
<1>. QED BY <1>2, <1>3, <1>5, RequestReturns, JsonAssumption

\* The body of a composed request has its state, its model and the members of
\* its questions document.
LEMMA ComposedIsSent ==
  ASSUME NEW i \in Invocations, NEW m, ~Native(i), m # "",
         SourcesFailure(i) = "none", DocumentsFailure(i) = "none", ComposeFailure(i, m) = "none",
         RequestEncodes(Composed(i, m)), NEW body, body = EncodedRequest(Composed(i, m))
  PROVE  /\ \A flag \in i.given \cap StateFlags : body.obj["state"] = i.docs[flag]
         /\ \A flag \in i.given \cap QuestionFlags :
              Without(body.obj, {"model", "state"}) = i.docs[flag].obj
         /\ body.obj["model"] = Str(m)
<1> DEFINE r   == Composed(i, m)
           doc == Questions(i)
           d   == AsMembers(doc)
           n   == body.obj
<1>1. /\ r.model = m /\ r.state = StateValue(i)
      /\ r.questions = DecodedQuestions(doc.obj["questions"]) /\ r.extra = QuestionsExtra(doc)
  BY DEF Composed
<1>2. Violations(r) = {}
  BY DEF ComposeFailure
<1>3. /\ r.state # Absent /\ DOMAIN r.questions # {}
      /\ \A id \in DOMAIN r.questions : QuestionViolations(r.questions[id]) = {}
  BY <1>2, ValidRequest
<1> HIDE DEF r
<1>4. /\ DOMAIN n = {"state", "questions", "model"} \cup DOMAIN r.extra
      /\ n["state"] = r.state /\ n["questions"] = EncodedQuestions(r.questions)
      /\ n["model"] = Str(m)
      /\ {"state", "questions", "model"} \cap DOMAIN r.extra = {}
      /\ \A key \in DOMAIN r.extra : n[key] = r.extra[key]
  BY <1>1, <1>3, EncodedMembers DEF r
<1>5. \A flag \in i.given \cap StateFlags : n["state"] = i.docs[flag]
  BY <1>1, <1>4, StateIsGiven
<1>6. ASSUME NEW flag \in i.given \cap QuestionFlags
      PROVE  Without(n, {"model", "state"}) = i.docs[flag].obj
  <2>1. doc = i.docs[flag] /\ doc \in Json /\ QuestionsDocFailure(doc) = "none"
    BY QuestionsAreGiven
  <2>2. /\ doc = Obj(d) /\ IsA(doc, "obj") /\ d \in [DOMAIN d -> Json]
        /\ "questions" \in DOMAIN d /\ QuestionsDecode(d["questions"])
        /\ DOMAIN r.extra = DOMAIN d \ {"questions"}
        /\ \A key \in DOMAIN d \ {"questions"} : r.extra[key] = d[key]
    BY <1>1, <2>1, QuestionsDocument, JsonAssumption
  <2>3. doc.obj = d
    BY <2>2 DEF AsMembers
  <2> HIDE DEF d, doc, n
  <2>4. EncodedQuestions(r.questions) = d["questions"]
    <3>1. r.questions = DecodedQuestions(d["questions"])
      BY <1>1, <2>3
    <3>2. IsA(d["questions"], "obj")
      <4>1. DOMAIN AsMembers(d["questions"]) # {}
        BY <1>3, <3>1 DEF DecodedQuestions
      <4>. QED BY <4>1, NoMembers DEF AsMembers
    <3>3. d["questions"] \in Json
      BY <2>2
    <3>. QED BY <1>3, <2>2, <3>1, <3>2, <3>3, QuestionsReturn, JsonAssumption
  <2> DEFINE w == Without(n, {"model", "state"})
             D == DOMAIN d
  <2>5. /\ DOMAIN w = DOMAIN n \ {"model", "state"}
        /\ \A key \in DOMAIN n \ {"model", "state"} : w[key] = n[key]
    BY WithoutMembers
  <2>6. w = [key \in DOMAIN n \ {"model", "state"} |-> w[key]]
    BY DEF Without, Restrict
  <2> HIDE DEF w
  <2>7. DOMAIN n \ {"model", "state"} = DOMAIN d
    BY <1>4, <2>2
  <2>8. \A key \in DOMAIN d : w[key] = d[key]
    BY <1>4, <2>2, <2>4, <2>5, <2>7
  <2>9. w = [key \in D |-> w[key]] /\ (\A key \in D : w[key] = d[key]) /\ d \in [D -> Json]
    BY <2>2, <2>6, <2>7, <2>8
  <2> HIDE DEF D
  <2>10. w = d
    BY <2>9, SameMembers
  <2>. QED BY <2>1, <2>3, <2>10 DEF w
<1>. QED BY <1>4, <1>5, <1>6

\* A request that is sent carries every source that was given, as it was given,
\* and nothing besides: whatever the documents hold, what decoding takes apart
\* (DecodeRequest, Compose) encoding puts together again (Encode).
THEOREM SourcesAreSent == Spec => []SentIsWhatWasGiven
<1>1. Places /\ TwoReadings /\ Composing /\ Sending => SentIsWhatWasGiven
  <2> SUFFICES ASSUME Places, TwoReadings, Composing, Sending, sent # Absent
               PROVE  SentIsWhatWasGiven
    BY DEF SentIsWhatWasGiven
  <2>1. /\ inv.cmd = "ask" /\ pc = "calling" /\ inv \in Invocations
        /\ RequestEncodes(request) /\ sent = EncodedRequest(request)
    BY DEF Sending, Places
  <2>2. step >= 7 /\ step \in Nat
    BY <2>1, PastAskSteps DEF Ready
  <2>3. /\ SourcesFailure(inv) = "none" /\ DocumentsFailure(inv) = "none"
        /\ request = Composed(inv, model.model) /\ ComposeFailure(inv, model.model) = "none"
    BY <2>1, <2>2 DEF Composing
  <2>4. CASE Native(inv)
    BY <2>1, <2>3, <2>4, NativeIsSent DEF SentIsWhatWasGiven
  <2>5. CASE ~Native(inv)
    <3>1. model.model = ResolvedModel(inv.model, inv.env, ConfigRead(inv.env, configs[1])).model
      BY <2>1, <2>2, <2>5 DEF TwoReadings
    <3>2. model.model # "" /\ (inv.model # "" => model.model = inv.model)
      BY <3>1, ModelIsNamed
    <3>3. /\ \A flag \in inv.given \cap StateFlags : sent.obj["state"] = inv.docs[flag]
          /\ \A flag \in inv.given \cap QuestionFlags :
               Without(sent.obj, {"model", "state"}) = inv.docs[flag].obj
          /\ sent.obj["model"] = Str(model.model)
      BY <2>1, <2>3, <2>5, <3>2, ComposedIsSent
    <3>. QED BY <2>5, <3>2, <3>3 DEF SentIsWhatWasGiven
  <2>. QED BY <2>4, <2>5
<1>. QED BY <1>1, PlacesHold, ReadingsHold, SendingHolds, PTL

------------------------------------------------------------------------------
(* Setup implements the checks of Command.  A run that has not failed has  *)
(* no error, and each check fails with a code that Command allows it.      *)

\* An error is a code, and there is none before the report.
Failing ==
  /\ err = "none" <=> pc # "report"
  /\ err \in Codes \cup {"none"}

\* What each check may fail with.
LEMMA FailureCodes ==
  /\ \A i : SourcesFailure(i) \in {"none", "SOURCE_CONFLICT", "INPUT_INVALID", "REQUEST_INVALID"}
  /\ \A i : DocumentsFailure(i) \in {"none", "INPUT_INVALID", "REQUEST_INVALID"}
  /\ \A i, m : ComposeFailure(i, m) \in {"none", "INPUT_INVALID", "REQUEST_INVALID"}
  /\ \A env, text : ProviderFailure(env, text) \in {"none", "INPUT_INVALID", "AUTH_MISSING"}
<1>1. \A v : QuestionsDocFailure(v) \in {"none", "INPUT_INVALID", "REQUEST_INVALID"}
  BY Zenon DEF QuestionsDocFailure
<1>2. \A v : QuestionsFailure(v) \in {"none", "INPUT_INVALID", "REQUEST_INVALID"}
  BY <1>1, Zenon DEF QuestionsFailure
<1>3. \A i : SourcesFailure(i) \in {"none", "SOURCE_CONFLICT", "INPUT_INVALID", "REQUEST_INVALID"}
  BY <1>2, Zenon DEF SourcesFailure
<1>4. \A i : QuestionsReadFailure(i) \in {"none", "INPUT_INVALID", "REQUEST_INVALID"}
  BY <1>2, Zenon DEF QuestionsReadFailure
<1>5. \A i : StateReadFailure(i) \in {"none", "INPUT_INVALID"}
  BY Zenon DEF StateReadFailure
<1>6. \A i : DocumentsFailure(i) \in {"none", "INPUT_INVALID", "REQUEST_INVALID"}
  BY <1>4, <1>5, Zenon DEF DocumentsFailure
<1>7. \A i, m : ComposeFailure(i, m) \in {"none", "INPUT_INVALID", "REQUEST_INVALID"}
  BY Zenon DEF ComposeFailure
<1>8. \A env, text : ProviderFailure(env, text) \in {"none", "INPUT_INVALID", "AUTH_MISSING"}
  BY Zenon DEF ProviderFailure
<1>. QED BY <1>3, <1>6, <1>7, <1>8

\* Command's checks are these.
LEMMA SameSteps ==
  ASSUME NEW c \in {"ask", "validate", "models"}
  PROVE  C!Steps[c] = Steps[c]
BY DEF C!Steps, C!AskSteps, C!ValidateSteps, C!ModelsSteps, Steps, AskSteps, ValidateSteps, ModelsSteps

LEMMA CommandStarts == Init => C!Init
<1> SUFFICES ASSUME Init PROVE C!Init
  OBVIOUS
<1>1. inv.cmd \in C!Commands
  BY SetupAssumption DEF Init, C!Commands, C!Paid, C!OneRequest, C!PerRecord
<1>. QED BY <1>1 DEF Init, C!Init, C!NoUsage, C!Decisions, C!Policies

\* A check of Setup is one of Command.
LEMMA CheckIsCommands ==
  ASSUME Places, NEW check, At(check), err = "none",
         NEW code, Conclude(code), UNCHANGED inv,
         code \in C!CheckFails(check) \cup {"none"},
         code \in {"none", "SOURCE_CONFLICT", "INPUT_INVALID", "REQUEST_INVALID", "AUTH_MISSING"}
  PROVE  C!CheckFailsNow \/ C!CheckPasses
<1>1. inv.cmd \in {"ask", "validate", "models"} /\ pc = "check"
      /\ step <= Len(Steps[inv.cmd]) /\ Steps[inv.cmd][step] = check
  BY AtWhere DEF At
<1>2. step <= Len(C!Steps[inv.cmd]) /\ C!Steps[inv.cmd][step] = check
  BY <1>1, SameSteps
<1> USE DEF C!inputVars, C!workVars, C!reportVars
<1>3. CASE code = "none"
  <2>1. step' = step + 1 /\ pc' = "check" /\ err' = err
    BY <1>1, <1>3 DEF Conclude
  <2>2. C!Go("check")
    BY <2>1 DEF C!Go
  <2>3. 1 \in IF check = "stdin" THEN C!Totals ELSE {1}
    BY DEF C!Totals
  <2>. QED BY <1>1, <1>2, <2>1, <2>2, <2>3 DEF C!CheckPasses
<1>4. CASE code # "none"
  <2>1. pc' = "report" /\ err' = code /\ UNCHANGED step
    BY <1>4 DEF Conclude
  <2>2. C!Fail(code)
    BY <1>4, <2>1 DEF C!Fail, C!Quoting, C!LocalCodes
  <2>. QED BY <1>1, <1>2, <1>4, <2>1, <2>2 DEF C!CheckFailsNow
<1>. QED BY <1>3, <1>4

LEMMA FailingInit == Init => Failing
BY DEF Init, Failing

LEMMA FailingStep == Failing /\ [Next]_vars => Failing'
<1> SUFFICES ASSUME Failing, [Next]_vars PROVE Failing'
  OBVIOUS
<1> USE DEF Failing, Codes
<1>1. ASSUME NEW check, At(check), NEW code \in Codes \cup {"none"}, Conclude(code) PROVE Failing'
  BY <1>1 DEF At, Conclude
<1>2. CASE CheckSources
  BY <1>1, <1>2, FailureCodes DEF CheckSources
<1>3. CASE ReadDocuments
  BY <1>1, <1>3, FailureCodes DEF ReadDocuments
<1>4. CASE ResolveModel
  BY <1>1, <1>4 DEF ResolveModel
<1>5. CASE Compose
  BY <1>1, <1>5, FailureCodes DEF Compose
<1>6. CASE CheckOptions
  BY <1>1, <1>6 DEF CheckOptions
<1>7. CASE ResolveProvider
  BY <1>1, <1>7, FailureCodes DEF ResolveProvider
<1>8. CASE Start \/ Prepared \/ EditFile \/ Finished \/ UNCHANGED vars
  BY <1>8 DEF Start, Prepared, EditFile, Finished, vars
<1>9. CASE CallClient
  BY <1>9 DEF CallClient
<1>. QED BY <1>2, <1>3, <1>4, <1>5, <1>6, <1>7, <1>8, <1>9 DEF Next

LEMMA CommandStep ==
  ASSUME Places, Failing, [Next]_vars
  PROVE  [C!Next]_(C!vars)
<1> USE DEF C!inputVars, C!workVars, C!reportVars
<1>1. CASE Start
  <2>1. pc = "start" /\ pc' = "check" /\ UNCHANGED <<inv, step, err>>
    BY <1>1 DEF Start
  <2>2. C!PreRun
    BY <2>1 DEF C!PreRun, C!Go
  <2>. QED BY <2>2 DEF C!Next
<1>2. ASSUME NEW check, At(check), NEW code, Conclude(code), UNCHANGED inv,
             code \in C!CheckFails(check) \cup {"none"},
             code \in {"none", "SOURCE_CONFLICT", "INPUT_INVALID", "REQUEST_INVALID", "AUTH_MISSING"}
      PROVE  [C!Next]_(C!vars)
  <2>1. err = "none"
    BY <1>2 DEF Failing, At
  <2>. QED BY <1>2, <2>1, CheckIsCommands DEF C!Next
<1> USE DEF C!CheckFails, C!LocalCodes
<1>3. CASE CheckSources
  BY <1>2, <1>3, FailureCodes DEF CheckSources
<1>4. CASE ReadDocuments
  BY <1>2, <1>4, FailureCodes DEF ReadDocuments
<1>5. CASE ResolveModel
  BY <1>2, <1>5 DEF ResolveModel
<1>6. CASE Compose
  BY <1>2, <1>6, FailureCodes DEF Compose
<1>7. CASE CheckOptions
  BY <1>2, <1>7 DEF CheckOptions
<1>8. CASE ResolveProvider
  BY <1>2, <1>8, FailureCodes DEF ResolveProvider
<1>9. CASE Prepared
  <2>1. /\ pc = "check" /\ step > Len(Steps[inv.cmd]) /\ UNCHANGED <<inv, step, err>>
        /\ pc' = IF inv.cmd = "validate" THEN "write" ELSE "ready"
    BY <1>9 DEF Prepared
  <2>2. inv.cmd \in {"ask", "validate", "models"}
    BY SetupAssumption DEF Places
  <2>3. step > Len(C!Steps[inv.cmd])
    BY <2>1, <2>2, SameSteps
  <2>4. C!Prepared
    BY <2>1, <2>2, <2>3 DEF C!Prepared, C!Go, C!Count, C!OneRequest, C!PerRecord
  <2>. QED BY <2>4 DEF C!Next
<1>10. CASE CallClient
  <2>1. pc = "ready" /\ UNCHANGED <<inv, step>>
    BY <1>10 DEF CallClient
  <2>2. CASE pc' = "calling" /\ UNCHANGED err
    <3>1. C!Evaluate
      BY <2>1, <2>2 DEF C!Evaluate, C!Go
    <3>. QED BY <3>1 DEF C!Next
  <2>3. CASE inv.cmd # "models" /\ pc' = "report" /\ err' = "REQUEST_INVALID"
    <3>1. C!Refused
      BY <2>1, <2>3 DEF C!Refused, C!Fail, C!Quoting
    <3>. QED BY <3>1 DEF C!Next
  <2>. QED BY <1>10, <2>2, <2>3 DEF CallClient
<1>11. CASE EditFile \/ Finished \/ UNCHANGED vars
  BY <1>11 DEF EditFile, Finished, vars, C!vars
<1>. QED BY <1>1, <1>3, <1>4, <1>5, <1>6, <1>7, <1>8, <1>9, <1>10, <1>11 DEF Next

\* What ask, validate and models do before their call of the client is, for
\* every command line, file and edit, what Command says they do: its checks in
\* its order, failing with its codes, and no call before the last has passed.
THEOREM FollowsCommand == Spec => ImplementsCommand
<1>. QED BY CommandStarts, CommandStep, PlacesHold, FailingInit, FailingStep, PTL
         DEF Spec, ImplementsCommand, C!Spec

==============================================================================
