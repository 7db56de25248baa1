------------------------------- MODULE Resolve --------------------------------
(***************************************************************************)
(* How a command finds its provider and its model (internal/cli/           *)
(* config.go): pure functions of the environment's settings and of one     *)
(* reading of the configuration file.  A setting is "" where it is unset   *)
(* and Blank where it is only white space.                                 *)
(***************************************************************************)
EXTENDS Integers, Sequences, Text

\* What validateProvider tells apart of a URL: a plain one parses, has a host
\* and no user, query or fragment.
Url(scheme, host, plain) == [scheme |-> scheme, host |-> host, plain |-> plain]
NoUrl == Url("", "", FALSE)

Loopback == {"localhost", "127.0.0.1", "::1"}
isLoopback(host) == host \in Loopback

Profile(url, model, auth, key) == [url |-> url, model |-> model, auth |-> auth, key |-> key]

DefaultBaseURL == Url("https", "api.typesafe.ai", TRUE)
GatewayURL     == Url("https", "ai-gateway.vercel.sh", TRUE)
DefaultModel   == "jev-latest"

------------------------------------------------------------------------------
(* The configuration file is absent, unreadable, malformed (too large, not *)
(* strict JSON, a part of the wrong type) or a text with fields.           *)

NoConfig == [model |-> "", provider |-> "", profiles |-> <<>>]

ConfigFields == {"default_model", "default_provider", "providers"}
Reserved     == {"typesafe", "vercel", "custom"}

ProfileIsValid(p) ==
  /\ p.url # NoUrl
  /\ Trim(p.model) # ""
  /\ p.auth \in {"bearer", "none"}
  /\ p.key # "malformed"

\* Mutant: "custom", which is no built-in provider, may name a profile.
NameIsValid_AnyCustom(name) == Trim(name) # "" /\ name \notin {"typesafe", "vercel"}

NameIsValid(name) == Trim(name) # "" /\ name \notin Reserved

\* The fields are those the file has at its top or in a profile, the unknown
\* ones as "unknown".
FileIsValid(file) ==
  /\ file.state = "text"
  /\ file.fields # {}
  /\ file.fields \subseteq ConfigFields
  /\ "default_model" \in file.fields => Trim(file.model) # ""
  /\ "default_provider" \in file.fields => Trim(file.provider) # ""
  /\ \A name \in DOMAIN file.profiles :
       NameIsValid(name) /\ ProfileIsValid(file.profiles[name])

\* The file JEQ_CONFIG names has to be there; the default one is optional.
ConfigFails(env, file) ==
  CASE env.path = "none"     -> FALSE
    [] env.path = "explicit" -> ~FileIsValid(file)
    [] env.path = "default"  -> file.state # "absent" /\ ~FileIsValid(file)

ConfigRead(env, file) ==
  IF env.path # "none" /\ FileIsValid(file)
  THEN [model |-> file.model, provider |-> file.provider, profiles |-> file.profiles]
  ELSE NoConfig

------------------------------------------------------------------------------
(* The provider.                                                           *)

Builtin(name) ==
  IF name = "typesafe"
  THEN Profile(DefaultBaseURL, "", "bearer", "TYPESAFE_API_KEY")
  ELSE Profile(GatewayURL, "typesafe-ai/jev", "bearer", "AI_GATEWAY_API_KEY")

\* JEQ_PROVIDER=custom takes its profile from the environment.
Custom(env) ==
  Profile(env.customURL, env.model, IF env.auth = "" THEN "bearer" ELSE env.auth, "JEQ_API_KEY")

ProviderName(env, config) ==
  IF Trim(env.provider) # "" THEN Trim(env.provider)
  ELSE IF Trim(config.provider) # "" THEN Trim(config.provider)
  ELSE "typesafe"

Known(name, config) == name \in Reserved \/ name \in DOMAIN config.profiles

SelectedProfile(name, env, config) ==
  IF name = "typesafe" /\ env.baseURL # NoUrl
  THEN LET p == Builtin(name) IN Profile(env.baseURL, p.model, p.auth, p.key)
  ELSE IF name \in {"typesafe", "vercel"} THEN Builtin(name)
  ELSE IF name \in DOMAIN config.profiles THEN config.profiles[name]
  ELSE Custom(env)

validProviderScheme(scheme, host, auth) ==
  /\ auth = "none" => isLoopback(host)
  /\ scheme = "https" \/ (scheme = "http" /\ isLoopback(host))

validateProvider(p) ==
  /\ p.url.plain
  /\ validProviderScheme(p.url.scheme, p.url.host, p.auth)
  /\ p.auth \in {"bearer", "none"}
  /\ p.auth = "bearer" => Trim(p.key) # ""

\* Mutant: a built-in profile, its overridden URL included, is taken for valid.
ProviderFails_BuiltinTrusted(env, config) ==
  LET name == ProviderName(env, config) IN
    \/ ~Known(name, config)
    \/ name \notin {"typesafe", "vercel"} /\ ~validateProvider(SelectedProfile(name, env, config))

ProviderFails(env, config) ==
  LET name == ProviderName(env, config) IN
    ~Known(name, config) \/ ~validateProvider(SelectedProfile(name, env, config))

\* The variable a bearer credential comes from; env.keys are those that are set.
CredentialVariable(name, profile, env) ==
  IF name = "vercel" /\ profile.key \notin env.keys THEN "VERCEL_OIDC_TOKEN" ELSE profile.key

NoProvider == [name |-> "", url |-> NoUrl, auth |-> "", key |-> ""]

\* (ResolvedProvider.Model, which nothing reads, is left out.)
ResolvedProvider(env, config) ==
  LET name    == ProviderName(env, config)
      profile == SelectedProfile(name, env, config)
  IN [name |-> name, url |-> profile.url, auth |-> profile.auth,
      key  |-> IF profile.auth = "bearer" THEN CredentialVariable(name, profile, env) ELSE ""]

\* The code ResolveProvider fails with.
ProviderFailure(env, file) ==
  LET config   == ConfigRead(env, file)
      provider == ResolvedProvider(env, config)
  IN IF ConfigFails(env, file) \/ ProviderFails(env, config) THEN "INPUT_INVALID"
     ELSE IF provider.auth = "bearer" /\ provider.key \notin env.keys THEN "AUTH_MISSING"
     ELSE "none"

------------------------------------------------------------------------------
(* The model.  The settings of the environment are trimmed, --model is not. *)

ModelFails(env, file) ==
  ConfigFails(env, file) \/ ProviderFails(env, ConfigRead(env, file))

ModelLayers(flag, env, config) ==
  LET profile == SelectedProfile(ProviderName(env, config), env, config)
      Layer(source, model) == [source |-> source, model |-> model]
  IN << Layer("flag", flag), Layer("environment", Trim(env.model)),
        Layer("provider", Trim(profile.model)), Layer("config", Trim(config.model)),
        Layer("environment", Trim(env.legacyModel)), Layer("default", DefaultModel) >>

\* The first layer that names a model.
ResolvedModel(flag, env, config) ==
  LET layers == ModelLayers(flag, env, config)
  IN layers[CHOOSE i \in DOMAIN layers :
              layers[i].model # "" /\ \A j \in 1 .. i - 1 : layers[j].model = ""]

==============================================================================
