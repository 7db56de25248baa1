-------------------------------- MODULE MCSetup --------------------------------
(* Four families of invocations, each of which varies one thing: the flags,  *)
(* the documents, the environment with the configuration file, the options.  *)
EXTENDS Setup, TLC

Ask(q)        == Obj("type" :> Str("noul") @@ "instructions" :> Str(q))
GoodQuestions == Obj("questions" :> Obj("q" :> Ask("why")))
GoodState     == Obj("a" :> Num(2))
GoodRequest   == Obj("model" :> Str("m-doc") @@ "state" :> GoodState
                       @@ "questions" :> Obj("q" :> Ask("why")))

Env(name, path, base, custom, auth, m, legacy, keys) ==
  [provider |-> name, path |-> path, baseURL |-> base, customURL |-> custom, auth |-> auth,
   model |-> m, legacyModel |-> legacy, keys |-> keys]
AllKeys  == {"TYPESAFE_API_KEY", "AI_GATEWAY_API_KEY", "VERCEL_OIDC_TOKEN", "JEQ_API_KEY", "KEY"}
PlainEnv == Env("", "none", NoUrl, NoUrl, "", "", "", AllKeys)

Inv(cmd, docs, stdin, m, options, env) ==
  [cmd |-> cmd, given |-> DOMAIN docs \cup (IF m = "" THEN {} ELSE {"model"}), stdin |-> stdin,
   docs |-> docs, model |-> m, options |-> options, env |-> env]

GoodDoc(flag) ==
  CASE flag = "request" -> GoodRequest
    [] flag \in QuestionFlags -> GoodQuestions
    [] flag \in {"state", "state-file"} -> Str("text")
    [] OTHER -> GoodState
DocFlags == {"request"} \cup QuestionFlags \cup StateFlags

\* Every set of up to three sources, each that can read stdin doing so or not.
FlagFamily ==
  {Inv(cmd, [flag \in flags |-> GoodDoc(flag)], stdin, m, TRUE, PlainEnv) :
     cmd \in {"ask", "validate"}, m \in {"", "m-flag"},
     <<flags, stdin>> \in {<<f, s>> \in (SUBSET DocFlags) \X (SUBSET Streams) :
                             Cardinality(f) \in 1 .. 3 /\ s \subseteq f}}

QuestionValues ==
  { Ask("why"), Ask(Blank), Obj("type" :> Str("noul")), Null, Str("q"),
    Obj("type" :> Null @@ "instructions" :> Str("why")),
    Obj("type" :> Str("noul") @@ "instructions" :> Null),
    Obj("type" :> Str("noul") @@ "instructions" :> Arr(<<Str("why")>>) @@ "note" :> Null),
    Obj("type" :> Str("noul") @@ "instructions" :> Str("why")
          @@ "criteria" :> Obj("true" :> Str("yes") @@ "false" :> Null)),
    Obj("type" :> Str("noul") @@ "instructions" :> Str("why") @@ "criteria" :> Obj("maybe" :> Str("x"))),
    Obj("type" :> Str("score") @@ "instructions" :> Str("why") @@ "criteria" :> Arr(<<Str("low")>>)),
    Obj("type" :> Str("score") @@ "instructions" :> Str("why")
          @@ "criteria" :> Arr(<<Str("low"), Str("high")>>)),
    Obj("type" :> Str("choice") @@ "instructions" :> Str("why") @@ "criteria" :> Obj("a" :> Null)),
    Obj("type" :> Str("choice") @@ "instructions" :> Str("why") @@ "criteria" :> Obj(<<>>)),
    Obj("type" :> Str("rank") @@ "instructions" :> Str("why")) }

QuestionSets == {Null, Str("q"), Obj(<<>>)} \cup {Obj("q" :> q) : q \in QuestionValues}
                  \cup {Obj("q" :> Ask("why") @@ "r" :> q) : q \in {Ask("how"), Null, Ask(Blank)}}

QuestionDocs ==
  {Malformed, Unreadable, Null, Arr(<<>>), Obj(<<>>)}
    \cup {Obj("questions" :> qs) : qs \in QuestionSets}
    \cup {Obj("questions" :> Obj("q" :> Ask("why")) @@ key :> Null) : key \in {"note", "model", "state"}}

States == { Malformed, Null, Num(1), Str(""), Str(Blank), Str("text"), Obj(<<>>), GoodState, Arr(<<>>),
            Arr(<<Null>>), Two(Str("a"), Num(2)), Two(GoodState, Num(2)), Two(Num(2), GoodState) }

RequestDocs ==
  {Malformed, Unreadable, Null, Arr(<<>>), Obj(<<>>)}
    \cup {Obj("model" :> m @@ "state" :> st @@ "questions" :> qs) :
            m \in {Null, Str(""), Str("m-doc"), Num(1)}, st \in {s \in States : DOMAIN s \subseteq {"str", "obj"}},
            qs \in {Obj("q" :> q) : q \in {Ask("why"), Null, Ask(Blank)}}}
    \cup {Obj("state" :> GoodState @@ "questions" :> qs @@ "note" :> Null) : qs \in QuestionSets}

Composing(q, state, flag, route) == (q :> route) @@ (flag :> state)
DocFamily ==
  {Inv(cmd, "request" :> doc, {}, "", TRUE, PlainEnv) : cmd \in {"ask", "validate"}, doc \in RequestDocs}
    \cup {Inv(cmd, Composing(q, Str("text"), "state", doc), {}, "", TRUE, PlainEnv) :
            cmd \in {"ask", "validate"}, q \in QuestionFlags,
            doc \in QuestionDocs \ {Unreadable}}
    \cup {Inv(cmd, Composing("questions", st, flag, doc), {}, "", TRUE, PlainEnv) :
            cmd \in {"ask", "validate"}, flag \in {"state-json", "state-json-file"}, st \in States,
            doc \in {GoodQuestions, Unreadable, Obj(<<>>)}}
    \cup {Inv(cmd, Composing("questions", st, flag, GoodQuestions), {}, "", TRUE, PlainEnv) :
            cmd \in {"ask", "validate"}, flag \in {"state", "state-file"},
            st \in {Str(""), Str(Blank), Str("text")}}
    \cup {Inv("ask", Composing("questions", Unreadable, flag, GoodQuestions), {}, "", TRUE, PlainEnv) :
            flag \in {"state-file", "state-json-file"}}

Local    == Url("http", "localhost", TRUE)
Remote   == Url("https", "example.org", TRUE)
Insecure == Url("http", "example.org", TRUE)
Odd      == Url("https", "example.org", FALSE)

MCEnvironments ==
  {Env(name, path, NoUrl, NoUrl, "", m, legacy, AllKeys) :
     name \in {"", Blank, "typesafe", "vercel", "staging", "other"}, path \in {"none", "default", "explicit"},
     m \in {"", Blank, "m-env"}, legacy \in {"", "m-old"}}
    \cup {Env("", "default", base, NoUrl, "", "", "", keys) :
            base \in {Local, Remote, Insecure, Odd}, keys \in {{}, AllKeys}}
    \cup {Env("custom", "default", NoUrl, base, auth, "", "", keys) :
            base \in {NoUrl, Local, Remote, Insecure}, auth \in {"", "none", "basic"}, keys \in {{}, AllKeys}}
    \cup {Env("vercel", "none", NoUrl, NoUrl, "", "", "", keys) :
            keys \in {{}, {"VERCEL_OIDC_TOKEN"}, {"AI_GATEWAY_API_KEY"}}}

EnvFamily ==
  {Inv(cmd, IF cmd = "models" THEN <<>> ELSE Composing("questions", Str("text"), "state", GoodQuestions),
       {}, IF cmd = "ask" THEN m ELSE "", options, env) :
     cmd \in {"ask", "models"}, m \in {"", "m-flag"}, options \in BOOLEAN, env \in MCEnvironments}

NativeFamily == {Inv("ask", "request" :> GoodRequest, {}, "", options, env) :
                   options \in BOOLEAN, env \in {e \in MCEnvironments : e.model = "m-env" \/ e.keys # AllKeys}}

MCInvocations == FlagFamily \cup DocFamily \cup EnvFamily \cup NativeFamily

\* The documents, and what is in them, in the members of their members, and so on.
Within(vs) == vs \cup UNION {Range(AsMembers(v)) \cup Range(AsElements(v)) : v \in vs}
MCDocs     == {v \in UNION {Range(i.docs) : i \in MCInvocations} : ~IsA(v, "two")}
MCJson     == Within(Within(Within(Within(MCDocs \ {Malformed, Unreadable}))))

Text(fields, m, name, profiles) ==
  [state |-> "text", fields |-> fields, model |-> m, provider |-> name, profiles |-> profiles]
NoFile(state) == [Text({}, "", "", <<>>) EXCEPT !.state = state]
Staging == Profile(Remote, "m-staging", "bearer", "KEY")

MCFiles ==
  { NoFile("absent"), NoFile("unreadable"), Text({}, "", "", <<>>), Text({"unknown"}, "", "", <<>>),
    Text({"default_model"}, "m-file", "", <<>>), Text({"default_model"}, Blank, "", <<>>),
    Text({"default_provider", "providers"}, "", "staging", "staging" :> Staging),
    Text({"default_provider", "providers"}, "", "staging",
         "staging" :> Profile(Local, "m-local", "none", "")),
    Text({"default_model", "providers"}, "m-file", "", "staging" :> Profile(Insecure, "m-bad", "bearer", "KEY")),
    Text({"default_provider", "providers"}, "", "custom", "custom" :> Staging),
    Text({"providers"}, "", "", "staging" :> Profile(Remote, "m-staging", "none", "KEY")) }
==============================================================================
