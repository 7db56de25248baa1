------------------------------ MODULE Responses ------------------------------
(***************************************************************************)
(* A response of System One (internal/domain/contract): what is accepted,  *)
(* what it decodes to, and what it is encoded as.  The numbers of typed    *)
(* fields pass through float64, the token counters through int64 as well.  *)
(* Numbers count halves, so that an odd one is a fraction.                 *)
(***************************************************************************)
EXTENDS Contract

CONSTANTS
  Float64(_),    \* the float64 nearest to a number
  Decimal(_),    \* the number json.Marshal writes for a float64
  MaxFloat,      \* the greatest float64
  IntLimit,      \* the least number too great for an int64
  OutOfRange(_)  \* what the build makes of a float64 that no int64 holds

\* Rounding twice is rounding once, and what is written for a float64 reads
\* back as it.
ASSUME ResponsesAssumption ==
  /\ {MaxFloat, IntLimit} \subseteq Nat
  /\ \A v \in Json : IsA(v, "num") =>
       LET f == Float64(v.num) IN Float64(f) = f /\ Float64(Decimal(f)) = f

Whole(n) == n % 2 = 0
IsInt64(n) == -IntLimit <= n /\ n < IntLimit

------------------------------------------------------------------------------
(* Numbers, as encoding/json reads them: one beyond the float64s is        *)
(* refused, and a null leaves the zero value.                              *)

IsNumber(v) ==
  Fits(v, "num") /\ (IsA(v, "num") => -MaxFloat <= Float64(v.num) /\ Float64(v.num) <= MaxFloat)

\* strictInt looks at the float64.
IsInteger(v) == IsNumber(v) /\ (IsA(v, "num") => Whole(Float64(v.num)))

\* A float64 field, by what is written for it.
ReadNumber(v) == Num(IF IsA(v, "num") THEN Decimal(Float64(v.num)) ELSE 0)

\* An int64 field is written digit by digit.
ReadInteger(v) ==
  IF ~IsA(v, "num") THEN Num(0)
  ELSE LET f == Float64(v.num) IN Num(IF IsInt64(f) THEN f ELSE OutOfRange(f))

ReadString(v) == Str(AsString(v))

------------------------------------------------------------------------------
(* Answers.  A required field has to be present; what a null leaves in it  *)
(* is the zero value.                                                      *)

AnswerNumbers == {"noul", "score", "confidence"}
AnswerMaps    == {"probabilities", "legend"}
AnswerFields  == AnswerNumbers \cup AnswerMaps \cup {"type", "choice"}

\* The fields an answer of each type has to carry.
Required ==
  [noul   |-> {"noul"},
   choice |-> {"choice", "probabilities", "confidence"},
   score  |-> {"score", "legend", "probabilities", "confidence"}]

NumbersFit(v) == Fits(v, "obj") /\ \A n \in Range(AsMembers(v)) : IsNumber(n)
StringsFit(v) == Fits(v, "obj") /\ \A s \in Range(AsMembers(v)) : IsString(s)

\* A null map stays nil, which counts as missing.
DecodedMap(v, Read(_)) ==
  IF IsA(v, "obj") THEN Obj([key \in DOMAIN v.obj |-> Read(v.obj[key])]) ELSE Absent

\* The answer's fields as the decoder leaves them.
AnswerField(m, field) ==
  IF field \notin DOMAIN m THEN Absent
  ELSE CASE field \in AnswerNumbers -> ReadNumber(m[field])
         [] field = "probabilities" -> DecodedMap(m[field], ReadNumber)
         [] field = "legend"        -> DecodedMap(m[field], ReadString)
         [] OTHER                   -> ReadString(m[field])

DecodedAnswer(v) ==
  LET m == AsMembers(v) IN
    [fields |-> [field \in AnswerFields |-> AnswerField(m, field)],
     extra  |-> Without(m, AnswerFields)]

AnswerType(a) == AsString(a.fields["type"])

AnswerDecodes(v) ==
  /\ Fits(v, "obj")
  /\ LET m == AsMembers(v)
         a == DecodedAnswer(v) IN
       /\ \A field \in AnswerNumbers : If(m, field, IsNumber)
       /\ If(m, "type", IsString) /\ If(m, "choice", IsString)
       /\ If(m, "probabilities", NumbersFit) /\ If(m, "legend", StringsFit)
       /\ AnswerType(a) \in Types
       /\ \A field \in Required[AnswerType(a)] : a.fields[field] # Absent

AnswersDecode(v) == Fits(v, "obj") /\ \A a \in Range(AsMembers(v)) : AnswerDecodes(a)

------------------------------------------------------------------------------
TokenFields == {"input_tokens", "output_tokens"}

UsageDecodes(v) ==
  Fits(v, "obj") /\ \A field \in TokenFields : If(AsMembers(v), field, IsInteger)

\* Every member is kept as it came, and the two counters are read besides.
DecodedUsage(v) ==
  [tokens  |-> [field \in TokenFields |-> ReadInteger(Member(AsMembers(v), field))],
   unknown |-> AsMembers(v)]

ResponseFields == {"model", "answers", "usage"}

ResponseDecodes(v) ==
  /\ IsA(v, "obj")
  /\ LET m == AsMembers(v) IN
       /\ ResponseFields \subseteq DOMAIN m
       /\ IsA(m["model"], "str") /\ m["model"].str # ""
       /\ AnswersDecode(m["answers"])
       /\ UsageDecodes(m["usage"])

DecodedResponse(v) ==
  LET m == AsMembers(v) IN
    [model   |-> m["model"].str,
     answers |-> [id \in DOMAIN AsMembers(m["answers"]) |->
                    DecodedAnswer(AsMembers(m["answers"])[id])],
     usage   |-> DecodedUsage(m["usage"]),
     extra   |-> Without(m, ResponseFields)]

------------------------------------------------------------------------------
EncodedAnswer(a) ==
  Obj(Merge(Restrict(a.fields, {f \in AnswerFields : a.fields[f] # Absent}), a.extra))

\* Mutant: only the counters the code knows are written.
EncodedUsage_TypedOnly(u) == Obj(u.tokens)

\* The counters take the place of the members they were read from.
EncodedUsage(u) == Obj(Merge(u.tokens, u.unknown))

EncodedResponse(r) ==
  LET known == [model   |-> Str(r.model),
                answers |-> Obj([id \in DOMAIN r.answers |-> EncodedAnswer(r.answers[id])]),
                usage   |-> EncodedUsage(r.usage)]
  IN Obj(Merge(known, r.extra))

==============================================================================
