------------------------------- MODULE Contract -------------------------------
(***************************************************************************)
(* The System One documents that jeq sends (internal/domain/contract):     *)
(* what a request and a questions document decode to, which local rules    *)
(* they break, and what a request is encoded as.  A JSON value is a record *)
(* with one field that names its kind; a decoded document that lacks a     *)
(* field holds Absent there.                                               *)
(***************************************************************************)
EXTENDS Integers, Sequences, FiniteSets, Functions, Text

CONSTANT
  Json  \* the JSON values that occur, and the values within them

------------------------------------------------------------------------------
(* Values, and what encoding/json makes of one for a Go type.  A null      *)
(* fits every type and leaves the variable at its zero value.              *)

Absent  == [lit |-> "absent"]
Null    == [lit |-> "null"]
Str(s)  == [str |-> s]
Num(n)  == [num |-> n]
Obj(m)  == [obj |-> m]
Arr(s)  == [arr |-> s]
\* The text of two values with a comma between them, where one belongs.
Two(v, w) == [two |-> <<v, w>>]

IsA(v, kind) == kind \in DOMAIN v
Fits(v, kind) == v = Null \/ IsA(v, kind)

\* Each value is of one kind, and what it holds, which is finite, is of the
\* set too.
Closed(values) ==
  \A v \in values :
    /\ v # Absent
    /\ IsA(v, "str") => v = Str(v.str)
    /\ IsA(v, "num") => v = Num(v.num)
    /\ IsA(v, "obj") => v = Obj(v.obj) /\ v.obj \in [DOMAIN v.obj -> values]
                      /\ IsFiniteSet(DOMAIN v.obj)
    /\ IsA(v, "arr") => v = Arr(v.arr) /\ v.arr \in Seq(values)

ASSUME JsonAssumption == Closed(Json)

AsString(v)   == IF IsA(v, "str") THEN v.str ELSE ""
AsMembers(v)  == IF IsA(v, "obj") THEN v.obj ELSE <<>>
AsElements(v) == IF IsA(v, "arr") THEN v.arr ELSE <<>>

------------------------------------------------------------------------------
Member(m, key)   == IF key \in DOMAIN m THEN m[key] ELSE Absent
Without(m, keys) == Restrict(m, DOMAIN m \ keys)
\* The field key, if there is one, passes the test.
If(m, key, Test(_)) == key \in DOMAIN m => Test(m[key])

IsString(v) == Fits(v, "str")

\* checkInstructionsJSON looks at the first byte.
InstructionsFit(v) == \E kind \in {"str", "obj", "arr"} : IsA(v, kind)
CriteriaFit(v)     == \E kind \in {"obj", "arr"} : IsA(v, kind)

\* So does checkStateJSON, once the value between brackets was scanned: two
\* values pass if the first of them does.
StateFits(v) == InstructionsFit(v) \/ (IsA(v, "two") /\ InstructionsFit(v.two[1]))

QuestionFields == {"type", "instructions", "criteria"}

QuestionDecodes(v) ==
  /\ Fits(v, "obj")
  /\ LET m == AsMembers(v) IN
       /\ If(m, "type", IsString)
       /\ If(m, "instructions", InstructionsFit)
       /\ If(m, "criteria", CriteriaFit)

\* Mutant: a question's unknown members are not kept.
DecodedQuestion_DropsExtra(v) ==
  LET m == AsMembers(v) IN
    [type         |-> AsString(Member(m, "type")),
     instructions |-> Member(m, "instructions"),
     criteria     |-> Member(m, "criteria"),
     extra        |-> <<>>]

DecodedQuestion(v) ==
  LET m == AsMembers(v) IN
    [type         |-> AsString(Member(m, "type")),
     instructions |-> Member(m, "instructions"),
     criteria     |-> Member(m, "criteria"),
     extra        |-> Without(m, QuestionFields)]

QuestionsDecode(v) == Fits(v, "obj") /\ \A q \in Range(AsMembers(v)) : QuestionDecodes(q)

DecodedQuestions(v) ==
  [id \in DOMAIN AsMembers(v) |-> DecodedQuestion(AsMembers(v)[id])]

RequestFields == {"model", "state", "questions"}

\* scanDoc refuses a document that is no object or array, a null one too.
RequestDecodes(v) ==
  /\ IsA(v, "obj")
  /\ LET m == AsMembers(v) IN
       /\ If(m, "model", IsString)
       /\ If(m, "state", StateFits)
       /\ If(m, "questions", QuestionsDecode)

DecodedRequest(v) ==
  LET m == AsMembers(v) IN
    [model     |-> AsString(Member(m, "model")),
     state     |-> Member(m, "state"),
     questions |-> DecodedQuestions(Member(m, "questions")),
     extra     |-> Without(m, RequestFields)]

\* Whatever stands beside "questions" rides on the request.
QuestionsExtra(v) == Without(AsMembers(v), {"questions"})

\* The code a questions document is refused with.
QuestionsDocFailure(v) ==
  IF ~IsA(v, "obj") \/ ~If(AsMembers(v), "questions", QuestionsDecode) THEN "REQUEST_INVALID"
  ELSE IF "questions" \notin DOMAIN AsMembers(v) THEN "INPUT_INVALID"
  ELSE "none"

------------------------------------------------------------------------------
(* The local rules.                                                        *)

Types == {"noul", "choice", "score"}

EmptyValue(v) ==
  \/ v = Absent
  \/ IsA(v, "str") /\ Trim(v.str) = ""
  \/ IsA(v, "obj") /\ DOMAIN v.obj = {}
  \/ IsA(v, "arr") /\ v.arr = <<>>
  \/ IsA(v, "two") /\ ~IsA(v.two[1], "str")

ValidNoulCriteria(v) ==
  Fits(v, "obj") /\ \A key \in DOMAIN AsMembers(v) :
                      key \in {"true", "false"} /\ IsString(AsMembers(v)[key])

RequestRules  == {"state_non_empty", "questions_non_empty"}
QuestionRules == {"instructions_non_empty", "choice_criteria_non_empty",
                  "score_criteria_min_levels", "noul_criteria_shape"}

QuestionViolations(q) ==
  IF q.type \notin Types THEN {"question_type_known"}
  ELSE {rule \in QuestionRules :
          \/ rule = "instructions_non_empty" /\ EmptyValue(q.instructions)
          \/ rule = "choice_criteria_non_empty" /\ q.type = "choice"
               /\ DOMAIN AsMembers(q.criteria) = {}
          \/ rule = "score_criteria_min_levels" /\ q.type = "score"
               /\ Len(AsElements(q.criteria)) < 2
          \/ rule = "noul_criteria_shape" /\ q.type = "noul"
               /\ q.criteria # Absent /\ ~ValidNoulCriteria(q.criteria)}

Violations(r) ==
  {rule \in RequestRules :
     \/ rule = "state_non_empty" /\ EmptyValue(r.state)
     \/ rule = "questions_non_empty" /\ DOMAIN r.questions = {}}
  \cup UNION {QuestionViolations(r.questions[id]) : id \in DOMAIN r.questions}

------------------------------------------------------------------------------
(* Encoding.  A field that is absent stays absent.                         *)

Field(key, v) == IF v = Absent THEN <<>> ELSE [k \in {key} |-> v]

\* The members of both objects, those of known where they share a key.
Merge(known, extra) ==
  [key \in DOMAIN known \cup DOMAIN extra |->
     IF key \in DOMAIN known THEN known[key] ELSE extra[key]]

\* encodeDoc refuses a document whose unknown fields include a known one.
Clash(known, extra) == DOMAIN known \cap DOMAIN extra # {}

KnownQuestion(q) ==
  Merge(Field("type", Str(q.type)),
        Merge(Field("instructions", q.instructions), Field("criteria", q.criteria)))

EncodedQuestion(q) ==
  Obj(Merge(KnownQuestion(q), q.extra))

EncodedQuestions(qs) == Obj([id \in DOMAIN qs |-> EncodedQuestion(qs[id])])

KnownRequest(r) ==
  Merge(Field("model", IF r.model = "" THEN Absent ELSE Str(r.model)),
        Merge(Field("state", r.state), Field("questions", EncodedQuestions(r.questions))))

\* json.Marshal takes one value for a state.
RequestEncodes(r) == ~Clash(KnownRequest(r), r.extra) /\ ~IsA(r.state, "two")

EncodedRequest(r) == Obj(Merge(KnownRequest(r), r.extra))

==============================================================================
