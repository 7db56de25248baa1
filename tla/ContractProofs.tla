---------------------------- MODULE ContractProofs ----------------------------
(***************************************************************************)
(* What decoding and encoding a document does, for every document: what    *)
(* was decoded is encoded as it came.  Setup's and Stages' proofs rest on  *)
(* these facts.                                                            *)
(***************************************************************************)
EXTENDS Contract, TLAPS

------------------------------------------------------------------------------
(* Values and their members.                                               *)

LEMMA NoMembers == DOMAIN <<>> = {}
OBVIOUS

LEMMA Kinds ==
  \A x : /\ Str(x) # Absent /\ Obj(x) # Absent /\ Num(x) # Absent /\ Arr(x) # Absent
         /\ Str(x) # Null /\ Obj(x) # Null
         /\ Str(x).str = x /\ Obj(x).obj = x
         /\ IsA(Str(x), "str") /\ IsA(Obj(x), "obj")
         /\ ~IsA(Absent, "obj") /\ ~IsA(Absent, "str") /\ ~IsA(Null, "obj") /\ ~IsA(Null, "str")
BY DEF Str, Obj, Num, Arr, Absent, Null, IsA

LEMMA FieldMembers ==
  ASSUME NEW key, NEW v
  PROVE  /\ DOMAIN Field(key, v) = IF v = Absent THEN {} ELSE {key}
         /\ v # Absent => Field(key, v)[key] = v
BY NoMembers DEF Field

LEMMA MergeMembers ==
  ASSUME NEW m, NEW n
  PROVE  /\ DOMAIN Merge(m, n) = DOMAIN m \cup DOMAIN n
         /\ \A key \in DOMAIN m : Merge(m, n)[key] = m[key]
         /\ \A key \in DOMAIN n \ DOMAIN m : Merge(m, n)[key] = n[key]
BY DEF Merge

LEMMA WithoutMembers ==
  ASSUME NEW m, NEW keys
  PROVE  /\ DOMAIN Without(m, keys) = DOMAIN m \ keys
         /\ \A key \in DOMAIN m \ keys : Without(m, keys)[key] = m[key]
BY DEF Without, Restrict

\* The members of a JSON object are a function to JSON values.
LEMMA ClosedMembers ==
  ASSUME NEW V, Closed(V), NEW v \in V
  PROVE  /\ AsMembers(v) \in [DOMAIN AsMembers(v) -> V]
         /\ IsA(v, "obj") => v = Obj(AsMembers(v))
         /\ IsA(v, "str") => v = Str(AsString(v))
         /\ v # Absent
<1>1. CASE IsA(v, "obj")
  BY <1>1 DEF Closed, AsMembers, AsString
<1>2. CASE ~IsA(v, "obj")
  <2>1. AsMembers(v) = <<>>
    BY <1>2 DEF AsMembers
  <2>2. <<>> \in [{} -> V]
    OBVIOUS
  <2>. QED BY <1>2, <2>1, <2>2, NoMembers DEF Closed, AsString
<1>. QED BY <1>1, <1>2

LEMMA ClosedMember ==
  ASSUME NEW V, Closed(V), NEW v \in V, NEW key
  PROVE  /\ key \in DOMAIN AsMembers(v) =>
              Member(AsMembers(v), key) = AsMembers(v)[key] /\ AsMembers(v)[key] \in V
         /\ Member(AsMembers(v), key) = Absent <=> key \notin DOMAIN AsMembers(v)
BY ClosedMembers DEF Member

\* Two functions with the same domain and values are the same.
LEMMA SameMembers ==
  ASSUME NEW D, NEW R, NEW m \in [D -> R], NEW n, n = [key \in D |-> n[key]],
         \A key \in D : n[key] = m[key]
  PROVE  n = m
OBVIOUS

LEMMA MergedIs ==
  ASSUME NEW m, NEW n
  PROVE  Merge(m, n) = [key \in DOMAIN m \cup DOMAIN n |-> Merge(m, n)[key]]
BY DEF Merge

------------------------------------------------------------------------------
(* Questions.                                                              *)

LEMMA KnownQuestionMembers ==
  ASSUME NEW q
  PROVE  /\ DOMAIN KnownQuestion(q) = {"type"}
              \cup (IF q.instructions = Absent THEN {} ELSE {"instructions"})
              \cup (IF q.criteria = Absent THEN {} ELSE {"criteria"})
         /\ KnownQuestion(q)["type"] = Str(q.type)
         /\ q.instructions # Absent => KnownQuestion(q)["instructions"] = q.instructions
         /\ q.criteria # Absent => KnownQuestion(q)["criteria"] = q.criteria
<1> DEFINE T == Field("type", Str(q.type))
           I == Field("instructions", q.instructions)
           C == Field("criteria", q.criteria)
<1>1. DOMAIN T = {"type"} /\ T["type"] = Str(q.type)
  BY FieldMembers, Kinds
<1>2. /\ DOMAIN I = IF q.instructions = Absent THEN {} ELSE {"instructions"}
      /\ q.instructions # Absent => I["instructions"] = q.instructions
  BY FieldMembers
<1>3. /\ DOMAIN C = IF q.criteria = Absent THEN {} ELSE {"criteria"}
      /\ q.criteria # Absent => C["criteria"] = q.criteria
  BY FieldMembers
<1>4. KnownQuestion(q) = Merge(T, Merge(I, C))
  BY DEF KnownQuestion
<1> DEFINE R == Merge(I, C)
<1> HIDE DEF T, I, C
<1>5. /\ DOMAIN R = DOMAIN I \cup DOMAIN C
      /\ q.instructions # Absent => R["instructions"] = q.instructions
      /\ q.criteria # Absent => R["criteria"] = q.criteria
  <2>1. "instructions" \notin DOMAIN C /\ "criteria" \notin DOMAIN I
    BY <1>2, <1>3
  <2>2. /\ DOMAIN R = DOMAIN I \cup DOMAIN C
        /\ \A key \in DOMAIN I : R[key] = I[key]
        /\ \A key \in DOMAIN C \ DOMAIN I : R[key] = C[key]
    BY MergeMembers
  <2>3. q.instructions # Absent => "instructions" \in DOMAIN I
    BY <1>2
  <2>4. q.criteria # Absent => "criteria" \in DOMAIN C \ DOMAIN I
    BY <1>3, <2>1
  <2>. QED BY <1>2, <1>3, <2>2, <2>3, <2>4
<1> HIDE DEF R
<1>6. /\ DOMAIN Merge(T, R) = DOMAIN T \cup DOMAIN R
      /\ \A key \in DOMAIN T : Merge(T, R)[key] = T[key]
      /\ \A key \in DOMAIN R \ DOMAIN T : Merge(T, R)[key] = R[key]
  BY MergeMembers
<1>7. KnownQuestion(q) = Merge(T, R)
  BY <1>4 DEF R
<1>8. DOMAIN R = (IF q.instructions = Absent THEN {} ELSE {"instructions"})
                   \cup (IF q.criteria = Absent THEN {} ELSE {"criteria"})
  BY <1>2, <1>3, <1>5
<1>9. DOMAIN Merge(T, R) = {"type"} \cup DOMAIN R
  BY <1>1, <1>6
<1>10. Merge(T, R)["type"] = Str(q.type)
  BY <1>1, <1>6
<1>11. q.instructions # Absent => Merge(T, R)["instructions"] = q.instructions
  BY <1>1, <1>5, <1>6, <1>8
<1>12. q.criteria # Absent => Merge(T, R)["criteria"] = q.criteria
  BY <1>1, <1>5, <1>6, <1>8
<1>. QED BY <1>7, <1>8, <1>9, <1>10, <1>11, <1>12

\* A question with a known type is an object that names it.
LEMMA TypedQuestion ==
  ASSUME NEW V, Closed(V), NEW v \in V, QuestionDecodes(v),
         QuestionViolations(DecodedQuestion(v)) = {}
  PROVE  /\ IsA(v, "obj")
         /\ "type" \in DOMAIN AsMembers(v)
         /\ AsMembers(v)["type"] = Str(DecodedQuestion(v).type)
<1> DEFINE m == AsMembers(v)
<1>1. DecodedQuestion(v).type = AsString(Member(m, "type"))
  BY DEF DecodedQuestion
<1>2. AsString(Member(m, "type")) \in Types
  BY <1>1 DEF QuestionViolations
<1>3. IsA(Member(m, "type"), "str")
  BY <1>2 DEF AsString, Types
<1>4. "type" \in DOMAIN m
  BY <1>3, Kinds DEF Member
<1>5. IsA(v, "obj")
  BY <1>4, NoMembers DEF AsMembers
<1>6. m["type"] \in V /\ Member(m, "type") = m["type"]
  BY <1>4, ClosedMember
<1>7. m["type"] = Str(AsString(m["type"]))
  BY <1>3, <1>6, ClosedMembers
<1>. QED BY <1>1, <1>4, <1>5, <1>6, <1>7

\* A valid question is encoded as it came, its unknown members included.
LEMMA QuestionReturns ==
  ASSUME NEW V, Closed(V), NEW v \in V, QuestionDecodes(v),
         QuestionViolations(DecodedQuestion(v)) = {}
  PROVE  EncodedQuestion(DecodedQuestion(v)) = v
<1> DEFINE m == AsMembers(v)
           q == DecodedQuestion(v)
           K == KnownQuestion(q)
           n == Merge(K, q.extra)
<1>1. /\ v = Obj(m) /\ "type" \in DOMAIN m /\ m["type"] = Str(q.type)
      /\ m \in [DOMAIN m -> V]
  BY TypedQuestion, ClosedMembers
<1>2. /\ q.instructions = Member(m, "instructions") /\ q.criteria = Member(m, "criteria")
      /\ q.extra = Without(m, QuestionFields)
  BY DEF DecodedQuestion
<1>3. /\ q.instructions = Absent <=> "instructions" \notin DOMAIN m
      /\ q.criteria = Absent <=> "criteria" \notin DOMAIN m
      /\ q.instructions # Absent => q.instructions = m["instructions"]
      /\ q.criteria # Absent => q.criteria = m["criteria"]
  BY <1>2, ClosedMember
<1>4. /\ DOMAIN q.extra = DOMAIN m \ {"type", "instructions", "criteria"}
      /\ \A key \in DOMAIN q.extra : q.extra[key] = m[key]
  <2>1. q.extra = Without(m, {"type", "instructions", "criteria"})
    BY <1>2 DEF QuestionFields
  <2> DEFINE known == {"type", "instructions", "criteria"}
  <2> HIDE DEF m, q, known
  <2>2. /\ DOMAIN Without(m, known) = DOMAIN m \ known
        /\ \A key \in DOMAIN m \ known : Without(m, known)[key] = m[key]
    BY WithoutMembers
  <2>. QED BY <2>1, <2>2 DEF known
<1>5. EncodedQuestion(q) = Obj(n)
  BY DEF EncodedQuestion
<1> HIDE DEF m, q
<1>6. DOMAIN K = {key \in {"type", "instructions", "criteria"} : key \in DOMAIN m}
      /\ \A key \in DOMAIN K : K[key] = m[key]
  BY <1>1, <1>3, KnownQuestionMembers
<1> HIDE DEF K
<1>7. /\ DOMAIN n = DOMAIN m
      /\ \A key \in DOMAIN m : n[key] = m[key]
  <2>1. /\ DOMAIN n = DOMAIN K \cup DOMAIN q.extra
        /\ \A key \in DOMAIN K : n[key] = K[key]
        /\ \A key \in DOMAIN q.extra \ DOMAIN K : n[key] = q.extra[key]
    BY MergeMembers
  <2> HIDE DEF n
  <2>. QED BY <1>4, <1>6, <2>1
<1>8. n = [key \in DOMAIN m |-> n[key]]
  BY <1>7, MergedIs, MergeMembers
<1> HIDE DEF n
<1>9. n = m
  BY <1>1, <1>7, <1>8, SameMembers
<1>. QED BY <1>1, <1>5, <1>9 DEF m, q

LEMMA QuestionsReturn ==
  ASSUME NEW V, Closed(V), NEW v \in V, IsA(v, "obj"), QuestionsDecode(v),
         \A id \in DOMAIN DecodedQuestions(v) : QuestionViolations(DecodedQuestions(v)[id]) = {}
  PROVE  EncodedQuestions(DecodedQuestions(v)) = v
<1> DEFINE m  == AsMembers(v)
           qs == DecodedQuestions(v)
           n  == [id \in DOMAIN qs |-> EncodedQuestion(qs[id])]
<1>1. DOMAIN qs = DOMAIN m /\ \A id \in DOMAIN m : qs[id] = DecodedQuestion(m[id])
  BY DEF DecodedQuestions
<1>2. v = Obj(m) /\ m \in [DOMAIN m -> V]
  BY ClosedMembers
<1>3. ASSUME NEW id \in DOMAIN m  PROVE EncodedQuestion(qs[id]) = m[id]
  <2>1. m[id] \in V /\ QuestionDecodes(m[id])
    BY <1>2 DEF QuestionsDecode, Range
  <2>. QED BY <1>1, <2>1, QuestionReturns
<1>4. EncodedQuestions(qs) = Obj(n)
  BY DEF EncodedQuestions
<1>5. n = [id \in DOMAIN m |-> n[id]] /\ \A id \in DOMAIN m : n[id] = m[id]
  BY <1>1, <1>3
<1> HIDE DEF m, n, qs
<1>6. n = m
  BY <1>2, <1>5, SameMembers
<1>. QED BY <1>2, <1>4, <1>6 DEF qs

------------------------------------------------------------------------------
(* Requests.                                                               *)

\* A request that breaks no rule has a state and questions that break none.
LEMMA ValidRequest ==
  ASSUME NEW r, Violations(r) = {}
  PROVE  /\ ~EmptyValue(r.state) /\ r.state # Absent
         /\ DOMAIN r.questions # {}
         /\ \A id \in DOMAIN r.questions : QuestionViolations(r.questions[id]) = {}
<1>1. \A rule \in RequestRules : ~(rule = "state_non_empty" /\ EmptyValue(r.state))
                                /\ ~(rule = "questions_non_empty" /\ DOMAIN r.questions = {})
  BY DEF Violations
<1>2. ~EmptyValue(r.state) /\ DOMAIN r.questions # {}
  BY <1>1 DEF RequestRules
<1>3. r.state # Absent
  BY <1>2 DEF EmptyValue
<1>4. UNION {QuestionViolations(r.questions[id]) : id \in DOMAIN r.questions} = {}
  BY DEF Violations
<1>. QED BY <1>2, <1>3, <1>4

LEMMA KnownRequestMembers ==
  ASSUME NEW r
  PROVE  /\ DOMAIN KnownRequest(r) = {"questions"}
              \cup (IF r.model = "" THEN {} ELSE {"model"})
              \cup (IF r.state = Absent THEN {} ELSE {"state"})
         /\ r.model # "" => KnownRequest(r)["model"] = Str(r.model)
         /\ r.state # Absent => KnownRequest(r)["state"] = r.state
         /\ KnownRequest(r)["questions"] = EncodedQuestions(r.questions)
<1> DEFINE M == Field("model", IF r.model = "" THEN Absent ELSE Str(r.model))
           S == Field("state", r.state)
           Q == Field("questions", EncodedQuestions(r.questions))
           R == Merge(S, Q)
<1>1. /\ DOMAIN M = IF r.model = "" THEN {} ELSE {"model"}
      /\ r.model # "" => M["model"] = Str(r.model)
  <2>1. CASE r.model = ""
    <3>1. M = Field("model", Absent)
      BY <2>1
    <3>2. DOMAIN M = {}
      BY <3>1, FieldMembers
    <3>. QED BY <2>1, <3>2
  <2>2. CASE r.model # ""
    <3>1. M = Field("model", Str(r.model)) /\ Str(r.model) # Absent
      BY <2>2, Kinds
    <3>2. LET f == Field("model", Str(r.model)) IN DOMAIN f = {"model"} /\ f["model"] = Str(r.model)
      BY Kinds, FieldMembers
    <3> HIDE DEF M
    <3>. QED BY <2>2, <3>1, <3>2
  <2>. QED BY <2>1, <2>2
<1>2. /\ DOMAIN S = IF r.state = Absent THEN {} ELSE {"state"}
      /\ r.state # Absent => S["state"] = r.state
  BY FieldMembers
<1>3. DOMAIN Q = {"questions"} /\ Q["questions"] = EncodedQuestions(r.questions)
  <2>1. EncodedQuestions(r.questions) # Absent
    BY Kinds DEF EncodedQuestions
  <2>. QED BY <2>1, FieldMembers
<1>4. KnownRequest(r) = Merge(M, R)
  BY DEF KnownRequest
<1> HIDE DEF M, S, Q
<1>5. /\ DOMAIN R = DOMAIN S \cup DOMAIN Q
      /\ r.state # Absent => R["state"] = r.state
      /\ R["questions"] = EncodedQuestions(r.questions)
  <2>1. /\ DOMAIN R = DOMAIN S \cup DOMAIN Q
        /\ \A key \in DOMAIN S : R[key] = S[key]
        /\ \A key \in DOMAIN Q \ DOMAIN S : R[key] = Q[key]
    BY MergeMembers
  <2>2. r.state # Absent => "state" \in DOMAIN S
    BY <1>2
  <2>3. "questions" \in DOMAIN Q \ DOMAIN S
    BY <1>2, <1>3
  <2>. QED BY <1>2, <1>3, <2>1, <2>2, <2>3
<1> HIDE DEF R
<1>6. /\ DOMAIN Merge(M, R) = DOMAIN M \cup DOMAIN R
      /\ \A key \in DOMAIN M : Merge(M, R)[key] = M[key]
      /\ \A key \in DOMAIN R \ DOMAIN M : Merge(M, R)[key] = R[key]
  BY MergeMembers
<1>7. DOMAIN R = {"questions"} \cup (IF r.state = Absent THEN {} ELSE {"state"})
  BY <1>2, <1>3, <1>5
<1>8. r.model # "" => Merge(M, R)["model"] = Str(r.model)
  BY <1>1, <1>6
<1>9. r.state # Absent => Merge(M, R)["state"] = r.state
  BY <1>1, <1>5, <1>6, <1>7
<1>10. Merge(M, R)["questions"] = EncodedQuestions(r.questions)
  BY <1>1, <1>5, <1>6, <1>7
<1>11. DOMAIN Merge(M, R) = {"questions"} \cup (IF r.model = "" THEN {} ELSE {"model"})
                              \cup (IF r.state = Absent THEN {} ELSE {"state"})
  BY <1>1, <1>6, <1>7
<1>. QED BY <1>4, <1>8, <1>9, <1>10, <1>11

\* What a request holds of the document it was decoded from.
LEMMA DecodedRequestMembers ==
  ASSUME NEW V, Closed(V), NEW v \in V, RequestDecodes(v), Violations(DecodedRequest(v)) = {}
  PROVE  LET m == AsMembers(v)  r == DecodedRequest(v) IN
           /\ v = Obj(m)
           /\ "state" \in DOMAIN m /\ r.state = m["state"] /\ r.state # Absent
           /\ "questions" \in DOMAIN m /\ EncodedQuestions(r.questions) = m["questions"]
           /\ r.model # "" => "model" \in DOMAIN m /\ m["model"] = Str(r.model)
           /\ r.model = AsString(Member(m, "model"))
           /\ r.extra = Without(m, RequestFields)
<1> DEFINE m == AsMembers(v)
           r == DecodedRequest(v)
<1>1. /\ r.model = AsString(Member(m, "model"))
      /\ r.state = Member(m, "state")
      /\ r.questions = DecodedQuestions(Member(m, "questions"))
      /\ r.extra = Without(m, RequestFields)
  BY DEF DecodedRequest
<1>2. /\ r.state # Absent /\ DOMAIN r.questions # {}
      /\ \A id \in DOMAIN r.questions : QuestionViolations(r.questions[id]) = {}
  BY ValidRequest
<1> HIDE DEF r
<1>3. "state" \in DOMAIN m /\ r.state = m["state"]
  BY <1>1, <1>2 DEF Member
<1>4. v = Obj(m)
  <2>1. DOMAIN m # {}
    BY <1>3
  <2>2. IsA(v, "obj")
    BY <2>1, NoMembers DEF AsMembers
  <2>. QED BY <2>2, ClosedMembers
<1>5. IsA(Member(m, "questions"), "obj")
  <2>1. DOMAIN AsMembers(Member(m, "questions")) # {}
    BY <1>1, <1>2 DEF DecodedQuestions
  <2>. QED BY <2>1, NoMembers DEF AsMembers
<1>6. "questions" \in DOMAIN m /\ Member(m, "questions") = m["questions"]
  BY <1>5, Kinds DEF Member
<1>7. m["questions"] \in V /\ QuestionsDecode(m["questions"])
  BY <1>6, ClosedMember DEF RequestDecodes, If
<1>8. EncodedQuestions(r.questions) = m["questions"]
  <2>1. r.questions = DecodedQuestions(m["questions"])
    BY <1>1, <1>6
  <2>. QED BY <1>2, <1>5, <1>6, <1>7, <2>1, QuestionsReturn
<1>9. r.model # "" => "model" \in DOMAIN m /\ m["model"] = Str(r.model)
  <2> SUFFICES ASSUME r.model # "" PROVE "model" \in DOMAIN m /\ m["model"] = Str(r.model)
    OBVIOUS
  <2>1. IsA(Member(m, "model"), "str")
    BY <1>1 DEF AsString
  <2>2. "model" \in DOMAIN m
    BY <2>1, Kinds DEF Member
  <2>3. m["model"] \in V /\ Member(m, "model") = m["model"]
    BY <2>2, ClosedMember
  <2>. QED BY <1>1, <2>1, <2>2, <2>3, ClosedMembers
<1>. QED BY <1>1, <1>2, <1>3, <1>4, <1>6, <1>8, <1>9 DEF r

\* A valid request document is encoded as it came, but for an empty model.
THEOREM RequestReturns ==
  ASSUME NEW V, Closed(V), NEW v \in V, RequestDecodes(v), Violations(DecodedRequest(v)) = {}
  PROVE  LET m == AsMembers(v) IN
           EncodedRequest(DecodedRequest(v))
             = Obj(IF AsString(Member(m, "model")) = "" THEN Without(m, {"model"}) ELSE m)
<1> DEFINE m == AsMembers(v)
           r == DecodedRequest(v)
           K == KnownRequest(r)
           n == Merge(K, r.extra)
           w == Without(m, {"model"})
<1>1. /\ v = Obj(m)
      /\ "state" \in DOMAIN m /\ r.state = m["state"] /\ r.state # Absent
      /\ "questions" \in DOMAIN m /\ EncodedQuestions(r.questions) = m["questions"]
      /\ r.model # "" => "model" \in DOMAIN m /\ m["model"] = Str(r.model)
      /\ r.model = AsString(Member(m, "model"))
      /\ r.extra = Without(m, RequestFields)
  BY DecodedRequestMembers
<1>2. m \in [DOMAIN m -> V]
  BY ClosedMembers
<1>3. EncodedRequest(r) = Obj(n)
  BY DEF EncodedRequest
<1> HIDE DEF m, r
<1>4. /\ DOMAIN r.extra = DOMAIN m \ RequestFields
      /\ \A key \in DOMAIN r.extra : r.extra[key] = m[key]
  <2>1. /\ DOMAIN Without(m, RequestFields) = DOMAIN m \ RequestFields
        /\ \A key \in DOMAIN m \ RequestFields : Without(m, RequestFields)[key] = m[key]
    BY WithoutMembers
  <2>. QED BY <1>1, <2>1
<1>5. /\ DOMAIN K = {"state", "questions"} \cup (IF r.model = "" THEN {} ELSE {"model"})
      /\ \A key \in DOMAIN K : K[key] = m[key]
  <2>1. /\ DOMAIN K = {"questions"} \cup (IF r.model = "" THEN {} ELSE {"model"})
                         \cup (IF r.state = Absent THEN {} ELSE {"state"})
        /\ r.model # "" => K["model"] = Str(r.model)
        /\ r.state # Absent => K["state"] = r.state
        /\ K["questions"] = EncodedQuestions(r.questions)
    BY KnownRequestMembers
  <2> HIDE DEF K
  <2>2. DOMAIN K = {"state", "questions"} \cup (IF r.model = "" THEN {} ELSE {"model"})
    BY <1>1, <2>1
  <2>3. \A key \in DOMAIN K : key = "state" \/ key = "questions" \/ (key = "model" /\ r.model # "")
    BY <2>2
  <2>. QED BY <1>1, <2>1, <2>2, <2>3
<1> HIDE DEF K
<1>6. /\ DOMAIN n = DOMAIN K \cup DOMAIN r.extra
      /\ \A key \in DOMAIN K : n[key] = K[key]
      /\ \A key \in DOMAIN r.extra \ DOMAIN K : n[key] = r.extra[key]
      /\ n = [key \in DOMAIN K \cup DOMAIN r.extra |-> n[key]]
  BY MergeMembers, MergedIs
<1> HIDE DEF n
<1>7. \A key \in DOMAIN n : n[key] = m[key]
  BY <1>4, <1>5, <1>6
<1>8. DOMAIN n = IF r.model = "" THEN DOMAIN m \ {"model"} ELSE DOMAIN m
  BY <1>1, <1>4, <1>5, <1>6 DEF RequestFields
<1>9. CASE r.model = ""
  <2>1. w \in [DOMAIN m \ {"model"} -> V]
    BY <1>2 DEF Without, Restrict
  <2>2. \A key \in DOMAIN m \ {"model"} : w[key] = m[key]
    BY WithoutMembers
  <2> HIDE DEF w
  <2> DEFINE D == DOMAIN m \ {"model"}
  <2>3. /\ n = [key \in D |-> n[key]]
        /\ \A key \in D : n[key] = w[key]
        /\ w \in [D -> V]
    BY <1>6, <1>7, <1>8, <1>9, <2>1, <2>2
  <2> HIDE DEF D
  <2>4. n = w
    BY <2>3, SameMembers
  <2>. QED BY <1>1, <1>3, <1>9, <2>4 DEF m, r, w
<1>10. CASE r.model # ""
  <2>1. n = m
    BY <1>2, <1>6, <1>7, <1>8, <1>10, SameMembers
  <2>. QED BY <1>1, <1>3, <1>10, <2>1 DEF m, r
<1>. QED BY <1>9, <1>10

\* What an encoded request holds of the request.
LEMMA EncodedMembers ==
  ASSUME NEW r, RequestEncodes(r), r.state # Absent
  PROVE  LET n == EncodedRequest(r).obj IN
           /\ DOMAIN n = {"state", "questions"} \cup (IF r.model = "" THEN {} ELSE {"model"})
                            \cup DOMAIN r.extra
           /\ n["state"] = r.state
           /\ n["questions"] = EncodedQuestions(r.questions)
           /\ r.model # "" => n["model"] = Str(r.model) /\ "model" \notin DOMAIN r.extra
           /\ {"state", "questions"} \cap DOMAIN r.extra = {}
           /\ \A key \in DOMAIN r.extra : n[key] = r.extra[key]
<1> DEFINE K == KnownRequest(r)
           n == Merge(K, r.extra)
<1>1. /\ DOMAIN K = {"questions"} \cup (IF r.model = "" THEN {} ELSE {"model"})
                       \cup (IF r.state = Absent THEN {} ELSE {"state"})
      /\ r.model # "" => K["model"] = Str(r.model)
      /\ r.state # Absent => K["state"] = r.state
      /\ K["questions"] = EncodedQuestions(r.questions)
  BY KnownRequestMembers
<1>2. DOMAIN K \cap DOMAIN r.extra = {}
  BY DEF RequestEncodes, Clash
<1>3. EncodedRequest(r).obj = n
  BY DEF EncodedRequest, Obj
<1> HIDE DEF K
<1>4. /\ DOMAIN n = DOMAIN K \cup DOMAIN r.extra
      /\ \A key \in DOMAIN K : n[key] = K[key]
      /\ \A key \in DOMAIN r.extra \ DOMAIN K : n[key] = r.extra[key]
  BY MergeMembers
<1> HIDE DEF n
<1>5. DOMAIN K = {"state", "questions"} \cup (IF r.model = "" THEN {} ELSE {"model"})
  BY <1>1
<1>6. \A key \in DOMAIN r.extra : n[key] = r.extra[key] /\ key \notin DOMAIN K
  BY <1>2, <1>4
<1>7. n["state"] = r.state /\ n["questions"] = EncodedQuestions(r.questions)
      /\ (r.model # "" => n["model"] = Str(r.model))
  BY <1>1, <1>4, <1>5
<1>8. r.model # "" => "model" \notin DOMAIN r.extra
  BY <1>5, <1>6
<1>9. {"state", "questions"} \cap DOMAIN r.extra = {}
  BY <1>5, <1>6
<1>10. DOMAIN n = {"state", "questions"} \cup (IF r.model = "" THEN {} ELSE {"model"})
                    \cup DOMAIN r.extra
  BY <1>4, <1>5
<1>. QED BY <1>3, <1>6, <1>7, <1>8, <1>9, <1>10

\* The questions of a document that was accepted, and what stands beside them.
LEMMA QuestionsDocument ==
  ASSUME NEW V, Closed(V), NEW v \in V, QuestionsDocFailure(v) = "none"
  PROVE  LET m == AsMembers(v) IN
           /\ v = Obj(m) /\ IsA(v, "obj") /\ m \in [DOMAIN m -> V]
           /\ "questions" \in DOMAIN m /\ QuestionsDecode(m["questions"])
           /\ DOMAIN QuestionsExtra(v) = DOMAIN m \ {"questions"}
           /\ \A key \in DOMAIN m \ {"questions"} : QuestionsExtra(v)[key] = m[key]
<1> DEFINE m == AsMembers(v)
<1>1. "questions" \in DOMAIN m /\ If(m, "questions", QuestionsDecode)
  BY DEF QuestionsDocFailure
<1>2. QuestionsDecode(m["questions"])
  BY <1>1 DEF If
<1>3. IsA(v, "obj")
  BY <1>1, NoMembers DEF AsMembers
<1>4. v = Obj(m) /\ m \in [DOMAIN m -> V]
  BY <1>3, ClosedMembers
<1>5. /\ DOMAIN QuestionsExtra(v) = DOMAIN m \ {"questions"}
      /\ \A key \in DOMAIN m \ {"questions"} : QuestionsExtra(v)[key] = m[key]
  BY WithoutMembers DEF QuestionsExtra
<1>. QED BY <1>1, <1>2, <1>3, <1>4, <1>5

==============================================================================
