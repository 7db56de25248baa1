----------------------------- MODULE StagesProofs -----------------------------
(***************************************************************************)
(* Proofs about Stages for every chain of stages, every input and every    *)
(* set of replies.  What a stage holds is a value of some closed set of    *)
(* JSON, which grows with every piece of evidence attached; what it has    *)
(* asked and written is, record by record, what its checks let through.    *)
(***************************************************************************)
EXTENDS Stages, ContractProofs, FiniteSetTheorems, SequenceTheorems, WellFoundedInduction, TLAPS

------------------------------------------------------------------------------
(* Values reached by a pointer.  A selection that is no value would have a *)
(* least child that is none.                                               *)

\* A set of numbers that is not empty has a least one.
LEMMA LeastExists ==
  ASSUME NEW S, S \subseteq Nat, S # {}
  PROVE  Min(S) \in S /\ \A j \in S : Min(S) <= j
<1> DEFINE R == {ss \in Nat \X Nat : ss[1] < ss[2]}
<1>0. R = OpToRel(<, Nat)
  BY Zenon DEF OpToRel
<1>1. PICK x \in S : \A y \in S : ~(<<y, x>> \in R)
  <2>1. IsWellFoundedOn(R, Nat)
    BY <1>0, NatLessThanWellFounded, Zenon
  <2> HIDE DEF R
  <2> QED
    BY <2>1, WFMin
<1>2. \A y \in S : x <= y
  <2> SUFFICES ASSUME NEW y \in S, y < x PROVE FALSE
    OBVIOUS
  <2>1. <<y, x>> \in R
    OBVIOUS
  <2> QED
    BY <2>1, <1>1
<1> QED
  BY <1>2 DEF Min

\* What one step of a pointer leads to is a value, or nothing.
LEMMA ChildIsJson ==
  ASSUME NEW V, Closed(V), NEW v \in V \cup {Absent}, NEW token
  PROVE  pointerChild(v, token) \in V \cup {Absent}
<1>1. CASE IsA(v, "obj") /\ token \in DOMAIN v.obj
  <2>1. v \in V
    BY <1>1, Kinds
  <2>2. v.obj \in [DOMAIN v.obj -> V]
    BY <1>1, <2>1 DEF Closed
  <2> QED
    BY <1>1, <2>2 DEF pointerChild
<1>2. CASE IsA(v, "arr") /\ token \in DOMAIN ArrayIndex /\ ~(IsA(v, "obj") /\ token \in DOMAIN v.obj)
  <2>1. v \in V
    BY <1>2 DEF IsA, Absent
  <2>2. v.arr \in Seq(V)
    BY <1>2, <2>1 DEF Closed
  <2>3. \A i \in DOMAIN v.arr : v.arr[i] \in V
    BY <2>2
  <2> QED
    BY <1>2, <2>3 DEF pointerChild
<1> QED
  BY <1>1, <1>2 DEF pointerChild

\* So is what a whole pointer leads to.
LEMMA SelectIsJson ==
  ASSUME NEW V, Closed(V), NEW v \in V, NEW pointer \in Seq(STRING)
  PROVE  Select(v, pointer) \in V \cup {Absent}
<1> DEFINE L == Len(pointer)
           Follows(g, n) ==
             g = [i \in 0 .. n |-> IF i = 0 THEN v ELSE pointerChild(g[i - 1], pointer[i])]
           Short == {n \in 0 .. L : ~\E g : Follows(g, n)}
<1>1. L \in Nat
  OBVIOUS
<1>2. Short = {}
  <2> SUFFICES ASSUME Short # {} PROVE FALSE
    OBVIOUS
  <2> DEFINE m == Min(Short)
  <2>1. m \in Short /\ \A j \in Short : m <= j
    <3>1. Short \subseteq Nat
      BY <1>1
    <3> HIDE DEF Short
    <3> QED
      BY <3>1, LeastExists
  <2>2. m # 0
    <3>1. Follows([i \in 0 .. 0 |-> v], 0)
      OBVIOUS
    <3> QED
      BY <2>1, <3>1
  <2>3. m - 1 \in 0 .. L /\ m \in Nat
    BY <2>1, <2>2, <1>1
  <2>4. PICK g : Follows(g, m - 1)
    <3>1. m - 1 \notin Short
      <4> HIDE DEF Short, m
      <4> QED
        BY <2>1, <2>3
    <3> QED
      BY <3>1, <2>3
  <2> DEFINE h == [i \in 0 .. m |-> IF i = m THEN pointerChild(g[m - 1], pointer[m]) ELSE g[i]]
  <2> HIDE DEF m
  <2>5. \A i \in 0 .. m : h[i] = IF i = 0 THEN v ELSE pointerChild(h[i - 1], pointer[i])
    <3> SUFFICES ASSUME NEW i \in 0 .. m
                 PROVE  h[i] = IF i = 0 THEN v ELSE pointerChild(h[i - 1], pointer[i])
      OBVIOUS
    <3>1. CASE i = 0
      BY <3>1, <2>2, <2>3, <2>4
    <3>2. CASE i = m
      <4>1. h[m - 1] = g[m - 1]
        BY <2>2, <2>3
      <4> QED
        BY <3>2, <4>1, <2>2
    <3>3. CASE i # 0 /\ i # m
      <4>1. i \in 0 .. m - 1 /\ i - 1 \in 0 .. m /\ i - 1 # m
        BY <3>3, <2>3
      <4>2. h[i] = g[i] /\ h[i - 1] = g[i - 1]
        BY <4>1, <3>3
      <4> QED
        BY <4>1, <4>2, <3>3, <2>4
    <3> QED
      BY <3>1, <3>2, <3>3
  <2>6. Follows(h, m)
    <3>1. h = [i \in 0 .. m |-> h[i]]
      OBVIOUS
    <3> HIDE DEF h
    <3> QED
      BY <3>1, <2>5
  <2> QED
    BY <2>1, <2>6
<1> DEFINE reached == CHOOSE g : Follows(g, L)
<1>3. Follows(reached, L)
  BY <1>1, <1>2
<1>4. Select(v, pointer) = reached[L]
  BY DEF Select
<1> HIDE DEF reached
<1> DEFINE Strays == {i \in 0 .. L : reached[i] \notin V \cup {Absent}}
<1>5. Strays = {}
  <2> SUFFICES ASSUME Strays # {} PROVE FALSE
    OBVIOUS
  <2> DEFINE m == Min(Strays)
  <2>1. m \in Strays /\ \A j \in Strays : m <= j
    <3>1. Strays \subseteq Nat
      BY <1>1
    <3> HIDE DEF Strays
    <3> QED
      BY <3>1, LeastExists
  <2> HIDE DEF m
  <2>2. m # 0
    BY <2>1, <1>3, <1>1
  <2>3. m - 1 \in 0 .. L /\ m - 1 < m
    BY <2>1, <2>2, <1>1
  <2>4. reached[m - 1] \in V \cup {Absent}
    BY <2>1, <2>3
  <2>5. reached[m] = pointerChild(reached[m - 1], pointer[m])
    BY <2>1, <2>2, <1>3
  <2>6. reached[m] \in V \cup {Absent}
    <3>1. \A x \in V \cup {Absent} : pointerChild(x, pointer[m]) \in V \cup {Absent}
      BY ChildIsJson
    <3> QED
      BY <2>4, <2>5, <3>1
  <2> QED
    BY <2>6, <2>1
<1> QED
  BY <1>1, <1>4, <1>5

------------------------------------------------------------------------------
(* Values built from values.  A value is a member of some closed set.      *)

\* v is JSON: a member of some set closed under members and elements.
IsJson(v) == \E V : Closed(V) /\ v \in V

\* A string, a number, a truth value or null is JSON,
LEMMA ScalarIsJson ==
  \A x : IsJson(Str(x)) /\ IsJson(Num(x))
<1> SUFFICES ASSUME NEW x PROVE IsJson(Str(x)) /\ IsJson(Num(x))
  OBVIOUS
<1>1. Closed({Str(x)})
  BY DEF Closed, Str, IsA, Absent
<1>2. Closed({Num(x)})
  BY DEF Closed, Num, IsA, Absent
<1> QED
  BY <1>1, <1>2 DEF IsJson

\* and an object is, if its finitely many members are.
LEMMA ObjectIsJson ==
  ASSUME NEW m, m = [key \in DOMAIN m |-> m[key]], IsFiniteSet(DOMAIN m),
         \A key \in DOMAIN m : IsJson(m[key])
  PROVE  IsJson(Obj(m))
<1> DEFINE W(key) == CHOOSE V : Closed(V) /\ m[key] \in V
           U == UNION {W(key) : key \in DOMAIN m}
<1>1. \A key \in DOMAIN m : Closed(W(key)) /\ m[key] \in W(key)
  BY DEF IsJson
<1>2. m \in [DOMAIN m -> U]
  BY <1>1
<1>3. \A v \in U : \E key \in DOMAIN m : v \in W(key) /\ Closed(W(key)) /\ W(key) \subseteq U
  BY <1>1
<1>4. Closed(U \cup {Obj(m)})
  <2> HIDE DEF W, U
  <2> SUFFICES ASSUME NEW v \in U \cup {Obj(m)}
               PROVE  /\ v # Absent
                      /\ IsA(v, "str") => v = Str(v.str)
                      /\ IsA(v, "num") => v = Num(v.num)
                      /\ IsA(v, "obj") => v = Obj(v.obj)
                                          /\ v.obj \in [DOMAIN v.obj -> U \cup {Obj(m)}]
                                          /\ IsFiniteSet(DOMAIN v.obj)
                      /\ IsA(v, "arr") => v = Arr(v.arr) /\ v.arr \in Seq(U \cup {Obj(m)})
    BY DEF Closed
  <2>1. CASE v \in U
    <3>1. PICK key \in DOMAIN m : v \in W(key) /\ Closed(W(key)) /\ W(key) \subseteq U
      BY <1>3, <2>1
    <3>2. /\ v # Absent
          /\ IsA(v, "str") => v = Str(v.str)
          /\ IsA(v, "num") => v = Num(v.num)
          /\ IsA(v, "obj") => v = Obj(v.obj) /\ v.obj \in [DOMAIN v.obj -> W(key)]
                              /\ IsFiniteSet(DOMAIN v.obj)
          /\ IsA(v, "arr") => v = Arr(v.arr) /\ v.arr \in Seq(W(key))
      BY <3>1 DEF Closed
    <3>3. IsA(v, "obj") => v.obj \in [DOMAIN v.obj -> U \cup {Obj(m)}]
      BY <3>1, <3>2
    <3>4. IsA(v, "arr") => v.arr \in Seq(U \cup {Obj(m)})
      BY <3>1, <3>2, SeqMonotonic
    <3> QED
      BY <3>2, <3>3, <3>4
  <2>2. CASE v = Obj(m)
    <3>1. v.obj = m /\ v = Obj(v.obj) /\ v # Absent
      BY <2>2, Kinds
    <3>2. ~IsA(v, "str") /\ ~IsA(v, "num") /\ ~IsA(v, "arr")
      BY <2>2 DEF Obj, IsA
    <3>3. m \in [DOMAIN m -> U \cup {Obj(m)}]
      BY <1>2
    <3> QED
      BY <3>1, <3>2, <3>3
  <2> QED
    BY <2>1, <2>2
<1> QED
  BY <1>4 DEF IsJson

\* What an object or a sequence of values holds is JSON.
LEMMA WithinIsJson ==
  ASSUME NEW v, IsJson(v)
  PROVE  /\ v # Absent
         /\ IsA(v, "str") => v = Str(v.str)
         /\ IsA(v, "num") => v = Num(v.num)
         /\ IsA(v, "obj") => v = Obj(v.obj)
         /\ IsFiniteSet(DOMAIN AsMembers(v))
         /\ AsMembers(v) = [key \in DOMAIN AsMembers(v) |-> AsMembers(v)[key]]
         /\ \A key \in DOMAIN AsMembers(v) : IsJson(AsMembers(v)[key])
<1>1. PICK V : Closed(V) /\ v \in V
  BY DEF IsJson
<1>4. (IsA(v, "str") => v = Str(v.str)) /\ (IsA(v, "num") => v = Num(v.num))
  BY <1>1 DEF Closed
<1>2. CASE IsA(v, "obj")
  <2>1. /\ v.obj \in [DOMAIN v.obj -> V] /\ IsFiniteSet(DOMAIN v.obj)
        /\ v = Obj(v.obj) /\ v # Absent
    BY <1>1, <1>2 DEF Closed
  <2>2. \A key \in DOMAIN v.obj : IsJson(v.obj[key])
    BY <1>1, <2>1 DEF IsJson
  <2> QED
    BY <2>1, <2>2, <1>2, <1>4 DEF AsMembers
<1>3. CASE ~IsA(v, "obj")
  <2>1. AsMembers(v) = <<>> /\ v # Absent
    BY <1>1, <1>3 DEF AsMembers, Closed
  <2>2. DOMAIN <<>> = {} /\ <<>> = [key \in {} |-> <<>>[key]]
    BY NoMembers
  <2> QED
    BY <1>3, <1>4, <2>1, <2>2, FS_EmptySet
<1> QED
  BY <1>2, <1>3

\* Members put over others make JSON,
LEMMA MergedIsJson ==
  ASSUME NEW m, NEW n, IsFiniteSet(DOMAIN m), IsFiniteSet(DOMAIN n),
         \A key \in DOMAIN m : IsJson(m[key]), \A key \in DOMAIN n : IsJson(n[key])
  PROVE  IsJson(Obj(Merge(m, n)))
<1>1. DOMAIN Merge(m, n) = DOMAIN m \cup DOMAIN n
  BY MergeMembers
<1>2. IsFiniteSet(DOMAIN Merge(m, n))
  BY <1>1, FS_Union
<1>3. \A key \in DOMAIN Merge(m, n) : IsJson(Merge(m, n)[key])
  <2> SUFFICES ASSUME NEW key \in DOMAIN Merge(m, n) PROVE IsJson(Merge(m, n)[key])
    OBVIOUS
  <2>1. CASE key \in DOMAIN m
    BY <2>1, MergeMembers
  <2>2. CASE key \in DOMAIN n \ DOMAIN m
    <3>1. Merge(m, n)[key] = n[key]
      BY <2>2 DEF Merge
    <3> QED
      BY <2>2, <3>1
  <2> QED
    BY <1>1, <2>1, <2>2
<1>4. Merge(m, n) = [key \in DOMAIN Merge(m, n) |-> Merge(m, n)[key]]
  BY <1>1, MergedIs
<1> HIDE DEF Merge
<1> QED
  BY <1>2, <1>3, <1>4, ObjectIsJson

\* and a part of its members leaves JSON.
LEMMA WithoutIsJson ==
  ASSUME NEW v, IsJson(v), NEW keys
  PROVE  LET m == Without(AsMembers(v), keys) IN
           IsFiniteSet(DOMAIN m) /\ \A key \in DOMAIN m : IsJson(m[key])
<1> DEFINE m == AsMembers(v)
<1>1. /\ DOMAIN Without(m, keys) = DOMAIN m \ keys
      /\ \A key \in DOMAIN m \ keys : Without(m, keys)[key] = m[key]
  BY WithoutMembers
<1>2. IsFiniteSet(DOMAIN m) /\ \A key \in DOMAIN m : IsJson(m[key])
  BY WithinIsJson
<1> HIDE DEF m
<1>3. IsFiniteSet(DOMAIN m \ keys)
  BY <1>2, FS_Difference
<1> QED
  BY <1>1, <1>2, <1>3 DEF m

\* Every field of an encoded answer is JSON,
LEMMA AnswerFieldIsJson ==
  ASSUME NEW v, IsJson(v), NEW field
  PROVE  LET x == AnswerField(AsMembers(v), field) IN x = Absent \/ IsJson(x)
<1> DEFINE m == AsMembers(v)
<1>1. CASE field \notin DOMAIN m
  BY <1>1 DEF AnswerField
<1>2. \A w : IsJson(ReadNumber(w)) /\ IsJson(ReadString(w))
  BY ScalarIsJson DEF ReadNumber, ReadString
<1>3. ASSUME NEW w, IsJson(w)
      PROVE  /\ DecodedMap(w, ReadNumber) = Absent \/ IsJson(DecodedMap(w, ReadNumber))
             /\ DecodedMap(w, ReadString) = Absent \/ IsJson(DecodedMap(w, ReadString))
  <2>1. CASE ~IsA(w, "obj")
    BY <2>1 DEF DecodedMap
  <2>2. CASE IsA(w, "obj")
    <3> DEFINE ns == [key \in DOMAIN w.obj |-> ReadNumber(w.obj[key])]
               ss == [key \in DOMAIN w.obj |-> ReadString(w.obj[key])]
    <3>1. IsFiniteSet(DOMAIN w.obj)
      BY <1>3, <2>2, WithinIsJson DEF AsMembers
    <3>2. /\ DOMAIN ns = DOMAIN w.obj /\ ns = [key \in DOMAIN ns |-> ns[key]]
          /\ \A key \in DOMAIN ns : IsJson(ns[key])
      BY <1>2
    <3>3. /\ DOMAIN ss = DOMAIN w.obj /\ ss = [key \in DOMAIN ss |-> ss[key]]
          /\ \A key \in DOMAIN ss : IsJson(ss[key])
      BY <1>2
    <3>4. DecodedMap(w, ReadNumber) = Obj(ns) /\ DecodedMap(w, ReadString) = Obj(ss)
      BY <2>2 DEF DecodedMap
    <3> HIDE DEF ns, ss
    <3>5. IsJson(Obj(ns)) /\ IsJson(Obj(ss))
      BY <3>1, <3>2, <3>3, ObjectIsJson
    <3> QED
      BY <3>4, <3>5
  <2> QED
    BY <2>1, <2>2
<1>4. CASE field \in DOMAIN m
  <2>1. IsJson(m[field])
    BY <1>4, WithinIsJson
  <2>2. AnswerField(m, field) \in {ReadNumber(m[field]), ReadString(m[field]),
                                   DecodedMap(m[field], ReadNumber), DecodedMap(m[field], ReadString)}
    BY <1>4 DEF AnswerField
  <2> QED
    BY <1>2, <1>3, <2>1, <2>2
<1> QED
  BY <1>1, <1>4

\* so the answer is,
LEMMA EncodedAnswerIsJson ==
  ASSUME NEW v, IsJson(v)
  PROVE  IsJson(EncodedAnswer(DecodedAnswer(v)))
<1> DEFINE a == DecodedAnswer(v)
           kept == {f \in AnswerFields : a.fields[f] # Absent}
           k == Restrict(a.fields, kept)
<1>1. /\ a.fields = [field \in AnswerFields |-> AnswerField(AsMembers(v), field)]
      /\ a.extra = Without(AsMembers(v), AnswerFields)
  BY DEF DecodedAnswer
<1>2. IsFiniteSet(AnswerFields)
  <2>1. AnswerFields = {"noul"} \cup {"score"} \cup {"confidence"} \cup {"probabilities"}
                       \cup {"legend"} \cup {"type"} \cup {"choice"}
    BY DEF AnswerFields, AnswerNumbers, AnswerMaps
  <2> QED
    BY <2>1, FS_Singleton, FS_Union
<1>3. DOMAIN k = kept /\ \A f \in kept : k[f] = a.fields[f]
  BY <1>1 DEF Restrict
<1>4. IsFiniteSet(DOMAIN k)
  BY <1>2, <1>3, FS_Subset
<1>5. \A f \in DOMAIN k : IsJson(k[f])
  BY <1>1, <1>3, AnswerFieldIsJson
<1>6. IsFiniteSet(DOMAIN a.extra) /\ \A key \in DOMAIN a.extra : IsJson(a.extra[key])
  BY <1>1, WithoutIsJson
<1>7. EncodedAnswer(a) = Obj(Merge(k, a.extra))
  BY DEF EncodedAnswer
<1> HIDE DEF a, k
<1> QED
  BY <1>4, <1>5, <1>6, <1>7, MergedIsJson DEF a

\* and so is the evidence a reply comes to.
LEMMA EncodedResponseIsJson ==
  ASSUME NEW v, IsJson(v), ResponseDecodes(v)
  PROVE  IsJson(EncodedResponse(DecodedResponse(v)))
<1> DEFINE m == AsMembers(v)
           r == DecodedResponse(v)
           judged == [id \in DOMAIN r.answers |-> EncodedAnswer(r.answers[id])]
           tokens == r.usage.tokens
           known == [model |-> Str(r.model), answers |-> Obj(judged), usage |-> EncodedUsage(r.usage)]
<1>1. {"model", "answers", "usage"} \subseteq DOMAIN m
  BY DEF ResponseDecodes, ResponseFields
<1>2. /\ IsJson(m["answers"]) /\ IsJson(m["usage"])
  BY <1>1, WithinIsJson
<1>3. IsJson(Obj(judged))
  <2> DEFINE as == AsMembers(m["answers"])
  <2>1. r.answers = [id \in DOMAIN as |-> DecodedAnswer(as[id])]
    BY DEF DecodedResponse
  <2>2. judged = [id \in DOMAIN as |-> EncodedAnswer(DecodedAnswer(as[id]))]
    BY <2>1
  <2>3. IsFiniteSet(DOMAIN as) /\ \A id \in DOMAIN as : IsJson(as[id])
    BY <1>2, WithinIsJson
  <2>4. \A id \in DOMAIN as : IsJson(judged[id])
    BY <2>2, <2>3, EncodedAnswerIsJson
  <2> HIDE DEF as
  <2>5. DOMAIN judged = DOMAIN as /\ judged = [id \in DOMAIN judged |-> judged[id]]
    BY <2>2
  <2> HIDE DEF judged
  <2> QED
    BY <2>3, <2>4, <2>5, ObjectIsJson
<1>4. IsJson(EncodedUsage(r.usage))
  <2>1. /\ r.usage.unknown = AsMembers(m["usage"])
        /\ tokens = [f \in TokenFields |-> ReadInteger(Member(AsMembers(m["usage"]), f))]
    BY DEF DecodedResponse, DecodedUsage
  <2>2. IsFiniteSet(DOMAIN tokens) /\ \A f \in DOMAIN tokens : IsJson(tokens[f])
    <3>1. DOMAIN tokens = {"input_tokens"} \cup {"output_tokens"}
      BY <2>1 DEF TokenFields
    <3>2. IsFiniteSet({"input_tokens"}) /\ IsFiniteSet({"output_tokens"})
      BY FS_Singleton
    <3>3. \A v0 : IsJson(ReadInteger(v0))
      BY ScalarIsJson DEF ReadInteger
    <3>4. \A f \in DOMAIN tokens : IsJson(tokens[f])
      BY <2>1, <3>3
    <3> HIDE DEF tokens
    <3> QED
      BY <3>1, <3>2, <3>4, FS_Union
  <2>3. EncodedUsage(r.usage) = Obj(Merge(tokens, AsMembers(m["usage"])))
    BY <2>1 DEF EncodedUsage
  <2>4. /\ IsFiniteSet(DOMAIN AsMembers(m["usage"]))
        /\ \A key \in DOMAIN AsMembers(m["usage"]) : IsJson(AsMembers(m["usage"])[key])
    BY <1>2, WithinIsJson
  <2> HIDE DEF tokens
  <2> QED
    BY <2>2, <2>3, <2>4, MergedIsJson
<1>5. IsFiniteSet(DOMAIN known) /\ \A key \in DOMAIN known : IsJson(known[key])
  <2>1. DOMAIN known = {"model"} \cup {"answers"} \cup {"usage"}
    OBVIOUS
  <2>2. IsFiniteSet(DOMAIN known)
    <3>1. IsFiniteSet({"model"}) /\ IsFiniteSet({"answers"}) /\ IsFiniteSet({"usage"})
      BY FS_Singleton
    <3>2. IsFiniteSet({"model"} \cup {"answers"})
      BY <3>1, FS_Union
    <3>3. IsFiniteSet(({"model"} \cup {"answers"}) \cup {"usage"})
      BY <3>1, <3>2, FS_Union
    <3> HIDE DEF known
    <3> QED
      BY <2>1, <3>3
  <2>3. IsJson(known["model"]) /\ IsJson(known["answers"]) /\ IsJson(known["usage"])
    BY <1>3, <1>4, ScalarIsJson
  <2> HIDE DEF known
  <2> QED
    BY <2>1, <2>2, <2>3
<1>6. IsFiniteSet(DOMAIN r.extra) /\ \A key \in DOMAIN r.extra : IsJson(r.extra[key])
  <2>1. r.extra = Without(m, ResponseFields)
    BY DEF DecodedResponse
  <2> QED
    BY <2>1, WithoutIsJson
<1>7. EncodedResponse(r) = Obj(Merge(known, r.extra))
  BY DEF EncodedResponse
<1> HIDE DEF r, known
<1> QED
  BY <1>5, <1>6, <1>7, MergedIsJson DEF r

\* The evidence a record holds is finitely many values.
LEMMA EvidenceOfIsJson ==
  ASSUME NEW v, IsJson(v)
  PROVE  LET e == EvidenceOf(v) IN
           /\ IsFiniteSet(DOMAIN e)
           /\ e = [key \in DOMAIN e |-> e[key]]
           /\ \A key \in DOMAIN e : IsJson(e[key])
<1> DEFINE m == AsMembers(v)
<1>1. CASE "_jeq" \in DOMAIN m
  <2>1. IsJson(m["_jeq"])
    BY <1>1, WithinIsJson
  <2>2. EvidenceOf(v) = AsMembers(m["_jeq"])
    BY <1>1 DEF EvidenceOf, Member
  <2> QED
    BY <2>1, <2>2, WithinIsJson
<1>2. CASE "_jeq" \notin DOMAIN m
  <2>1. EvidenceOf(v) = <<>>
    BY <1>2, Kinds DEF EvidenceOf, Member, AsMembers
  <2>2. DOMAIN <<>> = {} /\ <<>> = [key \in {} |-> <<>>[key]]
    BY NoMembers
  <2> QED
    BY <2>1, <2>2, FS_EmptySet
<1> QED
  BY <1>1, <1>2

\* A record with a piece of evidence attached is JSON.
LEMMA AttachedIsJson ==
  ASSUME NEW v, IsJson(v), IsA(v, "obj"), NEW name, NEW evidence, IsJson(evidence)
  PROVE  IsJson(Attach(v, name, evidence))
<1> DEFINE F == Field(name, evidence)
           E == Obj(Merge(F, EvidenceOf(v)))
           G == Field("_jeq", E)
<1>1. \A key, x : IsJson(x) => /\ IsFiniteSet(DOMAIN Field(key, x))
                               /\ \A k \in DOMAIN Field(key, x) : IsJson(Field(key, x)[k])
  <2> SUFFICES ASSUME NEW key, NEW x, IsJson(x)
               PROVE  /\ IsFiniteSet(DOMAIN Field(key, x))
                      /\ \A k \in DOMAIN Field(key, x) : IsJson(Field(key, x)[k])
    OBVIOUS
  <2>1. x # Absent
    BY WithinIsJson
  <2>2. DOMAIN Field(key, x) = {key} /\ Field(key, x)[key] = x
    BY <2>1, FieldMembers
  <2> QED
    BY <2>2, FS_Singleton
<1>2. IsJson(E)
  <2>1. IsFiniteSet(DOMAIN F) /\ \A k \in DOMAIN F : IsJson(F[k])
    BY <1>1
  <2>2. IsFiniteSet(DOMAIN EvidenceOf(v)) /\ \A k \in DOMAIN EvidenceOf(v) : IsJson(EvidenceOf(v)[k])
    BY EvidenceOfIsJson
  <2> HIDE DEF F
  <2> QED
    BY <2>1, <2>2, MergedIsJson
<1>3. IsFiniteSet(DOMAIN G) /\ \A k \in DOMAIN G : IsJson(G[k])
  BY <1>1, <1>2
<1>4. IsFiniteSet(DOMAIN v.obj) /\ \A k \in DOMAIN v.obj : IsJson(v.obj[k])
  BY WithinIsJson DEF AsMembers
<1>5. Attach(v, name, evidence) = Obj(Merge(G, v.obj))
  BY DEF Attach
<1> HIDE DEF G
<1> QED
  BY <1>3, <1>4, <1>5, MergedIsJson

\* Attaching adds one name to the evidence and touches nothing else.
LEMMA AttachMembers ==
  ASSUME NEW v, IsJson(v), NEW name, SlotFree(v, name), NEW evidence, IsJson(evidence)
  PROVE  LET w == Attach(v, name, evidence) IN
           /\ Without(w.obj, {"_jeq"}) = Without(v.obj, {"_jeq"})
           /\ Without(EvidenceOf(w), {name}) = EvidenceOf(v)
           /\ name \in DOMAIN EvidenceOf(w)
           /\ EvidenceOf(w) = Merge(Field(name, evidence), EvidenceOf(v))
<1> DEFINE e == EvidenceOf(v)
           f == Merge(Field(name, evidence), e)
           G == Field("_jeq", Obj(f))
           n == Merge(G, v.obj)
<1>1. Attach(v, name, evidence).obj = n /\ IsA(Attach(v, name, evidence), "obj")
  BY Kinds DEF Attach
<1>2. DOMAIN G = {"_jeq"} /\ G["_jeq"] = Obj(f)
  BY FieldMembers, Kinds
<1>3. /\ DOMAIN n = {"_jeq"} \cup DOMAIN v.obj
      /\ n["_jeq"] = Obj(f)
      /\ \A key \in DOMAIN v.obj \ {"_jeq"} : n[key] = v.obj[key]
  <2> HIDE DEF G
  <2> QED
    BY <1>2 DEF Merge
<1>4. EvidenceOf(Attach(v, name, evidence)) = f
  <2> HIDE DEF n, f
  <2> QED
    BY <1>1, <1>3, Kinds DEF EvidenceOf, AsMembers, Member
<1>5. Without(n, {"_jeq"}) = Without(v.obj, {"_jeq"})
  <2>1. DOMAIN n \ (DOMAIN n \cap {"_jeq"}) = DOMAIN v.obj \ {"_jeq"}
    BY <1>3
  <2> HIDE DEF n
  <2>2. DOMAIN n \cap (DOMAIN n \ {"_jeq"}) = DOMAIN v.obj \cap (DOMAIN v.obj \ {"_jeq"})
    BY <1>3
  <2> QED
    BY <2>2, <1>3 DEF Without, Restrict
<1>6. evidence # Absent
  BY WithinIsJson
<1>7. /\ DOMAIN f = {name} \cup DOMAIN e
      /\ f[name] = evidence
      /\ \A key \in DOMAIN e \ {name} : f[key] = e[key]
  <2>1. DOMAIN Field(name, evidence) = {name} /\ Field(name, evidence)[name] = evidence
    BY <1>6, FieldMembers
  <2> HIDE DEF e
  <2> QED
    BY <2>1 DEF Merge
<1>8. name \notin DOMAIN e
  BY DEF SlotFree
<1>9. Without(f, {name}) = e
  <2> HIDE DEF e, f
  <2>1. e = [key \in DOMAIN e |-> e[key]]
    BY EvidenceOfIsJson DEF e
  <2>2. DOMAIN f \ {name} = DOMAIN e
    BY <1>7, <1>8
  <2> QED
    BY <2>1, <2>2, <1>7 DEF Without, Restrict
<1> HIDE DEF n, f
<1> QED
  BY <1>1, <1>4, <1>5, <1>7, <1>9 DEF f

------------------------------------------------------------------------------
(* What decoding a reply and encoding it again returns.                    *)

\* A float64 field keeps its float64,
LEMMA NumberReturns ==
  ASSUME NEW v \in Json, IsNumber(v)
  PROVE  FieldKept(ReadNumber(v), v)
<1>1. CASE v = Null
  BY <1>1 DEF FieldKept, IsA, Null
<1>2. CASE v # Null
  <2> DEFINE f == Float64(v.num)
  <2>1. IsA(v, "num")
    BY <1>2 DEF IsNumber, Fits
  <2>2. v = Num(v.num)
    BY <2>1, JsonAssumption DEF Closed
  <2>3. ReadNumber(v) = Num(Decimal(f)) /\ Float64(Decimal(f)) = f
    BY <2>1, ResponsesAssumption DEF ReadNumber
  <2>4. IsA(Num(Decimal(f)), "num") /\ Num(Decimal(f)).num = Decimal(f)
    BY DEF IsA, Num
  <2> QED
    BY <2>1, <2>2, <2>3, <2>4 DEF FieldKept, SameFloat
<1> QED
  BY <1>1, <1>2

\* a counter does while an int64 holds it,
LEMMA CounterReturns ==
  ASSUME NEW v \in Json
  PROVE  CounterKept(ReadInteger(v), v)
<1> DEFINE f == Float64(v.num)
<1> SUFFICES ASSUME IsA(v, "num"), IsInt64(f)
             PROVE  SameFloat(ReadInteger(v), v, f # v.num)
  BY DEF CounterKept
<1>1. v = Num(v.num) /\ Float64(f) = f
  BY JsonAssumption, ResponsesAssumption DEF Closed
<1>2. ReadInteger(v) = Num(f)
  BY DEF ReadInteger
<1>3. IsA(Num(f), "num") /\ Num(f).num = f
  BY DEF IsA, Num
<1> QED
  BY <1>1, <1>2, <1>3 DEF SameFloat

\* a string does,
LEMMA StringReturns ==
  ASSUME NEW v \in Json, IsString(v)
  PROVE  FieldKept(ReadString(v), v)
<1>1. CASE v = Null
  BY <1>1 DEF FieldKept, IsA, Null
<1>2. CASE v # Null
  <2>1. IsA(v, "str")
    BY <1>2 DEF IsString, Fits
  <2>2. v = Str(v.str)
    BY <2>1, JsonAssumption DEF Closed
  <2>3. ReadString(v) = v /\ ~IsA(v, "num")
    BY <2>1, <2>2 DEF ReadString, AsString, IsA, Str
  <2> QED
    BY <2>3 DEF FieldKept
<1> QED
  BY <1>1, <1>2

\* a map of probabilities or legends does, but for its nulls,
LEMMA MapReturns ==
  ASSUME NEW v \in Json, v # Null
  PROVE  /\ NumbersFit(v) => LET w == DecodedMap(v, ReadNumber) IN
              /\ w # Absent /\ DOMAIN w.obj = DOMAIN v.obj
              /\ \A key \in DOMAIN v.obj : FieldKept(w.obj[key], v.obj[key])
         /\ StringsFit(v) => LET w == DecodedMap(v, ReadString) IN
              /\ w # Absent /\ DOMAIN w.obj = DOMAIN v.obj
              /\ \A key \in DOMAIN v.obj : FieldKept(w.obj[key], v.obj[key])
<1>0. ASSUME IsA(v, "obj")
      PROVE  \A key \in DOMAIN v.obj : v.obj[key] \in Json /\ v.obj[key] \in Range(v.obj)
  BY <1>0, JsonAssumption DEF Closed, Range
<1>1. ASSUME NumbersFit(v)
      PROVE  LET w == DecodedMap(v, ReadNumber) IN
               /\ w # Absent /\ DOMAIN w.obj = DOMAIN v.obj
               /\ \A key \in DOMAIN v.obj : FieldKept(w.obj[key], v.obj[key])
  <2> DEFINE n == [key \in DOMAIN v.obj |-> ReadNumber(v.obj[key])]
  <2>1. IsA(v, "obj") /\ AsMembers(v) = v.obj
    BY <1>1 DEF NumbersFit, Fits, AsMembers
  <2>2. \A key \in DOMAIN v.obj : IsNumber(v.obj[key]) /\ v.obj[key] \in Json
    BY <1>0, <1>1, <2>1 DEF NumbersFit
  <2>3. \A key \in DOMAIN v.obj : FieldKept(ReadNumber(v.obj[key]), v.obj[key])
    BY <2>2, NumberReturns
  <2>4. DecodedMap(v, ReadNumber) = Obj(n)
    BY <2>1 DEF DecodedMap
  <2>5. DOMAIN n = DOMAIN v.obj /\ \A key \in DOMAIN v.obj : FieldKept(n[key], v.obj[key])
    BY <2>3
  <2> HIDE DEF n
  <2> QED
    BY <2>4, <2>5, Kinds
<1>2. ASSUME StringsFit(v)
      PROVE  LET w == DecodedMap(v, ReadString) IN
               /\ w # Absent /\ DOMAIN w.obj = DOMAIN v.obj
               /\ \A key \in DOMAIN v.obj : FieldKept(w.obj[key], v.obj[key])
  <2> DEFINE n == [key \in DOMAIN v.obj |-> ReadString(v.obj[key])]
  <2>1. IsA(v, "obj") /\ AsMembers(v) = v.obj
    BY <1>2 DEF StringsFit, Fits, AsMembers
  <2>2. \A key \in DOMAIN v.obj : IsString(v.obj[key]) /\ v.obj[key] \in Json
    BY <1>0, <1>2, <2>1 DEF StringsFit
  <2>3. \A key \in DOMAIN v.obj : FieldKept(ReadString(v.obj[key]), v.obj[key])
    BY <2>2, StringReturns
  <2>4. DecodedMap(v, ReadString) = Obj(n)
    BY <2>1 DEF DecodedMap
  <2>5. DOMAIN n = DOMAIN v.obj /\ \A key \in DOMAIN v.obj : FieldKept(n[key], v.obj[key])
    BY <2>3
  <2> HIDE DEF n
  <2> QED
    BY <2>4, <2>5, Kinds
<1> QED
  BY <1>1, <1>2

\* and with them every member of an answer.
LEMMA AnswerReturns ==
  ASSUME NEW v \in Json, AnswerDecodes(v)
  PROVE  IsTheAnswer(EncodedAnswer(DecodedAnswer(v)).obj, v.obj)
<1> DEFINE m == v.obj
           a == DecodedAnswer(v)
           kept == {f \in AnswerFields : a.fields[f] # Absent}
           k == Restrict(a.fields, kept)
           n == Merge(k, a.extra)
<1>1. a.fields = [field \in AnswerFields |-> AnswerField(AsMembers(v), field)]
      /\ a.extra = Without(AsMembers(v), AnswerFields)
  BY DEF DecodedAnswer
<1>2. IsA(v, "obj") /\ AsMembers(v) = m
  <2> SUFFICES ASSUME ~IsA(v, "obj") PROVE FALSE
    BY DEF AsMembers
  <2>1. DOMAIN AsMembers(v) = {}
    BY NoMembers DEF AsMembers
  <2>2. a.fields["type"] = Absent
    BY <1>1, <2>1 DEF AnswerField, AnswerFields
  <2>3. AnswerType(a) = ""
    BY <2>2, Kinds DEF AnswerType, AsString
  <2> QED
    BY <2>3 DEF AnswerDecodes, Types
<1> HIDE DEF m
<1>3. \A key \in DOMAIN m : m[key] \in Json
  BY <1>2, JsonAssumption DEF Closed, m
<1>4. DOMAIN k = kept /\ \A f \in kept : k[f] = a.fields[f]
  BY <1>1 DEF Restrict
<1>5. DOMAIN a.extra = DOMAIN m \ AnswerFields
      /\ \A key \in DOMAIN m \ AnswerFields : a.extra[key] = m[key]
  <2>1. a.extra = Without(m, AnswerFields)
    BY <1>1, <1>2
  <2>2. DOMAIN Without(m, AnswerFields) = DOMAIN m \ AnswerFields
        /\ \A key \in DOMAIN m \ AnswerFields : Without(m, AnswerFields)[key] = m[key]
    BY WithoutMembers
  <2> HIDE DEF a
  <2> QED
    BY <2>1, <2>2
<1>6. EncodedAnswer(a).obj = n
  BY Kinds DEF EncodedAnswer
<1>7. \A f \in AnswerFields : a.fields[f] = AnswerField(m, f)
  BY <1>1, <1>2
<1>8. kept \subseteq DOMAIN m
  BY <1>7 DEF AnswerField
<1>9. /\ DOMAIN n = kept \cup (DOMAIN m \ AnswerFields)
      /\ \A f \in kept : n[f] = AnswerField(m, f)
      /\ \A key \in DOMAIN m \ AnswerFields : n[key] = m[key]
  <2> HIDE DEF k, kept, a
  <2>1. kept \subseteq AnswerFields
    BY DEF kept
  <2>2. /\ DOMAIN n = DOMAIN k \cup DOMAIN a.extra
        /\ \A f \in DOMAIN k : n[f] = k[f]
        /\ \A f \in DOMAIN a.extra \ DOMAIN k : n[f] = a.extra[f]
    BY MergeMembers
  <2> HIDE DEF n
  <2> QED
    BY <1>4, <1>5, <1>7, <2>1, <2>2
<1>10. /\ \A f \in AnswerNumbers : f \in DOMAIN m => IsNumber(m[f])
       /\ \A f \in {"type", "choice"} : f \in DOMAIN m => IsString(m[f])
       /\ "probabilities" \in DOMAIN m => NumbersFit(m["probabilities"])
       /\ "legend" \in DOMAIN m => StringsFit(m["legend"])
  BY <1>2 DEF AnswerDecodes, If
<1>11. ASSUME NEW f \in AnswerFields \ AnswerMaps, f \in DOMAIN m
       PROVE  f \in kept /\ FieldKept(n[f], m[f])
  <2>1. CASE f \in AnswerNumbers
    <3>1. AnswerField(m, f) = ReadNumber(m[f])
      BY <2>1, <1>11 DEF AnswerField, AnswerNumbers
    <3>2. FieldKept(ReadNumber(m[f]), m[f])
      BY <2>1, <1>3, <1>10, <1>11, NumberReturns
    <3>3. ReadNumber(m[f]) # Absent
      BY Kinds DEF ReadNumber
    <3>4. f \in kept
      BY <1>7, <3>1, <3>3
    <3> HIDE DEF n, kept
    <3> QED
      BY <1>9, <3>1, <3>2, <3>4
  <2>2. CASE f \in {"type", "choice"}
    <3>1. AnswerField(m, f) = ReadString(m[f])
      BY <2>2, <1>11 DEF AnswerField, AnswerNumbers
    <3>2. FieldKept(ReadString(m[f]), m[f])
      BY <2>2, <1>3, <1>10, <1>11, StringReturns
    <3>3. ReadString(m[f]) # Absent
      BY Kinds DEF ReadString
    <3>4. f \in kept
      BY <1>7, <3>1, <3>3
    <3> HIDE DEF n, kept
    <3> QED
      BY <1>9, <3>1, <3>2, <3>4
  <2> QED
    BY <2>1, <2>2 DEF AnswerFields
<1>12. ASSUME NEW f \in AnswerMaps, f \in DOMAIN m, m[f] # Null
       PROVE  /\ DOMAIN n[f].obj = DOMAIN m[f].obj
              /\ \A key \in DOMAIN m[f].obj : FieldKept(n[f].obj[key], m[f].obj[key])
  <2>1. f \in AnswerFields /\ m[f] \in Json
    BY <1>3, <1>12 DEF AnswerFields
  <2> DEFINE w == AnswerField(m, f)
  <2>2. /\ w # Absent /\ DOMAIN w.obj = DOMAIN m[f].obj
        /\ \A key \in DOMAIN m[f].obj : FieldKept(w.obj[key], m[f].obj[key])
    <3>1. CASE f = "probabilities"
      <4>1. w = DecodedMap(m[f], ReadNumber)
        BY <3>1, <1>12 DEF AnswerField, AnswerNumbers
      <4> HIDE DEF w
      <4> QED
        BY <2>1, <3>1, <4>1, <1>10, <1>12, MapReturns
    <3>2. CASE f = "legend"
      <4>1. w = DecodedMap(m[f], ReadString)
        BY <3>2, <1>12 DEF AnswerField, AnswerNumbers
      <4> HIDE DEF w
      <4> QED
        BY <2>1, <3>2, <4>1, <1>10, <1>12, MapReturns
    <3> QED
      BY <3>1, <3>2 DEF AnswerMaps
  <2>3. f \in kept
    BY <1>7, <2>1, <2>2
  <2> HIDE DEF n, kept
  <2>4. n[f] = w
    BY <1>9, <2>3
  <2> HIDE DEF w
  <2> QED
    BY <2>2, <2>4
<1> HIDE DEF a, n, kept
<1>13. DOMAIN n \subseteq DOMAIN m
  BY <1>8, <1>9
<1>14. \A key \in DOMAIN m \ AnswerFields : n[key] = m[key]
  BY <1>9
<1>15. \A key \in (DOMAIN m \cap AnswerFields) \ AnswerMaps :
         key \in DOMAIN n /\ FieldKept(n[key], m[key])
  BY <1>9, <1>11
<1>16. \A key \in DOMAIN m \cap AnswerMaps : m[key] # Null =>
         /\ DOMAIN n[key].obj = DOMAIN m[key].obj
         /\ \A k0 \in DOMAIN m[key].obj : FieldKept(n[key].obj[k0], m[key].obj[k0])
  BY <1>12
<1>17. IsTheAnswer(n, m)
  BY <1>13, <1>14, <1>15, <1>16, Zenon DEF IsTheAnswer
<1> QED
  BY <1>6, <1>17 DEF a, m

\* The evidence a reply comes to is the reply: IsTheReply of the two.
LEMMA ReplyReturns ==
  ASSUME NEW v \in Json, ResponseDecodes(v)
  PROVE  IsTheReply(EncodedResponse(DecodedResponse(v)).obj, v.obj)
<1> DEFINE m == v.obj
           r == DecodedResponse(v)
           u == AsMembers(m["usage"])
           as == AsMembers(m["answers"])
           judged == [id \in DOMAIN as |-> EncodedAnswer(DecodedAnswer(as[id]))]
           tokens == [f \in TokenFields |-> ReadInteger(Member(u, f))]
           usage == Merge(tokens, u)
           known == [model |-> m["model"], answers |-> Obj(judged), usage |-> Obj(usage)]
           n == Merge(known, r.extra)
<1>1. IsA(v, "obj") /\ AsMembers(v) = m
  BY DEF ResponseDecodes, AsMembers
<1>2. {"model", "answers", "usage"} \subseteq DOMAIN m
  BY <1>1 DEF ResponseDecodes, ResponseFields
<1>3. m["model"] \in Json /\ m["answers"] \in Json /\ m["usage"] \in Json
  BY <1>1, <1>2, JsonAssumption DEF Closed
<1>4. Str(r.model) = m["model"]
  <2>1. IsA(m["model"], "str")
    BY <1>1 DEF ResponseDecodes
  <2>2. r.model = m["model"].str
    BY <1>1 DEF DecodedResponse
  <2> QED
    BY <1>3, <2>1, <2>2, JsonAssumption DEF Closed
<1>5. r.extra = Without(m, ResponseFields)
  BY <1>1 DEF DecodedResponse
<1>6. EncodedResponse(r) = Obj(n)
  <2>1. r.answers = [id \in DOMAIN as |-> DecodedAnswer(as[id])] /\ r.usage = DecodedUsage(m["usage"])
    BY <1>1 DEF DecodedResponse
  <2>2. [id \in DOMAIN r.answers |-> EncodedAnswer(r.answers[id])] = judged
    BY <2>1
  <2>3. EncodedUsage(r.usage) = Obj(usage)
    <3>1. r.usage.unknown = u /\ r.usage.tokens = tokens
      BY <2>1 DEF DecodedUsage
    <3> QED
      BY <3>1 DEF EncodedUsage
  <2> HIDE DEF judged, usage
  <2> QED
    BY <1>4, <2>2, <2>3 DEF EncodedResponse
<1>7. /\ DOMAIN n = {"model", "answers", "usage"} \cup (DOMAIN m \ ResponseFields)
      /\ n["model"] = m["model"] /\ n["answers"] = Obj(judged) /\ n["usage"] = Obj(usage)
      /\ \A key \in DOMAIN m \ ResponseFields : n[key] = m[key]
  <2>1. /\ DOMAIN known = {"model", "answers", "usage"}
        /\ known["model"] = m["model"] /\ known["answers"] = Obj(judged)
        /\ known["usage"] = Obj(usage)
    OBVIOUS
  <2>2. /\ DOMAIN Without(m, ResponseFields) = DOMAIN m \ ResponseFields
        /\ \A key \in DOMAIN m \ ResponseFields : Without(m, ResponseFields)[key] = m[key]
    BY WithoutMembers
  <2>3. /\ DOMAIN n = DOMAIN known \cup DOMAIN r.extra
        /\ \A key \in DOMAIN known : n[key] = known[key]
        /\ \A key \in DOMAIN r.extra \ DOMAIN known : n[key] = r.extra[key]
    BY MergeMembers
  <2>4. ResponseFields = {"model", "answers", "usage"}
    BY DEF ResponseFields
  <2> HIDE DEF known, n, r, m, judged, usage
  <2> QED
    BY <1>5, <2>1, <2>2, <2>3, <2>4
<1>8. DOMAIN n = DOMAIN m
  <2> HIDE DEF n, m
  <2> QED
    BY <1>2, <1>7 DEF ResponseFields
<1>9. \A key \in DOMAIN m \ {"answers", "usage"} : n[key] = m[key]
  <2> HIDE DEF n, m
  <2> QED
    BY <1>7 DEF ResponseFields
<1>10. DOMAIN usage = TokenFields \cup DOMAIN u
  <2>1. DOMAIN tokens = TokenFields
    OBVIOUS
  <2> HIDE DEF tokens, u
  <2> QED
    BY <2>1, MergeMembers
<1>11. /\ \A key \in DOMAIN u \ TokenFields : usage[key] = u[key]
       /\ \A key \in DOMAIN u \cap TokenFields : CounterKept(usage[key], u[key])
  <2>1. DOMAIN tokens = TokenFields
        /\ \A key \in DOMAIN u \cap TokenFields : tokens[key] = ReadInteger(u[key])
    BY DEF Member
  <2>2. \A key \in DOMAIN u : u[key] \in Json
    BY <1>3, NoMembers, JsonAssumption DEF AsMembers, Closed
  <2> HIDE DEF tokens, u
  <2>3. /\ \A key \in DOMAIN u \ TokenFields : usage[key] = u[key]
        /\ \A key \in TokenFields : usage[key] = tokens[key]
    BY <2>1 DEF Merge
  <2> HIDE DEF usage
  <2> QED
    BY <2>1, <2>2, <2>3, CounterReturns
<1>12. \A id \in DOMAIN as : IsTheAnswer(judged[id].obj, as[id].obj)
  <2>1. \A id \in DOMAIN as : as[id] \in Json
    BY <1>3, NoMembers, JsonAssumption DEF AsMembers, Closed
  <2>2. \A id \in DOMAIN as : AnswerDecodes(as[id])
    <3>1. \A id \in DOMAIN as : as[id] \in Range(as)
      BY DEF Range
    <3>2. \A x \in Range(as) : AnswerDecodes(x)
      BY <1>1 DEF ResponseDecodes, AnswersDecode
    <3> QED
      BY <3>1, <3>2
  <2> HIDE DEF as
  <2> QED
    BY <2>1, <2>2, AnswerReturns
<1>13. DOMAIN judged = DOMAIN as
  OBVIOUS
<1> HIDE DEF n, m, usage, u, as, judged, r
<1>14. n["usage"].obj = usage /\ n["answers"].obj = judged
  BY <1>7, Kinds
<1>15. IsTheReply(n, m)
  BY <1>8, <1>9, <1>10, <1>11, <1>12, <1>13, <1>14 DEF IsTheReply, u, as
<1> QED
  BY <1>6, <1>15, Kinds DEF m, r

\* Encoding a request and decoding it again changes nothing the rules look at.
LEMMA RulesOutlastEncoding ==
  ASSUME NEW r, RequestEncodes(r), r.state # Absent,
         \A id \in DOMAIN r.questions : QuestionFields \cap DOMAIN r.questions[id].extra = {}
  PROVE  Violations(DecodedRequest(EncodedRequest(r))) = Violations(r)
<1> DEFINE v == EncodedRequest(r)
           d == DecodedRequest(v)
           qs == r.questions
<1>1. /\ IsA(v, "obj") /\ AsMembers(v) = v.obj
      /\ "state" \in DOMAIN v.obj /\ v.obj["state"] = r.state
      /\ "questions" \in DOMAIN v.obj /\ v.obj["questions"] = EncodedQuestions(qs)
  BY EncodedMembers, Kinds DEF EncodedRequest, AsMembers
<1>2. d.state = r.state /\ d.questions = DecodedQuestions(EncodedQuestions(qs))
  BY <1>1 DEF DecodedRequest, Member
<1>3. /\ DOMAIN d.questions = DOMAIN qs
      /\ \A id \in DOMAIN qs : d.questions[id] = DecodedQuestion(EncodedQuestion(qs[id]))
  <2>1. AsMembers(EncodedQuestions(qs)) = [id \in DOMAIN qs |-> EncodedQuestion(qs[id])]
    BY Kinds DEF EncodedQuestions, AsMembers
  <2> QED
    BY <1>2, <2>1 DEF DecodedQuestions
<1>4. ASSUME NEW q, QuestionFields \cap DOMAIN q.extra = {}
      PROVE  QuestionViolations(DecodedQuestion(EncodedQuestion(q))) = QuestionViolations(q)
  <2> DEFINE K == KnownQuestion(q)
             m == Merge(K, q.extra)
             p == DecodedQuestion(EncodedQuestion(q))
  <2>1. AsMembers(EncodedQuestion(q)) = m
    BY Kinds DEF EncodedQuestion, AsMembers
  <2>2. /\ p.type = AsString(Member(m, "type"))
        /\ p.instructions = Member(m, "instructions")
        /\ p.criteria = Member(m, "criteria")
    BY <2>1 DEF DecodedQuestion
  <2>3. /\ DOMAIN K = {"type"} \cup (IF q.instructions = Absent THEN {} ELSE {"instructions"})
                               \cup (IF q.criteria = Absent THEN {} ELSE {"criteria"})
        /\ K["type"] = Str(q.type)
        /\ q.instructions # Absent => K["instructions"] = q.instructions
        /\ q.criteria # Absent => K["criteria"] = q.criteria
    BY KnownQuestionMembers
  <2>4. \A field \in QuestionFields : Member(m, field) = Member(K, field)
    <3> HIDE DEF K
    <3> QED
      BY <1>4 DEF Member, Merge
  <2>5. "type" \in QuestionFields /\ "instructions" \in QuestionFields /\ "criteria" \in QuestionFields
    BY DEF QuestionFields
  <2> HIDE DEF K, m
  <2>6. Member(K, "type") = Str(q.type) /\ Member(K, "instructions") = q.instructions
        /\ Member(K, "criteria") = q.criteria
    BY <2>3 DEF Member
  <2>7. p.type = q.type /\ p.instructions = q.instructions /\ p.criteria = q.criteria
    BY <2>2, <2>4, <2>5, <2>6, Kinds DEF AsString
  <2> HIDE DEF p
  <2>8. QuestionViolations(p) = QuestionViolations(q)
    BY <2>7 DEF QuestionViolations
  <2> QED
    BY <2>8 DEF p
<1>5. \A id \in DOMAIN qs : QuestionViolations(d.questions[id]) = QuestionViolations(qs[id])
  BY <1>3, <1>4
<1> HIDE DEF d
<1>6. {QuestionViolations(d.questions[id]) : id \in DOMAIN d.questions}
        = {QuestionViolations(qs[id]) : id \in DOMAIN qs}
  BY <1>3, <1>5
<1>7. {rule \in RequestRules :
          \/ rule = "state_non_empty" /\ EmptyValue(d.state)
          \/ rule = "questions_non_empty" /\ DOMAIN d.questions = {}}
        = {rule \in RequestRules :
          \/ rule = "state_non_empty" /\ EmptyValue(r.state)
          \/ rule = "questions_non_empty" /\ DOMAIN r.questions = {}}
  BY <1>2, <1>3
<1>8. Violations(d) = Violations(r)
  BY <1>6, <1>7 DEF Violations
<1> QED
  BY <1>8 DEF d

------------------------------------------------------------------------------
(* Cutting a text: trimmed lines, and the k-th of a finite set of numbers. *)

\* A bounded set of numbers that is not empty has a greatest one.
LEMMA GreatestExists ==
  ASSUME NEW n \in Nat, NEW S, S \subseteq 0 .. n, S # {}
  PROVE  Max(S) \in S /\ \A j \in S : j <= Max(S)
<1> DEFINE T == {n - i : i \in S}
<1>1. T \subseteq Nat /\ T # {}
  <2>1. \A i \in S : n - i \in Nat
    OBVIOUS
  <2> QED
    BY <2>1
<1>2. Min(T) \in T /\ \A j \in T : Min(T) <= j
  <2> HIDE DEF T
  <2> QED
    BY <1>1, LeastExists
<1>3. PICK x \in S : Min(T) = n - x
  BY <1>2
<1>4. \A j \in S : x >= j
  <2> SUFFICES ASSUME NEW j \in S PROVE x >= j
    OBVIOUS
  <2>1. n - j \in T /\ j \in Int /\ x \in Int
    OBVIOUS
  <2>2. n - x <= n - j
    BY <1>2, <1>3, <2>1
  <2> QED
    BY <2>1, <2>2
<1>5. \A i, j \in S : i \in Int /\ j \in Int
  OBVIOUS
<1>6. Max(S) \in S /\ \A j \in S : Max(S) >= j
  BY <1>4 DEF Max
<1>7. \A m \in S : (\A j \in S : m >= j) => \A j \in S : j <= m
  BY <1>5
<1> QED
  BY <1>6, <1>7, Zenon

\* Trimming cuts a text and never lengthens it.
LEMMA TrimmedIsText ==
  ASSUME NEW S, NEW text \in Seq(S)
  PROVE  /\ Trimmed(text) \in Seq(S)
         /\ Len(Trimmed(text)) <= Len(text)
<1> DEFINE solid == {i \in DOMAIN text : text[i] \notin White}
<1>1. solid \subseteq 0 .. Len(text) /\ solid \subseteq 1 .. Len(text) /\ Len(text) \in Nat
  OBVIOUS
<1>2. CASE solid = {}
  <2>1. Trimmed(text) = <<>>
    BY <1>2 DEF Trimmed
  <2> QED
    BY <2>1, <1>1
<1>3. CASE solid # {}
  <2> DEFINE a == Min(solid)
             b == Max(solid)
  <2>1. Trimmed(text) = SubSeq(text, a, b)
    BY <1>3 DEF Trimmed
  <2> HIDE DEF solid
  <2>2. a \in 1 .. Len(text) /\ b \in 1 .. Len(text)
    <3>1. solid \subseteq Nat
      BY <1>1
    <3>2. a \in solid
      BY <1>3, <3>1, LeastExists
    <3>3. b \in solid
      BY <1>1, <1>3, GreatestExists
    <3> QED
      BY <1>1, <3>2, <3>3
  <2> HIDE DEF a, b
  <2>3. \A i \in a .. b : text[i] \in S
    BY <2>2
  <2>4. SubSeq(text, a, b) \in Seq(S) /\ Len(SubSeq(text, a, b)) = IF a <= b THEN b - a + 1 ELSE 0
    BY <2>2, <2>3, SubSeqProperties
  <2> QED
    BY <1>1, <2>1, <2>2, <2>4
<1> QED
  BY <1>2, <1>3

\* A line of a text is one of its pieces.
LEMMA LineIsText ==
  ASSUME NEW S, NEW text \in Seq(S), NEW start \in 0 .. Len(text)
  PROVE  LineAt(text, start) \in Seq(S)
<1> DEFINE ends == {i \in start + 1 .. Len(text) : text[i] = Newline}
           b == IF ends = {} THEN Len(text) ELSE Min(ends) - 1
<1>1. LineAt(text, start) = SubSeq(text, start + 1, b)
  BY DEF LineAt
<1>2. b \in start .. Len(text)
  <2>1. ends \subseteq Nat /\ ends \subseteq start + 1 .. Len(text) /\ Len(text) \in Nat
    OBVIOUS
  <2> HIDE DEF ends
  <2>2. ends # {} => Min(ends) \in ends
    BY <2>1, LeastExists
  <2>3. ends # {} => Min(ends) \in start + 1 .. Len(text)
    BY <2>1, <2>2
  <2>4. start \in Nat
    BY <2>1
  <2>5. CASE ends = {}
    BY <2>1, <2>4, <2>5
  <2>6. CASE ends # {}
    <3> DEFINE e == Min(ends)
    <3> HIDE DEF e
    <3>1. e - 1 \in start .. Len(text)
      BY <2>1, <2>3, <2>4, <2>6 DEF e
    <3> QED
      BY <2>6, <3>1 DEF e
  <2> QED
    BY <2>5, <2>6
<1> HIDE DEF b
<1>3. \A i \in start + 1 .. b : text[i] \in S
  BY <1>2
<1> QED
  BY <1>1, <1>2, <1>3, SubSeqProperties

\* The lines that hold a record are finitely many.
LEMMA RecordStartsAre ==
  ASSUME NEW S, NEW text \in Seq(S)
  PROVE  /\ RecordStarts(text) \subseteq 0 .. Len(text)
         /\ RecordStarts(text) \subseteq Nat
         /\ IsFiniteSet(RecordStarts(text))
         /\ Cardinality(RecordStarts(text)) \in Nat
<1>1. RecordStarts(text) \subseteq 0 .. Len(text) /\ Len(text) \in Nat
  BY DEF RecordStarts, LineStarts
<1>2. IsFiniteSet(0 .. Len(text))
  BY <1>1, FS_Interval
<1> QED
  BY <1>1, <1>2, FS_Subset, FS_CardinalityType

\* How many of S come up to i.
Rank(S, i) == Cardinality({j \in S : j <= i})

\* A later member has a higher rank,
LEMMA RankGrows ==
  ASSUME NEW S, S \subseteq Nat, IsFiniteSet(S), NEW i \in S, NEW j \in S, i < j
  PROVE  /\ Rank(S, i) \in Nat /\ Rank(S, j) \in Nat
         /\ Rank(S, i) < Rank(S, j)
<1> DEFINE A == {x \in S : x <= i}
           B == {x \in S : x <= j}
<1>1. IsFiniteSet(B)
  BY FS_Subset
<1>0. i \in Nat /\ j \in Nat /\ \A x \in S : x \in Nat
  OBVIOUS
<1>2. A \in SUBSET B /\ j \in B /\ j \notin A
  <2>1. \A x \in A : x \in S /\ x <= i
    OBVIOUS
  <2>2. j \notin A
    <3> HIDE DEF A
    <3> QED
      BY <1>0, <2>1
  <2>3. \A x \in A : x <= j
    <3> SUFFICES ASSUME NEW x \in A PROVE x <= j
      OBVIOUS
    <3>1. x \in Nat /\ x <= i
      BY <1>0, <2>1
    <3> QED
      BY <1>0, <3>1
  <2>4. A \subseteq B
    <3> HIDE DEF A
    <3> QED
      BY <2>1, <2>3
  <2> QED
    BY <2>2, <2>4
<1> HIDE DEF A, B
<1>3. IsFiniteSet(A) /\ Cardinality(A) <= Cardinality(B) /\ Cardinality(A) # Cardinality(B)
  BY <1>1, <1>2, FS_Subset
<1>4. Cardinality(A) \in Nat /\ Cardinality(B) \in Nat
  BY <1>1, <1>3, FS_CardinalityType
<1> QED
  BY <1>3, <1>4 DEF Rank, A, B

\* so a member is the one its rank names,
LEMMA NthIsOnly ==
  ASSUME NEW S, S \subseteq Nat, IsFiniteSet(S), NEW i \in S
  PROVE  Nth(S, Rank(S, i)) = i
<1> DEFINE x == Nth(S, Rank(S, i))
<1>1. x \in S /\ Rank(S, x) = Rank(S, i)
  BY DEF Nth, Rank
<1> HIDE DEF x
<1>2. ~(x < i) /\ ~(i < x)
  <2>1. x < i => Rank(S, x) \in Nat /\ Rank(S, i) \in Nat /\ Rank(S, x) < Rank(S, i)
    BY <1>1, RankGrows
  <2>2. i < x => Rank(S, x) \in Nat /\ Rank(S, i) \in Nat /\ Rank(S, i) < Rank(S, x)
    BY <1>1, RankGrows
  <2> QED
    BY <1>1, <2>1, <2>2
<1>3. x \in Nat /\ i \in Nat
  BY <1>1
<1>4. x = i
  BY <1>2, <1>3
<1> QED
  BY <1>4 DEF x

\* and every rank up to the size of the set names one.
LEMMA NthExists ==
  ASSUME NEW n \in Nat, NEW S, S \subseteq 0 .. n, NEW k \in 1 .. Cardinality(S)
  PROVE  Nth(S, k) \in S /\ Rank(S, Nth(S, k)) = k
<1>1. S \subseteq Nat /\ IsFiniteSet(S) /\ Cardinality(S) \in Nat
  <2>1. IsFiniteSet(0 .. n)
    BY FS_Interval
  <2>2. IsFiniteSet(S)
    BY <2>1, FS_Subset
  <2> QED
    BY <2>2, FS_CardinalityType
<1>2. \A i : Rank(S, i) \in Nat
  <2> SUFFICES ASSUME NEW i PROVE Rank(S, i) \in Nat
    OBVIOUS
  <2>1. {j \in S : j <= i} \in SUBSET S
    OBVIOUS
  <2> QED
    BY <1>1, <2>1, FS_Subset, FS_CardinalityType DEF Rank
<1> DEFINE T == {i \in S : Rank(S, i) >= k}
<1>3. T \subseteq Nat /\ T # {}
  <2>1. S # {}
    BY FS_EmptySet
  <2>2. Max(S) \in S /\ \A j \in S : j <= Max(S)
    BY <2>1, GreatestExists, Zenon
  <2>3. {j \in S : j <= Max(S)} = S
    BY <2>2
  <2>4. Rank(S, Max(S)) = Cardinality(S)
    BY <2>3 DEF Rank
  <2>5. Cardinality(S) >= k
    BY <1>1
  <2>6. Max(S) \in T
    BY <2>2, <2>4, <2>5
  <2> QED
    BY <1>1, <2>6
<1> DEFINE m == Min(T)
<1>4. m \in T /\ \A j \in T : m <= j
  <2> HIDE DEF T
  <2> QED
    BY <1>3, LeastExists
<1> HIDE DEF m
<1>5. Rank(S, m) = k
  <2> SUFFICES ASSUME Rank(S, m) > k PROVE FALSE
    BY <1>2, <1>4
  <2> DEFINE B == {j \in S : j <= m}
             A == B \ {m}
  <2>1. IsFiniteSet(B) /\ m \in B /\ Cardinality(B) = Rank(S, m)
    BY <1>1, <1>4, FS_Subset DEF Rank
  <2>2. Cardinality(A) = Rank(S, m) - 1 /\ IsFiniteSet(A)
    <3> HIDE DEF B
    <3> QED
      BY <2>1, FS_RemoveElement
  <2>3. A # {} /\ A \subseteq 0 .. n
    <3>1. Cardinality(A) >= k
      BY <1>2, <2>2
    <3>2. Cardinality(A) # 0
      BY <3>1
    <3> QED
      BY <3>2, FS_EmptySet
  <2> DEFINE p == Max(A)
  <2>4. p \in A /\ \A j \in A : j <= p
    <3> HIDE DEF A
    <3> QED
      BY <2>3, GreatestExists, Zenon
  <2> HIDE DEF p
  <2>0. m \in Nat /\ \A j \in S : j \in Nat
    BY <1>1, <1>4
  <2>5. p \in S /\ p < m
    BY <2>0, <2>4
  <2>6. {j \in S : j <= p} = A
    <3>1. ASSUME NEW j \in S, j <= p PROVE j \in A
      BY <2>0, <2>5, <3>1
    <3>2. ASSUME NEW j \in A PROVE j \in S /\ j <= p
      BY <2>4, <3>2
    <3> HIDE DEF A
    <3> QED
      BY <3>1, <3>2
  <2>7. Rank(S, p) >= k
    <3>1. Rank(S, p) = Cardinality(A)
      BY <2>6 DEF Rank
    <3> QED
      BY <1>2, <2>2, <3>1
  <2> QED
    BY <1>1, <1>4, <2>5, <2>7
<1>6. Nth(S, k) = m
  BY <1>1, <1>4, <1>5, NthIsOnly
<1> QED
  BY <1>4, <1>5, <1>6

------------------------------------------------------------------------------
(* Texts of values.                                                        *)

\* More values, more symbols.
LEMMA SymbolsGrow ==
  ASSUME NEW V, NEW W, V \subseteq W
  PROVE  SymbolsOf(V) \subseteq SymbolsOf(W)
BY DEF SymbolsOf

\* The kinds of symbol are told apart.
LEMMA SymbolsDiffer ==
  /\ \A v : Byte(v).val = v /\ Byte(v) \notin White /\ Byte(v) # Pad /\ Byte(v) # Newline
  /\ \A v, w : Byte(v) = Byte(w) => v = w
  /\ Pad \notin White /\ Pad # Newline /\ Newline \in White
  /\ \A x \in White \cup {Pad} : "val" \notin DOMAIN x
  /\ \A v : "val" \in DOMAIN Byte(v)
<1>1. \A v : Byte(v).val = v /\ DOMAIN Byte(v) = {"val"}
  BY DEF Byte
<1>2. DOMAIN Pad = {"sym"} /\ DOMAIN Newline = {"sym"} /\ DOMAIN Space = {"sym"}
  BY DEF Pad, Newline, Space
<1>3. Pad.sym = "pad" /\ Newline.sym = "newline" /\ Space.sym = "space"
  BY DEF Pad, Newline, Space
<1> QED
  BY <1>1, <1>2, <1>3 DEF White

\* A line parses to one of the values it shows, or to none.
LEMMA ParsedIs ==
  ASSUME NEW V, NEW line \in Seq(SymbolsOf(V))
  PROVE  Parsed(line) \in V \cup {Malformed}
<1>1. CASE line # <<>> /\ "val" \in DOMAIN line[1]
  <2>1. line[1] \in SymbolsOf(V)
    <3>1. 1 \in 1 .. Len(line)
      BY <1>1
    <3> QED
      BY <3>1
  <2>2. PICK v \in V : line[1] = Byte(v)
    BY <1>1, <2>1, SymbolsDiffer DEF SymbolsOf
  <2> QED
    BY <2>2, SymbolsDiffer DEF Parsed
<1>2. CASE ~(line # <<>> /\ "val" \in DOMAIN line[1])
  BY <1>2 DEF Parsed
<1> QED
  BY <1>1, <1>2

\* A whole input's records are values, one for each line that holds one.
LEMMA BatchIs ==
  ASSUME NEW V, NEW text \in Seq(SymbolsOf(V))
  PROVE  LET lines == BatchRecords(text)
             batch == [k \in DOMAIN lines |-> Parsed(lines[k])]
         IN /\ batch \in Seq(V \cup {Malformed})
            /\ Len(batch) = Cardinality(RecordStarts(text))
<1> DEFINE starts == RecordStarts(text)
           lines == BatchRecords(text)
           batch == [k \in DOMAIN lines |-> Parsed(lines[k])]
           n == Cardinality(starts)
<1>1. /\ lines = [k \in 1 .. n |-> RecordAt(text, Nth(starts, k))] /\ n \in Nat
      /\ starts \subseteq 0 .. Len(text) /\ Len(text) \in Nat
  BY RecordStartsAre DEF BatchRecords
<1> HIDE DEF starts, n
<1>2. \A k \in 1 .. n : RecordAt(text, Nth(starts, k)) \in Seq(SymbolsOf(V))
  <2> SUFFICES ASSUME NEW k \in 1 .. n
               PROVE  RecordAt(text, Nth(starts, k)) \in Seq(SymbolsOf(V))
    OBVIOUS
  <2>1. Nth(starts, k) \in starts
    BY <1>1, NthExists DEF n
  <2>2. LineAt(text, Nth(starts, k)) \in Seq(SymbolsOf(V))
    BY <1>1, <2>1, LineIsText
  <2> QED
    BY <2>2, TrimmedIsText DEF RecordAt
<1>3. \A k \in 1 .. n : Parsed(lines[k]) \in V \cup {Malformed}
  BY <1>1, <1>2, ParsedIs
<1>4. DOMAIN lines = 1 .. n
  BY <1>1
<1> HIDE DEF lines
<1>5. batch \in [1 .. n -> V \cup {Malformed}]
  BY <1>3, <1>4
<1> HIDE DEF batch
<1>6. batch \in Seq(V \cup {Malformed}) /\ Len(batch) = n
  BY <1>1, <1>5
<1> QED
  BY <1>6 DEF batch, lines, n, starts

\* Every record takes room.
LEMMA SizeIs ==
  ASSUME NEW v, IsJson(v)
  PROVE  Size(v) \in Nat /\ Size(v) >= 2
<1>1. Cardinality(DOMAIN EvidenceOf(v)) \in Nat
  BY EvidenceOfIsJson, FS_CardinalityType
<1> QED
  BY <1>1 DEF Size

\* A written line is the record, padded to its size, and one end of line.
LEMMA WrittenLineIs ==
  ASSUME NEW v, IsJson(v)
  PROVE  LET line == WrittenLine(v) IN
           /\ \A V : v \in V => line \in Seq(SymbolsOf(V))
           /\ Len(line) = Size(v) + 1
           /\ line[1] = Byte(v)
           /\ \A i \in 2 .. Size(v) : line[i] = Pad
           /\ line[Size(v) + 1] = Newline
<1> DEFINE n == Size(v) - 1
           pads == [i \in 1 .. n |-> Pad]
           first == <<Byte(v)>>
           line == WrittenLine(v)
<1>1. n \in Nat /\ n >= 1 /\ Size(v) = n + 1
  BY SizeIs
<1>2. line = (first \o pads) \o <<Newline>>
  BY DEF WrittenLine
<1> HIDE DEF n
<1>3. \A S : {Byte(v), Pad, Newline} \subseteq S =>
        /\ line \in Seq(S) /\ Len(line) = n + 2 /\ line[1] = Byte(v)
        /\ \A i \in 2 .. n + 1 : line[i] = Pad
        /\ line[n + 2] = Newline
  <2> SUFFICES ASSUME NEW S, {Byte(v), Pad, Newline} \subseteq S
               PROVE  /\ line \in Seq(S) /\ Len(line) = n + 2 /\ line[1] = Byte(v)
                      /\ \A i \in 2 .. n + 1 : line[i] = Pad
                      /\ line[n + 2] = Newline
    OBVIOUS
  <2>1. first \in Seq(S) /\ Len(first) = 1 /\ first[1] = Byte(v)
    OBVIOUS
  <2>2. pads \in Seq(S) /\ Len(pads) = n /\ \A i \in 1 .. n : pads[i] = Pad
    <3>1. pads \in [1 .. n -> S]
      OBVIOUS
    <3> QED
      BY <1>1, <3>1
  <2> HIDE DEF first, pads
  <2>3. /\ first \o pads \in Seq(S) /\ Len(first \o pads) = n + 1
        /\ \A i \in 1 .. n + 1 : (first \o pads)[i] = IF i = 1 THEN Byte(v) ELSE Pad
    <3>1. /\ first \o pads \in Seq(S) /\ Len(first \o pads) = Len(first) + Len(pads)
          /\ \A i \in 1 .. Len(first) + Len(pads) :
               (first \o pads)[i] = IF i <= Len(first) THEN first[i] ELSE pads[i - Len(first)]
      BY <2>1, <2>2, ConcatProperties
    <3> QED
      BY <1>1, <2>1, <2>2, <3>1
  <2> DEFINE head == first \o pads
             end == <<Newline>>
  <2>4. end \in Seq(S) /\ Len(end) = 1 /\ end[1] = Newline
    OBVIOUS
  <2> HIDE DEF end
  <2>5. /\ head \o end \in Seq(S) /\ Len(head \o end) = Len(head) + Len(end)
        /\ \A i \in 1 .. Len(head) + Len(end) :
             (head \o end)[i] = IF i <= Len(head) THEN head[i] ELSE end[i - Len(head)]
    BY <2>3, <2>4, ConcatProperties
  <2>6. line = head \o end
    BY <1>2 DEF end
  <2> HIDE DEF head, line
  <2>7. Len(head) = n + 1 /\ \A i \in 1 .. n + 1 : head[i] = IF i = 1 THEN Byte(v) ELSE Pad
    BY <2>3 DEF head
  <2>8. line \in Seq(S) /\ Len(line) = n + 2
    BY <1>1, <2>4, <2>5, <2>6, <2>7
  <2>9. \A i \in 1 .. n + 1 : line[i] = IF i = 1 THEN Byte(v) ELSE Pad
    BY <1>1, <2>4, <2>5, <2>6, <2>7
  <2>10. line[n + 2] = Newline
    <3>1. n + 2 \in 1 .. Len(head) + Len(end) /\ ~(n + 2 <= Len(head)) /\ n + 2 - Len(head) = 1
      BY <1>1, <2>4, <2>7
    <3> QED
      BY <2>4, <2>5, <2>6, <3>1
  <2> QED
    BY <1>1, <2>8, <2>9, <2>10
<1>4. \A V : v \in V => {Byte(v), Pad, Newline} \subseteq SymbolsOf(V)
  BY DEF SymbolsOf, White
<1> HIDE DEF line
<1>5. line \in Seq({Byte(v), Pad, Newline})
  BY <1>3
<1>6. /\ Len(line) = n + 2 /\ line[1] = Byte(v) /\ line[n + 2] = Newline
      /\ \A i \in 2 .. n + 1 : line[i] = Pad
  BY <1>3
<1>7. \A V : v \in V => line \in Seq(SymbolsOf(V))
  BY <1>3, <1>4
<1>8. Size(v) + 1 = n + 2
  BY <1>1
<1> QED
  BY <1>1, <1>6, <1>7, <1>8 DEF line

------------------------------------------------------------------------------
(* The inductive invariant.                                                *)

\* Everything a stage holds is made of the values of V.
Texts(V) ==
  /\ Closed(V)
  /\ input \in Seq(SymbolsOf(V))
  /\ rest \in Seq(SymbolsOf(V))
  /\ part \in Seq(SymbolsOf(V))
  /\ stdout \in Seq(SymbolsOf(V))
  /\ records \in Seq(V \cup {Malformed})
  /\ out \in Seq(V)
  /\ previous \in Seq(V)
  /\ asked \in Seq([record : V \cup {Malformed},
                    request : {RequestFor(stage, r) : r \in V \cup {Malformed}}])

TypeOK ==
  /\ chain \in Seq(StageSet)
  /\ at \in 1 .. Len(chain)
  /\ pc \in {"read", "record", "calling", "over"}
  /\ answers \in Seq(Replies \cup {Absent})
  /\ \E V : Texts(V)

\* How many records a stage has cut, asked about and written.
InStep ==
  /\ Len(out) <= Len(records)
  /\ Len(answers) = Len(out)
  /\ pc = "read" => Len(out) = Len(records)
  /\ pc = "read" /\ ~Streams(stage) => records = <<>>
  /\ pc \in {"record", "calling"} /\ Streams(stage) => Len(records) = Len(out) + 1
  /\ pc \in {"read", "record"} => Len(asked) = IF stage.kind = "gate" THEN 0 ELSE Len(out)
  /\ pc = "calling" => /\ stage.kind # "gate"
                       /\ Len(asked) = Len(out) + 1
                       /\ Len(out) < Len(records)

\* Every check between a record and its call.
MayAsk(s, record) ==
  LET request == RequestFor(s, record)  selected == Select(record, s.pointer) IN
    /\ SlotFree(record, s.name)
    /\ selected # Absent
    /\ s.native => RequestDecodes(selected)
    /\ request.model # ""
    /\ Violations(request) = {}
    /\ RequestEncodes(request)

\* Each request was sent for the record in its place, past every check.
Asking ==
  \A i \in 1 .. Len(asked) :
    /\ i <= Len(records)
    /\ asked[i] = [record |-> records[i], request |-> RequestFor(stage, records[i])]
    /\ MayAsk(stage, records[i])

\* What a reply, or a gate, may attach.
EvidenceFrom(s, reply, evidence) ==
  IF s.kind = "gate" THEN IsJson(evidence)
  ELSE /\ reply \in Replies
       /\ ResponseDecodes(reply)
       /\ evidence = EncodedResponse(DecodedResponse(reply))

\* Each record written is the one read in its place with one attachment.
Attaching ==
  \A i \in 1 .. Len(out) :
    /\ SlotFree(records[i], stage.name)
    /\ \E evidence : /\ EvidenceFrom(stage, answers[i], evidence)
                     /\ out[i] = Attach(records[i], stage.name, evidence)

Inv == TypeOK /\ InStep /\ Asking /\ Attaching

\* The first stage starts with nothing read.
LEMMA InitIsSound == Init => Inv
<1> SUFFICES ASSUME Init PROVE Inv
  OBVIOUS
<1>1. PICK case \in Cases : chain = case.chain /\ input = case.input
  BY DEF Init
<1>2. chain \in Seq(StageSet) \ {<<>>} /\ input \in Seq(SymbolsOf(Json)) /\ Closed(Json)
  BY <1>1, StagesAssumption, JsonAssumption
<1>3. /\ at = 1 /\ rest = input /\ part = <<>> /\ records = <<>> /\ out = <<>> /\ stdout = <<>>
      /\ pc = "read" /\ asked = <<>> /\ answers = <<>> /\ previous = <<>>
  BY DEF Init
<1>4. \A S : <<>> \in Seq(S)
  OBVIOUS
<1>5. Texts(Json)
  BY <1>2, <1>3, <1>4 DEF Texts
<1>6. at \in 1 .. Len(chain)
  BY <1>2, <1>3
<1>7. Len(<<>>) = 0
  OBVIOUS
<1>8. TypeOK
  BY <1>2, <1>3, <1>4, <1>5, <1>6 DEF TypeOK
<1>9. InStep
  BY <1>3, <1>7 DEF InStep
<1>10. Asking /\ Attaching
  BY <1>3, <1>7 DEF Asking, Attaching
<1> QED
  BY <1>8, <1>9, <1>10 DEF Inv

\* What an action does to the lengths.
LEMMA Sequences ==
  ASSUME TypeOK
  PROVE  /\ Len(out) \in Nat /\ Len(records) \in Nat /\ Len(asked) \in Nat /\ Len(answers) \in Nat
         /\ Len(input) \in Nat /\ Len(rest) \in Nat /\ Len(part) \in Nat /\ Len(stdout) \in Nat
         /\ stage \in StageSet
<1>1. PICK V : Texts(V)
  BY DEF TypeOK
<1>2. stage \in StageSet
  BY DEF TypeOK, stage
<1>3. Len(asked) \in Nat
  <2> DEFINE A == [record : V \cup {Malformed}, request : {RequestFor(stage, r) : r \in V \cup {Malformed}}]
  <2>1. asked \in Seq(A)
    BY <1>1 DEF Texts
  <2> HIDE DEF A
  <2> QED
    BY <2>1
<1> QED
  BY <1>1, <1>2, <1>3 DEF TypeOK, Texts

\* A slice is the beginning of the text, up to the end of a line, of the
\* buffer or of the text.
LEMMA NextSliceIs ==
  ASSUME NEW S, NEW text \in Seq(S), text # <<>>
  PROVE  \E n \in 1 .. Len(text) :
           /\ NextSlice(text) = SubSeq(text, 1, n)
           /\ NextSlice(text) \in Seq(S)
           /\ Len(NextSlice(text)) = n
           /\ text[n] = Newline \/ n = BufferSize \/ n = Len(text)
           /\ \A i \in 1 .. n - 1 : text[i] # Newline
<1> DEFINE stops == {i \in DOMAIN text : text[i] = Newline \/ i = BufferSize \/ i = Len(text)}
           n == Min(stops)
<1>1. Len(text) \in 1 .. Len(text) /\ DOMAIN text = 1 .. Len(text) /\ Len(text) \in Nat
  OBVIOUS
<1>2. stops \subseteq Nat /\ stops # {}
  BY <1>1
<1>3. n \in stops /\ \A j \in stops : n <= j
  <2> HIDE DEF stops
  <2> QED
    BY <1>2, LeastExists
<1>4. NextSlice(text) = SubSeq(text, 1, n)
  BY <1>2 DEF NextSlice
<1> HIDE DEF n
<1>5. n \in 1 .. Len(text) /\ (text[n] = Newline \/ n = BufferSize \/ n = Len(text))
  BY <1>1, <1>3
<1>6. \A i \in 1 .. n - 1 : text[i] # Newline
  <2> SUFFICES ASSUME NEW i \in 1 .. n - 1, text[i] = Newline PROVE FALSE
    OBVIOUS
  <2>0. i \in DOMAIN text
    <3>0. n \in 1 .. Len(text) /\ Len(text) \in Nat
      BY <1>1, <1>5, Zenon
    <3> HIDE DEF stops
    <3>1. n \in Nat /\ n <= Len(text) /\ Len(text) \in Nat
      BY <3>0
    <3>2. i \in 1 .. Len(text)
      BY <3>1
    <3> QED
      BY <1>1, <3>2
  <2>1. i \in stops
    BY <2>0
  <2>2. n <= i
    BY <1>3, <2>1
  <2> QED
    BY <1>5, <2>2
<1>7. \A i \in 1 .. n : text[i] \in S
  BY <1>5
<1>8. SubSeq(text, 1, n) \in Seq(S) /\ Len(SubSeq(text, 1, n)) = n
  BY <1>5, <1>7, SubSeqProperties
<1> QED
  BY <1>4, <1>5, <1>6, <1>8

------------------------------------------------------------------------------
(* Each action preserves it.                                               *)

\* What reading does: the records are longer, the rest stays.
LEMMA ReadBatchIsSound ==
  ASSUME Inv, ReadBatch
  PROVE  Inv'
<1> DEFINE lines == IF stage.framing = "json" THEN <<Trimmed(input)>> ELSE BatchRecords(input)
           batch == [k \in DOMAIN lines |-> Parsed(lines[k])]
<1>1. /\ pc = "read" /\ ~Streams(stage)
      /\ rest' = <<>>
      /\ \/ pc' = "over" /\ records' = records
         \/ pc' = "record" /\ records' = batch
      /\ UNCHANGED <<chain, at, input, part, out, stdout, asked, answers, previous>>
  BY DEF ReadBatch, End, written, history
<1>2. stage' = stage /\ Streams(stage)' = Streams(stage)
  BY <1>1 DEF stage, Streams
<1>3. PICK V : Texts(V)
  BY DEF Inv, TypeOK
<1>4. batch \in Seq(V \cup {Malformed})
  <2>1. input \in Seq(SymbolsOf(V))
    BY <1>3 DEF Texts
  <2>2. CASE stage.framing = "json"
    <3>1. Parsed(Trimmed(input)) \in V \cup {Malformed}
      BY <2>1, TrimmedIsText, ParsedIs
    <3>2. DOMAIN lines = 1 .. 1 /\ lines[1] = Trimmed(input)
      BY <2>2
    <3> HIDE DEF lines
    <3> QED
      BY <3>1, <3>2
  <2>3. CASE stage.framing # "json"
    <3>1. lines = BatchRecords(input)
      BY <2>3
    <3> HIDE DEF lines
    <3> QED
      BY <2>1, <3>1, BatchIs
  <2> QED
    BY <2>2, <2>3
<1> HIDE DEF batch
<1>5. records = <<>> /\ out = <<>> /\ asked = <<>> /\ answers = <<>>
  <2>1. records = <<>> /\ Len(out) = 0 /\ Len(asked) = 0 /\ Len(answers) = 0
    BY <1>1 DEF Inv, InStep
  <2>2. out \in Seq(V) /\ answers \in Seq(Replies \cup {Absent})
    BY <1>3 DEF Texts, Inv, TypeOK
  <2>3. asked = <<>>
    <3> DEFINE A == [record : V \cup {Malformed}, request : {RequestFor(stage, r) : r \in V \cup {Malformed}}]
    <3>1. asked \in Seq(A)
      BY <1>3 DEF Texts
    <3> HIDE DEF A
    <3> QED
      BY <2>1, <3>1
  <2> QED
    BY <2>1, <2>2, <2>3
<1>6. records' \in Seq(V \cup {Malformed}) /\ Len(records') \in Nat
  <2> DEFINE R == V \cup {Malformed}
  <2>1. records \in Seq(R) /\ batch \in Seq(R)
    BY <1>3, <1>4 DEF Texts
  <2> HIDE DEF R
  <2>2. records' \in Seq(R)
    BY <1>1, <2>1
  <2>3. Len(records') \in Nat
    BY <2>2
  <2> QED
    BY <2>2, <2>3 DEF R
<1>7. Texts(V)'
  BY <1>1, <1>2, <1>3, <1>6 DEF Texts
<1>8. TypeOK'
  BY <1>1, <1>7 DEF Inv, TypeOK
<1>9. Len(<<>>) = 0
  OBVIOUS
<1>10. InStep'
  BY <1>1, <1>2, <1>5, <1>6, <1>9 DEF Inv, InStep
<1>11. Asking' /\ Attaching'
  BY <1>1, <1>5, <1>9 DEF Asking, Attaching
<1> QED
  BY <1>8, <1>10, <1>11 DEF Inv

\* A longer sequence of records keeps what was said of the first ones.
LEMMA MoreRecords ==
  ASSUME Inv, NEW x, records' = Append(records, x) \/ records' = records,
         stage' = stage, UNCHANGED <<out, asked, answers>>
  PROVE  Asking' /\ Attaching'
<1>1. PICK V : Texts(V)
  BY DEF Inv, TypeOK
<1>2. records \in Seq(V \cup {Malformed}) /\ Len(records) \in Nat
  BY <1>1 DEF Texts
<1>3. Len(records') \in Nat /\ Len(records) <= Len(records')
      /\ \A i \in 1 .. Len(records) : records'[i] = records[i]
  BY <1>2
<1>4. Asking'
  <2> SUFFICES ASSUME NEW i \in 1 .. Len(asked)
               PROVE  /\ i <= Len(records')
                      /\ asked[i] = [record |-> records'[i], request |-> RequestFor(stage, records'[i])]
                      /\ MayAsk(stage, records'[i])
    BY DEF Asking
  <2>1. i <= Len(records) /\ i \in 1 .. Len(records)
    <3>1. Len(asked) \in Nat /\ i <= Len(records)
      BY Sequences DEF Asking, Inv
    <3> QED
      BY <1>2, <3>1
  <2>2. records'[i] = records[i]
    BY <1>3, <2>1
  <2>3. i <= Len(records')
    BY <1>2, <1>3, <2>1
  <2>4. /\ asked[i] = [record |-> records[i], request |-> RequestFor(stage, records[i])]
        /\ MayAsk(stage, records[i])
    BY DEF Asking, Inv
  <2> QED
    BY <2>2, <2>3, <2>4
<1>5. Attaching'
  <2> SUFFICES ASSUME NEW i \in 1 .. Len(out)
               PROVE  /\ SlotFree(records'[i], stage.name)
                      /\ \E evidence : /\ EvidenceFrom(stage, answers[i], evidence)
                                       /\ out[i] = Attach(records'[i], stage.name, evidence)
    BY DEF Attaching
  <2>1. i \in 1 .. Len(records)
    BY <1>2, Sequences DEF Inv, InStep
  <2>2. records'[i] = records[i]
    BY <1>3, <2>1
  <2> QED
    BY <2>2 DEF Attaching, Inv
<1> QED
  BY <1>4, <1>5

\* A slice adds at most one record, and only once those before it are done.
LEMMA ReadSliceIsSound ==
  ASSUME Inv, ReadSlice
  PROVE  Inv'
<1> DEFINE slice == NextSlice(rest)
           left  == SubSeq(rest, Len(slice) + 1, Len(rest))
           line  == part \o slice
           x     == Parsed(Trimmed(line))
<1>1. /\ pc = "read" /\ Streams(stage) /\ rest # <<>>
      /\ UNCHANGED <<chain, at, input, out, stdout, asked, answers, previous>>
      /\ \/ pc' = "over" /\ UNCHANGED <<rest, part, records>>
         \/ /\ rest' = left /\ part' \in {line, <<>>}
            /\ records' = records /\ pc' = pc
         \/ /\ rest' = left /\ part' = <<>>
            /\ records' = Append(records, x) /\ pc' = "record"
  BY DEF ReadSlice, End, written, history
<1>2. stage' = stage /\ Streams(stage)' = Streams(stage)
  BY <1>1 DEF stage, Streams
<1>3. PICK V : Texts(V)
  BY DEF Inv, TypeOK
<1>4. rest \in Seq(SymbolsOf(V)) /\ part \in Seq(SymbolsOf(V)) /\ records \in Seq(V \cup {Malformed})
  BY <1>3 DEF Texts
<1>5. /\ left \in Seq(SymbolsOf(V)) /\ line \in Seq(SymbolsOf(V))
      /\ x \in V \cup {Malformed}
  <2>1. PICK n \in 1 .. Len(rest) : slice \in Seq(SymbolsOf(V)) /\ Len(slice) = n
    BY <1>1, <1>4, NextSliceIs
  <2> HIDE DEF slice
  <2>2. Len(rest) \in Nat /\ \A i \in Len(slice) + 1 .. Len(rest) : rest[i] \in SymbolsOf(V)
    BY <1>4, <2>1
  <2>3. left \in Seq(SymbolsOf(V))
    BY <2>1, <2>2, SubSeqProperties
  <2>4. line \in Seq(SymbolsOf(V))
    BY <1>4, <2>1, ConcatProperties
  <2> HIDE DEF line
  <2> QED
    BY <2>3, <2>4, TrimmedIsText, ParsedIs
<1> HIDE DEF left, line, x
<1>6. records' = Append(records, x) \/ records' = records
  BY <1>1
<1>7. records' \in Seq(V \cup {Malformed})
  <2> DEFINE R == V \cup {Malformed}
  <2>1. records \in Seq(R) /\ x \in R
    BY <1>4, <1>5
  <2> HIDE DEF R
  <2>2. Append(records, x) \in Seq(R)
    BY <2>1
  <2> QED
    BY <1>6, <2>1, <2>2 DEF R
<1>8. rest' \in Seq(SymbolsOf(V)) /\ part' \in Seq(SymbolsOf(V))
  <2>1. <<>> \in Seq(SymbolsOf(V))
    OBVIOUS
  <2>2. rest' \in {rest, left} /\ part' \in {part, line, <<>>}
    BY <1>1
  <2> QED
    BY <1>4, <1>5, <2>1, <2>2
<1>9. Texts(V)'
  BY <1>1, <1>2, <1>3, <1>7, <1>8 DEF Texts
<1>10. TypeOK'
  BY <1>1, <1>9 DEF Inv, TypeOK
<1>11. InStep'
  <2>1. Len(records) \in Nat /\ Len(out) \in Nat /\ Len(asked) \in Nat
    BY Sequences DEF Inv
  <2>2. Len(Append(records, x)) = Len(records) + 1
    BY <1>4
  <2>3. Len(out) = Len(records) /\ Len(asked) = IF stage.kind = "gate" THEN 0 ELSE Len(out)
    BY <1>1 DEF Inv, InStep
  <2> QED
    BY <1>1, <1>2, <2>1, <2>2, <2>3 DEF Inv, InStep
<1>12. Asking' /\ Attaching'
  BY <1>1, <1>2, <1>6, MoreRecords
<1> QED
  BY <1>10, <1>11, <1>12 DEF Inv

\* A step that only ends the stage, or changes nothing.
LEMMA EndingIsSound ==
  ASSUME Inv, pc' = "over",
         UNCHANGED <<chain, at, input, rest, part, records, out, stdout, asked, answers, previous>>
  PROVE  Inv'
<1>1. stage' = stage /\ Streams(stage)' = Streams(stage)
  BY DEF stage, Streams
<1>2. PICK V : Texts(V)
  BY DEF Inv, TypeOK
<1>3. Texts(V)'
  BY <1>1, <1>2 DEF Texts
<1>4. TypeOK'
  BY <1>3 DEF Inv, TypeOK
<1>5. InStep'
  BY <1>1 DEF Inv, InStep
<1>6. Asking' /\ Attaching'
  BY <1>1 DEF Inv, Asking, Attaching
<1> QED
  BY <1>4, <1>5, <1>6 DEF Inv

\* The question a stage asks carries no unknown member under a known name.
LEMMA ExtraIsUnknown ==
  ASSUME NEW s, NEW record
  PROVE  \A id \in DOMAIN RequestFor(s, record).questions :
           QuestionFields \cap DOMAIN RequestFor(s, record).questions[id].extra = {}
<1>1. \A v : QuestionFields \cap DOMAIN DecodedQuestion(v).extra = {}
  <2> SUFFICES ASSUME NEW v PROVE QuestionFields \cap DOMAIN DecodedQuestion(v).extra = {}
    OBVIOUS
  <2>1. DecodedQuestion(v).extra = Without(AsMembers(v), QuestionFields)
    BY DEF DecodedQuestion
  <2>2. DOMAIN Without(AsMembers(v), QuestionFields) = DOMAIN AsMembers(v) \ QuestionFields
    BY WithoutMembers
  <2> QED
    BY <2>1, <2>2
<1>2. \A v : \A id \in DOMAIN DecodedQuestions(v) :
         QuestionFields \cap DOMAIN DecodedQuestions(v)[id].extra = {}
  BY <1>1 DEF DecodedQuestions
<1>3. \A id \in DOMAIN QuestionsOf(s) : QuestionFields \cap DOMAIN QuestionsOf(s)[id].extra = {}
  <2>1. CASE s.kind = "rate"
    <3>1. \A id \in DOMAIN QuestionsOf(s) : QuestionsOf(s)[id].extra = <<>>
      BY <2>1 DEF QuestionsOf
    <3> QED
      BY <3>1, NoMembers
  <2>2. CASE s.kind # "rate"
    <3>1. QuestionsOf(s) = DecodedQuestions(Member(AsMembers(s.document), "questions"))
      BY <2>2 DEF QuestionsOf
    <3> QED
      BY <3>1, <1>2
  <2> QED
    BY <2>1, <2>2
<1>4. RequestFor(s, record).questions
        \in {QuestionsOf(s), DecodedQuestions(Member(AsMembers(Select(record, s.pointer)), "questions"))}
  BY DEF RequestFor, DecodedRequest
<1> QED
  BY <1>2, <1>3, <1>4

\* A request goes out only past every check.
LEMMA TakeRecordIsSound ==
  ASSUME Inv, TakeRecord
  PROVE  Inv'
<1> DEFINE request == RequestFor(stage, Current)
           x == [record |-> Current, request |-> request]
<1>1. /\ pc = "record" /\ stage.kind # "gate" /\ Len(out) < Len(records)
      /\ UNCHANGED <<chain, at, input, rest, part, records, out, stdout, answers, previous>>
      /\ \/ pc' = "over" /\ asked' = asked
         \/ /\ pc' = "calling" /\ asked' = Append(asked, x)
            /\ MapFailure(stage, Current) = "none" /\ RequestEncodes(request)
  BY DEF TakeRecord, End, written, readVars
<1>2. CASE pc' = "over" /\ asked' = asked
  BY <1>1, <1>2, EndingIsSound
<1>3. CASE /\ pc' = "calling" /\ asked' = Append(asked, x)
           /\ MapFailure(stage, Current) = "none" /\ RequestEncodes(request)
  <2>1. stage' = stage /\ Streams(stage)' = Streams(stage)
    BY <1>1 DEF stage, Streams
  <2>2. PICK V : Texts(V)
    BY DEF Inv, TypeOK
  <2>3. /\ Len(out) \in Nat /\ Len(records) \in Nat /\ Len(asked) \in Nat /\ Len(asked) = Len(out)
        /\ Current = records[Len(asked) + 1]
    BY <1>1, Sequences DEF Inv, InStep, Current
  <2>4. Current \in V \cup {Malformed}
    <3>1. records \in Seq(V \cup {Malformed}) /\ Len(asked) + 1 \in 1 .. Len(records)
      BY <1>1, <2>2, <2>3 DEF Texts
    <3> QED
      BY <2>3, <3>1
  <2>5. MayAsk(stage, Current)
    <3>1. /\ SelectionFailure(stage, Current) = "none"
          /\ EnrichFailure(stage, Current) = "none"
      BY <1>3 DEF MapFailure
    <3>2. /\ Select(Current, stage.pointer) # Absent
          /\ stage.native => RequestDecodes(Select(Current, stage.pointer))
      BY <3>1 DEF SelectionFailure
    <3>3. /\ request.model # "" /\ SlotFree(Current, stage.name)
          /\ Violations(request) = {}
      BY <3>1 DEF EnrichFailure
    <3> QED
      BY <1>3, <3>2, <3>3 DEF MayAsk
  <2> DEFINE A == [record : V \cup {Malformed},
                   request : {RequestFor(stage, r) : r \in V \cup {Malformed}}]
  <2>6. asked \in Seq(A) /\ x \in A
    BY <2>2, <2>4 DEF Texts
  <2> HIDE DEF A, x
  <2>7. /\ asked' \in Seq(A) /\ Len(asked') = Len(asked) + 1
        /\ asked'[Len(asked) + 1] = x
        /\ \A i \in 1 .. Len(asked) : asked'[i] = asked[i]
    BY <1>3, <2>6
  <2>8. Texts(V)'
    BY <1>1, <2>1, <2>2, <2>7 DEF Texts, A
  <2>9. TypeOK'
    BY <1>1, <1>3, <2>8 DEF Inv, TypeOK
  <2>10. InStep'
    BY <1>1, <1>3, <2>1, <2>3, <2>7 DEF Inv, InStep
  <2>11. Asking'
    <3> SUFFICES ASSUME NEW i \in 1 .. Len(asked')
                 PROVE  /\ i <= Len(records)
                        /\ asked'[i] = [record |-> records[i], request |-> RequestFor(stage, records[i])]
                        /\ MayAsk(stage, records[i])
      BY <1>1, <2>1 DEF Asking
    <3>1. CASE i = Len(asked) + 1
      BY <1>1, <2>3, <2>5, <2>7, <3>1 DEF x
    <3>2. CASE i # Len(asked) + 1
      <4>1. i \in 1 .. Len(asked)
        BY <2>3, <2>7, <3>2
      <4> QED
        BY <2>7, <4>1 DEF Inv, Asking
    <3> QED
      BY <3>1, <3>2
  <2>12. Attaching'
    BY <1>1, <2>1 DEF Inv, Attaching
  <2> QED
    BY <2>9, <2>10, <2>11, <2>12 DEF Inv
<1> QED
  BY <1>1, <1>2, <1>3

\* What is written takes the place of the record it was made from.
LEMMA EmitIsSound ==
  ASSUME Inv, NEW reply \in Replies \cup {Absent}, NEW evidence, IsJson(evidence),
         Len(out) < Len(records), SlotFree(Current, stage.name),
         EvidenceFrom(stage, reply, evidence),
         pc \in {"record", "calling"}, pc = "record" => stage.kind = "gate",
         Emit(Attach(Current, stage.name, evidence), reply),
         UNCHANGED <<chain, at, readVars, asked, previous>>
  PROVE  Inv'
<1> DEFINE v == Attach(Current, stage.name, evidence)
<1>1. /\ out' = Append(out, v) /\ stdout' = stdout \o WrittenLine(v)
      /\ answers' = Append(answers, reply)
      /\ pc' = IF Streams(stage) THEN "read" ELSE "record"
      /\ UNCHANGED <<chain, at, input, rest, part, records, asked, previous>>
  BY DEF Emit, readVars
<1>2. stage' = stage /\ Streams(stage)' = Streams(stage)
  BY <1>1 DEF stage, Streams
<1>3. PICK V : Texts(V)
  BY DEF Inv, TypeOK
<1>4. /\ Len(out) \in Nat /\ Len(records) \in Nat /\ Len(asked) \in Nat /\ Len(answers) = Len(out)
      /\ Current = records[Len(out) + 1]
  BY Sequences DEF Inv, InStep, Current
<1>5. IsJson(Current) /\ IsA(Current, "obj")
  <2>1. records \in Seq(V \cup {Malformed}) /\ Len(out) + 1 \in 1 .. Len(records)
    BY <1>3, <1>4 DEF Texts
  <2>2. Current \in V \cup {Malformed}
    BY <1>4, <2>1
  <2>3. IsA(Current, "obj")
    BY DEF SlotFree
  <2>4. Current # Malformed
    BY <2>3 DEF IsA, Malformed
  <2> QED
    BY <1>3, <2>2, <2>3, <2>4 DEF IsJson, Texts
<1>6. IsJson(v)
  BY <1>5, AttachedIsJson
<1> HIDE DEF v
<1>7. PICK W : Closed(W) /\ v \in W
  BY <1>6 DEF IsJson
<1> DEFINE U == V \cup W
<1>8. Closed(U) /\ V \subseteq U /\ v \in U
  <2>1. Closed(U)
    <3> SUFFICES ASSUME NEW x \in U
                 PROVE  /\ x # Absent
                        /\ IsA(x, "str") => x = Str(x.str)
                        /\ IsA(x, "num") => x = Num(x.num)
                        /\ IsA(x, "obj") => /\ x = Obj(x.obj) /\ x.obj \in [DOMAIN x.obj -> U]
                                            /\ IsFiniteSet(DOMAIN x.obj)
                        /\ IsA(x, "arr") => x = Arr(x.arr) /\ x.arr \in Seq(U)
      BY DEF Closed
    <3>1. PICK T \in {V, W} : x \in T
      OBVIOUS
    <3>2. Closed(T) /\ T \subseteq U
      BY <1>3, <1>7 DEF Texts
    <3> HIDE DEF U
    <3>3. /\ x # Absent
          /\ IsA(x, "str") => x = Str(x.str)
          /\ IsA(x, "num") => x = Num(x.num)
          /\ IsA(x, "obj") => /\ x = Obj(x.obj) /\ x.obj \in [DOMAIN x.obj -> T]
                              /\ IsFiniteSet(DOMAIN x.obj)
          /\ IsA(x, "arr") => x = Arr(x.arr) /\ x.arr \in Seq(T)
      BY <3>1, <3>2 DEF Closed
    <3>4. IsA(x, "obj") => x.obj \in [DOMAIN x.obj -> U]
      BY <3>2, <3>3
    <3>5. IsA(x, "arr") => x.arr \in Seq(U)
      BY <3>2, <3>3, SeqMonotonic
    <3> QED
      BY <3>3, <3>4, <3>5
  <2> QED
    BY <2>1, <1>7
<1> HIDE DEF U
<1>9. Texts(U)'
  <2> DEFINE A(X) == [record : X \cup {Malformed},
                      request : {RequestFor(stage, r) : r \in X \cup {Malformed}}]
  <2>1. /\ SymbolsOf(V) \subseteq SymbolsOf(U)
        /\ V \cup {Malformed} \subseteq U \cup {Malformed}
        /\ A(V) \subseteq A(U)
    BY <1>8, SymbolsGrow
  <2>2. /\ input \in Seq(SymbolsOf(V)) /\ rest \in Seq(SymbolsOf(V)) /\ part \in Seq(SymbolsOf(V))
        /\ stdout \in Seq(SymbolsOf(V)) /\ records \in Seq(V \cup {Malformed})
        /\ out \in Seq(V) /\ previous \in Seq(V) /\ asked \in Seq(A(V))
    BY <1>3 DEF Texts
  <2> HIDE DEF A
  <2>3. /\ input \in Seq(SymbolsOf(U)) /\ rest \in Seq(SymbolsOf(U)) /\ part \in Seq(SymbolsOf(U))
        /\ stdout \in Seq(SymbolsOf(U)) /\ records \in Seq(U \cup {Malformed})
    BY <2>1, <2>2, SeqMonotonic
  <2>4. out \in Seq(U) /\ previous \in Seq(U) /\ asked \in Seq(A(U))
    BY <1>8, <2>1, <2>2, SeqMonotonic
  <2>5. out' \in Seq(U)
    BY <1>1, <1>8, <2>4
  <2>6. stdout' \in Seq(SymbolsOf(U))
    <3>1. WrittenLine(v) \in Seq(SymbolsOf(U))
      BY <1>6, <1>8, WrittenLineIs
    <3> QED
      BY <1>1, <2>3, <3>1, ConcatProperties
  <2> QED
    BY <1>1, <1>2, <1>8, <2>3, <2>4, <2>5, <2>6 DEF Texts, A
<1>10. out \in Seq(V) /\ answers \in Seq(Replies \cup {Absent})
  BY <1>3 DEF Texts, Inv, TypeOK
<1>11. /\ Len(out') = Len(out) + 1 /\ out'[Len(out) + 1] = v
       /\ \A i \in 1 .. Len(out) : out'[i] = out[i]
  <2>1. out \in Seq(V \cup {v})
    BY <1>10, SeqMonotonic
  <2> QED
    BY <1>1, <2>1
<1>12. /\ answers' \in Seq(Replies \cup {Absent})
       /\ Len(answers') = Len(out) + 1 /\ answers'[Len(out) + 1] = reply
       /\ \A i \in 1 .. Len(out) : answers'[i] = answers[i]
  <2> DEFINE B == Replies \cup {Absent}
  <2>1. answers \in Seq(B) /\ reply \in B
    BY <1>10
  <2> HIDE DEF B
  <2>2. /\ Append(answers, reply) \in Seq(B)
        /\ Len(Append(answers, reply)) = Len(answers) + 1
        /\ Append(answers, reply)[Len(answers) + 1] = reply
        /\ \A i \in 1 .. Len(answers) : Append(answers, reply)[i] = answers[i]
    BY <2>1
  <2> QED
    BY <1>1, <1>4, <2>2 DEF B
<1>13. TypeOK'
  BY <1>1, <1>9, <1>12 DEF Inv, TypeOK
<1>14. InStep'
  <2>1. Streams(stage) => stage.kind # "gate"
    BY DEF Streams
  <2>2. pc = "calling" => stage.kind # "gate" /\ Len(asked) = Len(out) + 1
    BY DEF Inv, InStep
  <2>3. pc = "record" => stage.kind = "gate" /\ Len(asked) = 0
    BY DEF Inv, InStep
  <2>4. Streams(stage) => Len(records) = Len(out) + 1
    BY DEF Inv, InStep
  <2> QED
    BY <1>1, <1>2, <1>4, <1>11, <1>12, <2>1, <2>2, <2>3, <2>4 DEF InStep
<1>15. Asking'
  BY <1>1, <1>2 DEF Inv, Asking
<1>16. Attaching'
  <2> SUFFICES ASSUME NEW i \in 1 .. Len(out')
               PROVE  /\ SlotFree(records[i], stage.name)
                      /\ \E e : /\ EvidenceFrom(stage, answers'[i], e)
                                /\ out'[i] = Attach(records[i], stage.name, e)
    BY <1>1, <1>2 DEF Attaching
  <2>1. CASE i = Len(out) + 1
    <3>1. SlotFree(records[i], stage.name) /\ out'[i] = Attach(records[i], stage.name, evidence)
      BY <1>4, <1>11, <2>1 DEF v
    <3>2. EvidenceFrom(stage, answers'[i], evidence)
      BY <1>12, <2>1
    <3> QED
      BY <3>1, <3>2
  <2>2. CASE i # Len(out) + 1
    <3>1. i \in 1 .. Len(out)
      BY <1>4, <1>11, <2>2
    <3>2. out'[i] = out[i] /\ answers'[i] = answers[i]
      BY <1>11, <1>12, <3>1
    <3> QED
      BY <3>1, <3>2 DEF Inv, Attaching
  <2> QED
    BY <2>1, <2>2
<1> QED
  BY <1>13, <1>14, <1>15, <1>16 DEF Inv

\* What a gate attaches is JSON.
LEMMA ReceiptIsJson ==
  \A value, passMin, rejectMax : IsJson(Receipt(value, passMin, rejectMax))
<1> SUFFICES ASSUME NEW value, NEW passMin, NEW rejectMax
             PROVE  IsJson(Receipt(value, passMin, rejectMax))
  OBVIOUS
<1> DEFINE policy == [pass_min |-> Num(Decimal(passMin)), reject_max |-> Num(Decimal(rejectMax))]
           receipt == [decision |-> Str(Decision(value, passMin, rejectMax)),
                       value |-> Num(Decimal(value)), policy |-> Obj(policy)]
<1>1. \A x, y : IsFiniteSet({x} \cup {y})
  BY FS_Singleton, FS_Union
<1>2. \A x, y, z : IsFiniteSet(({x} \cup {y}) \cup {z})
  BY <1>1, FS_Singleton, FS_Union
<1>3. IsJson(Obj(policy))
  <2>1. DOMAIN policy = {"pass_min"} \cup {"reject_max"} /\ policy = [key \in DOMAIN policy |-> policy[key]]
    OBVIOUS
  <2>2. \A key \in DOMAIN policy : IsJson(policy[key])
    BY ScalarIsJson
  <2> HIDE DEF policy
  <2>3. IsFiniteSet(DOMAIN policy)
    BY <1>1, <2>1
  <2> QED
    BY <2>1, <2>2, <2>3, ObjectIsJson
<1>4. Receipt(value, passMin, rejectMax) = Obj(receipt)
  BY DEF Receipt
<1> HIDE DEF policy
<1>5. /\ DOMAIN receipt = ({"decision"} \cup {"value"}) \cup {"policy"}
      /\ receipt = [key \in DOMAIN receipt |-> receipt[key]]
  OBVIOUS
<1>6. \A key \in DOMAIN receipt : IsJson(receipt[key])
  <2>1. IsJson(receipt["decision"]) /\ IsJson(receipt["value"]) /\ IsJson(receipt["policy"])
    BY <1>3, ScalarIsJson
  <2> HIDE DEF receipt
  <2> QED
    BY <1>5, <2>1
<1> HIDE DEF receipt
<1>7. IsFiniteSet(DOMAIN receipt)
  <2>1. IsFiniteSet(({"decision"} \cup {"value"}) \cup {"policy"})
    BY <1>2
  <2> QED
    BY <1>5, <2>1
<1> QED
  BY <1>4, <1>5, <1>6, <1>7, ObjectIsJson

\* A reply that decodes is one of the values.
LEMMA ReplyIsJson ==
  ASSUME NEW reply \in Replies, ResponseDecodes(reply)
  PROVE  reply \in Json /\ IsJson(reply)
<1>1. IsA(reply, "obj")
  BY DEF ResponseDecodes
<1>2. reply # Malformed
  BY <1>1 DEF IsA, Malformed
<1> QED
  BY <1>2, StagesAssumption, JsonAssumption DEF IsJson

\* A reply is attached only if it decodes.
LEMMA CallAnswersIsSound ==
  ASSUME Inv, CallAnswers
  PROVE  Inv'
<1>1. PICK reply \in Replies :
         IF ResponseDecodes(reply)
         THEN Emit(Attach(Current, stage.name, EncodedResponse(DecodedResponse(reply))), reply)
         ELSE End("RESPONSE_INVALID") /\ UNCHANGED <<written, answers>>
  BY DEF CallAnswers
<1>2. pc = "calling" /\ UNCHANGED <<chain, at, readVars, asked, previous>>
  BY DEF CallAnswers
<1>3. CASE ResponseDecodes(reply)
  <2> DEFINE evidence == EncodedResponse(DecodedResponse(reply))
  <2>1. IsJson(evidence)
    BY <1>3, ReplyIsJson, EncodedResponseIsJson
  <2>2. /\ stage.kind # "gate" /\ Len(out) < Len(records) /\ Len(asked) = Len(out) + 1
    BY <1>2 DEF Inv, InStep
  <2>3. SlotFree(Current, stage.name)
    <3>1. Len(asked) \in 1 .. Len(asked)
      BY <2>2, Sequences DEF Inv
    <3>2. SlotFree(records[Len(asked)], stage.name)
      BY <3>1 DEF Inv, Asking, MayAsk
    <3> QED
      BY <2>2, <3>2 DEF Current
  <2>4. EvidenceFrom(stage, reply, evidence)
    BY <1>3, <2>2 DEF EvidenceFrom
  <2>5. Emit(Attach(Current, stage.name, evidence), reply)
    BY <1>1, <1>3
  <2> HIDE DEF evidence
  <2>6. reply \in Replies \cup {Absent}
    OBVIOUS
  <2> QED
    BY <1>2, <2>1, <2>2, <2>3, <2>4, <2>5, <2>6, EmitIsSound
<1>4. CASE ~ResponseDecodes(reply)
  <2>1. /\ pc' = "over"
        /\ UNCHANGED <<chain, at, input, rest, part, records, out, stdout, asked, answers, previous>>
    BY <1>1, <1>2, <1>4 DEF End, readVars, written
  <2> QED
    BY <2>1, EndingIsSound
<1> QED
  BY <1>3, <1>4

\* A gate attaches its receipt.
LEMMA GateRecordIsSound ==
  ASSUME Inv, GateRecord
  PROVE  Inv'
<1> DEFINE evidence == Receipt(Float64(Select(Current, stage.pointer).num),
                              stage.passMin, stage.rejectMax)
<1>1. /\ pc = "record" /\ stage.kind = "gate" /\ Len(out) < Len(records)
      /\ UNCHANGED <<chain, at, readVars, asked, previous>>
      /\ IF GateFailure(stage, Current) # "none"
         THEN End(GateFailure(stage, Current)) /\ UNCHANGED <<written, answers>>
         ELSE Emit(Attach(Current, stage.name, evidence), Absent)
  BY DEF GateRecord
<1>2. CASE GateFailure(stage, Current) # "none"
  <2>1. /\ pc' = "over"
        /\ UNCHANGED <<chain, at, input, rest, part, records, out, stdout, asked, answers, previous>>
    BY <1>1, <1>2 DEF End, readVars, written
  <2> QED
    BY <2>1, EndingIsSound
<1>3. CASE GateFailure(stage, Current) = "none"
  <2>1. IsJson(evidence)
    BY ReceiptIsJson
  <2>2. SlotFree(Current, stage.name)
    BY <1>3 DEF GateFailure
  <2>3. EvidenceFrom(stage, Absent, evidence)
    BY <1>1, <2>1 DEF EvidenceFrom
  <2>4. Emit(Attach(Current, stage.name, evidence), Absent)
    BY <1>1, <1>3
  <2> HIDE DEF evidence
  <2>5. Absent \in Replies \cup {Absent}
    OBVIOUS
  <2> QED
    BY <1>1, <2>1, <2>2, <2>3, <2>4, <2>5, EmitIsSound
<1> QED
  BY <1>2, <1>3

\* The next stage is given text made of the same values.
LEMMA NextStageIsSound ==
  ASSUME Inv, NextStage
  PROVE  Inv'
<1>1. /\ at < Len(chain) /\ at' = at + 1 /\ chain' = chain
      /\ pc' = "read" /\ previous' = out
      /\ input' = stdout /\ rest' = stdout /\ part' = <<>> /\ records' = <<>>
      /\ out' = <<>> /\ stdout' = <<>> /\ asked' = <<>> /\ answers' = <<>>
  BY DEF NextStage, StartsWith
<1>2. PICK V : Texts(V)
  BY DEF Inv, TypeOK
<1>3. (\A S : <<>> \in Seq(S)) /\ Len(<<>>) = 0
  OBVIOUS
<1>4. Texts(V)'
  BY <1>1, <1>2, <1>3 DEF Texts
<1>5. at' \in 1 .. Len(chain)
  BY <1>1 DEF Inv, TypeOK
<1>6. TypeOK'
  BY <1>1, <1>3, <1>4, <1>5 DEF Inv, TypeOK
<1>7. InStep'
  BY <1>1, <1>3 DEF InStep
<1>8. Asking' /\ Attaching'
  BY <1>1, <1>3 DEF Asking, Attaching
<1> QED
  BY <1>6, <1>7, <1>8 DEF Inv

\* So every step preserves the invariant.
LEMMA NextIsSound == Inv /\ [Next]_vars => Inv'
<1> SUFFICES ASSUME Inv, [Next]_vars PROVE Inv'
  OBVIOUS
<1>1. CASE ReadBatch
  BY <1>1, ReadBatchIsSound
<1>2. CASE ReadSlice
  BY <1>2, ReadSliceIsSound
<1>3. CASE EndOfStream \/ CallFails \/ EndOfBatch
  <2>1. /\ pc' = "over"
        /\ UNCHANGED <<chain, at, input, rest, part, records, out, stdout, asked, answers, previous>>
    BY <1>3 DEF EndOfStream, CallFails, EndOfBatch, End, readVars, written, history
  <2> QED
    BY <2>1, EndingIsSound
<1>4. CASE TakeRecord
  BY <1>4, TakeRecordIsSound
<1>5. CASE CallAnswers
  BY <1>5, CallAnswersIsSound
<1>6. CASE GateRecord
  BY <1>6, GateRecordIsSound
<1>7. CASE NextStage
  BY <1>7, NextStageIsSound
<1>8. CASE UNCHANGED vars
  <2>1. UNCHANGED <<chain, at, input, rest, part, records, out, stdout, pc, asked, answers, previous>>
    BY <1>8 DEF vars, readVars, written, history
  <2>2. stage' = stage /\ Streams(stage)' = Streams(stage)
    BY <2>1 DEF stage, Streams
  <2>3. PICK V : Texts(V)
    BY DEF Inv, TypeOK
  <2>4. Texts(V)'
    BY <2>1, <2>2, <2>3 DEF Texts
  <2>5. TypeOK'
    BY <2>1, <2>4 DEF Inv, TypeOK
  <2>6. InStep' /\ Asking' /\ Attaching'
    BY <2>1, <2>2 DEF Inv, InStep, Asking, Attaching
  <2> QED
    BY <2>5, <2>6 DEF Inv
<1>9. CASE Finished
  BY <1>8, <1>9 DEF Finished
<1> QED
  BY <1>1, <1>2, <1>3, <1>4, <1>5, <1>6, <1>7, <1>8, <1>9 DEF Next

\* Through any chain of stages, for every input and every reply: the records
\* a stage holds, sends and writes are in step, each request was sent past
\* every check of processMapInput and EnrichRequest for the record in its
\* place, and each record written is that one with one decoded reply attached.
THEOREM Soundness == Spec => []Inv
<1> QED
  BY InitIsSound, NextIsSound, PTL DEF Spec

\* AttachResponse and Gate never overwrite: every record written is the one
\* read in its place, all its members and earlier evidence unchanged, with one
\* more piece of evidence.
THEOREM NothingOverwritten == Spec => []NothingIsOverwritten
<1>1. Inv => NothingIsOverwritten
  <2> SUFFICES ASSUME Inv, NEW i \in DOMAIN out
               PROVE  /\ Without(out[i].obj, {"_jeq"}) = Without(records[i].obj, {"_jeq"})
                      /\ Without(EvidenceOf(out[i]), {stage.name}) = EvidenceOf(records[i])
                      /\ stage.name \in DOMAIN EvidenceOf(out[i])
    BY DEF NothingIsOverwritten
  <2>1. PICK V : Texts(V)
    BY DEF Inv, TypeOK
  <2>2. i \in 1 .. Len(out) /\ i \in 1 .. Len(records)
    <3>1. Len(out) \in Nat /\ Len(records) \in Nat /\ Len(out) <= Len(records) /\ out \in Seq(V)
      BY <2>1, Sequences DEF Inv, InStep, Texts
    <3> QED
      BY <3>1
  <2>3. PICK evidence : /\ SlotFree(records[i], stage.name)
                        /\ EvidenceFrom(stage, answers[i], evidence)
                        /\ out[i] = Attach(records[i], stage.name, evidence)
    BY <2>2 DEF Inv, Attaching
  <2>4. IsJson(evidence)
    BY <2>3, ReplyIsJson, EncodedResponseIsJson DEF EvidenceFrom
  <2>5. IsJson(records[i])
    <3>1. records \in Seq(V \cup {Malformed})
      BY <2>1 DEF Texts
    <3>2. records[i] \in V \cup {Malformed}
      BY <2>2, <3>1
    <3>3. records[i] # Malformed
      BY <2>3 DEF SlotFree, IsA, Malformed
    <3> QED
      BY <2>1, <3>2, <3>3 DEF IsJson, Texts
  <2>6. LET w == Attach(records[i], stage.name, evidence) IN
          /\ Without(w.obj, {"_jeq"}) = Without(records[i].obj, {"_jeq"})
          /\ Without(EvidenceOf(w), {stage.name}) = EvidenceOf(records[i])
          /\ stage.name \in DOMAIN EvidenceOf(w)
    <3> DEFINE v == records[i]
               name == stage.name
    <3>1. IsJson(v) /\ SlotFree(v, name) /\ IsJson(evidence)
      BY <2>3, <2>4, <2>5
    <3> HIDE DEF v, name
    <3>2. LET w == Attach(v, name, evidence) IN
            /\ Without(w.obj, {"_jeq"}) = Without(v.obj, {"_jeq"})
            /\ Without(EvidenceOf(w), {name}) = EvidenceOf(v)
            /\ name \in DOMAIN EvidenceOf(w)
      BY <3>1, AttachMembers
    <3> QED
      BY <3>2, Zenon DEF v, name
  <2> QED
    BY <2>3, <2>6, Zenon
<1> QED
  BY <1>1, Soundness, PTL

------------------------------------------------------------------------------
(* What follows from it.                                                   *)

\* DecodeResponse and its encoding keep the whole reply: what AttachResponse
\* writes holds every member of the body that came back, nulls in typed fields
\* excepted, and nothing else but the token counters.
THEOREM WholeReplies == Spec => []EvidenceIsTheReply
<1>1. Inv => EvidenceIsTheReply
  <2> SUFFICES ASSUME Inv, stage.kind # "gate", NEW i \in DOMAIN out
               PROVE  IsTheReply(EvidenceOf(out[i])[stage.name].obj, answers[i].obj)
    BY DEF EvidenceIsTheReply
  <2>1. PICK V : Texts(V)
    BY DEF Inv, TypeOK
  <2>2. i \in 1 .. Len(out) /\ i \in 1 .. Len(records)
    <3>1. Len(out) \in Nat /\ Len(records) \in Nat /\ Len(out) <= Len(records) /\ out \in Seq(V)
      BY <2>1, Sequences DEF Inv, InStep, Texts
    <3> QED
      BY <3>1
  <2> DEFINE evidence == EncodedResponse(DecodedResponse(answers[i]))
  <2>3. /\ SlotFree(records[i], stage.name)
        /\ answers[i] \in Replies /\ ResponseDecodes(answers[i])
        /\ out[i] = Attach(records[i], stage.name, evidence)
    BY <2>2 DEF Inv, Attaching, EvidenceFrom
  <2>4. answers[i] \in Json /\ IsJson(evidence)
    BY <2>3, ReplyIsJson, EncodedResponseIsJson
  <2>5. IsJson(records[i])
    <3>1. records \in Seq(V \cup {Malformed})
      BY <2>1 DEF Texts
    <3>2. records[i] \in V \cup {Malformed}
      BY <2>2, <3>1
    <3>3. records[i] # Malformed
      BY <2>3 DEF SlotFree, IsA, Malformed
    <3> QED
      BY <2>1, <3>2, <3>3 DEF IsJson, Texts
  <2>6. IsTheReply(evidence.obj, answers[i].obj)
    BY <2>3, <2>4, ReplyReturns
  <2> HIDE DEF evidence
  <2>7. EvidenceOf(Attach(records[i], stage.name, evidence))[stage.name] = evidence
    <3> DEFINE v == records[i]
               name == stage.name
               new == Field(name, evidence)
    <3>1. IsJson(v) /\ SlotFree(v, name) /\ IsJson(evidence)
      BY <2>3, <2>4, <2>5
    <3> HIDE DEF v, name
    <3>2. EvidenceOf(Attach(v, name, evidence)) = Merge(new, EvidenceOf(v))
      BY <3>1, AttachMembers
    <3>3. evidence # Absent
      BY <3>1, WithinIsJson
    <3>4. name \in DOMAIN new /\ new[name] = evidence
      BY <3>3 DEF Field
    <3> HIDE DEF new
    <3>5. \A key \in DOMAIN new : Merge(new, EvidenceOf(v))[key] = new[key]
      BY MergeMembers
    <3>6. Merge(new, EvidenceOf(v))[name] = new[name]
      BY <3>4, <3>5
    <3> QED
      BY <3>2, <3>4, <3>6, Zenon DEF v, name
  <2> QED
    BY <2>3, <2>6, <2>7, Zenon
<1> QED
  BY <1>1, Soundness, PTL

\* EnrichRequest never pays for a call it cannot use: whatever was sent was
\* sent for a record with a free slot, keeps every contract rule as the service
\* will read it, and carries exactly the state or request the pointer selects.
THEOREM CallsAreWorthIt == Spec => []CallsAreWorthTheirPrice
<1>1. Inv => CallsAreWorthTheirPrice
  <2> SUFFICES ASSUME Inv, NEW i \in DOMAIN asked
               PROVE  LET record == asked[i].record  sent == EncodedRequest(asked[i].request) IN
                        /\ record = records[i]
                        /\ stage.name \notin DOMAIN EvidenceOf(record)
                        /\ Violations(DecodedRequest(sent)) = {}
                        /\ "model" \in DOMAIN sent.obj
                        /\ IF stage.native THEN sent = Select(record, stage.pointer)
                           ELSE sent.obj["state"] = Select(record, stage.pointer)
    BY DEF CallsAreWorthTheirPrice
  <2>1. PICK V : Texts(V)
    BY DEF Inv, TypeOK
  <2>2. i \in 1 .. Len(asked)
    <3> DEFINE A == [record : V \cup {Malformed},
                     request : {RequestFor(stage, r) : r \in V \cup {Malformed}}]
    <3>1. asked \in Seq(A)
      BY <2>1 DEF Texts
    <3> HIDE DEF A
    <3> QED
      BY <3>1
  <2> DEFINE record == records[i]
             request == RequestFor(stage, record)
             sent == EncodedRequest(request)
             selected == Select(record, stage.pointer)
  <2>3. /\ i <= Len(records)
        /\ asked[i] = [record |-> record, request |-> request]
        /\ MayAsk(stage, record)
    BY <2>2 DEF Inv, Asking
  <2>4. /\ SlotFree(record, stage.name) /\ selected # Absent
        /\ stage.native => RequestDecodes(selected)
        /\ request.model # "" /\ Violations(request) = {} /\ RequestEncodes(request)
    BY <2>3 DEF MayAsk
  <2>5. record \in V /\ Closed(V)
    <3>1. records \in Seq(V \cup {Malformed}) /\ Closed(V)
      BY <2>1 DEF Texts
    <3>2. i \in 1 .. Len(records)
      BY <2>2, <2>3, Sequences DEF Inv
    <3>3. record \in V \cup {Malformed}
      BY <3>1, <3>2
    <3>4. record # Malformed
      <4>1. IsA(record, "obj")
        BY <2>4 DEF SlotFree
      <4> HIDE DEF record
      <4> QED
        BY <4>1 DEF IsA, Malformed
    <3> QED
      BY <3>1, <3>3, <3>4
  <2>6. selected \in V
    <3>1. stage.pointer \in Seq(STRING)
      BY Sequences DEF Inv, StageSet
    <3>2. selected \in V \cup {Absent}
      BY <2>5, <3>1, SelectIsJson
    <3> QED
      BY <2>4, <3>2
  <2>7. request.state # Absent
    BY <2>4, ValidRequest
  <2>8. Violations(DecodedRequest(sent)) = {}
    <3>1. \A id \in DOMAIN request.questions :
            QuestionFields \cap DOMAIN request.questions[id].extra = {}
      BY ExtraIsUnknown
    <3> HIDE DEF request
    <3> QED
      BY <2>4, <2>7, <3>1, RulesOutlastEncoding
  <2>9. "model" \in DOMAIN sent.obj /\ sent.obj["state"] = request.state
    BY <2>4, <2>7, EncodedMembers
  <2>10. stage.name \notin DOMAIN EvidenceOf(record)
    BY <2>4 DEF SlotFree
  <2>11. CASE stage.native
    <3>1. request = DecodedRequest(selected)
      BY <2>11 DEF RequestFor
    <3>2. sent = Obj(IF AsString(Member(AsMembers(selected), "model")) = ""
                     THEN Without(AsMembers(selected), {"model"}) ELSE AsMembers(selected))
      BY <2>4, <2>5, <2>6, <2>11, <3>1, RequestReturns
    <3>3. request.model = AsString(Member(AsMembers(selected), "model"))
      BY <3>1 DEF DecodedRequest
    <3>4. sent = Obj(AsMembers(selected))
      BY <2>4, <3>2, <3>3
    <3>5. selected = Obj(AsMembers(selected))
      BY <2>4, <2>5, <2>6, <2>11, <3>1, DecodedRequestMembers
    <3> HIDE DEF record, sent, selected, request
    <3>6. sent = selected
      BY <3>4, <3>5
    <3>7. asked[i].record = record /\ EncodedRequest(asked[i].request) = sent
      BY <2>3 DEF sent
    <3>8. sent = Select(record, stage.pointer)
      BY <3>6 DEF selected
    <3>9. record = records[i]
      BY DEF record
    <3> QED
      BY <2>8, <2>9, <2>10, <2>11, <3>7, <3>8, <3>9, Zenon
  <2>12. CASE ~stage.native
    <3>1. request.state = selected
      BY <2>12 DEF RequestFor
    <3> HIDE DEF record, sent, selected, request
    <3>2. sent.obj["state"] = selected
      BY <2>9, <3>1
    <3> QED
      BY <2>3, <2>8, <2>9, <2>10, <2>12, <3>2 DEF record, request, sent, selected
  <2> QED
    BY <2>11, <2>12
<1> QED
  BY <1>1, Soundness, PTL

------------------------------------------------------------------------------
(* Pieces and lines of a text.                                             *)

\* The symbols of a piece.
LEMMA PieceIs ==
  ASSUME NEW S, NEW s \in Seq(S), NEW a \in 0 .. Len(s), NEW b \in a .. Len(s)
  PROVE  /\ SubSeq(s, a + 1, b) \in Seq(S)
         /\ Len(SubSeq(s, a + 1, b)) = b - a
         /\ \A i \in 1 .. b - a : SubSeq(s, a + 1, b)[i] = s[a + i]
<1> DEFINE x == SubSeq(s, a + 1, b)
<1>0. a \in Nat /\ b \in Nat /\ a <= b /\ b <= Len(s) /\ Len(s) \in Nat
  OBVIOUS
<1>1. \A i \in a + 1 .. b : s[i] \in S
  BY <1>0
<1>2. /\ x \in Seq(S) /\ Len(x) = IF a + 1 <= b THEN b - (a + 1) + 1 ELSE 0
      /\ \A i \in 1 .. b - (a + 1) + 1 : x[i] = s[(a + 1) + i - 1]
  BY <1>0, <1>1, SubSeqProperties
<1> HIDE DEF x
<1>3. Len(x) = b - a /\ \A i \in 1 .. b - a : x[i] = s[a + i]
  <2>1. Len(x) = b - a
    BY <1>0, <1>2
  <2>2. ASSUME NEW i \in 1 .. b - a PROVE x[i] = s[a + i]
    <3>1. i \in 1 .. b - (a + 1) + 1 /\ (a + 1) + i - 1 = a + i
      BY <1>0
    <3> QED
      BY <1>2, <3>1
  <2> QED
    BY <2>1, <2>2
<1> QED
  BY <1>2, <1>3 DEF x

\* A text is a piece of itself.
LEMMA WholePiece ==
  ASSUME NEW S, NEW s \in Seq(S)
  PROVE  SubSeq(s, 1, Len(s)) = s
<1> DEFINE x == SubSeq(s, 0 + 1, Len(s))
<1>1. 0 \in 0 .. Len(s) /\ Len(s) \in 0 .. Len(s) /\ Len(s) \in Nat /\ Len(s) - 0 = Len(s)
  OBVIOUS
<1>2. x \in Seq(S) /\ Len(x) = Len(s) - 0 /\ \A i \in 1 .. Len(s) - 0 : x[i] = s[0 + i]
  BY <1>1, PieceIs
<1> HIDE DEF x
<1>3. ASSUME NEW i \in 1 .. Len(s) PROVE x[i] = s[i]
  <2>1. i \in 1 .. Len(s) - 0 /\ 0 + i = i
    BY <1>1
  <2> QED
    BY <1>2, <2>1
<1>4. x = s
  BY <1>1, <1>2, <1>3, SeqEqual
<1> QED
  BY <1>4 DEF x

\* Trimming does not see the white space at the end of a line.
LEMMA TrimmedEnd ==
  ASSUME NEW S, NEW text \in Seq(S), NEW a \in 0 .. Len(text), NEW e \in a + 1 .. Len(text),
         text[e] \in White
  PROVE  Trimmed(SubSeq(text, a + 1, e)) = Trimmed(SubSeq(text, a + 1, e - 1))
<1> DEFINE x == SubSeq(text, a + 1, e)
           y == SubSeq(text, a + 1, e - 1)
           n == e - a
<1>0. a \in Nat /\ e \in Nat /\ e > a /\ e <= Len(text) /\ Len(text) \in Nat /\ n \in Nat \ {0}
  OBVIOUS
<1>1. x \in Seq(S) /\ Len(x) = n /\ \A i \in 1 .. n : x[i] = text[a + i]
  BY <1>0, PieceIs
<1>2. y \in Seq(S) /\ Len(y) = n - 1 /\ \A i \in 1 .. n - 1 : y[i] = text[a + i]
  <2>1. e - 1 \in a .. Len(text) /\ e - 1 - a = n - 1
    BY <1>0
  <2> QED
    BY <2>1, PieceIs
<1>3. x[n] \in White
  BY <1>0, <1>1
<1> HIDE DEF x, y, n
<1>4. \A i \in 1 .. n - 1 : x[i] = y[i]
  <2> SUFFICES ASSUME NEW i \in 1 .. n - 1 PROVE x[i] = y[i]
    OBVIOUS
  <2>1. i \in 1 .. n
    BY <1>0
  <2> QED
    BY <1>1, <1>2, <2>1
<1> DEFINE solid  == {i \in DOMAIN x : x[i] \notin White}
           solidY == {i \in DOMAIN y : y[i] \notin White}
<1>5. solid = solidY /\ solid \subseteq 1 .. n - 1
  <2>1. DOMAIN x = 1 .. n /\ DOMAIN y = 1 .. n - 1
    BY <1>1, <1>2
  <2>2. ASSUME NEW i \in solid PROVE i \in solidY /\ i \in 1 .. n - 1
    <3>1. i \in 1 .. n /\ i # n
      BY <1>3, <2>1
    <3>2. i \in 1 .. n - 1
      BY <1>0, <3>1
    <3> QED
      BY <1>4, <2>1, <3>2
  <2>3. ASSUME NEW i \in solidY PROVE i \in solid
    <3>1. i \in 1 .. n - 1
      BY <2>1
    <3>2. i \in 1 .. n
      BY <1>0, <3>1
    <3> QED
      BY <1>4, <2>1, <3>1, <3>2
  <2> HIDE DEF solid, solidY
  <2> QED
    BY <2>2, <2>3
<1>6. CASE solid = {}
  BY <1>5, <1>6 DEF Trimmed, x, y
<1>7. CASE solid # {}
  <2> DEFINE b == Min(solid)
             c == Max(solid)
  <2> HIDE DEF solid
  <2>1. b \in solid /\ c \in solid /\ b <= c
    <3>1. solid \subseteq Nat /\ solid \subseteq 0 .. n
      BY <1>0, <1>5
    <3> QED
      BY <1>0, <1>7, <3>1, LeastExists, GreatestExists
  <2>2. b \in 1 .. n - 1 /\ c \in 1 .. n - 1
    BY <1>5, <2>1
  <2> HIDE DEF b, c
  <2> DEFINE p == b - 1
  <2>3. p \in 0 .. n - 1 /\ p + 1 = b /\ c \in p .. n - 1 /\ c \in p .. n /\ p \in 0 .. n
    BY <1>0, <2>1, <2>2
  <2> HIDE DEF p
  <2> DEFINE u == SubSeq(x, p + 1, c)
             w == SubSeq(y, p + 1, c)
  <2>4. u \in Seq(S) /\ Len(u) = c - p /\ \A i \in 1 .. c - p : u[i] = x[p + i]
    BY <1>1, <2>3, PieceIs
  <2>5. w \in Seq(S) /\ Len(w) = c - p /\ \A i \in 1 .. c - p : w[i] = y[p + i]
    BY <1>2, <2>3, PieceIs
  <2> HIDE DEF u, w
  <2>6. SubSeq(x, b, c) = SubSeq(y, b, c)
    <3>1. ASSUME NEW i \in 1 .. c - p PROVE u[i] = w[i]
      <4>1. p + i \in 1 .. n - 1
        BY <1>0, <2>3
      <4> QED
        BY <1>4, <2>4, <2>5, <4>1
    <3>2. u = w
      BY <2>4, <2>5, <3>1, SeqEqual
    <3> QED
      BY <2>3, <3>2 DEF u, w
  <2>7. Trimmed(x) = SubSeq(x, b, c) /\ Trimmed(y) = SubSeq(y, b, c)
    BY <1>5, <1>7 DEF Trimmed, solid, b, c
  <2> QED
    BY <2>6, <2>7 DEF x, y
<1> QED
  BY <1>6, <1>7

\* A stream has read the text up to pos and is at the line that begins after
\* start.
Cut(text, start, pos) ==
  /\ pos \in 0 .. Len(text)
  /\ start \in 0 .. pos
  /\ start \in LineStarts(text) \/ start = Len(text)
  /\ \A i \in start + 1 .. pos : text[i] # Newline
  /\ start < pos => pos < Len(text)

\* The next slice ends at e: the end of the line, or of the text, or neither.
Sliced(text, start, pos, rst, prt) ==
  LET slice == NextSlice(rst)
      left  == SubSeq(rst, Len(slice) + 1, Len(rst))
      line  == prt \o slice
  IN \E e \in pos + 1 .. Len(text) :
       /\ start \in LineStarts(text)
       /\ Len(slice) = e - pos /\ Len(prt) = pos - start
       /\ left = SubSeq(text, e + 1, Len(text))
       /\ line = SubSeq(text, start + 1, e)
       /\ EndsLine(slice) <=> text[e] = Newline
       /\ EndsLine(line) <=> text[e] = Newline
       /\ left = <<>> <=> e = Len(text)
       /\ \A i \in start + 1 .. e - 1 : text[i] # Newline

\* Whatever the buffer's size, a slice moves a stream along its input.
LEMMA SliceMoves ==
  ASSUME NEW S, NEW text \in Seq(S), NEW start, NEW pos, Cut(text, start, pos), pos < Len(text)
  PROVE  Sliced(text, start, pos, SubSeq(text, pos + 1, Len(text)), SubSeq(text, start + 1, pos))
<1> DEFINE rst   == SubSeq(text, pos + 1, Len(text))
           prt   == SubSeq(text, start + 1, pos)
           slice == NextSlice(rst)
           left  == SubSeq(rst, Len(slice) + 1, Len(rst))
           line  == prt \o slice
           L     == Len(text)
<1>0. /\ L \in Nat /\ pos \in Nat /\ start \in Nat /\ start <= pos /\ pos < L
      /\ pos \in 0 .. L /\ start \in 0 .. pos /\ start \in LineStarts(text)
      /\ \A i \in start + 1 .. pos : text[i] # Newline
  BY DEF Cut
<1>1. rst \in Seq(S) /\ Len(rst) = L - pos /\ \A i \in 1 .. L - pos : rst[i] = text[pos + i]
  <2>1. L \in pos .. Len(text)
    BY <1>0
  <2> QED
    BY <1>0, <2>1, PieceIs
<1>2. prt \in Seq(S) /\ Len(prt) = pos - start /\ \A i \in 1 .. pos - start : prt[i] = text[start + i]
  <2>1. start \in 0 .. Len(text) /\ pos \in start .. Len(text)
    BY <1>0
  <2> QED
    BY <2>1, PieceIs
<1> HIDE DEF rst, prt
<1>3. rst # <<>>
  <2>1. Len(rst) # 0
    BY <1>0, <1>1
  <2> QED
    BY <2>1
<1>4. PICK n \in 1 .. Len(rst) :
        /\ slice = SubSeq(rst, 1, n) /\ slice \in Seq(S) /\ Len(slice) = n
        /\ \A i \in 1 .. n - 1 : rst[i] # Newline
  BY <1>1, <1>3, NextSliceIs
<1> HIDE DEF slice
<1> DEFINE e == pos + n
<1>5. /\ n \in Nat \ {0} /\ n <= L - pos /\ e \in pos + 1 .. L /\ e \in Nat
      /\ n \in 1 .. L - pos
  BY <1>0, <1>1, <1>4
<1>6. \A i \in 1 .. n : slice[i] = rst[i] /\ slice[i] = text[pos + i]
  <2>1. slice = SubSeq(rst, 0 + 1, n) /\ 0 \in 0 .. Len(rst) /\ n \in 0 .. Len(rst)
    BY <1>0, <1>1, <1>4, <1>5
  <2>2. \A i \in 1 .. n - 0 : slice[i] = rst[0 + i]
    BY <1>1, <2>1, PieceIs
  <2> SUFFICES ASSUME NEW i \in 1 .. n PROVE slice[i] = rst[i] /\ slice[i] = text[pos + i]
    OBVIOUS
  <2>3. i \in 1 .. n - 0 /\ 0 + i = i /\ i \in 1 .. L - pos
    BY <1>0, <1>5
  <2> QED
    BY <1>1, <2>2, <2>3
<1> HIDE DEF e
<1>7. left = SubSeq(text, e + 1, L)
  <2> DEFINE x == SubSeq(rst, n + 1, Len(rst))
             y == SubSeq(text, e + 1, L)
  <2>1. x \in Seq(S) /\ Len(x) = Len(rst) - n /\ \A i \in 1 .. Len(rst) - n : x[i] = rst[n + i]
    <3>1. n \in 0 .. Len(rst) /\ Len(rst) \in n .. Len(rst)
      BY <1>0, <1>1, <1>5
    <3> QED
      BY <1>1, <3>1, PieceIs
  <2>2. y \in Seq(S) /\ Len(y) = L - e /\ \A i \in 1 .. L - e : y[i] = text[e + i]
    <3>1. e \in 0 .. Len(text) /\ L \in e .. Len(text)
      BY <1>0, <1>5
    <3> QED
      BY <3>1, PieceIs
  <2> HIDE DEF x, y
  <2>3. Len(rst) - n = L - e
    BY <1>0, <1>1, <1>5 DEF e
  <2>4. ASSUME NEW i \in 1 .. L - e PROVE x[i] = y[i]
    <3>1. n + i \in 1 .. L - pos /\ pos + (n + i) = e + i
      BY <1>0, <1>5 DEF e
    <3>2. rst[n + i] = text[e + i]
      BY <1>1, <3>1
    <3> QED
      BY <2>1, <2>2, <2>3, <3>2
  <2>5. x = y
    BY <2>1, <2>2, <2>3, <2>4, SeqEqual
  <2> QED
    BY <1>4, <2>5 DEF left, x, y
<1>8. line = SubSeq(text, start + 1, e)
  <2> DEFINE y == SubSeq(text, start + 1, e)
  <2>1. y \in Seq(S) /\ Len(y) = e - start /\ \A i \in 1 .. e - start : y[i] = text[start + i]
    <3>1. start \in 0 .. Len(text) /\ e \in start .. Len(text)
      BY <1>0, <1>5
    <3> QED
      BY <3>1, PieceIs
  <2>2. /\ line \in Seq(S) /\ Len(line) = Len(prt) + Len(slice)
        /\ \A i \in 1 .. Len(prt) : line[i] = prt[i]
        /\ \A i \in Len(prt) + 1 .. Len(prt) + Len(slice) : line[i] = slice[i - Len(prt)]
    <3>1. prt \in Seq(S) /\ slice \in Seq(S)
      BY <1>2, <1>4
    <3>2. /\ line \in Seq(S) /\ Len(line) = Len(prt) + Len(slice)
          /\ \A i \in 1 .. Len(prt) + Len(slice) :
               line[i] = IF i <= Len(prt) THEN prt[i] ELSE slice[i - Len(prt)]
      BY <3>1, ConcatProperties
    <3>3. Len(prt) \in Nat /\ Len(slice) \in Nat
      BY <3>1
    <3> HIDE DEF line
    <3> QED
      BY <3>2, <3>3
  <2> HIDE DEF line, y
  <2>3. Len(line) = e - start
    BY <1>0, <1>2, <1>4, <1>5, <2>2 DEF e
  <2>4. \A i \in 1 .. e - start : line[i] = text[start + i]
    <3> SUFFICES ASSUME NEW i \in 1 .. e - start PROVE line[i] = text[start + i]
      OBVIOUS
    <3>1. CASE i \in 1 .. pos - start
      BY <1>2, <2>2, <3>1
    <3>2. CASE i \notin 1 .. pos - start
      <4>1. /\ i - (pos - start) \in 1 .. n /\ i \in (pos - start) + 1 .. (pos - start) + n
            /\ pos + (i - (pos - start)) = start + i
        BY <1>0, <1>5, <3>2 DEF e
      <4>2. line[i] = slice[i - (pos - start)]
        BY <1>2, <1>4, <2>2, <4>1
      <4> QED
        BY <1>6, <4>1, <4>2
    <3> QED
      BY <3>1, <3>2
  <2>5. line = y
    BY <2>1, <2>2, <2>3, <2>4, SeqEqual
  <2> QED
    BY <2>5 DEF y
<1>9. slice # <<>> /\ Last(slice) = text[e]
  <2>1. n \in 1 .. n
    BY <1>5
  <2>2. slice[n] = text[e]
    BY <1>6, <2>1 DEF e
  <2> QED
    BY <1>4, <1>5, <2>2 DEF Last
<1>10. line # <<>> /\ Last(line) = text[e]
  <2> DEFINE y == SubSeq(text, start + 1, e)
  <2>1. y \in Seq(S) /\ Len(y) = e - start /\ \A i \in 1 .. e - start : y[i] = text[start + i]
    <3>1. start \in 0 .. Len(text) /\ e \in start .. Len(text)
      BY <1>0, <1>5
    <3> QED
      BY <3>1, PieceIs
  <2> HIDE DEF y, line
  <2>2. e - start \in 1 .. e - start /\ start + (e - start) = e
    BY <1>0, <1>5
  <2>3. y[e - start] = text[e] /\ y # <<>>
    BY <2>1, <2>2
  <2> QED
    BY <1>8, <2>1, <2>3 DEF Last, y
<1>11. left = <<>> <=> e = L
  <2> DEFINE y == SubSeq(text, e + 1, L)
  <2>1. y \in Seq(S) /\ Len(y) = L - e
    <3>1. e \in 0 .. Len(text) /\ L \in e .. Len(text)
      BY <1>0, <1>5
    <3> QED
      BY <3>1, PieceIs
  <2> HIDE DEF y
  <2>2. y = <<>> <=> L - e = 0
    BY <2>1
  <2>3. L - e = 0 <=> e = L
    BY <1>0, <1>5
  <2> QED
    BY <1>7, <2>2, <2>3 DEF y
<1>12. \A i \in start + 1 .. e - 1 : text[i] # Newline
  <2> SUFFICES ASSUME NEW i \in start + 1 .. e - 1 PROVE text[i] # Newline
    OBVIOUS
  <2>1. CASE i <= pos
    <3>1. i \in start + 1 .. pos
      BY <1>0, <1>5, <2>1
    <3> QED
      BY <1>0, <3>1
  <2>2. CASE ~(i <= pos)
    <3>1. i - pos \in 1 .. n - 1 /\ i - pos \in 1 .. L - pos /\ pos + (i - pos) = i
      BY <1>0, <1>5, <2>2 DEF e
    <3> QED
      BY <1>1, <1>4, <3>1
  <2> QED
    BY <2>1, <2>2
<1>13. EndsLine(slice) <=> text[e] = Newline
  BY <1>9 DEF EndsLine
<1>14. EndsLine(line) <=> text[e] = Newline
  BY <1>10 DEF EndsLine
<1>15. Len(slice) = e - pos
  BY <1>0, <1>4, <1>5 DEF e
<1> HIDE DEF left, line
<1>16. /\ e \in pos + 1 .. Len(text) /\ start \in LineStarts(text)
       /\ Len(slice) = e - pos /\ Len(prt) = pos - start
       /\ left = SubSeq(text, e + 1, Len(text))
       /\ line = SubSeq(text, start + 1, e)
       /\ EndsLine(slice) <=> text[e] = Newline
       /\ EndsLine(line) <=> text[e] = Newline
       /\ left = <<>> <=> e = Len(text)
       /\ \A i \in start + 1 .. e - 1 : text[i] # Newline
  BY <1>0, <1>2, <1>5, <1>7, <1>8, <1>11, <1>12, <1>13, <1>14, <1>15, Zenon
<1> QED
  BY <1>16 DEF Sliced, left, line, slice, rst, prt

\* The line after start, once its end e is known.
LEMMA LineIs ==
  ASSUME NEW S, NEW text \in Seq(S), NEW start \in 0 .. Len(text), NEW e \in start + 1 .. Len(text),
         \A i \in start + 1 .. e - 1 : text[i] # Newline
  PROVE  /\ Len(LineAt(text, start)) >= e - start - IF text[e] = Newline THEN 1 ELSE 0
         /\ text[e] = Newline => LineAt(text, start) = SubSeq(text, start + 1, e - 1)
         /\ text[e] # Newline /\ e = Len(text) => LineAt(text, start) = SubSeq(text, start + 1, e)
         /\ text[e] = Newline \/ e = Len(text) =>
              RecordAt(text, start) = Trimmed(SubSeq(text, start + 1, e))
<1> DEFINE ends == {i \in start + 1 .. Len(text) : text[i] = Newline}
           b == IF ends = {} THEN Len(text) ELSE Min(ends) - 1
<1>0. start \in Nat /\ e \in Nat /\ Len(text) \in Nat /\ start < e /\ e <= Len(text)
  OBVIOUS
<1>1. LineAt(text, start) = SubSeq(text, start + 1, b)
  BY DEF LineAt
<1>2. /\ ends \subseteq Nat /\ ends \subseteq start + 1 .. Len(text)
      /\ \A i \in ends : text[i] = Newline /\ i \in Nat
      /\ text[e] = Newline => e \in ends
  BY <1>0
<1>3. \A i \in ends : e <= i
  <2> SUFFICES ASSUME NEW i \in ends, i < e PROVE FALSE
    BY <1>0, <1>2
  <2>1. i \in start + 1 .. e - 1
    BY <1>0, <1>2
  <2> QED
    BY <1>2, <2>1
<1> HIDE DEF ends
<1>4. ends # {} => Min(ends) \in ends /\ \A j \in ends : Min(ends) <= j
  BY <1>2, LeastExists
<1>5. CASE text[e] = Newline
  <2>1. Min(ends) = e
    <3> DEFINE x == Min(ends)
    <3>1. x \in Nat /\ e <= x /\ x <= e
      BY <1>2, <1>3, <1>4, <1>5
    <3> HIDE DEF x
    <3>2. x = e
      BY <1>0, <3>1
    <3> QED
      BY <3>2 DEF x
  <2>2. b = e - 1
    BY <1>2, <1>5, <2>1
  <2> HIDE DEF b
  <2>3. LineAt(text, start) = SubSeq(text, start + 1, e - 1)
    BY <1>1, <2>2
  <2>4. Len(SubSeq(text, start + 1, e - 1)) = e - 1 - start
    <3>1. e - 1 \in start .. Len(text)
      BY <1>0
    <3> QED
      BY <3>1, PieceIs
  <2>5. Trimmed(SubSeq(text, start + 1, e)) = Trimmed(SubSeq(text, start + 1, e - 1))
    BY <1>5, TrimmedEnd DEF White
  <2> QED
    BY <1>0, <1>5, <2>3, <2>4, <2>5 DEF RecordAt
<1>6. CASE text[e] # Newline
  <2>1. b \in e .. Len(text)
    <3>1. CASE ends = {}
      BY <1>0, <3>1
    <3>2. CASE ends # {}
      <4> DEFINE x == Min(ends)
      <4>1. x \in ends /\ e <= x /\ x # e /\ x \in Nat /\ x <= Len(text)
        <5>1. x \in ends /\ e <= x
          BY <1>3, <1>4, <3>2
        <5> HIDE DEF x
        <5>2. text[x] = Newline /\ x \in start + 1 .. Len(text)
          BY <1>2, <5>1
        <5>3. x # e
          BY <1>6, <5>2
        <5> QED
          BY <1>0, <5>1, <5>2, <5>3
      <4> HIDE DEF x
      <4>2. x - 1 \in e .. Len(text)
        BY <1>0, <4>1
      <4> QED
        BY <3>2, <4>2 DEF x
    <3> QED
      BY <3>1, <3>2
  <2> HIDE DEF b
  <2>2. Len(LineAt(text, start)) = b - start
    <3>1. b \in start .. Len(text)
      BY <1>0, <2>1
    <3> QED
      BY <1>1, <3>1, PieceIs
  <2>3. e = Len(text) => b = e
    BY <1>0, <2>1
  <2>4. Len(LineAt(text, start)) >= e - start - 0
    BY <1>0, <2>1, <2>2
  <2>5. e = Len(text) => LineAt(text, start) = SubSeq(text, start + 1, e)
    BY <1>1, <2>3
  <2> QED
    BY <1>6, <2>4, <2>5 DEF RecordAt
<1> QED
  BY <1>5, <1>6

------------------------------------------------------------------------------
(* Where a stream is in its input.                                         *)

\* A line whose content is within the limit holds no oversized record.
LEMMA RecordFits ==
  ASSUME NEW S, NEW text \in Seq(S), NEW start \in 0 .. Len(text), NEW e \in start + 1 .. Len(text),
         \A i \in start + 1 .. e - 1 : text[i] # Newline,
         text[e] = Newline \/ e = Len(text),
         ~(e - start - (IF text[e] = Newline THEN 1 ELSE 0) > RecordLimit)
  PROVE  ~Oversized(RecordAt(text, start))
<1> DEFINE line == LineAt(text, start)
<1>0. start \in Nat /\ e \in Nat /\ Len(text) \in Nat /\ start < e /\ e <= Len(text) /\ RecordLimit \in Nat
  BY FramingAssumption
<1>1. line \in Seq(S)
  BY LineIsText
<1>2. Len(line) = e - start - (IF text[e] = Newline THEN 1 ELSE 0)
  <2>1. CASE text[e] = Newline
    <3>1. line = SubSeq(text, start + 1, e - 1)
      BY <2>1, LineIs
    <3>2. e - 1 \in start .. Len(text) /\ e - 1 - start = e - start - 1
      BY <1>0
    <3>3. Len(SubSeq(text, start + 1, e - 1)) = e - 1 - start
      BY <3>2, PieceIs
    <3> QED
      BY <2>1, <3>1, <3>2, <3>3
  <2>2. CASE text[e] # Newline
    <3>1. line = SubSeq(text, start + 1, e)
      BY <2>2, LineIs
    <3>2. e \in start .. Len(text)
      BY <1>0
    <3>3. Len(SubSeq(text, start + 1, e)) = e - start
      BY <3>2, PieceIs
    <3> QED
      BY <1>0, <2>2, <3>1, <3>3
  <2> QED
    BY <2>1, <2>2
<1> HIDE DEF line
<1>3. Len(Trimmed(line)) <= Len(line) /\ Trimmed(line) \in Seq(S)
  BY <1>1, TrimmedIsText
<1>4. Len(line) \in Nat /\ Len(Trimmed(line)) \in Nat
  BY <1>1, <1>3
<1>5. Len(line) <= RecordLimit
  BY <1>0, <1>2, <1>4
<1>6. ~(Len(Trimmed(line)) > RecordLimit)
  BY <1>0, <1>3, <1>4, <1>5
<1> QED
  BY <1>6 DEF Oversized, RecordAt, line

\* A line that ends adds its record, if it holds one, to those before it.
LEMMA LineCounts ==
  ASSUME NEW S, NEW text \in Seq(S), NEW start \in LineStarts(text), NEW e \in start + 1 .. Len(text),
         \A i \in start + 1 .. e - 1 : text[i] # Newline
  PROVE  LET starts == RecordStarts(text)
             before == Cardinality({i \in starts : i < start})
             upto   == Cardinality({i \in starts : i < e})
         IN /\ before \in Nat
            /\ RecordAt(text, start) = <<>> => upto = before
            /\ RecordAt(text, start) # <<>> =>
                 upto = before + 1 /\ Nth(starts, before + 1) = start
<1> DEFINE starts == RecordStarts(text)
           A == {i \in starts : i < start}
           B == {i \in starts : i < e}
<1>0. /\ start \in Nat /\ e \in Nat /\ start < e /\ Len(text) \in Nat
      /\ starts \subseteq Nat /\ IsFiniteSet(starts)
  <2>1. start \in Nat
    BY DEF LineStarts
  <2> QED
    BY <2>1, RecordStartsAre
<1>1. IsFiniteSet(A) /\ Cardinality(A) \in Nat
  BY <1>0, FS_Subset, FS_CardinalityType
<1>2. \A i \in starts : i \in LineStarts(text) /\ i \in Nat
  BY <1>0 DEF RecordStarts
<1>3. RecordAt(text, start) # <<>> <=> start \in starts
  BY DEF RecordStarts
<1>4. \A i \in starts : i < e <=> i < start \/ i = start
  <2> SUFFICES ASSUME NEW i \in starts, i < e, i > start PROVE FALSE
    BY <1>0, <1>2
  <2>1. i \in start + 1 .. e - 1 /\ i # 0
    BY <1>0, <1>2
  <2>2. text[i] = Newline
    BY <1>2, <2>1 DEF LineStarts
  <2> QED
    BY <2>1, <2>2
<1> HIDE DEF starts
<1>5. CASE start \notin starts
  <2>1. A = B
    BY <1>4, <1>5
  <2> QED
    BY <1>1, <1>3, <1>5, <2>1 DEF starts
<1>6. CASE start \in starts
  <2>1. B = A \cup {start} /\ B = {i \in starts : i <= start} /\ start \notin A
    <3>1. ~(start < start) /\ \A i \in starts : i <= start <=> i < start \/ i = start
      BY <1>0, <1>2
    <3> QED
      BY <1>4, <1>6, <3>1
  <2>2. Cardinality(B) = Cardinality(A) + 1
    <3> HIDE DEF A, B
    <3> QED
      BY <1>1, <2>1, FS_AddElement
  <2>3. Rank(starts, start) = Cardinality(A) + 1
    BY <2>1, <2>2 DEF Rank
  <2>4. Nth(starts, Rank(starts, start)) = start
    BY <1>0, <1>6, NthIsOnly
  <2>5. Nth(starts, Cardinality(A) + 1) = start
    BY <2>3, <2>4
  <2> QED
    BY <1>1, <1>3, <1>6, <2>2, <2>5 DEF starts
<1> QED
  BY <1>5, <1>6

------------------------------------------------------------------------------
Pos   == Len(input) - Len(rest)
Start == Pos - Len(part)

\* A stream's slices and its part lie in the input where it has come to, and
\* its records are those of the lines before that.
Reading ==
  /\ Cut(input, Start, Pos)
  /\ rest = SubSeq(input, Pos + 1, Len(input))
  /\ part = SubSeq(input, Start + 1, Pos)
  /\ Len(records) = Cardinality({i \in RecordStarts(input) : i < Start})
  /\ \A k \in 1 .. Len(records) :
       LET record == RecordAt(input, Nth(RecordStarts(input), k)) IN
         records[k] = Parsed(record) /\ ~Oversized(record)

\* What mapRecords would make of the whole input.
Batch == LET lines == BatchRecords(input) IN [k \in DOMAIN lines |-> Parsed(lines[k])]

\* Some line of the input is over the limit.
TooLong == \E i \in LineStarts(input) : Oversized(LineAt(input, i))

\* A stream that stops with all its records written has read them all, or
\* refuses its input for a reason.
Settled ==
  pc = "over" /\ Len(out) = Len(records) =>
    \/ err = "none" /\ records = Batch
    \/ err = "INPUT_INVALID" /\ (Batch = <<>> \/ TooLong)

Framed == Streams(stage) => Reading /\ Settled

\* Before anything of a text is read.
LEMMA NothingRead ==
  ASSUME NEW S, NEW text \in Seq(S)
  PROVE  /\ Cut(text, 0, 0)
         /\ SubSeq(text, 0 + 1, Len(text)) = text
         /\ SubSeq(text, 0 + 1, 0) = <<>>
         /\ Cardinality({i \in RecordStarts(text) : i < 0}) = 0
<1>1. Cut(text, 0, 0)
  BY DEF Cut, LineStarts
<1>2. SubSeq(text, 0 + 1, Len(text)) = text
  BY WholePiece
<1>3. SubSeq(text, 0 + 1, 0) = <<>>
  <2> DEFINE y == SubSeq(text, 0 + 1, 0)
  <2>1. 0 \in 0 .. Len(text) /\ 0 \in 0 .. 0
    OBVIOUS
  <2>2. y \in Seq(S) /\ Len(y) = 0 - 0
    BY <2>1, PieceIs
  <2> HIDE DEF y
  <2>3. y = <<>>
    BY <2>2
  <2> QED
    BY <2>3 DEF y
<1>4. Cardinality({i \in RecordStarts(text) : i < 0}) = 0
  <2>1. \A i \in RecordStarts(text) : i \in Nat
    BY RecordStartsAre
  <2>2. {i \in RecordStarts(text) : i < 0} = {}
    BY <2>1
  <2> QED
    BY <2>2, FS_EmptySet
<1> QED
  BY <1>1, <1>2, <1>3, <1>4

\* A slice that ends no line, ends one without a record, or ends one with a
\* record within the limit: each leaves the stream where its input says.
LEMMA SliceIsFramed ==
  ASSUME Inv, Framed, ReadSlice
  PROVE  Framed'
<1> DEFINE slice == NextSlice(rest)
           left  == SubSeq(rest, Len(slice) + 1, Len(rest))
           line  == part \o slice
           starts == RecordStarts(input)
           before == Cardinality({i \in starts : i < Start})
           record == RecordAt(input, Start)
<1>1. /\ pc = "read" /\ Streams(stage) /\ rest # <<>>
      /\ UNCHANGED <<chain, at, input, out>>
      /\ IF ContentLength(part, slice) > RecordLimit
         THEN pc' = "over" /\ err' = "INPUT_INVALID" /\ UNCHANGED <<rest, part, records>>
         ELSE /\ rest' = left
              /\ IF ~LineIsOver(line, left)
                 THEN part' = line /\ UNCHANGED <<records, pc>>
                 ELSE /\ part' = <<>>
                      /\ IF Trimmed(line) = <<>> THEN UNCHANGED <<records, pc>>
                         ELSE /\ records' = Append(records, Parsed(Trimmed(line)))
                              /\ pc' = "record"
  BY DEF ReadSlice, End, written
<1>2. stage' = stage /\ Streams(stage)' = Streams(stage)
  BY <1>1 DEF stage, Streams
<1>3. Reading
  BY <1>1 DEF Framed
<1>4. PICK V : Texts(V)
  BY DEF Inv, TypeOK
<1> DEFINE S == SymbolsOf(V)
<1>5. /\ input \in Seq(S) /\ rest \in Seq(S) /\ part \in Seq(S) /\ records \in Seq(V \cup {Malformed})
      /\ Len(input) \in Nat /\ Len(rest) \in Nat /\ Len(part) \in Nat /\ Len(records) \in Nat
  BY <1>4 DEF Texts
<1> HIDE DEF S
<1>6. /\ Cut(input, Start, Pos) /\ Pos \in Nat /\ Start \in Nat /\ Start <= Pos /\ Pos <= Len(input)
      /\ rest = SubSeq(input, Pos + 1, Len(input)) /\ part = SubSeq(input, Start + 1, Pos)
  BY <1>3, <1>5 DEF Reading, Cut
<1>7. Pos < Len(input)
  <2>1. Len(rest) # 0
    BY <1>1, <1>5
  <2>2. \A n, m \in Nat : m # 0 => n - m < n
    OBVIOUS
  <2> QED
    BY <1>5, <2>1, <2>2 DEF Pos
<1>8. PICK e \in Pos + 1 .. Len(input) :
        /\ Start \in LineStarts(input)
        /\ Len(slice) = e - Pos /\ Len(part) = Pos - Start
        /\ left = SubSeq(input, e + 1, Len(input))
        /\ line = SubSeq(input, Start + 1, e)
        /\ EndsLine(slice) <=> input[e] = Newline
        /\ EndsLine(line) <=> input[e] = Newline
        /\ left = <<>> <=> e = Len(input)
        /\ \A i \in Start + 1 .. e - 1 : input[i] # Newline
  <2>1. Sliced(input, Start, Pos, SubSeq(input, Pos + 1, Len(input)), SubSeq(input, Start + 1, Pos))
    BY <1>5, <1>6, <1>7, SliceMoves, Zenon
  <2>2. Sliced(input, Start, Pos, rest, part)
    BY <1>6, <2>1, Zenon
  <2> QED
    BY <2>2 DEF Sliced
<1> HIDE DEF slice, left, line
<1>9. /\ e \in Nat /\ Pos < e /\ e <= Len(input) /\ Start < e
      /\ Start \in 0 .. Len(input) /\ e \in Start + 1 .. Len(input)
  BY <1>5, <1>6
<1>10. ContentLength(part, slice) = e - Start - (IF input[e] = Newline THEN 1 ELSE 0)
  <2>1. Len(part) + Len(slice) = e - Start
    BY <1>6, <1>8, <1>9
  <2> QED
    BY <1>8, <2>1 DEF ContentLength
<1>11. input' = input /\ RecordStarts(input)' = starts
  BY <1>1 DEF RecordStarts, LineStarts, RecordAt, LineAt
<1>12. CASE ContentLength(part, slice) > RecordLimit
  <2>1. pc' = "over" /\ err' = "INPUT_INVALID" /\ UNCHANGED <<input, rest, part, records>>
    BY <1>1, <1>12
  <2>2. Reading'
    BY <1>3, <2>1 DEF Reading, Pos, Start, Cut
  <2>3. Oversized(LineAt(input, Start))
    <3>1. Len(LineAt(input, Start)) >= e - Start - IF input[e] = Newline THEN 1 ELSE 0
      BY <1>5, <1>8, <1>9, LineIs
    <3>2. LineAt(input, Start) \in Seq(S)
      BY <1>5, <1>9, LineIsText
    <3>3. Len(LineAt(input, Start)) \in Nat /\ RecordLimit \in Nat
      BY <3>2, FramingAssumption
    <3>4. \A n, m, k \in Int : n >= m /\ m > k => n > k
      OBVIOUS
    <3>5. ContentLength(part, slice) \in Int
      BY <1>9, <1>6, <1>10
    <3>6. Len(LineAt(input, Start)) > RecordLimit
      BY <1>10, <1>12, <3>1, <3>3, <3>4, <3>5
    <3> QED
      BY <3>6 DEF Oversized
  <2>4. TooLong'
    BY <1>1, <1>8, <2>3 DEF TooLong, LineStarts, Oversized, LineAt
  <2>5. Settled'
    BY <2>1, <2>4 DEF Settled
  <2> QED
    BY <2>2, <2>5 DEF Framed
<1>13. CASE ~(ContentLength(part, slice) > RecordLimit)
  <2>1. rest' = left /\ Len(left) = Len(input) - e
    <3>1. e \in 0 .. Len(input) /\ Len(input) \in e .. Len(input)
      BY <1>5, <1>9
    <3> QED
      BY <1>1, <1>5, <1>8, <1>13, <3>1, PieceIs
  <2>2. Pos' = e
    <3>1. \A n, m \in Nat : n - (n - m) = m
      OBVIOUS
    <3>2. Len(rest') = Len(input) - e /\ Len(input') - Len(rest') = e
      BY <1>1, <1>5, <1>9, <2>1, <3>1
    <3> QED
      BY <3>2 DEF Pos
  <2>3. Settled'
    BY <1>1, <1>13 DEF Settled
  <2>4. rest' = SubSeq(input, e + 1, Len(input))
    BY <1>8, <2>1
  <2>5. LineIsOver(line, left) <=> input[e] = Newline \/ e = Len(input)
    BY <1>8 DEF LineIsOver
  <2>6. /\ Len(records) = before
        /\ \A k \in 1 .. Len(records) :
             LET r == RecordAt(input, Nth(starts, k)) IN records[k] = Parsed(r) /\ ~Oversized(r)
    BY <1>3 DEF Reading
  <2>7. CASE ~LineIsOver(line, left)
    <3>1. part' = line /\ records' = records
      BY <1>1, <1>13, <2>7
    <3>2. Len(line) = e - Start
      <4>1. e \in Start .. Len(input)
        BY <1>5, <1>6, <1>9
      <4> QED
        BY <1>5, <1>8, <1>9, <4>1, PieceIs
    <3>3. Start' = Start
      <4>1. \A n, m \in Nat : n - (n - m) = m
        OBVIOUS
      <4>2. e - Len(part') = Start
        BY <1>6, <1>9, <3>1, <3>2, <4>1
      <4>3. Start' = Pos' - Len(part')
        BY DEF Start
      <4> QED
        BY <2>2, <4>2, <4>3
    <3>4. Cut(input, Start, e)
      <4>1. e < Len(input) /\ input[e] # Newline
        BY <1>9, <2>5, <2>7
      <4>2. \A i \in Start + 1 .. e : input[i] # Newline
        <5> SUFFICES ASSUME NEW i \in Start + 1 .. e PROVE input[i] # Newline
          OBVIOUS
        <5>1. i = e \/ i \in Start + 1 .. e - 1
          BY <1>6, <1>9
        <5> QED
          BY <1>8, <4>1, <5>1
      <4> QED
        BY <1>5, <1>6, <1>8, <1>9, <4>1, <4>2 DEF Cut
    <3>5. part' = SubSeq(input, Start + 1, e)
      BY <1>8, <3>1
    <3>6. Cut(input, Start, Pos)'
      BY <1>11, <2>2, <3>3, <3>4 DEF Cut, LineStarts
    <3>7. Reading'
      BY <1>11, <2>2, <2>4, <2>6, <3>1, <3>3, <3>5, <3>6 DEF Reading, Oversized, RecordAt, LineAt
    <3> QED
      BY <2>3, <3>7 DEF Framed
  <2>8. CASE LineIsOver(line, left)
    <3>1. part' = <<>>
      BY <1>1, <1>13, <2>8
    <3>2. Start' = e
      <4>1. e - Len(part') = e
        BY <1>9, <3>1
      <4>2. Start' = Pos' - Len(part')
        BY DEF Start
      <4> QED
        BY <2>2, <4>1, <4>2
    <3>3. Cut(input, e, e)
      BY <1>5, <1>9, <2>5, <2>8 DEF Cut, LineStarts
    <3>4. part' = SubSeq(input, e + 1, e)
      <4>1. e \in 0 .. Len(input) /\ e \in e .. Len(input)
        BY <1>5, <1>9
      <4> DEFINE x == SubSeq(input, e + 1, e)
      <4>2. x \in Seq(S) /\ Len(x) = e - e
        BY <1>5, <4>1, PieceIs
      <4> HIDE DEF x
      <4>3. x = <<>>
        BY <1>9, <4>2
      <4> QED
        BY <3>1, <4>3 DEF x
    <3>5. Cut(input, Start, Pos)'
      BY <1>11, <2>2, <3>2, <3>3 DEF Cut, LineStarts
    <3>6. Trimmed(line) = record
      BY <1>5, <1>8, <1>9, <2>5, <2>8, LineIs
    <3> DEFINE upto == Cardinality({i \in starts : i < e})
    <3>7. /\ before \in Nat
          /\ record = <<>> => upto = before
          /\ record # <<>> => upto = before + 1 /\ Nth(starts, before + 1) = Start
      BY <1>5, <1>8, <1>9, LineCounts
    <3>8. ~Oversized(record)
      BY <1>5, <1>8, <1>9, <1>10, <1>13, <2>5, <2>8, RecordFits
    <3> HIDE DEF before, upto, record, starts
    <3>9. /\ Len(records') = upto
          /\ \A k \in 1 .. Len(records') :
               LET r == RecordAt(input, Nth(starts, k)) IN records'[k] = Parsed(r) /\ ~Oversized(r)
      <4>1. CASE record = <<>>
        <5>1. records' = records
          BY <1>1, <1>13, <2>8, <3>6, <4>1
        <5> QED
          BY <2>6, <3>7, <4>1, <5>1
      <4>2. CASE record # <<>>
        <5> DEFINE p == Parsed(record)
                   R == V \cup {Malformed}
        <5>1. records' = Append(records, p) /\ records \in Seq(R)
          BY <1>1, <1>5, <1>13, <2>8, <3>6, <4>2
        <5> HIDE DEF p, R
        <5>2. /\ Len(records') = Len(records) + 1
              /\ records'[Len(records) + 1] = p
              /\ \A k \in 1 .. Len(records) : records'[k] = records[k]
          BY <5>1
        <5>3. ASSUME NEW k \in 1 .. Len(records')
              PROVE  LET r == RecordAt(input, Nth(starts, k)) IN records'[k] = Parsed(r) /\ ~Oversized(r)
          <6>1. CASE k = Len(records) + 1
            <7>1. RecordAt(input, Nth(starts, k)) = record
              BY <2>6, <3>7, <4>2, <6>1 DEF record
            <7> QED
              BY <3>8, <5>2, <6>1, <7>1 DEF p
          <6>2. CASE k # Len(records) + 1
            <7>1. k \in 1 .. Len(records)
              BY <1>5, <5>2, <6>2
            <7> QED
              BY <2>6, <5>2, <7>1
          <6> QED
            BY <6>1, <6>2
        <5> QED
          BY <2>6, <3>7, <4>2, <5>2, <5>3
      <4> QED
        BY <4>1, <4>2
    <3>10. Reading'
      BY <1>11, <2>2, <2>4, <3>2, <3>4, <3>5, <3>9 DEF Reading, Oversized, RecordAt, LineAt, upto, starts
    <3> QED
      BY <2>3, <3>10 DEF Framed
  <2> QED
    BY <2>7, <2>8
<1> QED
  BY <1>12, <1>13

\* The first stage has read nothing,
LEMMA InitIsFramed == Init => Framed
<1> SUFFICES ASSUME Init PROVE Reading /\ Settled
  BY DEF Framed
<1>1. rest = input /\ part = <<>> /\ records = <<>> /\ pc = "read" /\ input \in Seq(SymbolsOf(Json))
  BY StagesAssumption DEF Init
<1>2. Len(input) \in Nat /\ Len(rest) = Len(input) /\ Len(part) = 0 /\ Len(records) = 0
  BY <1>1
<1>3. Pos = 0 /\ Start = 0
  <2>1. \A m, n, k \in Nat : m = n /\ k = 0 => m - n = 0 /\ m - n - k = 0
    OBVIOUS
  <2>2. Len(input) - Len(rest) = 0 /\ Len(input) - Len(rest) - Len(part) = 0
    BY <1>2, <2>1
  <2> QED
    BY <2>2, Zenon DEF Pos, Start
<1>4. /\ Cut(input, 0, 0) /\ rest = SubSeq(input, 0 + 1, Len(input)) /\ part = SubSeq(input, 0 + 1, 0)
      /\ Len(records) = Cardinality({i \in RecordStarts(input) : i < 0})
  BY <1>1, <1>2, NothingRead
<1>5. Reading
  BY <1>1, <1>2, <1>3, <1>4 DEF Reading
<1> QED
  BY <1>1, <1>5 DEF Settled

\* nor has the next one.
LEMMA NextStageIsFramed ==
  ASSUME Inv, NextStage
  PROVE  Framed'
<1>1. /\ rest' = input' /\ part' = <<>> /\ records' = <<>> /\ pc' = "read" /\ input' = stdout
  BY DEF NextStage, StartsWith
<1>2. PICK V : Texts(V)
  BY DEF Inv, TypeOK
<1>3. input' \in Seq(SymbolsOf(V))
  BY <1>1, <1>2 DEF Texts
<1>4. Len(input') \in Nat /\ Len(rest') = Len(input') /\ Len(part') = 0 /\ Len(records') = 0
  BY <1>1, <1>3
<1>5. Pos' = 0 /\ Start' = 0
  <2>1. \A m, n, k \in Nat : m = n /\ k = 0 => m - n = 0 /\ m - n - k = 0
    OBVIOUS
  <2>2. Len(input') - Len(rest') = 0 /\ Len(input') - Len(rest') - Len(part') = 0
    BY <1>4, <2>1
  <2> QED
    BY <2>2, Zenon DEF Pos, Start
<1>6. /\ Cut(input', 0, 0) /\ rest' = SubSeq(input', 0 + 1, Len(input')) /\ part' = SubSeq(input', 0 + 1, 0)
      /\ Len(records') = Cardinality({i \in RecordStarts(input') : i < 0})
  BY <1>1, <1>3, <1>4, NothingRead
<1>7. Reading'
  <2>1. Cut(input, Start, Pos)' /\ RecordStarts(input)' = RecordStarts(input')
    BY <1>5, <1>6 DEF Cut, LineStarts, RecordStarts, RecordAt, LineAt
  <2>2. /\ rest' = SubSeq(input', Pos' + 1, Len(input'))
        /\ part' = SubSeq(input', Start' + 1, Pos')
        /\ Len(records') = Cardinality({i \in RecordStarts(input)' : i < Start'})
    BY <1>5, <1>6, <2>1
  <2>3. 1 .. Len(records') = {}
    BY <1>4
  <2> QED
    BY <2>1, <2>2, <2>3, Zenon DEF Reading
<1> QED
  BY <1>1, <1>7 DEF Framed, Settled

\* A step that reads nothing.
LEMMA StillFramed ==
  ASSUME Framed, UNCHANGED <<chain, at, input, rest, part, records>>,
         \/ UNCHANGED <<pc, err, out>>
         \/ pc' # "over"
         \/ out' = out /\ Len(out) # Len(records)
         \/ err' = "none" /\ records = Batch
         \/ err' = "INPUT_INVALID" /\ Batch = <<>>
  PROVE  Framed'
<1>1. stage' = stage /\ Streams(stage)' = Streams(stage)
  BY DEF stage, Streams
<1>2. Reading => Reading'
  <2>1. Pos' = Pos /\ Start' = Start /\ input' = input /\ records' = records
    BY DEF Pos, Start
  <2>2. RecordStarts(input)' = RecordStarts(input) /\ Cut(input, Start, Pos)' = Cut(input, Start, Pos)
    BY <2>1 DEF Cut, LineStarts, RecordStarts, RecordAt, LineAt
  <2> QED
    BY <2>1, <2>2 DEF Reading, Oversized, RecordAt, LineAt
<1>3. Batch' = Batch /\ TooLong' = TooLong
  BY DEF Batch, BatchRecords, TooLong, LineStarts, RecordStarts, RecordAt, LineAt, Oversized
<1>4. Settled => Settled'
  BY <1>3 DEF Settled
<1> QED
  BY <1>1, <1>2, <1>4 DEF Framed

\* Where a stream has come to is what the whole input's records begin with.
LEMMA FramedAgrees == Inv /\ Framed => FramingsAgree
<1> SUFFICES ASSUME Inv, Framed, Streams(stage) PROVE FramingsAgree
  BY DEF FramingsAgree
<1>0. Reading /\ Settled
  BY DEF Framed
<1>1. PICK V : Texts(V)
  BY DEF Inv, TypeOK
<1> DEFINE starts == RecordStarts(input)
           lines == BatchRecords(input)
           batch == [k \in DOMAIN lines |-> Parsed(lines[k])]
           n == Cardinality(starts)
           read == {i \in starts : i < Start}
           R == V \cup {Malformed}
<1>2. input \in Seq(SymbolsOf(V)) /\ records \in Seq(R) /\ Len(records) \in Nat
  BY <1>1 DEF Texts
<1>3. /\ starts \subseteq 0 .. Len(input) /\ starts \subseteq Nat /\ IsFiniteSet(starts) /\ n \in Nat
  BY <1>2, RecordStartsAre
<1>4. batch \in Seq(R) /\ Len(batch) = n
  BY <1>2, BatchIs
<1>5. lines = [k \in 1 .. n |-> RecordAt(input, Nth(starts, k))]
  BY DEF BatchRecords
<1> HIDE DEF starts, n, R, lines
<1>6. Len(records) = Cardinality(read) /\ Len(records) <= n
  <2>1. Len(records) = Cardinality(read)
    BY <1>0 DEF Reading, starts
  <2>2. read \in SUBSET starts
    OBVIOUS
  <2> HIDE DEF read
  <2>3. Cardinality(read) <= Cardinality(starts)
    BY <1>3, <2>2, FS_Subset
  <2> QED
    BY <2>1, <2>3 DEF n
<1>7. \A k \in 1 .. Len(records) :
        k \in DOMAIN lines /\ records[k] = batch[k] /\ ~Oversized(lines[k])
  <2> SUFFICES ASSUME NEW k \in 1 .. Len(records)
               PROVE  k \in DOMAIN lines /\ records[k] = batch[k] /\ ~Oversized(lines[k])
    OBVIOUS
  <2>1. k \in 1 .. n
    BY <1>2, <1>3, <1>6
  <2>2. k \in DOMAIN lines /\ lines[k] = RecordAt(input, Nth(starts, k))
    BY <1>5, <2>1
  <2>3. records[k] = Parsed(RecordAt(input, Nth(starts, k))) /\ ~Oversized(RecordAt(input, Nth(starts, k)))
    BY <1>0 DEF Reading, starts
  <2> QED
    BY <2>2, <2>3
<1> HIDE DEF batch
<1>8. IsPrefix(records, batch)
  <2> DEFINE m == Len(records)
             x == SubSeq(records, 0 + 1, m)
             y == SubSeq(batch, 0 + 1, m)
  <2>1. m \in Nat /\ {0, m} \subseteq 0 .. Len(records) /\ {0, m} \subseteq 0 .. Len(batch)
    BY <1>2, <1>3, <1>4, <1>6
  <2>2. x \in Seq(R) /\ Len(x) = m - 0 /\ \A i \in 1 .. m - 0 : x[i] = records[0 + i]
    BY <1>2, <2>1, PieceIs
  <2>3. y \in Seq(R) /\ Len(y) = m - 0 /\ \A i \in 1 .. m - 0 : y[i] = batch[0 + i]
    BY <1>4, <2>1, PieceIs
  <2> HIDE DEF x, y
  <2>4. ASSUME NEW i \in 1 .. m - 0 PROVE x[i] = y[i]
    <3>1. i \in 1 .. Len(records) /\ 0 + i = i
      BY <2>1
    <3> QED
      BY <1>7, <2>2, <2>3, <3>1
  <2>5. x = y
    BY <2>2, <2>3, <2>4, SeqEqual
  <2>6. SubSeq(records, 1, Len(records)) = SubSeq(batch, 1, Len(records))
    BY <2>5 DEF x, y
  <2> QED
    BY <1>4, <1>6, <2>6 DEF IsPrefix
<1>9. pc = "read" /\ rest = <<>> => records = batch
  <2> SUFFICES ASSUME rest = <<>> PROVE records = batch
    OBVIOUS
  <2>1. Pos = Len(input) /\ Len(input) \in Nat
    <3>1. Len(input) \in Nat /\ Len(rest) = 0
      BY <1>2
    <3>2. \A i \in Nat : i - 0 = i
      OBVIOUS
    <3> QED
      BY <3>1, <3>2 DEF Pos
  <2>2. Start = Len(input)
    BY <1>0, <2>1 DEF Reading, Cut
  <2>3. starts \subseteq read
    <3> SUFFICES ASSUME NEW i \in starts PROVE i < Start
      OBVIOUS
    <3>1. i \in 0 .. Len(input) /\ RecordAt(input, i) # <<>>
      BY <1>3 DEF starts, RecordStarts
    <3>2. i # Len(input)
      <4> SUFFICES ASSUME i = Len(input) PROVE FALSE
        OBVIOUS
      <4> DEFINE line == LineAt(input, i)
      <4>1. line \in Seq(SymbolsOf(V))
        BY <1>2, <3>1, LineIsText
      <4>2. Len(line) = 0
        <5>1. {j \in i + 1 .. Len(input) : input[j] = Newline} = {}
          BY <2>1
        <5>2. line = SubSeq(input, i + 1, i)
          BY <5>1 DEF LineAt
        <5>3. i \in i .. Len(input)
          BY <2>1
        <5>4. Len(SubSeq(input, i + 1, i)) = i - i
          BY <1>2, <3>1, <5>3, PieceIs
        <5> QED
          BY <2>1, <5>2, <5>4
      <4> HIDE DEF line
      <4>3. Trimmed(line) \in Seq(SymbolsOf(V)) /\ Len(Trimmed(line)) <= 0
        BY <4>1, <4>2, TrimmedIsText
      <4>4. Trimmed(line) = <<>>
        BY <4>3
      <4> QED
        BY <3>1, <4>4 DEF RecordAt, line
    <3> QED
      BY <2>1, <2>2, <3>1, <3>2
  <2>4. read = starts
    BY <2>3
  <2>5. Len(records) = n
    BY <1>6, <2>4 DEF n
  <2> QED
    BY <1>2, <1>4, <1>7, <2>5, SeqEqual
<1>10. pc = "over" /\ err = "INPUT_INVALID" /\ Len(out) = Len(records) =>
         records = <<>> \/ \E i \in LineStarts(input) : Oversized(LineAt(input, i))
  <2>1. batch = <<>> => records = <<>>
    BY <1>2, <1>3, <1>4, <1>6
  <2> QED
    BY <1>0, <2>1 DEF Settled, Batch, TooLong, batch, lines
<1> QED
  BY <1>7, <1>8, <1>9, <1>10 DEF FramingsAgree, lines, batch

\* Every step keeps a stream where its input says.
LEMMA NextIsFramed == Inv /\ Framed /\ [Next]_vars => Framed'
<1> SUFFICES ASSUME Inv, Framed, [Next]_vars
             PROVE  Framed'
  OBVIOUS
<1> USE DEF readVars, written, history, End
<1>0. Len(out) \in Nat /\ Len(records) \in Nat
  BY Sequences DEF Inv
<1>1. CASE ReadBatch
  <2>1. ~Streams(stage) /\ stage' = stage
    BY <1>1 DEF ReadBatch, stage
  <2>2. ~Streams(stage)'
    BY <2>1 DEF Streams
  <2> QED
    BY <2>2 DEF Framed
<1>2. CASE ReadSlice
  BY <1>2, SliceIsFramed
<1>3. CASE EndOfStream
  <2>1. /\ UNCHANGED <<chain, at, input, rest, part, records>>
        /\ err' = IF records = <<>> THEN "INPUT_INVALID" ELSE "none"
        /\ pc = "read" /\ rest = <<>> /\ Streams(stage)
    BY <1>3 DEF EndOfStream
  <2>2. records = Batch
    BY <2>1, FramedAgrees DEF FramingsAgree, Batch
  <2> QED
    BY <2>1, <2>2, StillFramed
<1>4. CASE TakeRecord
  <2>1. /\ UNCHANGED <<chain, at, input, rest, part, records>>
        /\ out' = out /\ Len(out) # Len(records)
    BY <1>0, <1>4 DEF TakeRecord
  <2> QED
    BY <2>1, StillFramed
<1>5. CASE CallFails
  <2>1. UNCHANGED <<chain, at, input, rest, part, records>> /\ out' = out /\ pc = "calling"
    BY <1>5 DEF CallFails
  <2>2. Len(out) # Len(records)
    BY <1>0, <2>1 DEF Inv, InStep
  <2> QED
    BY <2>1, <2>2, StillFramed
<1>6. CASE CallAnswers
  <2>1. /\ UNCHANGED <<chain, at, input, rest, part, records>>
        /\ pc' # "over" \/ out' = out
        /\ pc = "calling"
    BY <1>6 DEF CallAnswers, Emit
  <2>2. Len(out) # Len(records)
    BY <1>0, <2>1 DEF Inv, InStep
  <2> QED
    BY <2>1, <2>2, StillFramed
<1>7. CASE GateRecord
  <2>1. ~Streams(stage) /\ stage' = stage
    BY <1>7 DEF GateRecord, Streams, stage
  <2>2. ~Streams(stage)'
    BY <2>1 DEF Streams
  <2> QED
    BY <2>2 DEF Framed
<1>8. CASE EndOfBatch
  <2>1. pc = "record" /\ Len(out) = Len(records) /\ stage' = stage
    BY <1>8 DEF EndOfBatch, stage
  <2>2. ~Streams(stage)
    BY <1>0, <2>1 DEF Inv, InStep
  <2>3. ~Streams(stage)'
    BY <2>1, <2>2 DEF Streams
  <2> QED
    BY <2>3 DEF Framed
<1>9. CASE NextStage
  BY <1>9, NextStageIsFramed
<1>10. CASE UNCHANGED vars
  <2>1. UNCHANGED <<chain, at, input, rest, part, records>> /\ UNCHANGED <<pc, err, out>>
    BY <1>10 DEF vars
  <2> QED
    BY <2>1, StillFramed
<1> QED
  BY <1>1, <1>2, <1>3, <1>4, <1>5, <1>6, <1>7, <1>8, <1>9, <1>10 DEF Next, Finished

\* readNDJSONRecord, slice by slice and whatever the size of its buffer, and
\* mapRecords, all at once, cut every input into the same records: what a
\* stream has read is what the batch begins with, all of it at the end, and it
\* fails for its input only where a line is over the limit or none holds a record.
THEOREM StreamsCutAlike == Spec => []FramingsAgree
<1>1. Init => Inv /\ Framed
  BY InitIsSound, InitIsFramed
<1>2. Inv /\ Framed /\ [Next]_vars => (Inv /\ Framed)'
  BY NextIsSound, NextIsFramed
<1> QED
  BY <1>1, <1>2, FramedAgrees, PTL DEF Spec

------------------------------------------------------------------------------
(* What one stage wrote, as the text the next one reads.                   *)

\* The lines of a text, one for each of the values: the k-th ends at f[k].
LedgerBy(f, text, values) ==
  /\ f \in [0 .. Len(values) -> Nat]
  /\ f[0] = 0 /\ f[Len(values)] = Len(text)
  /\ \A k \in 1 .. Len(values) :
       /\ f[k] = f[k - 1] + Size(values[k]) + 1
       /\ text[f[k - 1] + 1] = Byte(values[k])
       /\ \A i \in 2 .. Size(values[k]) : text[f[k - 1] + i] = Pad
       /\ text[f[k]] = Newline
  /\ \A j, k \in 0 .. Len(values) : j < k => f[j] < f[k]
  /\ \A i \in 1 .. Len(text) : text[i] = Newline => \E k \in 1 .. Len(values) : i = f[k]

Ledger(text, values) == \E f : LedgerBy(f, text, values)

\* Nothing written is no text,
LEMMA NothingWritten == Ledger(<<>>, <<>>)
<1> DEFINE f == [k \in 0 .. 0 |-> 0]
<1>1. Len(<<>>) = 0 /\ 1 .. 0 = {} /\ 0 .. 0 = {0}
  OBVIOUS
<1>2. f \in [0 .. 0 -> Nat] /\ f[0] = 0 /\ \A j, k \in 0 .. 0 : ~(j < k)
  OBVIOUS
<1> HIDE DEF f
<1>3. LedgerBy(f, <<>>, <<>>)
  BY <1>1, <1>2 DEF LedgerBy
<1> QED
  BY <1>3 DEF Ledger

\* and each record written adds its line.
LEMMA LedgerGrows ==
  ASSUME NEW S, NEW text \in Seq(S), NEW T, NEW values \in Seq(T), Ledger(text, values),
         NEW v \in T, \A w \in T : IsJson(w), WrittenLine(v) \in Seq(S)
  PROVE  Ledger(text \o WrittenLine(v), Append(values, v))
<1> DEFINE n == Len(values)
           L == Len(text)
           line == WrittenLine(v)
           text2 == text \o line
           values2 == Append(values, v)
           z == Size(v)
<1>1. PICK f : LedgerBy(f, text, values)
  BY DEF Ledger
<1>2. /\ f \in [0 .. n -> Nat] /\ f[0] = 0 /\ f[n] = L
      /\ \A k \in 1 .. n :
           /\ f[k] = f[k - 1] + Size(values[k]) + 1
           /\ text[f[k - 1] + 1] = Byte(values[k])
           /\ \A i \in 2 .. Size(values[k]) : text[f[k - 1] + i] = Pad
           /\ text[f[k]] = Newline
      /\ \A j, k \in 0 .. n : j < k => f[j] < f[k]
      /\ \A i \in 1 .. L : text[i] = Newline => \E k \in 1 .. n : i = f[k]
  BY <1>1 DEF LedgerBy
<1>3. n \in Nat /\ L \in Nat /\ z \in Nat /\ z >= 2
  BY SizeIs
<1>4. /\ line \in Seq(S) /\ Len(line) = z + 1 /\ line[1] = Byte(v)
      /\ \A i \in 2 .. z : line[i] = Pad
      /\ line[z + 1] = Newline
  BY WrittenLineIs
<1> HIDE DEF line, z
<1>5. /\ Len(text2) = L + (z + 1)
      /\ \A i \in 1 .. L : text2[i] = text[i]
      /\ \A i \in 1 .. z + 1 : text2[L + i] = line[i]
  <2>1. /\ Len(text2) = L + Len(line)
        /\ \A i \in 1 .. L + Len(line) : text2[i] = IF i <= L THEN text[i] ELSE line[i - L]
    BY <1>4, ConcatProperties
  <2> HIDE DEF text2
  <2>2. \A i \in 1 .. L : i \in 1 .. L + (z + 1) /\ i <= L
    BY <1>3
  <2>3. \A i \in 1 .. z + 1 : L + i \in 1 .. L + (z + 1) /\ ~(L + i <= L) /\ (L + i) - L = i
    BY <1>3
  <2>4. \A i \in 1 .. z + 1 : text2[L + i] = line[i]
    <3> SUFFICES ASSUME NEW i \in 1 .. z + 1 PROVE text2[L + i] = line[i]
      OBVIOUS
    <3>1. text2[L + i] = line[(L + i) - L]
      BY <1>4, <2>1, <2>3
    <3> QED
      BY <2>3, <3>1
  <2> QED
    BY <1>4, <2>1, <2>2, <2>4
<1>6. /\ values2 \in Seq(T) /\ Len(values2) = n + 1 /\ values2[n + 1] = v
      /\ \A k \in 1 .. n : values2[k] = values[k]
  OBVIOUS
<1> HIDE DEF n, L, text2, values2
<1> DEFINE g == [k \in 0 .. n + 1 |-> IF k = n + 1 THEN L + z + 1 ELSE f[k]]
<1>7. /\ DOMAIN g = 0 .. n + 1
      /\ g[n + 1] = L + z + 1
      /\ \A k \in 0 .. n : g[k] = f[k] /\ f[k] \in Nat /\ f[k] <= L
  <2>1. n + 1 \in 0 .. n + 1 /\ \A k \in 0 .. n : k \in 0 .. n + 1 /\ k # n + 1
    BY <1>3
  <2>2. \A k \in 0 .. n : f[k] \in Nat /\ f[k] <= L
    <3> SUFFICES ASSUME NEW k \in 0 .. n PROVE f[k] \in Nat /\ f[k] <= L
      OBVIOUS
    <3>1. f[k] \in Nat
      BY <1>2
    <3>2. k = n \/ k < n
      BY <1>3
    <3>3. k < n => f[k] < f[n]
      BY <1>2, <1>3
    <3> QED
      BY <1>2, <1>3, <3>1, <3>2, <3>3
  <2> QED
    BY <2>1, <2>2
<1>8. g \in [0 .. n + 1 -> Nat]
  <2> SUFFICES ASSUME NEW k \in 0 .. n + 1 PROVE (IF k = n + 1 THEN L + z + 1 ELSE f[k]) \in Nat
    OBVIOUS
  <2>1. k # n + 1 => k \in 0 .. n
    BY <1>3
  <2>2. k # n + 1 => f[k] \in Nat
    BY <1>7, <2>1
  <2>3. L + z + 1 \in Nat
    BY <1>3
  <2> QED
    BY <2>2, <2>3
<1> HIDE DEF g
<1>9. g[0] = 0 /\ g[n + 1] = Len(text2)
  <2>1. 0 \in 0 .. n
    BY <1>3
  <2> QED
    BY <1>2, <1>3, <1>5, <1>7, <2>1
<1>10. ASSUME NEW k \in 1 .. n + 1
       PROVE  /\ g[k] = g[k - 1] + Size(values2[k]) + 1
              /\ text2[g[k - 1] + 1] = Byte(values2[k])
              /\ \A i \in 2 .. Size(values2[k]) : text2[g[k - 1] + i] = Pad
              /\ text2[g[k]] = Newline
  <2>1. CASE k = n + 1
    <3>1. g[k - 1] = L /\ g[k] = L + (z + 1) /\ values2[k] = v
      <4>1. n \in 0 .. n /\ k - 1 = n
        BY <1>3, <2>1
      <4>2. g[k - 1] = L
        BY <1>2, <1>7, <4>1
      <4>3. L + z + 1 = L + (z + 1)
        BY <1>3
      <4> QED
        BY <1>6, <1>7, <2>1, <4>2, <4>3
    <3>2. Size(v) = z
      BY DEF z
    <3>3. 1 \in 1 .. z + 1 /\ z + 1 \in 1 .. z + 1 /\ \A i \in 2 .. z : i \in 1 .. z + 1
      BY <1>3
    <3>4. text2[L + 1] = Byte(v) /\ text2[L + (z + 1)] = Newline
      BY <1>4, <1>5, <3>3
    <3>5. \A i \in 2 .. z : text2[L + i] = Pad
      BY <1>4, <1>5, <3>3
    <3>6. L + (z + 1) = L + z + 1
      BY <1>3
    <3> QED
      BY <3>1, <3>2, <3>4, <3>5, <3>6
  <2>2. CASE k # n + 1
    <3>1. k \in 1 .. n /\ k \in 0 .. n /\ k - 1 \in 0 .. n
      BY <1>3, <2>2
    <3>2. g[k] = f[k] /\ g[k - 1] = f[k - 1] /\ values2[k] = values[k]
      BY <1>6, <1>7, <3>1
    <3> DEFINE a == f[k - 1]
               s == Size(values[k])
    <3>4. /\ f[k] = a + s + 1 /\ text[a + 1] = Byte(values[k])
          /\ \A i \in 2 .. s : text[a + i] = Pad
          /\ text[f[k]] = Newline
      BY <1>2, <3>1
    <3>5. f[k] \in Nat /\ f[k] <= L /\ a \in Nat /\ a < f[k]
      <4>1. k - 1 < k
        BY <1>3
      <4> QED
        BY <1>2, <1>7, <3>1, <4>1
    <3>6. s \in Nat
      <4>1. values[k] \in T
        BY <3>1 DEF n
      <4> QED
        BY <4>1, SizeIs
    <3> HIDE DEF a, s
    <3>7. a + 1 \in 1 .. L /\ f[k] \in 1 .. L /\ \A i \in 2 .. s : a + i \in 1 .. L
      BY <1>3, <3>4, <3>5, <3>6
    <3>8. /\ text2[a + 1] = text[a + 1] /\ text2[f[k]] = text[f[k]]
          /\ \A i \in 2 .. s : text2[a + i] = text[a + i]
      BY <1>5, <3>7
    <3> QED
      BY <3>2, <3>4, <3>8 DEF a, s
  <2> QED
    BY <2>1, <2>2
<1>11. \A j, k \in 0 .. n + 1 : j < k => g[j] < g[k]
  <2> SUFFICES ASSUME NEW j \in 0 .. n + 1, NEW k \in 0 .. n + 1, j < k PROVE g[j] < g[k]
    OBVIOUS
  <2>1. j \in 0 .. n
    BY <1>3
  <2>2. CASE k = n + 1
    BY <1>3, <1>7, <2>1, <2>2
  <2>3. CASE k # n + 1
    <3>1. k \in 0 .. n
      BY <1>3, <2>3
    <3> QED
      BY <1>2, <1>7, <2>1, <3>1
  <2> QED
    BY <2>2, <2>3
<1>12. ASSUME NEW i \in 1 .. Len(text2), text2[i] = Newline
       PROVE  \E k \in 1 .. n + 1 : i = g[k]
  <2>1. CASE i <= L
    <3>1. i \in 1 .. L
      BY <1>3, <2>1
    <3>2. PICK k \in 1 .. n : i = f[k]
      BY <1>2, <1>5, <1>12, <3>1
    <3>3. k \in 1 .. n + 1 /\ k \in 0 .. n
      BY <1>3
    <3> QED
      BY <1>7, <3>2, <3>3
  <2>2. CASE ~(i <= L)
    <3> DEFINE j == i - L
    <3>1. j \in 1 .. z + 1 /\ L + j = i
      BY <1>3, <1>5, <2>2
    <3> HIDE DEF j
    <3>2. line[j] = Newline
      BY <1>5, <1>12, <3>1
    <3>3. j = z + 1
      <4>1. j # 1
        BY <1>4, <3>2, SymbolsDiffer
      <4>2. j \notin 2 .. z
        BY <1>4, <3>2, SymbolsDiffer
      <4> QED
        BY <1>3, <3>1, <4>1, <4>2
    <3>4. i = L + z + 1 /\ n + 1 \in 1 .. n + 1
      BY <1>3, <3>1, <3>3
    <3> QED
      BY <1>7, <3>4
  <2> QED
    BY <2>1, <2>2
<1>13. LedgerBy(g, text2, values2)
  BY <1>6, <1>8, <1>9, <1>10, <1>11, <1>12 DEF LedgerBy
<1> QED
  BY <1>13 DEF Ledger, text2, values2, line

\* What neither begins nor ends with white space is left as it is.
LEMMA TrimmedSolid ==
  ASSUME NEW S, NEW line \in Seq(S), Len(line) # 0,
         line[1] \notin White, line[Len(line)] \notin White
  PROVE  Trimmed(line) = line
<1> DEFINE n == Len(line)
           solid == {i \in DOMAIN line : line[i] \notin White}
<1>1. n \in Nat \ {0} /\ solid \subseteq 1 .. n /\ 1 \in solid /\ n \in solid
  OBVIOUS
<1>2. Trimmed(line) = SubSeq(line, Min(solid), Max(solid))
  <2>1. solid # {}
    BY <1>1
  <2> QED
    BY <2>1 DEF Trimmed
<1> HIDE DEF solid, n
<1>3. Min(solid) = 1
  <2> DEFINE m == Min(solid)
  <2>1. m \in solid /\ m <= 1
    <3>1. solid \subseteq Nat /\ solid # {}
      BY <1>1
    <3> QED
      BY <1>1, <3>1, LeastExists
  <2> HIDE DEF m
  <2>2. m = 1
    BY <1>1, <2>1
  <2> QED
    BY <2>2 DEF m
<1>4. Max(solid) = n
  <2> DEFINE m == Max(solid)
  <2>1. m \in solid /\ n <= m
    <3>1. solid \subseteq 0 .. n /\ solid # {} /\ n \in Nat
      BY <1>1
    <3> QED
      BY <1>1, <3>1, GreatestExists
  <2> HIDE DEF m
  <2>2. m = n
    BY <1>1, <2>1
  <2> QED
    BY <2>2 DEF m
<1> QED
  BY <1>2, <1>3, <1>4, WholePiece DEF n

\* One line of what was written, read back.
LEMMA LedgerLine ==
  ASSUME NEW V, NEW text \in Seq(SymbolsOf(V)), NEW T, NEW values \in Seq(T), \A w \in T : IsJson(w),
         NEW f, LedgerBy(f, text, values), NEW k \in 1 .. Len(values)
  PROVE  /\ f[k - 1] \in LineStarts(text) /\ f[k - 1] \in 0 .. Len(text)
         /\ Len(LineAt(text, f[k - 1])) = Size(values[k])
         /\ RecordAt(text, f[k - 1]) = LineAt(text, f[k - 1])
         /\ RecordAt(text, f[k - 1]) # <<>>
         /\ Parsed(RecordAt(text, f[k - 1])) = values[k]
<1> DEFINE n == Len(values)
           a == f[k - 1]
           e == f[k]
           v == values[k]
           z == Size(v)
           line == LineAt(text, a)
           S == SymbolsOf(V)
<1>0. n \in Nat /\ k \in 1 .. n /\ k \in 0 .. n /\ k - 1 \in 0 .. n /\ k - 1 < k
  OBVIOUS
<1>1. /\ f \in [0 .. n -> Nat] /\ f[0] = 0 /\ f[n] = Len(text)
      /\ e = a + z + 1 /\ text[a + 1] = Byte(v)
      /\ \A i \in 2 .. z : text[a + i] = Pad
      /\ text[e] = Newline
      /\ \A i, j \in 0 .. n : i < j => f[i] < f[j]
      /\ \A j \in 1 .. n : text[f[j]] = Newline
  BY DEF LedgerBy
<1>2. IsJson(v) /\ z \in Nat /\ z >= 2
  <2>1. v \in T
    BY <1>0
  <2>2. IsJson(v)
    BY <2>1
  <2> HIDE DEF v
  <2> QED
    BY <2>2, SizeIs
<1> HIDE DEF n, v, z, S
<1>3. a \in Nat /\ e \in Nat /\ e <= Len(text) /\ Len(text) \in Nat
  <2>1. a \in Nat /\ e \in Nat
    BY <1>0, <1>1
  <2>2. k = n \/ k < n
    BY <1>0
  <2>3. n \in 0 .. n
    BY <1>0
  <2>4. k < n => f[k] < f[n]
    BY <1>0, <1>1, <2>3
  <2>5. e <= Len(text)
    BY <1>1, <2>1, <2>2, <2>4
  <2> QED
    BY <2>1, <2>5
<1>4. a \in LineStarts(text)
  <2>1. CASE k = 1
    <3>1. a = 0
      BY <1>1, <2>1
    <3> QED
      BY <3>1 DEF LineStarts
  <2>2. CASE k # 1
    <3>1. k - 1 \in 1 .. n
      BY <1>0, <2>2
    <3>2. text[a] = Newline
      BY <1>1, <3>1
    <3>3. 0 \in 0 .. n /\ 0 < k - 1
      BY <1>0, <3>1
    <3>4. f[0] < f[k - 1]
      BY <1>0, <1>1, <3>3
    <3>5. a \in 1 .. Len(text)
      <4> HIDE DEF a, e
      <4>1. 0 < a
        BY <1>1, <3>4 DEF a
      <4>2. a < e
        BY <1>1, <1>2, <1>3
      <4> QED
        BY <1>3, <4>1, <4>2
    <3>6. a \in DOMAIN text
      BY <3>5
    <3> QED
      BY <3>2, <3>6 DEF LineStarts
  <2> QED
    BY <2>1, <2>2
<1> HIDE DEF a, e
<1>5. a \in 0 .. Len(text) /\ e \in a + 1 .. Len(text) /\ e - 1 = a + z
  BY <1>1, <1>2, <1>3
<1>6. \A i \in a + 1 .. e - 1 : text[i] # Newline
  <2> SUFFICES ASSUME NEW i \in a + 1 .. e - 1 PROVE text[i] # Newline
    OBVIOUS
  <2> DEFINE j == i - a
  <2>1. j \in 1 .. z /\ a + j = i
    BY <1>2, <1>3, <1>5
  <2> HIDE DEF j
  <2>2. j = 1 \/ j \in 2 .. z
    BY <1>2, <2>1
  <2>3. text[i] \in {Byte(v), Pad}
    BY <1>1, <2>1, <2>2
  <2> QED
    BY <2>3, SymbolsDiffer
<1>7. line = SubSeq(text, a + 1, a + z)
  <2>1. text \in Seq(S)
    BY DEF S
  <2>2. line = SubSeq(text, a + 1, e - 1)
    BY <1>1, <1>5, <1>6, <2>1, LineIs
  <2> QED
    BY <1>5, <2>2
<1> HIDE DEF line
<1>8. line \in Seq(S) /\ Len(line) = z /\ \A i \in 1 .. z : line[i] = text[a + i]
  <2>1. a + z \in a .. Len(text) /\ (a + z) - a = z
    BY <1>2, <1>3, <1>5
  <2>2. text \in Seq(S)
    BY DEF S
  <2> DEFINE b == a + z
  <2> HIDE DEF b
  <2>3. /\ SubSeq(text, a + 1, b) \in Seq(S) /\ Len(SubSeq(text, a + 1, b)) = b - a
        /\ \A i \in 1 .. b - a : SubSeq(text, a + 1, b)[i] = text[a + i]
    <3>1. b \in a .. Len(text)
      BY <2>1 DEF b
    <3> QED
      BY <1>5, <2>2, <3>1, PieceIs, Zenon
  <2> QED
    BY <1>7, <2>1, <2>3 DEF b
<1>9. line[1] = Byte(v) /\ \A i \in 2 .. z : line[i] = Pad
  <2>1. 1 \in 1 .. z /\ \A i \in 2 .. z : i \in 1 .. z
    BY <1>2
  <2> QED
    BY <1>1, <1>8, <2>1
<1>10. Trimmed(line) = line
  <2>1. z \in 2 .. z /\ z # 0
    BY <1>2
  <2>2. line[1] \notin White /\ line[Len(line)] \notin White
    BY <1>8, <1>9, <2>1, SymbolsDiffer
  <2> QED
    BY <1>8, <2>1, <2>2, TrimmedSolid
<1>11. line # <<>>
  BY <1>2, <1>8
<1>12. Parsed(line) = v
  <2>1. "val" \in DOMAIN line[1] /\ line[1].val = v
    BY <1>9, SymbolsDiffer
  <2>2. Len(line) = Size(line[1].val)
    BY <1>8, <2>1 DEF z
  <2>3. \A i \in 2 .. Len(line) : line[i] = Pad
    BY <1>8, <1>9
  <2> QED
    BY <1>11, <2>1, <2>2, <2>3 DEF Parsed
<1> QED
  BY <1>4, <1>5, <1>8, <1>10, <1>11, <1>12 DEF RecordAt, line, a, v, z

\* What a stage wrote cuts into the records it wrote, each as long as it is.
LEMMA LedgerReads ==
  ASSUME NEW V, NEW text \in Seq(SymbolsOf(V)), NEW T, NEW values \in Seq(T), \A w \in T : IsJson(w),
         Ledger(text, values)
  PROVE  LET lines == BatchRecords(text) IN
           /\ [k \in DOMAIN lines |-> Parsed(lines[k])] = values
           /\ text = <<>> => values = <<>>
           /\ \A i \in LineStarts(text) : Oversized(LineAt(text, i)) =>
                \E k \in DOMAIN values : Size(values[k]) > RecordLimit
<1> DEFINE n == Len(values)
           S == SymbolsOf(V)
           starts == RecordStarts(text)
<1>1. PICK f : LedgerBy(f, text, values)
  BY DEF Ledger
<1>2. /\ f \in [0 .. n -> Nat] /\ f[0] = 0 /\ f[n] = Len(text)
      /\ \A i, j \in 0 .. n : i < j => f[i] < f[j]
      /\ \A i \in 1 .. Len(text) : text[i] = Newline => \E k \in 1 .. n : i = f[k]
  BY <1>1 DEF LedgerBy
<1>3. n \in Nat /\ text \in Seq(S) /\ Len(text) \in Nat /\ DOMAIN values = 1 .. n
  OBVIOUS
<1>4. \A k \in 1 .. n :
        /\ f[k - 1] \in LineStarts(text) /\ f[k - 1] \in 0 .. Len(text)
        /\ Len(LineAt(text, f[k - 1])) = Size(values[k])
        /\ RecordAt(text, f[k - 1]) # <<>>
        /\ Parsed(RecordAt(text, f[k - 1])) = values[k]
  BY <1>1, LedgerLine
<1> HIDE DEF n, S
<1>5. \A i \in LineStarts(text) : \E k \in 0 .. n : i = f[k]
  <2> SUFFICES ASSUME NEW i \in LineStarts(text) PROVE \E k \in 0 .. n : i = f[k]
    OBVIOUS
  <2>1. CASE i = 0
    <3>1. 0 \in 0 .. n
      BY <1>3
    <3> QED
      BY <1>2, <2>1, <3>1
  <2>2. CASE i # 0
    <3>1. i \in 1 .. Len(text) /\ text[i] = Newline
      BY <2>2 DEF LineStarts
    <3>2. PICK k \in 1 .. n : i = f[k]
      BY <1>2, <3>1
    <3>3. k \in 0 .. n
      BY <1>3
    <3> QED
      BY <3>2, <3>3
  <2> QED
    BY <2>1, <2>2
<1>6. LineAt(text, Len(text)) = <<>> /\ RecordAt(text, Len(text)) = <<>>
  <2> DEFINE m == Len(text)
             line == LineAt(text, m)
  <2>1. {j \in m + 1 .. m : text[j] = Newline} = {}
    BY <1>3
  <2>2. line = SubSeq(text, m + 1, m)
    BY <2>1 DEF LineAt
  <2>3. m \in 0 .. Len(text) /\ m \in m .. Len(text)
    BY <1>3
  <2>4. line \in Seq(S) /\ Len(line) = m - m
    BY <1>3, <2>2, <2>3, PieceIs
  <2> HIDE DEF line
  <2>5. line = <<>> /\ Len(line) = 0
    BY <1>3, <2>4
  <2>6. Trimmed(line) \in Seq(S) /\ Len(Trimmed(line)) <= 0
    BY <2>4, <2>5, TrimmedIsText
  <2>7. Trimmed(line) = <<>>
    BY <2>6
  <2> QED
    BY <2>5, <2>7 DEF RecordAt, line
<1>7. starts = {f[k - 1] : k \in 1 .. n}
  <2>1. \A k \in 1 .. n : f[k - 1] \in starts
    BY <1>4 DEF RecordStarts
  <2>2. ASSUME NEW i \in starts PROVE \E k \in 1 .. n : i = f[k - 1]
    <3>1. i \in LineStarts(text) /\ RecordAt(text, i) # <<>>
      BY DEF RecordStarts
    <3>2. PICK j \in 0 .. n : i = f[j]
      BY <1>5, <3>1
    <3>3. j # n
      BY <1>2, <1>6, <3>1, <3>2
    <3>4. j + 1 \in 1 .. n /\ (j + 1) - 1 = j
      BY <1>3, <3>3
    <3> QED
      BY <3>2, <3>4
  <2> HIDE DEF starts
  <2> QED
    BY <2>1, <2>2
<1> HIDE DEF starts
<1>8. \A k \in 1 .. n : Cardinality({f[j - 1] : j \in 1 .. k}) = k
  <2> SUFFICES ASSUME NEW k \in 1 .. n PROVE Cardinality({f[j - 1] : j \in 1 .. k}) = k
    OBVIOUS
  <2> DEFINE A == 1 .. k
             B == {f[j - 1] : j \in 1 .. k}
             g == [j \in A |-> f[j - 1]]
  <2>1. k \in Nat /\ IsFiniteSet(A) /\ Cardinality(A) = k
    <3>1. k \in Nat /\ 1 \in Int /\ k \in Int /\ 1 <= k /\ k - 1 + 1 = k
      BY <1>3
    <3>2. IsFiniteSet(1 .. k) /\ Cardinality(1 .. k) = IF 1 > k THEN 0 ELSE k - 1 + 1
      BY <3>1, FS_Interval
    <3> QED
      BY <3>1, <3>2
  <2>2. \A i, j \in A : i # j => f[i - 1] # f[j - 1]
    <3> SUFFICES ASSUME NEW i \in A, NEW j \in A, i # j PROVE f[i - 1] # f[j - 1]
      OBVIOUS
    <3>1. i - 1 \in 0 .. n /\ j - 1 \in 0 .. n /\ (i - 1 < j - 1 \/ j - 1 < i - 1)
      BY <1>3
    <3>2. f[i - 1] \in Nat /\ f[j - 1] \in Nat
      BY <1>2, <3>1
    <3>3. f[i - 1] < f[j - 1] \/ f[j - 1] < f[i - 1]
      BY <1>2, <3>1
    <3> QED
      BY <3>2, <3>3
  <2>3. g \in Bijection(A, B)
    BY <2>2 DEF Bijection, Injection, Surjection, IsInjective
  <2> HIDE DEF A, B, g
  <2>4. ExistsBijection(A, B)
    BY <2>3 DEF ExistsBijection
  <2>5. Cardinality(B) = Cardinality(A)
    BY <2>1, <2>4, FS_Bijection
  <2> QED
    BY <2>1, <2>5 DEF B
<1>9. Cardinality(starts) = n
  <2>1. CASE n = 0
    <3>1. starts = {}
      BY <1>7, <2>1
    <3> QED
      BY <2>1, <3>1, FS_EmptySet
  <2>2. CASE n # 0
    <3>1. n \in 1 .. n
      BY <1>3, <2>2
    <3> QED
      BY <1>7, <1>8, <3>1
  <2> QED
    BY <2>1, <2>2
<1>10. ASSUME NEW k \in 1 .. n
       PROVE  Nth(starts, k) = f[k - 1]
  <2>1. f[k - 1] \in starts
    BY <1>7
  <2>2. ASSUME NEW i \in starts
        PROVE  i <= f[k - 1] <=> i \in {f[j - 1] : j \in 1 .. k}
    <3>1. PICK j \in 1 .. n : i = f[j - 1]
      BY <1>7
    <3>2. j - 1 \in 0 .. n /\ k - 1 \in 0 .. n /\ j \in Int /\ k \in Int
      BY <1>3
    <3>3. f[j - 1] \in Nat /\ f[k - 1] \in Nat
      BY <1>2, <3>2
    <3>4. CASE j <= k
      <4>1. j \in 1 .. k
        BY <3>4
      <4>2. i \in {f[l - 1] : l \in 1 .. k}
        BY <3>1, <4>1
      <4>3. j - 1 = k - 1 \/ j - 1 < k - 1
        BY <3>2, <3>4
      <4>4. f[j - 1] <= f[k - 1]
        BY <1>2, <3>2, <3>3, <4>3
      <4> QED
        BY <3>1, <4>2, <4>4
    <3>5. CASE ~(j <= k)
      <4>1. k - 1 < j - 1
        BY <3>2, <3>5
      <4>2. f[k - 1] < f[j - 1]
        BY <1>2, <3>2, <4>1
      <4>3. ASSUME NEW l \in 1 .. k PROVE i # f[l - 1]
        <5>1. l - 1 \in 0 .. n /\ l - 1 < j - 1
          BY <1>3, <3>2, <3>5
        <5>2. f[l - 1] < f[j - 1] /\ f[l - 1] \in Nat
          BY <1>2, <3>2, <5>1
        <5> QED
          BY <3>1, <3>3, <5>2
      <4>4. ~(i <= f[k - 1])
        BY <3>1, <3>3, <4>2
      <4> QED
        BY <4>3, <4>4
    <3> QED
      BY <3>4, <3>5
  <2>3. {i \in starts : i <= f[k - 1]} = {f[j - 1] : j \in 1 .. k}
    <3>1. \A j \in 1 .. k : f[j - 1] \in starts
      <4>1. \A j \in 1 .. k : j \in 1 .. n
        BY <1>3
      <4> QED
        BY <1>7, <4>1
    <3> QED
      BY <2>2, <3>1
  <2>4. Rank(starts, f[k - 1]) = k
    BY <1>8, <2>3 DEF Rank
  <2>5. starts \subseteq Nat /\ IsFiniteSet(starts)
    BY <1>3, RecordStartsAre DEF starts
  <2> QED
    BY <2>1, <2>4, <2>5, NthIsOnly
<1> DEFINE lines == BatchRecords(text)
           batch == [k \in DOMAIN lines |-> Parsed(lines[k])]
<1>11. lines = [k \in 1 .. n |-> RecordAt(text, Nth(starts, k))]
  BY <1>9 DEF BatchRecords, starts
<1>12. batch \in Seq(V \cup {Malformed}) /\ Len(batch) = n
  <2>1. Len(batch) = Cardinality(RecordStarts(text)) /\ batch \in Seq(V \cup {Malformed})
    BY BatchIs
  <2> QED
    BY <1>9, <2>1 DEF starts
<1>13. \A k \in 1 .. n : batch[k] = values[k]
  BY <1>4, <1>10, <1>11
<1> HIDE DEF batch
<1>14. batch = values
  BY <1>12, <1>13, SeqEqual DEF n
<1>15. text = <<>> => values = <<>>
  <2> SUFFICES ASSUME text = <<>>, n # 0 PROVE FALSE
    BY DEF n
  <2>1. Len(text) = 0 /\ 0 \in 0 .. n /\ n \in 0 .. n /\ 0 < n
    BY <1>3
  <2> QED
    BY <1>2, <2>1
<1>16. ASSUME NEW i \in LineStarts(text), Oversized(LineAt(text, i))
       PROVE  \E k \in 1 .. n : Size(values[k]) > RecordLimit
  <2>1. PICK j \in 0 .. n : i = f[j]
    BY <1>5
  <2>2. j # n
    <3>1. RecordLimit \in Nat
      BY FramingAssumption
    <3>2. ~Oversized(<<>>)
      BY <3>1 DEF Oversized
    <3> QED
      BY <1>2, <1>6, <1>16, <2>1, <3>2
  <2>3. j + 1 \in 1 .. n /\ (j + 1) - 1 = j
    BY <1>3, <2>2
  <2>4. Len(LineAt(text, i)) = Size(values[j + 1])
    BY <1>4, <2>1, <2>3
  <2> QED
    BY <1>16, <2>3, <2>4 DEF Oversized
<1> QED
  BY <1>3, <1>14, <1>15, <1>16 DEF batch

\* What a stage writes is the ledger of its records, and what the next one is
\* given is that of the stage before it.
Lined == Ledger(stdout, out) /\ (at > 1 => Ledger(input, previous))

\* A record written goes on the ledger.
LEMMA LinedGrows ==
  ASSUME Inv, Inv', NEW v, Ledger(stdout, out),
         out' = Append(out, v), stdout' = stdout \o WrittenLine(v)
  PROVE  Ledger(stdout', out')
<1>1. PICK V : Texts(V)
  BY DEF Inv, TypeOK
<1>2. PICK W : Texts(W)'
  BY DEF Inv, TypeOK
<1>3. out \in Seq(V) /\ stdout \in Seq(SymbolsOf(V)) /\ Closed(V) /\ out' \in Seq(W) /\ Closed(W)
  BY <1>1, <1>2 DEF Texts
<1>4. v \in W
  <2> DEFINE n == Len(out) + 1
  <2>1. n \in Nat \ {0} /\ Append(out, v)[n] = v /\ Len(Append(out, v)) = n
    <3>1. out \in Seq(V \cup {v})
      BY <1>3, SeqMonotonic
    <3> QED
      BY <3>1
  <2> HIDE DEF n
  <2>2. n \in 1 .. Len(out') /\ out'[n] = v
    BY <2>1
  <2> QED
    BY <1>3, <2>2
<1> DEFINE T == V \cup W
<1>5. V \subseteq T /\ v \in T /\ SymbolsOf(V) \subseteq SymbolsOf(T)
  BY <1>4, SymbolsGrow
<1>6. \A w \in T : IsJson(w)
  BY <1>3 DEF IsJson
<1> HIDE DEF T
<1>7. out \in Seq(T) /\ stdout \in Seq(SymbolsOf(T))
  BY <1>3, <1>5, SeqMonotonic
<1>8. WrittenLine(v) \in Seq(SymbolsOf(T))
  BY <1>5, <1>6, WrittenLineIs
<1>9. Ledger(stdout \o WrittenLine(v), Append(out, v))
  BY <1>5, <1>6, <1>7, <1>8, LedgerGrows
<1> QED
  BY <1>9

\* Every step keeps the ledgers.
LEMMA NextIsLined == Inv /\ Inv' /\ Lined /\ [Next]_vars => Lined'
<1> SUFFICES ASSUME Inv, Inv', Lined, [Next]_vars
             PROVE  Lined'
  OBVIOUS
<1>1. CASE UNCHANGED <<at, input, previous>> /\ UNCHANGED <<stdout, out>>
  BY <1>1 DEF Lined
<1>2. CASE \E v : /\ UNCHANGED <<at, input, previous>>
                  /\ out' = Append(out, v) /\ stdout' = stdout \o WrittenLine(v)
  BY <1>2, LinedGrows DEF Lined
<1>3. CASE NextStage
  <2>1. input' = stdout /\ previous' = out /\ stdout' = <<>> /\ out' = <<>>
    BY <1>3 DEF NextStage, StartsWith
  <2>2. Ledger(stdout, out)' /\ Ledger(input, previous)'
    <3>1. Ledger(stdout', out') /\ Ledger(input', previous')
      BY <2>1, NothingWritten DEF Lined
    <3> QED
      BY <3>1 DEF Ledger, LedgerBy, Size, EvidenceOf
  <2> QED
    BY <2>2 DEF Lined
<1>4. (ReadBatch \/ ReadSlice \/ EndOfStream \/ TakeRecord
       \/ CallFails \/ EndOfBatch \/ UNCHANGED vars) =>
        UNCHANGED <<at, input, previous>> /\ UNCHANGED <<stdout, out>>
  BY DEF ReadBatch, ReadSlice, EndOfStream, TakeRecord, CallFails, EndOfBatch,
         vars, written, history, readVars
<1>5. CallAnswers \/ GateRecord =>
        \/ UNCHANGED <<at, input, previous>> /\ UNCHANGED <<stdout, out>>
        \/ \E v : /\ UNCHANGED <<at, input, previous>>
                  /\ out' = Append(out, v) /\ stdout' = stdout \o WrittenLine(v)
  BY DEF CallAnswers, GateRecord, Emit, written, readVars
<1> QED
  BY <1>1, <1>2, <1>3, <1>4, <1>5 DEF Next, Finished

------------------------------------------------------------------------------
\* mapRecords refuses a whole input for a reason that shows in its lines.
LEMMA BatchRefuses ==
  ASSUME NEW V, input \in Seq(SymbolsOf(V)), BatchFails(input)
  PROVE  Batch = <<>> \/ Len(Batch) > CountLimit \/ TooLong
<1> DEFINE starts == RecordStarts(input)
           lines == BatchRecords(input)
           S == SymbolsOf(V)
           n == Cardinality(starts)
<1>1. /\ lines = [k \in 1 .. n |-> RecordAt(input, Nth(starts, k))] /\ n \in Nat
      /\ starts \subseteq 0 .. Len(input) /\ Len(input) \in Nat
      /\ starts \subseteq LineStarts(input)
  <2>1. starts \subseteq 0 .. Len(input) /\ n \in Nat
    BY RecordStartsAre
  <2>2. lines = [k \in 1 .. n |-> RecordAt(input, Nth(starts, k))]
    BY DEF BatchRecords
  <2>3. starts \subseteq LineStarts(input)
    BY DEF RecordStarts
  <2> QED
    BY <2>1, <2>2, <2>3
<1>2. \A k \in 1 .. n : Nth(starts, k) \in starts
  <2> HIDE DEF starts
  <2> QED
    BY <1>1, NthExists
<1> HIDE DEF starts, n
<1>3. ASSUME NEW k \in 1 .. n
      PROVE  /\ LineAt(input, Nth(starts, k)) \in Seq(S)
             /\ RecordAt(input, Nth(starts, k)) \in Seq(S)
             /\ Len(RecordAt(input, Nth(starts, k))) <= Len(LineAt(input, Nth(starts, k)))
  <2>1. Nth(starts, k) \in 0 .. Len(input)
    BY <1>1, <1>2
  <2>2. LineAt(input, Nth(starts, k)) \in Seq(S)
    BY <2>1, LineIsText
  <2> HIDE DEF S
  <2> QED
    BY <2>2, TrimmedIsText DEF RecordAt
<1>4. Batch = [k \in DOMAIN lines |-> Parsed(lines[k])] /\ Len(Batch) = n
  <2>1. Batch = [k \in DOMAIN lines |-> Parsed(lines[k])]
    BY DEF Batch
  <2>2. Len([k \in DOMAIN lines |-> Parsed(lines[k])]) = n
    BY BatchIs DEF n, starts
  <2> QED
    BY <2>1, <2>2
<1> HIDE DEF lines, S
<1>5. lines \in Seq(Seq(S)) /\ Len(lines) = n /\ DOMAIN lines = 1 .. n
  <2> DEFINE Q == Seq(S)
  <2>1. \A k \in 1 .. n : RecordAt(input, Nth(starts, k)) \in Q
    BY <1>3
  <2> HIDE DEF Q
  <2>2. lines \in [1 .. n -> Q] /\ DOMAIN lines = 1 .. n
    BY <1>1, <2>1
  <2>3. lines \in Seq(Q) /\ Len(lines) = n
    BY <1>1, <2>2
  <2> QED
    BY <2>2, <2>3 DEF Q
<1>6. lines = <<>> \/ Len(lines) > CountLimit \/ \E k \in DOMAIN lines : Oversized(lines[k])
  BY DEF BatchFails, lines
<1>7. CASE lines = <<>>
  <2>1. Len(<<>>) = 0
    OBVIOUS
  <2>2. n = 0
    BY <1>5, <1>7, <2>1
  <2>3. Batch \in Seq(V \cup {Malformed})
    BY <1>4, BatchIs DEF Batch
  <2> QED
    BY <1>4, <2>2, <2>3
<1>8. CASE Len(lines) > CountLimit
  BY <1>4, <1>5, <1>8
<1>9. CASE \E k \in DOMAIN lines : Oversized(lines[k])
  <2>1. PICK k \in 1 .. n : Oversized(lines[k])
    BY <1>5, <1>9
  <2> DEFINE i == Nth(starts, k)
  <2>2. lines[k] = RecordAt(input, i) /\ i \in LineStarts(input)
    BY <1>1, <1>2
  <2>3. /\ Len(RecordAt(input, i)) \in Nat /\ Len(LineAt(input, i)) \in Nat
        /\ Len(RecordAt(input, i)) <= Len(LineAt(input, i))
    BY <1>3
  <2> HIDE DEF i
  <2>4. Oversized(LineAt(input, i))
    BY <2>1, <2>2, <2>3, FramingAssumption DEF Oversized
  <2> QED
    BY <2>2, <2>4 DEF TooLong
<1> QED
  BY <1>6, <1>7, <1>8, <1>9

\* A stage that reads its whole input has all its records or none.
AllOrNone ==
  stage.framing = "ndjson" /\ ~Streams(stage) =>
    /\ records = <<>> \/ records = Batch
    /\ pc \in {"record", "calling"} => records = Batch
    /\ pc = "over" /\ Len(out) = Len(records) =>
         \/ err = "none" /\ records = Batch
         \/ input = <<>>
         \/ Len(input) > InputLimit
         \/ Batch = <<>> \/ Len(Batch) > CountLimit \/ TooLong

\* Every step keeps it so.
LEMMA NextIsAllOrNone == Inv /\ AllOrNone /\ [Next]_vars => AllOrNone'
<1> SUFFICES ASSUME Inv, AllOrNone, [Next]_vars
             PROVE  AllOrNone'
  OBVIOUS
<1> USE DEF readVars, written, history, End
<1>0. Len(out) \in Nat /\ Len(records) \in Nat
  BY Sequences DEF Inv
<1>1. ASSUME UNCHANGED input
      PROVE  Batch' = Batch /\ TooLong' = TooLong
  BY <1>1 DEF Batch, BatchRecords, TooLong, LineStarts, RecordStarts, RecordAt, LineAt, Oversized
<1>2. ASSUME UNCHANGED <<chain, at>>
      PROVE  stage' = stage /\ Streams(stage)' = Streams(stage)
  BY <1>2 DEF stage, Streams
<1>3. CASE ReadBatch
  <2>1. /\ pc = "read" /\ ~Streams(stage) /\ UNCHANGED <<chain, at, input, out>>
        /\ stage.framing = "ndjson" =>
             \/ /\ pc' = "over" /\ records' = records
                /\ input = <<>> \/ Len(input) > InputLimit \/ BatchFails(input)
             \/ pc' = "record" /\ records' = Batch
    BY <1>3 DEF ReadBatch, Batch
  <2>2. records = <<>>
    BY <2>1 DEF Inv, InStep
  <2>3. PICK V : input \in Seq(SymbolsOf(V))
    BY DEF Inv, TypeOK, Texts
  <2>4. BatchFails(input) => Batch = <<>> \/ Len(Batch) > CountLimit \/ TooLong
    BY <2>3, BatchRefuses
  <2> QED
    BY <1>1, <1>2, <2>1, <2>2, <2>4 DEF AllOrNone
<1>4. CASE ReadSlice
  BY <1>2, <1>4 DEF ReadSlice, AllOrNone
<1>5. CASE EndOfStream
  BY <1>2, <1>5 DEF EndOfStream, AllOrNone
<1>6. CASE TakeRecord
  <2>1. /\ pc = "record" /\ Len(out) < Len(records) /\ UNCHANGED <<chain, at, input, records, out>>
        /\ pc' \in {"over", "calling"}
    BY <1>6 DEF TakeRecord
  <2> QED
    BY <1>0, <1>1, <1>2, <2>1 DEF AllOrNone
<1>7. CASE CallFails
  <2>1. pc = "calling" /\ pc' = "over" /\ UNCHANGED <<chain, at, input, records, out>>
    BY <1>7 DEF CallFails
  <2>2. Len(out) < Len(records)
    BY <2>1 DEF Inv, InStep
  <2> QED
    BY <1>0, <1>1, <1>2, <2>1, <2>2 DEF AllOrNone
<1>8. CASE CallAnswers
  <2>1. /\ pc = "calling" /\ UNCHANGED <<chain, at, input, records>>
        /\ \/ pc' = "over" /\ out' = out
           \/ pc' = IF Streams(stage) THEN "read" ELSE "record"
    BY <1>8 DEF CallAnswers, Emit
  <2>2. Len(out) < Len(records)
    BY <2>1 DEF Inv, InStep
  <2> QED
    BY <1>0, <1>1, <1>2, <2>1, <2>2 DEF AllOrNone
<1>9. CASE GateRecord
  <2>1. /\ pc = "record" /\ UNCHANGED <<chain, at, input, records>> /\ Len(out) < Len(records)
        /\ \/ pc' = "over" /\ out' = out
           \/ pc' = IF Streams(stage) THEN "read" ELSE "record"
    BY <1>9 DEF GateRecord, Emit
  <2> QED
    BY <1>0, <1>1, <1>2, <2>1 DEF AllOrNone
<1>10. CASE EndOfBatch
  <2>1. pc = "record" /\ pc' = "over" /\ err' = "none" /\ UNCHANGED <<chain, at, input, records, out>>
    BY <1>10 DEF EndOfBatch
  <2> QED
    BY <1>1, <1>2, <2>1 DEF AllOrNone
<1>11. CASE NextStage
  BY <1>11 DEF NextStage, StartsWith, AllOrNone
<1>12. CASE UNCHANGED vars
  BY <1>1, <1>2, <1>12 DEF vars, AllOrNone
<1> QED
  BY <1>3, <1>4, <1>5, <1>6, <1>7, <1>8, <1>9, <1>10, <1>11, <1>12 DEF Next, Finished

\* The round trip from renderRaw to readNDJSONRecord and mapRecords: for every
\* chain, what a stage wrote is cut by the next one into exactly the records
\* written, which it settles in order, and it refuses that input only where
\* there is none or a record has outgrown the limit or, unless it streams, there
\* are too many or all together have outgrown the limit of an input.
THEOREM StagesReadBack == Spec => []StagesAgree
<1>1. Inv /\ Framed /\ Lined /\ AllOrNone => StagesAgree
  <2> SUFFICES ASSUME Inv, Framed, Lined, AllOrNone, at > 1, stage.framing = "ndjson"
               PROVE  /\ IsPrefix(records, previous)
                      /\ pc = "over" /\ Len(out) = Len(records) =>
                           \/ err = "none" /\ records = previous
                           \/ previous = <<>>
                           \/ \E i \in DOMAIN previous : Size(previous[i]) > RecordLimit
                           \/ ~Streams(stage) /\ (Len(previous) > CountLimit \/ Len(input) > InputLimit)
    BY DEF StagesAgree
  <2>1. PICK V : Texts(V)
    BY DEF Inv, TypeOK
  <2>2. /\ input \in Seq(SymbolsOf(V)) /\ previous \in Seq(V) /\ \A w \in V : IsJson(w)
        /\ Ledger(input, previous)
    BY <2>1 DEF Texts, IsJson, Lined
  <2>3. /\ Batch = previous
        /\ input = <<>> => previous = <<>>
        /\ TooLong => \E i \in DOMAIN previous : Size(previous[i]) > RecordLimit
    BY <2>2, LedgerReads DEF Batch, TooLong
  <2>4. CASE Streams(stage)
    <3>1. IsPrefix(records, Batch) /\ Settled
      BY <2>4, FramedAgrees DEF FramingsAgree, Framed, Batch
    <3> QED
      BY <2>3, <3>1 DEF Settled
  <2>5. CASE ~Streams(stage)
    <3>1. IsPrefix(<<>>, previous) /\ IsPrefix(previous, previous)
      <4>1. /\ 0 \in 0 .. Len(previous) /\ 0 \in 0 .. Len(<<>>)
            /\ Len(previous) \in Nat /\ Len(<<>>) = 0 /\ <<>> \in Seq(V)
        BY <2>2
      <4>2. Len(SubSeq(previous, 0 + 1, 0)) = 0 - 0 /\ SubSeq(previous, 0 + 1, 0) \in Seq(V)
        BY <2>2, <4>1, PieceIs
      <4>3. Len(SubSeq(<<>>, 0 + 1, 0)) = 0 - 0 /\ SubSeq(<<>>, 0 + 1, 0) \in Seq(V)
        BY <4>1, PieceIs
      <4>4. SubSeq(previous, 1, 0) = <<>> /\ SubSeq(<<>>, 1, 0) = <<>>
        BY <4>2, <4>3
      <4> QED
        BY <4>1, <4>4 DEF IsPrefix
    <3> QED
      BY <2>3, <2>5, <3>1 DEF AllOrNone
  <2> QED
    BY <2>4, <2>5
<1>2. Init => Inv /\ Framed /\ Lined /\ AllOrNone
  <2> SUFFICES ASSUME Init PROVE Lined /\ AllOrNone
    BY InitIsSound, InitIsFramed
  <2> QED
    BY NothingWritten DEF Init, Lined, AllOrNone
<1>3. Inv /\ Framed /\ Lined /\ AllOrNone /\ [Next]_vars => (Inv /\ Framed /\ Lined /\ AllOrNone)'
  BY NextIsSound, NextIsFramed, NextIsLined, NextIsAllOrNone
<1> QED
  BY <1>1, <1>2, <1>3, PTL DEF Spec

===============================================================================
