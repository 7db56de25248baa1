------------------------------- MODULE Evidence -------------------------------
(***************************************************************************)
(* One record and the evidence under its "_jeq" member (internal/domain/   *)
(* pipeline): looking a value up, checking that a name is free, attaching  *)
(* a response, and gate's decision.  A record is a JSON value of Contract; *)
(* a pointer is the sequence of its unescaped tokens.                      *)
(***************************************************************************)
EXTENDS Responses

Malformed == [lit |-> "malformed"]

------------------------------------------------------------------------------
(* Pointers.                                                               *)

\* What strconv.Atoi makes of the tokens it accepts; one of several digits
\* that starts with a zero never gets there.  A sign is as good as none.
ArrayIndex == [token \in {"0", "-0", "1", "+1"} |-> IF token \in {"0", "-0"} THEN 0 ELSE 1]

pointerChild(v, token) ==
  IF IsA(v, "obj") /\ token \in DOMAIN v.obj THEN v.obj[token]
  ELSE IF IsA(v, "arr") /\ token \in DOMAIN ArrayIndex THEN
         LET i == ArrayIndex[token] + 1 IN IF i \in DOMAIN v.arr THEN v.arr[i] ELSE Absent
  ELSE Absent

\* Absent where the pointer leads nowhere.
Select(v, pointer) ==
  LET reached[i \in 0 .. Len(pointer)] ==
        IF i = 0 THEN v ELSE pointerChild(reached[i - 1], pointer[i])
  IN reached[Len(pointer)]

------------------------------------------------------------------------------
(* Evidence.                                                               *)

EvidenceOf(record) == AsMembers(Member(AsMembers(record), "_jeq"))

\* CheckEvidenceAvailable: a strict object, whose evidence, if there is any,
\* is one too and has no such name yet.
SlotFree(record, name) ==
  /\ IsA(record, "obj")
  /\ "_jeq" \in DOMAIN record.obj => IsA(record.obj["_jeq"], "obj")
  /\ name \notin DOMAIN EvidenceOf(record)

\* Mutant: the record's evidence is replaced by the new one.
Attach_Replaces(record, name, evidence) ==
  Obj(Merge(Field("_jeq", Obj(Field(name, evidence))), record.obj))

\* AttachResponse, once the slot is known to be free.
Attach(record, name, evidence) ==
  Obj(Merge(Field("_jeq", Obj(Merge(Field(name, evidence), EvidenceOf(record)))), record.obj))

------------------------------------------------------------------------------
(* gate, which decides on the float64.                                     *)

One == 2

GateFits(v) == IsA(v, "num") /\ 0 <= Float64(v.num) /\ Float64(v.num) <= One

Decision(value, passMin, rejectMax) ==
  IF value >= passMin THEN "pass" ELSE IF value <= rejectMax THEN "reject" ELSE "uncertain"

Receipt(value, passMin, rejectMax) ==
  Obj([decision |-> Str(Decision(value, passMin, rejectMax)),
       value    |-> Num(Decimal(value)),
       policy   |-> Obj([pass_min   |-> Num(Decimal(passMin)),
                         reject_max |-> Num(Decimal(rejectMax))])])

==============================================================================
