-------------------------------- MODULE Stages ---------------------------------
(***************************************************************************)
(* A chain of map, rate and gate commands, each reading what the one       *)
(* before it wrote (docs/guides/composition.md).  Within a stage records   *)
(* are settled in input order: that a record stream, which evaluates       *)
(* several at a time, writes what a sequential one would is what MapStream *)
(* shows.  A stage that fails leaves its successors what it had written.   *)
(***************************************************************************)
EXTENDS Evidence, Framing

CONSTANTS
  Cases,    \* sequences of stages, each with what the first one reads
  Replies   \* bodies of a successful exchange

SymbolsOf(values) == White \cup {Pad} \cup {Byte(v) : v \in values}

\* What a command's flags come to, once it has accepted them.
StageSet ==
  [kind : {"map", "rate", "gate"}, name : STRING, framing : {"json", "ndjson"},
   pointer : Seq(STRING), native : BOOLEAN, document : Json, model : STRING,
   passMin : 0 .. One, rejectMax : 0 .. One]

ASSUME StagesAssumption ==
  /\ \A case \in Cases : /\ case.chain \in Seq(StageSet) \ {<<>>}
                        /\ case.input \in Seq(SymbolsOf(Json))
  /\ Replies \subseteq Json \cup {Malformed}

VARIABLES
  chain, at,  \* the stages, and which of them runs
  input,      \* what the stage was given
  rest,       \* what a stream has not read of it
  part,       \* the line a stream is reading
  records,    \* the records it has cut so far
  out,        \* the records it has written
  stdout,     \* the text it has written
  pc, err,    \* where it is, and what it ends with
  asked,      \* history: the requests it sent, each with its record
  answers,    \* history: the reply behind each record it wrote
  previous    \* history: what the stage before it wrote

readVars == <<input, rest, part, records>>
history  == <<asked, answers, previous>>
written  == <<out, stdout>>
vars == <<chain, at, readVars, written, pc, err, history>>

stage == chain[at]

Streams(s) == s.kind = "map" /\ s.framing = "ndjson"

\* rate asks one score question under the evidence's own name.
QuestionsOf(s) ==
  IF s.kind = "rate"
  THEN [id \in {s.name} |-> [type |-> "score", instructions |-> Str("rate"),
                             criteria |-> Arr(<<Str("low"), Str("high")>>), extra |-> <<>>]]
  ELSE DecodedQuestions(Member(AsMembers(s.document), "questions"))

\* What else a map's questions document holds rides on its requests.
ExtraOf(s) == IF s.kind = "rate" THEN <<>> ELSE QuestionsExtra(s.document)

------------------------------------------------------------------------------
(* Texts.                                                                  *)

\* The symbols a record takes: every piece of evidence makes it longer.
Size(v) == 2 + Cardinality(DOMAIN EvidenceOf(v))

\* Mutant: records are written without the end of their line.
WrittenLine_Unended(v) == <<Byte(v)>> \o [i \in 1 .. Size(v) - 1 |-> Pad]

WrittenLine(v) == <<Byte(v)>> \o [i \in 1 .. Size(v) - 1 |-> Pad] \o <<Newline>>

\* The value a trimmed line holds, if it is one value.
Parsed(line) ==
  IF /\ line # <<>> /\ "val" \in DOMAIN line[1]
     /\ Len(line) = Size(line[1].val)
     /\ \A i \in 2 .. Len(line) : line[i] = Pad
  THEN line[1].val ELSE Malformed

------------------------------------------------------------------------------
(* One record.                                                             *)

\* processMapInput's request: the record's own, or the stage's questions about
\* the state the pointer selects.  (A resolved model is never "".)
RequestFor(s, record) ==
  LET selected == Select(record, s.pointer) IN
    IF s.native THEN DecodedRequest(selected)
    ELSE [model |-> s.model, state |-> selected, questions |-> QuestionsOf(s),
          extra |-> ExtraOf(s)]

\* Up to EnrichRequest.  The first record is looked at by validateMapRecord
\* before there is a client, which asks the local rules already.
SelectionFailure(s, record) ==
  LET selected == Select(record, s.pointer) IN
    IF out = <<>> /\ ~IsA(record, "obj") THEN "INPUT_INVALID"
    ELSE IF selected = Absent THEN "INPUT_INVALID"
    ELSE IF ~(IF s.native THEN RequestDecodes(selected) ELSE StateFits(selected))
         THEN "REQUEST_INVALID"
    ELSE IF (s.native \/ out = <<>>) /\ Violations(RequestFor(s, record)) # {}
         THEN "REQUEST_INVALID"
    ELSE "none"

\* Mutant: the slot is not looked at before the call.
EnrichFailure_LateSlot(s, record) ==
  IF RequestFor(s, record).model = "" THEN "INPUT_INVALID"
  ELSE IF Violations(RequestFor(s, record)) # {} THEN "REQUEST_INVALID"
  ELSE "none"

\* EnrichRequest, up to the call.
EnrichFailure(s, record) ==
  IF ~IsA(record, "obj") \/ RequestFor(s, record).model = "" \/ ~SlotFree(record, s.name)
  THEN "INPUT_INVALID"
  ELSE IF Violations(RequestFor(s, record)) # {} THEN "REQUEST_INVALID"
  ELSE "none"

MapFailure(s, record) ==
  IF SelectionFailure(s, record) # "none" THEN SelectionFailure(s, record)
  ELSE EnrichFailure(s, record)

GateFailure(s, record) ==
  IF SlotFree(record, s.name) /\ GateFits(Select(record, s.pointer)) THEN "none"
  ELSE "INPUT_INVALID"

------------------------------------------------------------------------------
StartsWith(text) ==
  /\ input' = text
  /\ rest' = text
  /\ part' = <<>>
  /\ records' = <<>>
  /\ out' = <<>>
  /\ stdout' = <<>>
  /\ asked' = <<>>
  /\ answers' = <<>>
  /\ err' = "none"

\* The stage ends with a code or, on "none", well.
End(code) == pc' = "over" /\ err' = code

Init ==
  /\ \E case \in Cases : chain = case.chain /\ input = case.input
  /\ at = 1
  /\ rest = input
  /\ part = <<>>
  /\ records = <<>>
  /\ out = <<>>
  /\ stdout = <<>>
  /\ pc = "read"
  /\ err = "none"
  /\ asked = <<>>
  /\ answers = <<>>
  /\ previous = <<>>

\* The whole input is read, and cut before anything is done with it.
ReadBatch ==
  /\ pc = "read"
  /\ ~Streams(stage)
  /\ LET lines  == IF stage.framing = "json" THEN <<Trimmed(input)>> ELSE BatchRecords(input)
         failed == \/ input = <<>>
                   \/ Len(input) > InputLimit
                   \/ IF stage.framing = "json" THEN Oversized(input) ELSE BatchFails(input)
     IN IF failed THEN End("INPUT_INVALID") /\ UNCHANGED records
        ELSE /\ pc' = "record"
             /\ records' = [k \in DOMAIN lines |-> Parsed(lines[k])]
             /\ UNCHANGED err
  /\ rest' = <<>>
  /\ UNCHANGED <<chain, at, input, part, written, history>>

\* readNDJSONRecord reads one slice of the line it is at.
ReadSlice ==
  /\ pc = "read"
  /\ Streams(stage)
  /\ rest # <<>>
  /\ LET slice == NextSlice(rest)
         left  == SubSeq(rest, Len(slice) + 1, Len(rest))
         line  == part \o slice
     IN IF ContentLength(part, slice) > RecordLimit
        THEN End("INPUT_INVALID") /\ UNCHANGED <<rest, part, records>>
        ELSE /\ rest' = left
             /\ IF ~LineIsOver(line, left)
                THEN part' = line /\ UNCHANGED <<records, pc, err>>
                ELSE /\ part' = <<>>
                     /\ IF Trimmed(line) = <<>> THEN UNCHANGED <<records, pc, err>>
                        ELSE /\ records' = Append(records, Parsed(Trimmed(line)))
                             /\ pc' = "record"
                             /\ UNCHANGED err
  /\ UNCHANGED <<chain, at, input, written, history>>

\* A stream that held no record is an error too.
EndOfStream ==
  /\ pc = "read"
  /\ Streams(stage)
  /\ rest = <<>>
  /\ End(IF records = <<>> THEN "INPUT_INVALID" ELSE "none")
  /\ UNCHANGED <<chain, at, readVars, written, history>>

Current == records[Len(out) + 1]

\* map and rate: the record's local checks, the client's encoding, the call.
TakeRecord ==
  /\ pc = "record"
  /\ stage.kind # "gate"
  /\ Len(out) < Len(records)
  /\ LET request == RequestFor(stage, Current) IN
       IF MapFailure(stage, Current) # "none"
       THEN End(MapFailure(stage, Current)) /\ UNCHANGED asked
       ELSE IF ~RequestEncodes(request) THEN End("REQUEST_INVALID") /\ UNCHANGED asked
       ELSE /\ pc' = "calling"
            /\ asked' = Append(asked, [record |-> Current, request |-> request])
            /\ UNCHANGED err
  /\ UNCHANGED <<chain, at, readVars, written, answers, previous>>

\* The exchange fails in one of the ways Client has.
CallFails ==
  /\ pc = "calling"
  /\ End("SERVICE")
  /\ UNCHANGED <<chain, at, readVars, written, history>>

Emit(v, reply) ==
  /\ out' = Append(out, v)
  /\ stdout' = stdout \o WrittenLine(v)
  /\ answers' = Append(answers, reply)
  /\ pc' = IF Streams(stage) THEN "read" ELSE "record"
  /\ UNCHANGED err

\* The reply is decoded, attached whole, and written.
CallAnswers ==
  /\ pc = "calling"
  /\ \E reply \in Replies :
       IF ResponseDecodes(reply)
       THEN Emit(Attach(Current, stage.name, EncodedResponse(DecodedResponse(reply))), reply)
       ELSE End("RESPONSE_INVALID") /\ UNCHANGED <<written, answers>>
  /\ UNCHANGED <<chain, at, readVars, asked, previous>>

GateRecord ==
  /\ pc = "record"
  /\ stage.kind = "gate"
  /\ Len(out) < Len(records)
  /\ IF GateFailure(stage, Current) # "none"
     THEN End(GateFailure(stage, Current)) /\ UNCHANGED <<written, answers>>
     ELSE Emit(Attach(Current, stage.name,
                      Receipt(Float64(Select(Current, stage.pointer).num),
                              stage.passMin, stage.rejectMax)),
               Absent)
  /\ UNCHANGED <<chain, at, readVars, asked, previous>>

EndOfBatch ==
  /\ pc = "record"
  /\ Len(out) = Len(records)
  /\ End("none")
  /\ UNCHANGED <<chain, at, readVars, written, history>>

\* The shell gives the next command what this one wrote.
NextStage ==
  /\ pc = "over"
  /\ at < Len(chain)
  /\ at' = at + 1
  /\ previous' = out
  /\ pc' = "read"
  /\ StartsWith(stdout)
  /\ UNCHANGED chain

Finished == pc = "over" /\ at = Len(chain) /\ UNCHANGED vars

Next ==
  \/ ReadBatch \/ ReadSlice \/ EndOfStream \/ TakeRecord \/ CallFails \/ CallAnswers
  \/ GateRecord \/ EndOfBatch \/ NextStage \/ Finished

Spec == Init /\ [][Next]_vars

------------------------------------------------------------------------------
(* Properties.                                                             *)

\* The two framings cut the same records: what a stream has read so far is
\* where the whole input's records begin, all of them when it read to the end,
\* and a stream fails for its input only where some line is too long.
FramingsAgree ==
  Streams(stage) =>
    LET lines == BatchRecords(input)
        batch == [k \in DOMAIN lines |-> Parsed(lines[k])]
    IN /\ IsPrefix(records, batch)
       /\ pc = "read" /\ rest = <<>> => records = batch
       /\ \A k \in 1 .. Len(records) : ~Oversized(lines[k])
       /\ pc = "over" /\ err = "INPUT_INVALID" /\ Len(out) = Len(records) =>
            records = <<>> \/ \E i \in LineStarts(input) : Oversized(LineAt(input, i))

\* Every record written is the one read in its place, with all its members and
\* its earlier evidence unchanged and one new name.
NothingIsOverwritten ==
  \A i \in DOMAIN out :
    /\ Without(out[i].obj, {"_jeq"}) = Without(records[i].obj, {"_jeq"})
    /\ Without(EvidenceOf(out[i]), {stage.name}) = EvidenceOf(records[i])
    /\ stage.name \in DOMAIN EvidenceOf(out[i])

\* A call is made only where its answer will find room, about the state the
\* pointer selects or the request the record holds, and with every rule kept.
CallsAreWorthTheirPrice ==
  \A i \in DOMAIN asked :
    LET record == asked[i].record  sent == EncodedRequest(asked[i].request) IN
      /\ record = records[i]
      /\ stage.name \notin DOMAIN EvidenceOf(record)
      /\ Violations(DecodedRequest(sent)) = {}
      /\ "model" \in DOMAIN sent.obj
      /\ IF stage.native THEN sent = Select(record, stage.pointer)
         ELSE sent.obj["state"] = Select(record, stage.pointer)

\* The float64 that was read from old, and old itself where nothing was rounded.
SameFloat(new, old, rounded) ==
  IsA(new, "num") /\ Float64(new.num) = Float64(old.num) /\ (~rounded => new = old)

FieldKept(new, old) ==
  IF IsA(old, "num") THEN SameFloat(new, old, Decimal(Float64(old.num)) # old.num)
  ELSE old # Null => new = old

CounterKept(new, old) ==
  IsA(old, "num") /\ IsInt64(Float64(old.num)) =>
    SameFloat(new, old, Float64(old.num) # old.num)

IsTheAnswer(new, old) ==
  /\ DOMAIN new \subseteq DOMAIN old
  /\ \A key \in DOMAIN old \ AnswerFields : new[key] = old[key]
  /\ \A key \in (DOMAIN old \cap AnswerFields) \ AnswerMaps :
       key \in DOMAIN new /\ FieldKept(new[key], old[key])
  /\ \A key \in DOMAIN old \cap AnswerMaps : old[key] # Null =>
       /\ DOMAIN new[key].obj = DOMAIN old[key].obj
       /\ \A k \in DOMAIN old[key].obj : FieldKept(new[key].obj[k], old[key].obj[k])

IsTheReply(kept, came) ==
  LET usage == AsMembers(came["usage"])  judged == AsMembers(came["answers"]) IN
    /\ DOMAIN kept = DOMAIN came
    /\ \A key \in DOMAIN came \ {"answers", "usage"} : kept[key] = came[key]
    /\ DOMAIN kept["usage"].obj = TokenFields \cup DOMAIN usage
    /\ \A key \in DOMAIN usage \ TokenFields : kept["usage"].obj[key] = usage[key]
    /\ \A key \in DOMAIN usage \cap TokenFields : CounterKept(kept["usage"].obj[key], usage[key])
    /\ DOMAIN kept["answers"].obj = DOMAIN judged
    /\ \A id \in DOMAIN judged : IsTheAnswer(kept["answers"].obj[id].obj, judged[id].obj)

\* What is attached is the whole reply, nulls in typed fields excepted, and
\* nothing else but the token counters.  A member that no field takes is there
\* as it came; a typed number is there to the precision of a float64, a counter
\* too if an int64 holds it, and neither changes unless it has to be rounded.
EvidenceIsTheReply ==
  stage.kind # "gate" =>
    \A i \in DOMAIN out : IsTheReply(EvidenceOf(out[i])[stage.name].obj, answers[i].obj)

\* What DecodeResponse's comment says: a reply that was accepted has every
\* field its kind of answer requires, with a value of the field's type.
RequiredFieldsAreTyped ==
  \A i \in DOMAIN answers : stage.kind # "gate" =>
    \A id \in DOMAIN AsMembers(answers[i].obj["answers"]) :
      LET answer == answers[i].obj["answers"].obj[id].obj
      IN \A field \in Required[answer["type"].str] : answer[field] # Null

\* A stage reads back what the one before it wrote, all of it unless it stops
\* at a record of its own, and refuses that input only where there is none or a
\* record has outgrown the limit or, if it reads its input whole, where there
\* are too many of them or all together outgrow the limit of an input.
StagesAgree ==
  at > 1 /\ stage.framing = "ndjson" =>
    /\ IsPrefix(records, previous)
    /\ pc = "over" /\ Len(out) = Len(records) =>
         \/ err = "none" /\ records = previous
         \/ previous = <<>>
         \/ \E i \in DOMAIN previous : Size(previous[i]) > RecordLimit
         \/ ~Streams(stage) /\ (Len(previous) > CountLimit \/ Len(input) > InputLimit)

==============================================================================
