------------------------------- MODULE MCStages -------------------------------
(* Three families: every short text through one stage, many records through  *)
(* one stage, and a few records through chains.                              *)
EXTENDS Stages, TLC

\* Numbers of three binary digits: from 8 on every second one is a
\* float64, from 16 on every fourth, up to 28; ties go to the even one.  Some
\* float64s are written by a shorter number than their own.
Nearest(n, step) ==
  LET low == (n \div step) * step  mid == 2 * (n - low) IN
    IF mid < step \/ (mid = step /\ (low \div step) % 2 = 0) THEN low ELSE low + step
MCFloat64(n)    == IF n < 8 THEN n ELSE Nearest(n, IF n < 16 THEN 2 ELSE 4)
MCDecimal(f)    == IF f = 20 THEN 21 ELSE f
MCOutOfRange(f) == -24

Noul(v)  == Obj("type" :> Str("noul") @@ "noul" :> v)
Score(v) == Obj("type" :> Str("score") @@ "score" :> v @@ "legend" :> Obj("0" :> Str("low") @@ "1" :> Null)
                  @@ "probabilities" :> Obj("0" :> Num(2) @@ "1" :> Null) @@ "confidence" :> Num(1) @@ "note" :> Null)
Reply(judged, usage) ==
  Obj("model" :> Str("jev") @@ "answers" :> judged @@ "usage" :> usage @@ "id" :> Str("r"))
Tokens == Obj("input_tokens" :> Num(4) @@ "output_tokens" :> Num(2))

GoodReply == Reply(Obj("q" :> Noul(Num(1))), Tokens)
SomeReplies ==
  { GoodReply, Reply(Obj("q" :> Noul(Num(0))), Obj("input_tokens" :> Num(2) @@ "cached" :> Num(2))),
    Reply(Obj("q" :> Score(Num(3))), Tokens), Malformed,
    Reply(Obj("q" :> Score(Num(9))), Obj("input_tokens" :> Num(11) @@ "output_tokens" :> Num(24) @@ "cached" :> Num(9))),
    Reply(Obj("q" :> Score(Num(20))), Obj("input_tokens" :> Num(20))), Reply(Obj("q" :> Noul(Num(31))), Tokens),
    Reply(Obj("q" :> Noul(Str("yes"))), Tokens), Reply(Obj("q" :> Noul(Num(1))), Obj("input_tokens" :> Num(1))) }
NullReplies == SomeReplies \cup { Reply(Obj("q" :> Noul(Null)), Tokens), Reply(Obj("q" :> Score(Null)), Null) }

Question   == Obj("type" :> Str("noul") @@ "instructions" :> Str("why"))
Questions  == Obj("q" :> Question)

Stage(kind, name, framing, pointer, native) ==
  [kind |-> kind, name |-> name, framing |-> framing, pointer |-> pointer, native |-> native,
   document |-> Obj("questions" :> Questions @@ "note" :> Num(2)), model |-> "jev", passMin |-> 2, rejectMax |-> 0]
Map(name, framing, pointer)  == Stage("map", name, framing, pointer, FALSE)
Rate(name, framing, pointer) == Stage("rate", name, framing, pointer, FALSE)
Gate(name, framing, pointer) == Stage("gate", name, framing, pointer, FALSE)
GateAt(passMin, rejectMax)   == [Gate("g", "ndjson", <<"s">>) EXCEPT !.passMin = passMin, !.rejectMax = rejectMax]
Clashing                     == [Map("a", "ndjson", <<"s">>) EXCEPT
                                   !.document = Obj("questions" :> Questions @@ "model" :> Str("jev"))]
Asking(framing)              == Stage("map", "a", framing, <<"r">>, TRUE)

Plain   == Obj("s" :> Str("x"))
Number  == Obj("s" :> Num(1))
Taken   == Obj("s" :> Str("x") @@ "_jeq" :> Obj("a" :> Num(2)))
Older   == Obj("s" :> Arr(<<Num(1), Str("x")>>) @@ "_jeq" :> Obj("b" :> Num(2)))
Broken  == Obj("s" :> Str("x") @@ "_jeq" :> Num(2))
Request(m, state) == Obj(m @@ "state" :> state @@ "questions" :> Questions @@ "note" :> Null)
Holding(v) == Obj("r" :> v)

Values ==
  { Plain, Number, Taken, Older, Broken, Str("x"), Obj("s" :> Str("")), Obj("s" :> Obj("t" :> Arr(<<Num(2)>>))),
    Holding(Request("model" :> Str("jev"), Plain)), Holding(Request(<<>>, Plain)),
    Holding(Request("model" :> Str("jev"), Str(Blank))), Holding(Null),
    Holding(Obj("questions" :> Obj("q" :> Null))), Obj("s" :> Num(0)), Obj("s" :> Num(2)), Obj("s" :> Num(3)) }

Line(v)    == <<Byte(v), Pad, Newline>>
LineKinds  == { <<Newline>>, <<Space, Newline>>, Line(Plain), <<Space>> \o Line(Plain),
                <<Byte(Plain), Pad, Space, Newline>>, <<Space, Space>> \o Line(Plain),
                <<Space, Space, Space>> \o Line(Plain), <<Byte(Plain), Pad, Byte(Plain), Pad, Newline>>,
                <<Byte(Plain), Pad, Byte(Plain), Pad, Pad, Newline>>, Line(Taken),
                <<Byte(Plain), Pad, Space, Space, Space, Space, Newline>> }
ShortTexts == UNION {{FlattenSeq(ls) : ls \in [1 .. n -> LineKinds]} : n \in 0 .. 3}
Ended(t)   == IF t = <<>> THEN t ELSE Front(t)

\* A record as the first stage's caller writes it.
Given(v)   == <<Byte(v)>> \o [i \in 1 .. Size(v) - 1 |-> Pad] \o <<Newline>>

Case(c, t) == [chain |-> c, input |-> t]

TextCases == {Case(<<Map("a", framing, <<"s">>)>>, t) :
                framing \in {"json", "ndjson"}, t \in ShortTexts \cup {Ended(u) : u \in ShortTexts}}

Pointers == {<<>>, <<"s">>, <<"s", "t">>, <<"s", "t", "0">>, <<"s", "+1">>, <<"s", "01">>, <<"_jeq", "b">>}
RecordCases ==
  {Case(<<s>>, Given(v) \o Given(w)) :
     s \in {Asking("ndjson"), Rate("a", "ndjson", <<"s">>), Gate("a", "ndjson", <<"s">>),
            GateAt(2, 1), GateAt(1, 0), Clashing}
             \cup {Map("a", "ndjson", p) : p \in Pointers},
     v \in {Plain, Number, Older, Holding(Request("model" :> Str("jev"), Plain))}, w \in Values}

ChainCases ==
  {Case(c, Given(v) \o Given(w)) :
     c \in { <<Map("a", "ndjson", <<"s">>), Gate("g", "ndjson", <<"_jeq", "a", "answers", "q", "noul">>)>>,
             <<Rate("a", "ndjson", <<"s">>), Map("b", "ndjson", <<"_jeq", "a">>)>>,
             <<Map("a", "ndjson", <<"s">>), Rate("a", "ndjson", <<"s">>)>>,
             <<Gate("g", "ndjson", <<"s">>), Map("b", "ndjson", <<"_jeq">>), Rate("c", "ndjson", <<"_jeq", "b">>)>> },
     v \in {Plain, Number, Older, Obj("s" :> Num(0))}, w \in {Plain, Older, Taken, Obj("s" :> Num(2))}}

MCCases == TextCases \cup RecordCases \cup ChainCases

Within(vs) == vs \cup UNION {Range(AsMembers(v)) \cup Range(AsElements(v)) : v \in vs}
Documents  == {Clashing.document, Map("a", "ndjson", <<"s">>).document}
MCJson     == Within(Within(Within(Within(Within((Values \cup Documents \cup NullReplies) \ {Malformed})))))
==============================================================================
