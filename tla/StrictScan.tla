------------------------------ MODULE StrictScan ------------------------------
(***************************************************************************)
(* The two strict scanners jeq runs over JSON text before encoding/json    *)
(* decodes it: scanDoc (internal/domain/contract/scan.go) for documents,   *)
(* configuration, replies and, wrapped in brackets, for a state value      *)
(* (checkStateJSON), and scanJSON (internal/domain/pipeline/pipeline.go)   *)
(* for records.  Both watch the tokens of a json.Decoder and must follow   *)
(* its position in the text by themselves to tell a key from a value.      *)
(*                                                                         *)
(* The text comes one symbol at a time, any symbol at any moment, so the   *)
(* behaviours are all texts whose nesting stays within MaxDepth.           *)
(***************************************************************************)
EXTENDS Integers, Sequences

CONSTANTS
  Keys,      \* the string tokens
  MaxDepth   \* bound on the nesting of the text

Punctuation == {"{", "}", "[", "]", ",", ":"}

ASSUME StrictScanAssumption ==
  /\ Keys \cap (Punctuation \cup {"scalar"}) = {}
  /\ MaxDepth \in Nat \ {0}

VARIABLES
  wrapped,     \* the text is a state value between brackets scanDoc was given
  phase,       \* "text"; "tail", "whole": before, after the added bracket; "end"
  at, saved,   \* the decoder's token state and the states of the open containers
  frames, verdict,      \* scanDoc: its stack and its result
  calls, done, strict,  \* scanJSON: scanValue's open calls, a whole value read, its result
  owners,      \* the keys each open container really has
  repeated,    \* some object really has a key twice
  values,      \* values the text holds at its own top level, counted up to 2
  bareScalar   \* one of those values is no container

decoder == <<at, saved>>
scanDocVars == <<frames, verdict>>
scanJSONVars == <<calls, done, strict>>
truth == <<owners, repeated, values, bareScalar>>
vars == <<wrapped, phase, decoder, scanDocVars, scanJSONVars, truth>>

Symbols == Punctuation \cup Keys \cup {"scalar"}

MayHoldValue == {"TopValue", "ArrayStart", "ArrayValue", "ObjectValue"}
MayHoldKey   == {"ObjectStart", "ObjectKey"}
ObjectStates == MayHoldKey \cup {"ObjectColon", "ObjectValue", "ObjectComma"}
TokenStates  == MayHoldValue \cup ObjectStates \cup {"ArrayComma"}

Top(s) == s[Len(s)]
Pop(s) == SubSeq(s, 1, Len(s) - 1)

Frame(object) == [object |-> object, keys |-> {}, expectKey |-> object]
ObjectFrame(keys, expectKey) == [object |-> TRUE, keys |-> keys, expectKey |-> expectKey]
Frames == [object : BOOLEAN, keys : SUBSET Keys, expectKey : BOOLEAN]

Open == {"{", "["}

TypeOK ==
  /\ wrapped \in BOOLEAN
  /\ phase \in {"text", "tail", "whole", "end"}
  /\ at \in TokenStates
  /\ saved \in Seq(MayHoldValue)
  /\ frames \in Seq(Frames)
  /\ verdict \in {"open", "accepted", "malformed", "duplicate", "not a key"}
  /\ calls \in Seq(Frames)
  /\ done \in BOOLEAN
  /\ strict \in {"open", "accepted", "malformed", "duplicate", "trailing", "not a key", "not run"}
  /\ owners \in Seq(SUBSET Keys)
  /\ repeated \in BOOLEAN
  /\ values \in 0 .. 2
  /\ bareScalar \in BOOLEAN

Init ==
  /\ wrapped \in BOOLEAN
  /\ phase = "text"
  /\ at = IF wrapped THEN "ArrayStart" ELSE "TopValue"
  /\ saved = IF wrapped THEN <<"TopValue">> ELSE <<>>
  /\ frames = IF wrapped THEN <<Frame(FALSE)>> ELSE <<>>
  /\ calls = <<>>
  /\ owners = IF wrapped THEN <<{}>> ELSE <<>>
  /\ verdict = "open"
  /\ strict = IF wrapped THEN "not run" ELSE "open"
  /\ done = FALSE
  /\ repeated = FALSE
  /\ values = 0
  /\ bareScalar = FALSE

------------------------------------------------------------------------------
(* The decoder: what Decoder.Token takes next, and where it then is.       *)

IsKey(c) == c \in Keys /\ at \in MayHoldKey

Takes(c) ==
  \/ c \in Open \cup Keys \cup {"scalar"} /\ at \in MayHoldValue
  \/ IsKey(c)
  \/ c = ":" /\ at = "ObjectColon"
  \/ c = "," /\ at \in {"ArrayComma", "ObjectComma"}
  \/ c = "]" /\ at \in {"ArrayStart", "ArrayComma"}
  \/ c = "}" /\ at \in {"ObjectStart", "ObjectComma"}

\* tokenValueEnd
Valued(state) ==
  CASE state \in {"ArrayStart", "ArrayValue"} -> "ArrayComma"
    [] state = "ObjectValue"                  -> "ObjectComma"
    [] OTHER                                  -> state

------------------------------------------------------------------------------
(* scanDoc.                                                                *)

CloseValue(stack) ==
  IF stack # <<>> /\ Top(stack).object
    THEN [stack EXCEPT ![Len(stack)] = ObjectFrame(@.keys, TRUE)]
    ELSE stack

DocOpens(c) ==
  IF verdict = "open"
    THEN frames' = Append(frames, Frame(c = "{")) /\ UNCHANGED verdict
    ELSE UNCHANGED scanDocVars

DocCloses ==
  IF verdict = "open"
    THEN frames' = CloseValue(Pop(frames)) /\ UNCHANGED verdict
    ELSE UNCHANGED scanDocVars

AtKey(stack) == stack # <<>> /\ Top(stack).object /\ Top(stack).expectKey

\* Mutant: the key is not remembered.
WithKey_Forgets(stack, key) ==
  [stack EXCEPT ![Len(stack)] = ObjectFrame(@.keys, FALSE)]

WithKey(stack, key) ==
  [stack EXCEPT ![Len(stack)] = ObjectFrame(@.keys \cup {key}, FALSE)]

\* What a scalar makes of a scanner's result and of its stack: it is a key
\* where the scanner expects one.  outside is the result where none may stand.
ScalarResult(result, outside, stack, c) ==
  IF result # "open" THEN result
  ELSE IF outside # "open" THEN outside
  ELSE IF ~AtKey(stack) THEN "open"
  ELSE IF c \notin Keys THEN "not a key"
  ELSE IF c \in Top(stack).keys THEN "duplicate"
  ELSE "open"

ScalarStack(result, stack, c) ==
  IF result # "open" THEN stack
  ELSE IF AtKey(stack) THEN WithKey(stack, c)
  ELSE CloseValue(stack)

DocScalar(c) ==
  /\ verdict' = ScalarResult(verdict, IF frames = <<>> THEN "malformed" ELSE "open", frames, c)
  /\ frames' = ScalarStack(verdict', frames, c)

------------------------------------------------------------------------------
(* scanJSON: scanValue's recursion as the stack of its open calls; a call  *)
(* expects a key at the head of its object loop.                           *)

\* Mutant: what follows the value is not looked at.
AfterValue_Ignored == "open"

\* The result of a token that follows the whole value.
AfterValue == IF done THEN "trailing" ELSE "open"

JSONOpens(c) ==
  /\ strict' = IF strict # "open" THEN strict ELSE IF AtKey(calls) THEN "not a key" ELSE AfterValue
  /\ calls' = IF strict' = "open" THEN Append(calls, Frame(c = "{")) ELSE calls
  /\ UNCHANGED done

JSONCloses ==
  IF strict = "open"
    THEN calls' = CloseValue(Pop(calls)) /\ done' = (calls' = <<>>) /\ UNCHANGED strict
    ELSE UNCHANGED scanJSONVars

JSONScalar(c) ==
  /\ strict' = ScalarResult(strict, AfterValue, calls, c)
  /\ calls' = ScalarStack(strict', calls, c)
  /\ done' = (done \/ (strict' = "open" /\ calls = <<>>))

------------------------------------------------------------------------------
(* One symbol.                                                             *)

Base == IF wrapped THEN 1 ELSE 0

\* A value ended, leaving depth containers open.
Counted(depth) ==
  IF depth = Base /\ phase = "text" THEN IF values = 2 THEN 2 ELSE values + 1 ELSE values

OpenContainer(c) ==
  /\ c \in Open
  /\ Takes(c)
  /\ Len(saved) < MaxDepth
  /\ at' = IF c = "{" THEN "ObjectStart" ELSE "ArrayStart"
  /\ saved' = Append(saved, at)
  /\ DocOpens(c)
  /\ JSONOpens(c)
  /\ owners' = Append(owners, {})
  /\ UNCHANGED <<repeated, values, bareScalar>>

CloseContainer(c) ==
  /\ c \in {"}", "]"}
  /\ Takes(c)
  /\ at' = Valued(Top(saved))
  /\ saved' = Pop(saved)
  /\ DocCloses
  /\ JSONCloses
  /\ owners' = Pop(owners)
  /\ values' = Counted(Len(saved) - 1)
  /\ UNCHANGED <<repeated, bareScalar>>

Scalar(c) ==
  /\ c \in Keys \cup {"scalar"}
  /\ Takes(c)
  /\ at' = IF IsKey(c) THEN "ObjectColon" ELSE Valued(at)
  /\ DocScalar(c)
  /\ JSONScalar(c)
  /\ owners' = IF IsKey(c) THEN [owners EXCEPT ![Len(owners)] = @ \cup {c}] ELSE owners
  /\ repeated' = (repeated \/ (IsKey(c) /\ c \in Top(owners)))
  /\ values' = IF IsKey(c) THEN values ELSE Counted(Len(saved))
  /\ bareScalar' = (bareScalar \/ (Len(saved) = Base /\ ~IsKey(c)))
  /\ UNCHANGED saved

\* Commas and colons are no tokens: the decoder takes them on its way.
Separator(c) ==
  /\ c \in {",", ":"}
  /\ Takes(c)
  /\ at' = IF c = ":" THEN "ObjectValue"
           ELSE IF at = "ArrayComma" THEN "ArrayValue"
           ELSE "ObjectKey"
  /\ UNCHANGED <<saved, scanDocVars, scanJSONVars, truth>>

Stopped(result, why) == IF result = "open" THEN why ELSE result

\* The decoder refuses the symbol: both scanners return its error.
Refuse(c) ==
  /\ ~Takes(c)
  /\ verdict' = Stopped(verdict, "malformed")
  /\ strict' = Stopped(strict, IF done THEN "trailing" ELSE "malformed")
  /\ phase' = "end"
  /\ UNCHANGED <<wrapped, decoder, frames, calls, done, truth>>

Read(c) == OpenContainer(c) \/ CloseContainer(c) \/ Scalar(c) \/ Separator(c)

\* Until both scanners have returned.
ReadSymbol ==
  /\ phase = "text"
  /\ "open" \in {verdict, strict}
  /\ \E c \in Symbols : Read(c)
  /\ UNCHANGED <<wrapped, phase>>

RefuseSymbol ==
  /\ phase = "text"
  /\ \E c \in Symbols : Refuse(c)

\* The state value is over; the bracket checkStateJSON appended follows.
EndOfState ==
  /\ phase = "text"
  /\ wrapped
  /\ phase' = "tail"
  /\ UNCHANGED <<wrapped, decoder, scanDocVars, scanJSONVars, truth>>

CloseWrapper ==
  /\ phase = "tail"
  /\ \/ Read("]") /\ phase' = "whole" /\ UNCHANGED wrapped
     \/ Refuse("]")

\* io.EOF
EndOfText ==
  /\ phase = IF wrapped THEN "whole" ELSE "text"
  /\ phase' = "end"
  /\ verdict' = Stopped(verdict, IF frames = <<>> THEN "accepted" ELSE "malformed")
  /\ strict' = Stopped(strict, IF done THEN "accepted" ELSE "malformed")
  /\ UNCHANGED <<wrapped, decoder, frames, calls, done, truth>>

Finished == phase = "end" /\ UNCHANGED vars

Next == ReadSymbol \/ RefuseSymbol \/ EndOfState \/ CloseWrapper \/ EndOfText \/ Finished

Spec == Init /\ [][Next]_vars

------------------------------------------------------------------------------
(* Properties.                                                             *)

\* The frame a scanner should have for a container, from where the decoder is
\* in it and the keys it has.
FrameAt(position, keys) ==
  [object    |-> position \in ObjectStates,
   keys      |-> keys,
   expectKey |-> position \in MayHoldKey \cup {"ObjectComma"}]

Position(state, outer, i) == IF i = Len(outer) THEN state ELSE outer[i + 1]

Expected(state, outer, keys) ==
  [i \in 1 .. Len(outer) |-> FrameAt(Position(state, outer, i), keys[i])]

\* The decoder's stack is in order.
Nested ==
  /\ Len(owners) = Len(saved)
  /\ (at = "TopValue") = (saved = <<>>)
  /\ \A i \in 1 .. Len(saved) : (saved[i] = "TopValue") = (i = 1)

\* While a scanner reads, its stack is what the decoder's stands for: a frame
\* per open container, of its kind, with its keys, expecting a key exactly
\* where the decoder does.
ScannersFollow ==
  /\ verdict = "open" => frames = Expected(at, saved, owners)
  /\ strict = "open" => calls = Expected(at, saved, owners)
  /\ strict = "open" /\ done => saved = <<>>

\* A text with a repeated key is never accepted, at whatever depth the key is
\* and whatever stands between its uses; a duplicate is reported only for one.
DuplicatesFound ==
  /\ repeated => verdict # "accepted" /\ strict # "accepted"
  /\ "duplicate" \in {verdict, strict} => repeated

\* A scanner that ends in a branch for what the decoder cannot deliver has
\* lost its place.
PlaceNeverLost == "not a key" \notin {verdict, strict}

\* A repeated key stops both scanners at once, and only the end of the text
\* makes a scanner accept.
RepeatsStop ==
  /\ repeated => "open" \notin {verdict, strict}
  /\ phase # "end" => "accepted" \notin {verdict, strict}

\* What the proofs go by.
IInv == TypeOK /\ Nested /\ ScannersFollow /\ RepeatsStop /\ DuplicatesFound /\ PlaceNeverLost

\* The two scanners are written independently.  On a whole text scanDoc
\* accepts what scanJSON accepts, but for scalars, and scanJSON accepts what
\* scanDoc accepts if it is one value.
ScannersAgree ==
  phase = "end" /\ ~wrapped =>
    /\ strict = "accepted" => values = 1 /\ (verdict = "accepted" \/ bareScalar)
    /\ verdict = "accepted" => ~bareScalar /\ (values = 1 => strict = "accepted")

==============================================================================
