-------------------------------- MODULE Framing --------------------------------
(***************************************************************************)
(* Cutting an input into records (internal/cli/map.go).  A text is a       *)
(* sequence of symbols: white space, the end of a line, and values, each   *)
(* of which takes several: its first stands for the value, the rest pads   *)
(* it to its size.                                                         *)
(***************************************************************************)
EXTENDS Integers, Sequences, FiniteSets, SequencesExt

CONSTANTS
  RecordLimit,  \* MapMaxRecordBytes
  CountLimit,   \* MapMaxRecords
  InputLimit,   \* MapMaxInputBytes, of an input that is read whole
  BufferSize    \* of the stream's bufio.Reader

ASSUME FramingAssumption ==
  {RecordLimit, CountLimit, InputLimit, BufferSize} \subseteq Nat \ {0}

Space   == [sym |-> "space"]
Newline == [sym |-> "newline"]
Pad     == [sym |-> "pad"]
Byte(v) == [val |-> v]

White == {Space, Newline}

\* bytes.TrimSpace.
Trimmed(text) ==
  LET solid == {i \in DOMAIN text : text[i] \notin White}
  IN IF solid = {} THEN <<>> ELSE SubSeq(text, Min(solid), Max(solid))

\* A line is named by how much of the text comes before it.
LineStarts(text) == {0} \cup {i \in DOMAIN text : text[i] = Newline}

LineAt(text, start) ==
  LET ends == {i \in start + 1 .. Len(text) : text[i] = Newline}
  IN SubSeq(text, start + 1, IF ends = {} THEN Len(text) ELSE Min(ends) - 1)

\* The lines that hold a record, and the record the one at start holds.
RecordAt(text, start) == Trimmed(LineAt(text, start))
RecordStarts(text)    == {start \in LineStarts(text) : RecordAt(text, start) # <<>>}

\* The k-th of a set of numbers.
Nth(S, k) == CHOOSE i \in S : Cardinality({j \in S : j <= i}) = k

Oversized(record) == Len(record) > RecordLimit

\* mapRecords, of a whole NDJSON input.
BatchRecords(text) ==
  LET starts == RecordStarts(text)
  IN [k \in 1 .. Cardinality(starts) |-> RecordAt(text, Nth(starts, k))]

BatchFails(text) ==
  LET records == BatchRecords(text)
  IN records = <<>> \/ Len(records) > CountLimit \/ \E k \in DOMAIN records : Oversized(records[k])

------------------------------------------------------------------------------
(* readNDJSONRecord reads slices: up to the end of a line, of the input or *)
(* of the buffer, whichever comes first.                                   *)

NextSlice(text) ==
  LET stops == {i \in DOMAIN text : text[i] = Newline \/ i = BufferSize \/ i = Len(text)}
  IN IF stops = {} THEN <<>> ELSE SubSeq(text, 1, Min(stops))

EndsLine(text) == text # <<>> /\ Last(text) = Newline

\* The part of a line that counts for the limit.
ContentLength(part, slice) == Len(part) + Len(slice) - IF EndsLine(slice) THEN 1 ELSE 0

\* Mutant: a slice that filled the buffer is taken for a whole record.
LineIsOver_BufferFull(part, rest) == EndsLine(part) \/ rest = <<>> \/ Len(part) >= BufferSize

\* The line read so far is complete.
LineIsOver(part, rest) == EndsLine(part) \/ rest = <<>>

==============================================================================
