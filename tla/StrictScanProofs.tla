--------------------------- MODULE StrictScanProofs ---------------------------
(***************************************************************************)
(* Proofs about StrictScan, for every set of keys and every depth: the     *)
(* scanners never lose their place in the text, so that a repeated key is  *)
(* found wherever it stands.  The argument: each turn of the decoder       *)
(* changes the stack a scanner should have in the way the scanner changes  *)
(* the one it has (the five lemmas on Expected), so their equality is      *)
(* inductive, and with it the scanner sees a key as a key.                 *)
(***************************************************************************)
EXTENDS StrictScan, TLAPS

\* The frame a scanner should have, position by position.
LEMMA FrameAtCases ==
  ASSUME NEW p, NEW q
  PROVE  /\ p \in {"ObjectStart", "ObjectKey", "ObjectComma"}
              => FrameAt(p, q) = [object |-> TRUE, keys |-> q, expectKey |-> TRUE]
         /\ p \in {"ObjectColon", "ObjectValue"}
              => FrameAt(p, q) = [object |-> TRUE, keys |-> q, expectKey |-> FALSE]
         /\ p \in {"TopValue", "ArrayStart", "ArrayValue", "ArrayComma"}
              => FrameAt(p, q) = [object |-> FALSE, keys |-> q, expectKey |-> FALSE]
<1>1. ASSUME p \in {"ObjectStart", "ObjectKey", "ObjectComma"}
      PROVE  (p \in ObjectStates) = TRUE /\ (p \in MayHoldKey \cup {"ObjectComma"}) = TRUE
  BY <1>1 DEF ObjectStates, MayHoldKey
<1>2. ASSUME p \in {"ObjectColon", "ObjectValue"}
      PROVE  (p \in ObjectStates) = TRUE /\ (p \in MayHoldKey \cup {"ObjectComma"}) = FALSE
  BY <1>2 DEF ObjectStates, MayHoldKey
<1>3. ASSUME p \in {"TopValue", "ArrayStart", "ArrayValue", "ArrayComma"}
      PROVE  (p \in ObjectStates) = FALSE /\ (p \in MayHoldKey \cup {"ObjectComma"}) = FALSE
  BY <1>3 DEF ObjectStates, MayHoldKey
<1> QED
  BY <1>1, <1>2, <1>3, Zenon DEF FrameAt

\* The decoder opens a container.
LEMMA ExpectedOpens ==
  ASSUME NEW a \in TokenStates, NEW b \in {"ObjectStart", "ArrayStart"},
         NEW s \in Seq(MayHoldValue), NEW k \in Seq(SUBSET Keys), Len(k) = Len(s)
  PROVE  Append(Expected(a, s, k), Frame(b = "ObjectStart"))
           = Expected(b, Append(s, a), Append(k, {}))
<1> DEFINE E == Expected(a, s, k)
           F == Expected(b, Append(s, a), Append(k, {}))
           n == Len(s)
<1>1. n \in Nat /\ Len(Append(s, a)) = n + 1 /\ DOMAIN E = 1 .. n /\ DOMAIN F = 1 .. (n + 1)
  BY DEF Expected
<1>2. E \in Seq({FrameAt(p, q) : p \in TokenStates, q \in SUBSET Keys})
  <2>1. \A i \in 1 .. n : Position(a, s, i) \in TokenStates /\ k[i] \in SUBSET Keys
    BY <1>1 DEF Position, MayHoldValue, TokenStates
  <2> QED  BY <1>1, <2>1 DEF Expected
<1>3. Len(E) = n
  BY <1>1, <1>2
<1>4. Frame(b = "ObjectStart") = FrameAt(b, {})
  <2>1. CASE b = "ObjectStart"
    BY <2>1, FrameAtCases DEF Frame
  <2>2. CASE b = "ArrayStart"
    <3>1. (b = "ObjectStart") = FALSE
      BY <2>2
    <3> QED  BY <2>2, <3>1, FrameAtCases DEF Frame
  <2> QED  BY <2>1, <2>2
<1>5. \A i \in 1 .. (n + 1) : Append(E, Frame(b = "ObjectStart"))[i] = F[i]
  <2> SUFFICES ASSUME NEW i \in 1 .. (n + 1)
               PROVE  Append(E, FrameAt(b, {}))[i] = F[i]
    BY <1>4
  <2>1. CASE i = n + 1
    BY <1>1, <1>2, <1>3, <2>1 DEF Expected, Position
  <2>2. CASE i # n + 1
    <3>1. i \in 1 .. n /\ Append(E, FrameAt(b, {}))[i] = E[i]
      BY <1>1, <1>2, <1>3, <2>2
    <3>2. Append(k, {})[i] = k[i]
      BY <1>1, <3>1
    <3>3. Position(b, Append(s, a), i) = Position(a, s, i)
      BY <1>1, <3>1 DEF Position
    <3> QED  BY <1>1, <3>1, <3>2, <3>3 DEF Expected
  <2> QED  BY <2>1, <2>2
<1>6. Append(E, Frame(b = "ObjectStart")) \in Seq({FrameAt(p, q) : p \in TokenStates, q \in SUBSET Keys})
  BY <1>2, <1>4 DEF TokenStates, MayHoldValue, ObjectStates, MayHoldKey
<1>7. DOMAIN Append(E, Frame(b = "ObjectStart")) = 1 .. (n + 1)
  BY <1>1, <1>2, <1>3
<1> QED
  BY <1>1, <1>5, <1>6, <1>7 DEF Expected

\* The decoder completes a value: a scalar, or a container it then leaves.
LEMMA ExpectedCompletes ==
  ASSUME NEW a \in MayHoldValue, NEW s \in Seq(MayHoldValue), NEW k \in Seq(SUBSET Keys),
         Len(k) = Len(s), (a = "TopValue") = (s = <<>>)
  PROVE  CloseValue(Expected(a, s, k)) = Expected(Valued(a), s, k)
<1> DEFINE E == Expected(a, s, k)
           F == Expected(Valued(a), s, k)
           n == Len(s)
<1>1. n \in Nat /\ DOMAIN E = 1 .. n /\ DOMAIN F = 1 .. n
  BY DEF Expected
<1>2. CASE n = 0
  BY <1>1, <1>2 DEF Expected, CloseValue
<1>3. CASE n # 0
  <2>1. E \in Seq({FrameAt(p, q) : p \in MayHoldValue, q \in SUBSET Keys}) /\ Len(E) = n
    <3>1. \A i \in 1 .. n : Position(a, s, i) \in MayHoldValue /\ k[i] \in SUBSET Keys
      BY <1>1 DEF Position
    <3> QED  BY <1>1, <3>1 DEF Expected
  <2>2. E # <<>> /\ Top(E) = FrameAt(a, k[n])
    BY <1>1, <1>3, <2>1 DEF Top, Expected, Position
  <2>3. \A i \in 1 .. n : i # n => F[i] = E[i]
    BY <1>1 DEF Expected, Position
  <2>4. F[n] = FrameAt(Valued(a), k[n])
    BY <1>1, <1>3 DEF Expected, Position
  <2>5. CASE a = "ObjectValue"
    <3>0. /\ FrameAt(a, k[n]) = [object |-> TRUE, keys |-> k[n], expectKey |-> FALSE]
          /\ FrameAt(Valued(a), k[n]) = [object |-> TRUE, keys |-> k[n], expectKey |-> TRUE]
      BY <2>5, FrameAtCases DEF Valued
    <3>1. Top(E).object
      BY <2>2, <3>0
    <3>2. CloseValue(E) = [E EXCEPT ![n] = ObjectFrame(E[n].keys, TRUE)]
      BY <2>1, <2>2, <3>1 DEF CloseValue
    <3>3. ObjectFrame(E[n].keys, TRUE) = FrameAt(Valued(a), k[n])
      BY <2>1, <2>2, <3>0 DEF Top, ObjectFrame
    <3>4. CloseValue(E) = [E EXCEPT ![n] = F[n]]
      BY <2>4, <3>2, <3>3
    <3>5. CloseValue(E) = [i \in 1 .. n |-> F[i]]
      BY <1>1, <1>3, <2>3, <3>4
    <3> QED  BY <3>5 DEF Expected
  <2>6. CASE a # "ObjectValue"
    <3>1. a \in {"ArrayStart", "ArrayValue"}
      BY <1>1, <1>3, <2>6 DEF MayHoldValue
    <3>2. /\ FrameAt(a, k[n]) = [object |-> FALSE, keys |-> k[n], expectKey |-> FALSE]
          /\ FrameAt(Valued(a), k[n]) = FrameAt(a, k[n])
      <4>1. Valued(a) = "ArrayComma"
        BY <3>1 DEF Valued
      <4>2. FrameAt(Valued(a), k[n]) = [object |-> FALSE, keys |-> k[n], expectKey |-> FALSE]
        BY <4>1, FrameAtCases, Zenon
      <4>3. FrameAt(a, k[n]) = [object |-> FALSE, keys |-> k[n], expectKey |-> FALSE]
        BY <3>1, FrameAtCases, Zenon
      <4> QED  BY <4>2, <4>3, Zenon
    <3>3. CloseValue(E) = E
      BY <2>2, <3>2 DEF CloseValue
    <3>5. E[n] = FrameAt(a, k[n])
      BY <2>1, <2>2 DEF Top
    <3>6. \A i \in 1 .. n : E[i] = F[i]
      BY <2>3, <2>4, <3>2, <3>5
    <3> QED  BY <1>1, <3>3, <3>6 DEF Expected
  <2> QED  BY <2>5, <2>6
<1> QED
  BY <1>1, <1>2, <1>3

\* The decoder leaves a container.
LEMMA ExpectedPops ==
  ASSUME NEW a \in TokenStates, NEW s \in Seq(MayHoldValue), NEW k \in Seq(SUBSET Keys),
         Len(k) = Len(s), s # <<>>
  PROVE  Pop(Expected(a, s, k)) = Expected(Top(s), Pop(s), Pop(k))
<1> DEFINE n == Len(s)
           E == Expected(a, s, k)
<1>1. n \in Nat /\ n # 0 /\ DOMAIN E = 1 .. n
  BY DEF Expected
<1>2. E \in Seq({FrameAt(p, q) : p \in TokenStates, q \in SUBSET Keys}) /\ Len(E) = n
  <2>1. \A i \in 1 .. n : Position(a, s, i) \in TokenStates /\ k[i] \in SUBSET Keys
    BY <1>1 DEF Position, MayHoldValue, TokenStates
  <2> QED  BY <1>1, <2>1 DEF Expected
<1>3. Len(Pop(s)) = n - 1 /\ \A i \in 1 .. (n - 1) : Pop(s)[i] = s[i]
  BY <1>1 DEF Pop
<1>4. \A i \in 1 .. (n - 1) : Pop(k)[i] = k[i]
  BY <1>1 DEF Pop
<1>5. Pop(E) = [i \in 1 .. (n - 1) |-> E[i]]
  BY <1>1, <1>2 DEF Pop
<1>6. \A i \in 1 .. (n - 1) : Position(a, s, i) = Position(Top(s), Pop(s), i)
  BY <1>1, <1>3 DEF Position, Top
<1>7. \A i \in 1 .. (n - 1) : E[i] = FrameAt(Position(Top(s), Pop(s), i), Pop(k)[i])
  BY <1>1, <1>4, <1>6 DEF Expected
<1> QED
  BY <1>3, <1>5, <1>7 DEF Expected

\* The decoder takes a key.
LEMMA ExpectedTakesKey ==
  ASSUME NEW a \in MayHoldKey, NEW c \in Keys,
         NEW s \in Seq(MayHoldValue), NEW k \in Seq(SUBSET Keys), Len(k) = Len(s), s # <<>>
  PROVE  /\ AtKey(Expected(a, s, k))
         /\ Top(Expected(a, s, k)).keys = Top(k)
         /\ WithKey(Expected(a, s, k), c)
              = Expected("ObjectColon", s, [k EXCEPT ![Len(k)] = @ \cup {c}])
<1> DEFINE n == Len(s)
           E == Expected(a, s, k)
           m == [k EXCEPT ![Len(k)] = @ \cup {c}]
           F == Expected("ObjectColon", s, m)
<1>1. n \in Nat /\ n # 0 /\ DOMAIN E = 1 .. n /\ DOMAIN F = 1 .. n
  BY DEF Expected
<1>2. E \in Seq({FrameAt(p, q) : p \in TokenStates, q \in SUBSET Keys}) /\ Len(E) = n
  <2>1. \A i \in 1 .. n : Position(a, s, i) \in TokenStates /\ k[i] \in SUBSET Keys
    BY <1>1 DEF Position, MayHoldValue, MayHoldKey, ObjectStates, TokenStates
  <2> QED  BY <1>1, <2>1 DEF Expected
<1>3. E[n] = FrameAt(a, k[n]) /\ Top(E) = E[n] /\ E # <<>>
  BY <1>1, <1>2 DEF Top, Expected, Position
<1>4. FrameAt(a, k[n]) = [object |-> TRUE, keys |-> k[n], expectKey |-> TRUE]
  <2>1. a \in {"ObjectStart", "ObjectKey", "ObjectComma"}
    BY DEF MayHoldKey
  <2> QED  BY <2>1, FrameAtCases, Zenon
<1>5. AtKey(E) /\ Top(E).keys = Top(k)
  BY <1>3, <1>4 DEF AtKey, Top
<1>6. F[n] = FrameAt("ObjectColon", k[n] \cup {c})
  <2>1. m[n] = k[n] \cup {c}
    BY <1>1
  <2>2. Position("ObjectColon", s, n) = "ObjectColon" /\ n \in 1 .. n
    BY <1>1 DEF Position
  <2> QED  BY <2>1, <2>2 DEF Expected
<1>7. FrameAt("ObjectColon", k[n] \cup {c}) = ObjectFrame(k[n] \cup {c}, FALSE)
  BY FrameAtCases, Zenon DEF ObjectFrame
<1>8. WithKey(E, c) = [E EXCEPT ![n] = F[n]]
  <2>1. WithKey(E, c) = [E EXCEPT ![n] = ObjectFrame(E[n].keys \cup {c}, FALSE)]
    BY <1>2 DEF WithKey
  <2>2. E[n].keys = k[n]
    BY <1>3, <1>4
  <2> QED  BY <1>6, <1>7, <2>1, <2>2
<1>9. \A i \in 1 .. n : i # n => F[i] = E[i]
  BY <1>1 DEF Expected, Position
<1>10. WithKey(E, c) = [i \in 1 .. n |-> F[i]]
  BY <1>1, <1>8, <1>9
<1> QED
  BY <1>5, <1>10 DEF Expected

\* The decoder takes a comma or a colon.
LEMMA ExpectedMovesOn ==
  ASSUME NEW a, NEW b, NEW s \in Seq(MayHoldValue), NEW k \in Seq(SUBSET Keys),
         <<a, b>> \in {<<"ObjectColon", "ObjectValue">>, <<"ArrayComma", "ArrayValue">>,
                       <<"ObjectComma", "ObjectKey">>}
  PROVE  Expected(a, s, k) = Expected(b, s, k)
<1>1. \A q : FrameAt(a, q) = FrameAt(b, q)
  <2> TAKE q
  <2>1. CASE a = "ObjectColon" /\ b = "ObjectValue"
    BY <2>1, FrameAtCases, Zenon
  <2>2. CASE a = "ArrayComma" /\ b = "ArrayValue"
    BY <2>2, FrameAtCases, Zenon
  <2>3. CASE a = "ObjectComma" /\ b = "ObjectKey"
    BY <2>3, FrameAtCases, Zenon
  <2> QED  BY <2>1, <2>2, <2>3
<1>2. \A i \in 1 .. Len(s) : FrameAt(Position(a, s, i), k[i]) = FrameAt(Position(b, s, i), k[i])
  BY <1>1 DEF Position
<1> QED
  BY <1>2 DEF Expected

\* Where no key is due, a scanner that follows the decoder expects none.
LEMMA ExpectedAtValue ==
  ASSUME NEW a \in MayHoldValue, NEW s \in Seq(MayHoldValue), NEW k \in Seq(SUBSET Keys),
         Len(k) = Len(s)
  PROVE  ~AtKey(Expected(a, s, k)) /\ (Expected(a, s, k) = <<>>) = (s = <<>>)
<1> DEFINE n == Len(s)
           E == Expected(a, s, k)
<1>1. n \in Nat /\ DOMAIN E = 1 .. n
  BY DEF Expected
<1>2. E \in Seq({FrameAt(p, q) : p \in MayHoldValue, q \in SUBSET Keys}) /\ Len(E) = n
  <2>1. \A i \in 1 .. n : Position(a, s, i) \in MayHoldValue /\ k[i] \in SUBSET Keys
    BY <1>1 DEF Position
  <2> QED  BY <1>1, <2>1 DEF Expected
<1>3. n # 0 => Top(E) = FrameAt(a, k[n])
  BY <1>1, <1>2 DEF Top, Expected, Position
<1>4. ~FrameAt(a, k[n]).expectKey
  <2>1. CASE a = "ObjectValue"
    <3>1. FrameAt(a, k[n]) = [object |-> TRUE, keys |-> k[n], expectKey |-> FALSE]
      BY <2>1, FrameAtCases, Zenon
    <3> QED  BY <3>1
  <2>2. CASE a # "ObjectValue"
    <3>1. a \in {"TopValue", "ArrayStart", "ArrayValue", "ArrayComma"}
      BY <2>2 DEF MayHoldValue
    <3>2. FrameAt(a, k[n]) = [object |-> FALSE, keys |-> k[n], expectKey |-> FALSE]
      BY <3>1, FrameAtCases, Zenon
    <3> QED  BY <3>2
  <2> QED  BY <2>1, <2>2
<1> QED
  BY <1>1, <1>2, <1>3, <1>4 DEF AtKey

------------------------------------------------------------------------------
(* Every step keeps IInv.                                                  *)

LEMMA PopType ==
  ASSUME NEW S, NEW s \in Seq(S), s # <<>>
  PROVE  /\ Pop(s) \in Seq(S) /\ Top(s) \in S
         /\ Len(s) \in Nat \ {0} /\ Len(Pop(s)) = Len(s) - 1
         /\ \A i \in 1 .. Len(Pop(s)) : Pop(s)[i] = s[i]
BY DEF Pop, Top

LEMMA AppendType ==
  ASSUME NEW S, NEW s \in Seq(S), NEW x \in S
  PROVE  /\ Append(s, x) \in Seq(S) /\ Len(s) \in Nat /\ Len(Append(s, x)) = Len(s) + 1
         /\ Append(s, x)[Len(s) + 1] = x
         /\ \A i \in 1 .. Len(s) : Append(s, x)[i] = s[i]
OBVIOUS

\* The facts of IInv the step lemmas use, one by one.
LEMMA Facts ==
  ASSUME IInv
  PROVE  /\ saved \in Seq(MayHoldValue) /\ owners \in Seq(SUBSET Keys) /\ Len(owners) = Len(saved)
         /\ at \in TokenStates /\ (at = "TopValue") = (saved = <<>>)
         /\ Len(saved) \in Nat
         /\ frames \in Seq(Frames) /\ calls \in Seq(Frames)
         /\ verdict = "open" => frames = Expected(at, saved, owners)
         /\ strict = "open" => calls = Expected(at, saved, owners)
<1>1. TypeOK /\ Nested /\ ScannersFollow
  BY DEF IInv
<1>2. saved \in Seq(MayHoldValue) /\ owners \in Seq(SUBSET Keys) /\ at \in TokenStates
      /\ frames \in Seq(Frames) /\ calls \in Seq(Frames)
  BY <1>1 DEF TypeOK
<1>3. Len(owners) = Len(saved) /\ (at = "TopValue") = (saved = <<>>)
  BY <1>1 DEF Nested
<1>4. Len(saved) \in Nat
  BY <1>2
<1> QED
  BY <1>1, <1>2, <1>3, <1>4 DEF ScannersFollow

\* Opening a container.
LEMMA OpenKeeps ==
  ASSUME IInv, NEW c \in Symbols, OpenContainer(c), UNCHANGED wrapped,
         phase # "end", phase' \in {"text", "tail", "whole"}
  PROVE  IInv'
<1> USE StrictScanAssumption
<1>1. /\ c \in {"{", "["} /\ at \in MayHoldValue
      /\ at' = (IF c = "{" THEN "ObjectStart" ELSE "ArrayStart")
      /\ saved' = Append(saved, at) /\ owners' = Append(owners, {})
  <2>1. c \in Open /\ ~IsKey(c)
    BY DEF OpenContainer, IsKey, Open, Punctuation
  <2> QED  BY <2>1 DEF OpenContainer, Takes, Open
<1>2. /\ saved \in Seq(MayHoldValue) /\ owners \in Seq(SUBSET Keys) /\ Len(owners) = Len(saved)
      /\ frames \in Seq(Frames) /\ calls \in Seq(Frames)
  BY Facts
<1>3. Frame(c = "{") = Frame(at' = "ObjectStart") /\ Frame(c = "{") \in Frames
  BY <1>1 DEF Frame, Frames
<1>4. at \in TokenStates /\ at' \in {"ObjectStart", "ArrayStart"} /\ at' \in TokenStates
  BY <1>1 DEF TokenStates, ObjectStates, MayHoldKey, MayHoldValue
<1>5. Append(Expected(at, saved, owners), Frame(c = "{")) = Expected(at', saved', owners')
  <2> DEFINE b == at'
  <2>1. Append(Expected(at, saved, owners), Frame(b = "ObjectStart"))
          = Expected(b, Append(saved, at), Append(owners, {}))
    <3>1. b \in {"ObjectStart", "ArrayStart"}
      BY <1>4
    <3> HIDE DEF b
    <3> QED  BY <1>2, <1>4, <3>1, ExpectedOpens
  <2> QED  BY <1>1, <1>3, <2>1
<1>6. ~AtKey(Expected(at, saved, owners))
  BY <1>1, <1>2, ExpectedAtValue
<1>7. Append(frames, Frame(c = "{")) \in Seq(Frames) /\ Append(calls, Frame(c = "{")) \in Seq(Frames)
  BY <1>2, <1>3, AppendType
<1>8. /\ verdict' = verdict
      /\ frames' \in Seq(Frames)
      /\ verdict = "open" => frames' = Append(frames, Frame(c = "{"))
  <2>1. DocOpens(c)
    BY DEF OpenContainer
  <2>2. CASE verdict = "open"
    BY <2>1, <2>2, <1>7 DEF DocOpens
  <2>3. CASE verdict # "open"
    BY <2>1, <2>3, <1>2 DEF DocOpens, scanDocVars
  <2> QED  BY <2>2, <2>3
<1>9. /\ strict' \in {strict, "trailing"} /\ done' = done
      /\ calls' \in Seq(Frames)
      /\ strict' = "open" => strict = "open" /\ ~done /\ calls' = Append(calls, Frame(c = "{"))
  <2>1. strict = "open" => ~AtKey(calls)
    BY <1>6, Facts
  <2>2. JSONOpens(c)
    BY DEF OpenContainer
  <2>3. done' = done /\ strict' \in {strict, "trailing"} /\ (strict' = "open" => strict = "open" /\ ~done)
    <3>1. CASE strict # "open"
      BY <2>2, <3>1 DEF JSONOpens
    <3>2. CASE strict = "open"
      BY <2>1, <2>2, <3>2 DEF JSONOpens, AfterValue
    <3> QED  BY <3>1, <3>2
  <2>4. calls' = IF strict' = "open" THEN Append(calls, Frame(c = "{")) ELSE calls
    BY <2>2 DEF JSONOpens
  <2> QED  BY <2>3, <2>4, <1>7, <1>2
<1>10. saved' \in Seq(MayHoldValue) /\ owners' \in Seq(SUBSET Keys)
  <2>1. Append(saved, at) \in Seq(MayHoldValue)
    BY <1>1, <1>2, AppendType
  <2>2. Append(owners, {}) \in Seq(SUBSET Keys)
    BY <1>2, AppendType
  <2> QED  BY <1>1, <2>1, <2>2
<1>11. TypeOK'
  <2>1. UNCHANGED <<repeated, values, bareScalar>>
    BY DEF OpenContainer
  <2> QED  BY <1>4, <1>8, <1>9, <1>10, <2>1 DEF IInv, TypeOK
<1>12. Nested'
  <2>1. Len(saved') = Len(saved) + 1 /\ Len(owners') = Len(owners) + 1 /\ Len(saved) \in Nat
        /\ saved'[Len(saved) + 1] = at /\ \A i \in 1 .. Len(saved) : saved'[i] = saved[i]
    <3>1. owners \in Seq(SUBSET Keys) /\ {} \in SUBSET Keys
      BY <1>2
    <3>2. Len(Append(owners, {})) = Len(owners) + 1
      BY <3>1, AppendType
    <3>3. /\ Len(saved) \in Nat /\ Len(Append(saved, at)) = Len(saved) + 1
          /\ Append(saved, at)[Len(saved) + 1] = at
          /\ \A i \in 1 .. Len(saved) : Append(saved, at)[i] = saved[i]
      <4>1. saved \in Seq(MayHoldValue) /\ at \in MayHoldValue
        BY <1>1, <1>2
      <4> QED  BY <4>1, AppendType
    <3> QED  BY <1>1, <3>2, <3>3
  <2>2. at' # "TopValue" /\ saved' # <<>>
    BY <1>4, <2>1
  <2>3. (at = "TopValue") = (Len(saved) = 0)
    BY Facts
  <2>4. \A i \in 1 .. Len(saved) : (saved[i] = "TopValue") = (i = 1)
    BY DEF IInv, Nested
  <2>5. \A i \in 1 .. Len(saved') : (saved'[i] = "TopValue") = (i = 1)
    <3> SUFFICES ASSUME NEW i \in 1 .. Len(saved')  PROVE (saved'[i] = "TopValue") = (i = 1)
      OBVIOUS
    <3>1. CASE i \in 1 .. Len(saved)
      BY <3>1, <2>1, <2>4
    <3>2. CASE i = Len(saved) + 1
      BY <3>2, <2>1, <2>3
    <3> QED  BY <3>1, <3>2, <2>1
  <2> QED  BY <1>2, <2>1, <2>2, <2>5 DEF Nested
<1>13. ScannersFollow'
  BY <1>5, <1>8, <1>9 DEF IInv, ScannersFollow
<1>14. RepeatsStop' /\ DuplicatesFound' /\ PlaceNeverLost'
  <2>1. repeated' = repeated
    BY DEF OpenContainer
  <2> QED  BY <1>8, <1>9, <2>1 DEF IInv, RepeatsStop, DuplicatesFound, PlaceNeverLost
<1> QED
  BY <1>11, <1>12, <1>13, <1>14 DEF IInv

LEMMA ExpectedType ==
  ASSUME NEW a \in TokenStates, NEW s \in Seq(MayHoldValue), NEW k \in Seq(SUBSET Keys),
         Len(k) = Len(s)
  PROVE  Expected(a, s, k) \in Seq(Frames) /\ (Expected(a, s, k) = <<>>) = (s = <<>>)
<1>1. Len(s) \in Nat /\ DOMAIN Expected(a, s, k) = 1 .. Len(s)
  BY DEF Expected
<1>2. \A i \in 1 .. Len(s) : Position(a, s, i) \in TokenStates /\ k[i] \in SUBSET Keys
  BY <1>1 DEF Position, MayHoldValue, TokenStates
<1>3. \A p, q : q \in SUBSET Keys => FrameAt(p, q) \in Frames
  <2> SUFFICES ASSUME NEW p, NEW q \in SUBSET Keys  PROVE FrameAt(p, q) \in Frames
    OBVIOUS
  <2>1. (p \in ObjectStates) \in BOOLEAN /\ (p \in MayHoldKey \cup {"ObjectComma"}) \in BOOLEAN
    OBVIOUS
  <2> HIDE DEF ObjectStates, MayHoldKey
  <2> QED  BY <2>1 DEF FrameAt, Frames
<1>4. \A i \in 1 .. Len(s) : Expected(a, s, k)[i] \in Frames
  BY <1>2, <1>3 DEF Expected
<1>5. Expected(a, s, k) = [i \in 1 .. Len(s) |-> Expected(a, s, k)[i]]
  BY DEF Expected
<1>6. Expected(a, s, k) \in Seq(Frames)
  BY <1>1, <1>4, <1>5
<1> QED
  BY <1>1, <1>6

\* Closing a container.
LEMMA CloseKeeps ==
  ASSUME IInv, NEW c \in Symbols, CloseContainer(c), UNCHANGED wrapped,
         phase # "end", phase' \in {"text", "tail", "whole"}
  PROVE  IInv'
<1> USE StrictScanAssumption
<1>1. saved # <<>> /\ at' = Valued(Top(saved)) /\ saved' = Pop(saved) /\ owners' = Pop(owners)
  <2>1. at \in {"ArrayStart", "ArrayComma", "ObjectStart", "ObjectComma"}
    BY DEF CloseContainer, Takes, IsKey, Open, Punctuation
  <2>2. at # "TopValue"
    BY <2>1
  <2> QED  BY <2>2, Facts DEF CloseContainer
<1>2. /\ saved \in Seq(MayHoldValue) /\ owners \in Seq(SUBSET Keys) /\ Len(owners) = Len(saved)
      /\ frames \in Seq(Frames) /\ calls \in Seq(Frames) /\ at \in TokenStates
  BY Facts
<1>3. /\ Pop(saved) \in Seq(MayHoldValue) /\ Top(saved) \in MayHoldValue /\ Len(saved) \in Nat \ {0}
      /\ Len(Pop(saved)) = Len(saved) - 1
      /\ \A i \in 1 .. Len(Pop(saved)) : Pop(saved)[i] = saved[i]
  BY <1>1, <1>2, PopType
<1>4. Pop(owners) \in Seq(SUBSET Keys) /\ Len(Pop(owners)) = Len(Pop(saved))
  <2>1. owners # <<>>
    BY <1>2, <1>3
  <2> QED  BY <1>2, <1>3, <2>1, PopType
<1>5. \A i \in 1 .. Len(saved) : (saved[i] = "TopValue") = (i = 1)
  BY DEF IInv, Nested
<1>6. (Top(saved) = "TopValue") = (Pop(saved) = <<>>)
  <2>1. (Top(saved) = "TopValue") = (Len(saved) = 1)
    BY <1>3, <1>5 DEF Top
  <2>2. (Pop(saved) = <<>>) = (Len(saved) = 1)
    BY <1>3
  <2> QED  BY <2>1, <2>2
<1>7. CloseValue(Pop(Expected(at, saved, owners))) = Expected(at', saved', owners')
  <2>1. Pop(Expected(at, saved, owners)) = Expected(Top(saved), Pop(saved), Pop(owners))
    BY <1>1, <1>2, ExpectedPops
  <2>2. CloseValue(Expected(Top(saved), Pop(saved), Pop(owners)))
          = Expected(Valued(Top(saved)), Pop(saved), Pop(owners))
    BY <1>3, <1>4, <1>6, ExpectedCompletes
  <2> QED  BY <1>1, <2>1, <2>2
<1>8. at' \in TokenStates /\ (at' = "TopValue") = (Top(saved) = "TopValue")
  <2>1. Top(saved) \in {"TopValue", "ArrayStart", "ArrayValue", "ObjectValue"}
    BY <1>3 DEF MayHoldValue
  <2>2. at' = IF Top(saved) \in {"ArrayStart", "ArrayValue"} THEN "ArrayComma"
              ELSE IF Top(saved) = "ObjectValue" THEN "ObjectComma" ELSE "TopValue"
    BY <1>1, <2>1 DEF Valued
  <2>3. at' \in {"TopValue", "ArrayComma", "ObjectComma"}
    BY <2>2
  <2>4. at' \in TokenStates
    BY <2>3 DEF TokenStates, ObjectStates, MayHoldValue
  <2> QED  BY <2>1, <2>2, <2>4
<1>9. saved' \in Seq(MayHoldValue) /\ owners' \in Seq(SUBSET Keys) /\ Len(owners') = Len(saved')
  BY <1>1, <1>3, <1>4
<1>10. Expected(at', saved', owners') \in Seq(Frames)
       /\ (Expected(at', saved', owners') = <<>>) = (saved' = <<>>)
  <2> DEFINE a == at' s == saved' k == owners'
  <2>1. a \in TokenStates /\ s \in Seq(MayHoldValue) /\ k \in Seq(SUBSET Keys) /\ Len(k) = Len(s)
    BY <1>8, <1>9
  <2> HIDE DEF a, s, k
  <2>2. Expected(a, s, k) \in Seq(Frames) /\ (Expected(a, s, k) = <<>>) = (s = <<>>)
    BY <2>1, ExpectedType
  <2> QED  BY <2>2 DEF a, s, k
<1>11. /\ verdict' = verdict /\ frames' \in Seq(Frames)
       /\ verdict = "open" => frames' = Expected(at', saved', owners')
  <2>1. CASE verdict = "open"
    BY <2>1, <1>7, <1>10, Facts DEF CloseContainer, DocCloses
  <2>2. CASE verdict # "open"
    BY <2>2, <1>2 DEF CloseContainer, DocCloses, scanDocVars
  <2> QED  BY <2>1, <2>2
<1>12. /\ strict' = strict /\ calls' \in Seq(Frames) /\ done' \in BOOLEAN
       /\ strict = "open" => calls' = Expected(at', saved', owners') /\ (done' = (saved' = <<>>))
  <2>1. CASE strict = "open"
    <3>1. /\ calls' = CloseValue(Pop(calls)) /\ done' = (calls' = <<>>) /\ strict' = strict
          /\ calls = Expected(at, saved, owners)
      BY <2>1, Facts DEF CloseContainer, JSONCloses
    <3>2. calls' = Expected(at', saved', owners')
      BY <3>1, <1>7
    <3> QED  BY <3>1, <3>2, <1>10
  <2>2. CASE strict # "open"
    BY <2>2, <1>2 DEF CloseContainer, JSONCloses, scanJSONVars, IInv, TypeOK
  <2> QED  BY <2>1, <2>2
<1>13. TypeOK'
  <2>1. values' \in 0 .. 2
    <3>1. values \in 0 .. 2 /\ values' = Counted(Len(saved) - 1)
      BY DEF CloseContainer, IInv, TypeOK
    <3> QED  BY <3>1 DEF Counted
  <2>2. UNCHANGED <<repeated, bareScalar>>
    BY DEF CloseContainer
  <2> QED  BY <1>8, <1>9, <1>11, <1>12, <2>1, <2>2 DEF IInv, TypeOK
<1>14. Nested'
  <2>1. \A i \in 1 .. Len(saved') : (saved'[i] = "TopValue") = (i = 1)
    BY <1>1, <1>3, <1>5
  <2> QED  BY <1>1, <1>6, <1>8, <1>9, <2>1 DEF Nested
<1>15. ScannersFollow'
  BY <1>11, <1>12 DEF ScannersFollow
<1>16. RepeatsStop' /\ DuplicatesFound' /\ PlaceNeverLost'
  <2>1. repeated' = repeated
    BY DEF CloseContainer
  <2> QED  BY <1>11, <1>12, <2>1 DEF IInv, RepeatsStop, DuplicatesFound, PlaceNeverLost
<1> QED
  BY <1>13, <1>14, <1>15, <1>16 DEF IInv

\* A comma or a colon.
LEMMA SeparatorKeeps ==
  ASSUME IInv, NEW c \in Symbols, Separator(c), UNCHANGED wrapped,
         phase # "end", phase' \in {"text", "tail", "whole"}
  PROVE  IInv'
<1> USE StrictScanAssumption
<1>1. <<at, at'>> \in {<<"ObjectColon", "ObjectValue">>, <<"ArrayComma", "ArrayValue">>,
                       <<"ObjectComma", "ObjectKey">>}
  <2>1. CASE c = ":"
    BY <2>1 DEF Separator, Takes, IsKey, Open, Punctuation
  <2>2. CASE c = ","
    BY <2>2 DEF Separator, Takes, IsKey, Open, Punctuation
  <2> QED  BY <2>1, <2>2 DEF Separator
<1>2. UNCHANGED <<saved, frames, verdict, calls, done, strict,
                  owners, repeated, values, bareScalar>>
  BY DEF Separator, scanDocVars, scanJSONVars, truth
<1>3. Expected(at, saved, owners) = Expected(at', saved, owners)
  <2> DEFINE b == at'
  <2>1. <<at, b>> \in {<<"ObjectColon", "ObjectValue">>, <<"ArrayComma", "ArrayValue">>,
                       <<"ObjectComma", "ObjectKey">>}
    BY <1>1
  <2>2. saved \in Seq(MayHoldValue) /\ owners \in Seq(SUBSET Keys)
    BY Facts
  <2> HIDE DEF b
  <2>3. Expected(at, saved, owners) = Expected(b, saved, owners)
    BY <2>1, <2>2, ExpectedMovesOn
  <2> QED  BY <2>3 DEF b
<1>4. at' \in TokenStates /\ at # "TopValue" /\ at' # "TopValue"
  BY <1>1 DEF TokenStates, MayHoldValue, ObjectStates, MayHoldKey
<1>5. TypeOK'
  <2>1. TypeOK
    BY DEF IInv
  <2>2. /\ saved' = saved /\ frames' = frames /\ verdict' = verdict /\ calls' = calls /\ done' = done
        /\ strict' = strict /\ owners' = owners /\ repeated' = repeated /\ values' = values
        /\ bareScalar' = bareScalar /\ wrapped' = wrapped
    BY <1>2
  <2>3. saved' \in Seq(MayHoldValue) /\ owners' \in Seq(SUBSET Keys)
        /\ frames' \in Seq(Frames) /\ calls' \in Seq(Frames)
    BY <2>2, Facts
  <2>4. wrapped' \in BOOLEAN /\ done' \in BOOLEAN /\ repeated' \in BOOLEAN
        /\ bareScalar' \in BOOLEAN
    BY <2>1, <2>2, Zenon DEF TypeOK
  <2>5. /\ verdict' \in {"open", "accepted", "malformed", "duplicate", "not a key"}
        /\ strict' \in {"open", "accepted", "malformed", "duplicate", "trailing", "not a key", "not run"}
        /\ values' \in 0 .. 2
    BY <2>1, <2>2 DEF TypeOK
  <2> QED  BY <1>4, <2>3, <2>4, <2>5 DEF TypeOK
<1>6. Nested'
  BY <1>2, <1>4 DEF IInv, Nested
<1>7. ScannersFollow'
  BY <1>2, <1>3 DEF IInv, ScannersFollow
<1>8. RepeatsStop' /\ DuplicatesFound' /\ PlaceNeverLost'
  BY <1>2 DEF IInv, RepeatsStop, DuplicatesFound, PlaceNeverLost
<1> QED
  BY <1>5, <1>6, <1>7, <1>8 DEF IInv

\* A scalar that is a value.
LEMMA ValueKeeps ==
  ASSUME IInv, NEW c \in Symbols, Scalar(c), ~IsKey(c), UNCHANGED wrapped,
         phase # "end", phase' \in {"text", "tail", "whole"}
  PROVE  IInv'
<1> USE StrictScanAssumption
<1>1. /\ at \in MayHoldValue /\ at' = Valued(at) /\ saved' = saved /\ owners' = owners
      /\ repeated' = repeated
  <2>1. at \in MayHoldValue
    BY DEF Scalar, Takes, Punctuation
  <2>2. at' = Valued(at) /\ saved' = saved /\ owners' = owners
    BY DEF Scalar
  <2>3. repeated' = repeated
    <3>1. repeated \in BOOLEAN /\ repeated' = (repeated \/ (IsKey(c) /\ c \in Top(owners)))
      BY DEF Scalar, IInv, TypeOK
    <3> QED  BY <3>1, Zenon
  <2> QED  BY <2>1, <2>2, <2>3
<1>2. /\ saved \in Seq(MayHoldValue) /\ owners \in Seq(SUBSET Keys) /\ Len(owners) = Len(saved)
      /\ frames \in Seq(Frames) /\ calls \in Seq(Frames) /\ at \in TokenStates
      /\ (at = "TopValue") = (saved = <<>>)
  BY Facts
<1>3. CloseValue(Expected(at, saved, owners)) = Expected(at', saved', owners')
  <2>1. CloseValue(Expected(at, saved, owners)) = Expected(Valued(at), saved, owners)
    BY <1>1, <1>2, ExpectedCompletes
  <2> QED  BY <1>1, <2>1
<1>4. ~AtKey(Expected(at, saved, owners)) /\ (Expected(at, saved, owners) = <<>>) = (saved = <<>>)
  BY <1>1, <1>2, ExpectedAtValue
<1>5. at' \in TokenStates /\ (at' = "TopValue") = (at = "TopValue")
  <2>1. at \in {"TopValue", "ArrayStart", "ArrayValue", "ObjectValue"}
    BY <1>1 DEF MayHoldValue
  <2>2. at' = IF at \in {"ArrayStart", "ArrayValue"} THEN "ArrayComma"
              ELSE IF at = "ObjectValue" THEN "ObjectComma" ELSE "TopValue"
    BY <1>1, <2>1 DEF Valued
  <2>3. at' \in {"TopValue", "ArrayComma", "ObjectComma"}
    BY <2>2
  <2>4. at' \in TokenStates
    BY <2>3 DEF TokenStates, ObjectStates, MayHoldValue
  <2> QED  BY <2>1, <2>2, <2>4
<1>6. Expected(at', saved', owners') \in Seq(Frames)
  <2> DEFINE a == at' s == saved' k == owners'
  <2>1. a \in TokenStates /\ s \in Seq(MayHoldValue) /\ k \in Seq(SUBSET Keys) /\ Len(k) = Len(s)
    BY <1>1, <1>2, <1>5
  <2> HIDE DEF a, s, k
  <2>2. Expected(a, s, k) \in Seq(Frames)
    BY <2>1, ExpectedType
  <2> QED  BY <2>2 DEF a, s, k
<1>7. /\ verdict' \in {verdict, "malformed"} /\ frames' \in Seq(Frames)
      /\ verdict = "accepted" => verdict' = "accepted"
      /\ verdict' = "open" => verdict = "open" /\ frames' = Expected(at', saved', owners')
  <2>1. CASE verdict = "open"
    <3>1. frames = Expected(at, saved, owners) /\ ~AtKey(frames)
      BY <2>1, <1>4, Facts
    <3>2. verdict' \in {"open", "malformed"}
      BY <2>1, <3>1 DEF Scalar, DocScalar, ScalarResult
    <3>3. frames' = IF verdict' # "open" THEN frames ELSE CloseValue(frames)
      BY <3>1 DEF Scalar, DocScalar, ScalarStack
    <3>4. CloseValue(frames) = Expected(at', saved', owners')
      BY <3>1, <1>3
    <3> QED  BY <2>1, <3>2, <3>3, <3>4, <1>2, <1>6
  <2>2. CASE verdict # "open"
    <3>1. verdict' = verdict
      BY <2>2 DEF Scalar, DocScalar, ScalarResult
    <3>2. frames' = frames
      BY <2>2, <3>1 DEF Scalar, DocScalar, ScalarStack
    <3> QED  BY <2>2, <3>1, <3>2, <1>2
  <2> QED  BY <2>1, <2>2
<1>8. /\ strict' \in {strict, "trailing"} /\ calls' \in Seq(Frames) /\ done' \in BOOLEAN
      /\ strict = "accepted" => strict' = "accepted"
      /\ strict' = "open" => /\ strict = "open" /\ calls' = Expected(at', saved', owners')
                             /\ done' => saved' = <<>>
  <2>1. done' = (done \/ (strict' = "open" /\ calls = <<>>))
    BY DEF Scalar, JSONScalar
  <2>2. CASE strict = "open"
    <3>1. calls = Expected(at, saved, owners) /\ ~AtKey(calls)
      BY <2>2, <1>4, Facts
    <3>2. strict' = AfterValue
      BY <2>2, <3>1 DEF Scalar, JSONScalar, ScalarResult, AfterValue
    <3>3. strict' \in {"open", "trailing"} /\ (strict' = "open" => ~done)
      BY <3>2 DEF AfterValue
    <3>4. calls' = IF strict' # "open" THEN calls ELSE CloseValue(calls)
      BY <3>1 DEF Scalar, JSONScalar, ScalarStack
    <3>5. CloseValue(calls) = Expected(at', saved', owners')
      BY <3>1, <1>3
    <3>6. strict' = "open" /\ done' => saved' = <<>>
      BY <2>1, <3>1, <3>3, <1>4, <1>1
    <3>7. done' \in BOOLEAN
      BY <2>1, Zenon
    <3> QED  BY <2>2, <3>3, <3>4, <3>5, <3>6, <3>7, <1>2, <1>6
  <2>3. CASE strict # "open"
    <3>1. strict' = strict
      BY <2>3 DEF Scalar, JSONScalar, ScalarResult
    <3>2. calls' = calls
      BY <2>3, <3>1 DEF Scalar, JSONScalar, ScalarStack
    <3>3. done' \in BOOLEAN
      BY <2>1, Zenon
    <3> QED  BY <2>3, <3>1, <3>2, <3>3, <1>2
  <2> QED  BY <2>2, <2>3
<1>9. TypeOK'
  <2>1. values' \in 0 .. 2
    <3>1. values \in 0 .. 2 /\ values' = Counted(Len(saved))
      BY DEF Scalar, IInv, TypeOK
    <3> QED  BY <3>1 DEF Counted
  <2>2. bareScalar' \in BOOLEAN
    BY Zenon DEF Scalar
  <2> QED  BY <1>1, <1>2, <1>5, <1>7, <1>8, <2>1, <2>2 DEF IInv, TypeOK
<1>10. Nested'
  BY <1>1, <1>5 DEF IInv, Nested
<1>11. ScannersFollow'
  BY <1>7, <1>8 DEF ScannersFollow
<1>12. RepeatsStop' /\ DuplicatesFound' /\ PlaceNeverLost'
  BY <1>1, <1>7, <1>8 DEF IInv, RepeatsStop, DuplicatesFound, PlaceNeverLost
<1> QED
  BY <1>9, <1>10, <1>11, <1>12 DEF IInv

\* A scalar that is a key.
LEMMA KeyKeeps ==
  ASSUME IInv, NEW c \in Symbols, Scalar(c), IsKey(c), UNCHANGED wrapped,
         phase # "end", phase' \in {"text", "tail", "whole"}
  PROVE  IInv'
<1> USE StrictScanAssumption
<1>1. /\ at \in MayHoldKey /\ c \in Keys /\ at' = "ObjectColon" /\ saved' = saved
      /\ owners' = [owners EXCEPT ![Len(owners)] = @ \cup {c}] /\ saved # <<>>
      /\ UNCHANGED values
  <2>1. at \in MayHoldKey /\ c \in Keys
    BY DEF IsKey
  <2>2. at # "TopValue"
    BY <2>1 DEF MayHoldKey
  <2> QED  BY <2>1, <2>2, Facts DEF Scalar
<1>2. /\ saved \in Seq(MayHoldValue) /\ owners \in Seq(SUBSET Keys) /\ Len(owners) = Len(saved)
      /\ frames \in Seq(Frames) /\ calls \in Seq(Frames) /\ at \in TokenStates
      /\ Len(saved) \in Nat
  BY Facts
<1>3. /\ AtKey(Expected(at, saved, owners))
      /\ Top(Expected(at, saved, owners)).keys = Top(owners)
      /\ WithKey(Expected(at, saved, owners), c) = Expected(at', saved', owners')
  <2>1. /\ AtKey(Expected(at, saved, owners))
        /\ Top(Expected(at, saved, owners)).keys = Top(owners)
        /\ WithKey(Expected(at, saved, owners), c)
             = Expected("ObjectColon", saved, [owners EXCEPT ![Len(owners)] = @ \cup {c}])
    <3>1. /\ at \in MayHoldKey /\ c \in Keys /\ saved # <<>>
          /\ saved \in Seq(MayHoldValue) /\ owners \in Seq(SUBSET Keys) /\ Len(owners) = Len(saved)
      BY <1>1, <1>2
    <3> QED  BY <3>1, ExpectedTakesKey
  <2> QED  BY <1>1, <2>1
<1>4. owners' \in Seq(SUBSET Keys) /\ Len(owners') = Len(owners)
  <2>1. Len(owners) \in Nat \ {0}
    BY <1>1, <1>2
  <2>2. owners[Len(owners)] \cup {c} \in SUBSET Keys
    BY <1>1, <1>2, <2>1
  <2> QED  BY <1>1, <1>2, <2>1, <2>2
<1>5. at' \in TokenStates
  BY <1>1 DEF TokenStates, ObjectStates
<1>6. Expected(at', saved', owners') \in Seq(Frames)
  <2> DEFINE a == at' s == saved' k == owners'
  <2>1. a \in TokenStates /\ s \in Seq(MayHoldValue) /\ k \in Seq(SUBSET Keys) /\ Len(k) = Len(s)
    BY <1>1, <1>2, <1>4, <1>5
  <2> HIDE DEF a, s, k
  <2>2. Expected(a, s, k) \in Seq(Frames)
    BY <2>1, ExpectedType
  <2> QED  BY <2>2 DEF a, s, k
<1>7. repeated' \in BOOLEAN /\ (repeated' <=> repeated \/ c \in Top(owners))
  BY Zenon DEF Scalar
<1>8. /\ verdict # "open" => verdict' = verdict /\ frames' = frames
      /\ verdict = "open" => /\ verdict' = (IF c \in Top(owners) THEN "duplicate" ELSE "open")
                             /\ frames' = (IF c \in Top(owners) THEN frames
                                           ELSE Expected(at', saved', owners'))
  <2>1. CASE verdict = "open"
    <3>1. frames = Expected(at, saved, owners) /\ AtKey(frames) /\ Top(frames).keys = Top(owners)
      BY <2>1, <1>3, Facts
    <3>2. frames # <<>>
      BY <3>1 DEF AtKey
    <3>3. verdict' = (IF c \in Top(owners) THEN "duplicate" ELSE "open")
      BY <2>1, <3>1, <3>2, <1>1 DEF Scalar, DocScalar, ScalarResult
    <3>4. frames' = IF verdict' # "open" THEN frames ELSE WithKey(frames, c)
      BY <3>1 DEF Scalar, DocScalar, ScalarStack
    <3>5. WithKey(frames, c) = Expected(at', saved', owners')
      BY <3>1, <1>3
    <3> QED  BY <2>1, <3>3, <3>4, <3>5
  <2>2. CASE verdict # "open"
    <3>1. verdict' = verdict
      BY <2>2 DEF Scalar, DocScalar, ScalarResult
    <3>2. frames' = frames
      BY <2>2, <3>1 DEF Scalar, DocScalar, ScalarStack
    <3> QED  BY <2>2, <3>1, <3>2
  <2> QED  BY <2>1, <2>2
<1>9. /\ strict # "open" => strict' = strict /\ calls' = calls
      /\ strict = "open" => /\ strict' = (IF c \in Top(owners) THEN "duplicate" ELSE "open")
                            /\ calls' = (IF c \in Top(owners) THEN calls
                                         ELSE Expected(at', saved', owners'))
                            /\ ~done'
      /\ done' \in BOOLEAN
  <2>1. done' = (done \/ (strict' = "open" /\ calls = <<>>))
    BY DEF Scalar, JSONScalar
  <2>2. CASE strict = "open"
    <3>1. calls = Expected(at, saved, owners) /\ AtKey(calls) /\ Top(calls).keys = Top(owners)
      BY <2>2, <1>3, Facts
    <3>2. calls # <<>> /\ ~done
      BY <2>2, <3>1, <1>1 DEF AtKey, IInv, ScannersFollow
    <3>3. strict' = (IF c \in Top(owners) THEN "duplicate" ELSE "open")
      BY <2>2, <3>1, <3>2, <1>1 DEF Scalar, JSONScalar, ScalarResult, AfterValue
    <3>4. calls' = IF strict' # "open" THEN calls ELSE WithKey(calls, c)
      BY <3>1 DEF Scalar, JSONScalar, ScalarStack
    <3>5. WithKey(calls, c) = Expected(at', saved', owners')
      BY <3>1, <1>3
    <3>6. ~done' /\ done' \in BOOLEAN
      BY <2>1, <3>2, Zenon
    <3> QED  BY <2>2, <3>3, <3>4, <3>5, <3>6
  <2>3. CASE strict # "open"
    <3>1. strict' = strict
      BY <2>3 DEF Scalar, JSONScalar, ScalarResult
    <3>2. calls' = calls
      BY <2>3, <3>1 DEF Scalar, JSONScalar, ScalarStack
    <3>3. done' \in BOOLEAN
      BY <2>1, Zenon
    <3> QED  BY <2>3, <3>1, <3>2, <3>3
  <2> QED  BY <2>2, <2>3
<1>10. TypeOK'
  <2>1. bareScalar' \in BOOLEAN
    BY Zenon DEF Scalar
  <2>3. verdict' \in {verdict, "duplicate", "open"} /\ strict' \in {strict, "duplicate", "open"}
        /\ frames' \in Seq(Frames) /\ calls' \in Seq(Frames)
    BY <1>2, <1>6, <1>8, <1>9
  <2> QED  BY <1>1, <1>2, <1>4, <1>5, <1>7, <1>9, <2>1, <2>3 DEF IInv, TypeOK
<1>11. Nested'
  BY <1>1, <1>2, <1>4 DEF IInv, Nested
<1>12. ScannersFollow'
  BY <1>8, <1>9 DEF ScannersFollow
<1>13. RepeatsStop'
  <2>1. repeated' => "open" \notin {verdict', strict'}
    BY <1>7, <1>8, <1>9 DEF IInv, RepeatsStop
  <2>2. "accepted" \notin {verdict', strict'}
    BY <1>8, <1>9 DEF IInv, RepeatsStop
  <2> QED  BY <2>1, <2>2 DEF RepeatsStop
<1>14. DuplicatesFound' /\ PlaceNeverLost'
  <2>1. "accepted" \notin {verdict', strict'} /\ "not a key" \notin {verdict', strict'}
    BY <1>8, <1>9 DEF IInv, RepeatsStop, PlaceNeverLost
  <2>2. "duplicate" \in {verdict', strict'} => repeated'
    BY <1>7, <1>8, <1>9 DEF IInv, DuplicatesFound
  <2> QED  BY <2>1, <2>2 DEF DuplicatesFound, PlaceNeverLost
<1> QED
  BY <1>10, <1>11, <1>12, <1>13, <1>14 DEF IInv

\* A step that leaves the decoder and the stacks alone and may end the scan.
LEMMA EndKeeps ==
  ASSUME IInv, UNCHANGED <<wrapped, decoder, frames, calls, done, truth>>,
         phase # "end", phase' \in {"tail", "end"},
         verdict' \in {verdict, "malformed", "accepted"},
         strict' \in {strict, "malformed", "trailing", "accepted"},
         verdict' = "accepted" => phase' = "end" /\ verdict = "open",
         strict' = "accepted" => phase' = "end" /\ strict = "open"
  PROVE  IInv'
<1>1. /\ UNCHANGED wrapped /\ UNCHANGED <<at, saved, frames, calls, done, owners, repeated>>
      /\ UNCHANGED <<values, bareScalar>>
  BY DEF decoder, truth
<1>2. TypeOK'
  <2>1. TypeOK
    BY DEF IInv
  <2>2. /\ saved' \in Seq(MayHoldValue) /\ owners' \in Seq(SUBSET Keys)
        /\ frames' \in Seq(Frames) /\ calls' \in Seq(Frames) /\ at' \in TokenStates
    BY <1>1, Facts
  <2>3. wrapped' \in BOOLEAN /\ done' \in BOOLEAN /\ repeated' \in BOOLEAN
        /\ bareScalar' \in BOOLEAN
    BY <1>1, <2>1, Zenon DEF TypeOK
  <2>4. /\ verdict' \in {"open", "accepted", "malformed", "duplicate", "not a key"}
        /\ strict' \in {"open", "accepted", "malformed", "duplicate", "trailing", "not a key", "not run"}
        /\ values' \in 0 .. 2
    BY <1>1, <2>1 DEF TypeOK
  <2> QED  BY <2>2, <2>3, <2>4 DEF TypeOK
<1>3. Nested'
  BY <1>1 DEF IInv, Nested
<1>4. ScannersFollow'
  BY <1>1 DEF IInv, ScannersFollow
<1>5. RepeatsStop'
  BY <1>1 DEF IInv, RepeatsStop
<1>6. DuplicatesFound' /\ PlaceNeverLost'
  BY <1>1 DEF IInv, RepeatsStop, DuplicatesFound, PlaceNeverLost
<1> QED
  BY <1>2, <1>3, <1>4, <1>5, <1>6 DEF IInv

LEMMA ReadKeeps ==
  ASSUME IInv, NEW c \in Symbols, Read(c), UNCHANGED wrapped,
         phase # "end", phase' \in {"text", "tail", "whole"}
  PROVE  IInv'
<1>1. CASE OpenContainer(c)
  BY <1>1, OpenKeeps
<1>2. CASE CloseContainer(c)
  BY <1>2, CloseKeeps
<1>3. CASE Scalar(c)
  <2>1. CASE IsKey(c)
    BY <1>3, <2>1, KeyKeeps
  <2>2. CASE ~IsKey(c)
    BY <1>3, <2>2, ValueKeeps
  <2> QED  BY <2>1, <2>2
<1>4. CASE Separator(c)
  BY <1>4, SeparatorKeeps
<1> QED
  BY <1>1, <1>2, <1>3, <1>4 DEF Read

LEMMA InitIInv == Init => IInv
<1> SUFFICES ASSUME Init  PROVE IInv
  OBVIOUS
<1> USE StrictScanAssumption
<1>1. CASE ~wrapped
  <2>1. /\ saved = <<>> /\ owners = <<>> /\ frames = <<>> /\ calls = <<>> /\ at = "TopValue"
        /\ strict = "open"
    BY <1>1 DEF Init
  <2>2. TypeOK
    <3>1. saved \in Seq(MayHoldValue) /\ owners \in Seq(SUBSET Keys) /\ frames \in Seq(Frames)
          /\ calls \in Seq(Frames)
      BY <2>1
    <3>2. at \in TokenStates
      BY <2>1 DEF TokenStates, MayHoldValue
    <3>3. wrapped \in BOOLEAN /\ done \in BOOLEAN /\ repeated \in BOOLEAN
          /\ bareScalar \in BOOLEAN
      BY Zenon DEF Init
    <3>4. phase = "text" /\ verdict = "open" /\ values = 0
      BY DEF Init
    <3> QED  BY <2>1, <3>1, <3>2, <3>3, <3>4 DEF TypeOK
  <2>3. Expected("TopValue", <<>>, <<>>) = <<>>
    BY DEF Expected
  <2> QED  BY <2>1, <2>2, <2>3 DEF Init, IInv, Nested, ScannersFollow, RepeatsStop, DuplicatesFound, PlaceNeverLost
<1>2. CASE wrapped
  <2>1. /\ saved = <<"TopValue">> /\ owners = <<{}>> /\ calls = <<>>
        /\ at = "ArrayStart" /\ strict = "not run"
    BY <1>2 DEF Init
  <2>7. frames = <<Frame(FALSE)>>
    BY <1>2 DEF Init
  <2>2. Frame(FALSE) \in Frames /\ Frame(FALSE) = FrameAt("ArrayStart", {})
    <3>1. FrameAt("ArrayStart", {}) = [object |-> FALSE, keys |-> {}, expectKey |-> FALSE]
      BY FrameAtCases, Zenon
    <3> QED  BY <3>1 DEF Frame, Frames
  <2>3. TypeOK
    <3>1. saved \in Seq(MayHoldValue) /\ owners \in Seq(SUBSET Keys) /\ frames \in Seq(Frames)
          /\ calls \in Seq(Frames)
      <4>1. <<"TopValue">> \in Seq(MayHoldValue)
        BY DEF MayHoldValue
      <4>2. <<{}>> \in Seq(SUBSET Keys)
        OBVIOUS
      <4>3. \A f \in Frames : <<f>> \in Seq(Frames)
        OBVIOUS
      <4>4. <<Frame(FALSE)>> \in Seq(Frames)
        BY <2>2, <4>3, Zenon
      <4>5. calls \in Seq(Frames)
        <5>1. <<>> \in Seq(Frames)
          OBVIOUS
        <5> QED  BY <2>1, <5>1, Zenon
      <4> QED  BY <2>1, <2>7, <4>1, <4>2, <4>4, <4>5, Zenon
    <3>2. at \in TokenStates
      BY <2>1 DEF TokenStates, MayHoldValue
    <3>3. wrapped \in BOOLEAN /\ done \in BOOLEAN /\ repeated \in BOOLEAN
          /\ bareScalar \in BOOLEAN
      BY Zenon DEF Init
    <3>4. phase = "text" /\ verdict = "open" /\ strict = "not run" /\ values = 0
      BY <1>2 DEF Init
    <3>5. values \in 0 .. 2
      <4>1. 0 \in 0 .. 2
        OBVIOUS
      <4> QED  BY <3>4, <4>1, Zenon
    <3>6. /\ verdict \in {"open", "accepted", "malformed", "duplicate", "not a key"}
          /\ strict \in {"open", "accepted", "malformed", "duplicate", "trailing", "not a key", "not run"}
          /\ phase \in {"text", "tail", "whole", "end"}
      BY <3>4, Zenon
    <3> QED  BY <3>1, <3>2, <3>3, <3>5, <3>6, Zenon DEF TypeOK
  <2>4. Expected("ArrayStart", <<"TopValue">>, <<{}>>) = <<FrameAt("ArrayStart", {})>>
    BY DEF Expected, Position
  <2>5. Nested
    <3>1. Len(saved) = 1 /\ Len(owners) = 1 /\ saved # <<>> /\ saved[1] = "TopValue"
      BY <2>1
    <3>2. \A i \in 1 .. Len(saved) : i = 1
      BY <3>1
    <3> QED  BY <2>1, <3>1, <3>2 DEF Nested
  <2>6. ScannersFollow
    BY <2>1, <2>2, <2>4, <2>7 DEF Init, ScannersFollow
  <2> QED  BY <2>1, <2>3, <2>5, <2>6 DEF Init, IInv, RepeatsStop, DuplicatesFound, PlaceNeverLost
<1> QED
  BY <1>1, <1>2 DEF Init

LEMMA NextIInv == IInv /\ [Next]_vars => IInv'
<1> SUFFICES ASSUME IInv, [Next]_vars  PROVE IInv'
  OBVIOUS
<1> USE StrictScanAssumption
<1>1. CASE ReadSymbol
  BY <1>1, ReadKeeps DEF ReadSymbol
<1>2. ASSUME NEW c \in Symbols, Refuse(c), phase # "end"  PROVE IInv'
  <2>1. verdict' = Stopped(verdict, "malformed") /\ phase' = "end"
        /\ strict' = Stopped(strict, IF done THEN "trailing" ELSE "malformed")
        /\ UNCHANGED <<wrapped, decoder, frames, calls, done, truth>>
    BY <1>2 DEF Refuse
  <2>2. "accepted" \notin {verdict, strict}
    BY <1>2 DEF IInv, RepeatsStop
  <2>3. verdict' \in {verdict, "malformed"} /\ strict' \in {strict, "malformed", "trailing"}
    BY <2>1 DEF Stopped
  <2> QED  BY <1>2, <2>1, <2>2, <2>3, EndKeeps
<1>3. CASE RefuseSymbol
  BY <1>2, <1>3 DEF RefuseSymbol
<1>4. CASE EndOfState
  <2>1. "accepted" \notin {verdict, strict}
    BY <1>4 DEF EndOfState, IInv, RepeatsStop
  <2>2. verdict' = verdict /\ strict' = strict /\ phase # "end" /\ phase' = "tail"
        /\ UNCHANGED <<wrapped, decoder, frames, calls, done, truth>>
    BY <1>4 DEF EndOfState, scanDocVars, scanJSONVars
  <2> QED  BY <2>1, <2>2, EndKeeps
<1>5. CASE CloseWrapper
  <2>1. "]" \in Symbols /\ phase # "end"
    BY <1>5 DEF CloseWrapper, Symbols, Punctuation
  <2>2. CASE Read("]") /\ phase' = "whole" /\ UNCHANGED wrapped
    BY <2>1, <2>2, ReadKeeps
  <2>3. CASE Refuse("]")
    BY <1>2, <2>1, <2>3
  <2> QED  BY <1>5, <2>2, <2>3 DEF CloseWrapper
<1>6. CASE EndOfText
  <2>1. /\ verdict' = Stopped(verdict, IF frames = <<>> THEN "accepted" ELSE "malformed")
        /\ strict' = Stopped(strict, IF done THEN "accepted" ELSE "malformed")
        /\ phase' = "end" /\ phase # "end"
        /\ UNCHANGED <<wrapped, decoder, frames, calls, done, truth>>
    BY <1>6 DEF EndOfText
  <2>2. "accepted" \notin {verdict, strict}
    BY <2>1 DEF IInv, RepeatsStop
  <2>3. /\ verdict' \in {verdict, "malformed", "accepted"}
        /\ strict' \in {strict, "malformed", "accepted"}
        /\ (verdict' = "accepted" => verdict = "open") /\ (strict' = "accepted" => strict = "open")
    BY <2>1, <2>2 DEF Stopped
  <2> QED  BY <2>1, <2>3, EndKeeps
<1>7. CASE UNCHANGED vars
  <2>1. UNCHANGED <<wrapped, phase, at, saved, frames, verdict, calls, done, strict>>
        /\ UNCHANGED <<owners, repeated, values, bareScalar>>
    BY <1>7 DEF vars, decoder, scanDocVars, scanJSONVars, truth
  <2>2. TypeOK /\ Nested /\ ScannersFollow /\ RepeatsStop /\ DuplicatesFound /\ PlaceNeverLost
    BY DEF IInv
  <2>3. TypeOK'
    <3>1. /\ saved' \in Seq(MayHoldValue) /\ owners' \in Seq(SUBSET Keys)
          /\ frames' \in Seq(Frames) /\ calls' \in Seq(Frames) /\ at' \in TokenStates
      BY <2>1, Facts
    <3>2. wrapped' \in BOOLEAN /\ done' \in BOOLEAN /\ repeated' \in BOOLEAN
          /\ bareScalar' \in BOOLEAN
      BY <2>1, <2>2, Zenon DEF TypeOK
    <3>3. /\ verdict' \in {"open", "accepted", "malformed", "duplicate", "not a key"}
          /\ strict' \in {"open", "accepted", "malformed", "duplicate", "trailing", "not a key", "not run"}
          /\ values' \in 0 .. 2
          /\ phase' \in {"text", "tail", "whole", "end"}
      BY <2>1, <2>2 DEF TypeOK
    <3> QED  BY <3>1, <3>2, <3>3 DEF TypeOK
  <2>4. Nested' /\ ScannersFollow'
    BY <2>1, <2>2 DEF Nested, ScannersFollow
  <2>5. RepeatsStop' /\ DuplicatesFound' /\ PlaceNeverLost'
    BY <2>1, <2>2 DEF RepeatsStop, DuplicatesFound, PlaceNeverLost
  <2> QED  BY <2>3, <2>4, <2>5 DEF IInv
<1> QED
  BY <1>1, <1>3, <1>4, <1>5, <1>6, <1>7 DEF Next, Finished

\* The scanners follow the decoder through every text: their stacks
\* (scan.go's frames, scanValue's calls) are the frames of the open containers,
\* each with the keys read so far and expecting a key exactly when one is due.
THEOREM ScannersKeepPlace == Spec => []IInv
<1>1. Init => IInv
  BY InitIInv
<1>2. IInv /\ [Next]_vars => IInv'
  BY NextIInv
<1> QED
  BY <1>1, <1>2, PTL DEF Spec

\* scanDoc and scanJSON accept no text that repeats a key within an object,
\* however deep, and report a duplicate for no other text.
THEOREM RepeatedKeysAreFound == Spec => []DuplicatesFound
<1>1. IInv => DuplicatesFound
  BY DEF IInv
<1> QED
  BY <1>1, ScannersKeepPlace, PTL

\* Neither scanner ever reaches its branch for an object key that is no string:
\* it never takes a value for a key.
THEOREM PlaceIsNeverLost == Spec => []PlaceNeverLost
<1>1. IInv => PlaceNeverLost
  BY DEF IInv
<1> QED
  BY <1>1, ScannersKeepPlace, PTL

------------------------------------------------------------------------------
(* The two scanners side by side.                                           *)

\* While both read a document they differ in two things: a scalar outside every
\* container stops scanDoc alone, a second value scanJSON alone.
Reading ==
  /\ strict = "open" => values = IF done THEN 1 ELSE 0
  /\ verdict = "open" => ~bareScalar
  /\ strict = "open" /\ verdict # "open" => bareScalar
  /\ verdict = "open" /\ strict # "open" => values = 2 \/ (values = 1 /\ saved # <<>>)

Agreement ==
  ~wrapped => IF phase = "end" THEN ScannersAgree ELSE phase = "text" /\ Reading

LEMMA StacksEmpty ==
  ASSUME IInv
  PROVE  /\ verdict = "open" => (frames = <<>>) = (saved = <<>>)
         /\ strict = "open" => (calls = <<>>) = (saved = <<>>)
BY Facts, ExpectedType

LEMMA StacksEmptyNext ==
  ASSUME IInv'
  PROVE  strict' = "open" => (calls' = <<>>) = (saved' = <<>>)
<1> DEFINE a == at'  s == saved'  k == owners'
<1>1. /\ a \in TokenStates /\ s \in Seq(MayHoldValue) /\ k \in Seq(SUBSET Keys)
      /\ Len(k) = Len(s)
  BY DEF IInv, TypeOK, Nested
<1>2. strict' = "open" => calls' = Expected(a, s, k)
  BY DEF IInv, ScannersFollow
<1> HIDE DEF a, s, k
<1>3. (Expected(a, s, k) = <<>>) = (s = <<>>)
  BY <1>1, ExpectedType
<1>. QED BY <1>2, <1>3 DEF s

\* What a key, and what a scalar that is none, makes of the two results.
LEMMA KeyResults ==
  ASSUME IInv, NEW c \in Symbols, Scalar(c), IsKey(c)
  PROVE  /\ verdict' = IF verdict # "open" THEN verdict
                       ELSE IF c \in Top(owners) THEN "duplicate" ELSE "open"
         /\ strict' = IF strict # "open" THEN strict
                      ELSE IF c \in Top(owners) THEN "duplicate" ELSE "open"
         /\ strict' = "open" => ~done'
<1>1. at \in MayHoldKey /\ c \in Keys
  BY DEF IsKey
<1>2. saved # <<>> /\ at \in TokenStates
  BY <1>1, Facts DEF MayHoldKey
<1> DEFINE E == Expected(at, saved, owners)
<1>3. AtKey(E) /\ Top(E).keys = Top(owners) /\ E # <<>>
  <2>1. AtKey(E) /\ Top(E).keys = Top(owners)
    BY <1>1, <1>2, Facts, ExpectedTakesKey
  <2>. QED BY <2>1 DEF AtKey
<1> HIDE DEF E
<1>4. (verdict = "open" => frames = E) /\ (strict = "open" => calls = E)
  BY Facts DEF E
<1>5. strict = "open" => ~done
  BY <1>2 DEF IInv, ScannersFollow
<1>6. verdict' = IF verdict # "open" THEN verdict
                 ELSE IF c \in Top(owners) THEN "duplicate" ELSE "open"
  BY <1>1, <1>3, <1>4 DEF Scalar, DocScalar, ScalarResult
<1>7. strict' = IF strict # "open" THEN strict
                ELSE IF c \in Top(owners) THEN "duplicate" ELSE "open"
  BY <1>1, <1>3, <1>4, <1>5 DEF Scalar, JSONScalar, ScalarResult, AfterValue
<1>8. strict' = "open" => ~done'
  <2>1. done' = (done \/ (strict' = "open" /\ calls = <<>>))
    BY DEF Scalar, JSONScalar
  <2>. QED BY <1>3, <1>4, <1>5, <1>7, <2>1
<1>. QED BY <1>6, <1>7, <1>8

LEMMA ValueResults ==
  ASSUME IInv, NEW c \in Symbols, Scalar(c), ~IsKey(c)
  PROVE  /\ verdict' = IF verdict # "open" THEN verdict
                       ELSE IF saved = <<>> THEN "malformed" ELSE "open"
         /\ strict' = IF strict # "open" THEN strict ELSE IF done THEN "trailing" ELSE "open"
         /\ strict' = "open" => (done' <=> saved = <<>>)
<1>1. at \in MayHoldValue
  BY StrictScanAssumption DEF Scalar, Takes, Punctuation
<1> DEFINE E == Expected(at, saved, owners)
<1>2. ~AtKey(E) /\ (E = <<>>) = (saved = <<>>)
  BY <1>1, Facts, ExpectedAtValue
<1> HIDE DEF E
<1>3. (verdict = "open" => frames = E) /\ (strict = "open" => calls = E)
  BY Facts DEF E
<1>4. verdict' = IF verdict # "open" THEN verdict
                 ELSE IF saved = <<>> THEN "malformed" ELSE "open"
  BY <1>2, <1>3 DEF Scalar, DocScalar, ScalarResult
<1>5. strict' = IF strict # "open" THEN strict ELSE IF done THEN "trailing" ELSE "open"
  BY <1>2, <1>3 DEF Scalar, JSONScalar, ScalarResult, AfterValue
<1>6. strict' = "open" => (done' <=> saved = <<>>)
  <2>1. done' = (done \/ (strict' = "open" /\ calls = <<>>))
    BY DEF Scalar, JSONScalar
  <2>. QED BY <1>2, <1>3, <1>5, <2>1
<1>. QED BY <1>4, <1>5, <1>6

LEMMA OpenAgrees ==
  ASSUME IInv, IInv', Reading, ~wrapped, NEW c \in Symbols, OpenContainer(c)
  PROVE  Reading'
<1>1. /\ values' = values /\ bareScalar' = bareScalar /\ done' = done
      /\ verdict' = verdict
      /\ strict' = IF strict # "open" THEN strict ELSE IF AtKey(calls) THEN "not a key" ELSE AfterValue
  BY DEF OpenContainer, DocOpens, JSONOpens, scanDocVars
<1>2. saved' # <<>>
  <2>1. at \in MayHoldValue
    BY StrictScanAssumption DEF OpenContainer, Takes, IsKey, Open, Punctuation
  <2>2. Len(saved') = Len(saved) + 1 /\ Len(saved) \in Nat
    BY <2>1, Facts, AppendType DEF OpenContainer
  <2>. QED BY <2>2
<1>3. strict' # "not a key"
  BY DEF IInv, PlaceNeverLost
<1>. QED BY <1>1, <1>2, <1>3 DEF Reading, AfterValue

LEMMA EmptyIsZero ==
  ASSUME NEW S, NEW s \in Seq(S)
  PROVE  Len(s) \in Nat /\ ((s = <<>>) <=> Len(s) = 0)
OBVIOUS

LEMMA Counts == ASSUME IInv PROVE values = 0 \/ values = 1 \/ values = 2
<1>1. values \in 0 .. 2
  BY DEF IInv, TypeOK
<1>. QED BY <1>1

LEMMA CloseAgrees ==
  ASSUME IInv, IInv', Reading, ~wrapped, phase = "text", NEW c \in Symbols, CloseContainer(c)
  PROVE  Reading'
<1>1. saved # <<>> /\ Len(saved) \in Nat /\ Len(saved) # 0
  <2>1. at \in {"ArrayStart", "ArrayComma", "ObjectStart", "ObjectComma"}
    BY StrictScanAssumption DEF CloseContainer, Takes, IsKey, Open, Punctuation
  <2>2. saved # <<>>
    BY <2>1, Facts
  <2>. QED BY <2>2, Facts
<1>2. Len(saved') = Len(saved) - 1 /\ saved' \in Seq(MayHoldValue)
  BY <1>1, Facts, PopType DEF CloseContainer
<1>3. /\ verdict' = verdict /\ strict' = strict /\ bareScalar' = bareScalar
      /\ strict = "open" => done' = (calls' = <<>>)
      /\ values' = IF Len(saved') = 0 THEN IF values = 2 THEN 2 ELSE values + 1 ELSE values
  BY <1>2 DEF CloseContainer, DocCloses, JSONCloses, scanDocVars, scanJSONVars, Counted, Base
<1>4. strict = "open" => ~done /\ values = 0
  BY <1>1 DEF IInv, ScannersFollow, Reading
<1>5. strict = "open" => (done' <=> Len(saved') = 0)
  <2> DEFINE s == saved'
  <2>0. s \in Seq(MayHoldValue)
    BY <1>2
  <2> HIDE DEF s
  <2>1. (s = <<>>) <=> Len(s) = 0
    BY <2>0, EmptyIsZero
  <2>. QED BY <1>3, <2>1, StacksEmptyNext DEF s
<1>. QED BY <1>1, <1>2, <1>3, <1>4, <1>5, Counts DEF Reading

LEMMA ValueAgrees ==
  ASSUME IInv, Reading, ~wrapped, phase = "text",
         NEW c \in Symbols, Scalar(c), ~IsKey(c)
  PROVE  Reading'
<1>1. saved' = saved /\ ((saved = <<>>) <=> Len(saved) = 0)
  BY Facts, EmptyIsZero DEF Scalar
<1>2. bareScalar' <=> (bareScalar \/ saved = <<>>)
  <2>1. bareScalar' = (bareScalar \/ (Len(saved) = 0))
    BY Zenon DEF Scalar, Base
  <2>. QED BY <1>1, <2>1
<1>3. values' = IF saved = <<>> THEN IF values = 2 THEN 2 ELSE values + 1 ELSE values
  <2>1. values' = IF Len(saved) = 0 THEN IF values = 2 THEN 2 ELSE values + 1 ELSE values
    BY DEF Scalar, Counted, Base
  <2>. QED BY <1>1, <2>1
<1>4. /\ verdict' = IF verdict # "open" THEN verdict
                    ELSE IF saved = <<>> THEN "malformed" ELSE "open"
      /\ strict' = IF strict # "open" THEN strict ELSE IF done THEN "trailing" ELSE "open"
      /\ strict' = "open" => (done' <=> saved = <<>>)
  BY ValueResults
<1>5. strict = "open" /\ done => saved = <<>>
  BY DEF IInv, ScannersFollow
<1>6. strict' = "open" => values' = IF done' THEN 1 ELSE 0
  BY <1>3, <1>4 DEF Reading
<1>7. verdict' = "open" => ~bareScalar'
  BY <1>2, <1>4 DEF Reading
<1>8. strict' = "open" /\ verdict' # "open" => bareScalar'
  BY <1>2, <1>4 DEF Reading
<1>9. verdict' = "open" /\ strict' # "open" => values' = 2 \/ (values' = 1 /\ saved' # <<>>)
  BY <1>1, <1>3, <1>4, <1>5 DEF Reading
<1>. QED BY <1>6, <1>7, <1>8, <1>9 DEF Reading

LEMMA KeyAgrees ==
  ASSUME IInv, Reading, ~wrapped, NEW c \in Symbols, Scalar(c), IsKey(c)
  PROVE  Reading'
<1>1. values' = values /\ saved' = saved /\ bareScalar' = bareScalar
  <2>1. bareScalar \in BOOLEAN /\ bareScalar' = (bareScalar \/ (Len(saved) = Base /\ ~IsKey(c)))
    BY DEF IInv, TypeOK, Scalar
  <2>2. bareScalar' = bareScalar
    BY <2>1
  <2>. QED BY <2>2 DEF Scalar
<1>2. saved # <<>>
  BY Facts DEF IsKey, MayHoldKey
<1>3. strict = "open" => ~done
  BY <1>2 DEF IInv, ScannersFollow
<1>. QED BY <1>1, <1>3, KeyResults DEF Reading

LEMMA AgreementStep == IInv /\ IInv' /\ Agreement /\ [Next]_vars => Agreement'
<1> SUFFICES ASSUME IInv, IInv', Agreement, [Next]_vars, ~wrapped PROVE Agreement'
  <2>1. [Next]_vars => wrapped' = wrapped
    BY DEF Next, vars, ReadSymbol, RefuseSymbol, Refuse, EndOfState, CloseWrapper, EndOfText, Finished
  <2>. QED BY <2>1 DEF Agreement
<1>1. ASSUME NEW c \in Symbols, Read(c), phase = "text", UNCHANGED <<wrapped, phase>>
      PROVE  Agreement'
  <2>1. Reading
    BY <1>1 DEF Agreement
  <2>2. Reading'
    <3>1. CASE OpenContainer(c)
      BY <2>1, <3>1, OpenAgrees
    <3>2. CASE CloseContainer(c)
      BY <1>1, <2>1, <3>2, CloseAgrees
    <3>3. CASE Scalar(c)
      BY <1>1, <2>1, <3>3, ValueAgrees, KeyAgrees
    <3>4. CASE Separator(c)
      BY <2>1, <3>4 DEF Separator, scanDocVars, scanJSONVars, truth, Reading
    <3>. QED BY <1>1, <3>1, <3>2, <3>3, <3>4 DEF Read
  <2>. QED BY <1>1, <2>2 DEF Agreement
<1>2. CASE RefuseSymbol
  <2>1. /\ phase' = "end" /\ phase = "text"
        /\ verdict' = Stopped(verdict, "malformed")
        /\ strict' = Stopped(strict, IF done THEN "trailing" ELSE "malformed")
    BY <1>2 DEF RefuseSymbol, Refuse
  <2>2. "accepted" \notin {verdict, strict}
    BY <2>1 DEF IInv, RepeatsStop
  <2>3. "accepted" \notin {verdict', strict'}
    BY <2>1, <2>2 DEF Stopped
  <2>. QED BY <2>1, <2>3 DEF Agreement, ScannersAgree
<1>3. CASE EndOfText
  <2>1. /\ phase = "text" /\ phase' = "end"
        /\ verdict' = Stopped(verdict, IF frames = <<>> THEN "accepted" ELSE "malformed")
        /\ strict' = Stopped(strict, IF done THEN "accepted" ELSE "malformed")
        /\ UNCHANGED <<values, bareScalar>>
    BY <1>3 DEF EndOfText, truth
  <2>2. Reading
    BY <2>1 DEF Agreement
  <2>3. /\ verdict # "accepted" /\ strict # "accepted"
        /\ verdict = "open" => (frames = <<>>) = (saved = <<>>)
        /\ strict = "open" /\ done => saved = <<>>
    BY <2>1, StacksEmpty DEF IInv, RepeatsStop, ScannersFollow
  <2>4. /\ strict' = "accepted" <=> strict = "open" /\ done
        /\ verdict' = "accepted" <=> verdict = "open" /\ saved = <<>>
    BY <2>1, <2>3 DEF Stopped
  <2>. QED BY <2>1, <2>2, <2>3, <2>4, Counts DEF Reading, Agreement, ScannersAgree
<1>4. CASE ReadSymbol
  BY <1>1, <1>4 DEF ReadSymbol
<1>5. CASE EndOfState \/ CloseWrapper
  BY <1>5 DEF EndOfState, CloseWrapper, Agreement
<1>6. CASE UNCHANGED vars
  BY <1>6 DEF vars, decoder, scanDocVars, scanJSONVars, truth, Agreement, Reading, ScannersAgree
<1>. QED BY <1>2, <1>3, <1>4, <1>5, <1>6 DEF Next, Finished

\* Written apart from each other, scanDoc and scanJSON accept the same documents:
\* of one value that is a container both say the same, a text of several values
\* only scanDoc takes, and a bare scalar only scanJSON.
THEOREM OneStrictness == Spec => []ScannersAgree
<1>1. Init => Agreement
  BY DEF Init, Agreement, Reading
<1>2. Spec => []Agreement
  BY <1>1, AgreementStep, ScannersKeepPlace, PTL DEF Spec
<1>3. Agreement => ScannersAgree
  BY DEF Agreement, ScannersAgree
<1>. QED BY <1>2, <1>3, PTL

==============================================================================
