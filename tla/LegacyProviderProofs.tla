------------------------ MODULE LegacyProviderProofs ------------------------
(***************************************************************************)
(* That the two reads of LegacyProvider implement the single look of       *)
(* LegacyLookup, for all values, versions and writes of other programs;    *)
(* and that what is then written of an instance, of the registry or of the *)
(* setup service, is what it answered, for all instances and texts.        *)
(***************************************************************************)
EXTENDS Listing, SequenceLemmas

\* At the start the types are right.
LEMMA InitType == Init => TypeOK
  <1> SUFFICES ASSUME Init PROVE TypeOK
    OBVIOUS
  <1>1. <<>> \in Seq({Nothing} \cup {Found(path) : path \in Data})
    OBVIOUS
  <1> QED
    BY <1>1 DEF Init, TypeOK

\* While a value is read, it is one of those asked for, in the registry.
LEMMA ValueType ==
  ASSUME TypeOK, pc \in {"size", "value"}
  PROVE  asked \in 1..Len(Versions) /\ value \in Data \cup {Absent}
  <1>1. asked \in 1..Len(Versions)
    <2>1. Len(answers) \in Nat
      BY DEF TypeOK
    <2>2. asked <= Len(Versions) /\ Len(Versions) \in Nat
      BY ValuesAssumption DEF TypeOK
    <2> QED
      BY <2>1, <2>2 DEF asked
  <1> QED
    BY <1>1 DEF TypeOK, Registries, value

\* An answer that is returned keeps them.
LEMMA AnswerType ==
  ASSUME TypeOK, NEW a \in {Nothing} \cup {Found(path) : path \in Data}, Return(a)
  PROVE  TypeOK'
  <1>1. answers' \in Seq({Nothing} \cup {Found(path) : path \in Data})
    <2> DEFINE S == {Nothing} \cup {Found(path) : path \in Data}
    <2>1. answers \in Seq(S) /\ a \in S /\ answers' = Append(answers, a)
      BY DEF TypeOK, Return
    <2> HIDE DEF S
    <2>2. answers' \in Seq(S)
      BY <2>1
    <2> QED
      BY <2>2 DEF S
  <1> QED
    BY <1>1 DEF TypeOK, Return

\* Every step of the provider and of other programs keeps them.
LEMMA StepType == TypeOK /\ [Next]_vars => TypeOK'
  <1> SUFFICES ASSUME TypeOK, [Next]_vars PROVE TypeOK'
    OBVIOUS
  <1>1. CASE Write
    <2>1. PICK j \in 1..Len(Versions), v \in Data \cup {Absent} :
            /\ registry' = [registry EXCEPT ![j] = v]
            /\ changed' = (changed \/ (pc = "value" /\ j = asked /\ v # value))
      BY <1>1 DEF Write
    <2>2. registry' \in Registries /\ changed' \in BOOLEAN /\ writes' \in Nat
      BY <2>1, <1>1 DEF Write, TypeOK, Registries
    <2>3. pc = "value" /\ ~changed' => value' = value /\ asked' = asked
      BY <2>1, <1>1, ValueType DEF Write, TypeOK, Registries, value, asked
    <2> QED
      BY <2>2, <2>3, <1>1, <2>1 DEF Write, TypeOK, asked
  <1>2. CASE DeleteKey
    <2>1. registry' \in Registries /\ changed' \in BOOLEAN /\ writes' \in Nat
      BY <1>2, ValuesAssumption DEF DeleteKey, TypeOK, Registries
    <2>2. pc = "value" => value \in Strings \/ changed
      BY DEF TypeOK
    <2>3. Absent \notin Strings
      BY ValuesAssumption DEF Data
    <2>4. pc = "value" => changed'
      BY <2>2, <2>3, <1>2 DEF DeleteKey
    <2> QED
      BY <2>1, <2>4, <1>2 DEF DeleteKey, TypeOK, asked
  <1>3. CASE Construct
    BY <1>3 DEF Construct, TypeOK, Registries
  <1>4. CASE AskNext
    BY <1>4 DEF AskNext, TypeOK, asked
  <1>5. CASE ReadSize
    <2>1. CASE Return(Nothing)
      BY <2>1, AnswerType
    <2>2. CASE value \in Strings
      BY <2>2, <1>5 DEF ReadSize, Return, TypeOK, asked, value, Nothing
    <2> QED
      BY <2>1, <2>2, <1>5 DEF ReadSize
  <1>6. CASE ReadValue
    <2>1. CASE Fits /\ Return(Found(value))
      BY <2>1, AnswerType DEF Fits
    <2>2. CASE ~Fits
      BY <2>2, <1>6 DEF ReadValue, TypeOK
    <2> QED
      BY <2>1, <2>2, <1>6 DEF ReadValue
  <1>7. CASE Done \/ UNCHANGED vars
    BY <1>7 DEF Done, vars, TypeOK, asked, value
  <1> QED
    BY <1>1, <1>2, <1>3, <1>4, <1>5, <1>6, <1>7 DEF Next

\* The types, and what a size that was read says of the value now.
THEOREM TypeCorrect == Spec => []TypeOK
  BY InitType, StepType, PTL DEF Spec

-----------------------------------------------------------------------------

\* What LegacyLookup and LegacyProvider both define is the same.
LEMMA SameNames ==
  /\ Lookup!asked = asked
  /\ Lookup!Registries = Registries
  /\ Lookup!Nothing = Nothing
  /\ \A path : Lookup!Found(path) = Found(path)
  BY DEF Lookup!asked, asked, Lookup!Registries, Registries, Lookup!Data, Data, Lookup!Nothing,
     Nothing,
         Lookup!Found, Found

\* The provider begins as the single look does.
LEMMA InitLookup == Init => Lookup!Init
  BY SameNames DEF Init, Lookup!Init

\* Each step is a step of the single look, or is not seen there.
LEMMA StepLookup == TypeOK /\ [Next]_vars => [Lookup!Next]_(Lookup!vars)
  <1> SUFFICES ASSUME TypeOK, [Next]_vars PROVE [Lookup!Next]_(Lookup!vars)
    OBVIOUS
  <1>1. CASE Write
    <2>1. PICK j \in 1..Len(Versions), v \in Data \cup {Absent} :
            /\ registry' = [registry EXCEPT ![j] = v]
            /\ changed' = (changed \/ (pc = "value" /\ j = asked /\ v # value))
      BY <1>1 DEF Write
    <2>2. registry' \in Registries /\ changed' \in BOOLEAN
      BY <2>1 DEF TypeOK, Registries
    <2>3. changed' => changed \/ (asked <= Len(Versions) /\ registry'[asked] # registry[asked])
      BY <2>1, ValueType DEF TypeOK, Registries, value
    <2> QED
      BY <2>1, <2>2, <2>3, <1>1, SameNames DEF Write, Lookup!Next, Lookup!Write, TypeOK
  <1>2. CASE DeleteKey
    <2>1. registry' \in Registries /\ changed' \in BOOLEAN
      BY <1>2 DEF DeleteKey, TypeOK, Registries
    <2>2. changed' => changed \/ (asked <= Len(Versions) /\ registry'[asked] # registry[asked])
      BY <1>2, ValueType DEF DeleteKey, TypeOK, value
    <2> QED
      BY <2>1, <2>2, <1>2, SameNames DEF DeleteKey, Lookup!Next, Lookup!Write, TypeOK
  <1>3. CASE Construct
    BY <1>3 DEF Construct, Lookup!vars
  <1>4. CASE AskNext
    BY <1>4 DEF AskNext, Lookup!vars
  <1>5. CASE ReadSize
    <2>1. CASE value \notin Strings /\ Return(Nothing)
      <3>1. Lookup!AnswerNothing
        BY <2>1, <1>5, SameNames, ValueType
        DEF ReadSize, Return, Lookup!AnswerNothing, Lookup!Answer, value
      <3> QED
        BY <3>1 DEF Lookup!Next
    <2>2. CASE ~(value \notin Strings /\ Return(Nothing))
      BY <2>2, <1>5 DEF ReadSize, Lookup!vars
    <2> QED
      BY <2>1, <2>2
  <1>6. CASE ReadValue
    <2>0. changed \/ (value \in Strings /\ cbData = Size[value])
      BY <1>6 DEF ReadValue, TypeOK
    <2>1. CASE Fits /\ Return(Found(value))
      <3>1. value \in Strings \/ (changed /\ value \in Others)
        BY <2>0, <2>1 DEF Fits, Data
      <3>2. Lookup!AnswerFound
        BY <3>1, <2>1, <1>6, SameNames, ValueType
        DEF ReadValue, Return, Lookup!AnswerFound, Lookup!Answer, value
      <3> QED
        BY <3>2 DEF Lookup!Next
    <2>2. CASE ~Fits
      <3>1. changed
        <4>1. value \in Strings => Size[value] \in Nat
          BY ValuesAssumption DEF Data
        <4> QED
          BY <2>0, <2>2, <4>1 DEF Fits, Data
      <3>2. Lookup!Fail
        <4>1. pc = "value" /\ pc' = "thrown" /\ UNCHANGED <<registry, changed, answers>>
          BY <2>2, <1>6 DEF ReadValue
        <4>2. asked <= Len(Versions)
          BY <4>1 DEF TypeOK
        <4>3. /\ ~(pc = "thrown") /\ (pc = "thrown")' = TRUE
          BY <4>1
        <4> QED
          BY <3>1, <4>1, <4>2, <4>3, SameNames DEF Lookup!Fail
      <3> QED
        BY <3>2 DEF Lookup!Next
    <2> QED
      BY <2>1, <2>2, <1>6 DEF ReadValue
  <1>7. CASE Done \/ UNCHANGED vars
    BY <1>7 DEF Done, vars, Lookup!vars
  <1> QED
    BY <1>1, <1>2, <1>3, <1>4, <1>5, <1>6, <1>7 DEF Next

\* Reading the size and the data apart looks to the caller like one read, except
\* that a write in between may make it fail or give it data of another type.
THEOREM TwoReadsLookUpAtOnce == Spec => LooksUpAtOnce
  <1>1. Init => Lookup!Init
    BY InitLookup
  <1>2. TypeOK /\ [Next]_vars => [Lookup!Next]_(Lookup!vars)
    BY StepLookup
  <1> QED
    BY <1>1, <1>2, TypeCorrect, PTL DEF Spec, LooksUpAtOnce, Lookup!Spec

-----------------------------------------------------------------------------
(* Escaping and reading back                                                *)

\* What the proof needs of the characters.
CharactersDiffer ==
  /\ Quote # Backslash /\ NewLine \notin {Quote, Backslash}
  /\ LetterN \notin {Quote, Backslash}

\* Where the next character is that has to be escaped.
ToEscape(text, last) == {p \in (last + 1)..Len(text) : text[p] \in V!E!Escaped}

\* What Escape makes of a text from a place on, given what it makes of the rest.
EscapeFrom(text, last, f) ==
  IF ToEscape(text, last) = {} THEN SubSeq(text, last + 1, Len(text))
  ELSE LET pos == V!E!Min(ToEscape(text, last))
       IN  SubSeq(text, last + 1, pos - 1) \o <<Backslash, text[pos]>> \o f[pos]

\* The next one is after that place.
LEMMA NextToEscape ==
  ASSUME NEW C, NEW text \in Seq(C), NEW last \in 0..Len(text), ToEscape(text, last) # {}
  PROVE  LET pos == V!E!Min(ToEscape(text, last))
         IN  /\ pos \in (last + 1)..Len(text) /\ text[pos] \in V!E!Escaped
             /\ \A p \in (last + 1)..(pos - 1) : text[p] \notin V!E!Escaped
<1> DEFINE F == ToEscape(text, last)
           pos == V!E!Min(F)
<1>1. Len(text) \in Nat /\ F \subseteq Nat /\ F # {}
  BY DEF ToEscape
<1>2. \E j \in F : \A i \in F : j <= i
  <2> HIDE DEF F
  <2> QED
    BY <1>1, Least
<1>3. pos \in F /\ \A i \in F : pos <= i
  <2> HIDE DEF F
  <2> QED
    BY <1>2 DEF V!E!Min
<1>4. pos \in (last + 1)..Len(text) /\ text[pos] \in V!E!Escaped
  BY <1>3 DEF ToEscape
<1>5. ASSUME NEW p \in (last + 1)..(pos - 1) PROVE text[p] \notin V!E!Escaped
  <2> SUFFICES ASSUME text[p] \in V!E!Escaped PROVE FALSE
    OBVIOUS
  <2>1. p \in (last + 1)..Len(text) /\ ~ (pos <= p)
    <3> HIDE DEF pos
    <3> QED
      BY <1>1, <1>4
  <2>2. p \in F
    BY <2>1 DEF ToEscape
  <2> HIDE DEF F, pos
  <2> QED
    BY <1>3, <2>1, <2>2
<1> QED
  BY <1>4, <1>5

\* Escape is given by a function from the places of the text.
LEMMA EscapeIs ==
  ASSUME NEW C, NEW text \in Seq(C)
  PROVE  \E f : /\ \A last \in 0..Len(text) : f[last] = EscapeFrom(text, last, f)
                /\ V!E!Escape(text) = f[0]
<1> DEFINE b == Len(text)
           S == Seq(C \cup {Backslash})
           G == [last \in 0..b |-> [f \in [0..b -> S] |-> EscapeFrom(text, last, f)]]
           Is(f) == f = [last \in 0..Len(text) |-> EscapeFrom(text, last, f)]
<1>1. b \in Nat /\ S # {}
  <2>1. <<>> \in S
    OBVIOUS
  <2> QED
    BY <2>1
<1>2. ASSUME NEW last \in 0..b, NEW f \in [0..b -> S] PROVE EscapeFrom(text, last, f) \in S
  <2> DEFINE pos == V!E!Min(ToEscape(text, last))
  <2>1. text \in S
    OBVIOUS
  <2>2. CASE ToEscape(text, last) = {}
    <3>1. SubSeq(text, last + 1, Len(text)) \in S
      BY <1>1, <1>2, <2>1
    <3> QED
      BY <2>2, <3>1 DEF EscapeFrom
  <2>3. CASE ToEscape(text, last) # {}
    <3>1. pos \in (last + 1)..Len(text)
      BY <2>3, NextToEscape
    <3> HIDE DEF pos
    <3>2. f[pos] \in S
      BY <1>1, <1>2, <3>1
    <3>3. text[pos] \in C \cup {Backslash}
      BY <1>1, <1>2, <3>1
    <3>4. <<Backslash, text[pos]>> \in S
      BY <3>3
    <3>5. SubSeq(text, last + 1, pos - 1) \in S
      BY <1>1, <1>2, <2>1, <3>1
    <3> HIDE DEF S
    <3>6. SubSeq(text, last + 1, pos - 1) \o <<Backslash, text[pos]>> \o f[pos] \in S
      BY <3>2, <3>4, <3>5 DEF S
    <3> QED
      BY <2>3, <3>6 DEF EscapeFrom, pos
  <2> QED
    BY <2>2, <2>3
<1>3. G \in [0..b -> [[0..b -> S] -> S]]
  <2> HIDE DEF S
  <2> QED
    BY <1>2
<1>4. ASSUME NEW last \in 0..b, NEW f \in [0..b -> S], NEW g \in [0..b -> S],
             \A j \in (last + 1)..b : f[j] = g[j]
      PROVE  G[last][f] = G[last][g]
  <2>1. EscapeFrom(text, last, f) = EscapeFrom(text, last, g)
    <3>1. CASE ToEscape(text, last) = {}
      BY <3>1 DEF EscapeFrom
    <3>2. CASE ToEscape(text, last) # {}
      <4>1. V!E!Min(ToEscape(text, last)) \in (last + 1)..Len(text)
        BY <3>2, NextToEscape
      <4> QED
        BY <1>4, <3>2, <4>1 DEF EscapeFrom
    <3> QED
      BY <3>1, <3>2
  <2> HIDE DEF S
  <2> QED
    BY <2>1
<1>5. PICK f \in [0..b -> S] : Solves(0, b, f, G)
  <2> HIDE DEF G, S, b
  <2>1. LooksAhead(0, b, S, G)
    BY <1>3, <1>4 DEF LooksAhead
  <2> QED
    BY <1>1, <2>1, Backwards
<1>6. Is(f)
  <2>1. \A last \in 0..b : f[last] = EscapeFrom(text, last, f)
    <3> HIDE DEF S
    <3> QED
      BY <1>5 DEF Solves
  <2> HIDE DEF S
  <2> QED
    BY <2>1
<1>7. Is(CHOOSE g : Is(g))
  <2> HIDE DEF Is
  <2> QED
    BY <1>6
<1>8. V!E!Escape(text) = (CHOOSE g : Is(g))[0]
  BY DEF V!E!Escape, EscapeFrom, ToEscape
<1>9. \A g : Is(g) => \A last \in 0..Len(text) : g[last] = EscapeFrom(text, last, g)
  OBVIOUS
<1> HIDE DEF Is
<1> QED
  BY <1>7, <1>8, <1>9

\* What Escape makes of each character.
Piece(c) == IF c \in V!E!Escaped THEN <<Backslash, c>> ELSE <<c>>
Pieces(s) == [i \in DOMAIN s |-> Piece(s[i])]

\* They are sequences of the same characters and the backslash.
LEMMA PiecesType ==
  ASSUME NEW C, NEW s \in Seq(C)
  PROVE  Pieces(s) \in Seq(Seq(C \cup {Backslash})) /\ Len(Pieces(s)) = Len(s)
<1>1. Len(s) \in Nat /\ DOMAIN s = 1..Len(s)
  OBVIOUS
<1>2. ASSUME NEW i \in 1..Len(s) PROVE Piece(s[i]) \in Seq(C \cup {Backslash})
  <2>1. s[i] \in C
    OBVIOUS
  <2> QED
    <3>1. <<s[i]>> \in Seq(C \cup {Backslash}) /\ <<Backslash, s[i]>> \in Seq(C \cup {Backslash})
      BY <2>1
    <3> QED
      BY <3>1 DEF Piece
<1> DEFINE W == Seq(C \cup {Backslash})
<1> HIDE DEF W
<1>3. Pieces(s) \in [1..Len(s) -> W]
  BY <1>1, <1>2 DEF Pieces, W
<1>4. Pieces(s) \in Seq(W) /\ Len(Pieces(s)) = Len(s)
  BY <1>1, <1>3
<1> QED
  BY <1>4 DEF W

\* What is made of two texts one after the other.
LEMMA PiecesConcat ==
  ASSUME NEW C, NEW s \in Seq(C), NEW t \in Seq(C)
  PROVE  /\ FlattenSeq(Pieces(s \o t)) = FlattenSeq(Pieces(s)) \o FlattenSeq(Pieces(t))
         /\ FlattenSeq(Pieces(s)) \in Seq(C \cup {Backslash})
<1> DEFINE V0 == C \cup {Backslash}
           p == Pieces(s)
           q == Pieces(t)
           r == Pieces(s \o t)
<1>1. s \o t \in Seq(C) /\ Len(s \o t) = Len(s) + Len(t) /\ Len(s) \in Nat /\ Len(t) \in Nat
  OBVIOUS
<1>2. /\ p \in Seq(Seq(V0)) /\ Len(p) = Len(s)
      /\ q \in Seq(Seq(V0)) /\ Len(q) = Len(t)
      /\ r \in Seq(Seq(V0)) /\ Len(r) = Len(s) + Len(t)
  BY <1>1, PiecesType
<1>3. \A k \in 1..Len(p) : r[k] = p[k]
  BY <1>1, <1>2 DEF Pieces
<1>4. \A k \in 1..Len(q) : r[Len(p) + k] = q[k]
  <2> TAKE k \in 1..Len(q)
  <2>1. k \in 1..Len(t) /\ Len(s) + k \in 1..(Len(s) + Len(t)) /\ (s \o t)[Len(s) + k] = t[k]
    BY <1>1, <1>2
  <2>2. q[k] = Piece(t[k])
    BY <2>1 DEF Pieces
  <2>3. r[Len(s) + k] = Piece((s \o t)[Len(s) + k])
    <3> DEFINE u == s \o t
    <3>1. Len(s) + k \in DOMAIN u
      BY <1>1, <2>1
    <3> HIDE DEF u
    <3> QED
      BY <3>1 DEF Pieces, u
  <2> QED
    BY <1>2, <2>1, <2>2, <2>3
<1> HIDE DEF p, q, r, V0
<1>5. r = p \o q
  <2> DEFINE W == Seq(V0)
  <2>1. p \in Seq(W) /\ q \in Seq(W) /\ r \in Seq(W) /\ Len(r) = Len(p) + Len(q)
    BY <1>2
  <2> HIDE DEF W
  <2> QED
    BY <1>3, <1>4, <2>1, ConcatIs
<1>6. FlattenSeq(p \o q) = FlattenSeq(p) \o FlattenSeq(q)
  BY <1>2, FlattenConcat
<1>7. FlattenSeq(p) \in Seq(V0)
  <2>1. <<>> \in Seq(V0)
    OBVIOUS
  <2> QED
    BY <1>2, <2>1, FlattenAppend
<1> QED
  BY <1>5, <1>6, <1>7 DEF p, q, r, V0

\* A text with nothing to escape stays as it is.
LEMMA PlainPieces ==
  ASSUME NEW C, NEW s \in Seq(C), \A i \in 1..Len(s) : s[i] \notin V!E!Escaped
  PROVE  FlattenSeq(Pieces(s)) = s
<1> DEFINE P(m) == SubSeq(s, 1, m)
           T == {m \in Nat : m <= Len(s) => FlattenSeq(Pieces(P(m))) = P(m)}
<1>0. Len(s) \in Nat
  OBVIOUS
<1>1. 0 \in T
  <2>1. P(0) = <<>> /\ Pieces(<<>>) = <<>>
    BY <1>0 DEF Pieces
  <2> QED
    BY <2>1, FlattenEmpty
<1>2. ASSUME NEW m \in Nat, m \in T PROVE m + 1 \in T
  <2> SUFFICES ASSUME m + 1 <= Len(s) PROVE FlattenSeq(Pieces(P(m + 1))) = P(m + 1)
    OBVIOUS
  <2>1. FlattenSeq(Pieces(P(m))) = P(m)
    BY <1>0, <1>2
  <2> DEFINE c == s[m + 1]
             one == <<c>>
  <2>2. P(m + 1) = P(m) \o one
    <3>1. 1 \in Int /\ m + 1 \in 1..Len(s) /\ (m + 1) - 1 = m
      BY <1>0
    <3>2. SubSeq(s, 1, m + 1) = SubSeq(s, 1, (m + 1) - 1) \o <<s[m + 1]>>
      BY <1>0, <3>1, SubSeqRecursiveSecond
    <3> QED
      BY <3>1, <3>2
  <2>3. P(m) \in Seq(C) /\ c \in C /\ one \in Seq(C)
    BY <1>0
  <2>4. FlattenSeq(Pieces(one)) = one
    <3>1. c \notin V!E!Escaped
      BY <1>0
    <3>2. Pieces(one) = <<one>>
      <4>1. DOMAIN one = 1..1 /\ one[1] = c
        OBVIOUS
      <4>2. Pieces(one) = [i \in 1..1 |-> one]
        BY <3>1, <4>1 DEF Pieces, Piece
      <4> HIDE DEF one
      <4> QED
        BY <4>2
    <3>3. <<>> \in Seq(Seq(C)) /\ Append(<<>>, one) = <<one>> /\ <<>> \o one = one
      BY <2>3
    <3> HIDE DEF one
    <3>4. FlattenSeq(Append(<<>>, one)) = FlattenSeq(<<>>) \o one
      BY <2>3, <3>3, FlattenAppend
    <3> QED
      BY <3>2, <3>3, <3>4, FlattenEmpty
  <2>5. FlattenSeq(Pieces(P(m) \o one)) = FlattenSeq(Pieces(P(m))) \o FlattenSeq(Pieces(one))
    <3> HIDE DEF P, one
    <3> QED
      BY <2>3, PiecesConcat
  <2> HIDE DEF P, one
  <2> QED
    BY <2>1, <2>2, <2>4, <2>5
<1>3. Len(s) \in T
  <2> HIDE DEF T
  <2> QED
    BY <1>0, <1>1, <1>2, SetInduction
<1>4. P(Len(s)) = s
  BY SubSeqFull
<1>5. FlattenSeq(Pieces(P(Len(s)))) = P(Len(s))
  BY <1>0, <1>3
<1> HIDE DEF P
<1> QED
  BY <1>4, <1>5

\* Escape puts a backslash before each character that is escaped, and only there.
LEMMA EscapeAll ==
  ASSUME NEW C, NEW text \in Seq(C)
  PROVE  V!E!Escape(text) = FlattenSeq(Pieces(text))
<1> DEFINE b == Len(text)
           Rest(last) == SubSeq(text, last + 1, b)
           Good(last, f) == f[last] = FlattenSeq(Pieces(Rest(last)))
<1>1. PICK f : /\ \A last \in 0..b : f[last] = EscapeFrom(text, last, f)
               /\ V!E!Escape(text) = f[0]
  BY EscapeIs
<1>0. b \in Nat
  OBVIOUS
<1>2. ASSUME NEW last \in 0..b, \A j \in (last + 1)..b : Good(j, f) PROVE Good(last, f)
  <2>1. Rest(last) \in Seq(C)
    BY <1>0
  <2>2. CASE ToEscape(text, last) = {}
    <3>1. f[last] = Rest(last)
      BY <1>1, <2>2 DEF EscapeFrom
    <3>2. \A i \in 1..Len(Rest(last)) : Rest(last)[i] \notin V!E!Escaped
      <4> TAKE i \in 1..Len(Rest(last))
      <4>1. Rest(last)[i] = text[last + i] /\ last + i \in (last + 1)..Len(text)
        BY <1>0
      <4> QED
        BY <2>2, <4>1 DEF ToEscape
    <3> HIDE DEF Rest
    <3>3. FlattenSeq(Pieces(Rest(last))) = Rest(last)
      BY <2>1, <3>2, PlainPieces
    <3> QED
      BY <3>1, <3>3
  <2>3. CASE ToEscape(text, last) # {}
    <3> DEFINE pos == V!E!Min(ToEscape(text, last))
               plain == SubSeq(text, last + 1, pos - 1)
               c == text[pos]
               one == <<c>>
    <3>1. /\ pos \in (last + 1)..b /\ c \in V!E!Escaped
          /\ \A p \in (last + 1)..(pos - 1) : text[p] \notin V!E!Escaped
      BY <2>3, NextToEscape
    <3>2. f[last] = plain \o <<Backslash, c>> \o f[pos]
      BY <1>1, <2>3 DEF EscapeFrom
    <3> HIDE DEF pos
    <3>3. f[pos] = FlattenSeq(Pieces(Rest(pos)))
      BY <1>2, <3>1
    <3>4. /\ plain \in Seq(C) /\ one \in Seq(C) /\ Rest(pos) \in Seq(C) /\ c \in C
          /\ Len(plain) = pos - (last + 1)
      BY <1>0, <3>1
    <3>5. Rest(last) = plain \o (one \o Rest(pos))
      <4>1. /\ last + 1 \in 1..(Len(text) + 1) /\ pos - 1 \in (last + 1) - 1..Len(text)
            /\ Len(text) \in (pos - 1)..Len(text) /\ (pos - 1) + 1 = pos /\ pos \in 1..Len(text)
        BY <1>0, <3>1
      <4>2. SubSeq(text, last + 1, Len(text)) = plain \o SubSeq(text, (pos - 1) + 1, Len(text))
        BY <4>1, ConcatAdjacentSubSeq
      <4>3. SubSeq(text, pos, Len(text)) = one \o SubSeq(text, pos + 1, Len(text))
        BY <1>0, <4>1, SubSeqRecursiveFirst
      <4> QED
        BY <4>1, <4>2, <4>3
    <3>6. FlattenSeq(Pieces(plain)) = plain
      <4>1. \A i \in 1..Len(plain) : plain[i] \notin V!E!Escaped
        <5> TAKE i \in 1..Len(plain)
        <5>1. plain[i] = text[last + i] /\ last + i \in (last + 1)..(pos - 1)
          BY <1>0, <3>1, <3>4
        <5> QED
          BY <3>1, <5>1
      <4> HIDE DEF plain
      <4> QED
        BY <3>4, <4>1, PlainPieces
    <3>7. FlattenSeq(Pieces(one)) = <<Backslash, c>>
      <4> DEFINE two == <<Backslash, c>>
      <4>1. Pieces(one) = <<two>>
        <5>1. DOMAIN one = 1..1 /\ one[1] = c
          OBVIOUS
        <5>2. Pieces(one) = [i \in 1..1 |-> two]
          BY <3>1, <5>1 DEF Pieces, Piece
        <5> HIDE DEF two
        <5> QED
          BY <5>2
      <4> DEFINE W == Seq({Backslash, c})
      <4>2. two \in W
        OBVIOUS
      <4>3. <<>> \in Seq(W) /\ Append(<<>>, two) = <<two>> /\ <<>> \o two = two
        BY <4>2
      <4> HIDE DEF two
      <4>4. FlattenSeq(Append(<<>>, two)) = FlattenSeq(<<>>) \o two
        BY <4>2, <4>3, FlattenAppend
      <4>5. FlattenSeq(<<two>>) = two
        BY <4>3, <4>4, FlattenEmpty
      <4> QED
        BY <4>1, <4>5 DEF two
    <3> HIDE DEF plain, one, Rest
    <3>8. one \o Rest(pos) \in Seq(C)
      BY <3>4
    <3>9. FlattenSeq(Pieces(one \o Rest(pos))) = <<Backslash, c>> \o f[pos]
      <4> DEFINE u == Rest(pos)
      <4>1. one \in Seq(C) /\ u \in Seq(C) /\ f[pos] = FlattenSeq(Pieces(u))
        BY <3>3, <3>4
      <4> HIDE DEF u
      <4>2. FlattenSeq(Pieces(one \o u)) = FlattenSeq(Pieces(one)) \o FlattenSeq(Pieces(u))
        BY <4>1, PiecesConcat
      <4> QED
        BY <3>7, <4>1, <4>2 DEF u
    <3>10. FlattenSeq(Pieces(Rest(last))) = plain \o (<<Backslash, c>> \o f[pos])
      <4> DEFINE t == one \o Rest(pos)
      <4>1. t \in Seq(C)
        BY <3>8
      <4> HIDE DEF t
      <4>2. FlattenSeq(Pieces(plain \o t)) = FlattenSeq(Pieces(plain)) \o FlattenSeq(Pieces(t))
        BY <3>4, <4>1, PiecesConcat
      <4> QED
        BY <3>5, <3>6, <3>9, <4>2 DEF t
    <3>11. (plain \o <<Backslash, c>>) \o f[pos] = plain \o (<<Backslash, c>> \o f[pos])
      <4> DEFINE U == C \cup {Backslash}
                 two == <<Backslash, c>>
                 g == f[pos]
      <4>1. two \in Seq(U) /\ plain \in Seq(U)
        BY <3>4
      <4>2. g \in Seq(U)
        BY <3>3, <3>4, PiecesConcat
      <4> HIDE DEF U, two, g
      <4>3. (plain \o two) \o g = plain \o (two \o g)
        BY <4>1, <4>2
      <4> QED
        BY <4>3 DEF two, g
    <3> QED
      BY <3>2, <3>10, <3>11
  <2> QED
    BY <2>2, <2>3
<1> DEFINE T == {m \in Nat : \A last \in 0..b : b <= last + m => Good(last, f)}
<1>3. 0 \in T
  <2> SUFFICES ASSUME NEW last \in 0..b, b <= last + 0 PROVE Good(last, f)
    OBVIOUS
  <2>1. (last + 1)..b = {}
    BY <1>0
  <2> HIDE DEF Good
  <2> QED
    BY <1>2, <2>1
<1>4. ASSUME NEW m \in Nat, m \in T PROVE m + 1 \in T
  <2> SUFFICES ASSUME NEW last \in 0..b, b <= last + (m + 1) PROVE Good(last, f)
    OBVIOUS
  <2>1. \A j \in (last + 1)..b : b <= j + m /\ j \in 0..b
    BY <1>0
  <2> HIDE DEF Good
  <2> QED
    BY <1>2, <1>4, <2>1
<1>5. b \in T
  <2> HIDE DEF T
  <2> QED
    BY <1>0, <1>3, <1>4, SetInduction
<1>6. Good(0, f)
  <2> HIDE DEF Good
  <2> QED
    BY <1>0, <1>5
<1>7. Rest(0) = text
  BY SubSeqFull
<1>8. f[0] = FlattenSeq(Pieces(Rest(0)))
  BY <1>6
<1> HIDE DEF Rest
<1> QED
  BY <1>0, <1>1, <1>7, <1>8

\* Each of the cases by itself.
LEMMA ReadFromCases ==
  ASSUME CharactersDiffer, NEW text, NEW f, Len(text) \in Nat, NEW i \in 1..(Len(text) + 2)
  PROVE  /\ i = Len(text) + 2 => V!E!ReadFrom(text, i, f) = {}
         /\ i = Len(text) + 1 => V!E!ReadFrom(text, i, f) = {<<>>}
         /\ i <= Len(text) =>
              /\ text[i] \in {Quote, NewLine} => V!E!ReadFrom(text, i, f) = {}
              /\ text[i] \notin {Quote, NewLine, Backslash} =>
                   V!E!ReadFrom(text, i, f) = V!E!Preceded(text[i], f[i + 1])
              /\ text[i] = Backslash /\ i = Len(text) => V!E!ReadFrom(text, i, f) = {}
              /\ text[i] = Backslash /\ i < Len(text) =>
                   /\ text[i + 1] \in {Quote, Backslash} =>
                        V!E!ReadFrom(text, i, f) = V!E!Preceded(text[i + 1], f[i + 2])
                   /\ text[i + 1] = LetterN => V!E!ReadFrom(text, i, f) = V!E!Preceded(NewLine, f[i + 2])
                   /\ text[i + 1] \notin {Quote, Backslash, LetterN} => V!E!ReadFrom(text, i, f) = {}
  BY DEF V!E!ReadFrom, CharactersDiffer

\* JsonRead is given by a function from the places of the text.
LEMMA JsonReadIs ==
  ASSUME CharactersDiffer, NEW C, NEW text \in Seq(C)
  PROVE  \E f : /\ \A i \in 1..(Len(text) + 2) : f[i] = V!E!ReadFrom(text, i, f)
                /\ V!E!JsonRead(text) = f[1]
<1> DEFINE b == Len(text) + 2
           U == Seq(C \cup {NewLine})
           S == SUBSET U
           G == [i \in 1..b |-> [f \in [1..b -> S] |-> V!E!ReadFrom(text, i, f)]]
           Is(f) == f = [i \in 1..(Len(text) + 2) |-> V!E!ReadFrom(text, i, f)]
<1>1. b \in Nat /\ S # {} /\ Len(text) \in Nat
  OBVIOUS
<1>2. ASSUME NEW c \in C \cup {NewLine}, NEW rest \in S PROVE V!E!Preceded(c, rest) \in S
  <2>1. ASSUME NEW r \in rest PROVE <<c>> \o r \in U
    <3>1. <<c>> \in U /\ r \in U
      BY <1>2
    <3> QED
      BY <3>1
  <2> HIDE DEF U
  <2> QED
    BY <2>1 DEF V!E!Preceded
<1>3. ASSUME NEW i \in 1..b, NEW f \in [1..b -> S] PROVE V!E!ReadFrom(text, i, f) \in S
  <2>0. {} \in S /\ {<<>>} \in S
    OBVIOUS
  <2>1. CASE i <= Len(text)
    <3>1. text[i] \in C \cup {NewLine} /\ i + 1 \in 1..b /\ i + 2 \in 1..b
      BY <1>1, <1>3, <2>1
    <3>2. i < Len(text) => text[i + 1] \in C
      BY <1>1, <1>3
    <3> HIDE DEF S
    <3>3. f[i + 1] \in S /\ f[i + 2] \in S
      BY <3>1
    <3> DEFINE x == V!E!Preceded(text[i], f[i + 1])
               y == V!E!Preceded(text[i + 1], f[i + 2])
               z == V!E!Preceded(NewLine, f[i + 2])
    <3>4. x \in S /\ z \in S /\ (i < Len(text) => y \in S)
      BY <1>2, <3>1, <3>2, <3>3
    <3>5. V!E!ReadFrom(text, i, f) \in {{}, x, z} \/ (i < Len(text) /\ V!E!ReadFrom(text, i, f) = y)
      <4>1. text[i] = Backslash => i = Len(text) \/ i < Len(text)
        BY <1>1, <2>1
      <4> HIDE DEF x, y, z
      <4> QED
        BY <1>1, <1>3, <2>1, <4>1, ReadFromCases DEF x, y, z
    <3> HIDE DEF x, y, z
    <3> QED
      BY <2>0, <3>4, <3>5
  <2>2. CASE i > Len(text)
    <3>1. i = Len(text) + 1 \/ i = Len(text) + 2
      BY <1>1, <2>2
    <3> HIDE DEF S
    <3> QED
      BY <1>1, <1>3, <2>0, <3>1, ReadFromCases
  <2> QED
    BY <1>1, <2>1, <2>2
<1>4. ASSUME NEW i \in 1..b, NEW f \in [1..b -> S], NEW g \in [1..b -> S],
             \A j \in (i + 1)..b : f[j] = g[j]
      PROVE  V!E!ReadFrom(text, i, f) = V!E!ReadFrom(text, i, g)
  <2>1. CASE i <= Len(text)
    <3>1. i + 1 \in (i + 1)..b /\ i + 2 \in (i + 1)..b
      BY <1>1, <2>1
    <3>2. f[i + 1] = g[i + 1] /\ f[i + 2] = g[i + 2]
      BY <1>4, <3>1
    <3> HIDE DEF S
    <3> QED
      BY <3>2 DEF V!E!ReadFrom
  <2>2. CASE i > Len(text)
    <3>1. i = Len(text) + 1 \/ i = Len(text) + 2
      BY <1>1, <2>2
    <3> HIDE DEF S
    <3> QED
      BY <1>1, <3>1, ReadFromCases
  <2> QED
    BY <1>1, <2>1, <2>2
<1>5. PICK f \in [1..b -> S] : Solves(1, b, f, G)
  <2> HIDE DEF S
  <2>1. /\ G \in [1..b -> [[1..b -> S] -> S]]
        /\ \A i \in 1..b : \A f \in [1..b -> S] : G[i][f] = V!E!ReadFrom(text, i, f)
    BY <1>3
  <2> HIDE DEF G, b
  <2>2. ASSUME NEW i \in 1..b, NEW g \in [1..b -> S], NEW h \in [1..b -> S],
               \A j \in (i + 1)..b : g[j] = h[j]
        PROVE  G[i][g] = G[i][h]
    <3>1. V!E!ReadFrom(text, i, g) = V!E!ReadFrom(text, i, h)
      BY <1>4, <2>2
    <3> QED
      BY <2>1, <3>1
  <2>3. LooksAhead(1, b, S, G)
    BY <2>1, <2>2 DEF LooksAhead
  <2> QED
    BY <1>1, <2>3, Backwards
<1>6. Is(f)
  <2>1. \A i \in 1..b : f[i] = V!E!ReadFrom(text, i, f)
    <3> HIDE DEF S
    <3> QED
      BY <1>5 DEF Solves
  <2> HIDE DEF S
  <2> QED
    BY <2>1
<1>7. Is(CHOOSE g : Is(g))
  <2> HIDE DEF Is
  <2> QED
    BY <1>6
<1>8. V!E!JsonRead(text) = (CHOOSE g : Is(g))[1]
  BY DEF V!E!JsonRead
<1>9. \A g : Is(g) => \A i \in 1..(Len(text) + 2) : g[i] = V!E!ReadFrom(text, i, g)
  OBVIOUS
<1> HIDE DEF Is
<1> QED
  BY <1>7, <1>8, <1>9

\* Escaping loses nothing: of what Escape makes of a text without control characters
\* a reader of JSON reads that text.
LEMMA ReadsBack ==
  ASSUME CharactersDiffer, NEW C, NEW text \in Seq(C), \A j \in DOMAIN text : text[j] # NewLine
  PROVE  V!E!JsonRead(V!E!Escape(text)) = {text}
<1> DEFINE b == Len(text)
           U == C \cup {Backslash}
           First(i) == SubSeq(text, 1, i)
           Rest(i) == SubSeq(text, i + 1, b)
           F(s) == FlattenSeq(Pieces(s))
           out == F(text)
           w(i) == Len(F(First(i)))
<1>1. b \in Nat
  OBVIOUS
<1>2. \A i \in 0..b : First(i) \in Seq(C) /\ Rest(i) \in Seq(C) /\ F(First(i)) \in Seq(U)
                        /\ F(Rest(i)) \in Seq(U) /\ w(i) \in Nat
  <2> TAKE i \in 0..b
  <2>1. First(i) \in Seq(C) /\ Rest(i) \in Seq(C)
    BY <1>1
  <2> HIDE DEF First, Rest
  <2>2. F(First(i)) \in Seq(U) /\ F(Rest(i)) \in Seq(U)
    BY <2>1, PiecesConcat
  <2> HIDE DEF F
  <2> QED
    BY <2>1, <2>2
<1>3. out \in Seq(U) /\ Len(out) \in Nat
  BY PiecesConcat
<1>4. PICK f : /\ \A i \in 1..(Len(out) + 2) : f[i] = V!E!ReadFrom(out, i, f)
               /\ V!E!JsonRead(out) = f[1]
  <2> HIDE DEF out
  <2> QED
    BY <1>3, JsonReadIs
<1> DEFINE Good(i) == f[w(i) + 1] = {Rest(i)}
\* At the end there is nothing left.
<1>5. Good(b)
  <2>1. First(b) = text /\ Rest(b) = <<>>
    BY <1>1, SubSeqFull
  <2>2. w(b) = Len(out)
    BY <2>1
  <2> HIDE DEF out, w, Rest
  <2>3. Len(out) + 1 \in 1..(Len(out) + 2)
    BY <1>3
  <2>4. V!E!ReadFrom(out, Len(out) + 1, f) = {<<>>}
    BY <1>3, <2>3, ReadFromCases
  <2> QED
    BY <1>4, <2>1, <2>2, <2>3, <2>4
\* Before that a character is read, and then the rest.
<1>6. ASSUME NEW i \in 0..b, i < b, Good(i + 1) PROVE Good(i)
  <2> DEFINE j == i + 1
             c == text[j]
             p == F(First(i))
             q == Piece(c)
             r == F(Rest(j))
  <2>0. j \in 0..b /\ j \in 1..b /\ c \in C /\ c # NewLine
    BY <1>1, <1>6
  <2>1. First(j) = First(i) \o <<c>> /\ Rest(i) = <<c>> \o Rest(j)
    <3>1. SubSeq(text, 1, j) = SubSeq(text, 1, j - 1) \o <<text[j]>>
      BY <1>1, <2>0, SubSeqRecursiveSecond
    <3>2. SubSeq(text, j, Len(text)) = <<text[j]>> \o SubSeq(text, j + 1, Len(text))
      BY <1>1, <2>0, SubSeqRecursiveFirst
    <3>3. j - 1 = i
      BY <1>6
    <3> QED
      BY <3>1, <3>2, <3>3
  <2>2. text = First(i) \o Rest(i)
    <3>1. SubSeq(text, 1, i) \o SubSeq(text, i + 1, Len(text)) = SubSeq(text, 1, Len(text))
      <4>1. 1 \in 1..(Len(text) + 1) /\ i \in (1 - 1)..Len(text) /\ Len(text) \in i..Len(text)
        BY <1>1
      <4> QED
        BY <4>1, ConcatAdjacentSubSeq
    <3> QED
      BY <3>1, SubSeqFull
  <2>3. F(<<c>>) = q
    <3> DEFINE one == <<c>>
    <3>1. Pieces(one) = <<q>>
      <4>1. DOMAIN one = 1..1 /\ one[1] = c
        OBVIOUS
      <4>2. Pieces(one) = [k \in 1..1 |-> q]
        BY <4>1 DEF Pieces
      <4> HIDE DEF one, q
      <4> QED
        BY <4>2
    <3> DEFINE W == Seq({Backslash, c})
    <3>2. q \in W
      <4>1. <<c>> \in W /\ <<Backslash, c>> \in W
        OBVIOUS
      <4> QED
        BY <4>1 DEF Piece
    <3> HIDE DEF q
    <3>3. <<>> \in Seq(W) /\ Append(<<>>, q) = <<q>> /\ <<>> \o q = q
      BY <3>2
    <3>4. FlattenSeq(Append(<<>>, q)) = FlattenSeq(<<>>) \o q
      BY <3>2, <3>3, FlattenAppend
    <3>5. FlattenSeq(<<q>>) = q
      BY <3>3, <3>4, FlattenEmpty
    <3> QED
      BY <3>1, <3>5
  <2>4. q \in Seq(U)
    <3>1. <<c>> \in Seq(U) /\ <<Backslash, c>> \in Seq(U)
      BY <2>0
    <3> QED
      BY <3>1 DEF Piece
  <2>5. p \in Seq(U) /\ r \in Seq(U)
    BY <1>2, <2>0
  <2>6. F(First(j)) = p \o q /\ F(Rest(i)) = q \o r /\ out = p \o (q \o r)
    <3> DEFINE s == First(i)
               t == Rest(j)
               u == Rest(i)
               one == <<c>>
    <3>1. s \in Seq(C) /\ t \in Seq(C) /\ u \in Seq(C) /\ one \in Seq(C)
      BY <1>2, <2>0
    <3> HIDE DEF s, t, u, one
    <3>2. F(s \o one) = F(s) \o F(one) /\ F(one \o t) = F(one) \o F(t) /\ F(s \o u) = F(s) \o F(u)
      BY <3>1, PiecesConcat
    <3>3. First(j) = s \o one /\ u = one \o t /\ text = s \o u /\ F(one) = q
      BY <2>1, <2>2, <2>3 DEF s, t, u, one
    <3> HIDE DEF F, First, Rest, q
    <3> QED
      BY <3>2, <3>3 DEF s, t, u
  <2>7. w(j) = Len(p) + Len(q)
    BY <2>4, <2>5, <2>6
  <2>8. f[Len(p) + Len(q) + 1] = {Rest(j)} /\ w(i) = Len(p)
    BY <1>6, <2>7
  <2>9. V!E!Preceded(c, {Rest(j)}) = {Rest(i)}
    <3> HIDE DEF Rest, c
    <3>1. V!E!Preceded(c, {Rest(j)}) = {<<c>> \o Rest(j)}
      BY DEF V!E!Preceded
    <3> QED
      BY <2>1, <3>1 DEF c
  <2>10. /\ \A k \in 1..Len(q) : out[Len(p) + k] = q[k] /\ Len(p) + k <= Len(out)
         /\ Len(p) \in Nat
    <3> HIDE DEF p, q, r, out, U
    <3> QED
      BY <2>4, <2>5, <2>6, InTheMiddle
  <2> DEFINE h == Len(p) + 1
  <2>11. CASE c \in V!E!Escaped
    <3>1. q = <<Backslash, c>>
      BY <2>11 DEF Piece
    <3>2. Len(q) = 2 /\ q[1] = Backslash /\ q[2] = c
      BY <3>1
    <3> HIDE DEF p, q, r, out, Rest, w, c
    <3>3. /\ h \in 1..(Len(out) + 2) /\ h < Len(out) /\ out[h] = Backslash /\ out[h + 1] = c
          /\ h + 2 = Len(p) + Len(q) + 1
      BY <1>3, <2>10, <3>2
    <3>4. c \in {Quote, Backslash}
      BY <2>11 DEF V!E!Escaped
    <3>5. V!E!ReadFrom(out, h, f) = V!E!Preceded(c, f[h + 2])
      <4> HIDE DEF h
      <4>1. h <= Len(out)
        BY <1>3, <3>3
      <4> QED
        BY <1>3, <3>3, <3>4, <4>1, ReadFromCases
    <3>6. f[h] = V!E!Preceded(c, {Rest(j)})
      BY <1>4, <2>8, <3>3, <3>5
    <3> QED
      BY <2>8, <2>9, <3>6
  <2>12. CASE c \notin V!E!Escaped
    <3>1. q = <<c>>
      BY <2>12 DEF Piece
    <3>2. Len(q) = 1 /\ q[1] = c
      BY <3>1
    <3> HIDE DEF p, q, r, out, Rest, w, c
    <3>3. h \in 1..(Len(out) + 2) /\ h <= Len(out) /\ out[h] = c /\ h + 1 = Len(p) + Len(q) + 1
      BY <1>3, <2>10, <3>2
    <3>4. c \notin {Quote, NewLine, Backslash}
      BY <2>0, <2>12 DEF V!E!Escaped
    <3>5. V!E!ReadFrom(out, h, f) = V!E!Preceded(c, f[h + 1])
      <4> HIDE DEF h
      <4> QED
        BY <1>3, <3>3, <3>4, ReadFromCases
    <3>6. f[h] = V!E!Preceded(c, {Rest(j)})
      BY <1>4, <2>8, <3>3, <3>5
    <3> QED
      BY <2>8, <2>9, <3>6
  <2> QED
    BY <2>11, <2>12
<1> DEFINE T == {m \in Nat : \A i \in 0..b : i + m = b => Good(i)}
<1>7. 0 \in T
  <2> HIDE DEF Good
  <2> QED
    BY <1>1, <1>5
<1>8. ASSUME NEW m \in Nat, m \in T PROVE m + 1 \in T
  <2> SUFFICES ASSUME NEW i \in 0..b, i + (m + 1) = b PROVE Good(i)
    OBVIOUS
  <2>1. i + 1 \in 0..b /\ (i + 1) + m = b /\ i < b
    BY <1>1
  <2> HIDE DEF Good
  <2> QED
    BY <1>6, <1>8, <2>1
<1>9. b \in T
  <2> HIDE DEF T
  <2> QED
    BY <1>1, <1>7, <1>8, SetInduction
<1>10. Good(0)
  <2> HIDE DEF Good
  <2> QED
    BY <1>1, <1>9
<1>11. w(0) = 0 /\ Rest(0) = text
  <2>1. First(0) = <<>> /\ Pieces(<<>>) = <<>>
    BY <1>1 DEF Pieces
  <2>2. F(First(0)) = <<>>
    BY <2>1, FlattenEmpty
  <2> HIDE DEF F
  <2> QED
    BY <2>2, SubSeqFull
<1>12. f[1] = {text}
  <2> HIDE DEF w, Rest
  <2> QED
    BY <1>10, <1>11
<1> QED
  BY <1>4, <1>12, EscapeAll

-----------------------------------------------------------------------------
(* What an instance answers                                                 *)

LegacyKind(i) ==
  \E version \in Seq(Characters), path \in Data : i = V!LegacyInstance(version, path)
Kind(i) == i \in Instances \/ LegacyKind(i)

\* The methods a legacy instance has answer, the others fail.
LEMMA LegacyAnswers ==
  ASSUME NEW i, LegacyKind(i)
  PROVE  /\ i.isLegacy /\ ~i.isInstance2 /\ ~i.isCatalog /\ i.store = <<>>
         /\ \A method \in V!Methods :
              IF method \in {"GetInstanceId", "GetInstallationPath", "GetInstallationVersion"}
                THEN i.answer[method] \in Texts ELSE i.answer[method] = Failure
<1>1. PICK version \in Seq(Characters), path \in Data : i = V!LegacyInstance(version, path)
  BY DEF LegacyKind
<1>2. version \in Texts /\ path \in Texts /\ <<Prefix>> \in Texts
  BY TextsAssumption DEF Texts
<1>3. <<Prefix>> \o version \in Texts
  BY <1>2 DEF Texts
<1>4. /\ i.isLegacy /\ ~i.isInstance2 /\ ~i.isCatalog /\ i.store = <<>>
      /\ i.answer = [method \in V!Methods |->
                 CASE method = "GetInstanceId" -> <<Prefix>> \o version
                   [] method = "GetInstallationPath" -> path
                   [] method = "GetInstallationVersion" -> version
                   [] OTHER -> V!NotImplemented]
  BY <1>1 DEF V!LegacyInstance, V!HasInterface
<1>5. ASSUME NEW method \in V!Methods
      PROVE  IF method \in {"GetInstanceId", "GetInstallationPath", "GetInstallationVersion"}
                THEN i.answer[method] \in Texts ELSE i.answer[method] = Failure
  <2>1. i.answer[method] = CASE method = "GetInstanceId" -> <<Prefix>> \o version
                             [] method = "GetInstallationPath" -> path
                             [] method = "GetInstallationVersion" -> version
                             [] OTHER -> V!NotImplemented
    BY <1>4
  <2> HIDE DEF Texts
  <2> QED
    BY <1>2, <1>3, <2>1 DEF V!NotImplemented
<1> QED
  BY <1>4, <1>5

\* Every instance that is written answers what one may answer.
LEMMA KindIs ==
  ASSUME NEW i, Kind(i)
  PROVE  IsInstance(i) /\ i.store \in Seq({i.store[j] : j \in DOMAIN i.store})
<1>1. CASE i \in Instances
  BY <1>1, InstancesAssumption
<1>2. CASE LegacyKind(i)
  <2>1. i.store = <<>>
    BY <1>2, LegacyAnswers
  <2>2. \A method \in V!TextMethods \cup {"GetProductId", "ResolvePath"} :
          i.answer[method] \in Texts \cup {Null, Failure}
    BY <1>2, LegacyAnswers DEF V!Methods, V!ProductMethods
  <2>3. i.answer["GetInstallDate"] = Failure /\ i.answer["GetState"] = Failure
    BY <1>2, LegacyAnswers DEF V!Methods
  <2>4. i.store \in Seq({i.store[j] : j \in DOMAIN i.store})
    BY <2>1
  <2>5. {i.store[j] : j \in DOMAIN i.store} = {}
    BY <2>1
  <2> QED
    BY <2>2, <2>3, <2>4, <2>5 DEF IsInstance
<1> QED
  BY <1>1, <1>2 DEF Kind

\* A text that Escape wrote is read as it was.
LEMMA EscapedReads ==
  ASSUME NEW text \in Texts
  PROVE  V!ReadsAs(V!E!Escape(text), text)
<1>1. CharactersDiffer
  BY TextsAssumption DEF CharactersDiffer
<1>2. text \in Seq(Characters \cup {Prefix})
  BY DEF Texts
<1> QED
  BY <1>1, <1>2, ReadsBack DEF V!ReadsAs

-----------------------------------------------------------------------------
(* What is written of an answer                                             *)

\* The lower half of a number.
LEMMA LowerHalf ==
  ASSUME NEW low \in 0..(Half - 1), NEW high \in Nat
  PROVE  (low + Half * high) % Half = low
<1> DEFINE x == low + Half * high
           q == x \div Half
           r == x % Half
<1>1. Half \in Nat /\ Half > 0
  BY HalfAssumption
<1>2. x \in Nat
  <2>1. Half * high \in Nat
    BY <1>1
  <2> QED
    BY <1>1, <2>1
<1>3. q \in Int /\ r \in 0..(Half - 1) /\ x = Half * q + r
  <2> HIDE DEF x
  <2> QED
    BY <1>1, <1>2
<1> HIDE DEF q, r
<1>4. Half * (q - high) = low - r
  BY <1>1, <1>3
<1>5. ASSUME q > high PROVE FALSE
  <2>1. Half * (q - high) >= Half
    BY <1>1, <1>3, <1>5
  <2> QED
    BY <1>1, <1>3, <1>4, <2>1
<1>6. ASSUME q < high PROVE FALSE
  <2>1. Half * (q - high) <= -Half
    BY <1>1, <1>3, <1>6
  <2> QED
    BY <1>1, <1>3, <1>4, <2>1
<1>7. q = high
  BY <1>3, <1>5, <1>6
<1>8. r = low
  BY <1>1, <1>3, <1>4, <1>7
<1> QED
  BY <1>8 DEF r

\* At most one line is written of a value.
LEMMA WrittenIs ==
  ASSUME NEW v
  PROVE  V!Written(v) = <<>> \/ \E w : V!Written(v) = <<w>>
  BY DEF V!Written

\* Of the empty VARIANT nothing is.
LEMMA EmptyWritten == V!Written(V!Empty) = <<>>
  BY DEF V!Written, V!Empty, V!Numbers

\* A text is written escaped.
LEMMA TextWritten ==
  ASSUME NEW text, NEW high
  PROVE  /\ V!Written(V!Variant("BSTR", text, high)) = <<V!E!Escape(text)>>
         /\ V!Variant("BSTR", text, high).vt = "BSTR" /\ V!Variant("BSTR", text, high).low = text
<1> DEFINE v == V!Variant("BSTR", text, high)
<1>1. v.vt = "BSTR" /\ v.low = text
  BY DEF V!Variant
<1> HIDE DEF v
<1>2. V!Written(v) = <<V!E!Escape(text)>>
  BY <1>1 DEF V!Written, V!Numbers
<1> QED
  BY <1>1, <1>2 DEF v

\* What the three properties mean that are not one of the other kinds.
LEMMA MeaningOf ==
  ASSUME NEW w
  PROVE  /\ V!MeansAnswer("installDate", w) <=> V!ReadsAs(w, DateText[V!answer("GetInstallDate")])
         /\ V!MeansAnswer("state", w) <=> w % Half = V!answer("GetState")
         /\ V!MeansAnswer("isRebootRequired", w) <=>
              (w = 1 <=> (V!answer("GetState") \div V!NoRebootRequired) % 2 = 0)
<1>1. /\ V!MethodOf["installDate"] = "GetInstallDate" /\ V!MethodOf["state"] = "GetState"
      /\ V!MethodOf["isRebootRequired"] = "GetState"
  BY DEF V!MethodOf
<1>2. \A p \in {"installDate", "state", "isRebootRequired"} : V!MethodOf[p] \notin V!FlagMethods
  BY <1>1 DEF V!FlagMethods
<1> QED
  BY <1>1, <1>2 DEF V!MeansAnswer

\* What a getter left in the VARIANT.
Left(got) == IF got.set THEN got.value ELSE V!Empty

\* A property that is written means the answer.
OwnAnswer(property, got) ==
  \A w : got.ok /\ V!Written(Left(got)) = <<w>> /\ ~ (Left(got).vt = "BSTR" /\ Left(got).low = Null) =>
    V!answer(V!MethodOf[property]) # Failure /\ V!MeansAnswer(property, w)

\* Nothing is written of what failed or was left untouched.
LEMMA NothingWritten ==
  ASSUME NEW property, NEW got \in {V!Failed, V!Untouched}
  PROVE  OwnAnswer(property, got)
<1>1. Left(got) = V!Empty
  BY DEF Left, V!Failed, V!Untouched
<1>2. \A w : <<>> # <<w>>
  OBVIOUS
<1> QED
  BY <1>1, <1>2, EmptyWritten DEF OwnAnswer

\* The properties that are the text of one method.
TextProperties ==
  {"instanceId", "installationName", "installationPath", "installationVersion", "productId",
   "productPath", "displayName", "description"}

\* What is shown of a text is the text its method answered.
LEMMA TextMeans ==
  ASSUME IsInstance(pInstance), NEW property \in TextProperties,
         NEW got \in V!GetStringProperty(V!MethodOf[property])
  PROVE  OwnAnswer(property, got)
<1> DEFINE method == V!MethodOf[property]
           text == V!answer(method)
<1>1. method \in V!TextMethods \cup {"GetProductId", "ResolvePath"}
  BY DEF V!MethodOf, TextProperties, V!TextMethods
<1>2. text \in Texts \cup {Null, Failure}
  BY <1>1 DEF IsInstance, V!answer
<1>3. /\ property # "installDate" /\ property # "state" /\ property # "isRebootRequired"
      /\ method \notin V!FlagMethods
  BY DEF V!MethodOf, TextProperties, V!FlagMethods
<1>4. CASE text = Failure
  <2>1. got = V!Failed
    BY <1>4 DEF V!GetStringProperty
  <2> QED
    BY <2>1, NothingWritten
<1>5. CASE text # Failure
  <2>1. got = V!Set(V!Variant("BSTR", text, 0))
    BY <1>5 DEF V!GetStringProperty
  <2>2. Left(got) = V!Variant("BSTR", text, 0)
    BY <2>1 DEF Left, V!Set
  <2> SUFFICES ASSUME NEW w, V!Written(Left(got)) = <<w>>, ~ (Left(got).vt = "BSTR" /\ Left(got).low = Null)
               PROVE  V!answer(V!MethodOf[property]) # Failure /\ V!MeansAnswer(property, w)
    BY DEF OwnAnswer
  <2> HIDE DEF text, method
  <2>3. text # Null /\ <<w>> = <<V!E!Escape(text)>>
    BY <2>2, TextWritten
  <2>4. w = V!E!Escape(text)
    BY <2>3
  <2>5. V!ReadsAs(w, text)
    BY <1>2, <1>5, <2>3, <2>4, EscapedReads
  <2>6. V!MeansAnswer(property, w)
    BY <1>3, <2>5 DEF V!MeansAnswer, text, method
  <2> QED
    BY <1>5, <2>6 DEF text, method
<1> QED
  BY <1>4, <1>5

\* What is shown of the date is how it is formatted; an empty text leaves nothing.
LEMMA DateMeans ==
  ASSUME IsInstance(pInstance), NEW got \in V!GetInstallDate
  PROVE  OwnAnswer("installDate", got)
<1> DEFINE given == V!answer("GetInstallDate")
           text == DateText[given]
<1>1. V!MethodOf["installDate"] = "GetInstallDate"
  BY DEF V!MethodOf
<1>2. CASE given = Failure
  <2>1. got = V!Failed
    BY <1>2 DEF V!GetInstallDate
  <2> QED
    BY <2>1, NothingWritten
<1>3. CASE given # Failure /\ text = <<>>
  <2>1. got = V!Untouched
    BY <1>3 DEF V!GetInstallDate
  <2> QED
    BY <2>1, NothingWritten
<1>4. CASE given # Failure /\ text # <<>>
  <2>1. got = V!Set(V!Variant("BSTR", text, 0)) /\ text # Failure
    BY <1>4 DEF V!GetInstallDate
  <2>2. Left(got) = V!Variant("BSTR", text, 0)
    BY <2>1 DEF Left, V!Set
  <2>3. text \in Texts
    BY <1>4, <2>1 DEF IsInstance, V!answer
  <2> SUFFICES ASSUME NEW w, V!Written(Left(got)) = <<w>>
               PROVE  V!answer(V!MethodOf["installDate"]) # Failure /\ V!MeansAnswer("installDate", w)
    BY DEF OwnAnswer
  <2> HIDE DEF text
  <2>4. w = V!E!Escape(text)
    <3>1. <<w>> = <<V!E!Escape(text)>>
      BY <2>2, TextWritten
    <3> QED
      BY <3>1
  <2>5. V!ReadsAs(w, text)
    BY <2>3, <2>4, EscapedReads
  <2> QED
    BY <1>1, <1>4, <2>5, MeaningOf DEF text
<1> QED
  BY <1>2, <1>3, <1>4

\* What is shown of the state has the answer in its lower half, whatever the other held.
LEMMA StateMeans ==
  ASSUME IsInstance(pInstance), NEW got \in V!GetState
  PROVE  OwnAnswer("state", got)
<1> DEFINE given == V!answer("GetState")
<1>1. V!MethodOf["state"] = "GetState"
  BY DEF V!MethodOf
<1>2. CASE ~pInstance.isInstance2 \/ given = Failure
  <2>1. got = V!Failed
    BY <1>2 DEF V!GetState
  <2> QED
    BY <2>1, NothingWritten
<1>3. CASE ~ (~pInstance.isInstance2 \/ given = Failure)
  <2>1. PICK rest \in Memory : got = V!Set(V!Variant("UI4", given, rest))
    BY <1>3 DEF V!GetState
  <2>2. V!Written(Left(got)) = <<given + Half * rest>>
    <3>1. Left(got) = [vt |-> "UI4", low |-> given, high |-> rest]
      BY <2>1 DEF Left, V!Set, V!Variant
    <3> QED
      BY <3>1 DEF V!Written, V!Numbers
  <2>3. given \in 0..(Half - 1)
    BY <1>3 DEF IsInstance, V!answer
  <2>4. (given + Half * rest) % Half = given
    BY <2>3, HalfAssumption, LowerHalf
  <2> SUFFICES ASSUME NEW w, V!Written(Left(got)) = <<w>>
               PROVE  V!answer(V!MethodOf["state"]) # Failure /\ V!MeansAnswer("state", w)
    BY DEF OwnAnswer
  <2>5. w = given + Half * rest
    <3> DEFINE x == given + Half * rest
    <3>1. <<w>> = <<x>>
      BY <2>2
    <3> HIDE DEF x
    <3>2. w = x
      BY <3>1
    <3> QED
      BY <3>2 DEF x
  <2>6. w % Half = given
    BY <2>4, <2>5
  <2> QED
    BY <1>1, <1>3, <2>6, MeaningOf
<1> QED
  BY <1>2, <1>3

\* What is written of a flag.
LEMMA FlagWritten ==
  ASSUME NEW low, NEW w, V!Written(V!Variant("BOOL", low, 0)) = <<w>>
  PROVE  w = 1 <=> low = V!True
<1> DEFINE flag == IF low = V!True THEN 1 ELSE 0
<1>1. V!Written(V!Variant("BOOL", low, 0)) = <<flag>>
  <2> DEFINE v == V!Variant("BOOL", low, 0)
  <2>1. v.vt = "BOOL" /\ v.low = low
    BY DEF V!Variant
  <2> HIDE DEF v
  <2>2. V!Written(v) = <<flag>>
    BY <2>1 DEF V!Written, V!Numbers
  <2> QED
    BY <2>2 DEF v
<1>2. w = flag
  <2> HIDE DEF flag
  <2> QED
    BY <1>1
<1> QED
  BY <1>2

\* What is shown of a flag is true when the answer was VARIANT_TRUE.
LEMMA FlagMeans ==
  ASSUME NEW property \in {"isComplete", "isLaunchable", "isPrerelease"}, NEW interface,
         NEW got \in V!GetFlag(interface, V!MethodOf[property])
  PROVE  OwnAnswer(property, got)
<1> DEFINE method == V!MethodOf[property]
           given == V!answer(method)
<1>1. method \in V!FlagMethods
  BY DEF V!MethodOf, V!FlagMethods
<1>2. CASE ~interface \/ given = Failure
  <2>1. got = V!Failed
    BY <1>2 DEF V!GetFlag
  <2> QED
    BY <2>1, NothingWritten
<1>3. CASE ~ (~interface \/ given = Failure)
  <2>1. Left(got) = V!Variant("BOOL", given, 0)
    BY <1>3 DEF Left, V!GetFlag, V!Set
  <2> SUFFICES ASSUME NEW w, V!Written(Left(got)) = <<w>>
               PROVE  given # Failure /\ V!MeansAnswer(property, w)
    BY DEF OwnAnswer
  <2>2. w = 1 <=> given = V!True
    BY <2>1, FlagWritten
  <2> QED
    BY <1>1, <1>3, <2>2 DEF V!MeansAnswer
<1> QED
  BY <1>2, <1>3

\* What is shown of isRebootRequired is true when the bit of the state is not set.
LEMMA RebootMeans ==
  ASSUME NEW got \in V!GetIsRebootRequired
  PROVE  OwnAnswer("isRebootRequired", got)
<1> DEFINE given == V!answer("GetState")
           low == IF (given \div V!NoRebootRequired) % 2 = 0 THEN V!True ELSE 0
<1>1. V!MethodOf["isRebootRequired"] = "GetState"
  BY DEF V!MethodOf
<1>2. CASE ~pInstance.isInstance2 \/ given = Failure
  <2>1. got = V!Failed
    BY <1>2 DEF V!GetIsRebootRequired
  <2> QED
    BY <2>1, NothingWritten
<1>3. CASE ~ (~pInstance.isInstance2 \/ given = Failure)
  <2>1. Left(got) = V!Variant("BOOL", low, 0)
    BY <1>3 DEF Left, V!GetIsRebootRequired, V!Set
  <2> SUFFICES ASSUME NEW w, V!Written(Left(got)) = <<w>>
               PROVE  given # Failure /\ V!MeansAnswer("isRebootRequired", w)
    BY <1>1 DEF OwnAnswer
  <2>2. w = 1 <=> low = V!True
    <3> HIDE DEF low
    <3> QED
      BY <2>1, FlagWritten
  <2>3. low = V!True <=> (given \div V!NoRebootRequired) % 2 = 0
    BY DEF V!True
  <2> QED
    BY <1>1, <1>3, <2>2, <2>3, MeaningOf
<1> QED
  BY <1>2, <1>3

Names14 == {"instanceId", "installDate", "installationName", "installationPath",
            "installationVersion", "productId", "productPath", "state", "isComplete",
            "isLaunchable", "isPrerelease", "isRebootRequired", "displayName", "description"}

\* What Properties lists.
LEMMA PropertyAt ==
  ASSUME NEW k \in 1..14
  PROVE  V!Properties[k] \in Names14
  BY DEF V!Properties, Names14

\* How many that are.
LEMMA PropertiesLen == Len(V!Properties) = 14
  BY DEF V!Properties

\* Which getter a property has.
LEMMA GetterIs ==
  ASSUME NEW property \in Names14
  PROVE  /\ property \in TextProperties \ {"productId", "productPath"} =>
              V!Getter(property) = V!GetStringProperty(V!MethodOf[property])
         /\ property = "installDate" => V!Getter(property) = V!GetInstallDate
         /\ property = "productId" => V!Getter(property) = V!GetProductId
         /\ property = "productPath" => V!Getter(property) = V!GetProductPath
         /\ property = "state" => V!Getter(property) = V!GetState
         /\ property = "isComplete" => V!Getter(property) = V!GetIsComplete
         /\ property = "isLaunchable" => V!Getter(property) = V!GetIsLaunchable
         /\ property = "isPrerelease" => V!Getter(property) = V!GetIsPrerelease
         /\ property = "isRebootRequired" => V!Getter(property) = V!GetIsRebootRequired
<1>1. property = "installDate" => V!Getter(property) = V!GetInstallDate
  BY DEF V!Getter
<1>2. property = "productId" => V!Getter(property) = V!GetProductId
  BY DEF V!Getter
<1>3. property = "productPath" => V!Getter(property) = V!GetProductPath
  BY DEF V!Getter
<1>4. property = "state" => V!Getter(property) = V!GetState
  BY DEF V!Getter
<1>5. property = "isComplete" => V!Getter(property) = V!GetIsComplete
  BY DEF V!Getter
<1>6. property = "isLaunchable" => V!Getter(property) = V!GetIsLaunchable
  BY DEF V!Getter
<1>7. property = "isPrerelease" => V!Getter(property) = V!GetIsPrerelease
  BY DEF V!Getter
<1>8. property = "isRebootRequired" => V!Getter(property) = V!GetIsRebootRequired
  BY DEF V!Getter
<1>9. property = "instanceId" => V!Getter(property) = V!GetStringProperty("GetInstanceId")
  BY DEF V!Getter
<1>10. property = "installationName" => V!Getter(property) = V!GetStringProperty("GetInstallationName")
  BY DEF V!Getter
<1>11. property = "installationPath" => V!Getter(property) = V!GetStringProperty("GetInstallationPath")
  BY DEF V!Getter
<1>12. property = "installationVersion" =>
         V!Getter(property) = V!GetStringProperty("GetInstallationVersion")
  BY DEF V!Getter
<1>13. property = "displayName" => V!Getter(property) = V!GetStringProperty("GetDisplayName")
  BY DEF V!Getter
<1>14. property = "description" => V!Getter(property) = V!GetStringProperty("GetDescription")
  BY DEF V!Getter
<1>15. property \in TextProperties \ {"productId", "productPath"} =>
         V!Getter(property) = V!GetStringProperty(V!MethodOf[property])
  BY <1>9, <1>10, <1>11, <1>12, <1>13, <1>14 DEF TextProperties, V!MethodOf
<1> QED
  BY <1>1, <1>2, <1>3, <1>4, <1>5, <1>6, <1>7, <1>8, <1>15

\* Whatever a getter leaves, what is written of it means the answer.
LEMMA GetterMeans ==
  ASSUME IsInstance(pInstance), NEW property \in Names14, NEW got \in V!Getter(property)
  PROVE  OwnAnswer(property, got)
<1>1. CASE property \in TextProperties \ {"productId", "productPath"}
  BY <1>1, GetterIs, TextMeans
<1>2. CASE property = "installDate"
  BY <1>2, GetterIs, DateMeans
<1>3. CASE property = "productId"
  <2>1. got \in {V!Failed, V!Untouched} \/ got \in V!GetStringProperty("GetProductId")
    BY <1>3, GetterIs DEF V!GetProductId
  <2>2. V!MethodOf["productId"] = "GetProductId" /\ "productId" \in TextProperties
    BY DEF V!MethodOf, TextProperties
  <2> QED
    BY <1>3, <2>1, <2>2, NothingWritten, TextMeans
<1>4. CASE property = "productPath"
  <2>1. got \in {V!Failed, V!Untouched} \/ got \in V!GetStringProperty("ResolvePath")
    BY <1>4, GetterIs DEF V!GetProductPath
  <2>2. V!MethodOf["productPath"] = "ResolvePath" /\ "productPath" \in TextProperties
    BY DEF V!MethodOf, TextProperties
  <2> QED
    BY <1>4, <2>1, <2>2, NothingWritten, TextMeans
<1>5. CASE property = "state"
  BY <1>5, GetterIs, StateMeans
<1>6. CASE property \in {"isComplete", "isLaunchable", "isPrerelease"}
  <2>1. PICK interface : got \in V!GetFlag(interface, V!MethodOf[property])
    <3>1. /\ V!MethodOf["isComplete"] = "IsComplete" /\ V!MethodOf["isLaunchable"] = "IsLaunchable"
          /\ V!MethodOf["isPrerelease"] = "IsPrerelease"
      BY DEF V!MethodOf
    <3> QED
      BY <1>6, <3>1, GetterIs DEF V!GetIsComplete, V!GetIsLaunchable, V!GetIsPrerelease
  <2> QED
    BY <1>6, <2>1, FlagMeans
<1>7. CASE property = "isRebootRequired"
  BY <1>7, GetterIs, RebootMeans
<1> QED
  BY <1>1, <1>2, <1>3, <1>4, <1>5, <1>6, <1>7 DEF Names14, TextProperties

\* The three properties a legacy instance has.
LegacyProperties == {"instanceId", "installationPath", "installationVersion"}

\* What it has is a text, and the rest fails.
LEMMA LegacyGetters ==
  ASSUME LegacyKind(pInstance), NEW property \in Names14
  PROVE  IF property \in LegacyProperties
           THEN \E text \in Texts : V!Getter(property) = {V!Set(V!Variant("BSTR", text, 0))}
           ELSE V!Getter(property) = {V!Failed}
<1>0. ~pInstance.isInstance2 /\ ~pInstance.isCatalog
  BY LegacyAnswers
<1>1. CASE property \in LegacyProperties
  <2> DEFINE method == V!MethodOf[property]
             text == V!answer(method)
  <2>1. method \in {"GetInstanceId", "GetInstallationPath", "GetInstallationVersion"}
    BY <1>1 DEF V!MethodOf, LegacyProperties
  <2>2. text \in Texts /\ text # Failure
    <3>1. method \in V!Methods
      BY <2>1 DEF V!Methods, V!TextMethods
    <3>2. text \in Texts
      BY <2>1, <3>1, LegacyAnswers DEF V!answer
    <3> QED
      BY <3>2, TextsAssumption
  <2>3. V!Getter(property) = V!GetStringProperty(method)
    BY <1>1, GetterIs DEF LegacyProperties, TextProperties
  <2>4. V!GetStringProperty(method) = {V!Set(V!Variant("BSTR", text, 0))}
    BY <2>2 DEF V!GetStringProperty
  <2> HIDE DEF text, method
  <2> QED
    BY <1>1, <2>2, <2>3, <2>4
<1>2. CASE property \notin LegacyProperties
  <2>1. CASE property \in {"installationName", "displayName", "description"}
    <3> DEFINE method == V!MethodOf[property]
    <3>1. /\ method \in V!Methods
          /\ method \notin {"GetInstanceId", "GetInstallationPath", "GetInstallationVersion"}
      BY <2>1 DEF V!MethodOf, V!Methods, V!TextMethods
    <3>2. V!answer(method) = Failure
      BY <3>1, LegacyAnswers DEF V!answer
    <3>3. V!Getter(property) = V!GetStringProperty(method)
      BY <2>1, GetterIs DEF TextProperties
    <3> HIDE DEF method
    <3> QED
      BY <1>2, <3>2, <3>3 DEF V!GetStringProperty
  <2>2. CASE property = "installDate"
    <3>1. V!answer("GetInstallDate") = Failure
      BY LegacyAnswers DEF V!answer, V!Methods
    <3> QED
      BY <1>2, <2>2, <3>1, GetterIs DEF V!GetInstallDate
  <2>3. CASE property \in {"productId", "productPath", "state", "isRebootRequired"}
    BY <1>0, <1>2, <2>3, GetterIs
    DEF V!GetProductId, V!GetProductPath, V!GetState, V!GetIsRebootRequired
  <2>4. CASE property \in {"isComplete", "isLaunchable", "isPrerelease"}
    BY <1>0, <1>2, <2>4, GetterIs
    DEF V!GetIsComplete, V!GetIsLaunchable, V!GetIsPrerelease, V!GetFlag
  <2> QED
    BY <1>2, <2>1, <2>2, <2>3, <2>4 DEF Names14, LegacyProperties
<1> QED
  BY <1>1, <1>2

-----------------------------------------------------------------------------
(* What a turn of a loop writes                                             *)

Line(place, name, vt, w) == [place |-> place, name |-> name, vt |-> vt, value |-> w]

\* A property is written as one line, or not at all, unless its text is NULL.
LEMMA OneLine ==
  ASSUME IsSeq(shown), NEW place, NEW name, NEW v, V!WriteProperty(place, name, v)
  PROVE  \/ shown' = shown /\ writing' = "crashed" /\ v.vt = "BSTR" /\ v.low = Null
         \/ /\ shown' = shown /\ writing' = writing /\ V!Written(v) = <<>>
         \/ /\ writing' = writing /\ ~(v.vt = "BSTR" /\ v.low = Null)
            /\ \E w : /\ V!Written(v) = <<w>>
                      /\ shown' = Append(shown, Line(place, name, v.vt, w))
<1>1. CASE v.vt = "BSTR" /\ v.low = Null
  BY <1>1 DEF V!WriteProperty
<1>2. CASE ~(v.vt = "BSTR" /\ v.low = Null)
  <2>1. PICK S : shown \in Seq(S)
    BY DEF IsSeq
  <2> DEFINE out == V!Written(v)
  <2>2. shown' = shown \o [j \in DOMAIN out |-> Line(place, name, v.vt, out[j])] /\ writing' = writing
    BY <1>2 DEF V!WriteProperty, Line
  <2>3. CASE out = <<>>
    <3> HIDE DEF out
    <3>1. [j \in DOMAIN out |-> Line(place, name, v.vt, out[j])] = <<>>
      BY <2>3
    <3>2. shown \o <<>> = shown
      BY <2>1
    <3> QED
      BY <2>2, <2>3, <3>1, <3>2 DEF out
  <2>4. CASE \E w : out = <<w>>
    <3>1. PICK w : out = <<w>>
      BY <2>4
    <3> DEFINE e == Line(place, name, v.vt, w)
    <3>2. [j \in DOMAIN out |-> Line(place, name, v.vt, out[j])] = <<e>>
      <4> HIDE DEF out
      <4>1. DOMAIN out = 1..1 /\ out[1] = w
        BY <3>1
      <4>2. [j \in DOMAIN out |-> Line(place, name, v.vt, out[j])] = [j \in 1..1 |-> e]
        BY <4>1
      <4> HIDE DEF e
      <4>3. [j \in 1..1 |-> e] = <<e>>
        OBVIOUS
      <4> QED
        BY <4>2, <4>3
    <3>3. shown \o <<e>> = Append(shown, e)
      <4> HIDE DEF e
      <4>1. shown \in Seq(S \cup {e}) /\ e \in S \cup {e}
        BY <2>1
      <4> QED
        BY <4>1
    <3>4. shown' = Append(shown, e)
      BY <2>2, <3>2, <3>3
    <3> HIDE DEF out
    <3>5. V!Written(v) = <<w>>
      BY <3>1 DEF out
    <3> QED
      BY <1>2, <2>2, <3>4, <3>5
  <2> QED
    BY <2>3, <2>4, WrittenIs
<1> QED
  BY <1>1, <1>2

\* What is said of a line, as EachShowsItsOwn and TextsReadBack say it of each.
Own(line) ==
  line.place = "builtin" =>
    V!answer(V!MethodOf[line.name]) # Failure /\ V!MeansAnswer(line.name, line.value)
Reads(line) ==
  line.place = "store" /\ line.vt = "BSTR" =>
    \E p \in {pInstance.store[i] : i \in DOMAIN pInstance.store} :
      p.name = line.name /\ V!ReadsAs(line.value, p.value.low)

\* The properties of Values say the same of each line.
LEMMA EachLine ==
  /\ V!EachShowsItsOwn <=> \A j \in DOMAIN shown : Own(shown[j])
  /\ V!TextsReadBack <=> \A j \in DOMAIN shown : Reads(shown[j])
<1>1. V!EachShowsItsOwn <=> \A j \in DOMAIN shown : Own(shown[j])
  BY DEF V!EachShowsItsOwn, Own
<1>2. V!TextsReadBack <=> \A j \in DOMAIN shown : Reads(shown[j])
  BY DEF V!TextsReadBack, Reads
<1> QED
  BY <1>1, <1>2

\* The lines of the instance that is being written.
Lines ==
  /\ IsSeq(shown)
  /\ \A j \in DOMAIN shown : Own(shown[j]) /\ Reads(shown[j])

\* What a value means changes only with the instance.
LEMMA SameMeaning ==
  ASSUME pInstance' = pInstance, NEW property, NEW w
  PROVE  V!MeansAnswer(property, w)' <=> V!MeansAnswer(property, w)
BY DEF V!MeansAnswer, V!answer

\* And so does what is said of a line.
LEMMA SameLine ==
  ASSUME pInstance' = pInstance, NEW line
  PROVE  /\ Own(line)' <=> Own(line)
         /\ Reads(line)' <=> Reads(line)
<1>1. Own(line)' <=> Own(line)
  BY SameMeaning DEF Own, V!answer
<1>2. Reads(line)' <=> Reads(line)
  BY DEF Reads
<1> QED
  BY <1>1, <1>2

\* A step that writes nothing keeps what is said of the lines.
LEMMA SameLines ==
  ASSUME Lines, pInstance' = pInstance, shown' = shown
  PROVE  Lines'
BY SameLine DEF Lines, IsSeq

\* A step that writes one line needs to keep it for that line only.
LEMMA OneMore ==
  ASSUME Lines, pInstance' = pInstance, NEW line, shown' = Append(shown, line), Own(line), Reads(line)
  PROVE  Lines'
<1>1. /\ IsSeq(shown') /\ DOMAIN shown' = 1..(Len(shown) + 1) /\ Len(shown) \in Nat
      /\ shown'[Len(shown) + 1] = line /\ \A j \in 1..Len(shown) : shown'[j] = shown[j]
      /\ DOMAIN shown = 1..Len(shown)
  BY AppendIsSeq DEF Lines
<1>2. ASSUME NEW j \in DOMAIN shown' PROVE Own(shown'[j]) /\ Reads(shown'[j])
  <2>1. j = Len(shown) + 1 \/ j \in 1..Len(shown)
    BY <1>1
  <2> QED
    BY <2>1, <1>1 DEF Lines
<1>3. \A x : (Own(x) => Own(x)') /\ (Reads(x) => Reads(x)')
  BY SameLine
<1>4. ASSUME NEW j \in DOMAIN shown' PROVE (Own(shown[j]) /\ Reads(shown[j]))'
  BY <1>2, <1>3
<1> QED
  BY <1>1, <1>4 DEF Lines, IsSeq

\* The names a legacy instance has before the property k.
Names(s) == [j \in DOMAIN s |-> s[j].name]
NamesBefore(k) ==
  IF k <= 1 THEN <<>>
  ELSE IF k <= 4 THEN <<"instanceId">>
  ELSE IF k <= 5 THEN <<"instanceId", "installationPath">>
  ELSE <<"instanceId", "installationPath", "installationVersion">>

\* Of a legacy instance the next property is written exactly when it is one of the three.
LEMMA NamesNext ==
  ASSUME NEW k \in 1..14
  PROVE  /\ V!Properties[k] \in LegacyProperties =>
              NamesBefore(k + 1) = Append(NamesBefore(k), V!Properties[k])
         /\ V!Properties[k] \notin LegacyProperties => NamesBefore(k + 1) = NamesBefore(k)
<1>1. CASE k = 1
  BY <1>1 DEF NamesBefore, V!Properties, LegacyProperties
<1>2. CASE k = 4
  BY <1>2 DEF NamesBefore, V!Properties, LegacyProperties
<1>3. CASE k = 5
  BY <1>3 DEF NamesBefore, V!Properties, LegacyProperties
<1>4. CASE k \in {2, 3}
  BY <1>4 DEF NamesBefore, V!Properties, LegacyProperties
<1>5. CASE k > 5
  <2>1. V!Properties[k] \notin LegacyProperties
    BY <1>5 DEF V!Properties, LegacyProperties
  <2>2. NamesBefore(k + 1) = NamesBefore(k)
    BY <1>5 DEF NamesBefore
  <2> QED
    BY <2>1, <2>2
<1> QED
  BY <1>1, <1>2, <1>3, <1>4, <1>5

\* The names after one more line.
LEMMA NamesAppend ==
  ASSUME NEW s, IsSeq(s), NEW e
  PROVE  Names(Append(s, e)) = Append(Names(s), e.name)
<1> DEFINE x == Append(s, e)
           S == {s[j].name : j \in 1..Len(s)}
           T == S \cup {e.name}
           m == e.name
<1>1. /\ Len(s) \in Nat /\ DOMAIN s = 1..Len(s) /\ DOMAIN x = 1..(Len(s) + 1)
      /\ x[Len(s) + 1] = e /\ \A j \in 1..Len(s) : x[j] = s[j]
  BY AppendIsSeq
<1>2. Names(s) \in Seq(T) /\ m \in T /\ Len(Names(s)) = Len(s)
      /\ \A j \in 1..Len(s) : Names(s)[j] = s[j].name
  <2> DEFINE f == Names(s)
  <2>1. f = [j \in 1..Len(s) |-> s[j].name]
    BY <1>1 DEF Names
  <2>2. f \in [1..Len(s) -> T] /\ m \in T
    BY <2>1
  <2>3. \A j \in 1..Len(s) : f[j] = s[j].name
    BY <2>1
  <2> HIDE DEF f, T, m
  <2>4. f \in Seq(T) /\ Len(f) = Len(s)
    BY <1>1, <2>2
  <2> QED
    BY <2>2, <2>3, <2>4 DEF f
<1>3. DOMAIN Names(x) = 1..(Len(s) + 1) /\ \A j \in 1..(Len(s) + 1) : Names(x)[j] = x[j].name
  BY <1>1 DEF Names
<1> HIDE DEF x, T, S, m
<1>4. /\ Append(Names(s), m) \in [1..(Len(s) + 1) -> T]
      /\ Append(Names(s), m)[Len(s) + 1] = m
      /\ \A j \in 1..Len(s) : Append(Names(s), m)[j] = Names(s)[j]
  <2> DEFINE f == Names(s)
  <2> HIDE DEF f
  <2>1. f \in Seq(T) /\ m \in T /\ Len(f) = Len(s)
    BY <1>2 DEF f
  <2>2. Append(f, m) \in Seq(T) /\ Len(Append(f, m)) = Len(s) + 1 /\ Append(f, m)[Len(s) + 1] = m
        /\ \A j \in 1..Len(s) : Append(f, m)[j] = f[j]
    BY <2>1, <1>1
  <2>3. Append(f, m) \in [1..(Len(s) + 1) -> T]
    <3> DEFINE q == Append(f, m)
    <3> HIDE DEF q
    <3>1. q \in Seq(T) /\ Len(q) = Len(s) + 1
      BY <2>2 DEF q
    <3>2. q \in [1..Len(q) -> T]
      BY <3>1
    <3> QED
      BY <3>1, <3>2 DEF q
  <2> QED
    BY <2>2, <2>3 DEF f
<1>5. \A j \in 1..(Len(s) + 1) : Names(x)[j] = Append(Names(s), m)[j]
  <2> TAKE j \in 1..(Len(s) + 1)
  <2>0. j = Len(s) + 1 \/ j \in 1..Len(s)
    BY <1>1
  <2>1. CASE j = Len(s) + 1
    BY <2>1, <1>1, <1>3, <1>4 DEF m
  <2>2. CASE j \in 1..Len(s)
    <3>1. Names(x)[j] = x[j].name
      BY <1>3
    <3>2. x[j] = s[j] /\ Names(s)[j] = s[j].name /\ Append(Names(s), m)[j] = Names(s)[j]
      BY <2>2, <1>1, <1>2, <1>4
    <3> QED
      BY <3>1, <3>2
  <2> QED
    BY <2>0, <2>1, <2>2
<1>6. Names(x) = [j \in DOMAIN x |-> x[j].name]
  BY DEF Names
<1>7. Append(Names(s), m) = [j \in 1..(Len(s) + 1) |-> Append(Names(s), m)[j]]
  BY <1>4
<1>8. Names(x) = Append(Names(s), m)
  BY <1>1, <1>3, <1>5, <1>6, <1>7
<1> QED
  BY <1>8 DEF x, m

-----------------------------------------------------------------------------
(* The invariant of Listing                                                 *)

ListingType ==
  /\ Len(answers) <= Len(Versions)
  /\ listed \in Nat
  /\ n \in Nat \ {0}
  /\ writing = "idle" => pInstance = Null /\ shown = <<>>
  /\ writing # "idle" => Kind(pInstance)

\* How far a legacy instance is written.
Limited ==
  writing # "idle" /\ LegacyKind(pInstance) =>
    /\ writing \in {"builtin", "store"}
    /\ writing = "builtin" => n \in 1..15 /\ Names(shown) = NamesBefore(n)
    /\ writing = "store" => Names(shown) = NamesBefore(15)

ListingInv == ListingType /\ Lines /\ Limited

\* Before anything is written there is nothing to say.
LEMMA EmptyLines ==
  ASSUME shown = <<>>
  PROVE  Lines /\ Names(shown) = <<>>
<1>1. <<>> \in Seq({}) /\ DOMAIN <<>> = {}
  OBVIOUS
<1> QED
  BY <1>1 DEF Lines, Names, IsSeq

\* The invariant holds at the start.
LEMMA InitListing == ListingInit => ListingInv
<1> SUFFICES ASSUME ListingInit PROVE ListingInv
  OBVIOUS
<1>1. Len(answers) <= Len(Versions)
  <2>1. Len(Versions) \in Nat /\ Len(<<>>) = 0
    BY ValuesAssumption
  <2> QED
    BY <2>1 DEF ListingInit, Init
<1>2. Lines /\ Names(shown) = <<>>
  BY EmptyLines DEF ListingInit
<1>3. writing # "idle" => Kind(pInstance)
  BY DEF ListingInit, Kind
<1>4. ListingType
  BY <1>1, <1>3 DEF ListingInit, ListingType
<1>5. Limited
  <2>1. NamesBefore(1) = <<>>
    BY DEF NamesBefore
  <2> QED
    BY <1>2, <2>1 DEF ListingInit, Limited
<1> QED
  BY <1>2, <1>4, <1>5 DEF ListingInv

\* A step that leaves the writing alone.
LEMMA SameWriting ==
  ASSUME ListingInv, UNCHANGED <<pInstance, n, shown, writing>>, listed' \in Nat,
         Len(answers') <= Len(Versions)
  PROVE  ListingInv'
<1>1. Lines'
  BY SameLines DEF ListingInv
<1>2. ListingType'
  BY DEF ListingInv, ListingType, Kind, LegacyKind
<1>3. Limited'
  BY DEF ListingInv, Limited, LegacyKind, Names
<1> QED
  BY <1>1, <1>2, <1>3 DEF ListingInv

\* The steps of the provider keep it: an answer is given only where one is asked for.
LEMMA ProvideStep ==
  ASSUME TypeOK, ListingInv, Provide
  PROVE  ListingInv'
<1>1. UNCHANGED <<pInstance, n, shown, writing>> /\ listed' = listed
  BY DEF Provide, valueVars
<1>2. Len(answers') <= Len(Versions)
  <2>1. answers' = answers \/ (pc \in {"size", "value"} /\ \E a : Return(a))
    BY DEF Provide, Write, DeleteKey, Construct, AskNext, ReadSize, ReadValue
  <2>2. CASE answers' = answers
    BY <2>2 DEF ListingInv, ListingType
  <2>3. CASE pc \in {"size", "value"} /\ \E a : Return(a)
    <3>1. PICK a : answers' = Append(answers, a)
      BY <2>3 DEF Return
    <3>2. Len(answers) + 1 <= Len(Versions)
      BY <2>3 DEF TypeOK, asked
    <3>3. Len(Append(answers, a)) = Len(answers) + 1
      <4> DEFINE S == {Nothing} \cup {Found(path) : path \in Data}
                 T == S \cup {a}
      <4>1. answers \in Seq(S)
        BY DEF TypeOK
      <4>2. answers \in Seq(T) /\ a \in T
        BY <4>1
      <4> HIDE DEF T
      <4> QED
        BY <4>2
    <3> QED
      BY <3>1, <3>2, <3>3
  <2> QED
    BY <2>1, <2>2, <2>3
<1>3. listed' \in Nat
  BY <1>1 DEF ListingInv, ListingType
<1> QED
  BY <1>1, <1>2, <1>3, SameWriting

\* So does beginning with a legacy instance, whose version and path the provider answered.
LEMMA StartLegacyStep ==
  ASSUME TypeOK, ListingInv, StartLegacy
  PROVE  ListingInv'
<1>0. listed \in Nat /\ listed' = listed + 1 /\ listed < Len(answers) /\ UNCHANGED answers
      /\ Len(answers) <= Len(Versions)
  BY DEF StartLegacy, providerVars, ListingInv, ListingType
<1>1. CASE ~answers[listed + 1].found
  <2>1. UNCHANGED <<pInstance, n, shown, writing>>
    BY <1>1 DEF StartLegacy, valueVars
  <2> QED
    BY <1>0, <2>1, SameWriting
<1>2. CASE answers[listed + 1].found
  <2> DEFINE version == Versions[listed + 1]
             path == answers[listed + 1].path
  <2>1. /\ pInstance' = V!LegacyInstance(version, path)
        /\ n' = 1 /\ shown' = <<>> /\ writing' = "builtin"
    BY <1>2 DEF StartLegacy, V!Begin
  <2>2. version \in Seq(Characters)
    <3>1. Len(Versions) \in Nat /\ Len(answers) \in Nat
      BY ValuesAssumption DEF TypeOK
    <3>2. listed + 1 \in 1..Len(Versions)
      BY <1>0, <3>1
    <3> QED
      BY <3>2, ValuesAssumption
  <2>3. path \in Data
    <3> DEFINE S == {Nothing} \cup {Found(p) : p \in Data}
               got == answers[listed + 1]
    <3>1. answers \in Seq(S)
      BY DEF TypeOK
    <3>2. got \in S
      <4> HIDE DEF S
      <4>1. Len(answers) \in Nat
        BY <3>1
      <4>2. listed + 1 \in 1..Len(answers)
        BY <1>0, <4>1
      <4> QED
        BY <3>1, <4>2
    <3>3. got.found
      BY <1>2
    <3>4. got # Nothing
      BY <3>3 DEF Nothing
    <3>5. PICK p \in Data : got = Found(p)
      BY <3>2, <3>4
    <3> QED
      BY <3>5 DEF Found
  <2>4. LegacyKind(pInstance')
    <3> HIDE DEF version, path
    <3> QED
      BY <2>1, <2>2, <2>3 DEF LegacyKind
  <2>5. ListingType'
    BY <1>0, <2>1, <2>4 DEF ListingType, Kind, LegacyKind
  <2>6. Lines' /\ Names(shown') = <<>>
    <3>1. <<>> \in Seq({}) /\ DOMAIN <<>> = {}
      OBVIOUS
    <3> QED
      BY <2>1, <3>1 DEF Lines, Names, IsSeq
  <2>7. Limited'
    <3>1. NamesBefore(1) = <<>>
      BY DEF NamesBefore
    <3> QED
      BY <2>1, <2>6, <3>1 DEF Limited
  <2> QED
    BY <2>5, <2>6, <2>7 DEF ListingInv
<1> QED
  BY <1>1, <1>2

\* The parts of a line.
LEMMA OwnName ==
  ASSUME NEW place, NEW property, NEW vt, NEW w
  PROVE  LET line == Line(place, property, vt, w)
         IN line.place = place /\ line.name = property /\ line.vt = vt /\ line.value = w
BY DEF Line

\* One turn of the loop over m_properties keeps the invariant.
LEMMA WriteBuiltinStep ==
  ASSUME ListingInv, V!WriteBuiltin, UNCHANGED <<answers, listed>>
  PROVE  ListingInv'
<1> DEFINE property == V!Properties[n]
<1>0. writing = "builtin" /\ n \in 1..14 /\ property \in Names14 /\ Kind(pInstance)
  <2>1. writing = "builtin" /\ n \in 1..14
    BY PropertiesLen DEF V!WriteBuiltin, ListingInv, ListingType
  <2> QED
    BY <2>1, PropertyAt DEF ListingInv, ListingType
<1>1. PICK got \in V!Getter(property) :
         /\ vtValue' = Left(got)
         /\ IF got.ok THEN V!WriteProperty("builtin", property, Left(got)) ELSE UNCHANGED <<shown, writing>>
  <2>1. \E got \in V!Getter(property) :
         /\ vtValue' = IF got.set THEN got.value ELSE V!Cleared(vtValue)
         /\ IF got.ok THEN V!WriteProperty("builtin", property, vtValue') ELSE UNCHANGED <<shown, writing>>
    BY DEF V!WriteBuiltin
  <2>2. PICK got \in V!Getter(property) :
         /\ vtValue' = IF got.set THEN got.value ELSE V!Cleared(vtValue)
         /\ IF got.ok THEN V!WriteProperty("builtin", property, vtValue') ELSE UNCHANGED <<shown, writing>>
    BY <2>1
  <2>3. vtValue' = Left(got)
    BY <2>2 DEF Left, V!Cleared
  <2>4. got.ok => V!WriteProperty("builtin", property, Left(got))
    BY <2>2, <2>3 DEF V!WriteProperty
  <2>5. ~got.ok => UNCHANGED <<shown, writing>>
    BY <2>2
  <2> QED
    BY <2>3, <2>4, <2>5
<1>2. n' = n + 1 /\ pInstance' = pInstance
  BY DEF V!WriteBuiltin
<1>3. IsInstance(pInstance)
  BY <1>0, KindIs
<1>4. OwnAnswer(property, got)
  BY <1>0, <1>3, GetterMeans
<1> DEFINE v == Left(got)
<1>5. \/ /\ shown' = shown /\ writing' = writing /\ (got.ok => V!Written(v) = <<>>)
      \/ /\ shown' = shown /\ writing' = "crashed" /\ got.ok /\ v.vt = "BSTR" /\ v.low = Null
      \/ /\ writing' = writing /\ got.ok /\ ~(v.vt = "BSTR" /\ v.low = Null)
         /\ \E w : /\ V!Written(v) = <<w>>
                   /\ shown' = Append(shown, Line("builtin", property, v.vt, w))
  <2>1. CASE ~got.ok
    BY <1>1, <2>1
  <2>2. CASE got.ok
    <3>1. V!WriteProperty("builtin", property, v)
      BY <1>1, <2>2
    <3>2. IsSeq(shown)
      BY DEF ListingInv, Lines
    <3> HIDE DEF v, property
    <3> QED
      BY <2>2, <3>1, <3>2, OneLine
  <2> QED
    BY <2>1, <2>2
<1> HIDE DEF v, property
<1>6. ListingType'
  BY <1>0, <1>2, <1>5 DEF ListingInv, ListingType, Kind, LegacyKind
<1>7. Lines'
  <2>1. CASE shown' = shown
    BY <2>1, <1>2, SameLines DEF ListingInv
  <2>2. CASE shown' # shown
    <3>1. PICK w : /\ V!Written(v) = <<w>>
                   /\ shown' = Append(shown, Line("builtin", property, v.vt, w))
      BY <1>5, <2>2
    <3>2. got.ok /\ ~(v.vt = "BSTR" /\ v.low = Null)
      BY <1>5, <2>2
    <3>3. V!answer(V!MethodOf[property]) # Failure /\ V!MeansAnswer(property, w)
      BY <1>4, <3>1, <3>2 DEF OwnAnswer, v
    <3>4. Own(Line("builtin", property, v.vt, w)) /\ Reads(Line("builtin", property, v.vt, w))
      BY <3>3, OwnName DEF Own, Reads
    <3> QED
      BY <1>2, <3>1, <3>4, OneMore DEF ListingInv
  <2> QED
    BY <2>1, <2>2
<1>8. Limited'
  <2> SUFFICES ASSUME LegacyKind(pInstance)
               PROVE  /\ writing' = "builtin" /\ n' \in 1..15 /\ Names(shown') = NamesBefore(n')
    BY <1>2, <1>0 DEF Limited, LegacyKind
  <2>1. n' \in 1..15
    BY <1>0, <1>2
  <2>2. Names(shown) = NamesBefore(n)
    BY <1>0 DEF ListingInv, Limited
  <2>3. CASE property \in LegacyProperties
    <3>1. PICK text \in Texts : V!Getter(property) = {V!Set(V!Variant("BSTR", text, 0))}
      BY <1>0, <2>3, LegacyGetters
    <3>2. v = V!Variant("BSTR", text, 0) /\ got.ok
      BY <1>1, <3>1 DEF V!Set, Left, v
    <3>3. V!Written(v) = <<V!E!Escape(text)>> /\ v.low = text /\ text # Null
      BY <3>2, TextWritten, TextsAssumption
    <3>4. V!Written(v) # <<>>
      BY <3>3
    <3>5. PICK w : shown' = Append(shown, Line("builtin", property, v.vt, w)) /\ writing' = writing
      BY <1>5, <3>2, <3>3, <3>4
    <3>6. Names(shown') = Append(Names(shown), property)
      <4>1. IsSeq(shown)
        BY DEF ListingInv, Lines
      <4> DEFINE e == Line("builtin", property, v.vt, w)
      <4>2. e.name = property
        BY OwnName
      <4> HIDE DEF e
      <4>3. Names(Append(shown, e)) = Append(Names(shown), e.name)
        BY <4>1, NamesAppend
      <4>4. shown' = Append(shown, e)
        BY <3>5 DEF e
      <4>5. Names(shown') = Names(Append(shown, e))
        BY <4>4 DEF Names
      <4> QED
        BY <4>2, <4>3, <4>5
    <3>7. NamesBefore(n') = Append(NamesBefore(n), property)
      BY <1>0, <1>2, <2>3, NamesNext DEF property
    <3> QED
      BY <1>0, <2>1, <2>2, <3>5, <3>6, <3>7
  <2>4. CASE property \notin LegacyProperties
    <3>1. V!Getter(property) = {V!Failed}
      BY <1>0, <2>4, LegacyGetters
    <3>2. ~got.ok
      BY <1>1, <3>1 DEF V!Failed
    <3>3. shown' = shown /\ writing' = writing
      BY <1>1, <3>2
    <3>4. NamesBefore(n') = NamesBefore(n)
      BY <1>0, <1>2, <2>4, NamesNext DEF property
    <3> QED
      BY <1>0, <2>1, <2>2, <3>3, <3>4
  <2> QED
    BY <2>3, <2>4
<1> QED
  BY <1>6, <1>7, <1>8 DEF ListingInv

\* A date that throws does so for an instance of the setup service only.
LEMMA ThrowDateStep ==
  ASSUME ListingInv, V!ThrowDate, UNCHANGED <<answers, listed>>
  PROVE  ListingInv'
<1>0. /\ writing = "builtin" /\ writing' = "thrown" /\ V!Getter(V!Properties[n]) = {}
      /\ UNCHANGED <<pInstance, n, shown>>
  BY DEF V!ThrowDate
<1>1. Lines'
  BY <1>0, SameLines DEF ListingInv
<1>2. ListingType'
  BY <1>0 DEF ListingInv, ListingType, Kind, LegacyKind
<1>3. ~LegacyKind(pInstance)
  <2> SUFFICES ASSUME LegacyKind(pInstance) PROVE FALSE
    OBVIOUS
  <2>1. n \in 1..14
    BY PropertiesLen DEF V!ThrowDate, ListingInv, ListingType
  <2>2. V!Properties[n] \in Names14
    BY <2>1, PropertyAt
  <2>3. V!Getter(V!Properties[n]) # {}
    BY <2>2, LegacyGetters
  <2> QED
    BY <1>0, <2>3
<1>4. Limited'
  BY <1>0, <1>3 DEF Limited, LegacyKind
<1> QED
  BY <1>1, <1>2, <1>4 DEF ListingInv

\* A legacy instance comes to its store with the three names.
LEMMA EndBuiltinStep ==
  ASSUME ListingInv, V!EndBuiltin, UNCHANGED <<answers, listed>>
  PROVE  ListingInv'
<1>0. /\ writing = "builtin" /\ writing' = "store" /\ n' = 1 /\ n > 14
      /\ UNCHANGED <<pInstance, shown>>
  BY PropertiesLen DEF V!EndBuiltin
<1>1. Lines'
  BY <1>0, SameLines DEF ListingInv
<1>2. ListingType'
  BY <1>0 DEF ListingInv, ListingType, Kind, LegacyKind
<1>3. Limited'
  <2> SUFFICES ASSUME LegacyKind(pInstance) PROVE Names(shown') = NamesBefore(15)
    BY <1>0 DEF Limited, LegacyKind
  <2>1. n = 15 /\ Names(shown) = NamesBefore(n)
    BY <1>0 DEF ListingInv, Limited
  <2> QED
    BY <1>0, <2>1
<1> QED
  BY <1>1, <1>2, <1>3 DEF ListingInv

\* One turn of the loop over the property store keeps the invariant.
LEMMA WriteStoredStep ==
  ASSUME ListingInv, V!WriteStored, UNCHANGED <<answers, listed>>
  PROVE  ListingInv'
<1> DEFINE p == pInstance.store[n]
           v == p.value
           S == {pInstance.store[j] : j \in DOMAIN pInstance.store}
<1>0. /\ writing = "store" /\ n <= Len(pInstance.store) /\ n' = n + 1 /\ pInstance' = pInstance
      /\ V!WriteProperty("store", p.name, v)
  BY DEF V!WriteStored
<1>1. n \in Nat \ {0} /\ Kind(pInstance)
  BY <1>0 DEF ListingInv, ListingType
<1>2. IsInstance(pInstance) /\ pInstance.store \in Seq(S)
  BY <1>1, KindIs
<1>3. p \in S /\ n \in DOMAIN pInstance.store
  <2> DEFINE s == pInstance.store
  <2>1. n \in DOMAIN s
    <3>1. s \in Seq(S)
      BY <1>2
    <3> HIDE DEF s, S
    <3>2. Len(s) \in Nat /\ DOMAIN s = 1..Len(s)
      BY <3>1
    <3>3. n <= Len(s)
      BY <1>0 DEF s
    <3> QED
      BY <1>1, <3>2, <3>3
  <2> QED
    BY <2>1
<1>4. v.vt = "BSTR" => v.low \in Texts \cup {Null}
  BY <1>2, <1>3 DEF IsInstance
<1>5. ~LegacyKind(pInstance)
  <2> SUFFICES ASSUME LegacyKind(pInstance) PROVE FALSE
    OBVIOUS
  <2>1. pInstance.store = <<>>
    BY LegacyAnswers
  <2> QED
    BY <1>3, <2>1
<1>6. IsSeq(shown)
  BY DEF ListingInv, Lines
<1> DEFINE name == p.name
<1>7. \/ shown' = shown /\ writing' \in {"crashed", "store"}
      \/ /\ writing' = writing /\ ~(v.vt = "BSTR" /\ v.low = Null)
         /\ \E w : /\ V!Written(v) = <<w>>
                   /\ shown' = Append(shown, Line("store", name, v.vt, w))
  <2>1. V!WriteProperty("store", name, v)
    BY <1>0
  <2> HIDE DEF v, name
  <2> QED
    BY <1>0, <1>6, <2>1, OneLine
<1>8. Lines'
  <2>1. CASE shown' = shown
    BY <2>1, <1>0, SameLines DEF ListingInv
  <2>2. CASE shown' # shown
    <3>1. PICK w : /\ V!Written(v) = <<w>> /\ ~(v.vt = "BSTR" /\ v.low = Null)
                   /\ shown' = Append(shown, Line("store", name, v.vt, w))
      BY <1>7, <2>2
    <3> DEFINE line == Line("store", name, v.vt, w)
    <3>2. line.place = "store" /\ line.name = p.name /\ line.vt = v.vt /\ line.value = w
      BY OwnName
    <3>3. v.vt = "BSTR" => V!ReadsAs(w, v.low)
      <4> SUFFICES ASSUME v.vt = "BSTR" PROVE V!ReadsAs(w, v.low)
        OBVIOUS
      <4>1. v.low \in Texts
        BY <1>4, <3>1
      <4>2. V!Written(v) = <<V!E!Escape(v.low)>>
        <5> HIDE DEF v
        <5> QED
          BY DEF V!Written, V!Numbers
      <4>3. w = V!E!Escape(v.low)
        BY <3>1, <4>2
      <4> HIDE DEF v
      <4> QED
        BY <4>1, <4>3, EscapedReads
    <3> HIDE DEF line
    <3>4. Own(line)
      BY <3>2 DEF Own
    <3>5. Reads(line)
      <4>1. line.vt = "BSTR" => p \in S /\ p.name = line.name /\ V!ReadsAs(line.value, p.value.low)
        BY <1>3, <3>2, <3>3
      <4> HIDE DEF p
      <4> QED
        BY <4>1 DEF Reads
    <3> QED
      BY <1>0, <3>1, <3>4, <3>5, OneMore DEF ListingInv, line
  <2> QED
    BY <2>1, <2>2
<1>9. ListingType'
  BY <1>0, <1>1, <1>7 DEF ListingInv, ListingType, Kind, LegacyKind
<1>10. Limited'
  BY <1>0, <1>5 DEF Limited, LegacyKind
<1> QED
  BY <1>8, <1>9, <1>10 DEF ListingInv

\* Every step keeps it.
LEMMA ListingStep ==
  ASSUME TypeOK, ListingInv, [ListingNext]_listingVars
  PROVE  ListingInv'
<1>1. CASE Provide
  BY <1>1, ProvideStep
<1>2. CASE StartLegacy
  BY <1>2, StartLegacyStep
<1>3. CASE WriteValue
  <2>1. UNCHANGED <<answers, listed>>
    BY <1>3 DEF WriteValue, providerVars
  <2> QED
    BY <1>3, <2>1, WriteBuiltinStep, ThrowDateStep, EndBuiltinStep, WriteStoredStep
    DEF WriteValue, V!Next
<1>4. CASE UNCHANGED listingVars
  <2>1. UNCHANGED <<pInstance, n, shown, writing, listed, answers>>
    BY <1>4 DEF listingVars, valueVars, providerVars
  <2>2. listed' \in Nat /\ Len(answers') <= Len(Versions)
    BY <2>1 DEF ListingInv, ListingType
  <2> QED
    BY <2>1, <2>2, SameWriting
<1> QED
  BY <1>1, <1>2, <1>3, <1>4 DEF ListingNext

\* Listing does to the provider's variables what the provider does.
LEMMA ProviderStep == [ListingNext]_listingVars => [Next]_vars
<1> SUFFICES ASSUME [ListingNext]_listingVars PROVE [Next]_vars
  OBVIOUS
<1>1. CASE Provide
  BY <1>1 DEF Provide, Next
<1>2. CASE ~Provide
  BY <1>2 DEF ListingNext, StartLegacy, WriteValue, listingVars, providerVars, vars
<1> QED
  BY <1>1, <1>2

\* It holds in every state, with the types of the provider.
LEMMA ListingInvariant == ListingSpec => [](TypeOK /\ ListingInv)
<1>1. ListingInit => TypeOK /\ ListingInv
  BY InitType, InitListing DEF ListingInit
<1>2. TypeOK /\ ListingInv /\ [ListingNext]_listingVars => (TypeOK /\ ListingInv)'
  BY ProviderStep, StepType, ListingStep
<1> QED
  BY <1>1, <1>2, PTL DEF ListingSpec

\* Listing is the provider and more.
LEMMA ProviderInListing == ListingSpec => Spec
<1>1. ListingInit => Init
  BY DEF ListingInit
<1>2. [ListingNext]_listingVars => [Next]_vars
  BY ProviderStep
<1> QED
  BY <1>1, <1>2, PTL DEF ListingSpec, Spec

\* In Listing, too, the provider looks each version up at once.
THEOREM ListingLooksUpAtOnce == ListingSpec => LooksUpAtOnce
  BY ProviderInListing, TwoReadsLookUpAtOnce, PTL

\* Whatever the VARIANT that all properties share holds, and whichever getters leave it
\* untouched, WriteInternal shows each property with what its own method answered and
\* none whose method failed.
THEOREM ShowsItsOwn == ListingSpec => []EachShowsItsOwn
<1>1. ListingInv => EachShowsItsOwn
  BY EachLine DEF ListingInv, Lines, EachShowsItsOwn
<1> QED
  BY <1>1, ListingInvariant, PTL

\* Escaping loses nothing of the texts of a property store: a reader of the JSON reads
\* each as the store gave it, for texts of any length.
THEOREM ReadsTextsBack == ListingSpec => []TextsReadBack
<1>1. ListingInv => TextsReadBack
  BY EachLine DEF ListingInv, Lines, TextsReadBack
<1> QED
  BY <1>1, ListingInvariant, PTL

\* An instance found in the registry is written to its end, with its id, its path and its
\* version and nothing else: what LegacyInstance does not implement ends nothing.
THEOREM LimitsLegacy == ListingSpec => []LegacyIsLimited
<1>1. ListingInv => LegacyIsLimited
  <2> SUFFICES ASSUME ListingInv, pInstance # Null, pInstance.isLegacy
               PROVE  /\ writing \notin {"crashed", "thrown"}
                      /\ writing = "store" => Names(shown) =
                           <<"instanceId", "installationPath", "installationVersion">>
    BY DEF LegacyIsLimited, HasInstance, V!LegacyIsLimited, Names
  <2>1. writing # "idle" /\ Kind(pInstance)
    BY DEF ListingInv, ListingType
  <2>2. LegacyKind(pInstance)
    BY <2>1, InstancesAssumption DEF Kind
  <2>3. NamesBefore(15) = <<"instanceId", "installationPath", "installationVersion">>
    BY DEF NamesBefore
  <2> QED
    BY <2>1, <2>2, <2>3 DEF ListingInv, Limited
<1> QED
  BY <1>1, ListingInvariant, PTL
=============================================================================
