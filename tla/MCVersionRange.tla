--------------------------- MODULE MCVersionRange ---------------------------
(***************************************************************************)
(* VersionRange on small texts, against a reading of the text that does    *)
(* not scan it.  Fields are 0 or 1, so that there are sixteen versions and *)
(* an interval of them can be written out as a set.                        *)
(***************************************************************************)
EXTENDS VersionRange, FiniteSets, SequencesExt

\* Every text of at most n characters of an alphabet that has one of each kind.
Alphabet    == {"(", "[", ")", "]", ",", ".", " ", "0", "1", "2", "x"}
AllTexts(n) == UNION {[1..k -> Alphabet] : k \in 0..n}

\* Longer texts, of the shape  open part comma part close.
Parts  == {<<>>, <<"0">>, <<"1">>, <<"1", ".", "1">>, <<"0", ".", "1">>,
           <<"1", ".", "1", ".", "1", ".", "1">>, <<"0", "1">>, <<"1", " ", "1">>,
           <<"0", ".", "0", ".", "0", ".", "0", ".", "0">>}
Commas == {<<>>, <<",">>, <<" ", ",", " ">>, <<",", ",">>}
ShapedTexts ==
  {open \o left \o comma \o right \o close :
     open  \in {<<>>, <<"[">>, <<" ", "(">>, <<"(">>},
     left  \in Parts, comma \in Commas, right \in Parts,
     close \in {<<>>, <<"]">>, <<")">>, <<")", " ">>}}

MCTexts == AllTexts(4) \cup ShapedTexts

-----------------------------------------------------------------------------
(* What a text denotes                                                      *)

Blanks(s)   == {k \in DOMAIN s : s[k] = " "}
Trimmed(s)  ==
  LET ink == DOMAIN s \ Blanks(s)
  IN  IF ink = {} THEN <<>> ELSE SubSeq(s, Min(ink), Max(ink))
Positions(s, chars) == {k \in DOMAIN s : s[k] \in chars}

\* The pieces of s between the separators c.
Pieces(s, c) ==
  LET cuts == Positions(s, {c}) \cup {0, Len(s) + 1}
      cut  == [k \in 1..Cardinality(cuts) |->
                 CHOOSE p \in cuts : Cardinality({q \in cuts : q <= p}) = k]
  IN  [k \in 1..(Cardinality(cuts) - 1) |-> SubSeq(s, cut[k] + 1, cut[k + 1] - 1)]

\* Version numbers: one to four fields, each a numeral of at most FieldMax.  A
\* version's number is how many quadruples of fields come before it in
\* lexicographic order.
IsField(s) ==
  /\ s # <<>>
  /\ Positions(s, Digits) = DOMAIN s
  /\ \A k \in 1..(Len(s) - 1) : s[k] = "0"
  /\ DigitValue[s[Len(s)]] <= FieldMax
IsVersion(s) == LET f == Pieces(s, ".") IN Len(f) <= 4 /\ \A k \in DOMAIN f : IsField(f[k])

Quads == [1..4 -> 0..FieldMax]
Before(f, g) == \E k \in 1..4 : f[k] < g[k] /\ \A j \in 1..(k - 1) : f[j] = g[j]
Ordinal == [f \in Quads |-> Cardinality({g \in Quads : Before(g, f)})]
VersionOf(s) ==
  LET f == Pieces(s, ".")
  IN  Ordinal[[k \in 1..4 |-> IF k <= Len(f) THEN DigitValue[f[k][Len(f[k])]] ELSE 0]]

\* A range: an optional opening bracket, one version or two around a comma, an
\* optional closing bracket.
Opening(t) == IF t # <<>> /\ t[1] \in {"(", "["} THEN t[1] ELSE ""
Closing(t) == IF t # <<>> /\ t[Len(t)] \in {")", "]"} THEN t[Len(t)] ELSE ""
Inside(t)  == SubSeq(t, IF Opening(t) = "" THEN 1 ELSE 2,
                        IF Closing(t) = "" THEN Len(t) ELSE Len(t) - 1)
Ends(t) == LET p == Pieces(Inside(t), ",") IN [k \in DOMAIN p |-> Trimmed(p[k])]

WellFormed(t) ==
  /\ t # <<>>
  /\ Positions(Inside(t), {"(", "[", ")", "]"}) = {}
  /\ Len(Ends(t)) <= 2
  /\ \A k \in DOMAIN Ends(t) : Ends(t)[k] = <<>> \/ IsVersion(Ends(t)[k])

\* The versions within the ends.  An end that is missing is no bound.  A version
\* alone is a minimum, and in brackets that close it is the only version.
Above(t, v) ==
  LET end == Ends(t)[1]
      m   == IF end = <<>> THEN MinVersion ELSE VersionOf(end)
  IN  v > m \/ (v = m /\ Opening(t) # "(")
Below(t, v) ==
  LET end == IF Len(Ends(t)) = 2 THEN Ends(t)[2]
             ELSE IF Closing(t) # "" THEN Ends(t)[1] ELSE <<>>
      m   == IF end = <<>> THEN MaxVersion ELSE VersionOf(end)
  IN  v < m \/ (v = m /\ Closing(t) # ")")
Denoted(t) == IF WellFormed(t) THEN {v \in Version : Above(t, v) /\ Below(t, v)} ELSE {}

\* When the call returns, it returns the interval the text denotes, bounds
\* turned from exclusive to inclusive without wrapping around; it fails exactly
\* on the texts that are malformed or denote no version.  (Junk, which the code
\* takes for a dot after a field that is not zero, is left out.)
RangeIsDenoted ==
  hr \in Results /\ Positions(text, {Junk}) = {} =>
    LET denoted == Denoted(Trimmed(text))
    IN  IF denoted = {} THEN hr = "E_INVALIDARG"
                        ELSE hr = "S_OK" /\ out.min..out.max = denoted
=============================================================================
