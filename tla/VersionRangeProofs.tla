------------------------- MODULE VersionRangeProofs -------------------------
(***************************************************************************)
(* Proofs about VersionRange, for every set of texts and every FieldMax.   *)
(***************************************************************************)
EXTENDS VersionRange, TLAPS

-----------------------------------------------------------------------------
(* Versions as numbers                                                      *)

\* Appending a digit d to a number below n, in the number base Base.
LEMMA Digit ==
  ASSUME NEW n \in Nat, NEW a \in 0..(n - 1), NEW d \in 0..FieldMax
  PROVE  a * Base + d \in 0..(n * Base - 1)
<1>1. FieldMax \in Nat /\ Base \in Nat /\ Base = FieldMax + 1
  BY FieldMaxAssumption DEF Base
<1>2. PICK m \in Nat : n = a + 1 + m
  <2>1. n - 1 - a \in Nat
    OBVIOUS
  <2> QED
    BY <2>1
<1>3. n * Base = a * Base + Base + m * Base
  BY <1>1, <1>2
<1>4. a * Base \in Nat /\ m * Base \in Nat
  BY <1>1, <1>2
<1> QED
  BY <1>1, <1>3, <1>4

\* A version of at most four fields is a number of 0..MaxVersion.
LEMMA PackIsVersion ==
  ASSUME NEW f, NEW n \in 1..4, \A k \in 1..n : f[k] \in 0..FieldMax
  PROVE  Pack(f, n) \in Version
<1> DEFINE field(k) == IF k <= n THEN f[k] ELSE 0
<1>1. FieldMax \in Nat /\ Base \in Nat /\ Base = FieldMax + 1
  BY FieldMaxAssumption DEF Base
<1>2. field(1) \in 0..FieldMax /\ field(2) \in 0..FieldMax
      /\ field(3) \in 0..FieldMax /\ field(4) \in 0..FieldMax
  BY <1>1
<1> HIDE DEF field
<1>3. field(1) \in 0..(Base - 1)
  BY <1>1, <1>2
<1>4. field(1) * Base + field(2) \in 0..(Base * Base - 1)
  BY <1>1, <1>2, <1>3, Digit
<1>5. Base * Base \in Nat
  BY <1>1
<1>6. (field(1) * Base + field(2)) * Base + field(3) \in 0..(Base * Base * Base - 1)
  BY <1>2, <1>4, <1>5, Digit
<1>7. Base * Base * Base \in Nat
  BY <1>1, <1>5
<1>8. ((field(1) * Base + field(2)) * Base + field(3)) * Base + field(4)
        \in 0..(Base * Base * Base * Base - 1)
  BY <1>2, <1>6, <1>7, Digit
<1>9. Pack(f, n) = ((field(1) * Base + field(2)) * Base + field(3)) * Base + field(4)
  BY DEF Pack, field
<1> QED
  BY <1>8, <1>9 DEF Version, MinVersion, MaxVersion

\* Of two numbers written with one digit more, the one with the greater leading
\* part is the greater.
LEMMA DigitOrder ==
  ASSUME NEW a \in Nat, NEW b \in Nat, NEW c \in 0..FieldMax, NEW d \in 0..FieldMax
  PROVE  a * Base + c < b * Base + d <=> a < b \/ (a = b /\ c < d)
<1>1. FieldMax \in Nat /\ Base \in Nat /\ Base = FieldMax + 1
  BY FieldMaxAssumption DEF Base
<1>2. a * Base \in Nat /\ b * Base \in Nat
  BY <1>1
<1>3. ASSUME NEW x \in Nat, NEW y \in Nat, x < y
      PROVE  x * Base + Base <= y * Base
  <2>1. PICK m \in Nat : y = x + 1 + m
    <3>1. y - 1 - x \in Nat
      BY <1>3
    <3> QED
      BY <3>1
  <2>2. y * Base = x * Base + Base + m * Base /\ m * Base \in Nat /\ x * Base \in Nat
    BY <1>1, <2>1
  <2> QED
    BY <1>1, <2>2
<1>4. CASE a < b
  <2>1. a * Base + Base <= b * Base
    BY <1>3, <1>4
  <2> QED
    BY <1>1, <1>2, <1>4, <2>1
<1>5. CASE a = b
  BY <1>1, <1>2, <1>5
<1>6. CASE b < a
  <2>1. b * Base + Base <= a * Base
    BY <1>3, <1>6
  <2> QED
    BY <1>1, <1>2, <1>6, <2>1
<1> QED
  BY <1>4, <1>5, <1>6

\* Versions compare as numbers exactly as their fields compare from the first to
\* the last: the packing of ParseVersionString keeps the order of versions, which
\* InstanceSelector::Less and IsVersionMatch rely on.
THEOREM PackKeepsOrder ==
  ASSUME NEW f \in [1..4 -> 0..FieldMax], NEW g \in [1..4 -> 0..FieldMax]
  PROVE  Pack(f, 4) < Pack(g, 4) <=>
           \/ f[1] < g[1]
           \/ f[1] = g[1] /\ f[2] < g[2]
           \/ f[1] = g[1] /\ f[2] = g[2] /\ f[3] < g[3]
           \/ f[1] = g[1] /\ f[2] = g[2] /\ f[3] = g[3] /\ f[4] < g[4]
<1> DEFINE P2(h) == h[1] * Base + h[2]
           P3(h) == P2(h) * Base + h[3]
           P4(h) == P3(h) * Base + h[4]
<1>1. FieldMax \in Nat /\ Base \in Nat
  BY FieldMaxAssumption DEF Base
<1>2. ASSUME NEW h \in [1..4 -> 0..FieldMax]
      PROVE  /\ h[1] \in Nat /\ P2(h) \in Nat /\ P3(h) \in Nat
             /\ \A k \in 1..4 : h[k] \in 0..FieldMax
             /\ Pack(h, 4) = P4(h)
  <2>1. \A k \in 1..4 : h[k] \in 0..FieldMax /\ h[k] \in Nat
    BY <1>1
  <2>2. P2(h) \in Nat
    BY <1>1, <2>1
  <2>3. P3(h) \in Nat
    <3> HIDE DEF P2
    <3> QED
      BY <1>1, <2>1, <2>2
  <2>4. Pack(h, 4) = P4(h)
    BY DEF Pack
  <2> QED
    BY <2>1, <2>2, <2>3, <2>4
<1> USE <1>2
<1>3. P2(f) < P2(g) <=> f[1] < g[1] \/ (f[1] = g[1] /\ f[2] < g[2])
  BY DigitOrder
<1>4. P2(g) < P2(f) <=> g[1] < f[1] \/ (g[1] = f[1] /\ g[2] < f[2])
  BY DigitOrder
<1> HIDE DEF P2
<1>5. P3(f) < P3(g) <=> P2(f) < P2(g) \/ (P2(f) = P2(g) /\ f[3] < g[3])
  BY DigitOrder
<1>6. P3(g) < P3(f) <=> P2(g) < P2(f) \/ (P2(g) = P2(f) /\ g[3] < f[3])
  BY DigitOrder
<1> HIDE DEF P3
<1>7. P4(f) < P4(g) <=> P3(f) < P3(g) \/ (P3(f) = P3(g) /\ f[4] < g[4])
  BY DigitOrder
<1>8. P2(f) = P2(g) <=> f[1] = g[1] /\ f[2] = g[2]
  BY <1>3, <1>4
<1>9. P3(f) = P3(g) <=> P2(f) = P2(g) /\ f[3] = g[3]
  BY <1>5, <1>6
<1> QED
  BY <1>3, <1>5, <1>7, <1>8, <1>9

-----------------------------------------------------------------------------
(* The scanner                                                              *)

\* ParseVersionString gives a version or fails.
LEMMA ParseGivesVersion ==
  ASSUME NEW s, NEW b, NEW e
  PROVE  ParseVersionString(s, b, e) \in Version \cup {Invalid}
<1> DEFINE f == Fields(s, b, e)
           values == [k \in 1..4 |-> f[k].value]
<1>1. ASSUME NEW p, Field(s, p, e).ok
      PROVE  Field(s, p, e).value \in 0..FieldMax
  BY <1>1 DEF Field
<1>2. \A k \in 1..4 : f[k].ok => f[k].value \in 0..FieldMax
  BY <1>1 DEF Fields
<1> HIDE DEF f
<1>3. ASSUME NEW n \in 1..4, EndsWith(f, n)
      PROVE  Pack(values, n) \in Version
  <2>1. \A k \in 1..n : values[k] \in 0..FieldMax
    BY <1>2, <1>3 DEF EndsWith
  <2> QED
    BY <2>1, PackIsVersion
<1>4. ParseVersionString(s, b, e) =
        IF \E n \in 1..4 : EndsWith(f, n)
          THEN Pack(values, CHOOSE n \in 1..4 : EndsWith(f, n)) ELSE Invalid
  BY DEF ParseVersionString, f
<1> QED
  BY <1>3, <1>4

\* The greatest version is a number.
LEMMA MaxVersionIsNat == MaxVersion \in Nat
<1>1. Base \in Nat /\ Base >= 1
  BY FieldMaxAssumption DEF Base
<1> DEFINE square == Base * Base
<1>2. square \in Nat /\ square >= 1
  BY <1>1
<1> HIDE DEF square
<1> DEFINE cube == square * Base
<1>3. cube \in Nat /\ cube >= 1
  BY <1>1, <1>2
<1> HIDE DEF cube
<1>4. cube * Base \in Nat /\ cube * Base >= 1
  BY <1>1, <1>3
<1> QED
  BY <1>4 DEF MaxVersion, cube, square

\* The bounds that CheckBounds lets through are versions: nothing wrapped around.
LEMMA BoundsDoNotWrap ==
  ASSUME TypeOK, ~BadBounds
  PROVE  Excluded \in [min : Version, max : Version] /\ Excluded.min <= Excluded.max
<1>1. MaxVersion \in Nat
  BY MaxVersionIsNat
<1>2. \A n \in Version : Wrap(n) = n
  BY <1>1 DEF Wrap, Version, MinVersion
<1>3. ~minInclusive => lo + 1 \in Version
  BY <1>1 DEF BadBounds, TypeOK, Version, MinVersion
<1>4. ~maxInclusive => hi - 1 \in Version
  BY <1>1 DEF BadBounds, TypeOK, Version, MinVersion
<1>5. Excluded.min \in Version /\ Excluded.max \in Version
  BY <1>2, <1>3, <1>4 DEF Excluded, TypeOK
<1>6. Excluded \in [min : Version, max : Version]
  BY <1>5 DEF Excluded
<1>7. Excluded.min <= Excluded.max
  BY <1>1, <1>5 DEF BadBounds, Version, MinVersion
<1> QED
  BY <1>6, <1>7

\* TypeOK holds of the initial states.
LEMMA InitTypeOK == Init => TypeOK
<1>1. MaxVersion \in Nat
  BY MaxVersionIsNat
<1>2. MinVersion \in Version /\ MaxVersion \in Version
  BY <1>1 DEF Version, MinVersion
<1> SUFFICES ASSUME Init PROVE TypeOK
  OBVIOUS
<1>3. Len(text) \in Nat
  BY TextsAssumption DEF Init
<1>4. out \in [min : Version, max : Version]
  BY <1>2 DEF Init
<1>5. sep \in BOOLEAN /\ single \in BOOLEAN /\ minInclusive \in BOOLEAN /\ maxInclusive \in BOOLEAN
  BY DEF Init
<1>6. hr \in Results \cup {"called", "scanning", "tail", "bounds"}
  BY DEF Init
<1> QED
  BY <1>2, <1>3, <1>4, <1>5, <1>6 DEF Init, TypeOK

\* Every step keeps TypeOK.
LEMMA NextTypeOK == TypeOK /\ [Next]_vars => TypeOK'
<1> SUFFICES ASSUME TypeOK, [Next]_vars PROVE TypeOK'
  OBVIOUS
<1> USE DEF TypeOK
<1>1. Len(text) \in Nat
  BY TextsAssumption
<1>2. ASSUME Fail PROVE TypeOK'
  BY <1>2 DEF Fail, scanner, Results
<1>3. CASE Trim
  <2>1. 0 \in Version
    BY MaxVersionIsNat DEF Version, MinVersion
  <2> QED
    BY <1>3, <2>1 DEF Trim, scanner, Results
<1>4. CASE OpenBracket
  <2>1. CASE Fail
    BY <1>2, <2>1
  <2>2. CASE ~Fail
    <3>1. minInclusive' \in BOOLEAN
      BY <1>4, <2>2 DEF OpenBracket
    <3>2. /\ next' = next + 1 /\ next < last
          /\ UNCHANGED <<text, hr, first, last, from, to, sep, single, maxInclusive, lo, hi, out>>
      BY <1>4, <2>2 DEF OpenBracket, Scanning
    <3> QED
      BY <1>1, <3>1, <3>2
  <2> QED
    BY <2>1, <2>2
<1>5. CASE CloseBracket
  <2>1. CASE Fail
    BY <1>2, <2>1
  <2>2. CASE ~Fail
    <3>1. maxInclusive' \in BOOLEAN /\ single' \in BOOLEAN
      BY <1>5, <2>2 DEF CloseBracket
    <3>2. /\ next' = next + 1 /\ next < last
          /\ UNCHANGED <<text, hr, first, last, from, to, sep, minInclusive, lo, hi, out>>
      BY <1>5, <2>2 DEF CloseBracket, Scanning
    <3> QED
      BY <1>1, <3>1, <3>2
  <2> QED
    BY <2>1, <2>2
<1>6. CASE Comma
  <2>1. ParseMin \in Version \cup {Invalid}
    BY ParseGivesVersion DEF ParseMin
  <2>2. CASE Fail
    BY <1>2, <2>2
  <2>3. CASE ~Fail
    <3>1. sep' = TRUE /\ from' = 0 /\ to' = 0
      BY <1>6, <2>3 DEF Comma
    <3>2. lo' \in Version
      BY <1>6, <2>1, <2>3 DEF Comma
    <3>3. /\ next' = next + 1 /\ next < last
          /\ UNCHANGED <<text, hr, first, last, single, minInclusive, maxInclusive, hi, out>>
      BY <1>6, <2>3 DEF Comma, Scanning
    <3> QED
      BY <1>1, <3>1, <3>2, <3>3
  <2> QED
    BY <2>2, <2>3
<1>7. CASE Space
  BY <1>1, <1>7 DEF Space, Scanning, scanner
<1>8. CASE VersionChar
  BY <1>1, <1>8 DEF VersionChar, Scanning
<1>9. CASE EndOfText
  BY <1>9 DEF EndOfText, scanner
<1>10. CASE ParseTail
  <2>1. ParseVersionString(text, from, to) \in Version \cup {Invalid}
    BY ParseGivesVersion
  <2> QED
    BY <1>2, <1>10, <2>1 DEF ParseTail, scanner
<1>11. CASE CheckBounds
  BY <1>2, <1>11, BoundsDoNotWrap DEF CheckBounds, scanner, Results
<1>12. CASE Returned \/ UNCHANGED vars
  BY <1>12 DEF Returned, vars, scanner
<1> QED
  BY <1>3, <1>4, <1>5, <1>6, <1>7, <1>8, <1>9, <1>10, <1>11, <1>12 DEF Next

\* No 64-bit wrap-around and no position outside the text, for texts of any
\* length and fields of any width.
THEOREM TypeCorrect == Spec => []TypeOK
  BY InitTypeOK, NextTypeOK, PTL DEF Spec

\* ParseVersionRange returns an ordered range, or fails and leaves zeros.
THEOREM OutputsAreOrdered == Spec => []OutputsOrdered
<1>1. Init => OutputsOrdered
  BY DEF Init, OutputsOrdered
<1>2. TypeOK /\ OutputsOrdered /\ [Next]_vars => OutputsOrdered'
  <2> SUFFICES ASSUME TypeOK, OutputsOrdered, [Next]_vars PROVE OutputsOrdered'
    OBVIOUS
  <2>1. CASE Trim
    BY <2>1 DEF Trim, OutputsOrdered
  <2>2. CASE CheckBounds
    BY <2>2, BoundsDoNotWrap DEF CheckBounds, Fail, OutputsOrdered
  <2>3. CASE OpenBracket \/ CloseBracket \/ Comma \/ Space \/ VersionChar
    BY <2>3 DEF OpenBracket, CloseBracket, Comma, Space, VersionChar, Scanning, Fail,
                OutputsOrdered
  <2>4. CASE EndOfText \/ ParseTail
    BY <2>4 DEF EndOfText, ParseTail, Fail, OutputsOrdered
  <2>5. CASE Returned \/ UNCHANGED vars
    BY <2>5 DEF Returned, vars, OutputsOrdered
  <2> QED
    BY <2>1, <2>2, <2>3, <2>4, <2>5 DEF Next
<1> QED
  BY <1>1, <1>2, TypeCorrect, PTL DEF Spec
=============================================================================
