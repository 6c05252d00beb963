---------------------------- MODULE VersionRange ----------------------------
(***************************************************************************)
(* VersionRange, the program's own ISetupHelper: how the text given with   *)
(* -version becomes the pair of 64-bit numbers every instance's version is *)
(* compared with.  The scanner of ParseVersionRange is a state machine,    *)
(* one action per class of character; ParseVersionString is an operator.   *)
(*                                                                         *)
(* A text is a sequence of one-character strings.  Every character that is *)
(* neither a digit, a dot, a blank nor punctuation of a range is Junk; the *)
(* signs that wcstoul also reads are not modelled.  A field is a number in *)
(* 0..FieldMax, in the code 0..65535, and a version packs four fields.     *)
(***************************************************************************)
EXTENDS Integers, Sequences, Functions

CONSTANTS
  Texts,      \* the texts a caller may pass
  FieldMax    \* the largest field of a version, USHRT_MAX in the code

ASSUME FieldMaxAssumption == FieldMax \in Nat \ {0}

Digits == {"0", "1", "2", "3", "4", "5", "6", "7", "8", "9"}
DigitValue == [d \in Digits |->
  CASE d = "0" -> 0 [] d = "1" -> 1 [] d = "2" -> 2 [] d = "3" -> 3 [] d = "4" -> 4
    [] d = "5" -> 5 [] d = "6" -> 6 [] d = "7" -> 7 [] d = "8" -> 8 [] d = "9" -> 9]
Blank == " "
Junk  == "x"
Punctuation == {"(", "[", ")", "]", ",", "."}
Char  == Digits \cup Punctuation \cup {Blank, Junk}

ASSUME TextsAssumption == Texts \subseteq Seq(Char)

-----------------------------------------------------------------------------
(* Versions: four fields, the first the most significant.                   *)

Base       == FieldMax + 1
MinVersion == 0
MaxVersion == Base * Base * Base * Base - 1
Version    == MinVersion..MaxVersion
Invalid    == -1                     \* a failing HRESULT in place of a version

\* The number that packs the fields 1..n of f; missing fields are zero.
Pack(f, n) ==
  LET field(k) == IF k <= n THEN f[k] ELSE 0
  IN  ((field(1) * Base + field(2)) * Base + field(3)) * Base + field(4)

Number(digits) == SumFunction([k \in DOMAIN digits |->
                    DigitValue[digits[k]] * 10 ^ (Len(digits) - k)])

\* A field of s that begins at p, in a version that ends before e: where the next
\* dot is, where wcstoul stops, and the number it reads up to there.
FirstOf(positions, e) ==
  IF positions = {} THEN e ELSE CHOOSE k \in positions : \A j \in positions : k <= j
FieldEnd(s, p, e)   == FirstOf({k \in p..(e - 1) : s[k] = "."}, e)
FieldStop(s, p, e)  == FirstOf({k \in p..(e - 1) : s[k] \notin Digits}, e)
FieldValue(s, p, e) == IF FieldStop(s, p, e) > p
                         THEN Number(SubSeq(s, p, FieldStop(s, p, e) - 1)) ELSE 0

\* Faulty variant of Field: no test against USHRT_MAX.
FieldUnbounded(s, p, e) ==
  [ok    |-> /\ p < FieldEnd(s, p, e)
             /\ \A k \in p..(FieldEnd(s, p, e) - 1) : s[k] # Blank
             /\ FieldValue(s, p, e) >= 0
             /\ FieldValue(s, p, e) = 0 => FieldStop(s, p, e) = FieldEnd(s, p, e),
   value |-> FieldValue(s, p, e),
   stop  |-> FieldStop(s, p, e),
   final |-> FieldStop(s, p, e) >= e]

\* One turn of the loop of ParseVersionString.  The code steps over the character
\* wcstoul stops at, whatever it is.
Field(s, p, e) ==
  [ok    |-> /\ p < FieldEnd(s, p, e)
             /\ \A k \in p..(FieldEnd(s, p, e) - 1) : s[k] # Blank
             /\ FieldValue(s, p, e) \in 0..FieldMax
             /\ FieldValue(s, p, e) = 0 => FieldStop(s, p, e) = FieldEnd(s, p, e),
   value |-> FieldValue(s, p, e),
   stop  |-> FieldStop(s, p, e),
   final |-> FieldStop(s, p, e) >= e]

\* The turns of the loop; each begins after the character the last stopped at.
Fields(s, b, e) ==
  LET f1 == Field(s, b, e)
      f2 == Field(s, f1.stop + 1, e)
      f3 == Field(s, f2.stop + 1, e)
      f4 == Field(s, f3.stop + 1, e)
  IN  <<f1, f2, f3, f4>>

\* The n-th turn is the last one, and none failed.
EndsWith(f, n) == f[n].final /\ \A k \in 1..n : f[k].ok /\ (k < n => ~f[k].final)

\* The version in positions b..e-1 of s, or Invalid.
ParseVersionString(s, b, e) ==
  LET f == Fields(s, b, e)
  IN  IF \E n \in 1..4 : EndsWith(f, n)
        THEN Pack([k \in 1..4 |-> f[k].value], CHOOSE n \in 1..4 : EndsWith(f, n))
        ELSE Invalid

\* Trim leaves the positions b..e-1 of s.
IsTrimmed(s, b, e) ==
  /\ \A k \in DOMAIN s : k < b \/ k >= e => s[k] = Blank
  /\ b < e => s[b] # Blank /\ s[e - 1] # Blank
  /\ b = e => b = Len(s) + 1

-----------------------------------------------------------------------------
VARIABLES
  text,           \* the parameter pwszVersionRange
  hr,             \* where the call is: "called", "scanning", "tail", "bounds",
                  \* then its result, "S_OK" or "E_INVALIDARG"
  first,          \* the position of the first character of the trimmed text
  next,           \* the position of the next character to scan
  last,           \* the position after the last character of the trimmed text
  from, to,       \* pwszVersionStart and pwszVersionEnd; both 0 when NULL
  sep, single,    \* a comma was read; a closing bracket came without one
  minInclusive, maxInclusive,
  lo, hi,         \* the locals ullMinVersion and ullMaxVersion
  out             \* *pullMinVersion and *pullMaxVersion, the caller's storage

scanner == <<from, to, sep, single, minInclusive, maxInclusive>>
vars == <<text, hr, first, next, last, scanner, lo, hi, out>>

Results == {"S_OK", "E_INVALIDARG"}

Init ==
  /\ text \in Texts
  /\ hr = "called"
  /\ first = 1 /\ next = 1 /\ last = 1
  /\ from = 0 /\ to = 0
  /\ sep = FALSE /\ single = FALSE
  /\ minInclusive = TRUE /\ maxInclusive = TRUE
  /\ lo = MinVersion /\ hi = MaxVersion
  /\ \E stale \in {MinVersion, MaxVersion} : out = [min |-> stale, max |-> stale]

Fail == hr' = "E_INVALIDARG" /\ UNCHANGED <<text, first, next, last, scanner, lo, hi, out>>

\* The outputs are cleared before anything can fail, the text is trimmed.
Trim ==
  /\ hr = "called"
  /\ out' = [min |-> 0, max |-> 0]
  /\ \E b \in 1..(Len(text) + 1), e \in 1..(Len(text) + 1) :
       /\ b <= e /\ IsTrimmed(text, b, e)
       /\ first' = b /\ next' = b /\ last' = e
  /\ hr' = IF last' = first' THEN "E_INVALIDARG" ELSE "scanning"
  /\ UNCHANGED <<text, scanner, lo, hi>>

Scanning(chars) == hr = "scanning" /\ next < last /\ text[next] \in chars

OpenBracket ==
  /\ Scanning({"(", "["})
  /\ \/ /\ next # first
        /\ Fail
     \/ /\ next = first
        /\ minInclusive' = (text[next] = "[")
        /\ next' = next + 1
        /\ UNCHANGED <<text, hr, first, last, from, to, sep, single, maxInclusive, lo, hi, out>>

CloseBracket ==
  /\ Scanning({")", "]"})
  /\ \/ /\ next # last - 1
        /\ Fail
     \/ /\ next = last - 1
        /\ maxInclusive' = (text[next] = "]")
        /\ single' = ~sep
        /\ next' = next + 1
        /\ UNCHANGED <<text, hr, first, last, from, to, sep, minInclusive, lo, hi, out>>

\* The comma ends the minimum.  When there is no text before it the minimum
\* stays at its default.
ParseMin == IF to > from THEN ParseVersionString(text, from, to) ELSE lo

\* Faulty variant of Comma: the text of the minimum is not forgotten.
CommaKeepsStart ==
  /\ Scanning({","})
  /\ \/ /\ sep \/ ParseMin = Invalid
        /\ Fail
     \/ /\ ~sep /\ ParseMin # Invalid
        /\ sep' = TRUE
        /\ lo' = ParseMin
        /\ next' = next + 1
        /\ UNCHANGED <<text, hr, first, last, from, to, single, minInclusive, maxInclusive, hi, out>>

Comma ==
  /\ Scanning({","})
  /\ \/ /\ sep \/ ParseMin = Invalid
        /\ Fail
     \/ /\ ~sep /\ ParseMin # Invalid
        /\ sep' = TRUE
        /\ lo' = ParseMin
        /\ from' = 0 /\ to' = 0
        /\ next' = next + 1
        /\ UNCHANGED <<text, hr, first, last, single, minInclusive, maxInclusive, hi, out>>

Space ==
  /\ Scanning({Blank})
  /\ next' = next + 1
  /\ UNCHANGED <<text, hr, first, last, scanner, lo, hi, out>>

VersionChar ==
  /\ Scanning(Digits \cup {".", Junk})
  /\ from' = IF from = 0 THEN next ELSE from
  /\ to' = next + 1
  /\ next' = next + 1
  /\ UNCHANGED <<text, hr, first, last, sep, single, minInclusive, maxInclusive, lo, hi, out>>

EndOfText ==
  /\ hr = "scanning" /\ next >= last
  /\ hr' = "tail"
  /\ UNCHANGED <<text, first, next, last, scanner, lo, hi, out>>

\* After the loop: what is left is the maximum when a comma was read, else the
\* minimum, and also the maximum when it stood alone in brackets.
ParseTail ==
  /\ hr = "tail"
  /\ \/ /\ to <= from
        /\ hr' = "bounds"
        /\ UNCHANGED <<text, first, next, last, scanner, lo, hi, out>>
     \/ /\ to > from
        /\ ParseVersionString(text, from, to) = Invalid
        /\ Fail
     \/ /\ to > from
        /\ ParseVersionString(text, from, to) # Invalid
        /\ LET v == ParseVersionString(text, from, to)
           IN  /\ lo' = IF sep THEN lo ELSE v
               /\ hi' = IF sep \/ single THEN v ELSE hi
        /\ hr' = "bounds"
        /\ UNCHANGED <<text, first, next, last, scanner, out>>

\* The exclusive bounds are turned into inclusive ones, in 64 bits.
Wrap(n)  == n % (MaxVersion + 1)
Excluded == [min |-> IF minInclusive THEN lo ELSE Wrap(lo + 1),
             max |-> IF maxInclusive THEN hi ELSE Wrap(hi - 1)]

BadBounds ==
  \/ ~minInclusive /\ lo = MaxVersion
  \/ ~maxInclusive /\ hi = 0
  \/ Excluded.min > Excluded.max

\* Faulty variant of CheckBounds: the bounds are stored before they are tested.
CheckBoundsEarly ==
  /\ hr = "bounds"
  /\ out' = Excluded
  /\ hr' = IF BadBounds THEN "E_INVALIDARG" ELSE "S_OK"
  /\ UNCHANGED <<text, first, next, last, scanner, lo, hi>>

CheckBounds ==
  /\ hr = "bounds"
  /\ \/ /\ BadBounds
        /\ Fail
     \/ /\ ~BadBounds
        /\ out' = Excluded
        /\ hr' = "S_OK"
        /\ UNCHANGED <<text, first, next, last, scanner, lo, hi>>

\* The call has returned.
Returned == hr \in Results /\ UNCHANGED vars

Next ==
  \/ Trim
  \/ OpenBracket
  \/ CloseBracket
  \/ Comma
  \/ Space
  \/ VersionChar
  \/ EndOfText
  \/ ParseTail
  \/ CheckBounds
  \/ Returned

Spec == Init /\ [][Next]_vars

-----------------------------------------------------------------------------
(* Properties                                                               *)

\* Types: the locals never leave the 64-bit range of versions although bounds
\* are incremented and decremented, and positions never leave the text.
TypeOK ==
  /\ text \in Texts
  /\ hr \in Results \cup {"called", "scanning", "tail", "bounds"}
  /\ first \in 1..(Len(text) + 1) /\ next \in 1..(Len(text) + 1) /\ last \in 1..(Len(text) + 1)
  /\ from \in 0..Len(text) /\ to \in 0..(Len(text) + 1)
  /\ sep \in BOOLEAN /\ single \in BOOLEAN
  /\ minInclusive \in BOOLEAN /\ maxInclusive \in BOOLEAN
  /\ lo \in Version /\ hi \in Version
  /\ out \in [min : Version, max : Version]

\* The caller's storage holds a range only when the call succeeds, and then
\* an ordered one; on every failing path, even the last one, it holds zeros,
\* which InstanceSelector::HasVersionRange reads as "no range".
OutputsOrdered ==
  /\ hr = "S_OK" => out.min <= out.max
  /\ hr \notin {"S_OK", "called"} => out = [min |-> 0, max |-> 0]

=============================================================================
