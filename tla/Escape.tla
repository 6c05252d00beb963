------------------------------- MODULE Escape -------------------------------
(***************************************************************************)
(* How JsonFormatter writes a text: Escape copies it up to each character  *)
(* that it escapes.                                                        *)
(***************************************************************************)
EXTENDS Integers, Sequences, FiniteSetsExt

CONSTANTS
  Quote, Backslash,
  LetterN,     \* after a backslash JSON reads it as a new line
  NewLine      \* a control character

\* Faulty variant of Escaped: only what would end the string is escaped.
QuotesOnly == {Quote}

Escaped == {Quote, Backslash}

\* One call; last is where the loop has come to.
Escape(text) ==
  LET Found(last) == {p \in (last + 1)..Len(text) : text[p] \in Escaped}
      from[last \in 0..Len(text)] ==
        IF Found(last) = {} THEN SubSeq(text, last + 1, Len(text))
        ELSE LET pos == Min(Found(last))
             IN  SubSeq(text, last + 1, pos - 1) \o <<Backslash, text[pos]>> \o from[pos]
  IN  from[0]

\* What a reader of JSON reads between two quotes from a place on, given what it
\* reads from later ones: one text, or none when a quote ends it early, a backslash
\* begins no escape or a control character is in it.
Preceded(c, rest) == {<<c>> \o r : r \in rest}
ReadFrom(text, i, reads) ==
  IF i > Len(text) + 1 THEN {}
  ELSE IF i = Len(text) + 1 THEN {<<>>}
  ELSE CASE text[i] \in {Quote, NewLine} -> {}
         [] text[i] \notin {Quote, NewLine, Backslash} -> Preceded(text[i], reads[i + 1])
         [] text[i] = Backslash /\ i = Len(text) -> {}
         [] text[i] = Backslash /\ i < Len(text) ->
              CASE text[i + 1] \in {Quote, Backslash} -> Preceded(text[i + 1], reads[i + 2])
                [] text[i + 1] = LetterN -> Preceded(NewLine, reads[i + 2])
                [] text[i + 1] \notin {Quote, Backslash, LetterN} -> {}
JsonRead(text) ==
  LET reads[i \in 1..(Len(text) + 2)] == ReadFrom(text, i, reads)
  IN  reads[1]
=============================================================================
