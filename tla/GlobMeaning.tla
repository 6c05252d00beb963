---------------------------- MODULE GlobMeaning ----------------------------
(***************************************************************************)
(* What a pattern of -find says, read segment by segment as the usage text *)
(* describes it, and whether the regular expression that Glob makes of it  *)
(* finds just that.                                                        *)
(***************************************************************************)
EXTENDS Glob

CONSTANT Paths   \* paths below the installation path, as sequences of names

\* A name is written with the characters that stand for themselves.
ASSUME PathsAssumption == Paths \subseteq Seq(Seq(Literals))

S == INSTANCE SequencesExt
P == INSTANCE Picking

Globstar == <<Star, Star>>
Wildcards == {Star, Question}
Has(word, characters) == \E j \in DOMAIN word : word[j] \in characters
LiteralsOf(segment) == P!Those(Literals, segment)

-----------------------------------------------------------------------------
(* The meaning of a pattern                                                 *)

\* The words between the separators of a pattern, the empty ones included.
WordsWith(words, c) ==
  IF c \in Separators THEN Append(words, <<>>)
  ELSE [words EXCEPT ![Len(words)] = Append(@, c)]
Words(characters) ==
  LET words[n \in 0..Len(characters)] ==
        IF n = 0 THEN <<<<>>>> ELSE WordsWith(words[n - 1], characters[n])
  IN  words[Len(characters)]

\* Separators may be repeated, and current directories are passed.
Segments(characters) == P!Those(Seq(Characters) \ {<<>>, <<Dot>>}, Words(characters))

\* A star stands for any characters, a question mark for one.
NameMatches(segment, name) ==
  Len(name) \in Reach([n \in DOMAIN segment |-> [j \in 0..Len(name) |->
    IF segment[n] = Star THEN j..Len(name)
    ELSE {i \in {j + 1} : i <= Len(name) /\ segment[n] \in {Question, name[i]}}]])

\* A globstar stands for any directories, and at the end for all below one.
Denotes(segments, names) ==
  Len(names) \in Reach([n \in DOMAIN segments |-> [j \in 0..Len(names) |->
    IF segments[n] = Globstar THEN {i \in j..Len(names) : n = Len(segments) => j < i}
    ELSE {i \in {j + 1} : i <= Len(names) /\ NameMatches(segments[n], names[i])}]])

\* Two stars side by side are a segment of their own, or wrong.
StarsTogether(segment) ==
  /\ segment # Globstar
  /\ \E j \in 1..(Len(segment) - 1) : segment[j] = Star /\ segment[j + 1] = Star

\* The parent directory may be named last, where it is no file.
Refused(characters) ==
  \/ Has(characters, Invalid)
  \/ \E j \in DOMAIN Words(characters) :
       \/ StarsTogether(Words(characters)[j])
       \/ j < Len(Words(characters)) /\ Words(characters)[j] = <<Dot, Dot>>

-----------------------------------------------------------------------------
(* The patterns that are not read as they are meant                         *)

\* A caret is an anchor of the regular expression.
CaretIsNoLiteral(words) == \E j \in DOMAIN words : Has(words[j], {Caret})

\* A star is only made a piece by a literal or a separator that follows it.
StarIsLeftRaw(words) == words # <<>> /\ S!Last(words) = <<Star>>
StarBeforeQuestion(words) == \E j \in DOMAIN words : S!IsPrefix(<<Star, Question>>, words[j])

\* A directory with wildcards is taken for what its literals spell.
LooksLikeDots(words) ==
  \E j \in 1..(Len(words) - 1) :
    Has(words[j], Wildcards) /\ LiteralsOf(words[j]) \in {<<Dot>>, <<Dot, Dot>>}

\* A separator is not known to repeat the one after a current directory.
RepeatAfterDot(words) ==
  \E j \in 2..(Len(words) - 1) :
    /\ words[j] = <<Dot>> /\ words[j + 1] = <<>>
    /\ \E k \in 1..(j - 1) : Has(words[k], Wildcards)

\* A pattern that ends as a directory does.
NamesADirectory(words) == words # <<>> /\ S!Last(words) \in {<<>>, <<Dot>>}

Defects(words) ==
  {defect \in {"caret", "trailing star", "star question", "dots", "repeat", "directory"} :
     CASE defect = "caret" -> CaretIsNoLiteral(words)
       [] defect = "trailing star" -> StarIsLeftRaw(words)
       [] defect = "star question" -> StarBeforeQuestion(words)
       [] defect = "dots" -> LooksLikeDots(words)
       [] defect = "repeat" -> RepeatAfterDot(words)
       [] defect = "directory" -> NamesADirectory(words)}

\* m_root /= value_raw may do more than append a name: a word D: or D:a before the
\* first wildcard leads to another drive, and C:.. up from the root, out of the
\* installation.  No test says what such a pattern should find.
NamesADrive(words) ==
  \E j \in 1..(Len(words) - 1) :
    NamesDrive(words[j]) /\ \A i \in 1..j : ~Has(words[i], Wildcards)

-----------------------------------------------------------------------------
(* Properties                                                               *)

\* The text of a path below another, and what is matched of it: without its first
\* separator if the root ends with one or with a drive.
Text(names) == S!FlattenSeq([j \in DOMAIN names |-> <<Sep>> \o names[j]])

Remainder(names) == IF base.bare THEN Tail(Text(names)) ELSE Text(names)

\* The walk begins at the root, at or below the installation path, and what is below
\* it is matched.
AtHome == base.home /\ base.above = 0
Finds(names) ==
  /\ AtHome /\ S!IsStrictPrefix(root, names)
  /\ Match(Remainder(SubSeq(names, Len(root) + 1, Len(names))))

\* The comment in the code: "Block parent directory references."  With a pattern
\* that names no drive before its first wildcard the search starts at a directory of
\* the installation, whatever dots and separators are in it.
RootStaysInside == AtHome \/ NamesADrive(Words(pattern))

FindsExactly ==
  LET segments == Segments(pattern)
  IN  \A names \in Paths : Finds(names) <=> Denotes(segments, names)

\* Of a pattern with none of the defects named above, the constructor refuses
\* those that the tests say are invalid, and no other: an invalid character, a
\* globstar beside anything but separators, a parent directory.
RefusesExactly ==
  pc \in {"compiled", "thrown"} /\ Defects(Words(pattern)) = {} =>
    (pc = "thrown" <=> Refused(pattern))

\* Such a pattern finds the files it denotes and no others, unless it names a drive.
FindsWhatIsDenoted ==
  pc = "compiled" /\ Defects(Words(pattern)) = {} /\ ~NamesADrive(Words(pattern)) => FindsExactly
=============================================================================
