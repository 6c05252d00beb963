-------------------------------- MODULE Glob --------------------------------
(***************************************************************************)
(* Glob: its constructor reads a pattern of -find character by character.  *)
(* Directories before the first wildcard are joined to the root of the     *)
(* search; all that follows becomes a regular expression for the rest of   *)
(* a path, its first separator included.                                   *)
(*                                                                         *)
(* m_root is two variables: root, the names joined to it, and base, what   *)
(* they are below.  That is the installation path, until a word names      *)
(* another drive: then it is the directory that is current on that drive.  *)
(*                                                                         *)
(* Characters have no letter case.  A regular expression is a sequence of  *)
(* the pieces the code appends; a literal is a piece of its own, whether   *)
(* it is escaped or not.                                                   *)
(***************************************************************************)
EXTENDS Integers, Sequences

CONSTANTS
  Separators,  \* the slash and the backslash
  Star,        \* *
  Question,    \* ?
  Dot,         \* .
  Caret,       \* ^, a literal of a name that is not escaped
  Colon,       \* :
  Letters,     \* of drives; two spellings of a drive are two letters
  Literals,    \* the characters that stand for themselves: those and others
  Invalid,     \* the bar and control characters
  Null,        \* lastch before the first character
  NoDrive,     \* the root name of a path that is on no drive
  RootNames,   \* those of installation paths: the letter of a drive, or NoDrive
  Patterns     \* the patterns that may be given

Characters == Separators \cup {Star, Question} \cup Literals \cup Invalid

\* Pieces of regular expressions, as a reader of std::wregex writes them.
Sep      == "\\\\"
NotSep   == "[^\\]"
NamePart == "[^\\]*"
Deep     == "(.*\\\\)?"
Rest     == ".*"
Pieces   == {Sep, NotSep, NamePart, Deep, Rest, Star} \cup Literals

ASSUME CharactersAssumption ==
  /\ Star # Question /\ Dot # Caret
  /\ Dot \in Literals /\ Caret \in Literals
  /\ Colon \in Literals /\ Letters \subseteq Literals
  /\ RootNames \subseteq Letters \cup {NoDrive}
  /\ {Star, Question} \cap (Separators \cup Literals \cup Invalid) = {}
  /\ Separators \cap (Literals \cup Invalid) = {} /\ Literals \cap Invalid = {}
  /\ {Sep, NotSep, NamePart, Deep, Rest} \cap ({Star} \cup Literals) = {}
  /\ Null \notin Characters
ASSUME PatternsAssumption == Patterns \subseteq Seq(Characters)

VARIABLES
  pattern,        \* the parameter
  pc,             \* the control point
  it,             \* the position of ch
  base,           \* m_root: what its names are below
  root,           \* m_root: its names below that
  value,          \* the piece of the regular expression at hand
  valueRaw,       \* the literals of the segment at hand
  accumulator,    \* the regular expression
  foundGlobstar,  \* value is **
  foundWildcard,  \* there was a wildcard
  lastch          \* the character before

scan == <<base, root, value, valueRaw, accumulator, foundGlobstar, foundWildcard>>
vars == <<pattern, pc, it, scan, lastch>>

\* home: it is the installation path, or above it, and else the directory that is
\* current on the drive.  above: so many names up.  bare: the path ends with a
\* separator or a drive, and what is below follows without a separator.
Bases == [home : BOOLEAN, drive : Letters \cup {NoDrive}, above : Nat, bare : BOOLEAN]
Home(drive)    == [home |-> TRUE, drive |-> drive, above |-> 0, bare |-> FALSE]
Current(drive) == [home |-> FALSE, drive |-> drive, above |-> 0, bare |-> TRUE]

Init ==
  /\ pattern \in Patterns
  /\ pc = "scan"
  /\ it = 1
  /\ base \in {Home(drive) : drive \in RootNames}
  /\ root = <<>>
  /\ value = <<>> /\ valueRaw = <<>>
  /\ accumulator = <<Sep>>
  /\ foundGlobstar = FALSE /\ foundWildcard = FALSE
  /\ lastch = Null

ch == pattern[it]
At(characters) == pc = "scan" /\ it <= Len(pattern) /\ ch \in characters

\* ThrowError
Throw ==
  /\ pc' = "thrown"
  /\ UNCHANGED <<pattern, it, scan, lastch>>

Advance ==
  /\ it' = it + 1
  /\ lastch' = ch
  /\ UNCHANGED <<pattern, pc>>

\* The loop goes on without taking the character for the last one.
Continue ==
  /\ it' = it + 1
  /\ UNCHANGED <<pattern, pc, lastch>>

Clear == value' = <<>> /\ valueRaw' = <<>>

\* A lone star becomes a name, or a part of one, only when something follows it.
Piece == IF value = <<Star>> THEN <<NamePart>> ELSE value

-----------------------------------------------------------------------------
(* Separators                                                               *)

AfterSegment == At(Separators) /\ lastch \notin Separators

RepeatedSeparator ==
  /\ At(Separators) /\ lastch \in Separators
  /\ Continue
  /\ UNCHANGED scan

\* At the start of the pattern, or after a current directory.
NoSegment ==
  /\ AfterSegment /\ value = <<>>
  /\ accumulator' = IF foundWildcard THEN Append(accumulator, Sep) ELSE accumulator
  /\ Advance
  /\ UNCHANGED <<base, root, value, valueRaw, foundGlobstar, foundWildcard>>

\* Faulty variant of EndGlobstar: the flag is not reset.
EndGlobstarKeeps ==
  /\ AfterSegment /\ foundGlobstar
  /\ accumulator' = Append(accumulator, Deep)
  /\ Clear
  /\ Advance
  /\ UNCHANGED <<base, root, foundGlobstar, foundWildcard>>

\* Faulty variant of EndGlobstar: another separator is asked for.
EndGlobstarTwice ==
  /\ AfterSegment /\ foundGlobstar
  /\ accumulator' = accumulator \o <<Deep, Sep>>
  /\ foundGlobstar' = FALSE
  /\ Clear
  /\ Advance
  /\ UNCHANGED <<base, root, foundWildcard>>

\* The separator is in the piece.
EndGlobstar ==
  /\ AfterSegment /\ foundGlobstar
  /\ accumulator' = Append(accumulator, Deep)
  /\ foundGlobstar' = FALSE
  /\ Clear
  /\ Advance
  /\ UNCHANGED <<base, root, foundWildcard>>

\* A segment is known by its literals only, wildcards in it or not.
CurrentDirectory ==
  /\ AfterSegment /\ value # <<>> /\ ~foundGlobstar
  /\ valueRaw = <<Dot>>
  /\ Clear
  /\ Continue
  /\ UNCHANGED <<base, root, accumulator, foundGlobstar, foundWildcard>>

\* Faulty variant of IsParent: a parent directory is a name like others.
IsParentNever == FALSE

IsParent == valueRaw = <<Dot, Dot>>

ParentDirectory ==
  /\ AfterSegment /\ value # <<>> /\ ~foundGlobstar
  /\ IsParent
  /\ Throw

\* A word that begins with a drive, such as D: or D:a.
NamesDrive(word) == Len(word) >= 2 /\ word[1] \in Letters /\ word[2] = Colon
AfterDrive(word) == SubSeq(word, 3, Len(word))

\* The path from and names with one name more, a dot or two read as the file system
\* does; no name leaves a separator at the end.
Enter(from, names, name) ==
  \/ /\ name = <<>>
     /\ base' = [from EXCEPT !.bare = TRUE] /\ root' = names
  \/ /\ name = <<Dot>>
     /\ base' = [from EXCEPT !.bare = FALSE] /\ root' = names
  \/ /\ name = <<Dot, Dot>> /\ names # <<>>
     /\ base' = [from EXCEPT !.bare = FALSE] /\ root' = SubSeq(names, 1, Len(names) - 1)
  \/ /\ name = <<Dot, Dot>> /\ names = <<>>
     /\ base' = [from EXCEPT !.bare = FALSE, !.above = @ + 1] /\ root' = names
  \/ /\ name \notin {<<>>, <<Dot>>, <<Dot, Dot>>}
     /\ base' = [from EXCEPT !.bare = FALSE] /\ root' = Append(names, name)

\* m_root /= value_raw: a word that names the drive of the path goes on from it, one
\* that names another replaces it.
Join(word) ==
  \/ ~NamesDrive(word) /\ Enter(base, root, word)
  \/ NamesDrive(word) /\ word[1] = base.drive /\ Enter(base, root, AfterDrive(word))
  \/ NamesDrive(word) /\ word[1] # base.drive /\ Enter(Current(word[1]), <<>>, AfterDrive(word))

EndSegment ==
  /\ AfterSegment /\ value # <<>> /\ ~foundGlobstar
  /\ valueRaw # <<Dot>> /\ ~IsParent
  /\ IF foundWildcard
       THEN accumulator' = accumulator \o Append(Piece, Sep) /\ UNCHANGED <<base, root>>
       ELSE Join(valueRaw) /\ UNCHANGED accumulator
  /\ Clear
  /\ Advance
  /\ UNCHANGED <<foundGlobstar, foundWildcard>>

-----------------------------------------------------------------------------
(* Wildcards and names                                                      *)

\* Faulty variant of FirstStar: a star is always a piece of a name.
FirstStarPart ==
  /\ At({Star}) /\ value = <<>>
  /\ value' = <<NamePart>>
  /\ foundWildcard' = TRUE
  /\ Advance
  /\ UNCHANGED <<base, root, valueRaw, accumulator, foundGlobstar>>

FirstStar ==
  /\ At({Star}) /\ value = <<>>
  /\ value' = <<Star>>
  /\ foundWildcard' = TRUE
  /\ Advance
  /\ UNCHANGED <<base, root, valueRaw, accumulator, foundGlobstar>>

SecondStar ==
  /\ At({Star}) /\ value = <<Star>> /\ ~foundGlobstar
  /\ value' = <<Star, Star>>
  /\ foundGlobstar' = TRUE
  /\ foundWildcard' = TRUE
  /\ Advance
  /\ UNCHANGED <<base, root, valueRaw, accumulator>>

LaterStar ==
  /\ At({Star}) /\ ~foundGlobstar
  /\ value \notin {<<>>, <<Star>>}
  /\ IF lastch = Star
       THEN Throw
       ELSE /\ value' = Append(value, NamePart)
            /\ foundWildcard' = TRUE
            /\ Advance
            /\ UNCHANGED <<base, root, valueRaw, accumulator, foundGlobstar>>

AnyCharacter ==
  /\ At({Question}) /\ ~foundGlobstar
  /\ value' = Append(value, NotSep)
  /\ foundWildcard' = TRUE
  /\ Advance
  /\ UNCHANGED <<base, root, valueRaw, accumulator, foundGlobstar>>

\* Nothing but a separator may follow a globstar.
AfterGlobstar ==
  /\ At(Characters \ Separators) /\ foundGlobstar
  /\ Throw

InvalidCharacter == At(Invalid) /\ ~foundGlobstar /\ Throw

Literal ==
  /\ At(Literals) /\ ~foundGlobstar
  /\ accumulator' = IF foundWildcard THEN accumulator \o Piece ELSE accumulator
  /\ value' = IF foundWildcard THEN <<ch>> ELSE Append(value, ch)
  /\ valueRaw' = Append(valueRaw, ch)
  /\ Advance
  /\ UNCHANGED <<base, root, foundGlobstar, foundWildcard>>

-----------------------------------------------------------------------------
(* The regular expression                                                   *)

\* std::wregex refuses to repeat what is repeated, or nothing.
Compiles(re) ==
  \A j \in DOMAIN re : re[j] = Star =>
    j > 1 /\ re[j - 1] \notin {Star, NamePart, Deep, Rest, Caret}

\* What is at hand at the end is appended as it is, but for a globstar.
Compile ==
  /\ pc = "scan" /\ it > Len(pattern)
  /\ accumulator' = accumulator \o (IF foundGlobstar THEN <<Rest>> ELSE value)
  /\ pc' = IF Compiles(accumulator') THEN "compiled" ELSE "thrown"
  /\ UNCHANGED <<pattern, it, base, root, value, valueRaw, foundGlobstar, foundWildcard, lastch>>

Done == pc \in {"compiled", "thrown"} /\ UNCHANGED vars

Step ==
  \/ RepeatedSeparator
  \/ NoSegment
  \/ EndGlobstar
  \/ CurrentDirectory
  \/ ParentDirectory
  \/ EndSegment
  \/ FirstStar
  \/ SecondStar
  \/ LaterStar
  \/ AnyCharacter
  \/ AfterGlobstar
  \/ InvalidCharacter
  \/ Literal
  \/ Compile

Next == Step \/ Done

Spec == Init /\ [][Next]_vars

-----------------------------------------------------------------------------
(* Matching                                                                 *)

\* Where a reader may stand who begins at 0 and takes the steps one by one; a step
\* says of each place where it may lead.
Reach(steps) ==
  LET after[n \in 0..Len(steps)] ==
        IF n = 0 THEN {0} ELSE UNION {steps[n][j] : j \in after[n - 1]}
  IN  after[Len(steps)]

\* Whether one piece takes one character of a text, a backslash being Sep.
Takes(piece, c) == IF piece = NotSep THEN c # Sep ELSE piece = c

Repeated(re, n) == n < Len(re) /\ re[n + 1] = Star

\* How far a piece may take a reader who stands after the j-th character.
Taken(piece, text, j) ==
  CASE piece = Caret -> {j} \cap {0}
    [] piece = NamePart -> {i \in j..Len(text) : \A m \in (j + 1)..i : text[m] # Sep}
    [] piece = Rest -> j..Len(text)
    [] piece = Deep -> {i \in j..Len(text) : i = j \/ text[i] = Sep}
    [] OTHER -> {i \in {j + 1} : i <= Len(text) /\ Takes(piece, text[i])}

\* std::regex_match: the pieces take all of the text.
RegexMatch(re, text) ==
  Len(text) \in Reach([n \in DOMAIN re |-> [j \in 0..Len(text) |->
    IF Repeated(re, n) THEN {i \in j..Len(text) : \A m \in (j + 1)..i : Takes(re[n], text[m])}
    ELSE IF re[n] = Star THEN {j} ELSE Taken(re[n], text, j)]])

\* Match of the text below the root; Entries gives it only paths below the root.
Match(text) == text # <<>> /\ RegexMatch(accumulator, text)

-----------------------------------------------------------------------------
(* Properties                                                               *)

\* Types; the flag that is only reset at a separator says what is at hand; and a
\* raw star is the first of its segment.
TypeOK ==
  /\ pattern \in Patterns
  /\ pc \in {"scan", "compiled", "thrown"}
  /\ it \in 1..(Len(pattern) + 1)
  /\ base \in Bases /\ root \in Seq(Seq(Literals))
  /\ value \in Seq(Pieces) /\ valueRaw \in Seq(Literals)
  /\ accumulator \in Seq(Pieces)
  /\ foundGlobstar \in BOOLEAN /\ foundWildcard \in BOOLEAN
  /\ foundGlobstar <=> value = <<Star, Star>>
  /\ lastch \in Characters \cup {Null}
=============================================================================
